---------------------------- MODULE FeatureRedis ----------------------------
(***************************************************************************)
(* How a service gets to its feature store at start-up: the password of    *)
(* the configuration, which may be wrapped (pkg/redisdecrypt), and the     *)
(* ping that admits it (featurestore.NewFetcher).  A block is BlockSize    *)
(* bytes, a byte of text one bit, so that xor is addition modulo 2; a      *)
(* number below 0 stands for digits that are not hexadecimal.  What may be *)
(* missing is a sequence, empty when it is.                                *)
(***************************************************************************)
EXTENDS Integers, SequencesExt

CONSTANTS
  BlockSize,  \* 16 in the code
  Cipher      \* AES under the key: a permutation of the blocks

Block == [1 .. BlockSize -> 0 .. 1]

ASSUME BlockSizeAssumption == BlockSize \in Nat \ {0}
ASSUME CipherAssumption == Cipher \in [Block -> Block] /\ IsInjective(Cipher)

Zero == [i \in 1 .. BlockSize |-> 0]
Xor(b, c) == [i \in 1 .. BlockSize |-> (b[i] + c[i]) % 2]
\* block n of s, block 0 being zero
BlockOf(s, n) == IF n = 0 THEN Zero ELSE SubSeq(s, ((n - 1) * BlockSize) + 1, n * BlockSize)

\* every block is mixed with the cipher of the one before; the last may be
\* short, and then its length follows as one byte
EncryptPassword(plain) ==
  LET blocks == (Len(plain) + BlockSize - 1) \div BlockSize
      padded == plain \o Zero
      out[n \in 0 .. blocks] ==
        IF n = 0 THEN <<>>
        ELSE out[n - 1] \o Cipher[Xor(BlockOf(out[n - 1], n - 1), BlockOf(padded, n))]
      rem == Len(plain) % BlockSize
  IN  IF rem = 0 THEN out[blocks] ELSE Append(out[blocks], rem)

\* mutant: the length byte is taken for the number of bytes to drop
Dropped_Pad(pad) == pad
\* the length byte says how much of the last block is text
Dropped(pad) == BlockSize - pad

\* the text, or nothing: not hexadecimal, too short, or with a tail that is not
\* a length byte
DecryptPassword(hex) ==
  LET rem == Len(hex) % BlockSize
      Plain(n) == Xor(AntiFunction(Cipher)[BlockOf(hex, n)], BlockOf(hex, n - 1))
      plain == [i \in 1 .. Len(hex) - rem |->
                  Plain(((i - 1) \div BlockSize) + 1)[((i - 1) % BlockSize) + 1]]
      drop == IF rem = 0 THEN 0 ELSE Dropped(Last(hex))
  IN  IF \/ \E i \in DOMAIN hex : hex[i] < 0
         \/ Len(hex) < BlockSize
         \/ rem > 1
         \/ rem = 1 /\ Last(hex) \notin 1 .. BlockSize - 1
        THEN <<>>
        ELSE <<SubSeq(plain, 1, Len(plain) - drop)>>

\* the password NewFetcher presents, if it has one; c.env is
\* RECSYS_REDIS_PASSWORD_HEX
Login(c) ==
  LET hex == IF c.PasswordHex # <<>> THEN c.PasswordHex ELSE c.env
  IN  IF c.Disabled \/ hex = <<>> THEN <<>>
      ELSE IF c.Crypto THEN DecryptPassword(hex) ELSE <<hex>>

\* no store by choice, the store, or an error; reachable says whether Redis
\* answers the ping
NewFetcher(c, reachable) ==
  IF c.Disabled THEN "none"
  ELSE IF Login(c) = <<c.password>> /\ reachable THEN "redis" ELSE "error"
=============================================================================
