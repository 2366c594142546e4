----------------------------- MODULE LossyFifo ------------------------------
(***************************************************************************)
(* What pkg/kafkapush promises of the algorithm logs: it accepts a log     *)
(* unless Capacity logs wait already, never blocks the request that pushes *)
(* it, and lets the accepted logs out in the order it accepted them, each  *)
(* once.  A log that is not accepted is lost, and so is the backlog of a   *)
(* process that ends.                                                      *)
(***************************************************************************)
EXTENDS Integers, Sequences

CONSTANTS Messages, Capacity

VARIABLES
  accepted,  \* the logs accepted so far, in order
  released,  \* those that have left, in order
  lost       \* the logs refused

vars == <<accepted, released, lost>>

Init == accepted = <<>> /\ released = <<>> /\ lost = {}

Backlog == Len(accepted) - Len(released)

Accept(m) ==
  /\ Backlog < Capacity
  /\ accepted' = Append(accepted, m)
  /\ UNCHANGED <<released, lost>>

Refuse(m) ==
  /\ Backlog >= Capacity
  /\ lost' = lost \cup {m}
  /\ UNCHANGED <<accepted, released>>

Release ==
  /\ Backlog > 0
  /\ released' = Append(released, accepted[Len(released) + 1])
  /\ UNCHANGED <<accepted, lost>>

Next == (\E m \in Messages : Accept(m) \/ Refuse(m)) \/ Release

Spec == Init /\ [][Next]_vars
=============================================================================
