---------------------------- MODULE ServiceWiring ----------------------------
(***************************************************************************)
(* The start of recommend: the yaml under the environment, and what the    *)
(* service is made of.  A path is "" when it is not set; what a variable   *)
(* of the environment lists is a sequence, empty when it is not set.       *)
(***************************************************************************)
EXTENDS Resolution

CONSTANT Files  \* path -> the library in it, for the files that are there and sound

ASSUME FilesAssumption ==
  \A path \in DOMAIN Files :
    LET lib == Files[path]
    IN  /\ lib \in Seq(ToSet(lib))
        /\ \A b \in DOMAIN lib : lib[b].rows \in Seq(ToSet(lib[b].rows))

\* a list in the environment replaces the one of the yaml, even by nothing: its
\* blank entries are dropped (splitComma)
ApplyEnvOverrides(c, env) ==
  [c EXCEPT
     !.rank.Endpoints = IF env.rank = <<>> THEN @ ELSE SelectSeq(env.rank, LAMBDA e : e.host # ""),
     !.kafka.Enabled = @ \/ env.push,
     !.kafka.Brokers = IF env.brokers = <<>> THEN @ ELSE SelectSeq(env.brokers, LAMBDA b : b # ""),
     !.kafka.Topic = IF env.topic = "" THEN @ ELSE env.topic,
     !.Disabled = @ \/ env.redisOff]

EnabledOn(kafka) == kafka.Enabled /\ kafka.Brokers # <<>> /\ kafka.Topic # ""

\* the recall file of center mode has precedence
Mode(c) == IF c.CenterRecall # "" THEN "center" ELSE IF c.Funnel # "" THEN "funnel" ELSE "stub"

\* the files the mode opens
Opened(c) ==
  CASE Mode(c) = "center" -> {c.CenterRecall, c.CenterFilter, c.CenterShow} \ {""}
    [] Mode(c) = "funnel" -> {c.Funnel}
    [] OTHER -> {}

\* a layer without a file has no rows
Library(path) == IF path \in DOMAIN Files THEN Files[path] ELSE <<>>

\* the service, or nothing when a part of it fails; a rank client exists only
\* with an address, a log pool that is not fully configured drops everything
NewServiceContext(c, fetch) ==
  IF fetch = "error" \/ ~(Opened(c) \subseteq DOMAIN Files) THEN <<>>
  ELSE <<[hasRank |-> ResolveEndpoints(c.rank) # <<>>, features |-> fetch = "redis",
          mode |-> Mode(c), logs |-> EnabledOn(c.kafka), recall |-> c.CenterRecall,
          filter |-> c.CenterFilter, show |-> c.CenterShow, funnel |-> c.Funnel]>>
=============================================================================
