---------------------------- MODULE MCKafkaPool -----------------------------
(* KafkaPool with a channel of two slots and two requests of two logs each,  *)
(* so that it fills, drops and drains; two goroutines close it.              *)
EXTENDS KafkaPool

Requests == {"p1", "p2"}
Shutdowns == {"k1", "k2"}
=============================================================================
