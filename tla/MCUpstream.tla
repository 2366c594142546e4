----------------------------- MODULE MCUpstream -----------------------------
(* Upstream on small instances.  The endpoint lists are those Resolve       *)
(* returns: distinct instances, and an instance listed twice for weight.    *)
EXTENDS Upstream

TwoHosts == <<"r1", "r2">>
ThreeHosts == <<"r1", "r2", "r3">>
Weighted == <<"r1", "r1", "r2">>
=============================================================================
