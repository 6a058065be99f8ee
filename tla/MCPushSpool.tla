---------------------------- MODULE MCPushSpool ----------------------------
(* Model values for the runs of PushSpool. *)
EXTENDS PushSpool

CONSTANTS k1, k2, r1, r2

OneKey == {k1}
TwoKeys == {k1, k2}
TwoRequests == {r1, r2}
NoTear == {}
TearAny == {"mark", "removing"}
=============================================================================
