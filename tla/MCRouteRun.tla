---------------------------- MODULE MCRouteRun ----------------------------
(* A route with a poll source and a push source, and two processes. *)
EXTENDS RouteRun

CONSTANTS p1, p2

TwoProcs == {p1, p2}
TwoPaths == <<"a.lock", "b.lock">>
PollAndPush == <<"poll", "push">>
(* One that stays, and one that the operator tries meanwhile. *)
StayAndTry == [p \in TwoProcs |-> IF p = p1 THEN {"run", "once"} ELSE {"debug"}]
=============================================================================
