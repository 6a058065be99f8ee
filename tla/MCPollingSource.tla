-------------------------- MODULE MCPollingSource --------------------------
(* Model values for the runs of PollingSource. *)
EXTENDS PollingSource

CONSTANTS m1, m2, m3

ThreeMails == {m1, m2, m3}
NoExpunge == {}
ExpungeUnpolled == {"unpolled"}
ExpungeAny == {"unpolled", "pending", "handled"}
=============================================================================
