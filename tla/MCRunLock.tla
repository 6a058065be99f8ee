----------------------------- MODULE MCRunLock -----------------------------
(* Model values for the runs of RunLock. *)
EXTENDS RunLock

CONSTANTS p1, p2

TwoProcs == {p1, p2}
OnePath == <<"a.lock">>
TwoPaths == <<"a.lock", "b.lock">>
=============================================================================
