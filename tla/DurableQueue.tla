---------------------------- MODULE DurableQueue ----------------------------
(***************************************************************************)
(* What the push spool promises to a sender: a delivery that was answered  *)
(* with 202 stays in the queue until a route has handled it.  A delivery   *)
(* may be put again at any time; it may be taken out only when handled.    *)
(***************************************************************************)
CONSTANT Keys   \* delivery keys

VARIABLES
  queued,    \* the deliveries the queue holds
  answered,  \* the deliveries the sender was told are accepted
  handled    \* the deliveries a route has handled

vars == <<queued, answered, handled>>

Init == queued = {} /\ answered = {} /\ handled = {}

(* The queue takes a delivery and says so. *)
Put(k) ==
  /\ queued' = queued \cup {k}
  /\ answered' = answered \cup {k}
  /\ UNCHANGED handled

(* A repeated delivery is called a duplicate only if the first one is safe. *)
AnswerDuplicate(k) ==
  /\ k \in queued \cup handled
  /\ answered' = answered \cup {k}
  /\ UNCHANGED <<queued, handled>>

Handle(k) ==
  /\ k \in queued
  /\ handled' = handled \cup {k}
  /\ UNCHANGED <<queued, answered>>

Remove(k) ==
  /\ k \in handled
  /\ queued' = queued \ {k}
  /\ UNCHANGED <<answered, handled>>

Next == \E k \in Keys : Put(k) \/ AnswerDuplicate(k) \/ Handle(k) \/ Remove(k)

Spec == Init /\ [][Next]_vars
=============================================================================
