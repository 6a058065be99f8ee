-------------------------- MODULE PushSpoolProofs --------------------------
(***************************************************************************)
(* Proofs about PushSpool, for every number of deliveries and handlers and *)
(* every number of crashes and failed calls: TypeOK, the invariant         *)
(* SpoolInv behind AcceptedIsKept, and that the spool implements the       *)
(* durable queue of DurableQueue.                                          *)
(***************************************************************************)
EXTENDS PushSpool, TLAPS

(* The directory entry a handler is at is one of those it has listed. *)
LEMMA EntryIsListed ==
  ASSUME NEW r, rlist[r] # {}
  PROVE  Entry(r) \in rlist[r]
  BY DEF Entry

(* Every handler's step, and every failure of it, keeps the types. *)
LEMMA HandlerTypes ==
  ASSUME TypeOK, HandlersHold, NEW r \in Requests,
         HandlerStep(r) \/ RequestFails(r) \/ \E k \in Keys : Receive(r, k)
  PROVE  TypeOK'
  <1> USE DEF TypeOK, Goto, Release, Refuse, Accept, DropEntry, Fault, spool, worker
  <1>0. rlist[r] \subseteq Keys /\ (rpc[r] # "free" => rkey[r] \in Keys)
    BY DEF HandlersHold
  <1>1. ASSUME NEW k \in Keys, Receive(r, k) PROVE TypeOK'
    BY <1>1, SpoolBoundAssumption DEF Receive
  <1>2. CASE ListSeen(r)
    BY <1>2 DEF ListSeen
  <1>3. CASE ReadSeen(r)
    BY <1>3, <1>0 DEF ReadSeen
  <1>10. CASE StatEntries(r)
    BY <1>10, <1>0 DEF StatEntries, StatEntry
  <1>4. CASE RemoveSeen(r)
    <2>1. Entry(r) \in Keys
      BY <1>4, <1>0, EntryIsListed DEF RemoveSeen, HandlersHold
    <2> QED BY <1>4, <2>1 DEF RemoveSeen
  <1>5. CASE CheckMarker(r)
    BY <1>5, <1>0 DEF CheckMarker
  <1>6. CASE StatPending(r)
    BY <1>6, <1>0 DEF StatPending
  <1>7. CASE StatProcessing(r)
    BY <1>7, <1>0 DEF StatProcessing
  <1>8. CASE Commit(r)
    BY <1>8, <1>0 DEF Commit, Contents
  <1>9. CASE RequestFails(r)
    BY <1>9 DEF RequestFails
  <1> QED
    BY <1>1, <1>2, <1>3, <1>4, <1>5, <1>6, <1>7, <1>8, <1>9, <1>10 DEF HandlerStep

(* So does every step of the worker and of the process. *)
LEMMA WorkerTypes ==
  ASSUME TypeOK, ClaimIsHeld, WorkerStep \/ WorkerFails \/ Crash \/ \E k \in Keys : Expire(k)
  PROVE  TypeOK'
  <1> USE DEF TypeOK, Worker, Stop, Down, Fault, spool, handlers, worker, Contents
  <1>1. CASE RequeueList
    BY <1>1 DEF RequeueList, ProcessingEntries
  <1>2. ASSUME NEW k \in Keys, RequeueStat(k) PROVE TypeOK'
    BY <1>2 DEF RequeueStat
  <1>3. CASE RequeueRename
    BY <1>3 DEF RequeueRename, Requeued
  <1>4. CASE RequeueDone
    BY <1>4 DEF RequeueDone
  <1>5. ASSUME NEW k \in Keys, ClaimNext(k) PROVE TypeOK'
    BY <1>5 DEF ClaimNext
  <1>6. CASE ClaimNextFails
    BY <1>6 DEF ClaimNextFails
  <1>7. CASE Resume
    <2>1. tx[cur] \in {"delivered", "acked", "completed"}
      BY <1>7 DEF Resume, ClaimIsHeld
    <2> QED BY <1>7, <2>1 DEF Resume
  <1>8. CASE Deliver
    BY <1>8 DEF Deliver
  <1>9. CASE CreateMarker
    BY <1>9 DEF CreateMarker
  <1>10. CASE WriteMarker
    BY <1>10 DEF WriteMarker
  <1>11. CASE SaveAcked
    BY <1>11 DEF SaveAcked, AfterAcked
  <1>12. CASE SaveCompleted
    BY <1>12 DEF SaveCompleted
  <1>13. CASE Removal
    <2>1. processing[cur] \in {"whole", "noMIME", "noMeta"}
      BY <1>13 DEF Removal, ClaimIsHeld
    <2>2. PICK content \in Unlinked(processing[cur]) :
            /\ processing' = [processing EXCEPT ![cur] = content]
            /\ IF content = "none" THEN Worker("idle") /\ cur' = NoKey
                                   ELSE Worker("removing") /\ UNCHANGED cur
      BY <1>13 DEF Removal
    <2>3. content \in Contents
      BY <2>1, <2>2 DEF Unlinked
    <2> QED BY <1>13, <2>2, <2>3 DEF Removal
  <1>14. CASE Exit
    BY <1>14 DEF Exit
  <1>15. CASE Boot
    BY <1>15 DEF Boot
  <1>16. CASE WorkerFails
    BY <1>16 DEF WorkerFails
  <1>17. CASE Crash
    BY <1>17 DEF Crash
  <1>18. ASSUME NEW k \in Keys, Expire(k) PROVE TypeOK'
    BY <1>18 DEF Expire
  <1> QED
    BY <1>1, <1>2, <1>3, <1>4, <1>5, <1>6, <1>7, <1>8, <1>9, <1>10, <1>11, <1>12,
       <1>13, <1>14, <1>15, <1>16, <1>17, <1>18 DEF WorkerStep

(* The initial state has both. *)
LEMMA InitInv == Init => TypeOK /\ SpoolInv
  BY SpoolBoundAssumption
     DEF Init, TypeOK, Contents, SpoolInv, AcceptedIsKept, SeenIsDelivered, ClaimIsHeld,
         HandlersHold, DamagedIsCompleted, Damaged, Queued

(* A step that leaves spool, transactions and worker alone and accepts at   *)
(* most a delivery that is safe keeps the invariant.                        *)
LEMMA HandlerFrame ==
  ASSUME TypeOK, SpoolInv, HandlersHold', UNCHANGED <<spool, tx, worker>>,
         \A k \in answered' \ answered : Queued(k) \/ tx[k] # "none"
  PROVE  SpoolInv'
  BY DEF SpoolInv, AcceptedIsKept, SeenIsDelivered, ClaimIsHeld, DamagedIsCompleted,
         Queued, spool, worker

(* A handler keeps what handlers hold. *)
LEMMA HandlersStep ==
  ASSUME TypeOK, HandlersHold, NEW r \in Requests,
         HandlerStep(r) \/ RequestFails(r) \/ \E k \in Keys : Receive(r, k)
  PROVE  HandlersHold'
  <1> USE DEF TypeOK, HandlersHold, Goto, Release, Refuse, Accept, DropEntry
  <1>1. ASSUME NEW k \in Keys, Receive(r, k) PROVE HandlersHold'
    BY <1>1 DEF Receive
  <1>2. CASE ListSeen(r)
    BY <1>2 DEF ListSeen
  <1>3. CASE ReadSeen(r)
    BY <1>3 DEF ReadSeen
  <1>10. CASE StatEntries(r)
    BY <1>10 DEF StatEntries, StatEntry
  <1>4. CASE RemoveSeen(r)
    BY <1>4 DEF RemoveSeen
  <1>5. CASE CheckMarker(r)
    BY <1>5 DEF CheckMarker
  <1>6. CASE StatPending(r)
    BY <1>6 DEF StatPending
  <1>7. CASE StatProcessing(r)
    BY <1>7 DEF StatProcessing
  <1>8. CASE Commit(r)
    BY <1>8 DEF Commit
  <1>9. CASE RequestFails(r)
    BY <1>9 DEF RequestFails
  <1> QED
    BY <1>1, <1>2, <1>3, <1>4, <1>5, <1>6, <1>7, <1>8, <1>9, <1>10 DEF HandlerStep

(* A handler keeps the invariant: it accepts a delivery only when it has    *)
(* seen it in the spool, has seen its marker, or has just put it there.     *)
LEMMA HandlerInv ==
  ASSUME TypeOK, SpoolInv, NEW r \in Requests,
         HandlerStep(r) \/ RequestFails(r) \/ \E k \in Keys : Receive(r, k)
  PROVE  SpoolInv'
  <1>h. HandlersHold'
    BY HandlersStep DEF SpoolInv
  <1>k. rpc[r] # "free" => rkey[r] \in Keys
    BY DEF SpoolInv, HandlersHold
  <1>1. ASSUME NEW k \in Keys, Receive(r, k) PROVE SpoolInv'
    BY <1>1, <1>h, HandlerFrame DEF Receive
  <1>2. CASE ListSeen(r)
    BY <1>2, <1>h, HandlerFrame DEF ListSeen
  <1>3. CASE ReadSeen(r)
    BY <1>3, <1>h, HandlerFrame DEF ReadSeen, Refuse
  <1>10. CASE StatEntries(r)
    BY <1>10, <1>h, HandlerFrame DEF StatEntries, StatEntry
  <1>4. CASE RemoveSeen(r)
    <2>1. /\ UNCHANGED <<pending, processing, tx, wpc, cur, todo, answered>>
          /\ \A k \in Keys : seen'[k] # "none" => seen[k] # "none"
      BY <1>4 DEF RemoveSeen, worker, TypeOK
    <2> QED
      BY <2>1, <1>h DEF SpoolInv, AcceptedIsKept, SeenIsDelivered, ClaimIsHeld,
                        DamagedIsCompleted, Damaged, Queued
  <1>5. CASE CheckMarker(r)
    <2>1. seen[rkey[r]] = "fresh" => tx[rkey[r]] # "none"
      BY <1>5, <1>k DEF CheckMarker, SpoolInv, SeenIsDelivered
    <2> QED BY <1>5, <2>1, <1>h, HandlerFrame DEF CheckMarker, Refuse, Accept
  <1>6. CASE StatPending(r)
    BY <1>6, <1>h, HandlerFrame DEF StatPending, InPending, Accept, Queued
  <1>7. CASE StatProcessing(r)
    BY <1>7, <1>h, HandlerFrame DEF StatProcessing, Accept, Queued
  <1>8. CASE Commit(r)
    <2>1. rkey[r] \in Keys
      BY <1>8, <1>k DEF Commit
    <2>2. /\ UNCHANGED <<processing, seen, tx, wpc, cur, todo>>
          /\ answered' = answered \cup {rkey[r]}
          /\ pending'[rkey[r]] # "none"
          /\ \A k \in Keys : pending'[k] = pending[k] \/ pending'[k] = "whole"
      BY <1>8, <2>1 DEF Commit, Accept, worker, TypeOK
    <2> QED
      BY <2>1, <2>2, <1>h DEF SpoolInv, AcceptedIsKept, SeenIsDelivered, ClaimIsHeld,
                              DamagedIsCompleted, Damaged, Queued, TypeOK
  <1>9. CASE RequestFails(r)
    BY <1>9, <1>h, HandlerFrame DEF RequestFails, Refuse
  <1> QED
    BY <1>1, <1>2, <1>3, <1>4, <1>5, <1>6, <1>7, <1>8, <1>9, <1>10 DEF HandlerStep

(* A step of the worker that leaves the spool, the transactions and the     *)
(* handlers alone keeps the invariant if the worker still holds its claim.  *)
LEMMA WorkerFrame ==
  ASSUME TypeOK, SpoolInv, ClaimIsHeld', HandlersHold', UNCHANGED <<spool, tx, answered>>
  PROVE  SpoolInv'
  BY DEF SpoolInv, AcceptedIsKept, SeenIsDelivered, DamagedIsCompleted, Damaged, Queued, spool

(* The worker, the process and time keep the invariant. *)
LEMMA WorkerInv ==
  ASSUME TypeOK, SpoolInv,
         WorkerStep \/ WorkerFails \/ Crash \/ \E k \in Keys : Expire(k)
  PROVE  SpoolInv'
  <1>c. ClaimIsHeld /\ HandlersHold
    BY DEF SpoolInv
  <1>s. ASSUME Stop, UNCHANGED <<spool, tx, answered, handlers>> PROVE SpoolInv'
    <2>1. ClaimIsHeld' /\ HandlersHold'
      BY <1>s, <1>c DEF Stop, Worker, ClaimIsHeld, HandlersHold, handlers
    <2> QED BY <1>s, <2>1, WorkerFrame
  <1>d. ASSUME Down PROVE SpoolInv'
    <2>1. ClaimIsHeld' /\ HandlersHold' /\ UNCHANGED <<spool, tx, answered>>
      BY <1>d DEF Down, ClaimIsHeld, HandlersHold
    <2> QED BY <2>1, WorkerFrame
  <1>h. ASSUME UNCHANGED handlers PROVE HandlersHold'
    BY <1>h, <1>c DEF handlers, HandlersHold
  <1>1. CASE RequeueList
    BY <1>1, <1>h, <1>c, WorkerFrame
       DEF RequeueList, ProcessingEntries, Worker, ClaimIsHeld, spool
  <1>2. ASSUME NEW k \in Keys, RequeueStat(k) PROVE SpoolInv'
    BY <1>2, <1>h, <1>c, WorkerFrame DEF RequeueStat, Worker, ClaimIsHeld, spool
  <1>4. CASE RequeueDone
    BY <1>4, <1>h, <1>c, WorkerFrame DEF RequeueDone, Worker, ClaimIsHeld, spool
  <1>6. CASE ClaimNextFails
    BY <1>6, <1>s DEF ClaimNextFails
  <1>7. CASE Resume
    BY <1>7, <1>h, <1>c, WorkerFrame DEF Resume, Worker, ClaimIsHeld, spool, TypeOK
  <1>14. CASE Exit
    BY <1>14, <1>d DEF Exit
  <1>15. CASE Boot
    BY <1>15, <1>h, <1>c, WorkerFrame DEF Boot, Worker, ClaimIsHeld, spool
  <1>16. CASE WorkerFails
    BY <1>16, <1>s DEF WorkerFails
  <1>17. CASE Crash
    BY <1>17, <1>d DEF Crash
  <1> USE <1>c DEF Worker, TypeOK, SpoolInv, AcceptedIsKept, SeenIsDelivered, ClaimIsHeld,
                   DamagedIsCompleted, Damaged, Queued
  <1>3. CASE RequeueRename
    <2>1. CASE pending[cur] # "none"
      BY <1>3, <2>1, <1>s DEF RequeueRename, spool, handlers
    <2>2. CASE pending[cur] = "none"
      <3>1. /\ pending' = [pending EXCEPT ![cur] = processing[cur]]
            /\ processing' = [processing EXCEPT ![cur] = "none"]
            /\ UNCHANGED <<seen, tx, todo, answered>> /\ wpc' = "requeue"
            /\ cur \in Keys /\ processing[cur] # "none" /\ cur \notin todo
        BY <1>3, <2>2 DEF RequeueRename, Requeued
      <3>2. HandlersHold'
        BY <1>3, <1>h DEF RequeueRename
      <3> QED BY <3>1, <3>2
    <2> QED BY <2>1, <2>2
  <1>5. ASSUME NEW k \in Keys, ClaimNext(k) PROVE SpoolInv'
    <2>1. HandlersHold'
      BY <1>5, <1>h DEF ClaimNext
    <2> QED BY <1>5, <2>1 DEF ClaimNext, Claimable
  <1>8. CASE Deliver
    BY <1>8, <1>h DEF Deliver, spool
  <1>9. CASE CreateMarker
    BY <1>9, <1>h DEF CreateMarker
  <1>10. CASE WriteMarker
    BY <1>10, <1>h DEF WriteMarker
  <1>11. CASE SaveAcked
    BY <1>11, <1>h DEF SaveAcked, AfterAcked, spool
  <1>12. CASE SaveCompleted
    BY <1>12, <1>h DEF SaveCompleted, spool
  <1>13. CASE Removal
    <2>1. PICK content \in Unlinked(processing[cur]) :
            /\ processing' = [processing EXCEPT ![cur] = content]
            /\ IF content = "none" THEN Worker("idle") /\ cur' = NoKey
                                   ELSE Worker("removing") /\ UNCHANGED cur
      BY <1>13 DEF Removal
    <2>2. /\ cur \in Keys /\ tx[cur] = "completed" /\ todo = {}
          /\ UNCHANGED <<pending, seen, tx, todo, answered>>
      BY <1>13 DEF Removal
    <2>3. HandlersHold'
      BY <1>13, <1>h DEF Removal
    <2> QED BY <2>1, <2>2, <2>3
  <1>18. ASSUME NEW k \in Keys, Expire(k) PROVE SpoolInv'
    BY <1>18, <1>h DEF Expire, worker
  <1> QED
    BY <1>1, <1>2, <1>3, <1>4, <1>5, <1>6, <1>7, <1>8, <1>9, <1>10, <1>11, <1>12,
       <1>13, <1>14, <1>15, <1>16, <1>17, <1>18 DEF WorkerStep

(* Types and invariant together are inductive. *)
LEMMA SpoolStep == TypeOK /\ SpoolInv /\ [Next]_vars => (TypeOK /\ SpoolInv)'
  <1> SUFFICES ASSUME TypeOK, SpoolInv, [Next]_vars PROVE (TypeOK /\ SpoolInv)'
    OBVIOUS
  <1>c. ClaimIsHeld /\ HandlersHold
    BY DEF SpoolInv
  <1>1. CASE WorkerStep \/ WorkerFails \/ Crash \/ \E k \in Keys : Expire(k)
    BY <1>1, <1>c, WorkerTypes, WorkerInv
  <1>2. ASSUME NEW r \in Requests,
               HandlerStep(r) \/ RequestFails(r) \/ \E k \in Keys : Receive(r, k)
        PROVE  (TypeOK /\ SpoolInv)'
    BY <1>2, <1>c, HandlerTypes, HandlerInv
  <1>3. CASE UNCHANGED vars
    BY <1>3 DEF vars, spool, worker, handlers, TypeOK, SpoolInv, AcceptedIsKept,
       SeenIsDelivered, ClaimIsHeld, HandlersHold, DamagedIsCompleted, Queued
  <1> QED BY <1>1, <1>2, <1>3 DEF Next

(* The type invariant and the inductive invariant hold for every number of  *)
(* deliveries, handlers, faults and replays.                                *)
THEOREM SpoolCorrect == Spec => [](TypeOK /\ SpoolInv)
  BY InitInv, SpoolStep, PTL DEF Spec

(* A message directory is only ever absent, complete, or what a known       *)
(* RemoveAll left of it: the type invariant by itself.                      *)
THEOREM SpoolTypes == Spec => []TypeOK
  BY SpoolCorrect, PTL

(* What was answered with 202 is in the spool or delivered: no interleaving *)
(* of handlers, worker, restarts and crashes loses an accepted delivery.    *)
THEOREM AcceptedDeliveriesAreKept == Spec => []AcceptedIsKept
  <1>1. SpoolInv => AcceptedIsKept
    BY DEF SpoolInv
  <1> QED BY <1>1, SpoolCorrect, PTL

-----------------------------------------------------------------------------
(* The refinement of DurableQueue. *)

(* A handler puts a delivery, calls one a duplicate, or does nothing that   *)
(* the queue promises anything about.                                       *)
LEMMA HandlerRefines ==
  ASSUME TypeOK, SpoolInv, NEW r \in Requests,
         HandlerStep(r) \/ RequestFails(r) \/ \E k \in Keys : Receive(r, k)
  PROVE  [Queue!Next]_(Queue!vars)
  <1>k. rpc[r] # "free" => rkey[r] \in Keys
    BY DEF SpoolInv, HandlersHold
  \* a step that answers nothing
  <1>n. ASSUME UNCHANGED <<pending, processing, tx, answered>> PROVE UNCHANGED Queue!vars
    BY <1>n DEF Queue!vars, Queued
  \* a step that answers 202 for a delivery that is safe
  <1>d. ASSUME rkey[r] \in Keys, UNCHANGED <<pending, processing, tx>>, Accept(r),
               Queued(rkey[r]) \/ tx[rkey[r]] # "none"
        PROVE  Queue!Next
    <2>1. Queue!AnswerDuplicate(rkey[r])
      BY <1>d DEF Queue!AnswerDuplicate, Accept, Queued
    <2> QED BY <1>d, <2>1 DEF Queue!Next
  <1>1. ASSUME NEW k \in Keys, Receive(r, k) PROVE UNCHANGED Queue!vars
    BY <1>1, <1>n DEF Receive, spool
  <1>2. CASE ListSeen(r)
    BY <1>2, <1>n DEF ListSeen, spool
  <1>3. CASE ReadSeen(r)
    BY <1>3, <1>n DEF ReadSeen, Refuse, spool
  <1>10. CASE StatEntries(r)
    BY <1>10, <1>n DEF StatEntries, StatEntry, spool
  <1>4. CASE RemoveSeen(r)
    BY <1>4, <1>n DEF RemoveSeen
  <1>5. CASE CheckMarker(r)
    <2>1. seen[rkey[r]] = "fresh" => tx[rkey[r]] # "none"
      BY <1>5, <1>k DEF CheckMarker, SpoolInv, SeenIsDelivered
    <2> QED BY <1>5, <1>k, <1>n, <1>d, <2>1 DEF CheckMarker, Refuse, spool
  <1>6. CASE StatPending(r)
    BY <1>6, <1>k, <1>n, <1>d DEF StatPending, InPending, Queued, spool
  <1>7. CASE StatProcessing(r)
    BY <1>7, <1>k, <1>n, <1>d DEF StatProcessing, Queued, spool
  <1>8. CASE Commit(r)
    <2>1. rkey[r] \in Keys
      BY <1>8, <1>k DEF Commit
    <2>2. /\ UNCHANGED <<processing, tx>>
          /\ answered' = answered \cup {rkey[r]}
          /\ pending'[rkey[r]] # "none"
          /\ \A k \in Keys \ {rkey[r]} : pending'[k] = pending[k]
      BY <1>8, <2>1 DEF Commit, Accept, TypeOK
    <2>3. {k \in Keys : Queued(k)}' = {k \in Keys : Queued(k)} \cup {rkey[r]}
      BY <2>1, <2>2 DEF Queued
    <2>4. Queue!Put(rkey[r])
      BY <2>2, <2>3 DEF Queue!Put
    <2> QED BY <2>1, <2>4 DEF Queue!Next
  <1>9. CASE RequestFails(r)
    BY <1>9, <1>n DEF RequestFails, Refuse, spool
  <1> QED
    BY <1>1, <1>2, <1>3, <1>4, <1>5, <1>6, <1>7, <1>8, <1>9, <1>10 DEF HandlerStep

(* The worker handles a queued delivery, removes a handled one, or moves    *)
(* messages between the directories.                                        *)
LEMMA WorkerRefines ==
  ASSUME TypeOK, SpoolInv,
         WorkerStep \/ WorkerFails \/ Crash \/ \E k \in Keys : Expire(k)
  PROVE  [Queue!Next]_(Queue!vars)
  <1>n. ASSUME UNCHANGED <<pending, processing, tx, answered>> PROVE UNCHANGED Queue!vars
    BY <1>n DEF Queue!vars, Queued
  \* a step that moves a message, or saves that a delivered one is finished
  <1>m. ASSUME answered' = answered, \A k \in Keys : Queued(k)' <=> Queued(k),
               \A k \in Keys : tx'[k] # "none" <=> tx[k] # "none"
        PROVE  UNCHANGED Queue!vars
    BY <1>m DEF Queue!vars
  <1>c. ClaimIsHeld
    BY DEF SpoolInv
  <1>1. CASE RequeueList
    BY <1>1, <1>n DEF RequeueList, spool
  <1>2. ASSUME NEW k \in Keys, RequeueStat(k) PROVE UNCHANGED Queue!vars
    BY <1>2, <1>n DEF RequeueStat, spool
  <1>3. CASE RequeueRename
    <2>1. cur \in Keys
      BY <1>3, <1>c DEF RequeueRename, ClaimIsHeld
    <2>2. \A k \in Keys : Queued(k)' <=> Queued(k)
      BY <1>3, <2>1 DEF RequeueRename, Requeued, Queued, TypeOK
    <2> QED BY <1>3, <1>m, <2>2 DEF RequeueRename
  <1>4. CASE RequeueDone
    BY <1>4, <1>n DEF RequeueDone, spool
  <1>5. ASSUME NEW k \in Keys, ClaimNext(k) PROVE UNCHANGED Queue!vars
    <2>1. \A q \in Keys : Queued(q)' <=> Queued(q)
      BY <1>5 DEF ClaimNext, Claimable, Queued, TypeOK
    <2> QED BY <1>5, <1>m, <2>1 DEF ClaimNext
  <1>6. CASE ClaimNextFails
    BY <1>6, <1>n DEF ClaimNextFails, spool
  <1>7. CASE Resume
    BY <1>7, <1>n DEF Resume, spool
  <1>8. CASE Deliver
    <2>1. PICK c \in Keys : c = cur
      BY <1>8, <1>c DEF Deliver, ClaimIsHeld
    <2>2. /\ Queued(c) /\ tx' = [tx EXCEPT ![c] = "delivered"]
          /\ UNCHANGED <<pending, processing, answered>>
      BY <1>8, <1>c, <2>1 DEF Deliver, ClaimIsHeld, Queued, spool
    <2>3. {k \in Keys : tx[k] # "none"}' = {k \in Keys : tx[k] # "none"} \cup {c}
      BY <2>1, <2>2 DEF TypeOK
    <2>4. {k \in Keys : Queued(k)}' = {k \in Keys : Queued(k)}
      BY <2>2 DEF Queued
    <2>5. Queue!Handle(c)
      BY <2>1, <2>2, <2>3, <2>4 DEF Queue!Handle
    <2> QED BY <2>1, <2>5 DEF Queue!Next
  <1>9. CASE CreateMarker
    BY <1>9, <1>n DEF CreateMarker
  <1>10. CASE WriteMarker
    BY <1>10, <1>n DEF WriteMarker
  <1>11. CASE SaveAcked
    <2>1. \A k \in Keys : tx'[k] # "none" <=> tx[k] # "none"
      BY <1>11, <1>c DEF SaveAcked, ClaimIsHeld, TypeOK
    <2>2. UNCHANGED <<pending, processing, answered>>
      BY <1>11 DEF SaveAcked, spool
    <2> QED BY <1>m, <2>1, <2>2 DEF Queued
  <1>12. CASE SaveCompleted
    <2>1. \A k \in Keys : tx'[k] # "none" <=> tx[k] # "none"
      BY <1>12, <1>c DEF SaveCompleted, ClaimIsHeld, TypeOK
    <2>2. UNCHANGED <<pending, processing, answered>>
      BY <1>12 DEF SaveCompleted, spool
    <2> QED BY <1>m, <2>1, <2>2 DEF Queued
  <1>13. CASE Removal
    <2>1. PICK c \in Keys : c = cur
      BY <1>13, <1>c DEF Removal, ClaimIsHeld
    <2>2. PICK content : processing' = [processing EXCEPT ![c] = content]
      BY <1>13, <2>1 DEF Removal
    <2>3. tx[c] # "none" /\ Queued(c) /\ UNCHANGED <<pending, tx, answered>>
      BY <1>13, <1>c, <2>1 DEF Removal, ClaimIsHeld, Queued
    <2>4. \A k \in Keys \ {c} : Queued(k)' <=> Queued(k)
      BY <2>2, <2>3 DEF Queued, TypeOK
    <2>5. CASE Queued(c)'
      <3>1. \A k \in Keys : Queued(k)' <=> Queued(k)
        BY <2>3, <2>4, <2>5
      <3> QED BY <1>m, <2>3, <3>1
    <2>6. CASE ~Queued(c)'
      <3>1. {k \in Keys : Queued(k)}' = {k \in Keys : Queued(k)} \ {c}
        BY <2>3, <2>4, <2>6
      <3>2. Queue!Remove(c)
        BY <2>3, <3>1 DEF Queue!Remove
      <3> QED BY <2>1, <3>2 DEF Queue!Next
    <2> QED BY <2>5, <2>6
  <1>14. CASE Exit
    BY <1>14, <1>n DEF Exit, Down, spool
  <1>15. CASE Boot
    BY <1>15, <1>n DEF Boot, spool
  <1>16. CASE WorkerFails
    BY <1>16, <1>n DEF WorkerFails, spool
  <1>17. CASE Crash
    BY <1>17, <1>n DEF Crash, Down, spool
  <1>18. ASSUME NEW k \in Keys, Expire(k) PROVE UNCHANGED Queue!vars
    BY <1>18, <1>n DEF Expire
  <1> QED
    BY <1>1, <1>2, <1>3, <1>4, <1>5, <1>6, <1>7, <1>8, <1>9, <1>10, <1>11, <1>12,
       <1>13, <1>14, <1>15, <1>16, <1>17, <1>18 DEF WorkerStep

(* The spool implements the durable queue: every step of a handler or of    *)
(* the worker, every crash and restart is a step of the queue or none.      *)
THEOREM SpoolIsADurableQueue == Spec => ImplementsDurableQueue
  <1>1. Init => Queue!Init
    BY DEF Init, Queue!Init, Queued
  <1>2. TypeOK /\ SpoolInv /\ [Next]_vars => [Queue!Next]_(Queue!vars)
    <2> SUFFICES ASSUME TypeOK, SpoolInv, [Next]_vars PROVE [Queue!Next]_(Queue!vars)
      OBVIOUS
    <2>1. CASE WorkerStep \/ WorkerFails \/ Crash \/ \E k \in Keys : Expire(k)
      BY <2>1, WorkerRefines
    <2>2. ASSUME NEW r \in Requests,
                 HandlerStep(r) \/ RequestFails(r) \/ \E k \in Keys : Receive(r, k)
          PROVE  [Queue!Next]_(Queue!vars)
      BY <2>2, HandlerRefines
    <2>3. CASE UNCHANGED vars
      BY <2>3 DEF vars, spool, Queue!vars, Queued
    <2> QED BY <2>1, <2>2, <2>3 DEF Next
  <1> QED BY <1>1, <1>2, SpoolCorrect, PTL DEF Spec, ImplementsDurableQueue, Queue!Spec
=============================================================================
