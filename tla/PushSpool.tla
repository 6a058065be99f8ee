----------------------------- MODULE PushSpool -----------------------------
(***************************************************************************)
(* The spool of a push source (internal/mailflow/adapters/push_spool.go)   *)
(* between the concurrent handlers of its ingress, which enqueue, and its  *)
(* one worker (PushProducer, Runner and Coordinator), which claims a       *)
(* message, handles it, acknowledges it and removes it.  The spool has no  *)
(* lock: it is directories and files, and every system call is a step.     *)
(*                                                                         *)
(* A crash ends the process, its handlers included; files stay.  The       *)
(* Coordinator is reduced to the state it saves for a message; module      *)
(* Coordinator has the transaction in full.                                *)
(***************************************************************************)
EXTENDS Naturals

CONSTANTS
  Keys,        \* delivery ids (their hashes, PushSpool.messageKey)
  Requests,    \* slots for concurrent requests to the ingress
  NoKey,       \* "no message"
  TornSteps,   \* \subseteq {"mark", "removing"}: the multi-call writes that a
               \* fault may hit halfway
  MaxFaults,   \* bound: crashes and failed calls in one behaviour
  MaxReplays   \* bound: requests for deliveries that were answered before

ASSUME NoKeyAssumption == NoKey \notin Keys
ASSUME TornAssumption == TornSteps \subseteq {"mark", "removing"}
ASSUME SpoolBoundAssumption == MaxFaults \in Nat /\ MaxReplays \in Nat

VARIABLES
  pending,     \* pending[k]: the directory pending/<k>
  processing,  \* processing[k]: the directory processing/<k>
  seen,        \* seen[k]: the marker file seen/<k>.json
  tx,          \* tx[k]: what the Coordinator has saved about the message
  wpc,         \* the worker's next step
  cur,         \* the message the worker is at
  todo,        \* directory entries RequeueProcessing still has to visit
  rpc,         \* rpc[r]: the next step of a request's handler
  rkey,        \* rkey[r]: its delivery
  rlist,       \* rlist[r]: the markers cleanupSeen still has to read
  answered,    \* the deliveries answered with 202
  faults,      \* crashes and failed calls so far
  replays      \* repeated requests so far

worker == <<wpc, cur, todo>>
handlers == <<rpc, rkey, rlist>>
spool == <<pending, processing, seen>>
vars == <<spool, tx, worker, handlers, answered, faults, replays>>

(* A message directory: absent, complete, or what RemoveAll left of it. *)
Contents == {"none", "whole", "noMIME", "noMeta"}

-----------------------------------------------------------------------------
Init ==
  /\ pending = [k \in Keys |-> "none"]
  /\ processing = [k \in Keys |-> "none"]
  /\ seen = [k \in Keys |-> "none"]
  /\ tx = [k \in Keys |-> "none"]
  /\ wpc = "down"
  /\ cur = NoKey
  /\ todo = {}
  /\ rpc = [r \in Requests |-> "free"]
  /\ rkey = [r \in Requests |-> NoKey]
  /\ rlist = [r \in Requests |-> {}]
  /\ answered = {}
  /\ faults = 0
  /\ replays = 0

Queued(k) == pending[k] # "none" \/ processing[k] # "none"

Fault == faults < MaxFaults /\ faults' = faults + 1

(* Mutant: a marker past its retention is refused like an unreadable one. *)
Unreadable_stale(k) == seen[k] \in {"torn", "stale"}

(* json.Unmarshal of the marker fails. *)
Unreadable(k) == seen[k] = "torn"

(***************************************************************************)
(* The handler of a request: EnqueueReader.                                *)
(***************************************************************************)
Goto(r, label) == rpc' = [rpc EXCEPT ![r] = label]

Release(r) ==
  /\ Goto(r, "free")
  /\ rkey' = [rkey EXCEPT ![r] = NoKey]
  /\ rlist' = [rlist EXCEPT ![r] = {}]

(* The request ends with an error, or with 202 for "accepted" and "duplicate". *)
Refuse(r) == Release(r) /\ UNCHANGED answered
Accept(r) == Release(r) /\ answered' = answered \cup {rkey[r]}

(* Only requests that were answered before are counted: a sender repeats a  *)
(* request until it is answered with 202.                                   *)
Receive(r, k) ==
  /\ wpc \notin {"down", "stopping"}
  /\ rpc[r] = "free"
  /\ k \in answered => replays < MaxReplays
  /\ replays' = IF k \in answered THEN replays + 1 ELSE replays
  /\ Goto(r, "list")
  /\ rkey' = [rkey EXCEPT ![r] = k]
  /\ UNCHANGED <<spool, tx, worker, rlist, answered, faults>>

(* cleanupSeen lists the markers, ... *)
ListSeen(r) ==
  /\ rpc[r] = "list"
  /\ rlist' = [rlist EXCEPT ![r] = {k \in Keys : seen[k] # "none"}]
  /\ Goto(r, "clean")
  /\ UNCHANGED <<spool, tx, worker, rkey, answered, faults, replays>>

(* os.ReadDir sorts the entries. *)
Entry(r) == CHOOSE k \in rlist[r] : TRUE
DropEntry(r) == rlist' = [rlist EXCEPT ![r] = rlist[r] \ {Entry(r)}]

(* ... reads each (one that is gone by then is an error) and keeps it if it  *)
(* is fresh, ...                                                            *)
ReadSeen(r) ==
  /\ rpc[r] = "clean"
  /\ rlist[r] # {}
  /\ IF seen[Entry(r)] = "none" \/ Unreadable(Entry(r)) THEN Refuse(r)
     ELSE IF seen[Entry(r)] = "fresh"
       THEN DropEntry(r) /\ UNCHANGED <<rpc, rkey, answered>>
       ELSE Goto(r, "entryPending") /\ UNCHANGED <<rkey, rlist, answered>>
  /\ UNCHANGED <<spool, tx, worker, faults, replays>>

(* ... or its message is in one of the directories: hasQueuedMessage, ...   *)
StatEntry(r, label, directory, next) ==
  /\ rpc[r] = label
  /\ IF directory[Entry(r)] # "none" THEN DropEntry(r) /\ Goto(r, "clean")
     ELSE Goto(r, next) /\ UNCHANGED rlist
  /\ UNCHANGED <<spool, tx, worker, rkey, answered, faults, replays>>

StatEntries(r) ==
  \/ StatEntry(r, "entryPending", pending, "entryProcessing")
  \/ StatEntry(r, "entryProcessing", processing, "unlink")

(* ... else removes it, whatever is there by now. *)
RemoveSeen(r) ==
  /\ rpc[r] = "unlink"
  /\ seen' = [seen EXCEPT ![Entry(r)] = "none"]
  /\ DropEntry(r)
  /\ Goto(r, "clean")
  /\ UNCHANGED <<pending, processing, tx, worker, rkey, answered, faults, replays>>

(* hasFreshSeenMarker *)
CheckMarker(r) ==
  /\ rpc[r] = "clean"
  /\ rlist[r] = {}
  /\ IF Unreadable(rkey[r]) THEN Refuse(r)
     ELSE IF seen[rkey[r]] = "fresh" THEN Accept(r)
     ELSE Goto(r, "statPending") /\ UNCHANGED <<rkey, rlist, answered>>
  /\ UNCHANGED <<spool, tx, worker, faults, replays>>

(* Mutant: what another handler is still staging counts as queued. *)
InPending_staged(r) ==
  \/ pending[rkey[r]] # "none"
  \/ \E q \in Requests \ {r} : rpc[q] = "commit" /\ rkey[q] = rkey[r]

(* hasQueuedMessage looks into pending, then into processing. *)
InPending(r) == pending[rkey[r]] # "none"

StatPending(r) ==
  /\ rpc[r] = "statPending"
  /\ IF InPending(r) THEN Accept(r)
     ELSE Goto(r, "statProcessing") /\ UNCHANGED <<rkey, rlist, answered>>
  /\ UNCHANGED <<spool, tx, worker, faults, replays>>

StatProcessing(r) ==
  /\ rpc[r] = "statProcessing"
  /\ IF processing[rkey[r]] # "none" THEN Accept(r)
     ELSE Goto(r, "commit") /\ UNCHANGED <<rkey, rlist, answered>>
  /\ UNCHANGED <<spool, tx, worker, faults, replays>>

(* The message is written to a staging directory of its own, which is       *)
(* renamed into pending; a message that is there already wins.              *)
Commit(r) ==
  /\ rpc[r] = "commit"
  /\ pending' = IF pending[rkey[r]] = "none"
                  THEN [pending EXCEPT ![rkey[r]] = "whole"] ELSE pending
  /\ Accept(r)
  /\ UNCHANGED <<processing, seen, tx, worker, faults, replays>>

(* A system call of the handler fails. *)
RequestFails(r) ==
  /\ rpc[r] # "free"
  /\ Fault
  /\ Refuse(r)
  /\ UNCHANGED <<spool, tx, worker, replays>>

(***************************************************************************)
(* The worker.                                                             *)
(***************************************************************************)
Worker(label) == wpc' = label

(* An error of the worker ends SourceExecutor.Run and with it the process;  *)
(* Server.Shutdown lets running handlers finish.                            *)
Stop == Worker("stopping") /\ cur' = NoKey /\ todo' = {}

(* Mutant: a restarted worker does not look into processing. *)
ProcessingEntries_none == {}

ProcessingEntries == {k \in Keys : processing[k] # "none"}

(* The first Next of a process: RequeueProcessing lists the messages, ... *)
RequeueList ==
  /\ wpc = "boot"
  /\ todo' = ProcessingEntries
  /\ Worker("requeue")
  /\ UNCHANGED <<spool, tx, cur, handlers, answered, faults, replays>>

(* ... leaves one whose key is pending, ... *)
RequeueStat(k) ==
  /\ wpc = "requeue"
  /\ k \in todo
  /\ todo' = todo \ {k}
  /\ IF pending[k] # "none" THEN UNCHANGED <<wpc, cur>>
     ELSE Worker("rename") /\ cur' = k
  /\ UNCHANGED <<spool, tx, handlers, answered, faults, replays>>

(* Mutant: the message is removed from processing, but not put into pending. *)
Requeued_lost(k) == pending

Requeued(k) == [pending EXCEPT ![k] = processing[k]]

(* ... and renames the others back, an error if a handler came first. *)
RequeueRename ==
  /\ wpc = "rename"
  /\ IF pending[cur] # "none"
       THEN Stop /\ UNCHANGED <<pending, processing>>
       ELSE /\ pending' = Requeued(cur)
            /\ processing' = [processing EXCEPT ![cur] = "none"]
            /\ Worker("requeue")
            /\ cur' = NoKey
            /\ UNCHANGED todo
  /\ UNCHANGED <<seen, tx, handlers, answered, faults, replays>>

RequeueDone ==
  /\ wpc = "requeue"
  /\ todo = {}
  /\ Worker("idle")
  /\ UNCHANGED <<spool, tx, cur, todo, handlers, answered, faults, replays>>

(* ClaimNext reads the meta data of all pending messages, then renames the  *)
(* oldest one into processing whose key is not there already.  A message's  *)
(* age is its sender's time stamp, so any of them can be the oldest.        *)
Claimable(k) == pending[k] # "none" /\ processing[k] = "none"
MetaMissing == \E k \in Keys : pending[k] = "noMeta"

ClaimNext(k) ==
  /\ wpc = "idle"
  /\ ~MetaMissing
  /\ Claimable(k)
  /\ pending' = [pending EXCEPT ![k] = "none"]
  /\ processing' = [processing EXCEPT ![k] = pending[k]]
  /\ cur' = k
  /\ Worker("run")
  /\ UNCHANGED <<seen, tx, todo, handlers, answered, faults, replays>>

ClaimNextFails ==
  /\ wpc = "idle"
  /\ MetaMissing
  /\ Stop
  /\ UNCHANGED <<spool, tx, handlers, answered, faults, replays>>

(* Coordinator.Run resumes where the saved state says. *)
Resume ==
  /\ wpc = "run"
  /\ tx[cur] # "none"
  /\ Worker(CASE tx[cur] = "delivered" -> "ack"
              [] tx[cur] = "acked"     -> "complete"
              [] tx[cur] = "completed" -> "finalize")
  /\ UNCHANGED <<spool, tx, cur, todo, handlers, answered, faults, replays>>

(* It handles a new message: processing, deliveries and their receipts. *)
Deliver ==
  /\ wpc = "run"
  /\ tx[cur] = "none"
  /\ processing[cur] = "whole"
  /\ tx' = [tx EXCEPT ![cur] = "delivered"]
  /\ Worker("ack")
  /\ UNCHANGED <<spool, cur, todo, handlers, answered, faults, replays>>

(* PrepareAck creates the marker file, exclusively, ... *)
CreateMarker ==
  /\ wpc = "ack"
  /\ IF seen[cur] = "none"
       THEN seen' = [seen EXCEPT ![cur] = "torn"] /\ Worker("mark")
       ELSE UNCHANGED seen /\ Worker("acked")
  /\ UNCHANGED <<pending, processing, tx, cur, todo, handlers, answered, faults, replays>>

(* ... then writes it. *)
WriteMarker ==
  /\ wpc = "mark"
  /\ seen' = [seen EXCEPT ![cur] = "fresh"]
  /\ Worker("acked")
  /\ UNCHANGED <<pending, processing, tx, cur, todo, handlers, answered, faults, replays>>

(* Mutant: the message is removed before its completion is saved. *)
AfterAcked_finalize == "finalize"

AfterAcked == "complete"

SaveAcked ==
  /\ wpc = "acked"
  /\ tx' = [tx EXCEPT ![cur] = "acked"]
  /\ Worker(AfterAcked)
  /\ UNCHANGED <<spool, cur, todo, handlers, answered, faults, replays>>

SaveCompleted ==
  /\ wpc = "complete"
  /\ tx' = [tx EXCEPT ![cur] = "completed"]
  /\ Worker("finalize")
  /\ UNCHANGED <<spool, cur, todo, handlers, answered, faults, replays>>

(* Mutant: only the files are removed; an empty directory stays behind. *)
Unlinked_keepsDirectory(content) ==
  CASE content = "whole"  -> {"noMIME", "noMeta"}
    [] content = "noMIME" -> {"noMeta"}
    [] content = "noMeta" -> {"empty"}

(* FinalizeAck: RemoveAll unlinks the files in the order of the directory,  *)
(* then the directory.                                                      *)
Unlinked(content) ==
  CASE content = "whole"  -> {"noMIME", "noMeta"}
    [] content = "noMIME" -> {"noMeta"}
    [] content = "noMeta" -> {"none"}

Removal ==
  /\ wpc \in {"finalize", "removing"}
  /\ \E content \in Unlinked(processing[cur]) :
       /\ processing' = [processing EXCEPT ![cur] = content]
       /\ IF content = "none" THEN Worker("idle") /\ cur' = NoKey
                              ELSE Worker("removing") /\ UNCHANGED cur
  /\ UNCHANGED <<pending, seen, tx, todo, handlers, answered, faults, replays>>

(* A fault may hit the worker here. *)
Exposed == wpc \in {"mark", "removing"} => wpc \in TornSteps

(* A call of the worker fails (for Run: a processor, sink or state error). *)
WorkerFails ==
  /\ wpc \notin {"down", "stopping"}
  /\ Exposed
  /\ Fault
  /\ Stop
  /\ UNCHANGED <<spool, tx, handlers, answered, replays>>

(***************************************************************************)
(* The process and time.                                                   *)
(***************************************************************************)
Down ==
  /\ wpc' = "down"
  /\ cur' = NoKey
  /\ todo' = {}
  /\ rpc' = [r \in Requests |-> "free"]
  /\ rkey' = [r \in Requests |-> NoKey]
  /\ rlist' = [r \in Requests |-> {}]
  /\ UNCHANGED <<spool, tx, answered, replays>>

(* The process exits after the worker's error, or dies. *)
Exit == wpc = "stopping" /\ Down /\ UNCHANGED faults
Crash == wpc # "down" /\ Exposed /\ Fault /\ Down

Boot ==
  /\ wpc = "down"
  /\ Worker("boot")
  /\ UNCHANGED <<spool, tx, cur, todo, handlers, answered, faults, replays>>

(* ReplayRetention passes. *)
Expire(k) ==
  /\ seen[k] = "fresh"
  /\ seen' = [seen EXCEPT ![k] = "stale"]
  /\ UNCHANGED <<pending, processing, tx, worker, handlers, answered, faults, replays>>

HandlerStep(r) ==
  \/ ListSeen(r) \/ ReadSeen(r) \/ StatEntries(r) \/ RemoveSeen(r) \/ CheckMarker(r)
  \/ StatPending(r) \/ StatProcessing(r) \/ Commit(r)

WorkerStep ==
  \/ RequeueList \/ (\E k \in Keys : RequeueStat(k)) \/ RequeueRename \/ RequeueDone
  \/ (\E k \in Keys : ClaimNext(k)) \/ ClaimNextFails
  \/ Resume \/ Deliver \/ CreateMarker \/ WriteMarker
  \/ SaveAcked \/ SaveCompleted \/ Removal \/ Exit \/ Boot

Next ==
  \/ WorkerStep \/ WorkerFails \/ Crash
  \/ \E r \in Requests :
       HandlerStep(r) \/ RequestFails(r) \/ \E k \in Keys : Receive(r, k)
  \/ \E k \in Keys : Expire(k)

Spec == Init /\ [][Next]_vars

(* The worker and the handlers go on, the service manager restarts the     *)
(* process (compose.example.yml: restart: unless-stopped), and a sender    *)
(* repeats a request until it is answered with 202.  Strong fairness for   *)
(* the sender: the ingress is down at times.                               *)
Fairness ==
  /\ WF_vars(WorkerStep)
  /\ \A r \in Requests : WF_vars(HandlerStep(r))
  /\ \A k \in Keys : SF_vars(k \notin answered /\ \E r \in Requests : Receive(r, k))

FairSpec == Spec /\ Fairness
-----------------------------------------------------------------------------
(* Properties. *)

(* Every variable has its type: in particular a message directory is only   *)
(* ever absent, complete, or what a known RemoveAll left of it.             *)
TypeOK ==
  /\ pending \in [Keys -> Contents]
  /\ processing \in [Keys -> Contents]
  /\ seen \in [Keys -> {"none", "torn", "fresh", "stale"}]
  /\ tx \in [Keys -> {"none", "delivered", "acked", "completed"}]
  /\ wpc \in {"down", "boot", "requeue", "rename", "idle", "run", "ack", "mark",
              "acked", "complete", "finalize", "removing", "stopping"}
  /\ cur \in Keys \cup {NoKey}
  /\ todo \subseteq Keys
  /\ rpc \in [Requests -> {"free", "list", "clean", "entryPending", "entryProcessing",
                           "unlink", "statPending", "statProcessing", "commit"}]
  /\ rkey \in [Requests -> Keys \cup {NoKey}]
  /\ rlist \in [Requests -> SUBSET Keys]
  /\ answered \subseteq Keys
  /\ faults \in Nat /\ replays \in Nat

(* No accepted delivery is lost: once a request was answered with 202, as   *)
(* "accepted" or as "duplicate", its message is in the spool or has been    *)
(* delivered, however handlers, worker and crashes interleave.              *)
AcceptedIsKept == \A k \in answered : Queued(k) \/ tx[k] # "none"

(* The marker that turns a repeated delivery away, in whatever state, is    *)
(* there only for a delivery whose receipts are saved.                      *)
SeenIsDelivered == \A k \in Keys : seen[k] # "none" => tx[k] # "none"

(* A message is never worked on without its claim: what the worker is at,   *)
(* or has listed for its requeue, is in processing, is delivered before it  *)
(* is acknowledged and completed before it is removed.                      *)
ClaimIsHeld ==
  /\ wpc \in {"rename", "run", "ack", "mark", "acked", "complete", "finalize", "removing"}
       => cur \in Keys /\ processing[cur] # "none"
  /\ wpc \in {"ack", "mark", "acked"} => tx[cur] = "delivered"
  /\ wpc = "complete" => tx[cur] = "acked"
  /\ wpc \in {"finalize", "removing"} => tx[cur] = "completed"
  /\ \A k \in todo : processing[k] # "none" /\ ~(wpc = "rename" /\ cur = k)
  /\ todo # {} => wpc \in {"requeue", "rename"}

(* A running handler has its delivery, and the marker that it is at. *)
HandlersHold ==
  \A r \in Requests :
     /\ rpc[r] # "free" => rkey[r] \in Keys
     /\ rpc[r] \in {"entryPending", "entryProcessing", "unlink"} => rlist[r] # {}

Damaged(content) == content \in {"noMIME", "noMeta"}

(* What RemoveAll has begun to remove belongs to a completed transaction:   *)
(* no undelivered message is ever incomplete.                               *)
DamagedIsCompleted ==
  \A k \in Keys : Damaged(pending[k]) \/ Damaged(processing[k]) => tx[k] = "completed"

(* The inductive invariant of the spool: what is accepted is kept, because  *)
(* handlers and worker each hold what they are working on.                  *)
SpoolInv ==
  AcceptedIsKept /\ SeenIsDelivered /\ ClaimIsHeld /\ HandlersHold /\ DamagedIsCompleted

(* The spool is a durable queue: every interleaving of its system calls,    *)
(* crashes included, takes, keeps and gives up deliveries as DurableQueue   *)
(* allows.                                                                  *)
Queue ==
  INSTANCE DurableQueue WITH
    queued <- {k \in Keys : Queued(k)},
    handled <- {k \in Keys : tx[k] # "none"}

ImplementsDurableQueue == Queue!Spec

(* What a fault inside one of the two multi-call writes leaves behind for    *)
(* good: a marker that nobody is writing any more, which every request fails *)
(* to read, or a message without its meta data, at which every worker stops. *)
TornMarker == \E k \in Keys : seen[k] = "torn" /\ ~(wpc = "mark" /\ cur = k)
Poisoned == TornMarker \/ MetaMissing

(* A delivery in both directories that the worker is not at: no requeue and  *)
(* no claim moves it any more (see AllAreHandled).                           *)
Stuck(k) == pending[k] # "none" /\ processing[k] # "none" /\ cur # k

(* A sender that repeats a request gets its delivery accepted in the end:    *)
(* neither another handler's clean-up, which removes markers between the     *)
(* listing and the reading of this one, nor the worker's marker can turn     *)
(* every attempt into an error, unless the spool is poisoned.                *)
EventuallyAccepted == \A k \in Keys : <>(k \in answered \/ Poisoned)

(* Every accepted delivery is handled in the end, through crash and requeue, *)
(* unless overlapping requests got it stuck or every worker stops before it. *)
EventuallyHandled ==
  \A k \in Keys : k \in answered ~> tx[k] # "none" \/ Stuck(k) \/ MetaMissing

(* What push_spool_test.go:269 expects: a claimed message is claimed again   *)
(* after a restart.  Not so if it is stuck (SpoolBothDirs.cfg).              *)
AllAreHandled == \A k \in Keys : k \in answered ~> tx[k] # "none"
=============================================================================
