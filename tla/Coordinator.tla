---------------------------- MODULE Coordinator ----------------------------
(***************************************************************************)
(* internal/mailflow.Coordinator: the transaction that moves ONE mail from *)
(* its source to the sinks of a route.  The module follows Coordinator.Run *)
(* from one effect to the next (a save of the transaction state, a call of *)
(* a sink, of the source mailbox or of the source queue), because a crash, *)
(* an error return or another process can come between any two of them.    *)
(*                                                                         *)
(* A process is a `mimecrypt run` (its source is polled or pushed) or a    *)
(* `mimecrypt process` command, which handles the same mail through a      *)
(* ReaderEnvelopeBuilder, with the route's state directory or without it   *)
(* (--transaction-mode), and takes no run lock.                            *)
(* All of them use the same transaction key, and those with a              *)
(* FileStateStore the same state file.                                     *)
(***************************************************************************)
EXTENDS Naturals, Sequences

CONSTANTS
  Procs,        \* the processes that may handle the mail
  Kind,         \* [Procs -> {"poll", "push", "reader"}]: their SourceHandle
  Durable,      \* the processes with a FileStateStore; others have a MemoryStateStore
  Keys,         \* target keys (DeliveryTarget.Key)
  Consumers,    \* consumer names
  Stores,       \* mailbox stores (StoreRef with driver and account)
  NoStore,      \* a StoreRef without driver or account
  NoReceipt,    \* "no receipt recorded"
  Configs,      \* the configurations a process can be started with
  MaxFaults,    \* bound: crashes and failed calls in one behaviour
  MaxCommands,  \* bound: invocations of the reader commands
  MaxReoffers   \* bound: times the source offers the mail again

StoreRefs == Stores \cup {NoStore}

(* ExecutionPlan: targets in configuration order and the delete policy. *)
DeliveryTarget == [key : Keys, consumer : Consumers, required : BOOLEAN]

ExecutionPlan ==
  [targets : Seq(DeliveryTarget), enabled : BOOLEAN, sameStore : BOOLEAN,
   eligible : SUBSET Consumers]

(* The zero ExecutionPlan of a state that has not been processed yet. *)
NoPlan == [targets |-> <<>>, enabled |-> FALSE, sameStore |-> FALSE, eligible |-> {}]

(* ExecutionPlan.Validate. *)
ValidPlan(plan) ==
  /\ plan \in ExecutionPlan
  /\ \E i \in DOMAIN plan.targets : plan.targets[i].required
  /\ \A i, j \in DOMAIN plan.targets :
        plan.targets[i].key = plan.targets[j].key => i = j

ASSUME KindAssumption == Kind \in [Procs -> {"poll", "push", "reader"}]
ASSUME DurableAssumption == Durable \subseteq Procs
ASSUME ReceiptAssumption == NoReceipt \notin StoreRefs
ASSUME StoreAssumption == NoStore \notin Stores
ASSUME BoundAssumption == MaxFaults \in Nat /\ MaxCommands \in Nat /\ MaxReoffers \in Nat
(* What a process reads at start: the compiled plan, the stores its source *)
(* and its sinks write to, and whether a deletion at the source is final.  *)
ASSUME ConfigAssumption ==
  \A c \in Configs :
     /\ ValidPlan(c.plan)
     /\ c.sourceStore \in StoreRefs
     /\ c.sinkStore \in [Consumers -> StoreRefs]
     /\ c.semantics \in {"hard", "soft", "unknown"}

VARIABLES
  store,     \* the TxState in the FileStateStore (the zero state if there is no file)
  mem,       \* mem[p]: the TxState that p's Run works on
  pc,        \* pc[p]: the step p takes next
  idx,       \* idx[p]: position of p in the loop over the targets
  conf,      \* conf[p]: the configuration p was started with
  present,   \* the mail is in the source mailbox
  offered,   \* the mail is in the source queue (pending_messages, push spool)
  landed,    \* <<key, store>>: the sinks' committed copies
  commits,   \* commits[k]: how often the sink of target k took the mail
  skipped,   \* some Processor.Process has answered ErrSkipMessage
  faults,    \* crashes and failed calls so far
  commands,  \* reader commands invoked so far
  reoffers   \* times the mail was offered again

world == <<present, offered, landed, commits, skipped>>
budget == <<faults, commands, reoffers>>
vars == <<store, mem, pc, idx, conf, world, budget>>

-----------------------------------------------------------------------------
(* TxState and the predicates Run evaluates on it. *)

TxState ==
  [plan : ExecutionPlan, deliveries : [Keys -> StoreRefs \cup {NoReceipt}],
   sourceStore : StoreRefs, skipped : BOOLEAN, sourceDeleted : BOOLEAN,
   sourceAcked : BOOLEAN, completed : BOOLEAN]

(* Mutant: the deliveries map of a new state stays nil. *)
ZeroState_nilMap ==
  [plan |-> NoPlan, deliveries |-> <<>>, sourceStore |-> NoStore, skipped |-> FALSE,
   sourceDeleted |-> FALSE, sourceAcked |-> FALSE, completed |-> FALSE]

ZeroState ==
  [plan |-> NoPlan, deliveries |-> [k \in Keys |-> NoReceipt],
   sourceStore |-> NoStore, skipped |-> FALSE, sourceDeleted |-> FALSE,
   sourceAcked |-> FALSE, completed |-> FALSE]

Targets(plan) == {plan.targets[i] : i \in DOMAIN plan.targets}

HasPlan(state) == state.plan.targets # <<>>

(* Mutant: one receipt is taken for all of them. *)
hasRequiredDeliveries_any(state) ==
  \E t \in Targets(state.plan) : state.deliveries[t.key] # NoReceipt

hasRequiredDeliveries(state) ==
  \A t \in Targets(state.plan) : t.required => state.deliveries[t.key] # NoReceipt

(* Mutant: the receipts' consumers and stores are not looked at. *)
shouldDeleteSource_anyReceipt(state) == state.plan.enabled

shouldDeleteSource(state) ==
  /\ state.plan.enabled
  /\ \E t \in Targets(state.plan) :
        /\ state.deliveries[t.key] # NoReceipt
        /\ state.plan.eligible # {} => t.consumer \in state.plan.eligible
        /\ state.plan.sameStore =>
              /\ state.sourceStore # NoStore
              /\ state.deliveries[t.key] = state.sourceStore

validateDeleteSource(plan, c) == plan.enabled => c.semantics = "hard"

(* Can p read the MIME of the mail?  A push source reads its own spool. *)
Fetchable(p) == IF Kind[p] = "push" THEN offered ELSE present

-----------------------------------------------------------------------------
Init ==
  /\ store = ZeroState
  /\ mem = [p \in Procs |-> ZeroState]
  /\ pc = [p \in Procs |-> "down"]
  /\ idx = [p \in Procs |-> 1]
  /\ conf \in [Procs -> Configs]
  /\ present = TRUE
  /\ offered = TRUE
  /\ landed = {}
  /\ commits = [k \in Keys |-> 0]
  /\ skipped = FALSE
  /\ faults = 0
  /\ commands = 0
  /\ reoffers = 0

Goto(p, label) == pc' = [pc EXCEPT ![p] = label]

Fault ==
  /\ faults < MaxFaults
  /\ faults' = faults + 1
  /\ UNCHANGED <<commands, reoffers>>

(* Run returns.  A polling loop calls it again, in this or the next cycle, *)
(* unless the error comes in the cycle at start-up, which ends the process *)
(* as every error of a push worker does.  A command ends.                  *)
AfterReturn(p, ok) ==
  CASE Kind[p] = "reader" -> {"down"}
    [] ok                 -> {"idle"}
    [] Kind[p] = "poll"   -> {"idle", "down"}
    [] OTHER              -> {"down"}

Return(p, ok) ==
  /\ \E label \in AfterReturn(p, ok) : Goto(p, label)
  /\ mem' = [mem EXCEPT ![p] = ZeroState]
  /\ idx' = [idx EXCEPT ![p] = 1]

(* A process starts and reads its configuration, which may have been edited. *)
Boot(p, c) ==
  /\ pc[p] = "down"
  /\ Goto(p, "idle")
  /\ conf' = [conf EXCEPT ![p] = c]
  /\ IF Kind[p] = "reader"
       THEN /\ commands < MaxCommands
            /\ commands' = commands + 1
       ELSE commands' = commands
  /\ UNCHANGED <<store, mem, idx, world, faults, reoffers>>

(* Mutant: a saved state is not found again. *)
Loaded_fresh(p) == ZeroState

(* StateStore.Load *)
Loaded(p) == IF p \in Durable THEN store ELSE ZeroState

(* Run is called with the mail's envelope: load the state, then finish a    *)
(* completed transaction, resume after the deliveries, or process the mail. *)
Load(p) ==
  /\ pc[p] = "idle"
  /\ IF Kind[p] = "reader" THEN present ELSE offered
  /\ mem' = [mem EXCEPT ![p] = Loaded(p)]
  /\ Goto(p, IF Loaded(p).completed THEN "finalize"
             ELSE IF ~HasPlan(Loaded(p)) \/ ~hasRequiredDeliveries(Loaded(p))
                  THEN "process" ELSE "decide")
  /\ UNCHANGED <<store, idx, conf, world, budget>>

(* A reader command whose mail is gone from the mailbox ends with an error. *)
ReaderFindsNothing(p) ==
  /\ pc[p] = "idle"
  /\ Kind[p] = "reader"
  /\ ~present
  /\ Return(p, FALSE)
  /\ UNCHANGED <<store, conf, world, budget>>

(* Processor.Process fails, or the mail's MIME cannot be read any more. *)
ProcessFails(p) ==
  /\ pc[p] = "process"
  /\ IF Fetchable(p) THEN Fault ELSE UNCHANGED budget
  /\ Return(p, FALSE)
  /\ UNCHANGED <<store, conf, world>>

(* Processor.Process answers ErrSkipMessage. *)
ProcessSkips(p) ==
  /\ pc[p] = "process"
  /\ Fetchable(p)
  /\ mem' = [mem EXCEPT ![p].skipped = TRUE, ![p].sourceStore = conf[p].sourceStore]
  /\ skipped' = TRUE
  /\ Goto(p, IF mem[p].sourceAcked THEN "complete" ELSE "ack")
  /\ UNCHANGED <<store, idx, conf, present, offered, landed, commits, budget>>

(* Processor.Process returns the configured plan; a first plan is adopted, *)
(* a different one than the saved plan is refused.                         *)
Process(p) ==
  /\ pc[p] = "process"
  /\ Fetchable(p)
  /\ IF ~HasPlan(mem[p])
       THEN /\ mem' = [mem EXCEPT ![p].plan = conf[p].plan, ![p].skipped = FALSE,
                                  ![p].sourceStore = conf[p].sourceStore]
            /\ Goto(p, "savePlan")
            /\ UNCHANGED idx
       ELSE IF mem[p].plan = conf[p].plan
              THEN Goto(p, "validate") /\ UNCHANGED <<mem, idx>>
              ELSE Return(p, FALSE)
  /\ UNCHANGED <<store, conf, world, budget>>

(* The check of the delete policy before the first delivery. *)
Validate(p) ==
  /\ pc[p] = "validate"
  /\ IF validateDeleteSource(mem[p].plan, conf[p])
       THEN Goto(p, "deliver") /\ UNCHANGED <<mem, idx>>
       ELSE Return(p, FALSE)
  /\ UNCHANGED <<store, conf, world, budget>>

(* The loop over the plan's targets. *)
Target(p) == mem[p].plan.targets[idx[p]]
InLoop(p) == pc[p] = "deliver" /\ idx[p] <= Len(mem[p].plan.targets)

(* Mutant: a resumed loop delivers to every target again. *)
Committed_never(p) == FALSE

Committed(p) == mem[p].deliveries[Target(p).key] # NoReceipt
SinkStore(p) == conf[p].sinkStore[Target(p).consumer]
NextTarget(p) == idx' = [idx EXCEPT ![p] = idx[p] + 1]

SkipCommitted(p) ==
  /\ InLoop(p)
  /\ Committed(p)
  /\ NextTarget(p)
  /\ UNCHANGED <<store, mem, pc, conf, world, budget>>

(* The sink takes the mail. *)
Land(p) ==
  /\ landed' = landed \cup {<<Target(p).key, SinkStore(p)>>}
  /\ commits' = [commits EXCEPT ![Target(p).key] = @ + 1]

Consume(p) ==
  /\ InLoop(p)
  /\ ~Committed(p)
  /\ Land(p)
  /\ mem' = [mem EXCEPT ![p].deliveries[Target(p).key] = SinkStore(p)]
  /\ Goto(p, "saveReceipt")
  /\ UNCHANGED <<store, idx, conf, present, offered, skipped, budget>>

(* Consume returns an error, before or after the sink took the mail: the   *)
(* end of this Run for a required target, the next target for another one. *)
ConsumeFails(p) ==
  /\ InLoop(p)
  /\ ~Committed(p)
  /\ Fault
  /\ Land(p) \/ UNCHANGED <<landed, commits>>
  /\ IF Target(p).required
       THEN Return(p, FALSE)
       ELSE NextTarget(p) /\ UNCHANGED <<mem, pc>>
  /\ UNCHANGED <<store, conf, present, offered, skipped>>

EndOfTargets(p) ==
  /\ pc[p] = "deliver"
  /\ idx[p] > Len(mem[p].plan.targets)
  /\ Goto(p, "decide")
  /\ UNCHANGED <<store, mem, idx, conf, world, budget>>

(* After the deliveries: are all required ones there, may and should the   *)
(* source mail be deleted?                                                 *)
Decide(p) ==
  /\ pc[p] = "decide"
  /\ IF ~hasRequiredDeliveries(mem[p]) THEN Return(p, TRUE)
     ELSE IF ~validateDeleteSource(mem[p].plan, conf[p]) THEN Return(p, FALSE)
     ELSE /\ Goto(p, IF ~mem[p].sourceDeleted /\ shouldDeleteSource(mem[p]) THEN "delete"
                     ELSE IF mem[p].sourceAcked THEN "complete" ELSE "ack")
          /\ UNCHANGED <<mem, idx>>
  /\ UNCHANGED <<store, conf, world, budget>>

(* DeletableSource.Delete: deleting a mail that is already gone succeeds,  *)
(* a push source always refuses.                                           *)
Delete(p) ==
  /\ pc[p] = "delete"
  /\ Kind[p] # "push"
  /\ present' = FALSE
  /\ mem' = [mem EXCEPT ![p].sourceDeleted = TRUE]
  /\ Goto(p, "saveDeleted")
  /\ UNCHANGED <<store, idx, conf, offered, landed, commits, skipped, budget>>

DeleteFails(p) ==
  /\ pc[p] = "delete"
  /\ Fault
  /\ present' \in {present, present /\ Kind[p] = "push"}
  /\ Return(p, FALSE)
  /\ UNCHANGED <<store, conf, offered, landed, commits, skipped>>

(* Mutant: Acknowledge already empties the spool. *)
AckedOffer_early(p) == FALSE

(* SourceHandle.Acknowledge: a polling source drops the mail from its      *)
(* pending list, a push source writes its seen marker and keeps the mail,  *)
(* a single-message handle does nothing.                                   *)
AckedOffer(p) == offered /\ Kind[p] # "poll"

Acknowledge(p) ==
  /\ pc[p] = "ack"
  /\ offered' = AckedOffer(p)
  /\ mem' = [mem EXCEPT ![p].sourceAcked = TRUE]
  /\ Goto(p, "saveAcked")
  /\ UNCHANGED <<store, idx, conf, present, landed, commits, skipped, budget>>

AcknowledgeFails(p) ==
  /\ pc[p] = "ack"
  /\ Kind[p] # "reader"
  /\ Fault
  /\ offered' \in {offered, AckedOffer(p)}
  /\ Return(p, FALSE)
  /\ UNCHANGED <<store, conf, present, landed, commits, skipped>>

Complete(p) ==
  /\ pc[p] = "complete"
  /\ mem' = [mem EXCEPT ![p].completed = TRUE]
  /\ Goto(p, "saveCompleted")
  /\ UNCHANGED <<store, idx, conf, world, budget>>

(* StateStore.Save of p's state, and what Run does next. *)
AfterSave ==
  [savePlan |-> "validate", saveReceipt |-> "deliver", saveDeleted |-> "ack",
   saveAcked |-> "complete", saveCompleted |-> "finalize"]

(* Mutants: receipts are only saved at the end; a first plan is not saved. *)
Saved_lazy(p) == IF p \in Durable /\ pc[p] # "saveReceipt" THEN mem[p] ELSE store
Saved_noPlan(p) == IF p \in Durable /\ pc[p] # "savePlan" THEN mem[p] ELSE store

Saved(p) == IF p \in Durable THEN mem[p] ELSE store

Save(p) ==
  /\ pc[p] \in DOMAIN AfterSave
  /\ store' = Saved(p)
  /\ Goto(p, IF pc[p] = "saveDeleted" /\ mem[p].sourceAcked THEN "complete"
             ELSE AfterSave[pc[p]])
  /\ idx' = IF pc[p] = "saveReceipt" THEN [idx EXCEPT ![p] = idx[p] + 1] ELSE idx
  /\ UNCHANGED <<mem, conf, world, budget>>

(* WriteFileAtomic fails before its rename, or after it (the directory      *)
(* cannot be synced): the new state may be in place although Save failed.   *)
SaveFails(p) ==
  /\ pc[p] \in DOMAIN AfterSave
  /\ p \in Durable
  /\ Fault
  /\ store' \in {store, Saved(p)}
  /\ Return(p, FALSE)
  /\ UNCHANGED <<conf, world>>

(* Mutant: the spool is not cleaned up. *)
FinalizedOffer_keeps(p) == offered

(* finalizeSourceAcknowledge: only a push source implements it; it removes *)
(* the mail from the spool.                                                *)
FinalizedOffer(p) == offered /\ Kind[p] # "push"

Finalize(p) ==
  /\ pc[p] = "finalize"
  /\ offered' = FinalizedOffer(p)
  /\ Return(p, TRUE)
  /\ UNCHANGED <<store, conf, present, landed, commits, skipped, budget>>

FinalizeFails(p) ==
  /\ pc[p] = "finalize"
  /\ Kind[p] = "push"
  /\ Fault
  /\ Return(p, FALSE)
  /\ UNCHANGED <<store, conf, world>>

(* The process dies; what it has saved and done outside stays. *)
Crash(p) ==
  /\ pc[p] # "down"
  /\ Fault
  /\ Goto(p, "down")
  /\ mem' = [mem EXCEPT ![p] = ZeroState]
  /\ idx' = [idx EXCEPT ![p] = 1]
  /\ UNCHANGED <<store, conf, world>>

(* The source offers the same mail again: a push sender repeats a delivery  *)
(* after the replay window, a mail with an immutable id is moved out of the *)
(* polled folder and back.                                                  *)
Reoffer ==
  /\ ~offered
  /\ present
  /\ reoffers < MaxReoffers
  /\ offered' = TRUE
  /\ reoffers' = reoffers + 1
  /\ UNCHANGED <<store, mem, pc, idx, conf, present, landed, commits, skipped, faults, commands>>

(* What p does by itself once it is running. *)
Step(p) ==
  \/ Load(p) \/ ReaderFindsNothing(p)
  \/ ProcessFails(p) \/ ProcessSkips(p) \/ Process(p) \/ Validate(p)
  \/ SkipCommitted(p) \/ Consume(p) \/ ConsumeFails(p) \/ EndOfTargets(p)
  \/ Decide(p) \/ Delete(p) \/ DeleteFails(p)
  \/ Acknowledge(p) \/ AcknowledgeFails(p) \/ Complete(p)
  \/ Save(p) \/ SaveFails(p) \/ Finalize(p) \/ FinalizeFails(p)

Next ==
  \/ \E p \in Procs : Step(p) \/ Crash(p) \/ \E c \in Configs : Boot(p, c)
  \/ Reoffer

Spec == Init /\ [][Next]_vars

(* A running process goes on; the service manager restarts `run`           *)
(* (compose.example.yml: restart: unless-stopped).  Nobody has to invoke a *)
(* reader command.                                                         *)
Fairness ==
  \A p \in Procs :
     /\ WF_vars(Step(p))
     /\ Kind[p] # "reader" => WF_vars(\E c \in Configs : Boot(p, c))

FairSpec == Spec /\ Fairness
-----------------------------------------------------------------------------
(* Properties. *)

Labels ==
  {"down", "idle", "process", "validate", "deliver", "decide", "delete", "ack",
   "complete", "finalize"} \cup DOMAIN AfterSave

(* Every variable has its type; in particular a saved transaction state is  *)
(* one that FileStateStore can write and read back.                         *)
TypeOK ==
  /\ store \in TxState
  /\ mem \in [Procs -> TxState]
  /\ pc \in [Procs -> Labels]
  /\ idx \in [Procs -> Nat \ {0}]
  /\ conf \in [Procs -> Configs]
  /\ present \in BOOLEAN /\ offered \in BOOLEAN /\ skipped \in BOOLEAN
  /\ landed \subseteq Keys \X StoreRefs
  /\ commits \in [Keys -> Nat]
  /\ faults \in Nat /\ commands \in Nat /\ reoffers \in Nat

Landed(key) == \E s \in StoreRefs : <<key, s>> \in landed

RequiredLanded(plan) == \A t \in Targets(plan) : t.required => Landed(t.key)

(* README "delete_source": the source mail is deleted only when a plan with *)
(* deletion enabled has every required copy in its sink and a copy at an    *)
(* eligible sink, in the source's own store if the policy asks for that.    *)
(* It holds for any number of processes, crashes and failed calls.          *)
NoLossOnDelete ==
  ~present =>
    \E c \in Configs :
       /\ RequiredLanded(c.plan)
       /\ c.plan.enabled
       /\ \E t \in Targets(c.plan) :
             /\ c.plan.eligible # {} => t.consumer \in c.plan.eligible
             /\ Landed(t.key)
             /\ c.plan.sameStore =>
                   \E d \in Configs : d.sourceStore # NoStore
                                      /\ <<t.key, d.sourceStore>> \in landed

(* A mail leaves the source queue only when the processor skipped it or all *)
(* required targets of a plan hold it: acknowledging never loses a mail.    *)
NoSilentDrop ==
  ~offered => skipped \/ \E c \in Configs : RequiredLanded(c.plan)

(* A state whose mail may leave the queue, given whether it was skipped. *)
Fulfilled(state, skip) == skip \/ (HasPlan(state) /\ hasRequiredDeliveries(state))

(* The copies that exist back what a state claims. *)
Backed(state, lands, skip) ==
  /\ \A k \in Keys : state.deliveries[k] # NoReceipt => <<k, state.deliveries[k]>> \in lands
  /\ HasPlan(state) => \E c \in Configs : state.plan = c.plan
  /\ state.sourceStore # NoStore => \E c \in Configs : state.sourceStore = c.sourceStore
  /\ state.completed => Fulfilled(state, skip)

(* A Run at a label has established what that label needs. *)
Sound(state, label, lands, skip) ==
  /\ Backed(state, lands, skip)
  /\ label \in {"savePlan", "validate", "deliver", "saveReceipt", "decide", "delete"}
       => HasPlan(state)
  /\ label = "delete" => hasRequiredDeliveries(state) /\ shouldDeleteSource(state)
  /\ label \in {"saveDeleted", "ack", "saveAcked", "complete", "saveCompleted", "finalize"}
       => Fulfilled(state, skip)

(* The inductive invariant behind NoLossOnDelete and NoSilentDrop: every    *)
(* receipt, in memory or saved, stands for a copy that exists, and a Run    *)
(* that is about to delete, acknowledge, complete or finalize has them all. *)
DeliveryInv ==
  /\ Backed(store, landed, skipped)
  /\ \A p \in Procs : Sound(mem[p], pc[p], landed, skipped)
  /\ NoLossOnDelete
  /\ NoSilentDrop

(* With one process and a FileStateStore: once the receipt of a target is   *)
(* saved, no later Run commits the mail to that target again, whatever      *)
(* crashed or failed in between.                                            *)
NoRecommit ==
  [][\A k \in Keys : store.deliveries[k] # NoReceipt => commits'[k] = commits[k]]_vars

(* A push mail leaves the spool only after the transaction is durably       *)
(* completed, so a requeued mail is recognised after any crash.             *)
ReleaseIsRecorded == ~offered => store.completed

(* With one process: what is saved is never taken back, neither a receipt   *)
(* nor the adopted plan nor one of the flags, whatever Run resumes from.    *)
DurableProgress ==
  [][/\ \A k \in Keys : store.deliveries[k] # NoReceipt
                          => store'.deliveries[k] = store.deliveries[k]
     /\ HasPlan(store) => store'.plan = store.plan
     /\ store.sourceDeleted => store'.sourceDeleted
     /\ store.sourceAcked => store'.sourceAcked
     /\ store.completed => store' = store]_vars

(* Write-ahead rule of the deletion, with one process: when the source mail *)
(* disappears, the saved state already holds the receipts that allow it, so *)
(* a Run that resumes never needs the deleted MIME again.                   *)
DeleteAfterDurableReceipts ==
  [][present /\ ~present' =>
       hasRequiredDeliveries(store) /\ shouldDeleteSource(store)]_vars

(* The abstract mail transaction; see MailTransaction. *)
Contract(plan) ==
  [keys |-> {t.key : t \in Targets(plan)},
   required |-> {t.key : t \in {u \in Targets(plan) : u.required}},
   removable |-> plan.enabled]

Abstract ==
  INSTANCE MailTransaction WITH
    Contracts <- {Contract(c.plan) : c \in Configs},
    NoContract <- Contract(NoPlan),
    contract <- Contract(store.plan),
    delivered <- {k \in Keys : Landed(k)},
    removed <- ~present,
    released <- ~offered

(* With one process: every step of Run, crash or failure is a step of the   *)
(* abstract transaction (adopt one contract durably, deliver under it,      *)
(* remove and release only when it is met) or changes nothing of it.        *)
ImplementsMailTransaction == Abstract!Spec

(* Under fairness, once the bounded faults are used up, a mail that the     *)
(* source offers is released for good.                                      *)
EventuallyReleased == <>[]~offered
=============================================================================
