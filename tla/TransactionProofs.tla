------------------------- MODULE TransactionProofs --------------------------
(***************************************************************************)
(* Proofs about a Coordinator that has its transaction state to itself:    *)
(* one process, with a FileStateStore, of any kind of source, for every    *)
(* set of configurations it may be restarted with and any number of        *)
(* faults.  What is saved is never taken back, no receipt that is saved is *)
(* delivered again, a deletion is always covered by saved receipts, and    *)
(* every step is a step of MailTransaction.                                *)
(*                                                                         *)
(* DeliveryInv (CoordinatorProofs) says what the receipts stand for; here  *)
(* it is joined by Tracked, which says how far the state in memory may be  *)
(* ahead of the saved one at each label of Run.                            *)
(***************************************************************************)
EXTENDS CoordinatorProofs

(* No other process saves into the state file, and this one does. *)
Alone == Durable = Procs /\ \A p, q \in Procs : p = q

(* The state new has everything that the state old has recorded. *)
Keeps(old, new) ==
  /\ \A k \in Keys : old.deliveries[k] # NoReceipt => new.deliveries[k] = old.deliveries[k]
  /\ HasPlan(old) => new.plan = old.plan
  /\ old.sourceDeleted => new.sourceDeleted
  /\ old.sourceAcked => new.sourceAcked

(* A state that has no target has the zero plan. *)
PlanIsAdopted(state) == state.plan = NoPlan \/ \E c \in Configs : state.plan = c.plan

(* Run at a label, with mine in memory and saved in the file. *)
InStep(label, mine, saved) ==
  /\ label \in {"process", "validate", "deliver", "decide", "delete", "finalize"}
       => mine = saved
  /\ label \notin {"down", "idle"} =>
       /\ Keeps(saved, mine)
       /\ label # "savePlan" => mine.plan = saved.plan
       /\ label # "finalize" => ~saved.completed
  /\ label = "savePlan" => ~HasPlan(saved)
  /\ mine.completed <=> label \in {"saveCompleted", "finalize"}

Tracked ==
  /\ PlanIsAdopted(store)
  /\ \A p \in Procs : PlanIsAdopted(mem[p]) /\ InStep(pc[p], mem[p], store)

SoloInv == TypeOK /\ DeliveryInv /\ Tracked


-----------------------------------------------------------------------------
(* A process that is alone with its mail keeps the state file, and is *)
(* everybody.                                                         *)
LEMMA TheOnlyOne ==
  ASSUME Alone, NEW p \in Procs
  PROVE  p \in Durable /\ (\A q \in Procs : q = p) /\ Saved(p) = mem[p] /\ Loaded(p) = store
BY DEF Alone, Saved, Loaded

(* With one process it is enough to look at that one. *)
LEMMA TrackedFrom ==
  ASSUME Alone, NEW p \in Procs, PlanIsAdopted(store'), PlanIsAdopted(mem'[p]),
         InStep(pc'[p], mem'[p], store')
  PROVE  Tracked'
<1>1. \A q \in Procs : q = p
  BY TheOnlyOne
<1> QED BY <1>1 DEF Tracked, PlanIsAdopted

(* A transaction that has not begun has adopted no plan. *)
LEMMA ZeroIsAdopted == PlanIsAdopted(ZeroState)
BY DEF PlanIsAdopted, ZeroState

(* When Run returns it may have left its state in the file or not. *)
LEMMA ReturnTracked ==
  ASSUME Alone, TypeOK, Tracked, NEW p \in Procs, NEW ok \in BOOLEAN, Return(p, ok),
         store' = store \/ store' = mem[p]
  PROVE  Tracked'
<1>1. mem'[p] = ZeroState /\ pc'[p] \in {"idle", "down"}
  BY ReturnSound
<1>2. PlanIsAdopted(store')
  BY DEF Tracked
<1>3. InStep(pc'[p], mem'[p], store')
  BY <1>1 DEF InStep, ZeroState
<1> QED BY <1>1, <1>2, <1>3, ZeroIsAdopted, TrackedFrom

(* An adopted plan with a target is one of the configured ones, and the    *)
(* other way round.                                                        *)
LEMMA AdoptedPlan ==
  ASSUME NEW state, PlanIsAdopted(state)
  PROVE  /\ ~HasPlan(state) => state.plan = NoPlan
         /\ HasPlan(state) => \E c \in Configs : state.plan = c.plan
<1>1. \A c \in Configs : c.plan.targets # <<>>
  BY ConfigPlan
<1> QED BY <1>1 DEF PlanIsAdopted, HasPlan, NoPlan

(* The state in memory stays within one change of the saved one. *)
LEMMA TrackedStep ==
  ASSUME Alone, TypeOK, DeliveryInv, Tracked, [Next]_vars
  PROVE  Tracked'
<1>1. CASE Reoffer \/ UNCHANGED vars
  BY <1>1 DEF Reoffer, vars, Tracked, PlanIsAdopted
<1>2. ASSUME NEW p \in Procs, NEW c \in Configs, Boot(p, c) PROVE Tracked'
  <2>1. pc'[p] = "idle" /\ mem' = mem /\ store' = store
    BY <1>2 DEF Boot, Goto, TypeOK
  <2>2. PlanIsAdopted(store) /\ PlanIsAdopted(mem[p])
    BY DEF Tracked
  <2>3. InStep(pc'[p], mem[p], store)
    BY <1>2, <2>1 DEF Boot, Tracked, InStep
  <2> QED BY <2>1, <2>2, <2>3, TrackedFrom
<1>3. ASSUME NEW p \in Procs, Crash(p) PROVE Tracked'
  <2>1. pc'[p] = "down" /\ mem'[p] = ZeroState /\ store' = store
    BY <1>3 DEF Crash, Goto, TypeOK
  <2>2. PlanIsAdopted(store) /\ InStep(pc'[p], mem'[p], store)
    BY <2>1 DEF Tracked, InStep, ZeroState
  <2> QED BY <2>1, <2>2, ZeroIsAdopted, TrackedFrom
<1>4. ASSUME NEW p \in Procs, Step(p) PROVE Tracked'
  <2>p. /\ PlanIsAdopted(store) /\ PlanIsAdopted(mem[p])
        /\ InStep(pc[p], mem[p], store)
        /\ mem[p] \in TxState /\ store \in TxState
        /\ Saved(p) = mem[p] /\ Loaded(p) = store
    BY TheOnlyOne DEF Tracked, TypeOK
  <2>t. mem \in [Procs -> TxState] /\ pc \in [Procs -> Labels]
    BY DEF TypeOK
  (* Steps that go on to a label with the state they have. *)
  <2>g. ASSUME NEW label, Goto(p, label), mem' = mem, store' = store,
               InStep(label, mem[p], store)
        PROVE  Tracked'
    BY <2>p, <2>t, <2>g, TrackedFrom DEF Goto
  <2>1. CASE Load(p)
    <3>1. mem'[p] = store /\ store' = store
      BY <2>1, <2>p, <2>t DEF Load
    <3>2. \/ pc'[p] = "finalize" /\ store.completed
          \/ pc'[p] \in {"process", "decide"} /\ ~store.completed
      BY <2>1, <2>p, <2>t DEF Load, Goto
    <3>3. InStep(pc'[p], store, store)
      BY <3>2 DEF InStep, Keeps
    <3> QED BY <2>p, <3>1, <3>3, TrackedFrom
  <2>2. CASE ReaderFindsNothing(p) \/ ProcessFails(p) \/ DeleteFails(p)
             \/ AcknowledgeFails(p) \/ FinalizeFails(p)
    BY <2>2, ReturnTracked
    DEF ReaderFindsNothing, ProcessFails, DeleteFails, AcknowledgeFails, FinalizeFails
  <2>3. CASE ProcessSkips(p)
    <3>1. /\ pc[p] = "process" /\ pc'[p] \in {"complete", "ack"} /\ store' = store
          /\ mem'[p].deliveries = mem[p].deliveries /\ mem'[p].plan = mem[p].plan
          /\ mem'[p].sourceDeleted = mem[p].sourceDeleted
          /\ mem'[p].sourceAcked = mem[p].sourceAcked
          /\ mem'[p].completed = mem[p].completed
      BY <2>3, <2>p, <2>t DEF ProcessSkips, Goto, TxState
    <3>2. PlanIsAdopted(mem'[p]) /\ InStep(pc'[p], mem'[p], store)
      BY <3>1, <2>p DEF PlanIsAdopted, InStep, Keeps
    <3> QED BY <2>p, <3>1, <3>2, TrackedFrom
  <2>4. CASE Process(p)
    <3>1. CASE ~HasPlan(mem[p])
      <4>1. /\ pc[p] = "process" /\ pc'[p] = "savePlan" /\ store' = store
            /\ mem'[p].deliveries = mem[p].deliveries /\ mem'[p].plan = conf[p].plan
            /\ mem'[p].sourceDeleted = mem[p].sourceDeleted
            /\ mem'[p].sourceAcked = mem[p].sourceAcked
            /\ mem'[p].completed = mem[p].completed
        BY <2>4, <2>p, <2>t, <3>1 DEF Process, Goto, TxState
      <4>2. mem[p] = store /\ ~HasPlan(store)
        BY <2>p, <3>1, <4>1 DEF InStep
      <4>3. PlanIsAdopted(mem'[p])
        BY <4>1 DEF PlanIsAdopted, TypeOK
      <4>4. InStep(pc'[p], mem'[p], store)
        BY <4>1, <4>2, <2>p DEF InStep, Keeps
      <4> QED BY <2>p, <4>1, <4>3, <4>4, TrackedFrom
    <3>2. CASE HasPlan(mem[p])
      <4>1. CASE Return(p, FALSE)
        BY <2>4, <4>1, ReturnTracked DEF Process
      <4>2. CASE Goto(p, "validate") /\ mem' = mem
        <5>1. InStep("validate", mem[p], store) /\ store' = store
          BY <2>4, <2>p DEF Process, InStep
        <5> QED BY <4>2, <5>1, <2>g
      <4> QED BY <2>4, <3>2, <4>1, <4>2 DEF Process
    <3> QED BY <3>1, <3>2
  <2>5. CASE Validate(p)
    <3>1. CASE Return(p, FALSE)
      BY <2>5, <3>1, ReturnTracked DEF Validate
    <3>2. CASE Goto(p, "deliver") /\ mem' = mem
      <4>1. InStep("deliver", mem[p], store) /\ store' = store
        BY <2>5, <2>p DEF Validate, InStep
      <4> QED BY <3>2, <4>1, <2>g
    <3> QED BY <2>5, <3>1, <3>2 DEF Validate
  <2>6. CASE SkipCommitted(p)
    BY <2>6 DEF SkipCommitted, Tracked, PlanIsAdopted
  <2>7. CASE Consume(p)
    <3> DEFINE key == Target(p).key
    <3>1. /\ pc[p] = "deliver" /\ pc'[p] = "saveReceipt" /\ store' = store
          /\ mem' = [mem EXCEPT ![p].deliveries[key] = SinkStore(p)]
          /\ mem[p].deliveries[key] = NoReceipt
      BY <2>7, <2>t DEF Consume, InLoop, Goto, Committed
    <3>2. mem[p] = store /\ mem[p].deliveries \in [Keys -> StoreRefs \cup {NoReceipt}]
      BY <2>p, <3>1 DEF InStep, TxState
    <3> HIDE DEF key
    <3>3. /\ mem'[p].deliveries = [mem[p].deliveries EXCEPT ![key] = SinkStore(p)]
          /\ mem'[p].plan = mem[p].plan
          /\ mem'[p].sourceDeleted = mem[p].sourceDeleted
          /\ mem'[p].sourceAcked = mem[p].sourceAcked
          /\ mem'[p].completed = mem[p].completed
      BY <3>1, <2>p, <2>t DEF TxState
    <3>4. \A k \in Keys : store.deliveries[k] # NoReceipt
                             => mem'[p].deliveries[k] = store.deliveries[k]
      BY <3>1, <3>2, <3>3
    <3>5. PlanIsAdopted(mem'[p]) /\ InStep(pc'[p], mem'[p], store)
      BY <3>1, <3>2, <3>3, <3>4, <2>p DEF PlanIsAdopted, InStep, Keeps
    <3> QED BY <2>p, <3>1, <3>5, TrackedFrom
  <2>8. CASE ConsumeFails(p)
    <3>1. CASE Return(p, FALSE)
      BY <2>8, <3>1, ReturnTracked DEF ConsumeFails
    <3>2. CASE UNCHANGED <<mem, pc>>
      BY <2>8, <3>2 DEF ConsumeFails, Tracked, PlanIsAdopted
    <3> QED BY <2>8, <3>1, <3>2 DEF ConsumeFails
  <2>9. CASE EndOfTargets(p)
    <3>1. InStep("decide", mem[p], store)
      BY <2>9, <2>p DEF EndOfTargets, InStep
    <3> QED BY <2>9, <3>1, <2>g DEF EndOfTargets
  <2>10. CASE Decide(p)
    <3>1. CASE Return(p, TRUE) \/ Return(p, FALSE)
      BY <2>10, <3>1, ReturnTracked DEF Decide
    <3>2. CASE ~Return(p, TRUE) /\ ~Return(p, FALSE)
      <4>1. PICK label \in {"delete", "complete", "ack"} : Goto(p, label)
        BY <2>10, <3>2 DEF Decide
      <4>2. mem' = mem /\ store' = store
        BY <2>10, <3>2 DEF Decide
      <4>3. InStep(label, mem[p], store)
        BY <2>10, <2>p DEF Decide, InStep
      <4> QED BY <4>1, <4>2, <4>3, <2>g
    <3> QED BY <3>1, <3>2
  <2>11. CASE Delete(p)
    <3>1. /\ pc[p] = "delete" /\ pc'[p] = "saveDeleted" /\ store' = store
          /\ mem'[p].deliveries = mem[p].deliveries /\ mem'[p].plan = mem[p].plan
          /\ mem'[p].sourceDeleted = TRUE
          /\ mem'[p].sourceAcked = mem[p].sourceAcked
          /\ mem'[p].completed = mem[p].completed
      BY <2>11, <2>p, <2>t DEF Delete, Goto, TxState
    <3>2. PlanIsAdopted(mem'[p]) /\ InStep(pc'[p], mem'[p], store)
      BY <3>1, <2>p DEF PlanIsAdopted, InStep, Keeps
    <3> QED BY <2>p, <3>1, <3>2, TrackedFrom
  <2>12. CASE Acknowledge(p)
    <3>1. /\ pc[p] = "ack" /\ pc'[p] = "saveAcked" /\ store' = store
          /\ mem'[p].deliveries = mem[p].deliveries /\ mem'[p].plan = mem[p].plan
          /\ mem'[p].sourceDeleted = mem[p].sourceDeleted
          /\ mem'[p].sourceAcked = TRUE
          /\ mem'[p].completed = mem[p].completed
      BY <2>12, <2>p, <2>t DEF Acknowledge, Goto, TxState
    <3>2. PlanIsAdopted(mem'[p]) /\ InStep(pc'[p], mem'[p], store)
      BY <3>1, <2>p DEF PlanIsAdopted, InStep, Keeps
    <3> QED BY <2>p, <3>1, <3>2, TrackedFrom
  <2>13. CASE Complete(p)
    <3>1. /\ pc[p] = "complete" /\ pc'[p] = "saveCompleted" /\ store' = store
          /\ mem'[p].deliveries = mem[p].deliveries /\ mem'[p].plan = mem[p].plan
          /\ mem'[p].sourceDeleted = mem[p].sourceDeleted
          /\ mem'[p].sourceAcked = mem[p].sourceAcked /\ mem'[p].completed = TRUE
      BY <2>13, <2>p, <2>t DEF Complete, Goto, TxState
    <3>2. PlanIsAdopted(mem'[p]) /\ InStep(pc'[p], mem'[p], store)
      BY <3>1, <2>p DEF PlanIsAdopted, InStep, Keeps
    <3> QED BY <2>p, <3>1, <3>2, TrackedFrom
  <2>14. CASE Save(p)
    <3>1. store' = mem[p] /\ mem' = mem /\ pc[p] \in DOMAIN AfterSave
      BY <2>14, <2>p DEF Save
    <3>2. pc'[p] = IF pc[p] = "saveDeleted" /\ mem[p].sourceAcked THEN "complete"
                   ELSE AfterSave[pc[p]]
      BY <2>14, <2>t DEF Save, Goto
    <3>3. \/ pc'[p] \in {"validate", "deliver", "ack", "complete"} /\ ~mem[p].completed
          \/ pc'[p] = "finalize" /\ mem[p].completed
      BY <3>1, <3>2, <2>p DEF AfterSave, InStep
    <3>4. InStep(pc'[p], mem[p], mem[p])
      BY <3>3 DEF InStep, Keeps
    <3> QED BY <2>p, <3>1, <3>4, TrackedFrom
  <2>15. CASE SaveFails(p)
    BY <2>15, <2>p, ReturnTracked DEF SaveFails
  <2>16. CASE Finalize(p)
    BY <2>16, ReturnTracked DEF Finalize
  <2> QED BY <1>4, <2>1, <2>2, <2>3, <2>4, <2>5, <2>6, <2>7, <2>8, <2>9, <2>10, <2>11,
             <2>12, <2>13, <2>14, <2>15, <2>16 DEF Step
<1> QED BY <1>1, <1>2, <1>3, <1>4 DEF Next

(* While one process works on a mail, its state in memory and the saved one *)
(* keep in step, and both have adopted a plan before they hold a receipt.   *)
THEOREM SoloInvariance == ASSUME Alone PROVE Spec => []SoloInv
<1>1. Init => Tracked
  <2> SUFFICES ASSUME Init PROVE Tracked
    OBVIOUS
  <2>1. ASSUME NEW p \in Procs PROVE PlanIsAdopted(mem[p]) /\ InStep(pc[p], mem[p], store)
    BY ZeroIsAdopted DEF Init, InStep, ZeroState
  <2> QED BY <2>1, ZeroIsAdopted DEF Init, Tracked
<1>2. TypeOK /\ DeliveryInv /\ Tracked /\ [Next]_vars => Tracked'
  BY TrackedStep
<1>3. TypeOK /\ DeliveryInv /\ Tracked => SoloInv
  BY DEF SoloInv
<1> QED BY <1>1, <1>2, <1>3, TypeCorrect, DeliveryInvariant, PTL DEF Spec

-----------------------------------------------------------------------------
(* The action properties. *)

(* Only a call of a sink makes copies, *)
LEMMA CommitsByConsume ==
  ASSUME [Next]_vars, ~UNCHANGED <<landed, commits>>
  PROVE  \E p \in Procs : (Consume(p) \/ ConsumeFails(p)) /\ Land(p)
BY DEF Next, Step, Load, ReaderFindsNothing, ProcessFails, ProcessSkips, Process, Validate,
       SkipCommitted, Consume, ConsumeFails, EndOfTargets, Decide, Delete, DeleteFails,
       Acknowledge, AcknowledgeFails, Complete, Save, SaveFails, Finalize, FinalizeFails,
       Crash, Boot, Reoffer, vars, world

(* only Save writes the file, and writes what is in memory, *)
LEMMA StoreBySave ==
  ASSUME Alone, [Next]_vars, store' # store
  PROVE  \E p \in Procs : /\ pc[p] \in DOMAIN AfterSave /\ store' = mem[p]
                          /\ UNCHANGED world
<1>1. ASSUME NEW p \in Procs, Save(p) \/ SaveFails(p)
      PROVE  pc[p] \in DOMAIN AfterSave /\ store' = mem[p] /\ UNCHANGED world
  BY <1>1, TheOnlyOne DEF Save, SaveFails
<1>2. \E p \in Procs : Save(p) \/ SaveFails(p)
  BY DEF Next, Step, Load, ReaderFindsNothing, ProcessFails, ProcessSkips, Process, Validate,
         SkipCommitted, Consume, ConsumeFails, EndOfTargets, Decide, Delete, DeleteFails,
         Acknowledge, AcknowledgeFails, Complete, Finalize, FinalizeFails,
         Crash, Boot, Reoffer, vars
<1> QED BY <1>1, <1>2

(* and only a call of the source's Delete takes the mail away. *)
LEMMA GoneByDelete ==
  ASSUME [Next]_vars, present' # present
  PROVE  \E p \in Procs : pc[p] = "delete" /\ (Delete(p) \/ DeleteFails(p))
BY DEF Next, Step, Load, ReaderFindsNothing, ProcessFails, ProcessSkips, Process, Validate,
       SkipCommitted, Consume, ConsumeFails, EndOfTargets, Decide, Delete, DeleteFails,
       Acknowledge, AcknowledgeFails, Complete, Save, SaveFails, Finalize, FinalizeFails,
       Crash, Boot, Reoffer, vars, world

(* Once the receipt of a target is saved, no later Run gives the mail to   *)
(* that target again, whatever crashed or failed in between: the loop skips*)
(* what the state in memory has a receipt for, and that is the saved state.*)
THEOREM SavedReceiptIsFinal == ASSUME Alone PROVE Spec => NoRecommit
<1>1. SoloInv /\ [Next]_vars
        => [\A k \in Keys : store.deliveries[k] # NoReceipt => commits'[k] = commits[k]]_vars
  <2> SUFFICES ASSUME SoloInv, [Next]_vars, NEW k \in Keys, store.deliveries[k] # NoReceipt
               PROVE  commits'[k] = commits[k]
    OBVIOUS
  <2>1. CASE UNCHANGED <<landed, commits>>
    BY <2>1
  <2>2. CASE ~UNCHANGED <<landed, commits>>
    <3>1. PICK p \in Procs : InLoop(p) /\ ~Committed(p) /\ Land(p)
      BY <2>2, CommitsByConsume DEF Consume, ConsumeFails
    <3>2. mem[p] = store
      BY <3>1 DEF SoloInv, Tracked, InStep, InLoop
    <3>3. Target(p).key # k
      BY <3>1, <3>2 DEF Committed
    <3>4. commits' = [commits EXCEPT ![Target(p).key] = @ + 1]
      BY <3>1 DEF Land
    <3>5. commits \in [Keys -> Nat]
      BY DEF SoloInv, TypeOK
    <3> QED BY <3>3, <3>4, <3>5
  <2> QED BY <2>1, <2>2
<1> QED BY <1>1, SoloInvariance, PTL DEF Spec, NoRecommit

(* What is saved is never taken back: neither a receipt, nor the adopted   *)
(* plan, nor one of the flags, and a completed transaction stays as it is. *)
THEOREM ProgressIsDurable == ASSUME Alone PROVE Spec => DurableProgress
<1>1. SoloInv /\ [Next]_vars
        => [/\ \A k \in Keys : store.deliveries[k] # NoReceipt
                                 => store'.deliveries[k] = store.deliveries[k]
            /\ HasPlan(store) => store'.plan = store.plan
            /\ store.sourceDeleted => store'.sourceDeleted
            /\ store.sourceAcked => store'.sourceAcked
            /\ store.completed => store' = store]_vars
  <2> SUFFICES ASSUME SoloInv, [Next]_vars, store' # store
               PROVE  Keeps(store, store') /\ ~store.completed
    BY DEF Keeps
  <2>1. PICK p \in Procs : pc[p] \in DOMAIN AfterSave /\ store' = mem[p]
    BY StoreBySave
  <2>2. pc[p] \notin {"down", "idle", "finalize"}
    BY <2>1 DEF AfterSave
  <2> QED BY <2>1, <2>2 DEF SoloInv, Tracked, InStep
<1> QED BY <1>1, SoloInvariance, PTL DEF Spec, DurableProgress

(* The write-ahead rule of the deletion: when the mail disappears from its *)
(* mailbox, the saved state holds the receipts that allow it.              *)
THEOREM DeletionIsWrittenAhead == ASSUME Alone PROVE Spec => DeleteAfterDurableReceipts
<1>1. SoloInv /\ [Next]_vars
        => [present /\ ~present' =>
              hasRequiredDeliveries(store) /\ shouldDeleteSource(store)]_vars
  <2> SUFFICES ASSUME SoloInv, [Next]_vars, present, ~present'
               PROVE  hasRequiredDeliveries(store) /\ shouldDeleteSource(store)
    OBVIOUS
  <2>1. PICK p \in Procs : pc[p] = "delete"
    BY GoneByDelete
  <2>2. mem[p] = store
    BY <2>1 DEF SoloInv, Tracked, InStep
  <2>3. hasRequiredDeliveries(mem[p]) /\ shouldDeleteSource(mem[p])
    BY <2>1 DEF SoloInv, DeliveryInv, Sound
  <2> QED BY <2>2, <2>3
<1> QED BY <1>1, SoloInvariance, PTL DEF Spec, DeleteAfterDurableReceipts

(* A mail leaves a source that is not polled (the push spool) only after   *)
(* the transaction is durably completed.                                   *)
THEOREM ReleaseComesLast ==
  ASSUME Alone, \A p \in Procs : Kind[p] # "poll"
  PROVE  Spec => []ReleaseIsRecorded
<1>1. Init => ReleaseIsRecorded
  BY DEF Init, ReleaseIsRecorded
<1>2. SoloInv /\ ReleaseIsRecorded /\ [Next]_vars => ReleaseIsRecorded'
  <2> SUFFICES ASSUME SoloInv, ReleaseIsRecorded, [Next]_vars, ~offered'
               PROVE  store'.completed
    BY DEF ReleaseIsRecorded
  <2>1. CASE store' # store
    <3>1. PICK p \in Procs : pc[p] \in DOMAIN AfterSave /\ UNCHANGED world
      BY <2>1, StoreBySave
    <3>2. ~store.completed
      BY <3>1 DEF SoloInv, Tracked, InStep, AfterSave
    <3> QED BY <3>1, <3>2 DEF ReleaseIsRecorded, world
  <2>2. CASE store' = store /\ ~offered
    BY <2>2 DEF ReleaseIsRecorded
  <2>3. CASE store' = store /\ offered
    <3>1. \E p \in Procs : Finalize(p)
      BY <2>3 DEF Next, Step, Load, ReaderFindsNothing, ProcessFails, ProcessSkips, Process,
                  Validate, SkipCommitted, Consume, ConsumeFails, EndOfTargets, Decide, Delete,
                  DeleteFails, Acknowledge, AcknowledgeFails, AckedOffer, Complete, Save,
                  SaveFails, FinalizeFails, Crash, Boot, Reoffer, vars, world
    <3>2. PICK p \in Procs : pc[p] = "finalize"
      BY <3>1 DEF Finalize
    <3> QED BY <2>3, <3>2 DEF SoloInv, Tracked, InStep
  <2> QED BY <2>1, <2>2, <2>3
<1> QED BY <1>1, <1>2, SoloInvariance, PTL DEF Spec

-----------------------------------------------------------------------------
(* The refinement of MailTransaction. *)

(* Every configured plan has targets, the missing one has none. *)
LEMMA ContractKeys ==
  /\ Contract(NoPlan).keys = {}
  /\ \A c \in Configs : Contract(c.plan).keys # {}
<1>1. Targets(NoPlan) = {}
  BY DEF Targets, NoPlan
<1>2. ASSUME NEW c \in Configs PROVE Targets(c.plan) # {}
  <2>1. c.plan.targets \in Seq(DeliveryTarget) /\ c.plan.targets # <<>>
    BY ConfigPlan DEF ExecutionPlan
  <2>2. 1 \in DOMAIN c.plan.targets
    BY <2>1
  <2> QED BY <2>2 DEF Targets
<1> QED BY <1>1, <1>2 DEF Contract

(* A Run past "savePlan" with a plan and its required receipts has met the *)
(* contract that is saved.                                                 *)
LEMMA ContractIsMet ==
  ASSUME SoloInv, NEW p \in Procs, pc[p] \notin {"down", "idle", "savePlan"},
         HasPlan(mem[p]), hasRequiredDeliveries(mem[p])
  PROVE  Abstract!Met
<1>1. mem[p].plan = store.plan
  BY DEF SoloInv, Tracked, InStep
<1>2. PICK c \in Configs : mem[p].plan = c.plan /\ RequiredLanded(c.plan)
  BY RequiredAreLanded DEF SoloInv, DeliveryInv, Sound
<1>3. Contract(store.plan) # Contract(NoPlan)
  BY <1>1, <1>2, ContractKeys
<1>4. ASSUME NEW k \in Contract(store.plan).required PROVE k \in Keys /\ Landed(k)
  <2>1. PICK t \in Targets(c.plan) : t.required /\ t.key = k
    BY <1>1, <1>2, <1>4 DEF Contract
  <2> QED BY <1>2, <2>1, TargetKey DEF RequiredLanded
<1> QED BY <1>3, <1>4 DEF Abstract!Met

(* A step that writes no plan, makes no copy, skips nothing and neither    *)
(* removes nor releases the mail is not visible.                           *)
LEMMA Unseen ==
  ASSUME store'.plan = store.plan, UNCHANGED <<present, offered, landed, skipped>>
  PROVE  UNCHANGED Abstract!vars
<1>1. \A k : Landed(k)' <=> Landed(k)
  BY DEF Landed
<1> QED BY <1>1 DEF Abstract!vars, Contract, Targets

(* Saving the first plan adopts its contract; no other save is visible. *)
LEMMA SaveRefines ==
  ASSUME Alone, SoloInv, NEW p \in Procs, pc[p] \in DOMAIN AfterSave,
         store' \in {store, Saved(p)}, UNCHANGED world
  PROVE  Abstract!Adopt \/ UNCHANGED Abstract!vars
<1>1. store' = store \/ store' = mem[p]
  BY TheOnlyOne
<1>2. CASE store'.plan = store.plan
  BY <1>2, Unseen DEF world
<1>3. CASE store'.plan # store.plan
  <2>1. store' = mem[p] /\ pc[p] = "savePlan" /\ ~HasPlan(store)
    BY <1>1, <1>3 DEF SoloInv, Tracked, InStep, AfterSave
  <2>2. store.plan = NoPlan
    BY <2>1, AdoptedPlan DEF SoloInv, Tracked
  <2>3. PICK c \in Configs : store'.plan = c.plan
    BY <1>3, <2>1, <2>2, AdoptedPlan DEF SoloInv, Tracked, PlanIsAdopted
  <2>4. \A k : Landed(k)' <=> Landed(k)
    BY DEF Landed, world
  <2> QED BY <2>2, <2>3, <2>4 DEF Abstract!Adopt, world
<1> QED BY <1>2, <1>3

(* A sink takes the mail under the saved contract. *)
LEMMA ConsumeRefines ==
  ASSUME SoloInv, NEW p \in Procs, InLoop(p), Land(p),
         UNCHANGED <<store, present, offered, skipped>>
  PROVE  Abstract!Deliver
<1>1. mem[p] = store
  BY DEF SoloInv, Tracked, InStep, InLoop
<1>2. Target(p) \in Targets(store.plan) /\ Target(p).key \in Keys /\ SinkStore(p) \in StoreRefs
  BY <1>1, LoopTarget DEF SoloInv, DeliveryTarget
<1> DEFINE key == Target(p).key
<1>3. \A k \in Keys : Landed(k)' <=> Landed(k) \/ k = key
  BY <1>2 DEF Landed, Land
<1>4. key \in Contract(store.plan).keys
  BY <1>2 DEF Contract
<1>5. {k \in Keys : Landed(k)'} = {k \in Keys : Landed(k)} \cup {key}
  BY <1>2, <1>3
<1> QED BY <1>4, <1>5 DEF Abstract!Deliver

(* The source mail goes away when its contract is met and allows it. *)
LEMMA DeleteRefines ==
  ASSUME SoloInv, NEW p \in Procs, pc[p] = "delete", present' = FALSE,
         UNCHANGED <<store, offered, landed, skipped>>
  PROVE  Abstract!Remove
<1>1. HasPlan(mem[p]) /\ hasRequiredDeliveries(mem[p]) /\ shouldDeleteSource(mem[p])
  BY DEF SoloInv, DeliveryInv, Sound
<1>2. Abstract!Met
  BY <1>1, ContractIsMet
<1>3. mem[p] = store
  BY DEF SoloInv, Tracked, InStep
<1>4. Contract(store.plan).removable
  BY <1>1, <1>3 DEF Contract, shouldDeleteSource
<1>5. \A k : Landed(k)' <=> Landed(k)
  BY DEF Landed
<1> QED BY <1>2, <1>4, <1>5 DEF Abstract!Remove

(* It leaves the queue when the contract is met or the mail is skipped. *)
LEMMA ReleaseRefines ==
  ASSUME SoloInv, NEW p \in Procs, pc[p] \in {"ack", "finalize"}, offered' = FALSE,
         UNCHANGED <<store, present, landed, skipped>>
  PROVE  Abstract!Release
<1>1. Fulfilled(mem[p], skipped)
  BY DEF SoloInv, DeliveryInv, Sound
<1>2. Abstract!Met \/ skipped
  BY <1>1, ContractIsMet DEF Fulfilled
<1>3. \A k : Landed(k)' <=> Landed(k)
  BY DEF Landed
<1> QED BY <1>2, <1>3 DEF Abstract!Release

(* Every step of the process is one of the transaction, or none. *)
LEMMA StepRefines ==
  ASSUME Alone, SoloInv, NEW p \in Procs, Step(p)
  PROVE  Abstract!Next \/ UNCHANGED Abstract!vars
<1> USE DEF Abstract!Next
<1>b. present \in BOOLEAN /\ offered \in BOOLEAN
  BY DEF SoloInv, TypeOK
<1>1. CASE UNCHANGED <<store, world>>
  BY <1>1, Unseen DEF world
<1>2. CASE ProcessSkips(p)
  <2>1. \A k : Landed(k)' <=> Landed(k)
    BY <1>2 DEF Landed, ProcessSkips
  <2> QED BY <1>2, <2>1 DEF ProcessSkips, Abstract!Skip
<1>3. CASE Consume(p) \/ ConsumeFails(p)
  <2>1. InLoop(p) /\ UNCHANGED <<store, present, offered, skipped>>
    BY <1>3 DEF Consume, ConsumeFails
  <2>2. CASE Land(p)
    BY <2>1, <2>2, ConsumeRefines
  <2>3. CASE UNCHANGED <<landed, commits>>
    BY <2>1, <2>3, Unseen
  <2> QED BY <1>3, <2>2, <2>3 DEF Consume, ConsumeFails
<1>4. CASE Delete(p) \/ DeleteFails(p)
  <2>1. pc[p] = "delete" /\ UNCHANGED <<store, offered, landed, skipped>>
    BY <1>4 DEF Delete, DeleteFails
  <2>2. present' = FALSE \/ present' = present
    BY <1>4, <1>b DEF Delete, DeleteFails
  <2> QED BY <2>1, <2>2, DeleteRefines, Unseen
<1>5. CASE Acknowledge(p) \/ AcknowledgeFails(p) \/ Finalize(p)
  <2>1. pc[p] \in {"ack", "finalize"} /\ UNCHANGED <<store, present, landed, skipped>>
    BY <1>5 DEF Acknowledge, AcknowledgeFails, Finalize
  <2>2. offered' = FALSE \/ offered' = offered
    BY <1>5, <1>b DEF Acknowledge, AcknowledgeFails, Finalize, AckedOffer, FinalizedOffer
  <2> QED BY <2>1, <2>2, ReleaseRefines, Unseen
<1>6. CASE Save(p) \/ SaveFails(p)
  <2>1. pc[p] \in DOMAIN AfterSave /\ store' \in {store, Saved(p)} /\ UNCHANGED world
    BY <1>6 DEF Save, SaveFails
  <2> QED BY <2>1, SaveRefines
<1>7. CASE \/ Load(p) \/ ReaderFindsNothing(p) \/ ProcessFails(p) \/ Process(p) \/ Validate(p)
           \/ SkipCommitted(p) \/ EndOfTargets(p) \/ Decide(p) \/ Complete(p) \/ FinalizeFails(p)
  BY <1>1, <1>7 DEF Load, ReaderFindsNothing, ProcessFails, Process, Validate, SkipCommitted,
                    EndOfTargets, Decide, Complete, FinalizeFails
<1> QED BY <1>2, <1>3, <1>4, <1>5, <1>6, <1>7 DEF Step

(* The Coordinator implements the abstract mail transaction: one contract  *)
(* is adopted durably, the sinks are written to under it, and the mail is  *)
(* removed or released only when it is met; every crash, retry and save in *)
(* between changes nothing of that.                                        *)
THEOREM TransactionIsImplemented == ASSUME Alone PROVE Spec => ImplementsMailTransaction
<1>1. Init => Abstract!Init
  <2> SUFFICES ASSUME Init PROVE Abstract!Init
    OBVIOUS
  <2>1. store.plan = NoPlan /\ present = TRUE /\ offered = TRUE /\ skipped = FALSE
    BY DEF Init, ZeroState
  <2>2. {k \in Keys : Landed(k)} = {}
    BY DEF Init, Landed
  <2> QED BY <2>1, <2>2 DEF Abstract!Init
<1>2. SoloInv /\ [Next]_vars => [Abstract!Next]_(Abstract!vars)
  <2> SUFFICES ASSUME SoloInv, [Next]_vars PROVE [Abstract!Next]_(Abstract!vars)
    OBVIOUS
  <2>1. ASSUME NEW p \in Procs, Step(p) PROVE Abstract!Next \/ UNCHANGED Abstract!vars
    BY <2>1, StepRefines
  <2>2. ASSUME NEW p \in Procs, Crash(p) \/ \E c \in Configs : Boot(p, c)
        PROVE  UNCHANGED Abstract!vars
    BY <2>2, Unseen DEF Crash, Boot, world
  <2>3. CASE Reoffer
    <3>1. \A k : Landed(k)' <=> Landed(k)
      BY <2>3 DEF Landed, Reoffer
    <3> QED BY <2>3, <3>1 DEF Reoffer, Abstract!Next, Abstract!Offer
  <2>4. CASE UNCHANGED vars
    BY <2>4, Unseen DEF vars, world
  <2> QED BY <2>1, <2>2, <2>3, <2>4 DEF Next
<1> QED BY <1>1, <1>2, SoloInvariance, PTL DEF Spec, ImplementsMailTransaction, Abstract!Spec
=============================================================================
