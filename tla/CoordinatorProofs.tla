------------------------- MODULE CoordinatorProofs -------------------------
(* Theorems about Coordinator, for every set of processes, configuration and *)
(* bound.                                                                    *)
EXTENDS Coordinator, TLAPS

(* A configuration's plan is a plan with at least one target. *)
LEMMA ConfigPlan ==
  ASSUME NEW c \in Configs
  PROVE  /\ c.plan \in ExecutionPlan
         /\ c.plan.targets # <<>>
         /\ c.sourceStore \in StoreRefs
         /\ c.sinkStore \in [Consumers -> StoreRefs]
BY ConfigAssumption DEF ValidPlan, ExecutionPlan

(* The state of a transaction that does not exist yet is well formed. *)
LEMMA ZeroStateType == ZeroState \in TxState
BY DEF ZeroState, TxState, NoPlan, ExecutionPlan, StoreRefs

(* The target a delivery loop looks at is one of the plan's targets. *)
LEMMA LoopTarget ==
  ASSUME TypeOK, NEW p \in Procs, InLoop(p)
  PROVE  /\ Target(p) \in DeliveryTarget
         /\ Target(p) \in Targets(mem[p].plan)
         /\ SinkStore(p) \in StoreRefs
<1>1. mem[p].plan \in ExecutionPlan /\ idx[p] \in Nat \ {0} /\ conf[p] \in Configs
  BY DEF TypeOK, TxState
<1>2. mem[p].plan.targets \in Seq(DeliveryTarget)
  BY <1>1 DEF ExecutionPlan
<1>3. idx[p] \in DOMAIN mem[p].plan.targets
  BY <1>1, <1>2 DEF InLoop
<1>4. Target(p) \in DeliveryTarget /\ Target(p) \in Targets(mem[p].plan)
  BY <1>2, <1>3 DEF Target, Targets
<1>5. SinkStore(p) \in StoreRefs
  BY <1>1, <1>4, ConfigPlan DEF SinkStore, DeliveryTarget
<1> QED BY <1>4, <1>5

(* A committed copy keeps the records of the sinks well typed. *)
LEMMA LandType ==
  ASSUME TypeOK, NEW p \in Procs, Target(p).key \in Keys, SinkStore(p) \in StoreRefs,
         Land(p)
  PROVE  landed' \subseteq Keys \X StoreRefs /\ commits' \in [Keys -> Nat]
<1> DEFINE k == Target(p).key
<1>1. k \in Keys /\ commits \in [Keys -> Nat]
  BY DEF TypeOK
<1>2. commits' = [commits EXCEPT ![k] = commits[k] + 1]
  BY DEF Land
<1>3. landed' = landed \cup {<<k, SinkStore(p)>>}
  BY DEF Land
<1> HIDE DEF k
<1>4. commits' \in [Keys -> Nat]
  BY <1>1, <1>2
<1>5. landed' \subseteq Keys \X StoreRefs
  BY <1>1, <1>3 DEF TypeOK
<1> QED BY <1>4, <1>5

(* Every step keeps the variables in their types. *)
LEMMA TypeStep ==
  ASSUME TypeOK, [Next]_vars
  PROVE  TypeOK'
<1> USE ZeroStateType, BoundAssumption
<1>1. ASSUME NEW p \in Procs, NEW c \in Configs, Boot(p, c) PROVE TypeOK'
  BY <1>1 DEF TypeOK, Boot, Goto, world, Labels
<1>2. CASE Reoffer
  BY <1>2 DEF TypeOK, Reoffer
<1>3. CASE UNCHANGED vars
  BY <1>3 DEF TypeOK, vars, world, budget
<1>4. ASSUME NEW p \in Procs, Crash(p) PROVE TypeOK'
  BY <1>4 DEF TypeOK, Crash, Goto, Fault, world, Labels
<1>5. ASSUME NEW p \in Procs, Step(p) PROVE TypeOK'
  <2> DEFINE R == \A ok \in BOOLEAN : Return(p, ok) =>
                     /\ mem' \in [Procs -> TxState]
                     /\ pc' \in [Procs -> Labels]
                     /\ idx' \in [Procs -> Nat \ {0}]
  <2>r. R
    BY DEF TypeOK, Return, AfterReturn, Goto, Labels
  <2>f. Fault => faults' \in Nat /\ commands' \in Nat /\ reoffers' \in Nat
    BY DEF TypeOK, Fault
  <2> HIDE DEF R
  <2>1. CASE Load(p)
    BY <2>1 DEF TypeOK, Load, Loaded, Goto, world, budget, Labels
  <2>2. CASE ReaderFindsNothing(p)
    BY <2>2, <2>r DEF TypeOK, ReaderFindsNothing, world, budget, R
  <2>3. CASE ProcessFails(p)
    BY <2>3, <2>r, <2>f DEF TypeOK, ProcessFails, world, budget, R
  <2>4. CASE ProcessSkips(p)
    <3>1. conf[p].sourceStore \in StoreRefs
      BY ConfigPlan DEF TypeOK
    <3> QED BY <2>4, <3>1 DEF TypeOK, ProcessSkips, Goto, budget, Labels, TxState
  <2>5. CASE Process(p)
    <3>1. conf[p].sourceStore \in StoreRefs /\ conf[p].plan \in ExecutionPlan
      BY ConfigPlan DEF TypeOK
    <3>2. CASE ~HasPlan(mem[p])
      <4>1. mem' = [mem EXCEPT ![p].plan = conf[p].plan, ![p].skipped = FALSE,
                               ![p].sourceStore = conf[p].sourceStore]
        BY <2>5, <3>2 DEF Process
      <4> DEFINE new == [mem[p] EXCEPT !.plan = conf[p].plan, !.skipped = FALSE,
                                       !.sourceStore = conf[p].sourceStore]
      <4>3. mem[p] \in TxState /\ mem \in [Procs -> TxState]
        BY DEF TypeOK
      <4>4. new \in TxState
        BY <3>1, <4>3 DEF TxState
      <4>5. mem' = [mem EXCEPT ![p] = new]
        BY <4>1, <4>3
      <4>2. mem' \in [Procs -> TxState]
        BY <4>3, <4>4, <4>5
      <4> QED BY <2>5, <3>2, <4>2 DEF TypeOK, Process, Goto, world, budget, Labels, AfterSave
    <3>3. CASE HasPlan(mem[p])
      BY <2>5, <2>r, <3>3 DEF TypeOK, Process, Goto, world, budget, Labels, R
    <3> QED BY <3>2, <3>3
  <2>6. CASE Validate(p)
    BY <2>6, <2>r DEF TypeOK, Validate, Goto, world, budget, Labels, R
  <2>7. CASE SkipCommitted(p)
    BY <2>7 DEF TypeOK, SkipCommitted, NextTarget, world, budget
  <2>8. CASE Consume(p)
    <3>1. Target(p).key \in Keys /\ SinkStore(p) \in StoreRefs
      BY <2>8, LoopTarget DEF Consume, DeliveryTarget
    <3>2. mem' \in [Procs -> TxState]
      BY <2>8, <3>1 DEF TypeOK, Consume, TxState
    <3>3. landed' \subseteq Keys \X StoreRefs /\ commits' \in [Keys -> Nat]
      BY <2>8, <3>1, LandType DEF Consume
    <3> QED BY <2>8, <3>2, <3>3 DEF TypeOK, Consume, Goto, budget, Labels, AfterSave
  <2>9. CASE ConsumeFails(p)
    <3>1. Target(p).key \in Keys /\ SinkStore(p) \in StoreRefs
      BY <2>9, LoopTarget DEF ConsumeFails, DeliveryTarget
    <3>2. landed' \subseteq Keys \X StoreRefs /\ commits' \in [Keys -> Nat]
      BY <2>9, <3>1, LandType DEF TypeOK, ConsumeFails
    <3>3. /\ mem' \in [Procs -> TxState]
          /\ pc' \in [Procs -> Labels]
          /\ idx' \in [Procs -> Nat \ {0}]
      <4>1. CASE Return(p, FALSE)
        BY <4>1, <2>r DEF R
      <4>2. CASE NextTarget(p) /\ UNCHANGED <<mem, pc>>
        BY <4>2 DEF TypeOK, NextTarget
      <4> QED BY <2>9, <4>1, <4>2 DEF ConsumeFails
    <3> QED BY <2>9, <2>f, <3>2, <3>3 DEF TypeOK, ConsumeFails
  <2>10. CASE EndOfTargets(p)
    BY <2>10 DEF TypeOK, EndOfTargets, Goto, world, budget, Labels
  <2>11. CASE Decide(p)
    BY <2>11, <2>r DEF TypeOK, Decide, Goto, world, budget, Labels, R
  <2>12. CASE Delete(p)
    BY <2>12 DEF TypeOK, Delete, Goto, budget, Labels, AfterSave, TxState
  <2>13. CASE DeleteFails(p)
    BY <2>13, <2>r, <2>f DEF TypeOK, DeleteFails, R
  <2>14. CASE Acknowledge(p)
    BY <2>14 DEF TypeOK, Acknowledge, AckedOffer, Goto, budget, Labels, AfterSave, TxState
  <2>15. CASE AcknowledgeFails(p)
    BY <2>15, <2>r, <2>f DEF TypeOK, AcknowledgeFails, AckedOffer, R
  <2>16. CASE Complete(p)
    BY <2>16 DEF TypeOK, Complete, Goto, world, budget, Labels, AfterSave, TxState
  <2>17. CASE Save(p)
    BY <2>17 DEF TypeOK, Save, Saved, Goto, world, budget, Labels, AfterSave
  <2>18. CASE SaveFails(p)
    BY <2>18, <2>r, <2>f DEF TypeOK, SaveFails, Saved, world, R
  <2>19. CASE Finalize(p)
    BY <2>19, <2>r DEF TypeOK, Finalize, FinalizedOffer, budget, R
  <2>20. CASE FinalizeFails(p)
    BY <2>20, <2>r, <2>f DEF TypeOK, FinalizeFails, world, R
  <2> QED BY <1>5, <2>1, <2>2, <2>3, <2>4, <2>5, <2>6, <2>7, <2>8, <2>9, <2>10, <2>11,
             <2>12, <2>13, <2>14, <2>15, <2>16, <2>17, <2>18, <2>19, <2>20 DEF Step
<1> QED BY <1>1, <1>2, <1>3, <1>4, <1>5 DEF Next

(* Type correctness of the transaction: saved and in-memory states are      *)
(* well-formed TxStates in every reachable state.                           *)
THEOREM TypeCorrect == Spec => []TypeOK
<1>1. Init => TypeOK
  <2> SUFFICES ASSUME Init PROVE TypeOK
    OBVIOUS
  <2>1. present \in BOOLEAN /\ offered \in BOOLEAN /\ skipped \in BOOLEAN
    BY DEF Init
  <2>2. /\ mem \in [Procs -> TxState]
        /\ pc \in [Procs -> Labels]
        /\ idx \in [Procs -> Nat \ {0}]
    BY ZeroStateType DEF Init, Labels
  <2>3. commits \in [Keys -> Nat] /\ landed \subseteq Keys \X StoreRefs
    BY DEF Init
  <2> QED BY <2>1, <2>2, <2>3, ZeroStateType DEF Init, TypeOK
<1>2. TypeOK /\ [Next]_vars => TypeOK'
  BY TypeStep
<1> QED BY <1>1, <1>2, PTL DEF Spec

-----------------------------------------------------------------------------
(* The safety invariant. *)

(* More copies and a skip decision cannot unsettle what a Run relies on. *)
LEMMA SoundGrows ==
  ASSUME NEW s, NEW label, NEW L, NEW M, NEW a \in BOOLEAN, NEW b \in BOOLEAN,
         L \subseteq M, a => b
  PROVE  /\ Backed(s, L, a) => Backed(s, M, b)
         /\ Sound(s, label, L, a) => Sound(s, label, M, b)
<1>1. Fulfilled(s, a) => Fulfilled(s, b)
  BY DEF Fulfilled
<1>2. Backed(s, L, a) => Backed(s, M, b)
  BY <1>1 DEF Backed
<1> QED BY <1>1, <1>2 DEF Sound

(* A process that is not inside Run has made no claim. *)
LEMMA ZeroSound ==
  ASSUME NEW label \in {"idle", "down"}, NEW L, NEW a
  PROVE  Sound(ZeroState, label, L, a)
BY DEF Sound, Backed, ZeroState, NoPlan, HasPlan

(* Return leaves the process outside Run. *)
LEMMA ReturnSound ==
  ASSUME TypeOK, NEW p \in Procs, NEW ok \in BOOLEAN, Return(p, ok)
  PROVE  /\ mem'[p] = ZeroState
         /\ pc'[p] \in {"idle", "down"}
         /\ \A q \in Procs \ {p} : mem'[q] = mem[q] /\ pc'[q] = pc[q]
BY DEF TypeOK, Return, AfterReturn, Goto

(* What already landed stays landed. *)
LEMMA LandedGrows ==
  ASSUME landed \subseteq landed'
  PROVE  /\ \A k : Landed(k) => Landed(k)'
         /\ NoLossOnDelete /\ present' = present => NoLossOnDelete'
         /\ NoSilentDrop /\ (~offered' => ~offered) /\ (skipped => skipped') => NoSilentDrop'
<1>1. \A k : Landed(k) => Landed(k)'
  BY DEF Landed
<1>2. \A plan : RequiredLanded(plan) => RequiredLanded(plan)'
  BY <1>1 DEF RequiredLanded
<1>3. ASSUME NoLossOnDelete, present' = present PROVE NoLossOnDelete'
  <2> SUFFICES ASSUME ~present' PROVE NoLossOnDelete!2'
    BY DEF NoLossOnDelete
  <2>1. PICK c \in Configs :
          /\ RequiredLanded(c.plan)
          /\ c.plan.enabled
          /\ \E t \in Targets(c.plan) :
                /\ c.plan.eligible # {} => t.consumer \in c.plan.eligible
                /\ Landed(t.key)
                /\ c.plan.sameStore =>
                      \E d \in Configs : d.sourceStore # NoStore
                                         /\ <<t.key, d.sourceStore>> \in landed
    BY <1>3 DEF NoLossOnDelete
  <2>2. RequiredLanded(c.plan)'
    BY <1>2, <2>1
  <2>3. \E t \in Targets(c.plan) :
           /\ c.plan.eligible # {} => t.consumer \in c.plan.eligible
           /\ Landed(t.key)'
           /\ c.plan.sameStore =>
                 \E d \in Configs : d.sourceStore # NoStore
                                    /\ <<t.key, d.sourceStore>> \in landed'
    BY <1>1, <2>1
  <2> QED BY <2>1, <2>2, <2>3
<1>4. ASSUME NoSilentDrop, ~offered' => ~offered, skipped => skipped' PROVE NoSilentDrop'
  BY <1>2, <1>4 DEF NoSilentDrop
<1> QED BY <1>1, <1>3, <1>4

(* The targets of a configured plan have keys. *)
LEMMA TargetKey ==
  ASSUME NEW c \in Configs, NEW t \in Targets(c.plan)
  PROVE  t.key \in Keys
<1>1. c.plan.targets \in Seq(DeliveryTarget)
  BY ConfigPlan DEF ExecutionPlan
<1>2. t \in DeliveryTarget
  BY <1>1 DEF Targets
<1> QED BY <1>2 DEF DeliveryTarget

(* A state with a plan and all its required receipts has the copies. *)
LEMMA RequiredAreLanded ==
  ASSUME TypeOK, NEW p \in Procs, Backed(mem[p], landed, skipped),
         HasPlan(mem[p]), hasRequiredDeliveries(mem[p])
  PROVE  \E c \in Configs : mem[p].plan = c.plan /\ RequiredLanded(c.plan)
<1>1. PICK c \in Configs : mem[p].plan = c.plan
  BY DEF Backed
<1>2. ASSUME NEW t \in Targets(c.plan), t.required PROVE Landed(t.key)
  <2>1. t.key \in Keys
    BY TargetKey
  <2>2. mem[p].deliveries[t.key] # NoReceipt
    BY <1>1, <1>2 DEF hasRequiredDeliveries
  <2>3. <<t.key, mem[p].deliveries[t.key]>> \in landed
    BY <2>1, <2>2 DEF Backed
  <2>4. mem[p].deliveries[t.key] \in StoreRefs
    BY <2>1, <2>2 DEF TypeOK, TxState
  <2> QED BY <2>3, <2>4 DEF Landed
<1> QED BY <1>1, <1>2 DEF RequiredLanded

(* A fulfilled Run may take the mail off the queue. *)
LEMMA FulfilledMayRelease ==
  ASSUME TypeOK, NEW p \in Procs, Backed(mem[p], landed, skipped),
         Fulfilled(mem[p], skipped)
  PROVE  skipped \/ \E c \in Configs : RequiredLanded(c.plan)
BY RequiredAreLanded DEF Fulfilled

(* At "delete" the source mail may disappear. *)
LEMMA DeleteIsSafe ==
  ASSUME TypeOK, NEW p \in Procs, Backed(mem[p], landed, skipped), HasPlan(mem[p]),
         hasRequiredDeliveries(mem[p]), shouldDeleteSource(mem[p]), landed' = landed
  PROVE  NoLossOnDelete'
<1>1. PICK c \in Configs : mem[p].plan = c.plan /\ RequiredLanded(c.plan)
  BY RequiredAreLanded
<1>2. PICK t \in Targets(c.plan) :
        /\ mem[p].deliveries[t.key] # NoReceipt
        /\ c.plan.eligible # {} => t.consumer \in c.plan.eligible
        /\ c.plan.sameStore => /\ mem[p].sourceStore # NoStore
                               /\ mem[p].deliveries[t.key] = mem[p].sourceStore
  BY <1>1 DEF shouldDeleteSource
<1>3. c.plan.enabled
  BY <1>1 DEF shouldDeleteSource
<1>4. t.key \in Keys
  BY TargetKey
<1>5. /\ <<t.key, mem[p].deliveries[t.key]>> \in landed
      /\ mem[p].deliveries[t.key] \in StoreRefs
  BY <1>2, <1>4 DEF Backed, TypeOK, TxState
<1>6. Landed(t.key)'
  BY <1>5 DEF Landed
<1>7. c.plan.sameStore => \E d \in Configs : d.sourceStore # NoStore
                                          /\ <<t.key, d.sourceStore>> \in landed'
  BY <1>2, <1>5 DEF Backed
<1>8. RequiredLanded(c.plan)'
  BY <1>1 DEF RequiredLanded, Landed
<1> QED BY <1>2, <1>3, <1>6, <1>7, <1>8 DEF NoLossOnDelete

(* With its claims fulfilled, p may take the mail off the queue. *)
LEMMA ReleaseIsSafe ==
  ASSUME TypeOK, NEW p \in Procs, Backed(mem[p], landed, skipped),
         Fulfilled(mem[p], skipped), landed' = landed, skipped' = skipped
  PROVE  NoSilentDrop'
<1>1. skipped \/ \E c \in Configs : RequiredLanded(c.plan)
  BY FulfilledMayRelease
<1>2. \A plan : RequiredLanded(plan) => RequiredLanded(plan)'
  BY DEF RequiredLanded, Landed
<1> QED BY <1>1, <1>2 DEF NoSilentDrop

(* What a step of p must establish. *)
LEMMA StepFrame ==
  ASSUME TypeOK, TypeOK', DeliveryInv, NEW p \in Procs,
         landed \subseteq landed', skipped => skipped',
         \A q \in Procs \ {p} : mem'[q] = mem[q] /\ pc'[q] = pc[q],
         Sound(mem'[p], pc'[p], landed', skipped'),
         store' = store \/ store' = mem[p],
         NoLossOnDelete', NoSilentDrop'
  PROVE  DeliveryInv'
<1>0. skipped \in BOOLEAN /\ skipped' \in BOOLEAN
  BY DEF TypeOK
<1>1. \A q \in Procs : Sound(mem'[q], pc'[q], landed', skipped')
  <2> SUFFICES ASSUME NEW q \in Procs PROVE Sound(mem'[q], pc'[q], landed', skipped')
    OBVIOUS
  <2>1. CASE q = p
    BY <2>1
  <2>2. CASE q # p
    <3>1. Sound(mem[q], pc[q], landed, skipped)
      BY DEF DeliveryInv
    <3>2. mem'[q] = mem[q] /\ pc'[q] = pc[q]
      BY <2>2
    <3> QED BY <1>0, <3>1, <3>2, SoundGrows
  <2> QED BY <2>1, <2>2
<1>2. Backed(store', landed', skipped')
  <2>1. Backed(store, landed, skipped) /\ Backed(mem[p], landed, skipped)
    BY DEF DeliveryInv, Sound
  <2> QED BY <1>0, <2>1, SoundGrows
<1> QED BY <1>1, <1>2 DEF DeliveryInv

(* Every step of every process preserves the invariant. *)
LEMMA DeliveryStep ==
  ASSUME TypeOK, TypeOK', DeliveryInv, [Next]_vars
  PROVE  DeliveryInv'
<1>0. /\ \A q \in Procs : Sound(mem[q], pc[q], landed, skipped)
      /\ Backed(store, landed, skipped) /\ NoLossOnDelete /\ NoSilentDrop
  BY DEF DeliveryInv
<1>t. /\ mem \in [Procs -> TxState] /\ pc \in [Procs -> Labels]
      /\ conf \in [Procs -> Configs] /\ skipped \in BOOLEAN /\ skipped' \in BOOLEAN
  BY DEF TypeOK
<1>1. ASSUME NEW p \in Procs, NEW c \in Configs, Boot(p, c) PROVE DeliveryInv'
  <2>1. /\ UNCHANGED <<store, mem, landed, skipped, present, offered>>
        /\ pc[p] = "down" /\ pc'[p] = "idle"
        /\ \A q \in Procs \ {p} : pc'[q] = pc[q]
    BY <1>1, <1>t DEF Boot, Goto, world
  <2>2. Sound(mem'[p], pc'[p], landed', skipped')
    BY <1>0, <2>1 DEF Sound
  <2> QED BY <1>0, <2>1, <2>2, LandedGrows, StepFrame
<1>2. CASE Reoffer
  <2>1. /\ UNCHANGED <<store, mem, pc, landed, skipped, present>> /\ offered'
    BY <1>2 DEF Reoffer
  <2>2. NoLossOnDelete' /\ NoSilentDrop'
    BY <1>0, <2>1, LandedGrows DEF NoSilentDrop
  <2> QED BY <1>0, <2>1, <2>2 DEF DeliveryInv
<1>3. CASE UNCHANGED vars
  <2>1. UNCHANGED <<store, mem, pc, landed, skipped, present, offered>>
    BY <1>3 DEF vars, world
  <2>2. NoLossOnDelete' /\ NoSilentDrop'
    BY <1>0, <2>1, LandedGrows
  <2> QED BY <1>0, <2>1, <2>2 DEF DeliveryInv
<1>4. ASSUME NEW p \in Procs, Crash(p) PROVE DeliveryInv'
  <2>1. /\ UNCHANGED <<store, landed, skipped, present, offered>>
        /\ mem'[p] = ZeroState /\ pc'[p] = "down"
        /\ \A q \in Procs \ {p} : mem'[q] = mem[q] /\ pc'[q] = pc[q]
    BY <1>4, <1>t DEF Crash, Goto, world
  <2>2. Sound(mem'[p], pc'[p], landed', skipped')
    BY <2>1, ZeroSound
  <2> QED BY <1>0, <2>1, <2>2, LandedGrows, StepFrame
<1>5. ASSUME NEW p \in Procs, Step(p) PROVE DeliveryInv'
  <2>p. Sound(mem[p], pc[p], landed, skipped) /\ Backed(mem[p], landed, skipped)
    BY <1>0 DEF Sound
  \* a step that returns, delivers nothing and keeps or saves the state
  <2>r. ASSUME NEW ok \in BOOLEAN, Return(p, ok), landed \subseteq landed',
               skipped' = skipped, store' = store \/ store' = mem[p],
               NoLossOnDelete', NoSilentDrop'
        PROVE  DeliveryInv'
    <3>1. /\ mem'[p] = ZeroState /\ pc'[p] \in {"idle", "down"}
          /\ \A q \in Procs \ {p} : mem'[q] = mem[q] /\ pc'[q] = pc[q]
      BY <2>r, ReturnSound
    <3>2. Sound(mem'[p], pc'[p], landed', skipped')
      BY <3>1, ZeroSound
    <3> QED BY <2>r, <3>1, <3>2, StepFrame
  \* a step that keeps the state in memory and in the store and goes on
  <2>g. ASSUME NEW label, Goto(p, label), mem' = mem, store' = store, UNCHANGED world,
               Sound(mem[p], label, landed, skipped)
        PROVE  DeliveryInv'
    <3>1. /\ pc'[p] = label /\ \A q \in Procs \ {p} : mem'[q] = mem[q] /\ pc'[q] = pc[q]
          /\ UNCHANGED <<landed, skipped, present, offered>>
      BY <2>g, <1>t DEF Goto, world
    <3>2. Sound(mem'[p], pc'[p], landed', skipped')
      BY <2>g, <3>1
    <3> QED BY <1>0, <2>g, <3>1, <3>2, LandedGrows, StepFrame
  <2>1. CASE Load(p)
    <3>1. /\ mem'[p] = Loaded(p) /\ UNCHANGED <<store, landed, skipped, present, offered>>
          /\ \A q \in Procs \ {p} : mem'[q] = mem[q] /\ pc'[q] = pc[q]
      BY <2>1, <1>t DEF Load, Goto, world
    <3>2. Backed(Loaded(p), landed, skipped)
      BY <1>0, ZeroSound DEF Loaded, Sound
    <3>3. pc'[p] = IF Loaded(p).completed THEN "finalize"
                   ELSE IF ~HasPlan(Loaded(p)) \/ ~hasRequiredDeliveries(Loaded(p))
                        THEN "process" ELSE "decide"
      BY <2>1, <1>t DEF Load, Goto
    <3>4. Sound(mem'[p], pc'[p], landed', skipped')
      BY <3>1, <3>2, <3>3 DEF Sound, Backed
    <3> QED BY <1>0, <3>1, <3>4, LandedGrows, StepFrame
  <2>2. CASE ReaderFindsNothing(p)
    BY <2>2, <2>r, <1>0, LandedGrows DEF ReaderFindsNothing, world
  <2>3. CASE ProcessFails(p)
    BY <2>3, <2>r, <1>0, LandedGrows DEF ProcessFails, world
  <2>4. CASE ProcessSkips(p)
    <3>1. /\ skipped' = TRUE /\ UNCHANGED <<store, landed, present, offered>>
          /\ mem' = [mem EXCEPT ![p].skipped = TRUE, ![p].sourceStore = conf[p].sourceStore]
          /\ pc'[p] \in {"complete", "ack"}
          /\ \A q \in Procs \ {p} : mem'[q] = mem[q] /\ pc'[q] = pc[q]
      BY <2>4, <1>t DEF ProcessSkips, Goto
    <3>2. /\ mem'[p].deliveries = mem[p].deliveries /\ mem'[p].plan = mem[p].plan
          /\ mem'[p].sourceStore = conf[p].sourceStore /\ conf[p] \in Configs
      BY <3>1, <1>t DEF TxState
    <3>3. Sound(mem'[p], pc'[p], landed', skipped')
      <4>1. skipped'
        BY <3>1
      <4>2. Fulfilled(mem'[p], skipped')
        BY <4>1 DEF Fulfilled
      <4>3. /\ \A k \in Keys : mem'[p].deliveries[k] # NoReceipt
                                => <<k, mem'[p].deliveries[k]>> \in landed'
            /\ HasPlan(mem'[p]) => \E c \in Configs : mem'[p].plan = c.plan
            /\ mem'[p].sourceStore # NoStore
                 => \E c \in Configs : mem'[p].sourceStore = c.sourceStore
        <5>1. landed' = landed
          BY <3>1
        <5> QED BY <5>1, <3>2, <2>p, Zenon DEF Backed, HasPlan
      <4> QED BY <3>1, <4>2, <4>3 DEF Sound, Backed
    <3> QED BY <1>0, <3>1, <3>3, LandedGrows, StepFrame
  <2>5. CASE Process(p)
    <3>1. CASE ~HasPlan(mem[p])
      <4>1. /\ UNCHANGED <<store, landed, skipped, present, offered>> /\ pc'[p] = "savePlan"
            /\ mem' = [mem EXCEPT ![p].plan = conf[p].plan, ![p].skipped = FALSE,
                                  ![p].sourceStore = conf[p].sourceStore]
            /\ \A q \in Procs \ {p} : mem'[q] = mem[q] /\ pc'[q] = pc[q]
            /\ pc[p] = "process"
        BY <2>5, <3>1, <1>t DEF Process, Goto, world
      <4>2. /\ mem'[p].deliveries = mem[p].deliveries /\ mem'[p].plan = conf[p].plan
            /\ mem'[p].sourceStore = conf[p].sourceStore /\ conf[p] \in Configs
            /\ mem'[p].completed = mem[p].completed
        BY <4>1, <1>t DEF TxState
      <4>3. HasPlan(mem'[p])
        BY <4>2, ConfigPlan DEF HasPlan
      <4>4. mem[p].completed => skipped
        BY <3>1, <2>p DEF Backed, Fulfilled
      <4>5. Sound(mem'[p], pc'[p], landed', skipped')
        <5>1. mem'[p].completed => Fulfilled(mem'[p], skipped')
          BY <4>1, <4>2, <4>4, Zenon DEF Fulfilled
        <5>2. /\ \A k \in Keys : mem'[p].deliveries[k] # NoReceipt
                                  => <<k, mem'[p].deliveries[k]>> \in landed'
              /\ \E c \in Configs : mem'[p].plan = c.plan
              /\ \E c \in Configs : mem'[p].sourceStore = c.sourceStore
          <6>1. landed' = landed
            BY <4>1
          <6> QED BY <6>1, <4>2, <2>p, Zenon DEF Backed
        <5> QED BY <4>1, <4>3, <5>1, <5>2 DEF Sound, Backed
      <4> QED BY <1>0, <4>1, <4>5, LandedGrows, StepFrame
    <3>2. CASE HasPlan(mem[p])
      <4>1. Sound(mem[p], "validate", landed, skipped)
        BY <3>2, <2>p DEF Sound
      <4> QED BY <2>5, <3>2, <4>1, <2>r, <2>g, <1>0, LandedGrows DEF Process, world
    <3> QED BY <3>1, <3>2
  <2>6. CASE Validate(p)
    <3>1. Sound(mem[p], "deliver", landed, skipped)
      BY <2>6, <2>p DEF Sound, Validate
    <3> QED BY <2>6, <3>1, <2>r, <2>g, <1>0, LandedGrows DEF Validate, world
  <2>7. CASE SkipCommitted(p)
    <3>1. UNCHANGED <<store, mem, pc, landed, skipped, present, offered>>
      BY <2>7 DEF SkipCommitted, world
    <3> QED BY <1>0, <2>p, <3>1, LandedGrows, StepFrame
  <2>8. CASE Consume(p)
    <3> DEFINE key == Target(p).key
    <3>1. /\ UNCHANGED <<store, skipped, present, offered>> /\ pc'[p] = "saveReceipt"
          /\ landed' = landed \cup {<<key, SinkStore(p)>>}
          /\ mem' = [mem EXCEPT ![p].deliveries[key] = SinkStore(p)]
          /\ \A q \in Procs \ {p} : mem'[q] = mem[q] /\ pc'[q] = pc[q]
          /\ pc[p] = "deliver"
      BY <2>8, <1>t DEF Consume, Land, Goto, InLoop
    <3>2. key \in Keys
      BY <2>8, LoopTarget DEF Consume, DeliveryTarget
    <3>3. /\ mem'[p].deliveries = [mem[p].deliveries EXCEPT ![key] = SinkStore(p)]
          /\ mem'[p].plan = mem[p].plan /\ mem'[p].sourceStore = mem[p].sourceStore
          /\ mem'[p].completed = mem[p].completed
      BY <3>1, <1>t DEF TxState
    <3>n. mem[p].deliveries \in [Keys -> StoreRefs \cup {NoReceipt}]
      BY <1>t DEF TxState
    <3>s. SinkStore(p) # NoReceipt
      BY <2>8, LoopTarget, ReceiptAssumption DEF Consume
    <3> HIDE DEF key
    <3>4. \A k \in Keys : mem'[p].deliveries[k] # NoReceipt
                            => <<k, mem'[p].deliveries[k]>> \in landed'
      <4> SUFFICES ASSUME NEW k \in Keys, mem'[p].deliveries[k] # NoReceipt
                   PROVE  <<k, mem'[p].deliveries[k]>> \in landed'
        OBVIOUS
      <4>1. CASE k = key
        BY <4>1, <3>1, <3>2, <3>3, <3>n
      <4>2. CASE k # key
        <5>1. mem'[p].deliveries[k] = mem[p].deliveries[k]
          BY <4>2, <3>3, <3>n
        <5> QED BY <5>1, <3>1, <2>p DEF Backed
      <4> QED BY <4>1, <4>2
    <3>5. Fulfilled(mem[p], skipped) => Fulfilled(mem'[p], skipped)
      <4>1. \A k : mem[p].deliveries[k] # NoReceipt => mem'[p].deliveries[k] # NoReceipt
        BY <3>2, <3>3, <3>n, <3>s
      <4> QED BY <4>1, <3>3 DEF Fulfilled, HasPlan, hasRequiredDeliveries
    <3>6. Sound(mem'[p], pc'[p], landed', skipped')
      BY <3>1, <3>3, <3>4, <3>5, <2>p DEF Sound, Backed, HasPlan
    <3> QED BY <1>0, <3>1, <3>6, LandedGrows, StepFrame
  <2>9. CASE ConsumeFails(p)
    <3>1. UNCHANGED <<store, skipped, present, offered>> /\ landed \subseteq landed'
      BY <2>9 DEF ConsumeFails, Land
    <3>2. NoLossOnDelete' /\ NoSilentDrop'
      BY <1>0, <3>1, LandedGrows
    <3>3. CASE Return(p, FALSE)
      BY <3>1, <3>2, <3>3, <2>r
    <3>4. CASE UNCHANGED <<mem, pc>>
      <4>1. Sound(mem'[p], pc'[p], landed', skipped')
        BY <1>t, <2>p, <3>1, <3>4, SoundGrows
      <4> QED BY <3>1, <3>2, <3>4, <4>1, StepFrame
    <3> QED BY <2>9, <3>3, <3>4 DEF ConsumeFails
  <2>10. CASE EndOfTargets(p)
    <3>1. Sound(mem[p], "decide", landed, skipped)
      BY <2>10, <2>p DEF Sound, EndOfTargets
    <3> QED BY <2>10, <3>1, <2>g DEF EndOfTargets
  <2>11. CASE Decide(p)
    <3>1. pc[p] = "decide" /\ HasPlan(mem[p])
      BY <2>11, <2>p DEF Sound, Decide
    <3>2. CASE Return(p, TRUE) \/ Return(p, FALSE)
      BY <2>11, <3>2, <2>r, <1>0, LandedGrows DEF Decide, world
    <3>3. CASE ~Return(p, TRUE) /\ ~Return(p, FALSE)
      <4> DEFINE label == IF ~mem[p].sourceDeleted /\ shouldDeleteSource(mem[p]) THEN "delete"
                          ELSE IF mem[p].sourceAcked THEN "complete" ELSE "ack"
      <4>1. /\ hasRequiredDeliveries(mem[p]) /\ Goto(p, label)
            /\ mem' = mem /\ store' = store /\ UNCHANGED world
        BY <2>11, <3>3 DEF Decide
      <4>2. Sound(mem[p], label, landed, skipped)
        BY <3>1, <4>1, <2>p DEF Sound, Fulfilled
      <4> QED BY <4>1, <4>2, <2>g
    <3> QED BY <3>2, <3>3
  <2>12. CASE Delete(p)
    <3>1. /\ UNCHANGED <<store, landed, skipped, offered>> /\ pc'[p] = "saveDeleted"
          /\ mem' = [mem EXCEPT ![p].sourceDeleted = TRUE] /\ pc[p] = "delete"
          /\ \A q \in Procs \ {p} : mem'[q] = mem[q] /\ pc'[q] = pc[q]
      BY <2>12, <1>t DEF Delete, Goto
    <3>2. /\ mem'[p].deliveries = mem[p].deliveries /\ mem'[p].plan = mem[p].plan
          /\ mem'[p].sourceStore = mem[p].sourceStore /\ mem'[p].completed = mem[p].completed
      BY <3>1, <1>t DEF TxState
    <3>3. Sound(mem'[p], pc'[p], landed', skipped')
      BY <3>1, <3>2, <2>p DEF Sound, Backed, Fulfilled, HasPlan, hasRequiredDeliveries
    <3>4. NoLossOnDelete'
      BY <3>1, <2>p, DeleteIsSafe DEF Sound
    <3> QED BY <1>0, <3>1, <3>3, <3>4, LandedGrows, StepFrame
  <2>13. CASE DeleteFails(p)
    <3>1. /\ UNCHANGED <<store, landed, skipped, offered>> /\ pc[p] = "delete"
          /\ Return(p, FALSE)
      BY <2>13 DEF DeleteFails
    <3>2. NoLossOnDelete'
      BY <3>1, <2>p, DeleteIsSafe DEF Sound
    <3> QED BY <1>0, <3>1, <3>2, <2>r, LandedGrows
  <2>14. CASE Acknowledge(p)
    <3>1. /\ UNCHANGED <<store, landed, skipped, present>> /\ pc'[p] = "saveAcked"
          /\ mem' = [mem EXCEPT ![p].sourceAcked = TRUE] /\ pc[p] = "ack"
          /\ \A q \in Procs \ {p} : mem'[q] = mem[q] /\ pc'[q] = pc[q]
      BY <2>14, <1>t DEF Acknowledge, Goto
    <3>2. /\ mem'[p].deliveries = mem[p].deliveries /\ mem'[p].plan = mem[p].plan
          /\ mem'[p].sourceStore = mem[p].sourceStore /\ mem'[p].completed = mem[p].completed
      BY <3>1, <1>t DEF TxState
    <3>3. Sound(mem'[p], pc'[p], landed', skipped')
      BY <3>1, <3>2, <2>p DEF Sound, Backed, Fulfilled, HasPlan, hasRequiredDeliveries
    <3>4. NoSilentDrop'
      BY <3>1, <2>p, ReleaseIsSafe DEF Sound
    <3> QED BY <1>0, <3>1, <3>3, <3>4, LandedGrows, StepFrame
  <2>15. CASE AcknowledgeFails(p)
    <3>1. /\ UNCHANGED <<store, landed, skipped, present>> /\ pc[p] = "ack"
          /\ Return(p, FALSE)
      BY <2>15 DEF AcknowledgeFails
    <3>2. NoSilentDrop'
      BY <3>1, <2>p, ReleaseIsSafe DEF Sound
    <3> QED BY <1>0, <3>1, <3>2, <2>r, LandedGrows
  <2>16. CASE Complete(p)
    <3>1. /\ UNCHANGED <<store, landed, skipped, present, offered>>
          /\ pc'[p] = "saveCompleted" /\ pc[p] = "complete"
          /\ mem' = [mem EXCEPT ![p].completed = TRUE]
          /\ \A q \in Procs \ {p} : mem'[q] = mem[q] /\ pc'[q] = pc[q]
      BY <2>16, <1>t DEF Complete, Goto, world
    <3>2. /\ mem'[p].deliveries = mem[p].deliveries /\ mem'[p].plan = mem[p].plan
          /\ mem'[p].sourceStore = mem[p].sourceStore
      BY <3>1, <1>t DEF TxState
    <3>3. Sound(mem'[p], pc'[p], landed', skipped')
      BY <3>1, <3>2, <2>p DEF Sound, Backed, Fulfilled, HasPlan, hasRequiredDeliveries
    <3> QED BY <1>0, <3>1, <3>3, LandedGrows, StepFrame
  <2>17. CASE Save(p)
    <3> DEFINE label == IF pc[p] = "saveDeleted" /\ mem[p].sourceAcked THEN "complete"
                        ELSE AfterSave[pc[p]]
    <3>1. /\ pc[p] \in DOMAIN AfterSave /\ pc'[p] = label
          /\ UNCHANGED <<mem, landed, skipped, present, offered>>
          /\ store' = store \/ store' = mem[p]
          /\ \A q \in Procs \ {p} : pc'[q] = pc[q]
      BY <2>17, <1>t DEF Save, Saved, Goto, world
    <3>2. Sound(mem[p], label, landed, skipped)
      BY <3>1, <2>p DEF Sound, AfterSave
    <3> QED BY <1>0, <3>1, <3>2, LandedGrows, StepFrame
  <2>18. CASE SaveFails(p)
    BY <2>18, <2>r, <1>0, LandedGrows DEF SaveFails, Saved, world
  <2>19. CASE Finalize(p)
    <3>1. /\ UNCHANGED <<store, landed, skipped, present>> /\ pc[p] = "finalize"
          /\ Return(p, TRUE)
      BY <2>19 DEF Finalize
    <3>2. NoSilentDrop'
      BY <3>1, <2>p, ReleaseIsSafe DEF Sound
    <3> QED BY <1>0, <3>1, <3>2, <2>r, LandedGrows
  <2>20. CASE FinalizeFails(p)
    BY <2>20, <2>r, <1>0, LandedGrows DEF FinalizeFails, world
  <2> QED BY <1>5, <2>1, <2>2, <2>3, <2>4, <2>5, <2>6, <2>7, <2>8, <2>9, <2>10, <2>11,
             <2>12, <2>13, <2>14, <2>15, <2>16, <2>17, <2>18, <2>19, <2>20 DEF Step
<1> QED BY <1>1, <1>2, <1>3, <1>4, <1>5 DEF Next

(* The invariant that carries the safety of the transaction holds in every  *)
(* reachable state, for any set of processes sharing the mail.              *)
THEOREM DeliveryInvariant == Spec => []DeliveryInv
<1>1. Init => DeliveryInv
  <2> SUFFICES ASSUME Init PROVE DeliveryInv
    OBVIOUS
  <2>1. \A p \in Procs : Sound(mem[p], pc[p], landed, skipped)
    BY ZeroSound DEF Init
  <2>2. Backed(store, landed, skipped)
    BY ZeroSound DEF Init, Sound
  <2> QED BY <2>1, <2>2 DEF Init, DeliveryInv, NoLossOnDelete, NoSilentDrop
<1>2. TypeOK /\ TypeOK' /\ DeliveryInv /\ [Next]_vars => DeliveryInv'
  BY DeliveryStep
<1> QED BY <1>1, <1>2, TypeCorrect, PTL DEF Spec

(* The source mail is never destroyed before every required copy of a plan  *)
(* that allows it exists, whatever crashes, fails or runs concurrently.     *)
THEOREM DeletionIsSafe == Spec => []NoLossOnDelete
<1>1. DeliveryInv => NoLossOnDelete
  BY DEF DeliveryInv
<1> QED BY <1>1, DeliveryInvariant, PTL

(* A mail leaves the source queue only after all its required deliveries.   *)
THEOREM ReleaseLosesNothing == Spec => []NoSilentDrop
<1>1. DeliveryInv => NoSilentDrop
  BY DEF DeliveryInv
<1> QED BY <1>1, DeliveryInvariant, PTL
=============================================================================
