------------------------------ MODULE RouteRun ------------------------------
(***************************************************************************)
(* `mimecrypt run` from its run locks to its exit (internal/cli/run.go,    *)
(* internal/flowruntime/source_executor.go and the Run of the webhook      *)
(* ingress): sources are built and cycled once, in order; then every       *)
(* source has a goroutine of its own, a push source two more, its ingress  *)
(* and its worker; and the main goroutine waits for a signal, for an error *)
(* of a push source, or for the end of all loops.                          *)
(*                                                                         *)
(* RunLock contributes the locks; source i is the one of Paths[i].         *)
(***************************************************************************)
EXTENDS RunLock

CONSTANTS
  Mode,      \* Mode[i]: "poll" or "push"
  Commands   \* Commands[p]: how p may be started, "run", "once" (--once) or
             \* "debug" (--debug-save-first)

ASSUME ModeAssumption == Mode \in [DOMAIN Paths -> {"poll", "push"}]
ASSUME CommandsAssumption == Commands \in [Procs -> SUBSET {"run", "once", "debug"}]

VARIABLE route   \* route[p]: what p does between Flock and Stop

allVars == <<vars, route>>

Sources == DOMAIN Paths
Off == [i \in Sources |-> "off"]

Fresh ==
  [command |-> "run", phase |-> "build", turn |-> 1,
   stop |-> FALSE,       \* the context of the signal handler is done
   cancelled |-> FALSE,  \* cancel() of runRouteLoops was called
   reported |-> FALSE,   \* errCh is full
   loop |-> Off,         \* "wait", "cycle" or "gone", by source
   ingress |-> Off,      \* "up", "failed" or "gone"
   worker |-> Off]       \* the same

RouteInit == Init /\ route = [p \in Procs |-> Fresh]

Set(p, r) == route' = [route EXCEPT ![p] = r]
Up(p) == pc[p] \notin {"down", "refused"}
Cancelled(p) == route[p].stop \/ route[p].cancelled
Keep == UNCHANGED vars
KeepButFaults == UNCHANGED <<dir, holder, created, fd, pc, at>>

(* An error comes as a fault, or because the context is done. *)
Erring(p) == (Fault \/ (Cancelled(p) /\ UNCHANGED faults)) /\ KeepButFaults

-----------------------------------------------------------------------------
(* The main goroutine. *)

Begin(p) ==
  /\ Start(p)
  /\ \E c \in Commands[p] : Set(p, [Fresh EXCEPT !.command = c])

(* A process that ends takes all its goroutines with it. *)
Locking(p) ==
  /\ Open(p) \/ Flock(p) \/ FlockRefused(p) \/ FlockFails(p) \/ Unlock(p) \/ Remove(p)
  /\ IF pc'[p] \in {"down", "refused"} THEN Set(p, Fresh) ELSE UNCHANGED route

Die(p) == Crash(p) /\ Set(p, Fresh)

(* SIGINT or SIGTERM: signal.NotifyContext.  Taking the locks does not look *)
(* at the context, so that an earlier signal has the effect of one here.    *)
Signal(p) ==
  /\ pc[p] = "run" /\ ~route[p].stop
  /\ Set(p, [route[p] EXCEPT !.stop = TRUE])
  /\ Keep

(* buildConfiguredRuns; --debug-save-first handles one mail without it, or  *)
(* refuses several sources and push sources.                                *)
Build(p) ==
  /\ pc[p] = "run" /\ route[p].phase = "build"
  /\ IF route[p].command = "debug" THEN Set(p, [route[p] EXCEPT !.phase = "end"])
                                   ELSE Set(p, [route[p] EXCEPT !.phase = "first"])
  /\ Keep

BuildFails(p) ==
  /\ pc[p] = "run" /\ route[p].phase = "build"
  /\ Erring(p)
  /\ Set(p, [route[p] EXCEPT !.phase = "end"])

(* runRouteLoops starts its goroutines. *)
Looping(r) ==
  LET push(x) == [i \in Sources |-> IF Mode[i] = "push" THEN x ELSE "off"]
  IN  [r EXCEPT !.phase = "loops", !.loop = [i \in Sources |-> "wait"],
                !.ingress = push("up"), !.worker = push("up")]

(* runAllSourcesOnce and runStartupSources: a cycle of every source, one    *)
(* after the other; the latter leaves push sources out.                     *)
First(p) ==
  /\ pc[p] = "run" /\ route[p].phase = "first"
  /\ IF route[p].turn < Len(Paths) THEN Set(p, [route[p] EXCEPT !.turn = @ + 1])
     ELSE IF route[p].command = "once" THEN Set(p, [route[p] EXCEPT !.phase = "end"])
     ELSE Set(p, Looping(route[p]))
  /\ Keep

FirstFails(p) ==
  /\ pc[p] = "run" /\ route[p].phase = "first"
  /\ route[p].command = "once" \/ Mode[route[p].turn] = "poll"
  /\ Erring(p)
  /\ Set(p, [route[p] EXCEPT !.phase = "end"])

(* Mutant: the loops are told to end, but not waited for. *)
Woken_noWait(p) == [route[p] EXCEPT !.cancelled = TRUE, !.phase = "end"]

Woken(p) == [route[p] EXCEPT !.cancelled = TRUE, !.phase = "drain"]

(* The select of runRouteLoops; each of the three ends in cancel and, if    *)
(* that is not what it has seen, in a wait for the loops.                   *)
Wake(p) ==
  /\ pc[p] = "run" /\ route[p].phase = "loops"
  /\ route[p].stop \/ route[p].reported
  /\ Set(p, Woken(p))
  /\ Keep

Drained(p) ==
  /\ pc[p] = "run" /\ route[p].phase \in {"loops", "drain"}
  /\ \A i \in Sources : route[p].loop[i] = "gone"
  /\ Set(p, [route[p] EXCEPT !.phase = "end"])
  /\ Keep

End(p) ==
  /\ route[p].phase = "end"
  /\ Stop(p)
  /\ UNCHANGED route

-----------------------------------------------------------------------------
(* The loop of a poll source. *)

Tick(p, i) ==
  /\ Up(p) /\ Mode[i] = "poll" /\ route[p].loop[i] = "wait"
  /\ Set(p, [route[p] EXCEPT !.loop[i] = "cycle"])
  /\ Keep

Cycled(p, i) ==
  /\ Up(p) /\ route[p].loop[i] = "cycle"
  /\ Set(p, [route[p] EXCEPT !.loop[i] = "wait"])
  /\ Keep

(* Mutant: the error ends the route, as the one of a push source does. *)
Retried_fatal(p, i) ==
  [route[p] EXCEPT !.loop[i] = "gone", !.reported = TRUE, !.cancelled = TRUE]

Retried(p, i) == [route[p] EXCEPT !.loop[i] = "wait"]

(* The error is printed, the next tick tries again. *)
CycleFails(p, i) ==
  /\ Up(p) /\ route[p].loop[i] = "cycle"
  /\ Set(p, Retried(p, i))
  /\ Keep

(* select may prefer a tick that is due as well, but not for ever. *)
LoopEnds(p, i) ==
  /\ Up(p) /\ Mode[i] = "poll" /\ route[p].loop[i] = "wait" /\ Cancelled(p)
  /\ Set(p, [route[p] EXCEPT !.loop[i] = "gone"])
  /\ Keep

-----------------------------------------------------------------------------
(* A push source: runPushWorker, Ingress.Run and the executor that waits    *)
(* for both of them.                                                        *)

(* Any error but context.Canceled ends the worker, and nothing retries. *)
WorkerFails(p, i) ==
  /\ Up(p) /\ route[p].worker[i] = "up"
  /\ Erring(p)
  /\ Set(p, [route[p] EXCEPT !.worker[i] = "failed"])

(* Between two mails, or in one whose handling notices the context. *)
WorkerEnds(p, i) ==
  /\ Up(p) /\ route[p].worker[i] = "up" /\ Cancelled(p)
  /\ Set(p, [route[p] EXCEPT !.worker[i] = "gone"])
  /\ Keep

(* ListenAndServe, or a Shutdown that takes more than five seconds. *)
IngressFails(p, i) ==
  /\ Up(p) /\ route[p].ingress[i] = "up"
  /\ Erring(p)
  /\ Set(p, [route[p] EXCEPT !.ingress[i] = "failed"])

IngressEnds(p, i) ==
  /\ Up(p) /\ route[p].ingress[i] = "up" /\ Cancelled(p)
  /\ Set(p, [route[p] EXCEPT !.ingress[i] = "gone"])
  /\ Keep

(* Mutant: the executor waits for both even if one has failed. *)
Failed_both(p, i) == route[p].ingress[i] = "failed" /\ route[p].worker[i] = "failed"

Failed(p, i) == route[p].ingress[i] = "failed" \/ route[p].worker[i] = "failed"

(* The executor returns an error, which cancels the route: only the first   *)
(* one goes into errCh.                                                     *)
ExecutorFails(p, i) ==
  /\ Up(p) /\ Mode[i] = "push" /\ route[p].loop[i] = "wait"
  /\ Failed(p, i)
  /\ Set(p, [route[p] EXCEPT !.loop[i] = "gone", !.reported = TRUE, !.cancelled = TRUE])
  /\ Keep

(* It does not wait for its two goroutines when the context is done.        *)
ExecutorEnds(p, i) ==
  /\ Up(p) /\ Mode[i] = "push" /\ route[p].loop[i] = "wait" /\ Cancelled(p)
  /\ Set(p, [route[p] EXCEPT !.loop[i] = "gone"])
  /\ Keep

-----------------------------------------------------------------------------
MainStep(p) ==
  Locking(p) \/ Build(p) \/ First(p) \/ Wake(p) \/ Drained(p) \/ End(p)

SourceStep(p, i) ==
  Cycled(p, i) \/ WorkerEnds(p, i) \/ IngressEnds(p, i) \/ ExecutorFails(p, i)
    \/ ExecutorEnds(p, i)

RouteNext ==
  \E p \in Procs :
    \/ Begin(p) \/ MainStep(p) \/ BuildFails(p) \/ FirstFails(p) \/ Signal(p) \/ Die(p)
    \/ \E i \in Sources :
         \/ SourceStep(p, i) \/ Tick(p, i) \/ CycleFails(p, i) \/ LoopEnds(p, i)
         \/ WorkerFails(p, i) \/ IngressFails(p, i)

RouteSpec == RouteInit /\ [][RouteNext]_allVars

(* Calls end, goroutines are scheduled, and a select takes each case that   *)
(* is ready again and again.                                                *)
RouteFairness ==
  \A p \in Procs :
    /\ WF_allVars(MainStep(p))
    /\ \A i \in Sources : WF_allVars(SourceStep(p, i)) /\ SF_allVars(LoopEnds(p, i))

FairRouteSpec == RouteSpec /\ RouteFairness

-----------------------------------------------------------------------------
(* Properties. *)

RouteType ==
  [command : {"run", "once", "debug"}, phase : {"build", "first", "loops", "drain", "end"},
   turn : Sources, stop : BOOLEAN, cancelled : BOOLEAN, reported : BOOLEAN,
   loop : [Sources -> {"off", "wait", "cycle", "gone"}],
   ingress : [Sources -> {"off", "up", "failed", "gone"}],
   worker : [Sources -> {"off", "up", "failed", "gone"}]]

(* Every process has a well-formed route; turn stays among its sources. *)
RouteTypeOK == route \in [Procs -> RouteType]

HasLocks(p) == \A i \in Sources : fd[p][i] # NoFile /\ holder[fd[p][i]] = p

(* First cycles and poll cycles run under all locks of the route, however   *)
(* the command ends: it waits for them before it unlocks.  Named exception: *)
(* an ingress or a worker, which the executor leaves behind when its        *)
(* context is done (source_executor.go:96-98).                              *)
WorkIsLocked ==
  \A p \in Procs :
    (pc[p] = "run" /\ route[p].phase \in {"build", "first"})
      \/ (\E i \in Sources : route[p].loop[i] = "cycle")
    => HasLocks(p)

(* Once the loops run, a failing poll cycle is retried and neither ends its *)
(* loop nor disturbs another source; only a signal and an error of a push   *)
(* source end loops, and then they end all of them.                         *)
PollErrorsAreLocal ==
  [][\A p \in Procs : \A i \in Sources :
       route[p].loop[i] \in {"wait", "cycle"} /\ Up(p)' /\ route'[p].loop[i] = "gone" =>
         route[p].stop \/ \E j \in Sources : Mode[j] = "push" /\ Failed(p, j)]_allVars

(* A signal, or an ingress or a worker that fails, takes the whole command  *)
(* down, with its locks released, whatever the other goroutines are at.     *)
RouteEnds ==
  \A p \in Procs :
    pc[p] = "run" /\ (route[p].stop \/ \E i \in Sources :
        route[p].ingress[i] = "failed" \/ route[p].worker[i] = "failed")
      ~> pc[p] = "down" /\ \A f \in Inodes : holder[f] # p
=============================================================================
