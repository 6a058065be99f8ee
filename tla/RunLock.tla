------------------------------ MODULE RunLock ------------------------------
(***************************************************************************)
(* The run locks of `mimecrypt run` (internal/cli/run_lock_unix.go,        *)
(* acquireRouteLocks and releaseRouteLocks of run.go): one flock per lock  *)
(* file, taken in the order of the paths, released in reverse order, the   *)
(* file removed after the lock is given up.  A flock belongs to the file   *)
(* (the inode) that was opened, not to the path it was opened under.       *)
(***************************************************************************)
EXTENDS Naturals, FiniteSets, Sequences

CONSTANTS
  Procs,      \* the processes that run `mimecrypt run`
  Paths,      \* the sorted lock paths of the selected sources, a sequence
  NoFile,     \* "no such file", "not open"
  NoOne,      \* "not locked"
  MaxFiles,   \* bound: lock files created in one behaviour
  MaxFaults   \* bound: crashes and failed calls in one behaviour

(* A route has a source; two sources with one lock path refuse each other. *)
ASSUME PathsAssumption ==
  /\ Paths \in Seq(STRING) /\ Paths # <<>>
  /\ \A i, j \in DOMAIN Paths : Paths[i] = Paths[j] => i = j
ASSUME LockBoundAssumption == MaxFiles \in Nat /\ MaxFaults \in Nat

Inodes == 1..MaxFiles

ASSUME SentinelAssumption == NoFile \notin Inodes /\ NoOne \notin Procs

VARIABLES
  dir,     \* dir[i]: the inode that Paths[i] names
  holder,  \* holder[f]: the process with the flock on inode f
  created, \* inodes created so far
  fd,      \* fd[p][i]: the inode p has open for Paths[i]
  pc,      \* pc[p]: what p does next
  at,      \* at[p]: the path p is at
  faults   \* crashes and failed calls so far

vars == <<dir, holder, created, fd, pc, at, faults>>

Init ==
  /\ dir = [i \in DOMAIN Paths |-> NoFile]
  /\ holder = [f \in Inodes |-> NoOne]
  /\ created = 0
  /\ fd = [p \in Procs |-> [i \in DOMAIN Paths |-> NoFile]]
  /\ pc = [p \in Procs |-> "down"]
  /\ at = [p \in Procs |-> 1]
  /\ faults = 0

Goto(p, label) == pc' = [pc EXCEPT ![p] = label]
Move(p, i) == at' = [at EXCEPT ![p] = i]
Fault == faults < MaxFaults /\ faults' = faults + 1

(* Mutant: every process takes the locks in an order of its own. *)
Path_unsorted(p) ==
  IF p = (CHOOSE q \in Procs : TRUE) THEN at[p] ELSE Len(Paths) + 1 - at[p]

(* The path p is at: acquireRouteLocks sorts them. *)
Path(p) == at[p]

File(p) == fd[p][Path(p)]

(* Mutant: the file is the lock, as with a pid file: a process is let in    *)
(* only if it has just created the file.                                    *)
Locked_byFile(p) == File(p) # created

(* Somebody else has the flock. *)
Locked(p) == holder[File(p)] # NoOne

(* A process begins to take its locks. *)
Start(p) ==
  /\ pc[p] \in {"down", "refused"}
  /\ Goto(p, "open")
  /\ Move(p, 1)
  /\ UNCHANGED <<dir, holder, created, fd, faults>>

(* os.OpenFile with O_CREATE. *)
Open(p) ==
  /\ pc[p] = "open"
  /\ IF dir[Path(p)] = NoFile
       THEN /\ created < MaxFiles
            /\ created' = created + 1
            /\ dir' = [dir EXCEPT ![Path(p)] = created + 1]
       ELSE UNCHANGED <<dir, created>>
  /\ fd' = [fd EXCEPT ![p][Path(p)] = dir'[Path(p)]]
  /\ Goto(p, "flock")
  /\ UNCHANGED <<holder, at, faults>>

(* syscall.Flock, exclusive and non-blocking, gets the lock ... *)
Flock(p) ==
  /\ pc[p] = "flock"
  /\ ~Locked(p)
  /\ holder' = [holder EXCEPT ![File(p)] = p]
  /\ IF at[p] = Len(Paths) THEN Goto(p, "run") /\ UNCHANGED at
                           ELSE Goto(p, "open") /\ Move(p, at[p] + 1)
  /\ UNCHANGED <<dir, created, fd, faults>>

(* Close what p opened last and release the locks it has taken before. *)
GiveUp(p) ==
  /\ fd' = [fd EXCEPT ![p][Path(p)] = NoFile]
  /\ IF at[p] = 1 THEN Goto(p, "refused") /\ UNCHANGED at
                  ELSE Goto(p, "undo") /\ Move(p, at[p] - 1)

(* ... or answers that it is taken: ErrRunLocked. *)
FlockRefused(p) ==
  /\ pc[p] = "flock"
  /\ Locked(p)
  /\ GiveUp(p)
  /\ UNCHANGED <<dir, holder, created, faults>>

(* Truncating, writing or syncing the file fails after the flock: unlock   *)
(* and close; the file stays.                                              *)
FlockFails(p) ==
  /\ pc[p] = "flock"
  /\ ~Locked(p)
  /\ Fault
  /\ GiveUp(p)
  /\ UNCHANGED <<dir, holder, created>>

(* The command ends: releaseRouteLocks, from the last path to the first. *)
Stop(p) ==
  /\ pc[p] = "run"
  /\ Goto(p, "unlock")
  /\ UNCHANGED <<dir, holder, created, fd, at, faults>>

Undone == [undo |-> "removeUndo", unlock |-> "remove"]

(* Release: unlock and close the file, ... *)
Unlock(p) ==
  /\ pc[p] \in DOMAIN Undone
  /\ holder' = [holder EXCEPT ![File(p)] = NoOne]
  /\ fd' = [fd EXCEPT ![p][Path(p)] = NoFile]
  /\ Goto(p, Undone[pc[p]])
  /\ UNCHANGED <<dir, created, at, faults>>

(* ... then remove whatever the path names by now. *)
Remove(p) ==
  /\ pc[p] \in {"removeUndo", "remove"}
  /\ dir' = [dir EXCEPT ![Path(p)] = NoFile]
  /\ IF at[p] > 1
       THEN /\ Move(p, at[p] - 1)
            /\ Goto(p, IF pc[p] = "remove" THEN "unlock" ELSE "undo")
       ELSE /\ UNCHANGED at
            /\ Goto(p, IF pc[p] = "remove" THEN "down" ELSE "refused")
  /\ UNCHANGED <<holder, created, fd, faults>>

(* A process that dies loses its descriptors and with them its flocks. *)
Crash(p) ==
  /\ pc[p] \notin {"down", "refused"}
  /\ Fault
  /\ holder' = [f \in Inodes |-> IF holder[f] = p THEN NoOne ELSE holder[f]]
  /\ fd' = [fd EXCEPT ![p] = [i \in DOMAIN Paths |-> NoFile]]
  /\ Goto(p, "down")
  /\ UNCHANGED <<dir, created, at>>

Next ==
  \E p \in Procs :
    \/ Start(p) \/ Open(p) \/ Flock(p) \/ FlockRefused(p) \/ FlockFails(p)
    \/ Stop(p) \/ Unlock(p) \/ Remove(p) \/ Crash(p)

Spec == Init /\ [][Next]_vars
-----------------------------------------------------------------------------
(* Properties. *)

(* Every variable has its type; in particular acquireRouteLocks and         *)
(* releaseRouteLocks never leave the list of the lock paths.                *)
TypeOK ==
  /\ dir \in [DOMAIN Paths -> Inodes \cup {NoFile}]
  /\ holder \in [Inodes -> Procs \cup {NoOne}]
  /\ created \in 0..MaxFiles
  /\ fd \in [Procs -> [DOMAIN Paths -> Inodes \cup {NoFile}]]
  /\ pc \in [Procs -> {"down", "open", "flock", "run", "undo", "removeUndo",
                       "unlock", "remove", "refused"}]
  /\ at \in [Procs -> DOMAIN Paths]
  /\ faults \in 0..MaxFaults

(* ErrRunLocked, "another mimecrypt run instance is running" (run_lock.go): *)
(* two processes never run with the same locks at the same time.            *)
MutualExclusion ==
  \A p, q \in Procs : pc[p] = "run" /\ pc[q] = "run" => p = q

(* A process is refused only while another live process has, or takes, its  *)
(* locks: neither a crash nor a left-over lock file keeps `run` out.        *)
RefusedOnlyByLive ==
  [][\A p \in Procs :
       pc[p] = "flock" /\ faults' = faults /\ pc'[p] \in {"undo", "refused"} =>
         \E q \in Procs \ {p} : pc[q] \notin {"down", "refused"}]_vars

(* Two instances that start together never refuse each other: the locks are *)
(* taken in one order, so one of the two gets them all.                     *)
NoMutualRefusal ==
  faults = 0 => \E p \in Procs : pc[p] # "refused"
=============================================================================
