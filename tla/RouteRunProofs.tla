--------------------------- MODULE RouteRunProofs ---------------------------
(***************************************************************************)
(* Proofs about RouteRun: what the run locks protect is never done without *)
(* them, and poll errors stay local, for any number of processes, sources  *)
(* and lock files and any mixture of poll and push sources.                *)
(***************************************************************************)
EXTENDS RouteRun, TLAPS

(* The sources of a route are numbered from one. *)
LEMMA SourcesAreNumbered ==
  Sources = 1..Len(Paths) /\ Len(Paths) \in Nat /\ Len(Paths) >= 1
BY PathsAssumption DEF Sources

(* The locks that p holds, by its place in the loops over the paths. *)
Held(p) ==
  CASE pc[p] \in {"open", "flock", "removeUndo", "remove"} -> 1..(at[p] - 1)
    [] pc[p] \in {"undo", "unlock"} -> 1..at[p]
    [] pc[p] = "run" -> Sources
    [] OTHER -> {}

(* An inode has been created under one path only. *)
OnePathEach ==
  /\ \A i \in Sources : dir[i] \in (1..created) \cup {NoFile}
  /\ \A p \in Procs, i \in Sources : fd[p][i] \in (1..created) \cup {NoFile}
  /\ \A i, j \in Sources : dir[i] # NoFile /\ dir[i] = dir[j] => i = j
  /\ \A p \in Procs, i, j \in Sources : fd[p][i] # NoFile /\ fd[p][i] = dir[j] => i = j
  /\ \A p, q \in Procs, i, j \in Sources :
       fd[p][i] # NoFile /\ fd[p][i] = fd[q][j] => i = j

HeldIsLocked ==
  \A p \in Procs : \A i \in Held(p) : fd[p][i] # NoFile /\ holder[fd[p][i]] = p

Places ==
  \A p \in Procs :
    /\ pc[p] = "flock" => fd[p][at[p]] # NoFile
    /\ pc[p] = "run" => at[p] = Len(Paths)

LockInv == TypeOK /\ OnePathEach /\ HeldIsLocked /\ Places

(* The route r of a process at a place: loops run between Flock and Stop    *)
(* only, push sources alone have an ingress and a worker, and the cause of  *)
(* a cancellation is still to be seen.                                      *)
Sound(r, place) ==
  /\ \A i \in Sources :
       r.loop[i] \in {"wait", "cycle"} => place = "run" /\ r.phase \in {"loops", "drain"}
  /\ \A i \in Sources :
       r.ingress[i] \in {"up", "failed"} \/ r.worker[i] \in {"up", "failed"} =>
         Mode[i] = "push"
  /\ r.phase \in {"build", "first"} => ~r.cancelled /\ ~r.reported
  /\ r.cancelled \/ r.reported =>
       r.stop \/ \E j \in Sources :
         Mode[j] = "push" /\ (r.ingress[j] = "failed" \/ r.worker[j] = "failed")

RouteInv == RouteTypeOK /\ \A p \in Procs : Sound(route[p], pc[p])

-----------------------------------------------------------------------------
(* LockInv holds at first. *)
LEMMA LockInitially == Init => LockInv
BY SourcesAreNumbered, SentinelAssumption, LockBoundAssumption
   DEF Init, LockInv, TypeOK, OnePathEach, HeldIsLocked, Places, Held, Inodes, Sources

(* Every step of the lock protocol keeps it. *)
LEMMA LockStep ==
  ASSUME LockInv, NEW p \in Procs,
         Start(p) \/ Open(p) \/ Flock(p) \/ FlockRefused(p) \/ FlockFails(p) \/ Stop(p)
           \/ Unlock(p) \/ Remove(p) \/ Crash(p)
  PROVE  LockInv'
<1> USE SourcesAreNumbered, SentinelAssumption, LockBoundAssumption
<1> USE DEF Goto, Move
<1> DEFINE Labels == {"down", "open", "flock", "run", "undo", "removeUndo", "unlock", "remove",
                      "refused"}
<1>t. /\ dir \in [Sources -> Inodes \cup {NoFile}]
      /\ holder \in [Inodes -> Procs \cup {NoOne}]
      /\ created \in 0..MaxFiles
      /\ fd \in [Procs -> [Sources -> Inodes \cup {NoFile}]]
      /\ pc \in [Procs -> Labels]
      /\ at \in [Procs -> Sources]
      /\ faults \in 0..MaxFaults
      /\ at[p] \in 1..Len(Paths) /\ (at[p] # 1 => at[p] - 1 \in Sources)
      /\ (at[p] # Len(Paths) => at[p] + 1 \in Sources)
  BY DEF LockInv, TypeOK, Sources
<1>1. CASE Start(p)
  <2>1. TypeOK'
    BY <1>1 DEF Start, LockInv, TypeOK, Places, Inodes
  <2>2. OnePathEach'
    BY <1>1 DEF Start, LockInv, TypeOK, OnePathEach, Inodes
  <2>3. HeldIsLocked'
    BY <1>1 DEF Start, LockInv, TypeOK, OnePathEach, HeldIsLocked, Places, Held, Inodes
  <2>4. Places'
    BY <1>1 DEF Start, LockInv, TypeOK, Places, Inodes
  <2> QED BY <2>1, <2>2, <2>3, <2>4 DEF LockInv
<1>2. CASE Open(p)
  <2> DEFINE f == dir'[at[p]]
  <2>a. at[p] \in Sources /\ fd \in [Procs -> [Sources -> Inodes \cup {NoFile}]]
        /\ dir \in [Sources -> Inodes \cup {NoFile}] /\ created \in 0..MaxFiles
    BY DEF LockInv, TypeOK
  <2>b. /\ f \in Inodes /\ f # NoFile /\ f <= created' /\ created <= created'
        /\ created' \in 0..MaxFiles
        /\ dir' = [dir EXCEPT ![at[p]] = f]
        /\ (dir[at[p]] = f \/ created < f)
    BY <1>2, <2>a DEF Open, Path, Inodes, LockInv, OnePathEach
  <2>c. fd' = [fd EXCEPT ![p][at[p]] = f]
    BY <1>2 DEF Open, Path
  <2>d. \A q \in Procs, i \in Sources :
          fd'[q][i] = IF q = p /\ i = at[p] THEN f ELSE fd[q][i]
    BY <2>a, <2>c
  <2>e. \A i \in Sources : dir'[i] = IF i = at[p] THEN f ELSE dir[i]
    BY <2>a, <2>b
  <2>1. TypeOK'
    <3>1. fd' \in [Procs -> [Sources -> Inodes \cup {NoFile}]]
      BY <2>a, <2>b, <2>c
    <3>2. dir' \in [Sources -> Inodes \cup {NoFile}]
      BY <2>a, <2>b
    <3> QED
      BY <1>2, <2>b, <3>1, <3>2 DEF Open, LockInv, TypeOK
  <2> HIDE DEF f
  <2>2. OnePathEach'
    <3>1. \A i \in Sources : dir[i] \in Inodes \cup {NoFile}
      BY <2>a
    <3>2. \A q \in Procs, i \in Sources : fd[q][i] \in Inodes \cup {NoFile}
      BY <2>a
    <3>0. f \in 1..created' /\ \A n \in 1..created : n \in 1..created'
      BY <2>a, <2>b DEF Inodes
    <3>3. /\ \A i \in Sources : dir'[i] \in (1..created') \cup {NoFile}
          /\ \A q \in Procs, i \in Sources : fd'[q][i] \in (1..created') \cup {NoFile}
      BY <2>d, <2>e, <3>0 DEF LockInv, OnePathEach
    <3>4. \A i, j \in Sources : dir'[i] # NoFile /\ dir'[i] = dir'[j] => i = j
      BY <2>a, <2>b, <2>e, <3>1 DEF LockInv, OnePathEach, Inodes
    <3>f. \A q \in Procs, i \in Sources : fd[q][i] = f => i = at[p]
      <4> SUFFICES ASSUME NEW q \in Procs, NEW i \in Sources, fd[q][i] = f
                   PROVE  i = at[p]
        OBVIOUS
      <4>1. CASE dir[at[p]] = f
        BY <2>a, <2>b, <4>1 DEF LockInv, OnePathEach
      <4>2. CASE created < f
        BY <2>a, <2>b, <4>2 DEF LockInv, OnePathEach, Inodes
      <4> QED BY <2>b, <4>1, <4>2
    <3>5. \A q \in Procs, i, j \in Sources :
            fd'[q][i] # NoFile /\ fd'[q][i] = dir'[j] => i = j
      BY SMTT(30), <2>a, <2>b, <2>d, <2>e, <3>1, <3>2 DEF LockInv, OnePathEach, Inodes
    <3>6. \A q, r \in Procs, i, j \in Sources :
            fd'[q][i] # NoFile /\ fd'[q][i] = fd'[r][j] => i = j
      BY <2>d, <3>f DEF LockInv, OnePathEach
    <3> QED BY <3>3, <3>4, <3>5, <3>6 DEF OnePathEach
  <2>3. HeldIsLocked'
    BY <1>2 DEF Open, Path, LockInv, TypeOK, OnePathEach, HeldIsLocked, Places, Held, Inodes
  <2>4. Places'
    BY <1>2 DEF Open, Path, LockInv, TypeOK, Places, Inodes
  <2> QED BY <2>1, <2>2, <2>3, <2>4 DEF LockInv
<1>3. CASE Flock(p)
  <2>1. TypeOK'
    <3>1. File(p) \in Inodes
      BY <1>3, <1>t DEF Flock, File, Path, LockInv, Places
    <3>2. holder' \in [Inodes -> Procs \cup {NoOne}]
      BY <1>3, <1>t, <3>1 DEF Flock
    <3>3. pc' \in [Procs -> Labels] /\ at' \in [Procs -> Sources]
      BY <1>3, <1>t DEF Flock
    <3> QED BY <1>3, <1>t, <3>2, <3>3 DEF Flock, TypeOK, Sources
  <2>2. OnePathEach'
    BY <1>3 DEF Flock, Locked, File, Path, LockInv, TypeOK, OnePathEach, Inodes
  <2>3. HeldIsLocked'
    BY SMTT(30), <1>3
    DEF Flock, Locked, File, Path, LockInv, TypeOK, OnePathEach, HeldIsLocked, Places, Held, Inodes
  <2>4. Places'
    BY <1>3 DEF Flock, Locked, File, Path, LockInv, TypeOK, Places, Inodes
  <2> QED BY <2>1, <2>2, <2>3, <2>4 DEF LockInv
<1>4. CASE FlockRefused(p) \/ FlockFails(p)
  <2>a. /\ pc[p] = "flock" /\ UNCHANGED <<dir, holder, created>>
        /\ faults' \in 0..MaxFaults
        /\ fd' = [fd EXCEPT ![p][at[p]] = NoFile]
        /\ \/ at[p] = 1 /\ pc' = [pc EXCEPT ![p] = "refused"] /\ UNCHANGED at
           \/ at[p] # 1 /\ pc' = [pc EXCEPT ![p] = "undo"] /\ at' = [at EXCEPT ![p] = at[p] - 1]
    BY <1>4, <1>t DEF FlockRefused, FlockFails, GiveUp, Fault, Path
  <2>b. \A q \in Procs, i \in Sources :
          fd'[q][i] = IF q = p /\ i = at[p] THEN NoFile ELSE fd[q][i]
    BY <1>t, <2>a
  <2>1. TypeOK'
    <3>1. fd' \in [Procs -> [Sources -> Inodes \cup {NoFile}]]
      BY <1>t, <2>a
    <3>2. pc' \in [Procs -> Labels] /\ at' \in [Procs -> Sources]
      <4>1. CASE at[p] = 1
        <5>1. pc' = [pc EXCEPT ![p] = "refused"] /\ at' = at
          BY <2>a, <4>1
        <5> QED BY <1>t, <5>1
      <4>2. CASE at[p] # 1
        <5> DEFINE n == at[p] - 1
        <5>1. pc' = [pc EXCEPT ![p] = "undo"] /\ at' = [at EXCEPT ![p] = n]
          BY <2>a, <4>2
        <5>2. n \in Sources
          BY <1>t, <4>2
        <5> HIDE DEF n
        <5> QED BY <1>t, <5>1, <5>2
      <4> QED BY <4>1, <4>2
    <3> QED BY <1>t, <2>a, <3>1, <3>2 DEF TypeOK, Sources
  <2>2. OnePathEach'
    BY <2>a, <2>b DEF LockInv, OnePathEach
  <2>3. HeldIsLocked'
    <3> SUFFICES ASSUME NEW q \in Procs, NEW i \in Held(q)'
                 PROVE  fd'[q][i] # NoFile /\ holder'[fd'[q][i]] = q
      BY DEF HeldIsLocked
    <3>1. CASE q # p
      <4>1. i \in Held(q) /\ i \in Sources
        BY <1>t, <2>a, <3>1 DEF Held
      <4> QED BY <2>a, <2>b, <3>1, <4>1 DEF LockInv, HeldIsLocked
    <3>2. CASE q = p
      <4>1. i \in Held(p) /\ i \in Sources /\ i # at[p]
        BY <1>t, <2>a, <3>2 DEF Held
      <4> QED BY <2>a, <2>b, <3>2, <4>1 DEF LockInv, HeldIsLocked
    <3> QED BY <3>1, <3>2
  <2>4. Places'
    BY <1>4 DEF FlockRefused, FlockFails, GiveUp, Fault, Locked, File, Path, LockInv, TypeOK,
                Places, Inodes
  <2> QED BY <2>1, <2>2, <2>3, <2>4 DEF LockInv
<1>5. CASE Stop(p)
  <2>1. TypeOK'
    BY <1>5 DEF Stop, LockInv, TypeOK, Places, Inodes
  <2>2. OnePathEach'
    BY <1>5 DEF Stop, LockInv, TypeOK, OnePathEach, Inodes
  <2>3. HeldIsLocked'
    BY <1>5 DEF Stop, LockInv, TypeOK, OnePathEach, HeldIsLocked, Places, Held, Inodes
  <2>4. Places'
    BY <1>5 DEF Stop, LockInv, TypeOK, Places, Inodes
  <2> QED BY <2>1, <2>2, <2>3, <2>4 DEF LockInv
<1>6. CASE Unlock(p)
  <2>a. at[p] \in Held(p) /\ fd[p][at[p]] \in Inodes /\ holder[fd[p][at[p]]] = p
        /\ pc[p] \in {"undo", "unlock"}
    BY <1>6, <1>t DEF Unlock, Undone, LockInv, HeldIsLocked, Held
  <2>u. Undone[pc[p]] = IF pc[p] = "undo" THEN "removeUndo" ELSE "remove"
    <3>1. CASE pc[p] = "undo"
      BY <3>1 DEF Undone
    <3>2. CASE pc[p] = "unlock"
      BY <3>2 DEF Undone
    <3> QED BY <2>a, <3>1, <3>2
  <2>b. /\ holder' = [holder EXCEPT ![fd[p][at[p]]] = NoOne]
        /\ fd' = [fd EXCEPT ![p][at[p]] = NoFile]
        /\ pc' = [pc EXCEPT ![p] = IF pc[p] = "undo" THEN "removeUndo" ELSE "remove"]
        /\ UNCHANGED <<dir, created, at, faults>>
    BY <1>6, <2>u DEF Unlock, File, Path
  <2>c. \A q \in Procs, i \in Sources :
          fd'[q][i] = IF q = p /\ i = at[p] THEN NoFile ELSE fd[q][i]
    BY <1>t, <2>b
  <2>1. TypeOK'
    <3>1. fd' \in [Procs -> [Sources -> Inodes \cup {NoFile}]]
      BY <1>t, <2>b
    <3>2. pc' \in [Procs -> Labels] /\ holder' \in [Inodes -> Procs \cup {NoOne}]
      BY <1>t, <2>a, <2>b
    <3> QED BY <1>t, <2>b, <3>1, <3>2 DEF TypeOK, Sources
  <2>2. OnePathEach'
    BY <2>b, <2>c DEF LockInv, OnePathEach
  <2>3. HeldIsLocked'
    <3> SUFFICES ASSUME NEW q \in Procs, NEW i \in Held(q)'
                 PROVE  fd'[q][i] # NoFile /\ holder'[fd'[q][i]] = q
      BY DEF HeldIsLocked
    <3>1. i \in Held(q) /\ i \in Sources /\ (q = p => i # at[p])
      BY <1>t, <2>a, <2>b DEF Held
    <3>2. fd[q][i] \in Inodes /\ holder[fd[q][i]] = q /\ fd'[q][i] = fd[q][i]
      BY <1>t, <2>c, <3>1 DEF LockInv, HeldIsLocked
    <3>3. fd[q][i] # fd[p][at[p]]
      BY <1>t, <2>a, <3>1, <3>2 DEF LockInv, OnePathEach
    <3> QED BY <1>t, <2>b, <3>2, <3>3
  <2>4. Places'
    BY <1>6 DEF Unlock, Undone, File, Path, LockInv, TypeOK, Places, Inodes
  <2> QED BY <2>1, <2>2, <2>3, <2>4 DEF LockInv
<1>7. CASE Remove(p)
  <2>1. TypeOK'
    <3>1. dir' \in [Sources -> Inodes \cup {NoFile}]
      BY <1>7, <1>t DEF Remove, Path
    <3>2. pc' \in [Procs -> Labels] /\ at' \in [Procs -> Sources]
      BY <1>7, <1>t DEF Remove
    <3> QED BY <1>7, <1>t, <3>1, <3>2 DEF Remove, TypeOK, Sources
  <2>2. OnePathEach'
    BY <1>7 DEF Remove, Path, LockInv, TypeOK, OnePathEach, Inodes
  <2>3. HeldIsLocked'
    BY <1>7 DEF Remove, Path, LockInv, TypeOK, OnePathEach, HeldIsLocked, Places, Held, Inodes
  <2>4. Places'
    BY <1>7 DEF Remove, Path, LockInv, TypeOK, Places, Inodes
  <2> QED BY <2>1, <2>2, <2>3, <2>4 DEF LockInv
<1>8. CASE Crash(p)
  <2>1. TypeOK'
    BY <1>8 DEF Crash, Fault, LockInv, TypeOK, Places, Inodes
  <2>2. OnePathEach'
    BY <1>8 DEF Crash, Fault, LockInv, TypeOK, OnePathEach, Inodes
  <2>3. HeldIsLocked'
    BY <1>8 DEF Crash, Fault, LockInv, TypeOK, OnePathEach, HeldIsLocked, Places, Held, Inodes
  <2>4. Places'
    BY <1>8 DEF Crash, Fault, LockInv, TypeOK, Places, Inodes
  <2> QED BY <2>1, <2>2, <2>3, <2>4 DEF LockInv
<1> QED BY <1>1, <1>2, <1>3, <1>4, <1>5, <1>6, <1>7, <1>8

-----------------------------------------------------------------------------
(* What an action does to the files a process has open and to its locks. *)

LockAction(p) ==
  Start(p) \/ Open(p) \/ Flock(p) \/ FlockRefused(p) \/ FlockFails(p) \/ Stop(p)
    \/ Unlock(p) \/ Remove(p) \/ Crash(p)

(* A step of one process leaves the files and the place of the others. *)
LEMMA OthersStay ==
  ASSUME TypeOK, NEW p \in Procs, LockAction(p), NEW q \in Procs \ {p}
  PROVE  fd'[q] = fd[q] /\ pc'[q] = pc[q] /\ at'[q] = at[q] /\ Held(q)' = Held(q)
<1>1. pc'[q] = pc[q]
  BY DEF TypeOK, LockAction, Start, Open, Flock, FlockRefused, FlockFails, GiveUp, Stop, Unlock,
         Remove, Crash, Goto
<1>2. at'[q] = at[q]
  BY DEF TypeOK, LockAction, Start, Open, Flock, FlockRefused, FlockFails, GiveUp, Stop, Unlock,
         Remove, Crash, Move
<1>3. fd'[q] = fd[q]
  BY DEF TypeOK, LockAction, Start, Open, Flock, FlockRefused, FlockFails, GiveUp, Stop, Unlock,
         Remove, Crash
<1> QED BY <1>1, <1>2, <1>3 DEF Held, Sources

(* The locks that p holds before and after each of its actions. *)
LEMMA HeldAfter ==
  ASSUME LockInv, NEW p \in Procs
  PROVE  /\ at[p] \in Sources /\ Held(p) \subseteq Sources
         /\ Start(p) \/ Crash(p) => Held(p)' = {}
         /\ Start(p) => Held(p) = {}
         /\ Open(p) \/ Stop(p) \/ Remove(p) \/ FlockRefused(p) \/ FlockFails(p)
              => Held(p)' = Held(p)
         /\ Flock(p) => Held(p)' = Held(p) \cup {at[p]}
         /\ Unlock(p) => Held(p)' = Held(p) \ {at[p]} /\ at[p] \in Held(p)
         /\ Open(p) \/ Flock(p) \/ FlockRefused(p) \/ FlockFails(p) \/ Remove(p)
              => Held(p) = 1..(at[p] - 1)
<1> USE SourcesAreNumbered DEF Goto, Move
<1>t. /\ pc \in [Procs -> {"down", "open", "flock", "run", "undo", "removeUndo",
                           "unlock", "remove", "refused"}]
      /\ at \in [Procs -> Sources] /\ at[p] \in 1..Len(Paths)
  BY DEF LockInv, TypeOK, Sources
<1>1. at[p] \in Sources /\ Held(p) \subseteq Sources
  BY <1>t DEF Held
<1>2. Start(p) \/ Crash(p) => Held(p)' = {}
  BY <1>t DEF Start, Crash, Held
<1>3. Start(p) => Held(p) = {}
  BY <1>t DEF Start, Held
<1>4. Open(p) => Held(p)' = Held(p) /\ Held(p) = 1..(at[p] - 1)
  BY <1>t DEF Open, Held
<1>5. Stop(p) => Held(p)' = Held(p)
  BY <1>t DEF Stop, Held, LockInv, Places
<1>6. Remove(p) => Held(p)' = Held(p) /\ Held(p) = 1..(at[p] - 1)
  BY <1>t DEF Remove, Held
<1>7. FlockRefused(p) \/ FlockFails(p) => Held(p)' = Held(p) /\ Held(p) = 1..(at[p] - 1)
  BY <1>t DEF FlockRefused, FlockFails, GiveUp, Held
<1>8. Flock(p) => Held(p)' = Held(p) \cup {at[p]} /\ Held(p) = 1..(at[p] - 1)
  BY <1>t DEF Flock, Held
<1>9. Unlock(p) => Held(p)' = Held(p) \ {at[p]} /\ at[p] \in Held(p)
  <2> SUFFICES ASSUME Unlock(p) PROVE Held(p)' = Held(p) \ {at[p]} /\ at[p] \in Held(p)
    OBVIOUS
  <2>1. CASE pc[p] = "undo"
    <3>1. pc'[p] = "removeUndo" /\ at' = at
      BY <1>t, <2>1 DEF Unlock, Undone
    <3> QED BY <1>t, <2>1, <3>1 DEF Held
  <2>2. CASE pc[p] = "unlock"
    <3>1. pc'[p] = "remove" /\ at' = at
      BY <1>t, <2>2 DEF Unlock, Undone
    <3> QED BY <1>t, <2>2, <3>1 DEF Held
  <2> QED BY <2>1, <2>2 DEF Unlock, Undone
<1> QED BY <1>1, <1>2, <1>3, <1>4, <1>5, <1>6, <1>7, <1>8, <1>9

(* A process has no file open but those of its locks and the one it is     *)
(* about to lock, and every flock is one of the locks of its holder.       *)
Ledger ==
  /\ \A p \in Procs, i \in Sources :
       fd[p][i] # NoFile => i \in Held(p) \/ (pc[p] = "flock" /\ i = at[p])
  /\ \A f \in Inodes, q \in Procs : holder[f] = q => \E i \in Held(q) : fd[q][i] = f

(* Every step of the lock protocol keeps Ledger. *)
LEMMA LedgerStep ==
  ASSUME LockInv, Ledger, NEW p \in Procs, LockAction(p)
  PROVE  Ledger'
<1> USE SourcesAreNumbered, SentinelAssumption
<1>t. /\ fd \in [Procs -> [Sources -> Inodes \cup {NoFile}]]
      /\ holder \in [Inodes -> Procs \cup {NoOne}]
      /\ pc \in [Procs -> {"down", "open", "flock", "run", "undo", "removeUndo",
                           "unlock", "remove", "refused"}]
      /\ at[p] \in Sources /\ TypeOK
  BY HeldAfter DEF LockInv, TypeOK, Sources
<1>q. ASSUME NEW q \in Procs \ {p}
      PROVE  fd'[q] = fd[q] /\ pc'[q] = pc[q] /\ at'[q] = at[q] /\ Held(q)' = Held(q)
  BY <1>t, OthersStay
(* It is enough to look at the files of p and at the flocks that change. *)
<1>s. ASSUME \A i \in Sources :
               fd'[p][i] # NoFile => i \in Held(p)' \/ (pc'[p] = "flock" /\ i = at'[p]),
             \A f \in Inodes : holder'[f] = p => \E i \in Held(p)' : fd'[p][i] = f,
             \A f \in Inodes : holder'[f] \in {holder[f], p, NoOne}
      PROVE  Ledger'
  <2>1. ASSUME NEW q \in Procs, NEW i \in Sources, fd'[q][i] # NoFile
        PROVE  i \in Held(q)' \/ (pc'[q] = "flock" /\ i = at'[q])
    BY <1>q, <1>s, <2>1 DEF Ledger
  <2>2. ASSUME NEW q \in Procs, NEW f \in Inodes, holder'[f] = q
        PROVE  \E i \in Held(q)' : fd'[q][i] = f
    <3>1. CASE q = p
      BY <1>s, <2>2, <3>1
    <3>2. CASE q # p
      <4>1. holder[f] = q
        BY <1>s, <2>2, <3>2
      <4> QED BY <1>q, <3>2, <4>1 DEF Ledger
    <3> QED BY <3>1, <3>2
  <2> QED BY <2>1, <2>2 DEF Ledger
<1>a. CASE UNCHANGED <<fd, holder>> /\ Held(p)' = Held(p)
             /\ (pc[p] = "flock" => pc'[p] = "flock" /\ at'[p] = at[p])
  BY <1>a, <1>s DEF Ledger
<1>1. CASE Start(p) \/ Stop(p) \/ Remove(p)
  BY <1>1, <1>a, HeldAfter DEF Start, Stop, Remove
<1>2. CASE Open(p)
  <2> DEFINE f == dir'[at[p]]
  <2>1. /\ fd' = [fd EXCEPT ![p][at[p]] = f] /\ UNCHANGED <<holder, at>> /\ pc'[p] = "flock"
        /\ Held(p)' = Held(p) /\ pc[p] = "open" /\ Held(p) = 1..(at[p] - 1)
    BY <1>2, <1>t, HeldAfter DEF Open, Path, Goto
  <2> HIDE DEF f
  <2>2. \A i \in Sources : i # at[p] => fd'[p][i] = fd[p][i]
    BY <1>t, <2>1
  <2>3. \A i \in Held(p) : i \in Sources /\ i # at[p]
    BY <1>t, <2>1, HeldAfter
  <2>4. \A i \in Sources :
          fd'[p][i] # NoFile => i \in Held(p)' \/ (pc'[p] = "flock" /\ i = at'[p])
    BY <2>1, <2>2 DEF Ledger
  <2>5. \A g \in Inodes : holder'[g] = p => \E i \in Held(p)' : fd'[p][i] = g
    <3> SUFFICES ASSUME NEW g \in Inodes, holder'[g] = p
                 PROVE  \E i \in Held(p)' : fd'[p][i] = g
      OBVIOUS
    <3>1. PICK i \in Held(p) : fd[p][i] = g
      BY <2>1 DEF Ledger
    <3> QED BY <2>1, <2>2, <2>3, <3>1
  <2> QED BY <1>s, <2>1, <2>4, <2>5
<1>3. CASE Flock(p)
  <2>1. /\ UNCHANGED fd /\ holder' = [holder EXCEPT ![fd[p][at[p]]] = p]
        /\ Held(p)' = Held(p) \cup {at[p]}
    BY <1>3, HeldAfter DEF Flock, File, Path
  <2> QED BY <1>s, <1>t, <2>1 DEF Ledger
<1>4. CASE FlockRefused(p) \/ FlockFails(p)
  <2>1. /\ fd' = [fd EXCEPT ![p][at[p]] = NoFile] /\ UNCHANGED holder
        /\ Held(p)' = Held(p) /\ Held(p) = 1..(at[p] - 1)
    BY <1>4, HeldAfter DEF FlockRefused, FlockFails, GiveUp, Path
  <2>2. fd'[p][at[p]] = NoFile /\ \A i \in Sources : i # at[p] => fd'[p][i] = fd[p][i]
    BY <1>t, <2>1
  <2>3. \A i \in Held(p) : i \in Sources /\ i # at[p]
    BY <1>t, <2>1, HeldAfter
  <2>4. \A i \in Sources : fd'[p][i] # NoFile => i \in Held(p)'
    BY <2>1, <2>2 DEF Ledger
  <2>5. \A g \in Inodes : holder'[g] = p => \E i \in Held(p)' : fd'[p][i] = g
    <3> SUFFICES ASSUME NEW g \in Inodes, holder'[g] = p
                 PROVE  \E i \in Held(p)' : fd'[p][i] = g
      OBVIOUS
    <3>1. PICK i \in Held(p) : fd[p][i] = g
      BY <2>1 DEF Ledger
    <3> QED BY <2>1, <2>2, <2>3, <3>1
  <2> QED BY <1>s, <2>1, <2>4, <2>5
<1>5. CASE Unlock(p)
  <2>1. /\ fd' = [fd EXCEPT ![p][at[p]] = NoFile]
        /\ holder' = [holder EXCEPT ![fd[p][at[p]]] = NoOne]
        /\ Held(p)' = Held(p) \ {at[p]} /\ at[p] \in Held(p) /\ pc[p] # "flock"
    BY <1>5, HeldAfter DEF Unlock, Undone, File, Path
  <2>2. fd'[p][at[p]] = NoFile /\ \A i \in Sources : i # at[p] => fd'[p][i] = fd[p][i]
    BY <1>t, <2>1
  <2>3. ASSUME NEW f \in Inodes, holder'[f] = p
        PROVE  \E i \in Held(p)' : fd'[p][i] = f
    <3>1. holder[f] = p /\ f # fd[p][at[p]]
      BY <1>t, <2>1, <2>3
    <3>2. PICK i \in Held(p) : fd[p][i] = f
      BY <3>1 DEF Ledger
    <3>3. i \in Sources /\ i # at[p]
      BY <3>1, <3>2, HeldAfter
    <3> QED BY <2>1, <2>2, <3>2, <3>3
  <2>4. \A f \in Inodes : holder'[f] \in {holder[f], p, NoOne}
    BY <1>t, <2>1
  <2>5. \A i \in Sources : fd'[p][i] # NoFile => i \in Held(p)'
    BY <2>1, <2>2 DEF Ledger
  <2> QED BY <1>s, <2>3, <2>4, <2>5
<1>6. CASE Crash(p)
  <2>1. /\ \A i \in Sources : fd'[p][i] = NoFile
        /\ \A f \in Inodes : holder'[f] # p /\ holder'[f] \in {holder[f], NoOne}
    BY <1>6, <1>t DEF Crash, Sources
  <2> QED BY <1>s, <2>1
<1> QED BY <1>1, <1>2, <1>3, <1>4, <1>5, <1>6 DEF LockAction

(* A process is refused by another one that holds the lock at that moment. *)
LEMMA RefusedByHolder ==
  ASSUME LockInv, Ledger, NEW p \in Procs, FlockRefused(p)
  PROVE  \E q \in Procs \ {p} : at[p] \in Held(q) /\ fd[q][at[p]] = fd[p][at[p]]
<1>0. at[p] \in Sources /\ Sources \subseteq Nat
  BY HeldAfter, SourcesAreNumbered
<1>1. fd[p][at[p]] \in Inodes /\ holder[fd[p][at[p]]] \in Procs
  BY <1>0 DEF FlockRefused, Locked, File, Path, LockInv, TypeOK, Places, Sources
<1>2. PICK q \in Procs : \E i \in Held(q) : fd[q][i] = fd[p][at[p]]
  BY <1>1 DEF Ledger
<1>3. PICK i \in Held(q) : fd[q][i] = fd[p][at[p]]
  BY <1>2
<1>4. i \in Sources
  BY HeldAfter
<1>5. fd[q][i] # NoFile
  BY <1>1, <1>3, SentinelAssumption
<1>6. i = at[p]
  <2>1. \A j, k \in Sources : fd[q][j] # NoFile /\ fd[q][j] = fd[p][k] => j = k
    BY DEF LockInv, OnePathEach
  <2> QED BY <1>0, <1>3, <1>4, <1>5, <2>1
<1>7. at[p] \notin Held(p)
  <2>1. Held(p) = 1..(at[p] - 1)
    BY HeldAfter
  <2> QED BY <1>0, <2>1
<1> QED BY <1>3, <1>6, <1>7

-----------------------------------------------------------------------------
(* Of the processes that take the locks together, one will get them all:    *)
(* it has the first m locks, and the lock files of the paths after these    *)
(* that are younger than its date are the ones nobody else gets past.       *)

Newer(f, i, t) == f # NoFile /\ f > t[i]
Undoing(p) == pc[p] \in {"undo", "removeUndo"}

(* T has passed the first m paths and is not among those that give up. *)
Passed(T, m) ==
  /\ ~Undoing(T) /\ pc[T] # "refused"
  /\ \A i \in 1..m : i \in Held(T) \/ (pc[T] = "remove" /\ i = at[T])

(* Beyond them, T and whoever comes later find new files only, and a       *)
(* process that has a new file finds no old one behind it.                 *)
NewBeyond(T, m, t) ==
  \A i \in Sources : i > m =>
    /\ fd[T][i] # NoFile => Newer(fd[T][i], i, t)
    /\ dir[i] # NoFile => Newer(dir[i], i, t)
    /\ \A p \in Procs, j \in Sources :
         i < j /\ Newer(fd[p][i], i, t) /\ fd[p][j] # NoFile => Newer(fd[p][j], j, t)

(* Those that give up have old files. *)
OldGiveUp(m, t) ==
  \A i \in Sources : i > m =>
    \A p \in Procs : Undoing(p) /\ i \in Held(p) => ~Newer(fd[p][i], i, t)

Dated(t) == \A i \in Sources : t[i] <= created

Survives(T, m, t) == Passed(T, m) /\ NewBeyond(T, m, t) /\ OldGiveUp(m, t) /\ Dated(t)

Dates == [Sources -> 0..MaxFiles]

Survivor ==
  faults = 0 => \E T \in Procs, m \in 0..Len(Paths), t \in Dates : Survives(T, m, t)

(* The steps that open no file. *)
LEMMA SurvivesKept ==
  ASSUME LockInv, NEW T \in Procs, NEW m \in 0..Len(Paths), NEW t \in Dates,
         Survives(T, m, t),
         Passed(T, m)', OldGiveUp(m, t)',
         \A q \in Procs, i \in Sources : fd'[q][i] \in {fd[q][i], NoFile},
         \A i \in Sources : dir'[i] \in {dir[i], NoFile},
         created' = created
  PROVE  Survives(T, m, t)'
<1>1. NewBeyond(T, m, t)'
  <2> SUFFICES ASSUME NEW i \in Sources, i > m
               PROVE  /\ fd'[T][i] # NoFile => Newer(fd'[T][i], i, t)
                      /\ dir'[i] # NoFile => Newer(dir'[i], i, t)
                      /\ \A p \in Procs, j \in Sources :
                           i < j /\ Newer(fd'[p][i], i, t) /\ fd'[p][j] # NoFile
                             => Newer(fd'[p][j], j, t)
    BY DEF NewBeyond, Newer
  <2>1. \A f : Newer(f, i, t) => f # NoFile
    BY DEF Newer
  <2> QED BY <2>1 DEF Survives, NewBeyond
<1>2. Dated(t)'
  BY DEF Survives, Dated
<1> QED BY <1>1, <1>2 DEF Survives

(* While only p gives up, and not on a newer file, all who give up hold *)
(* older ones.                                                          *)
LEMMA NobodyElseGivesUp ==
  ASSUME NEW m, NEW t, OldGiveUp(m, t), NEW p \in Procs,
         \A q \in Procs \ {p} : fd'[q] = fd[q] /\ pc'[q] = pc[q] /\ Held(q)' = Held(q),
         \A i \in Sources : Undoing(p)' /\ i \in Held(p)' /\ i > m => ~Newer(fd'[p][i], i, t)
  PROVE  OldGiveUp(m, t)'
<1>1. ASSUME NEW i \in Sources, i > m, NEW q \in Procs, Undoing(q)', i \in Held(q)'
      PROVE  ~Newer(fd'[q][i], i, t)
  <2>1. CASE q = p
    BY <1>1, <2>1
  <2>2. CASE q # p
    BY <1>1, <2>2 DEF OldGiveUp, Undoing
  <2> QED BY <2>1, <2>2
<1> QED BY <1>1 DEF OldGiveUp, Newer

(* Open: what T finds beyond its m paths is new, and so is what p finds    *)
(* behind a new file.                                                      *)
LEMMA OpenSurvives ==
  ASSUME LockInv, Ledger, NEW p \in Procs, Open(p),
         NEW T \in Procs, NEW m \in 0..Len(Paths), NEW t \in Dates, Survives(T, m, t)
  PROVE  Survives(T, m, t)'
<1> USE SourcesAreNumbered, SentinelAssumption, LockBoundAssumption
<1> DEFINE k == at[p]
           f == dir'[k]
<1>t. /\ dir \in [Sources -> Inodes \cup {NoFile}] /\ created \in 0..MaxFiles
      /\ fd \in [Procs -> [Sources -> Inodes \cup {NoFile}]]
      /\ pc \in [Procs -> {"down", "open", "flock", "run", "undo", "removeUndo",
                           "unlock", "remove", "refused"}]
      /\ TypeOK
  BY DEF LockInv, TypeOK, Sources
<1>k. k \in Sources /\ Held(p)' = Held(p) /\ Held(p) = 1..(k - 1)
  BY HeldAfter
<1>1. /\ pc[p] = "open" /\ pc'[p] = "flock"
      /\ f \in Inodes /\ f # NoFile /\ created <= created'
      /\ dir' = [dir EXCEPT ![k] = f]
      /\ (dir[k] = f \/ created < f)
  BY <1>t, <1>k DEF Open, Path, Goto, Inodes, LockInv, OnePathEach
<1>2. fd' = [fd EXCEPT ![p][k] = f]
  BY DEF Open, Path
<1>3. \A q \in Procs, i \in Sources : fd'[q][i] = IF q = p /\ i = k THEN f ELSE fd[q][i]
  BY <1>t, <1>k, <1>2
<1>4. \A i \in Sources : dir'[i] = IF i = k THEN f ELSE dir[i]
  BY <1>t, <1>k, <1>1
<1>o. ASSUME NEW q \in Procs \ {p}
      PROVE  fd'[q] = fd[q] /\ pc'[q] = pc[q] /\ at'[q] = at[q] /\ Held(q)' = Held(q)
  BY <1>t, OthersStay DEF LockAction
<1>n. k > m => Newer(f, k, t)
  <2> SUFFICES ASSUME k > m PROVE Newer(f, k, t)
    OBVIOUS
  <2>1. t[k] \in 0..MaxFiles /\ t[k] <= created
    BY <1>k DEF Dates, Survives, Dated
  <2>2. CASE dir[k] = f
    BY <1>k, <1>1, <2>2 DEF Survives, NewBeyond
  <2>3. CASE created < f
    BY <1>t, <1>1, <2>1, <2>3 DEF Newer, Inodes
  <2> QED BY <1>1, <2>2, <2>3
<1>b. \A i \in Sources : i > k => fd[p][i] = NoFile
  <2> SUFFICES ASSUME NEW i \in Sources, i > k, fd[p][i] # NoFile PROVE FALSE
    OBVIOUS
  <2>1. i \in Held(p)
    BY <1>1 DEF Ledger
  <2> QED BY <1>k, <2>1
<1> HIDE DEF k, f
<1>5. Passed(T, m)'
  <2>1. Held(T)' = Held(T) /\ (T = p => pc[T] = "open" /\ pc'[T] = "flock")
        /\ (T # p => pc'[T] = pc[T] /\ at'[T] = at[T])
    BY <1>k, <1>1, <1>o
  <2> QED BY <2>1 DEF Survives, Passed, Undoing
<1>6. NewBeyond(T, m, t)'
  <2> SUFFICES ASSUME NEW i \in Sources, i > m
               PROVE  /\ fd'[T][i] # NoFile => Newer(fd'[T][i], i, t)
                      /\ dir'[i] # NoFile => Newer(dir'[i], i, t)
                      /\ \A q \in Procs, j \in Sources :
                           i < j /\ Newer(fd'[q][i], i, t) /\ fd'[q][j] # NoFile
                             => Newer(fd'[q][j], j, t)
    BY DEF NewBeyond, Newer
  <2>1. fd'[T][i] # NoFile => Newer(fd'[T][i], i, t)
    BY <1>3, <1>n DEF Survives, NewBeyond
  <2>2. dir'[i] # NoFile => Newer(dir'[i], i, t)
    BY <1>4, <1>n DEF Survives, NewBeyond
  <2>3. ASSUME NEW q \in Procs, NEW j \in Sources, i < j,
               Newer(fd'[q][i], i, t), fd'[q][j] # NoFile
        PROVE  Newer(fd'[q][j], j, t)
    <3>1. CASE q = p /\ j = k
      <4>1. j > m
        BY <2>3, <1>k
      <4> QED BY <1>3, <1>n, <3>1, <4>1
    <3>2. CASE q = p /\ i = k
      BY <1>3, <1>b, <2>3, <3>2
    <3>3. CASE q # p \/ (i # k /\ j # k)
      <4>1. fd'[q][i] = fd[q][i] /\ fd'[q][j] = fd[q][j]
        BY <1>3, <3>3
      <4> QED BY <2>3, <4>1 DEF Survives, NewBeyond
    <3> QED BY <3>1, <3>2, <3>3
  <2> QED BY <2>1, <2>2, <2>3
<1>7. OldGiveUp(m, t)'
  <2>1. ~Undoing(p)'
    BY <1>1 DEF Undoing
  <2> QED BY <1>o, <2>1, NobodyElseGivesUp DEF Survives
<1>8. Dated(t)'
  <2>1. \A i \in Sources : t[i] \in 0..MaxFiles
    BY DEF Dates
  <2> QED BY <1>t, <1>1, <2>1 DEF Survives, Dated, Open
<1> QED BY <1>5, <1>6, <1>7, <1>8 DEF Survives

(* Remove: T starts again below the path it has removed; the files that    *)
(* others still have open there are old from now on.                       *)
LEMMA RemoveSurvives ==
  ASSUME LockInv, Ledger, NEW p \in Procs, Remove(p),
         NEW T \in Procs, NEW m \in 0..Len(Paths), NEW t \in Dates, Survives(T, m, t)
  PROVE  \E n \in 0..Len(Paths), u \in Dates : Survives(T, n, u)'
<1> USE SourcesAreNumbered, SentinelAssumption, LockBoundAssumption
<1>t. /\ dir \in [Sources -> Inodes \cup {NoFile}] /\ created \in 0..MaxFiles
      /\ fd \in [Procs -> [Sources -> Inodes \cup {NoFile}]]
      /\ pc \in [Procs -> {"down", "open", "flock", "run", "undo", "removeUndo",
                           "unlock", "remove", "refused"}]
      /\ TypeOK
  BY DEF LockInv, TypeOK, Sources
<1>0. PICK k \in Sources : k = at[p]
  BY HeldAfter
<1>k. k \in Sources /\ Held(p)' = Held(p) /\ Held(p) = 1..(k - 1)
  BY <1>0, HeldAfter
<1>1. /\ pc[p] \in {"remove", "removeUndo"} /\ UNCHANGED <<fd, created>>
      /\ pc[p] = "remove" => pc'[p] \in {"unlock", "down"}
      /\ dir' = [dir EXCEPT ![k] = NoFile]
  BY <1>0, <1>t DEF Remove, Path, Goto
<1>2. \A i \in Sources : dir'[i] = IF i = k THEN NoFile ELSE dir[i]
  BY <1>t, <1>k, <1>1
<1>o. ASSUME NEW q \in Procs \ {p}
      PROVE  fd'[q] = fd[q] /\ pc'[q] = pc[q] /\ at'[q] = at[q] /\ Held(q)' = Held(q)
  BY <1>t, OthersStay DEF LockAction
<1>h. \A q \in Procs : Held(q)' = Held(q)
  BY <1>k, <1>o
<1>u. \A q \in Procs : Undoing(q)' => Undoing(q)
  <2>1. Undoing(p)' => Undoing(p)
    BY <1>1 DEF Undoing
  <2> QED BY <1>o, <2>1 DEF Undoing
<1>3. ASSUME Passed(T, m)' PROVE Survives(T, m, t)'
  <2>1. OldGiveUp(m, t)'
    BY <1>1, <1>h, <1>u DEF Survives, OldGiveUp, Newer
  <2> QED BY <1>1, <1>2, <1>3, <2>1, SurvivesKept
<1>4. CASE T # p
  <2>1. Passed(T, m)'
    BY <1>o, <1>4 DEF Survives, Passed, Undoing
  <2> QED BY <1>3, <2>1
<1>5. CASE T = p /\ m # k
  <2>1. pc[p] = "remove" /\ pc'[p] \in {"unlock", "down"}
    BY <1>1, <1>5 DEF Survives, Passed, Undoing
  <2>2. \A i \in 1..m : i \in Held(p)
    <3> SUFFICES ASSUME NEW i \in 1..m, i = k PROVE FALSE
      BY <1>0, <1>5 DEF Survives, Passed
    <3>1. k + 1 \in 1..m
      BY <1>k, <1>5
    <3>2. k + 1 \in Held(p) \/ k + 1 = k
      BY <1>0, <1>5, <3>1 DEF Survives, Passed
    <3> QED BY <1>k, <3>2
  <2>3. Passed(T, m)'
    BY <1>5, <1>h, <2>1, <2>2 DEF Passed, Undoing
  <2> QED BY <1>3, <2>3
<1>6. CASE T = p /\ m = k
  <2>0. PICK c \in 0..MaxFiles : c = created
    BY <1>t
  <2> DEFINE n == k - 1
             u == [t EXCEPT ![k] = c]
  <2>1. n \in 0..Len(Paths) /\ u \in Dates
    BY <1>t, <1>k DEF Dates
  <2>2. \A i \in Sources : u[i] = IF i = k THEN created ELSE t[i]
    BY <1>k, <2>0 DEF Dates
  <2>3. \A f : Newer(f, k, u) => f # NoFile /\ f > created
    BY <1>k, <2>2 DEF Newer
  <2>4. \A i \in Sources : i # k => \A f : Newer(f, i, u) <=> Newer(f, i, t)
    BY <2>2 DEF Newer
  <2>5. \A q \in Procs : ~Newer(fd[q][k], k, u)
    <3> SUFFICES ASSUME NEW q \in Procs, Newer(fd[q][k], k, u) PROVE FALSE
      OBVIOUS
    <3>1. fd[q][k] \in 1..created /\ fd[q][k] > created
      BY <1>k, <2>3 DEF LockInv, OnePathEach
    <3> QED BY <1>t, <3>1
  <2>6. \A i \in Sources : i > n => i = k \/ (i # k /\ i > m)
    BY <1>k, <1>6
  <2>a. pc[p] = "remove" /\ pc'[p] \in {"unlock", "down"}
    BY <1>1, <1>6 DEF Survives, Passed, Undoing
  <2>b. fd[p][k] = NoFile
    <3>1. k \notin Held(p)
      BY <1>k
    <3> QED BY <1>k, <2>a, <3>1 DEF Ledger
  <2> HIDE DEF u
  <2>7. Passed(T, n)'
    BY <1>6, <1>h, <1>k, <2>1, <2>a DEF Passed, Undoing
  <2>8. NewBeyond(T, n, u)'
    <3> SUFFICES ASSUME NEW i \in Sources, i > n
                 PROVE  /\ fd[T][i] # NoFile => Newer(fd[T][i], i, u)
                        /\ dir'[i] # NoFile => Newer(dir'[i], i, u)
                        /\ \A q \in Procs, j \in Sources :
                             i < j /\ Newer(fd[q][i], i, u) /\ fd[q][j] # NoFile
                               => Newer(fd[q][j], j, u)
      BY <1>1 DEF NewBeyond, Newer
    <3>1. CASE i = k
      BY <1>2, <1>6, <2>5, <2>b, <3>1
    <3>2. CASE i # k /\ i > m
      <4>1. ASSUME NEW q \in Procs, NEW j \in Sources, i < j,
                   Newer(fd[q][i], i, u), fd[q][j] # NoFile
            PROVE  Newer(fd[q][j], j, u)
        <5>1. j # k
          BY <1>6, <1>k, <3>2, <4>1
        <5>2. Newer(fd[q][i], i, t)
          BY <2>4, <3>2, <4>1
        <5>3. Newer(fd[q][j], j, t)
          BY <3>2, <4>1, <5>2 DEF Survives, NewBeyond
        <5> QED BY <2>4, <5>1, <5>3
      <4>2. fd[T][i] # NoFile => Newer(fd[T][i], i, u)
        BY <2>4, <3>2 DEF Survives, NewBeyond
      <4>3. dir'[i] # NoFile => Newer(dir'[i], i, u)
        BY <1>2, <2>4, <3>2 DEF Survives, NewBeyond
      <4> QED BY <4>1, <4>2, <4>3
    <3> QED BY <2>6, <3>1, <3>2
  <2>9. OldGiveUp(n, u)'
    <3> SUFFICES ASSUME NEW i \in Sources, i > n, NEW q \in Procs, Undoing(q), i \in Held(q)
                 PROVE  ~Newer(fd[q][i], i, u)
      BY <1>1, <1>h, <1>u DEF OldGiveUp, Newer
    <3> QED BY <2>4, <2>5, <2>6 DEF Survives, OldGiveUp
  <2>10. Dated(u)'
    BY <1>1, <1>t, <2>2 DEF Survives, Dated
  <2>11. Survives(T, n, u)'
    BY <2>7, <2>8, <2>9, <2>10 DEF Survives
  <2> QED BY <2>1, <2>11
<1> QED BY <1>4, <1>5, <1>6

(* FlockRefused: the one that refuses p takes the place of T, if it has the *)
(* lock of a path beyond those of T and does not give up itself.            *)
LEMMA RefusedSurvives ==
  ASSUME LockInv, Ledger, NEW p \in Procs, FlockRefused(p),
         NEW T \in Procs, NEW m \in 0..Len(Paths), NEW t \in Dates, Survives(T, m, t)
  PROVE  \E h \in Procs, n \in 0..Len(Paths) : Survives(h, n, t)'
<1> USE SourcesAreNumbered, SentinelAssumption, LockBoundAssumption
<1>t. /\ fd \in [Procs -> [Sources -> Inodes \cup {NoFile}]]
      /\ pc \in [Procs -> {"down", "open", "flock", "run", "undo", "removeUndo",
                           "unlock", "remove", "refused"}]
      /\ TypeOK
  BY DEF LockInv, TypeOK, Sources
<1>0. PICK k \in Sources : k = at[p]
  BY HeldAfter
<1>k. k \in Sources /\ Held(p)' = Held(p) /\ Held(p) = 1..(k - 1)
  BY <1>0, HeldAfter
<1>1. /\ pc[p] = "flock" /\ pc'[p] \in {"undo", "refused"} /\ UNCHANGED <<dir, created>>
      /\ fd' = [fd EXCEPT ![p][k] = NoFile]
  BY <1>0, <1>t DEF FlockRefused, GiveUp, Path, Goto
<1>2. \A q \in Procs, i \in Sources : fd'[q][i] = IF q = p /\ i = k THEN NoFile ELSE fd[q][i]
  BY <1>t, <1>k, <1>1
<1>3. fd[p][k] # NoFile
  BY <1>0, <1>1 DEF LockInv, Places
<1>o. ASSUME NEW q \in Procs \ {p}
      PROVE  fd'[q] = fd[q] /\ pc'[q] = pc[q] /\ at'[q] = at[q] /\ Held(q)' = Held(q)
  BY <1>t, OthersStay DEF LockAction
<1>4. \A q \in Procs, i \in Sources : fd'[q][i] \in {fd[q][i], NoFile}
  BY <1>2
(* T stays, unless it is p itself, and p gives up with old files. *)
<1>5. ASSUME T # p, \A i \in Sources : i \in Held(p) /\ i > m => ~Newer(fd[p][i], i, t)
      PROVE  Survives(T, m, t)'
  <2>1. Passed(T, m)'
    BY <1>5, <1>o DEF Survives, Passed, Undoing
  <2>2. \A i \in Sources : i \in Held(p) => fd'[p][i] = fd[p][i]
    BY <1>2, <1>k
  <2>3. OldGiveUp(m, t)'
    BY <1>5, <1>k, <1>o, <2>2, NobodyElseGivesUp DEF Survives
  <2> QED BY <1>1, <1>4, <2>1, <2>3, SurvivesKept
<1>6. CASE k <= m
  <2>1. T # p
    <3>1. k \in 1..m /\ k \notin Held(p)
      BY <1>k, <1>6
    <3> QED BY <1>1, <3>1 DEF Survives, Passed
  <2>2. \A i \in Sources : i \in Held(p) => ~(i > m)
    BY <1>k, <1>6
  <2> QED BY <1>5, <2>1, <2>2
<1>7. CASE k > m /\ ~Newer(fd[p][k], k, t)
  <2>1. T # p
    BY <1>3, <1>7 DEF Survives, NewBeyond
  <2>2. ASSUME NEW i \in Sources, i \in Held(p), i > m PROVE ~Newer(fd[p][i], i, t)
    <3>1. i < k
      BY <1>k, <2>2
    <3> QED BY <1>3, <1>7, <2>2, <3>1 DEF Survives, NewBeyond
  <2> QED BY <1>5, <2>1, <2>2
<1>8. CASE k > m /\ Newer(fd[p][k], k, t)
  <2>1. PICK h \in Procs \ {p} : k \in Held(h) /\ fd[h][k] = fd[p][k]
    BY <1>0, RefusedByHolder
  <2>2. ~Undoing(h)
    BY <1>8, <2>1 DEF Survives, OldGiveUp
  <2>3. pc[h] # "refused" /\ \A i \in 1..k : i \in Held(h)
    <3>1. at[h] \in 1..Len(Paths) /\ pc[h] \notin {"down", "refused"}
      BY <1>t, <2>1 DEF Held, TypeOK, Sources
    <3> QED BY <1>t, <1>k, <2>1, <3>1 DEF Held
  <2>4. Passed(h, k)'
    BY <1>o, <2>1, <2>2, <2>3 DEF Passed, Undoing
  <2>5. ASSUME NEW i \in Sources, i > k
        PROVE  i > m /\ i \notin Held(p) /\ (fd[h][i] # NoFile => Newer(fd[h][i], i, t))
    <3>1. i > m /\ k < i /\ i \notin Held(p)
      BY <1>k, <1>8, <2>5
    <3> QED BY <1>8, <2>1, <3>1 DEF Survives, NewBeyond
  <2>6. Survives(h, k, t)
    <3>1. NewBeyond(h, k, t)
      BY <2>5 DEF Survives, NewBeyond
    <3>2. OldGiveUp(k, t)
      BY <2>5 DEF Survives, OldGiveUp
    <3> QED BY <2>2, <2>3, <3>1, <3>2 DEF Survives, Passed
  <2>7. OldGiveUp(k, t)'
    BY <1>k, <1>o, <2>5, <2>6, NobodyElseGivesUp DEF Survives
  <2>8. k \in 0..Len(Paths)
    BY <1>k
  <2>9. Survives(h, k, t)'
    BY <1>1, <1>4, <2>4, <2>6, <2>7, <2>8, SurvivesKept
  <2> QED BY <2>8, <2>9
<1>9. m \in Nat /\ k \in Nat
  BY <1>k
<1> QED BY <1>6, <1>7, <1>8, <1>5, <1>9

(* The steps of p that neither open nor remove nor give up. *)
LEMMA OthersSurvive ==
  ASSUME LockInv, Ledger, NEW p \in Procs, Start(p) \/ Flock(p) \/ Stop(p) \/ Unlock(p),
         NEW T \in Procs, NEW m \in 0..Len(Paths), NEW t \in Dates, Survives(T, m, t)
  PROVE  Survives(T, m, t)'
<1> USE SourcesAreNumbered
<1>t. /\ fd \in [Procs -> [Sources -> Inodes \cup {NoFile}]]
      /\ pc \in [Procs -> {"down", "open", "flock", "run", "undo", "removeUndo",
                           "unlock", "remove", "refused"}]
      /\ TypeOK
  BY DEF LockInv, TypeOK, Sources
<1>0. PICK k \in Sources : k = at[p]
  BY HeldAfter
<1>o. ASSUME NEW q \in Procs \ {p}
      PROVE  fd'[q] = fd[q] /\ pc'[q] = pc[q] /\ at'[q] = at[q] /\ Held(q)' = Held(q)
  BY <1>t, OthersStay DEF LockAction
<1>1. Start(p) \/ Flock(p) \/ Stop(p) => ~Undoing(p)' /\ fd' = fd
  BY <1>t DEF Start, Flock, Stop, Goto, Undoing
<1>2. Unlock(p) =>
        /\ fd' = [fd EXCEPT ![p][k] = NoFile] /\ Held(p)' = Held(p) \ {k}
        /\ pc[p] \in {"undo", "unlock"} /\ (pc[p] = "unlock" => pc'[p] = "remove")
        /\ at' = at
  <2> SUFFICES ASSUME Unlock(p)
               PROVE  /\ fd' = [fd EXCEPT ![p][k] = NoFile] /\ Held(p)' = Held(p) \ {k}
                      /\ pc[p] \in {"undo", "unlock"} /\ (pc[p] = "unlock" => pc'[p] = "remove")
                      /\ at' = at
    OBVIOUS
  <2>1. Held(p)' = Held(p) \ {k}
    BY <1>0, HeldAfter
  <2>2. pc[p] = "unlock" => pc'[p] = "remove"
    <3>1. pc[p] = "unlock" => pc' = [pc EXCEPT ![p] = "remove"]
      BY DEF Unlock, Undone, Goto
    <3> QED BY <1>t, <3>1
  <2>3. /\ fd' = [fd EXCEPT ![p][k] = NoFile] /\ at' = at
        /\ pc[p] \in {"undo", "unlock"}
    BY <1>0 DEF Unlock, Undone, Path
  <2> QED BY <2>1, <2>2, <2>3
<1>3. UNCHANGED <<dir, created>>
  BY DEF Start, Flock, Stop, Unlock
<1>4. \A q \in Procs, i \in Sources : fd'[q][i] \in {fd[q][i], NoFile}
  <2>1. fd' = fd \/ fd' = [fd EXCEPT ![p][k] = NoFile]
    BY <1>1, <1>2
  <2>2. CASE fd' = fd
    BY <2>2
  <2>3. CASE fd' = [fd EXCEPT ![p][k] = NoFile]
    <3>1. \A q \in Procs, i \in Sources :
            fd'[q][i] = IF q = p /\ i = k THEN NoFile ELSE fd[q][i]
      BY <1>t, <2>3
    <3> QED BY <3>1
  <2> QED BY <2>1, <2>2, <2>3
<1>5. Passed(T, m)'
  <2>1. CASE T # p
    BY <1>o, <2>1 DEF Survives, Passed, Undoing
  <2>2. CASE T = p /\ (Start(p) \/ Flock(p) \/ Stop(p))
    <3>1. Held(p) \subseteq Held(p)' /\ pc'[p] # "refused" /\ pc[p] # "remove"
      BY <1>t, <2>2, HeldAfter DEF Start, Flock, Stop, Goto
    <3> QED BY <1>1, <2>2, <3>1 DEF Survives, Passed
  <2>3. CASE T = p /\ Unlock(p)
    <3>1. pc[p] = "unlock"
      BY <1>2, <2>3 DEF Survives, Passed, Undoing
    <3>2. pc'[p] = "remove" /\ at'[p] = k /\ \A i \in Held(p) : i \in Held(p)' \/ i = k
      BY <1>0, <1>2, <2>3, <3>1
    <3> QED BY <2>3, <3>1, <3>2 DEF Survives, Passed, Undoing
  <2> QED BY <2>1, <2>2, <2>3
<1>6. OldGiveUp(m, t)'
  <2>1. ASSUME NEW i \in Sources, Undoing(p)', i \in Held(p)', i > m
        PROVE  ~Newer(fd'[p][i], i, t)
    <3>1. Unlock(p)
      BY <1>1, <2>1
    <3>2. pc[p] = "undo"
      BY <1>2, <2>1, <3>1 DEF Undoing
    <3>3. i \in Held(p) /\ fd'[p][i] = fd[p][i]
      BY <1>t, <1>2, <2>1, <3>1
    <3> QED BY <2>1, <3>2, <3>3 DEF Survives, OldGiveUp, Undoing
  <2> QED BY <1>o, <2>1, NobodyElseGivesUp DEF Survives
<1> QED BY <1>3, <1>4, <1>5, <1>6, SurvivesKept

(* Every step of the lock protocol leaves a survivor. *)
LEMMA SurvivorStep ==
  ASSUME LockInv, Ledger, Survivor, NEW p \in Procs, LockAction(p)
  PROVE  Survivor'
<1> SUFFICES ASSUME faults' = 0
             PROVE  \E T \in Procs, m \in 0..Len(Paths), t \in Dates : Survives(T, m, t)'
  BY DEF Survivor
<1>1. faults \in Nat
  BY LockBoundAssumption DEF LockInv, TypeOK
<1>2. ~FlockFails(p) /\ ~Crash(p) /\ faults = 0
  BY <1>1 DEF LockAction, FlockFails, Crash, Fault, Start, Open, Flock, FlockRefused, Stop,
              Unlock, Remove
<1>3. PICK T \in Procs, m \in 0..Len(Paths), t \in Dates : Survives(T, m, t)
  BY <1>2 DEF Survivor
<1>4. CASE Start(p) \/ Flock(p) \/ Stop(p) \/ Unlock(p)
  BY <1>3, <1>4, OthersSurvive
<1>5. CASE Open(p)
  BY <1>3, <1>5, OpenSurvives
<1>6. CASE Remove(p)
  BY <1>3, <1>6, RemoveSurvives
<1>7. CASE FlockRefused(p)
  BY <1>3, <1>7, RefusedSurvives
<1> QED BY <1>2, <1>4, <1>5, <1>6, <1>7 DEF LockAction

(* There is one at first. *)
LEMMA SurvivorAtFirst ==
  ASSUME Init, Procs # {}
  PROVE  Survivor
<1> USE SourcesAreNumbered, LockBoundAssumption
<1> DEFINE t == [i \in Sources |-> 0]
<1>1. PICK T \in Procs : TRUE
  OBVIOUS
<1>2. t \in Dates /\ 0 \in 0..Len(Paths)
  BY DEF Dates
<1>3. /\ \A p \in Procs, i \in Sources : fd[p][i] = NoFile
      /\ \A i \in Sources : dir[i] = NoFile
      /\ \A p \in Procs : pc[p] = "down"
      /\ created = 0
  BY DEF Init, Sources
<1>4. Survives(T, 0, t)
  <2>1. Passed(T, 0)
    BY <1>3 DEF Passed, Undoing
  <2>2. NewBeyond(T, 0, t)
    BY <1>3 DEF NewBeyond
  <2>3. OldGiveUp(0, t)
    BY <1>3 DEF OldGiveUp, Undoing
  <2>4. Dated(t)
    BY <1>3 DEF Dated
  <2> QED BY <2>1, <2>2, <2>3, <2>4 DEF Survives
<1> HIDE DEF t
<1> QED BY <1>2, <1>4 DEF Survivor


-----------------------------------------------------------------------------
(* A route that was not started is sound wherever its process is, *)
LEMMA FreshIsSound ==
  ASSUME NEW place
  PROVE  Fresh \in RouteType /\ Sound(Fresh, place)
<1>1. Off \in [Sources -> {"off"}]
  BY DEF Off
<1>2. Fresh \in RouteType
  BY <1>1, SourcesAreNumbered DEF Fresh, RouteType
<1>3. /\ \A i \in Sources : Fresh.loop[i] = "off" /\ Fresh.ingress[i] = "off"
                              /\ Fresh.worker[i] = "off"
      /\ Fresh.cancelled = FALSE /\ Fresh.reported = FALSE
  BY <1>1 DEF Fresh
<1> QED BY <1>2, <1>3 DEF Sound

(* and so is one whose command was chosen. *)
LEMMA StartedIsSound ==
  ASSUME NEW c \in {"run", "once", "debug"}, NEW place
  PROVE  [Fresh EXCEPT !.command = c] \in RouteType /\ Sound([Fresh EXCEPT !.command = c], place)
<1> DEFINE r == [Fresh EXCEPT !.command = c]
<1>1. Fresh \in RouteType /\ Sound(Fresh, place)
  BY FreshIsSound
<1>2. r \in RouteType
  BY <1>1 DEF RouteType
<1>3. /\ r.phase = Fresh.phase /\ r.stop = Fresh.stop /\ r.cancelled = Fresh.cancelled
      /\ r.reported = Fresh.reported /\ r.loop = Fresh.loop /\ r.ingress = Fresh.ingress
      /\ r.worker = Fresh.worker
  BY <1>1 DEF RouteType
<1> HIDE DEF r
<1>4. Sound(r, place)
  BY <1>1, <1>3 DEF Sound
<1> QED BY <1>2, <1>4 DEF r

(* A step that gives p a sound route keeps the invariant of all. *)
LEMMA SetKeeps ==
  ASSUME RouteInv, TypeOK, NEW p \in Procs, NEW r \in RouteType, Set(p, r),
         \A q \in Procs \ {p} : pc'[q] = pc[q],
         Sound(r, pc'[p])
  PROVE  RouteInv'
<1>1. /\ route' \in [Procs -> RouteType]
      /\ route'[p] = r
      /\ \A q \in Procs \ {p} : route'[q] = route[q]
  BY DEF RouteInv, RouteTypeOK, Set
<1>2. ASSUME NEW q \in Procs PROVE Sound(route'[q], pc'[q])
  BY <1>1 DEF RouteInv
<1> QED BY <1>1, <1>2 DEF RouteInv, RouteTypeOK, Sound
(* The steps of the main goroutine between Flock and Stop. *)
LEMMA MainKeepsRoute ==
  ASSUME RouteInv, TypeOK, NEW p \in Procs,
         Signal(p) \/ Build(p) \/ BuildFails(p) \/ First(p) \/ FirstFails(p) \/ Wake(p)
           \/ Drained(p)
  PROVE  RouteInv'
<1> USE DEF Keep, KeepButFaults, vars
<1>r. route[p] \in RouteType
  BY DEF RouteInv, RouteTypeOK
<1>s. Sound(route[p], pc[p])
  BY DEF RouteInv
<1>n. Len(Paths) \in Nat /\ route[p].turn \in 1..Len(Paths)
  BY <1>r, SourcesAreNumbered DEF RouteType
<1>1. CASE Signal(p)
  <2> DEFINE r == [route[p] EXCEPT !.stop = TRUE]
  <2>1. Set(p, r) /\ pc'[p] = pc[p] /\ \A q \in Procs \ {p} : pc'[q] = pc[q]
    BY <1>1 DEF Signal
  <2>2. r \in RouteType
    BY <1>1, <1>r DEF Signal, RouteType
  <2>3. Sound(r, pc[p])
    BY <1>1, <1>r, <1>s DEF Signal, RouteType, Sound
  <2> HIDE DEF r
  <2> QED BY <2>1, <2>2, <2>3, SetKeeps
<1>2. CASE Build(p) /\ route[p].command = "debug"
  <2> DEFINE r == [route[p] EXCEPT !.phase = "end"]
  <2>1. Set(p, r) /\ pc'[p] = pc[p] /\ \A q \in Procs \ {p} : pc'[q] = pc[q]
    BY <1>2 DEF Build
  <2>2. r \in RouteType
    BY <1>2, <1>r DEF Build, RouteType
  <2>3. Sound(r, pc[p])
    BY <1>2, <1>r, <1>s DEF Build, RouteType, Sound
  <2> HIDE DEF r
  <2> QED BY <2>1, <2>2, <2>3, SetKeeps
<1>3. CASE Build(p) /\ route[p].command # "debug"
  <2> DEFINE r == [route[p] EXCEPT !.phase = "first"]
  <2>1. Set(p, r) /\ pc'[p] = pc[p] /\ \A q \in Procs \ {p} : pc'[q] = pc[q]
    BY <1>3 DEF Build
  <2>2. r \in RouteType
    BY <1>3, <1>r DEF Build, RouteType
  <2>3. Sound(r, pc[p])
    BY <1>3, <1>r, <1>s DEF Build, RouteType, Sound
  <2> HIDE DEF r
  <2> QED BY <2>1, <2>2, <2>3, SetKeeps
<1>4. CASE BuildFails(p)
  <2> DEFINE r == [route[p] EXCEPT !.phase = "end"]
  <2>1. Set(p, r) /\ pc'[p] = pc[p] /\ \A q \in Procs \ {p} : pc'[q] = pc[q]
    BY <1>4 DEF BuildFails, Erring
  <2>2. r \in RouteType
    BY <1>4, <1>r DEF BuildFails, Erring, RouteType
  <2>3. Sound(r, pc[p])
    BY <1>4, <1>r, <1>s DEF BuildFails, Erring, RouteType, Sound
  <2> HIDE DEF r
  <2> QED BY <2>1, <2>2, <2>3, SetKeeps
<1>5. CASE First(p) /\ route[p].turn < Len(Paths)
  <2> DEFINE r == [route[p] EXCEPT !.turn = @ + 1]
  <2>1. Set(p, r) /\ pc'[p] = pc[p] /\ \A q \in Procs \ {p} : pc'[q] = pc[q]
    BY <1>5, <1>n DEF First
  <2>2. r \in RouteType
    <3>1. route[p].turn + 1 \in Sources
      BY <1>5, <1>n, SourcesAreNumbered
    <3> QED BY <1>r, <3>1 DEF RouteType
  <2>3. Sound(r, pc[p])
    BY <1>5, <1>r, <1>s DEF First, RouteType, Sound
  <2> HIDE DEF r
  <2> QED BY <2>1, <2>2, <2>3, SetKeeps
<1>6. CASE First(p) /\ route[p].turn >= Len(Paths) /\ route[p].command = "once"
  <2> DEFINE r == [route[p] EXCEPT !.phase = "end"]
  <2>1. Set(p, r) /\ pc'[p] = pc[p] /\ \A q \in Procs \ {p} : pc'[q] = pc[q]
    BY <1>6, <1>n DEF First
  <2>2. r \in RouteType
    BY <1>6, <1>r DEF First, RouteType
  <2>3. Sound(r, pc[p])
    BY <1>6, <1>r, <1>s DEF First, RouteType, Sound
  <2> HIDE DEF r
  <2> QED BY <2>1, <2>2, <2>3, SetKeeps
<1>7. CASE First(p) /\ route[p].turn >= Len(Paths) /\ route[p].command # "once"
  <2> DEFINE r == Looping(route[p])
  <2>1. Set(p, r) /\ pc'[p] = pc[p] /\ \A q \in Procs \ {p} : pc'[q] = pc[q]
    BY <1>7, <1>n DEF First
  <2> DEFINE push(x) == [i \in Sources |-> IF Mode[i] = "push" THEN x ELSE "off"]
  <2>a. r = [route[p] EXCEPT !.phase = "loops", !.loop = [i \in Sources |-> "wait"],
                             !.ingress = push("up"), !.worker = push("up")]
    BY DEF Looping
  <2>b. push("up") \in [Sources -> {"off", "up", "failed", "gone"}]
    OBVIOUS
  <2>2. r \in RouteType
    <3> DEFINE u == push("up")
               w == [i \in Sources |-> "wait"]
    <3>1. u \in [Sources -> {"off", "up", "failed", "gone"}]
      BY <2>b
    <3>2. w \in [Sources -> {"off", "wait", "cycle", "gone"}]
      OBVIOUS
    <3>3. r = [route[p] EXCEPT !.phase = "loops", !.loop = w, !.ingress = u, !.worker = u]
      BY <2>a
    <3> HIDE DEF u, w, r
    <3> QED BY <1>r, <3>1, <3>2, <3>3 DEF RouteType
  <2>c. /\ pc[p] = "run" /\ r.phase = "loops" /\ r.ingress = push("up") /\ r.worker = push("up")
        /\ route[p].stop = r.stop /\ route[p].cancelled = r.cancelled
        /\ route[p].reported = r.reported
    BY <1>7, <1>r, <2>a DEF First, RouteType
  <2>3. Sound(r, pc[p])
    BY <1>7, <1>s, <2>c DEF First, Sound
  <2> HIDE DEF r
  <2> QED BY <2>1, <2>2, <2>3, SetKeeps
<1>8. CASE FirstFails(p)
  <2> DEFINE r == [route[p] EXCEPT !.phase = "end"]
  <2>1. Set(p, r) /\ pc'[p] = pc[p] /\ \A q \in Procs \ {p} : pc'[q] = pc[q]
    BY <1>8 DEF FirstFails, Erring
  <2>2. r \in RouteType
    BY <1>8, <1>r DEF FirstFails, Erring, RouteType
  <2>3. Sound(r, pc[p])
    BY <1>8, <1>r, <1>s DEF FirstFails, Erring, RouteType, Sound
  <2> HIDE DEF r
  <2> QED BY <2>1, <2>2, <2>3, SetKeeps
<1>9. CASE Wake(p)
  <2> DEFINE r == [route[p] EXCEPT !.cancelled = TRUE, !.phase = "drain"]
  <2>1. Set(p, r) /\ pc'[p] = pc[p] /\ \A q \in Procs \ {p} : pc'[q] = pc[q]
    BY <1>9 DEF Wake, Woken
  <2>2. r \in RouteType
    BY <1>9, <1>r DEF Wake, Woken, RouteType
  <2>3. Sound(r, pc[p])
    BY <1>9, <1>r, <1>s DEF Wake, Woken, RouteType, Sound
  <2> HIDE DEF r
  <2> QED BY <2>1, <2>2, <2>3, SetKeeps
<1>10. CASE Drained(p)
  <2> DEFINE r == [route[p] EXCEPT !.phase = "end"]
  <2>1. Set(p, r) /\ pc'[p] = pc[p] /\ \A q \in Procs \ {p} : pc'[q] = pc[q]
    BY <1>10 DEF Drained
  <2>2. r \in RouteType
    BY <1>10, <1>r DEF Drained, RouteType
  <2>3. Sound(r, pc[p])
    BY <1>10, <1>r, <1>s DEF Drained, RouteType, Sound
  <2> HIDE DEF r
  <2> QED BY <2>1, <2>2, <2>3, SetKeeps
<1> QED BY <1>n, <1>1, <1>2, <1>3, <1>4, <1>5, <1>6, <1>7, <1>8, <1>9, <1>10

(* The steps of the goroutines of a source. *)
LEMMA SourceKeepsRoute ==
  ASSUME RouteInv, TypeOK, NEW p \in Procs, NEW i \in Sources,
         Tick(p, i) \/ Cycled(p, i) \/ CycleFails(p, i) \/ LoopEnds(p, i) \/ WorkerFails(p, i)
           \/ WorkerEnds(p, i) \/ IngressFails(p, i) \/ IngressEnds(p, i) \/ ExecutorFails(p, i)
           \/ ExecutorEnds(p, i)
  PROVE  RouteInv'
<1> USE DEF Keep, KeepButFaults, vars
<1>r. route[p] \in RouteType
  BY DEF RouteInv, RouteTypeOK
<1>s. Sound(route[p], pc[p])
  BY DEF RouteInv
<1>1. CASE Tick(p, i)
  <2> DEFINE r == [route[p] EXCEPT !.loop[i] = "cycle"]
  <2>1. Set(p, r) /\ pc'[p] = pc[p] /\ \A q \in Procs \ {p} : pc'[q] = pc[q]
    BY <1>1 DEF Tick
  <2>2. r \in RouteType
    BY <1>1, <1>r DEF Tick, RouteType
  <2>3. Sound(r, pc[p])
    BY <1>1, <1>r, <1>s DEF Tick, RouteType, Sound
  <2> HIDE DEF r
  <2> QED BY <2>1, <2>2, <2>3, SetKeeps
<1>2. CASE Cycled(p, i)
  <2> DEFINE r == [route[p] EXCEPT !.loop[i] = "wait"]
  <2>1. Set(p, r) /\ pc'[p] = pc[p] /\ \A q \in Procs \ {p} : pc'[q] = pc[q]
    BY <1>2 DEF Cycled
  <2>2. r \in RouteType
    BY <1>2, <1>r DEF Cycled, RouteType
  <2>3. Sound(r, pc[p])
    BY <1>2, <1>r, <1>s DEF Cycled, RouteType, Sound
  <2> HIDE DEF r
  <2> QED BY <2>1, <2>2, <2>3, SetKeeps
<1>3. CASE CycleFails(p, i)
  <2> DEFINE r == [route[p] EXCEPT !.loop[i] = "wait"]
  <2>1. Set(p, r) /\ pc'[p] = pc[p] /\ \A q \in Procs \ {p} : pc'[q] = pc[q]
    BY <1>3 DEF CycleFails, Retried
  <2>2. r \in RouteType
    BY <1>3, <1>r DEF CycleFails, Retried, RouteType
  <2>3. Sound(r, pc[p])
    BY <1>3, <1>r, <1>s DEF CycleFails, Retried, RouteType, Sound
  <2> HIDE DEF r
  <2> QED BY <2>1, <2>2, <2>3, SetKeeps
<1>4. CASE LoopEnds(p, i)
  <2> DEFINE r == [route[p] EXCEPT !.loop[i] = "gone"]
  <2>1. Set(p, r) /\ pc'[p] = pc[p] /\ \A q \in Procs \ {p} : pc'[q] = pc[q]
    BY <1>4 DEF LoopEnds
  <2>2. r \in RouteType
    BY <1>4, <1>r DEF LoopEnds, RouteType
  <2>3. Sound(r, pc[p])
    BY <1>4, <1>r, <1>s DEF LoopEnds, RouteType, Sound
  <2> HIDE DEF r
  <2> QED BY <2>1, <2>2, <2>3, SetKeeps
<1>5. CASE WorkerFails(p, i)
  <2> DEFINE r == [route[p] EXCEPT !.worker[i] = "failed"]
  <2>1. Set(p, r) /\ pc'[p] = pc[p] /\ \A q \in Procs \ {p} : pc'[q] = pc[q]
    BY <1>5 DEF WorkerFails, Erring
  <2>2. r \in RouteType
    BY <1>5, <1>r DEF WorkerFails, Erring, RouteType
  <2>3. Sound(r, pc[p])
    BY <1>5, <1>r, <1>s DEF WorkerFails, Erring, RouteType, Sound
  <2> HIDE DEF r
  <2> QED BY <2>1, <2>2, <2>3, SetKeeps
<1>6. CASE WorkerEnds(p, i)
  <2> DEFINE r == [route[p] EXCEPT !.worker[i] = "gone"]
  <2>1. Set(p, r) /\ pc'[p] = pc[p] /\ \A q \in Procs \ {p} : pc'[q] = pc[q]
    BY <1>6 DEF WorkerEnds
  <2>2. r \in RouteType
    BY <1>6, <1>r DEF WorkerEnds, RouteType
  <2>3. Sound(r, pc[p])
    BY <1>6, <1>r, <1>s DEF WorkerEnds, RouteType, Sound
  <2> HIDE DEF r
  <2> QED BY <2>1, <2>2, <2>3, SetKeeps
<1>7. CASE IngressFails(p, i)
  <2> DEFINE r == [route[p] EXCEPT !.ingress[i] = "failed"]
  <2>1. Set(p, r) /\ pc'[p] = pc[p] /\ \A q \in Procs \ {p} : pc'[q] = pc[q]
    BY <1>7 DEF IngressFails, Erring
  <2>2. r \in RouteType
    BY <1>7, <1>r DEF IngressFails, Erring, RouteType
  <2>3. Sound(r, pc[p])
    BY <1>7, <1>r, <1>s DEF IngressFails, Erring, RouteType, Sound
  <2> HIDE DEF r
  <2> QED BY <2>1, <2>2, <2>3, SetKeeps
<1>8. CASE IngressEnds(p, i)
  <2> DEFINE r == [route[p] EXCEPT !.ingress[i] = "gone"]
  <2>1. Set(p, r) /\ pc'[p] = pc[p] /\ \A q \in Procs \ {p} : pc'[q] = pc[q]
    BY <1>8 DEF IngressEnds
  <2>2. r \in RouteType
    BY <1>8, <1>r DEF IngressEnds, RouteType
  <2>3. Sound(r, pc[p])
    BY <1>8, <1>r, <1>s DEF IngressEnds, RouteType, Sound
  <2> HIDE DEF r
  <2> QED BY <2>1, <2>2, <2>3, SetKeeps
<1>9. CASE ExecutorFails(p, i)
  <2> DEFINE r == [route[p] EXCEPT !.loop[i] = "gone", !.reported = TRUE, !.cancelled = TRUE]
  <2>1. Set(p, r) /\ pc'[p] = pc[p] /\ \A q \in Procs \ {p} : pc'[q] = pc[q]
    BY <1>9 DEF ExecutorFails, Failed
  <2>2. r \in RouteType
    BY <1>9, <1>r DEF ExecutorFails, Failed, RouteType
  <2>3. Sound(r, pc[p])
    BY <1>9, <1>r, <1>s DEF ExecutorFails, Failed, RouteType, Sound
  <2> HIDE DEF r
  <2> QED BY <2>1, <2>2, <2>3, SetKeeps
<1>10. CASE ExecutorEnds(p, i)
  <2> DEFINE r == [route[p] EXCEPT !.loop[i] = "gone"]
  <2>1. Set(p, r) /\ pc'[p] = pc[p] /\ \A q \in Procs \ {p} : pc'[q] = pc[q]
    BY <1>10 DEF ExecutorEnds
  <2>2. r \in RouteType
    BY <1>10, <1>r DEF ExecutorEnds, RouteType
  <2>3. Sound(r, pc[p])
    BY <1>10, <1>r, <1>s DEF ExecutorEnds, RouteType, Sound
  <2> HIDE DEF r
  <2> QED BY <2>1, <2>2, <2>3, SetKeeps
<1> QED BY <1>1, <1>2, <1>3, <1>4, <1>5, <1>6, <1>7, <1>8, <1>9, <1>10

-----------------------------------------------------------------------------
(* A step of RouteNext is one of RunLock, with a route that goes along with *)
(* it, or one of a route that leaves the locks alone.                       *)
LEMMA Step ==
  ASSUME LockInv, RouteInv, [RouteNext]_allVars
  PROVE  LockInv' /\ RouteInv'
<1> USE DEF Keep, KeepButFaults
<1>t. TypeOK
  BY DEF LockInv
<1>1. ASSUME NEW p \in Procs, Begin(p) \/ Locking(p) \/ Die(p)
      PROVE  LockInv' /\ RouteInv'
  <2>1. LockInv'
    BY <1>1, LockStep DEF Begin, Locking, Die
  <2>2. Locking(p) => pc[p] # "run"
    BY <1>1 DEF Locking, Open, Flock, FlockRefused, FlockFails, Unlock, Undone, Remove
  <2>3. \A q \in Procs \ {p} : pc'[q] = pc[q]
    BY <1>1, <1>t DEF TypeOK, Begin, Start, Locking, Open, Flock, FlockRefused, FlockFails, GiveUp,
                      Unlock, Undone, Remove, Die, Crash, Goto
  <2>4. CASE Begin(p)
    <3> PICK c \in Commands[p] : Set(p, [Fresh EXCEPT !.command = c])
      BY <2>4 DEF Begin
    <3>1. c \in {"run", "once", "debug"}
      BY CommandsAssumption
    <3> QED BY <1>t, <2>1, <2>3, <3>1, StartedIsSound, SetKeeps
  <2>5. CASE Set(p, Fresh)
    BY <1>t, <2>1, <2>3, <2>5, FreshIsSound, SetKeeps
  <2>6. CASE Locking(p) /\ UNCHANGED route
    <3>1. ASSUME NEW q \in Procs PROVE Sound(route[q], pc'[q])
      BY <2>2, <2>3, <2>6, <3>1 DEF RouteInv, Sound
    <3> QED BY <2>1, <2>6, <3>1 DEF RouteInv, RouteTypeOK
  <2> QED BY <1>1, <2>4, <2>5, <2>6 DEF Locking, Die
<1>2. ASSUME NEW p \in Procs, End(p)
      PROVE  LockInv' /\ RouteInv'
  <2>1. LockInv'
    BY <1>2, LockStep DEF End
  <2>2. \A q \in Procs \ {p} : pc'[q] = pc[q]
    BY <1>2, <1>t DEF TypeOK, End, Stop, Goto
  <2>3. ASSUME NEW q \in Procs PROVE Sound(route[q], pc'[q])
    BY <1>2, <2>2, <2>3 DEF RouteInv, Sound, End
  <2> QED BY <1>2, <2>1, <2>3 DEF End, RouteInv, RouteTypeOK
<1>3. ASSUME UNCHANGED <<dir, holder, created, fd, pc, at>>, faults' \in 0..MaxFaults
      PROVE  LockInv'
  BY <1>3 DEF LockInv, TypeOK, OnePathEach, HeldIsLocked, Held, Places
<1>4. faults \in 0..MaxFaults
  BY <1>t DEF TypeOK
<1>5. ASSUME NEW p \in Procs,
             Signal(p) \/ Build(p) \/ BuildFails(p) \/ First(p) \/ FirstFails(p) \/ Wake(p)
               \/ Drained(p)
      PROVE  LockInv' /\ RouteInv'
  <2>1. UNCHANGED <<dir, holder, created, fd, pc, at>> /\ faults' \in 0..MaxFaults
    BY <1>4, <1>5, LockBoundAssumption
       DEF Signal, Build, BuildFails, First, FirstFails, Wake, Drained, Erring, Fault, vars
  <2> QED BY <1>3, <1>5, <1>t, <2>1, MainKeepsRoute
<1>6. ASSUME NEW p \in Procs, NEW i \in Sources,
             Tick(p, i) \/ Cycled(p, i) \/ CycleFails(p, i) \/ LoopEnds(p, i)
               \/ WorkerFails(p, i) \/ WorkerEnds(p, i) \/ IngressFails(p, i)
               \/ IngressEnds(p, i) \/ ExecutorFails(p, i) \/ ExecutorEnds(p, i)
      PROVE  LockInv' /\ RouteInv'
  <2>1. UNCHANGED <<dir, holder, created, fd, pc, at>> /\ faults' \in 0..MaxFaults
    BY <1>4, <1>6, LockBoundAssumption
       DEF Tick, Cycled, CycleFails, LoopEnds, WorkerFails, WorkerEnds, IngressFails, IngressEnds,
           ExecutorFails, ExecutorEnds, Erring, Fault, vars
  <2> QED BY <1>3, <1>6, <1>t, <2>1, SourceKeepsRoute
<1>7. ASSUME UNCHANGED allVars
      PROVE  LockInv' /\ RouteInv'
  BY <1>7 DEF allVars, vars, LockInv, TypeOK, OnePathEach, HeldIsLocked, Held, Places, RouteInv,
              RouteTypeOK
<1> QED BY <1>1, <1>2, <1>5, <1>6, <1>7 DEF RouteNext, MainStep, SourceStep

-----------------------------------------------------------------------------
(* Locks and routes are sound together. *)
LEMMA Invariant == RouteSpec => [](LockInv /\ RouteInv)
<1>1. RouteInit => LockInv /\ RouteInv
  <2>1. ASSUME RouteInit PROVE RouteInv
    <3>1. \A p \in Procs : Fresh \in RouteType /\ Sound(Fresh, pc[p])
      BY FreshIsSound
    <3> QED BY <2>1, <3>1 DEF RouteInit, RouteInv, RouteTypeOK
  <2> QED BY <2>1, LockInitially DEF RouteInit
<1>2. LockInv /\ RouteInv /\ [RouteNext]_allVars => (LockInv /\ RouteInv)'
  BY Step
<1> QED BY <1>1, <1>2, PTL DEF RouteSpec

(* Only the steps of the locks change the locks; the others may fail.       *)
LEMMA LocksMove ==
  ASSUME TypeOK, [RouteNext]_allVars
  PROVE  \/ \E p \in Procs : LockAction(p)
         \/ UNCHANGED <<dir, holder, created, fd, pc, at>> /\ (faults' = 0 => faults = 0)
<1> USE DEF Keep, KeepButFaults
<1>1. faults \in Nat
  BY LockBoundAssumption DEF TypeOK
<1>2. ASSUME NEW p \in Procs, Begin(p) \/ Locking(p) \/ Die(p) \/ End(p)
      PROVE  LockAction(p)
  BY <1>2 DEF Begin, Locking, Die, End, LockAction
<1>3. ASSUME NEW p \in Procs,
             Signal(p) \/ Build(p) \/ BuildFails(p) \/ First(p) \/ FirstFails(p) \/ Wake(p)
               \/ Drained(p)
      PROVE  UNCHANGED <<dir, holder, created, fd, pc, at>> /\ (faults' = 0 => faults = 0)
  BY <1>1, <1>3
     DEF Signal, Build, BuildFails, First, FirstFails, Wake, Drained, Erring, Fault, vars
<1>4. ASSUME NEW p \in Procs, NEW i \in Sources,
             SourceStep(p, i) \/ Tick(p, i) \/ CycleFails(p, i) \/ LoopEnds(p, i)
               \/ WorkerFails(p, i) \/ IngressFails(p, i)
      PROVE  UNCHANGED <<dir, holder, created, fd, pc, at>> /\ (faults' = 0 => faults = 0)
  BY <1>1, <1>4
     DEF SourceStep, Tick, Cycled, CycleFails, LoopEnds, WorkerFails, WorkerEnds, IngressFails,
         IngressEnds, ExecutorFails, ExecutorEnds, Erring, Fault, vars
<1>5. ASSUME UNCHANGED allVars
      PROVE  UNCHANGED <<dir, holder, created, fd, pc, at>> /\ (faults' = 0 => faults = 0)
  BY <1>5 DEF allVars, vars
<1> QED BY <1>2, <1>3, <1>4, <1>5 DEF RouteNext, MainStep

(* Ledger holds. *)
LEMMA LedgerInvariant == RouteSpec => []Ledger
<1>1. RouteInit => Ledger
  BY SourcesAreNumbered, SentinelAssumption DEF RouteInit, Init, Ledger, Sources, Inodes
<1>2. LockInv /\ Ledger /\ [RouteNext]_allVars => Ledger'
  <2> SUFFICES ASSUME LockInv, Ledger, [RouteNext]_allVars PROVE Ledger'
    OBVIOUS
  <2>1. CASE \E p \in Procs : LockAction(p)
    BY <2>1, LedgerStep
  <2>2. CASE UNCHANGED <<dir, holder, created, fd, pc, at>>
    BY <2>2 DEF Ledger, Held
  <2> QED BY <2>1, <2>2, LocksMove DEF LockInv
<1>3. RouteSpec => []LockInv
  BY Invariant, PTL
<1> QED BY <1>1, <1>2, <1>3, PTL DEF RouteSpec

(* The lock state of every process is well-formed: it holds the flocks of   *)
(* the paths it has passed, on files that have one path each, whatever      *)
(* files the others create and remove (acquireRouteLocks).                  *)
THEOREM LocksAreHeld == RouteSpec => []LockInv
BY Invariant, PTL

(* Loops run inside the locks only, and a cancelled route has its cause     *)
(* (runRouteLoops).                                                         *)
THEOREM RoutesAreSound == RouteSpec => []RouteInv
BY Invariant, PTL

(* What a route does from its first build to the last cycle of its last     *)
(* loop, it does with all its locks: WorkIsLocked (run.go).                 *)
THEOREM WorkNeedsLocks == RouteSpec => []WorkIsLocked
<1>1. LockInv /\ RouteInv => WorkIsLocked
  <2> SUFFICES ASSUME LockInv, RouteInv, NEW p \in Procs, NEW i \in Sources,
                      pc[p] = "run" \/ \E j \in Sources : route[p].loop[j] = "cycle"
               PROVE  fd[p][i] # NoFile /\ holder[fd[p][i]] = p
    BY DEF WorkIsLocked, HasLocks
  <2>1. pc[p] = "run"
    BY DEF RouteInv, Sound
  <2> QED BY <2>1 DEF LockInv, HeldIsLocked, Held
<1> QED BY <1>1, LocksAreHeld, RoutesAreSound, PTL

(* A loop of a route ends for a signal or a failed push source only:        *)
(* PollErrorsAreLocal (runRouteLoops).                                      *)
THEOREM PollErrorsStayLocal == RouteSpec => PollErrorsAreLocal
<1> DEFINE Local == \A p \in Procs : \A i \in Sources :
       route[p].loop[i] \in {"wait", "cycle"} /\ Up(p)' /\ route'[p].loop[i] = "gone" =>
         route[p].stop \/ \E j \in Sources : Mode[j] = "push" /\ Failed(p, j)
<1>1. ASSUME LockInv, RouteInv, RouteNext PROVE Local
  <2> SUFFICES ASSUME NEW p \in Procs, NEW i \in Sources,
                      route[p].loop[i] \in {"wait", "cycle"}, Up(p)', route'[p].loop[i] = "gone"
               PROVE  route[p].stop \/ \E j \in Sources : Mode[j] = "push" /\ Failed(p, j)
    OBVIOUS
  <2> USE DEF Set
  <2>1. /\ pc[p] = "run" /\ route[p].phase \in {"loops", "drain"}
        /\ route \in [Procs -> RouteType] /\ route[p] \in RouteType
        /\ route[p].cancelled \/ route[p].reported => 
             route[p].stop \/ \E j \in Sources : Mode[j] = "push" /\ Failed(p, j)
    BY <1>1 DEF RouteInv, RouteTypeOK, Sound, Failed
  <2>2. ~Begin(p) /\ ~Locking(p) /\ ~Die(p) /\ ~End(p)
    BY <1>1, <2>1 DEF LockInv, TypeOK, Begin, Start, Locking, Open, Flock, FlockRefused, FlockFails,
                Unlock, Undone, Remove, Die, Crash, Goto, Up, End
  <2>3. ASSUME Signal(p) \/ Build(p) \/ BuildFails(p) \/ First(p) \/ FirstFails(p) \/ Wake(p)
                 \/ Drained(p)
        PROVE  FALSE
    <3>1. CASE Build(p) \/ BuildFails(p) \/ First(p) \/ FirstFails(p)
      BY <2>1, <3>1 DEF Build, BuildFails, First, FirstFails
    <3>2. CASE Signal(p) \/ Wake(p) \/ Drained(p)
      <4>1. CASE Signal(p)
        BY <2>1, <4>1 DEF Signal, RouteType
      <4>2. CASE Wake(p)
        BY <2>1, <4>2 DEF Wake, Woken, RouteType
      <4>3. CASE Drained(p)
        BY <2>1, <4>3 DEF Drained
      <4> QED BY <3>2, <4>1, <4>2, <4>3
    <3> QED BY <2>3, <3>1, <3>2
  <2>4. ASSUME NEW q \in Procs \ {p},
               \/ Begin(q) \/ MainStep(q) \/ BuildFails(q) \/ FirstFails(q) \/ Signal(q) \/ Die(q)
               \/ \E j \in Sources :
                    \/ SourceStep(q, j) \/ Tick(q, j) \/ CycleFails(q, j) \/ LoopEnds(q, j)
                    \/ WorkerFails(q, j) \/ IngressFails(q, j)
        PROVE  FALSE
    <3>1. route'[p] = route[p]
      BY <2>1, <2>4
         DEF Begin, MainStep, Locking, Build, First, Wake, Drained, End, BuildFails, FirstFails,
             Signal, Die, SourceStep, Cycled, WorkerEnds, IngressEnds, ExecutorFails, ExecutorEnds,
             Tick, CycleFails, LoopEnds, WorkerFails, IngressFails
    <3> QED BY <3>1
  <2>5. ASSUME NEW j \in Sources,
               Tick(p, j) \/ Cycled(p, j) \/ CycleFails(p, j) \/ WorkerFails(p, j)
                 \/ WorkerEnds(p, j) \/ IngressFails(p, j) \/ IngressEnds(p, j)
        PROVE  FALSE
    <3>1. CASE WorkerFails(p, j) \/ WorkerEnds(p, j) \/ IngressFails(p, j) \/ IngressEnds(p, j)
      <4>1. route'[p].loop = route[p].loop
        BY <2>1, <3>1 DEF WorkerFails, WorkerEnds, IngressFails, IngressEnds, RouteType
      <4> QED BY <4>1
    <3>2. CASE Tick(p, j) \/ Cycled(p, j) \/ CycleFails(p, j)
      <4>1. PICK x \in {"cycle", "wait"} : route'[p].loop = [route[p].loop EXCEPT ![j] = x]
        BY <2>1, <3>2 DEF Tick, Cycled, CycleFails, Retried, RouteType
      <4>2. route[p].loop \in [Sources -> {"off", "wait", "cycle", "gone"}]
        BY <2>1 DEF RouteType
      <4> QED BY <4>1, <4>2
    <3> QED BY <2>5, <3>1, <3>2
  <2>6. ASSUME NEW j \in Sources, LoopEnds(p, j) \/ ExecutorEnds(p, j)
        PROVE  route[p].stop \/ route[p].cancelled
    BY <2>6 DEF LoopEnds, ExecutorEnds, Cancelled
  <2>7. ASSUME NEW j \in Sources, ExecutorFails(p, j)
        PROVE  Mode[j] = "push" /\ Failed(p, j)
    BY <2>7 DEF ExecutorFails
  <2> QED BY <1>1, <2>1, <2>2, <2>3, <2>4, <2>5, <2>6, <2>7 DEF RouteNext, MainStep, SourceStep
<1>2. LockInv /\ RouteInv /\ [RouteNext]_allVars => [Local]_allVars
  BY <1>1
<1> QED BY <1>2, LocksAreHeld, RoutesAreSound, PTL DEF RouteSpec, PollErrorsAreLocal

(* `run` refuses only while another process has, or takes, the lock: a      *)
(* flock that is taken has a holder that lives, and it is not p itself:     *)
(* RefusedOnlyByLive (acquireRunLock).                                      *)
THEOREM OnlyTheLiveRefuse == RouteSpec => RefusedOnlyByLive
<1> DEFINE Refused == \A p \in Procs :
       pc[p] = "flock" /\ faults' = faults /\ pc'[p] \in {"undo", "refused"} =>
         \E q \in Procs \ {p} : pc[q] \notin {"down", "refused"}
<1>1. ASSUME LockInv, Ledger, RouteNext PROVE Refused
  <2> SUFFICES ASSUME NEW p \in Procs, pc[p] = "flock", faults' = faults,
                      pc'[p] \in {"undo", "refused"}
               PROVE  \E q \in Procs \ {p} : pc[q] \notin {"down", "refused"}
    OBVIOUS
  <2>t. TypeOK /\ faults \in Nat
    BY <1>1, LockBoundAssumption DEF LockInv, TypeOK
  <2>1. PICK q \in Procs : LockAction(q)
    BY <1>1, <2>t, LocksMove
  <2>2. q = p
    BY <2>1, <2>t, OthersStay
  <2>3. FlockRefused(p)
    BY <2>1, <2>2, <2>t
       DEF LockAction, Start, Open, Flock, FlockFails, Fault, Stop, Unlock, Undone, Remove, Crash,
           Goto, TypeOK
  <2>4. PICK h \in Procs \ {p} : at[p] \in Held(h)
    BY <1>1, <2>3, RefusedByHolder
  <2> QED BY <2>4 DEF Held
<1>2. LockInv /\ Ledger /\ [RouteNext]_allVars => [Refused]_vars
  BY <1>1 DEF allVars
<1> QED BY <1>2, LocksAreHeld, LedgerInvariant, PTL DEF RouteSpec, RefusedOnlyByLive

(* Processes that start together do not refuse each other all: one that     *)
(* gets through exists at any time, although the one that is in front may   *)
(* change, remove its lock files and begin again: NoMutualRefusal           *)
(* (acquireRouteLocks, which sorts the paths).                              *)
THEOREM SomebodyGetsThrough ==
  ASSUME Procs # {}
  PROVE  RouteSpec => []NoMutualRefusal
<1>1. RouteInit => Survivor
  BY SurvivorAtFirst DEF RouteInit
<1>2. LockInv /\ Ledger /\ Survivor /\ [RouteNext]_allVars => Survivor'
  <2> SUFFICES ASSUME LockInv, Ledger, Survivor, [RouteNext]_allVars PROVE Survivor'
    OBVIOUS
  <2>1. CASE \E p \in Procs : LockAction(p)
    BY <2>1, SurvivorStep
  <2>2. CASE UNCHANGED <<dir, holder, created, fd, pc, at>> /\ (faults' = 0 => faults = 0)
    BY <2>2 DEF Survivor, Survives, Passed, NewBeyond, OldGiveUp, Dated, Undoing, Newer, Held
  <2> QED BY <2>1, <2>2, LocksMove DEF LockInv
<1>3. Survivor => NoMutualRefusal
  BY DEF Survivor, Survives, Passed, NoMutualRefusal
<1> QED BY <1>1, <1>2, <1>3, LocksAreHeld, LedgerInvariant, PTL DEF RouteSpec
=============================================================================
