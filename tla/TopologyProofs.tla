--------------------------- MODULE TopologyProofs ---------------------------
(* Theorems about Topology, for any topologies that an operator may write,   *)
(* any drafts, any characters that file names replace and any number of      *)
(* edits.                                                                   *)
EXTENDS Topology, FiniteSetTheorems, SequenceTheorems, TLAPS

USE WrittenAssumption, DraftsAssumption

-----------------------------------------------------------------------------
(* Editing. *)

Fields == {"creds", "sources", "sinks", "routes", "defCred", "defSource", "defRoute"}

(* A topology has its seven fields. *)
LEMMA FieldsOf ==
  ASSUME NEW t, WellFormed(t)
  PROVE  DOMAIN t = Fields
BY DEF WellFormed, Empty, Fields

(* An empty topology is one. *)
LEMMA EmptyIsWellFormed == WellFormed(Empty)
<1>1. /\ DOMAIN Empty.creds = {} /\ DOMAIN Empty.sources = {} /\ DOMAIN Empty.sinks = {}
      /\ DOMAIN Empty.routes = {}
  BY DEF Empty
<1> QED BY <1>1, FS_EmptySet DEF WellFormed

(* What an edit does to the fields: credentials, their default and the sinks *)
(* stay, one source and at most one route change.                           *)
LEMMA EditedFields ==
  ASSUME NEW t, WellFormed(t), NEW d \in Drafts
  PROVE  LET new == Edited(t, d)
             route == IF d.route \in DOMAIN t.routes THEN Attached(t, d) ELSE NewRoute(d)
         IN  /\ DOMAIN new = Fields
             /\ new.creds = t.creds /\ new.defCred = t.defCred /\ new.sinks = t.sinks
             /\ new.sources = With(t.sources, d.source, Drafted(t, d))
             /\ new.defSource = IF t.defSource = None THEN d.source ELSE t.defSource
             /\ new.routes = IF d.route = None THEN t.routes
                             ELSE With(t.routes, d.route, route)
             /\ new.defRoute = IF t.defRoute = None THEN d.route ELSE t.defRoute
<1>1. DOMAIN t = Fields
  BY FieldsOf
<1> DEFINE route == IF d.route \in DOMAIN t.routes THEN Attached(t, d) ELSE NewRoute(d)
           sources == With(t.sources, d.source, Drafted(t, d))
           routes == With(t.routes, d.route, route)
           first == [t EXCEPT !.sources = sources,
                              !.defSource = IF t.defSource = None THEN d.source ELSE t.defSource]
<1>2. Edited(t, d) =
        IF d.route = None THEN first
        ELSE [first EXCEPT !.routes = With(@, d.route, route),
                           !.defRoute = IF @ = None THEN d.route ELSE @]
  BY DEF Edited
<1> HIDE DEF route, sources
<1>3. /\ DOMAIN first = Fields /\ first.creds = t.creds /\ first.defCred = t.defCred
      /\ first.sinks = t.sinks /\ first.sources = sources
      /\ first.defSource = (IF t.defSource = None THEN d.source ELSE t.defSource)
      /\ first.routes = t.routes /\ first.defRoute = t.defRoute
  BY <1>1 DEF Fields
<1> HIDE DEF first
<1>4. CASE d.route = None
  <2>1. Edited(t, d) = first
    BY <1>2, <1>4
  <2> QED BY <1>3, <1>4, <2>1 DEF sources
<1>5. CASE d.route # None
  <2>1. Edited(t, d) = [first EXCEPT !.routes = With(first.routes, d.route, route),
                          !.defRoute = IF first.defRoute = None THEN d.route ELSE first.defRoute]
    BY <1>2, <1>5
  <2>2. Edited(t, d).routes = With(t.routes, d.route, route)
    BY <1>3, <2>1 DEF Fields
  <2>3. Edited(t, d).defRoute = IF t.defRoute = None THEN d.route ELSE t.defRoute
    BY <1>3, <2>1 DEF Fields
  <2>4. /\ DOMAIN Edited(t, d) = Fields
        /\ Edited(t, d).creds = t.creds /\ Edited(t, d).defCred = t.defCred
        /\ Edited(t, d).sinks = t.sinks
        /\ Edited(t, d).sources = sources
        /\ Edited(t, d).defSource = first.defSource
    BY <1>3, <2>1 DEF Fields
  <2> QED BY <1>3, <1>5, <2>2, <2>3, <2>4 DEF sources, route
<1> QED BY <1>4, <1>5

(* An edited topology is one. *)
LEMMA EditedIsWellFormed ==
  ASSUME NEW t, WellFormed(t), NEW d \in Drafts
  PROVE  WellFormed(Edited(t, d))
<1> DEFINE new == Edited(t, d)
           route == IF d.route \in DOMAIN t.routes THEN Attached(t, d) ELSE NewRoute(d)
<1>1. d.source \in Names /\ d.route \in Names /\ d.sink \in Names
  BY DEF DraftType
<1>2. /\ DOMAIN new = Fields /\ new.creds = t.creds /\ new.sinks = t.sinks
      /\ new.sources = With(t.sources, d.source, Drafted(t, d))
      /\ new.routes = t.routes \/ new.routes = With(t.routes, d.route, route)
  BY EditedFields
<1> HIDE DEF new
<1>3. None \in Names /\ <<>> \in Names
  BY DEF None, Names
<1>4. IsSource(Drafted(t, d))
  <2>1. CASE d.source \in DOMAIN t.sources
    <3>1. /\ IsSource(t.sources[d.source])
          /\ Drafted(t, d) = [t.sources[d.source] EXCEPT !.driver = "webhook", !.mode = "push",
                                                        !.configured = d.rooted]
      BY <2>1 DEF Drafted, WellFormed
    <3> QED BY <3>1 DEF IsSource
  <2>2. CASE d.source \notin DOMAIN t.sources
    <3>1. Drafted(t, d) =
            [[driver |-> "", mode |-> "", cred |-> None, folder |-> None, configured |-> FALSE]
               EXCEPT !.driver = "webhook", !.mode = "push", !.configured = d.rooted]
      BY <2>2 DEF Drafted
    <3>2. /\ DOMAIN Drafted(t, d) = {"driver", "mode", "cred", "folder", "configured"}
          /\ Drafted(t, d).cred = None /\ Drafted(t, d).folder = None
      BY <3>1
    <3> QED BY <1>3, <3>2 DEF IsSource
  <2> QED BY <2>1, <2>2
<1>5. IsRoute(route)
  <2>1. CASE d.route \in DOMAIN t.routes
    <3>1. IsRoute(t.routes[d.route])
      BY <2>1 DEF WellFormed
    <3>2. Append(t.routes[d.route].sources, d.source) \in Seq(Names)
      BY <1>1, <3>1 DEF IsRoute
    <3>3. IsRoute(Attached(t, d))
      BY <3>1, <3>2 DEF Attached, IsRoute
    <3> QED BY <2>1, <3>3
  <2>2. CASE d.route \notin DOMAIN t.routes
    <3>1. <<d.source>> \in Seq(Names)
      BY <1>1
    <3>2. IsRoute(NewRoute(d))
      BY <3>1 DEF NewRoute, IsRoute
    <3> QED BY <2>2, <3>2
  <2> QED BY <2>1, <2>2
<1> HIDE DEF route
<1>6. \A s \in DOMAIN new.sources : s \in Names /\ IsSource(new.sources[s])
  BY <1>1, <1>2, <1>4 DEF With, WellFormed
<1>7. \A r \in DOMAIN new.routes : r \in Names /\ IsRoute(new.routes[r])
  BY <1>1, <1>2, <1>5 DEF With, WellFormed
<1>8. DOMAIN new = DOMAIN Empty
  BY <1>2 DEF Empty, Fields
<1>9. WellFormed(new)
  BY <1>2, <1>6, <1>7, <1>8 DEF WellFormed
<1> QED BY <1>9 DEF new

(* Drafts of what the operator may enter are applied or refused. *)
LEMMA AppliedIsEdited ==
  ASSUME NEW t, NEW d \in Drafts, NEW n, n \in Applied(t, d)
  PROVE  /\ n = Edited(t, d)
         /\ ValidSource(t, n.sources[d.source])
         /\ d.route # None => ValidRoute(n, n.routes[d.route])
<1> DEFINE edited == Edited(t, d)
<1>1. CASE ~ValidSource(t, edited.sources[d.source])
  BY <1>1 DEF Applied
<1>2. CASE d.route # None /\ ~ValidRoute(edited, edited.routes[d.route])
  BY <1>2 DEF Applied
<1>3. CASE /\ ValidSource(t, edited.sources[d.source])
           /\ d.route # None => ValidRoute(edited, edited.routes[d.route])
  BY <1>3 DEF Applied
<1> QED BY <1>1, <1>2, <1>3

-----------------------------------------------------------------------------
(* The invariants. *)

(* TypeInv holds at first. *)
LEMMA TypeAtFirst == Init => TypeInv
BY EmptyIsWellFormed DEF Init, TypeInv

(* Every step keeps it. *)
LEMMA TypeStep == TypeInv /\ [Next]_vars => TypeInv'
<1> SUFFICES ASSUME TypeInv, [Next]_vars PROVE TypeInv'
  OBVIOUS
<1> USE DEF TypeInv
<1>1. CASE Configure
  BY <1>1 DEF Configure
<1>2. CASE Save
  <2>1. PICK d \in Drafts : draft' \in Applied(draft, d)
    BY <1>2 DEF Save
  <2>2. draft' = Edited(draft, d)
    BY <2>1, AppliedIsEdited
  <2>3. WellFormed(draft')
    BY <2>2, EditedIsWellFormed
  <2> QED BY <1>2, <2>3, EmptyIsWellFormed DEF Save
<1>3. CASE Saved
  BY <1>3, EmptyIsWellFormed DEF Saved
<1>4. CASE Abandon
  BY <1>4, EmptyIsWellFormed DEF Abandon
<1>5. CASE WriteByHand
  BY <1>5 DEF WriteByHand
<1>6. ASSUME NEW c \in Flags, Login(c) PROVE TypeInv'
  BY <1>6 DEF Login
<1>7. CASE UNCHANGED vars
  BY <1>7 DEF vars
<1> QED BY <1>1, <1>2, <1>3, <1>4, <1>5, <1>6, <1>7 DEF Next

(* It holds. *)
LEMMA TypeCorrect == Spec => []TypeInv
BY TypeAtFirst, TypeStep, PTL DEF Spec

-----------------------------------------------------------------------------
(* What runs share is under one lock. *)

(* What a source run is made of. *)
LEMMA RunOf ==
  ASSUME NEW t, NEW a \in SourceRuns(t)
  PROVE  \E r \in DOMAIN t.routes : \E s \in Range(t.routes[r].sources) :
           LET src == t.sources[s]
           IN  \E dir \in DeviceDir(t, src, SourceDrivers) :
                 /\ a.source = s /\ a.route = r
                 /\ a.lock = RunLockPath(dir, r, s, src)
                 /\ a.tx = FlowStateDir(dir, r, s, src)
                 /\ a.state = IF src.mode = "poll" THEN ProducerStatePath(dir, s, src)
                              ELSE PushSpoolDir(dir, r, s, src)
<1>r. PICK r \in DOMAIN t.routes : \E s \in Range(t.routes[r].sources) : a \in SourceRun(t, r, s)
  BY DEF SourceRuns
<1>1. PICK s \in Range(t.routes[r].sources) : a \in SourceRun(t, r, s)
  BY <1>r
<1> DEFINE src == t.sources[s]
<1>2. PICK dir \in DeviceDir(t, src, SourceDrivers) :
        a = [route |-> r, source |-> s, plan |-> ExecutionPlan(t.routes[r]),
             sinks |-> [k \in {t.routes[r].targets[i].sink : i \in DOMAIN t.routes[r].targets} |->
                          DeviceDir(t, t.sinks[k], SinkDrivers)],
             lock |-> RunLockPath(dir, r, s, src),
             state |-> IF src.mode = "poll" THEN ProducerStatePath(dir, s, src)
                       ELSE PushSpoolDir(dir, r, s, src),
             tx |-> FlowStateDir(dir, r, s, src)]
  BY <1>1 DEF SourceRun
<1>3. /\ a.source = s /\ a.route = r
      /\ a.lock = RunLockPath(dir, r, s, src)
      /\ a.tx = FlowStateDir(dir, r, s, src)
      /\ a.state = IF src.mode = "poll" THEN ProducerStatePath(dir, s, src)
                   ELSE PushSpoolDir(dir, r, s, src)
  BY <1>2
<1> QED BY <1>2, <1>3

(* A file's name tells plain source names apart. *)
LEMMA PlainScopes ==
  ASSUME NEW s1 \in Names, Plain(s1), NEW x1, NEW f1 \in Names,
         NEW s2 \in Names, Plain(s2), NEW x2, NEW f2 \in Names, s1 # s2
  PROVE  Clean(None \o s1 \o <<x1>> \o f1) # Clean(None \o s2 \o <<x2>> \o f2)
<1>1. ASSUME NEW s \in Names, Plain(s), NEW x, NEW f \in Names
      PROVE  Clean(None \o s \o <<x>> \o f)[1] = s[1]
  <2>1. (<<>> \o s \o <<x>> \o f)[1] = s[1] /\ 1 \in DOMAIN (<<>> \o s \o <<x>> \o f)
    BY <1>1 DEF Names, Plain
  <2> DEFINE name == <<>> \o s \o <<x>> \o f
  <2> HIDE DEF name
  <2>2. name[1] = s[1] /\ 1 \in DOMAIN name /\ s[1] \notin DOMAIN Cleaned
    BY <1>1, <2>1 DEF name, Plain
  <2>3. Clean(name)[1] = s[1]
    BY <2>2 DEF Clean
  <2> QED BY <2>3 DEF name, None
<1>2. s1[1] # s2[1]
  BY DEF Names, Plain
<1> QED BY <1>1, <1>2

(* A state file's or spool's path tells its directory and its name. *)
IsStateFile(x, d, f, n) ==
  \/ x = <<d, "flow-sync", n>>
  \/ x = <<d, "flow-state", f>> \o <<"push-spool", n>>

(* The path of a state file tells its directory and the name of its source. *)
LEMMA StateFiles ==
  ASSUME NEW x, NEW d1, NEW f1, NEW n1, IsStateFile(x, d1, f1, n1),
         NEW d2, NEW f2, NEW n2, IsStateFile(x, d2, f2, n2)
  PROVE  d1 = d2 /\ n1 = n2
<1>1. ASSUME NEW d, NEW f, NEW n, IsStateFile(x, d, f, n)
      PROVE  x[1] = d /\ ((Len(x) = 3 /\ x[3] = n) \/ (Len(x) = 5 /\ x[5] = n))
  <2>1. CASE x = <<d, "flow-sync", n>>
    BY <2>1
  <2>2. CASE x = <<d, "flow-state", f>> \o <<"push-spool", n>>
    <3> DEFINE Parts == {d, f, n, "flow-state", "push-spool"}
    <3>1. /\ d \in Parts /\ f \in Parts /\ n \in Parts
          /\ "flow-state" \in Parts /\ "push-spool" \in Parts
      OBVIOUS
    <3> HIDE DEF Parts
    <3>2. <<d, "flow-state", f>> \in Seq(Parts) /\ <<"push-spool", n>> \in Seq(Parts)
      BY <3>1
    <3> QED BY <2>2, <3>2, ConcatProperties
  <2> QED BY <1>1, <2>1, <2>2 DEF IsStateFile
<1>2. x[1] = d1 /\ ((Len(x) = 3 /\ x[3] = n1) \/ (Len(x) = 5 /\ x[5] = n1))
  BY <1>1
<1>3. x[1] = d2 /\ ((Len(x) = 3 /\ x[3] = n2) \/ (Len(x) = 5 /\ x[5] = n2))
  BY <1>1
<1> QED BY <1>2, <1>3

(* README "state and safety": for any topology that a run accepts, what two  *)
(* runs share is under one run lock, and two sources with plain names share  *)
(* nothing.                                                                 *)
LEMMA LocksFit ==
  ASSUME NEW t, WellFormed(t), ValidateStructure(t),
         NEW a \in SourceRuns(t), NEW b \in SourceRuns(t)
  PROVE  /\ Share(a, b) => a.lock = b.lock
         /\ Plain(a.source) /\ Plain(b.source) /\ a.source # b.source =>
              ~Share(a, b) /\ a.lock # b.lock
<1>a. PICK ra \in DOMAIN t.routes : \E sa \in Range(t.routes[ra].sources) :
        \E dir \in DeviceDir(t, t.sources[sa], SourceDrivers) :
          /\ a.source = sa /\ a.route = ra
          /\ a.lock = RunLockPath(dir, ra, sa, t.sources[sa])
          /\ a.tx = FlowStateDir(dir, ra, sa, t.sources[sa])
          /\ a.state = IF t.sources[sa].mode = "poll" THEN ProducerStatePath(dir, sa, t.sources[sa])
                       ELSE PushSpoolDir(dir, ra, sa, t.sources[sa])
  BY RunOf
<1>1. PICK sa \in Range(t.routes[ra].sources) :
        \E dir \in DeviceDir(t, t.sources[sa], SourceDrivers) :
          /\ a.source = sa /\ a.route = ra
          /\ a.lock = RunLockPath(dir, ra, sa, t.sources[sa])
          /\ a.tx = FlowStateDir(dir, ra, sa, t.sources[sa])
          /\ a.state = IF t.sources[sa].mode = "poll" THEN ProducerStatePath(dir, sa, t.sources[sa])
                       ELSE PushSpoolDir(dir, ra, sa, t.sources[sa])
  BY <1>a
<1>b. PICK rb \in DOMAIN t.routes : \E sb \in Range(t.routes[rb].sources) :
        \E dir \in DeviceDir(t, t.sources[sb], SourceDrivers) :
          /\ b.source = sb /\ b.route = rb
          /\ b.lock = RunLockPath(dir, rb, sb, t.sources[sb])
          /\ b.tx = FlowStateDir(dir, rb, sb, t.sources[sb])
          /\ b.state = IF t.sources[sb].mode = "poll" THEN ProducerStatePath(dir, sb, t.sources[sb])
                       ELSE PushSpoolDir(dir, rb, sb, t.sources[sb])
  BY RunOf
<1>2. PICK sb \in Range(t.routes[rb].sources) :
        \E dir \in DeviceDir(t, t.sources[sb], SourceDrivers) :
          /\ b.source = sb /\ b.route = rb
          /\ b.lock = RunLockPath(dir, rb, sb, t.sources[sb])
          /\ b.tx = FlowStateDir(dir, rb, sb, t.sources[sb])
          /\ b.state = IF t.sources[sb].mode = "poll" THEN ProducerStatePath(dir, sb, t.sources[sb])
                       ELSE PushSpoolDir(dir, rb, sb, t.sources[sb])
  BY <1>b
<1> DEFINE A == t.sources[sa]
           B == t.sources[sb]
<1>3. PICK da \in DeviceDir(t, A, SourceDrivers) :
          /\ a.lock = RunLockPath(da, ra, sa, A) /\ a.tx = FlowStateDir(da, ra, sa, A)
          /\ a.state = IF A.mode = "poll" THEN ProducerStatePath(da, sa, A)
                       ELSE PushSpoolDir(da, ra, sa, A)
  BY <1>1
<1>4. PICK db \in DeviceDir(t, B, SourceDrivers) :
          /\ b.lock = RunLockPath(db, rb, sb, B) /\ b.tx = FlowStateDir(db, rb, sb, B)
          /\ b.state = IF B.mode = "poll" THEN ProducerStatePath(db, sb, B)
                       ELSE PushSpoolDir(db, rb, sb, B)
  BY <1>2
<1>5. a.source = sa /\ b.source = sb
  BY <1>1, <1>2
<1> DEFINE sla == Scope(None, sa, A)
           slb == Scope(None, sb, B)
<1>6. sa \in DOMAIN t.sources /\ sb \in DOMAIN t.sources
  BY DEF ValidateStructure, ValidRoute
<1>7. Plain(sa) /\ Plain(sb) /\ sa # sb => sla # slb
  <2>1. sa \in Names /\ sb \in Names /\ A.folder \in Names /\ B.folder \in Names
    BY <1>6 DEF WellFormed, IsSource
  <2> QED BY <2>1, PlainScopes DEF Scope
<1> HIDE DEF A, B, sla, slb
<1>8. a.lock = <<da, "run", sla>> /\ b.lock = <<db, "run", slb>>
  BY <1>3, <1>4 DEF RunLockPath, sla, slb
<1>9. /\ a.state = <<da, "flow-sync", sla>>
         \/ a.state = <<da, "flow-state", Scope(ra, sa, A)>> \o <<"push-spool", sla>>
      /\ b.state = <<db, "flow-sync", slb>>
         \/ b.state = <<db, "flow-state", Scope(rb, sb, B)>> \o <<"push-spool", slb>>
  BY <1>3, <1>4 DEF ProducerStatePath, PushSpoolDir, FlowStateDir, sla, slb
<1>10. a.state = b.state => da = db /\ sla = slb
  <2> SUFFICES ASSUME a.state = b.state PROVE da = db /\ sla = slb
    OBVIOUS
  <2>1. /\ IsStateFile(a.state, da, Scope(ra, sa, A), sla)
        /\ IsStateFile(a.state, db, Scope(rb, sb, B), slb)
    BY <1>9 DEF IsStateFile
  <2> QED BY <2>1, StateFiles
<1>11. a.tx = b.tx /\ sa = sb => a.lock = b.lock
  <2>1. /\ a.tx = <<da, "flow-state", Scope(ra, sa, A)>>
        /\ b.tx = <<db, "flow-state", Scope(rb, sb, B)>>
    BY <1>3, <1>4 DEF FlowStateDir
  <2>2. a.tx = b.tx => da = db
    BY <2>1
  <2>3. sa = sb => sla = slb
    BY DEF sla, slb, A, B
  <2> QED BY <1>8, <2>2, <2>3
<1>12. Share(a, b) => (da = db /\ sla = slb) \/ (sa = sb /\ a.lock = b.lock)
  BY <1>5, <1>10, <1>11 DEF Share
<1>13. a.lock = b.lock => sla = slb
  BY <1>8
<1> QED BY <1>5, <1>7, <1>8, <1>12, <1>13

(* In every usable topology, however it came about, two source runs that    *)
(* share a state file, a spool or transactions are under the same lock, and *)
(* sources with plain names of their own share neither.                     *)
THEOREM RunsShareUnderTheirLock == Spec => []LocksMatchState
<1>1. TypeInv => LocksMatchState
  BY LocksFit DEF TypeInv, LocksMatchState, Usable
<1> QED BY <1>1, TypeCorrect, PTL

-----------------------------------------------------------------------------
(* A login serves the runs. *)

(* Directories depend on the credentials and their default alone. *)
LEMMA SameCredentials ==
  ASSUME NEW t, NEW u, u.creds = t.creds, u.defCred = t.defCred
  PROVE  /\ \A c : StateDir(u, c) = StateDir(t, c)
         /\ \A ref : ResolveCredentialRef(u, ref) = ResolveCredentialRef(t, ref)
         /\ \A c : ChosenDir(u, c) = ChosenDir(t, c)
<1>1. \A c : StateDir(u, c) = StateDir(t, c)
  BY DEF StateDir
<1>2. \A ref : ResolveCredentialRef(u, ref) = ResolveCredentialRef(t, ref)
  BY Zenon DEF ResolveCredentialRef
<1>3. ASSUME NEW c PROVE ChosenDir(u, c) = ChosenDir(t, c)
  <2>1. \A S : {StateDir(u, x) : x \in S} = {StateDir(t, x) : x \in S}
    BY <1>1
  <2>2. CASE c # None
    <3>1. ChosenDir(u, c) = {StateDir(u, x) : x \in {c} \cap DOMAIN t.creds}
      BY <2>2 DEF ChosenDir
    <3>2. ChosenDir(t, c) = {StateDir(t, x) : x \in {c} \cap DOMAIN t.creds}
      BY <2>2 DEF ChosenDir
    <3> QED BY <2>1, <3>1, <3>2
  <2>3. CASE c = None
    <3> DEFINE found == ResolveCredentialRef(t, None)
               same == ResolveCredentialRef(u, None)
    <3>1. ChosenDir(u, c) = IF same = {} THEN {Base} ELSE {StateDir(u, x) : x \in same}
      BY <2>3, Zenon DEF ChosenDir
    <3>3. same = found
      BY <1>2
    <3>2. ChosenDir(t, c) = IF found = {} THEN {Base} ELSE {StateDir(t, x) : x \in found}
      BY <2>3, Zenon DEF ChosenDir
    <3> HIDE DEF same, found
    <3> QED BY <2>1, <3>1, <3>2, <3>3
  <2> QED BY <2>2, <2>3
<1> QED BY <1>1, <1>2, <1>3

(* What an empty reference stands for. *)
LEMMA ImplicitlyResolved ==
  ASSUME NEW t
  PROVE  ResolveCredentialRef(t, None) =
           IF t.defCred # None THEN {t.defCred} \cap DOMAIN t.creds
           ELSE IF DOMAIN t.creds = {} THEN {None}
           ELSE IF DefaultName \in DOMAIN t.creds THEN {DefaultName}
           ELSE Only(DOMAIN t.creds)
<1>1. CASE t.defCred # None
  BY <1>1, Zenon DEF ResolveCredentialRef
<1>2. CASE t.defCred = None
  BY <1>2, Zenon DEF ResolveCredentialRef
<1> QED BY <1>1, <1>2

(* What a reference stands for that is not empty. *)
LEMMA ExplicitlyResolved ==
  ASSUME NEW t, NEW ref, ref # None
  PROVE  ResolveCredentialRef(t, ref) = {ref} \cap DOMAIN t.creds
BY Zenon DEF ResolveCredentialRef

(* Where a device that needs a credential looks for it. *)
LEMMA DirectoryOf ==
  ASSUME NEW t, NEW device, NEW drivers,
         device.driver \in DOMAIN drivers, drivers[device.driver].credential
  PROVE  DeviceDir(t, device, drivers) =
           {StateDir(t, x) : x \in ResolveCredentialRef(t, device.cred)}
BY Zenon DEF DeviceDir

(* Every step keeps SignInv. *)
LEMMA SignStep == TypeInv /\ SignInv /\ [Next]_vars => SignInv'
<1> SUFFICES ASSUME TypeInv, SignInv, [Next]_vars, disk' = "torn" => pc' = "saving",
                    NEW c \in Flags, c \notin guessed', signedIn'[c] # {}
             PROVE  \/ signedIn'[c] = ChosenDir(Current', c)
                    \/ /\ DOMAIN Current'.creds = {} /\ Current'.defCred = None
                       /\ signedIn'[c] = {DefaultCredentialStateDir(c)}
  BY DEF SignInv
<1> DEFINE Serves(t) == \/ signedIn[c] = ChosenDir(t, c)
                        \/ /\ DOMAIN t.creds = {} /\ t.defCred = None
                           /\ signedIn[c] = {DefaultCredentialStateDir(c)}
<1>s. /\ disk = "torn" => pc = "saving"
      /\ c \notin guessed /\ signedIn[c] # {}
      => Serves(Current)
  BY DEF SignInv
<1>1. CASE Configure
  BY <1>1, <1>s DEF Configure, TypeInv, Current
<1>2. CASE Save
  <2>1. PICK d \in Drafts : draft' \in Applied(draft, d)
    BY <1>2 DEF Save
  <2>2. draft' = Edited(draft, d) /\ draft = file /\ WellFormed(draft)
    BY <1>2, <2>1, AppliedIsEdited DEF Save, TypeInv
  <2>3. draft'.creds = file.creds /\ draft'.defCred = file.defCred
    BY <2>2, EditedFields
  <2>4. Current = file /\ Current' = draft' /\ Serves(file) /\ signedIn' = signedIn
    BY <1>2, <1>s DEF Save, TypeInv, Current
  <2>5. ChosenDir(draft', c) = ChosenDir(file, c)
    BY <2>3, SameCredentials
  <2> QED BY <2>3, <2>4, <2>5
<1>3. CASE Saved
  BY <1>3, <1>s DEF Saved, Current
<1>4. CASE Abandon
  BY <1>4, <1>s DEF Abandon, TypeInv, Current
<1>5. CASE WriteByHand
  BY <1>5 DEF WriteByHand
<1>6. ASSUME NEW f \in Flags, Login(f)
      PROVE  \/ signedIn'[c] = ChosenDir(Current', c)
             \/ /\ DOMAIN Current'.creds = {} /\ Current'.defCred = None
                /\ signedIn'[c] = {DefaultCredentialStateDir(c)}
  <2>1. Current' = Current /\ disk' = disk /\ pc' = pc
    BY <1>6 DEF Login, Current
  <2>2. CASE c = f
    <3>1. disk # "torn" /\ pc # "saving" /\ Current = file
      BY <1>6, <2>2 DEF Login, TypeInv, Current
    <3>2. signedIn'[c] = CommandDir(c)
      BY <1>6, <2>2 DEF Login, TypeInv
    <3>3. CASE disk = "whole"
      BY <2>1, <3>1, <3>2, <3>3 DEF CommandDir, Readable
    <3>4. CASE disk = "absent"
      <4>1. signedIn'[c] = {DefaultCredentialStateDir(c)}
        BY <3>2, <3>4 DEF CommandDir, Readable
      <4>2. DOMAIN file.creds = {} /\ file.defCred = None
        BY <3>4 DEF TypeInv, Empty
      <4> QED BY <2>1, <3>1, <4>1, <4>2
    <3> QED BY <3>1, <3>3, <3>4 DEF TypeInv
  <2>3. CASE c # f
    <3>1. signedIn'[c] = signedIn[c] /\ c \notin guessed
      BY <1>6, <2>3 DEF Login, TypeInv
    <3> QED BY <1>s, <2>1, <3>1
  <2> QED BY <2>2, <2>3
<1>7. CASE UNCHANGED vars
  BY <1>7, <1>s DEF vars, Current
<1> QED BY <1>1, <1>2, <1>3, <1>4, <1>5, <1>6, <1>7 DEF Next

(* It holds. *)
LEMMA SignCorrect == Spec => []SignInv
<1>1. Init => SignInv
  BY DEF Init, SignInv
<1> QED BY <1>1, SignStep, TypeCorrect, PTL DEF Spec

(* "The only one" of a finite set is one. *)
LEMMA OnlyIsOne ==
  ASSUME NEW S, IsFiniteSet(S), NEW x \in Only(S)
  PROVE  x \in S /\ Only(S) = {x}
<1>1. Cardinality(S) = 1 /\ Only(S) = S
  BY DEF Only
<1>2. PICK y : S = {y}
  BY <1>1, FS_Singleton
<1> QED BY <1>1, <1>2

(* A reference stands for one credential, which exists. *)
LEMMA Resolved ==
  ASSUME NEW t, IsFiniteSet(DOMAIN t.creds), NEW ref, NEW c \in ResolveCredentialRef(t, ref)
  PROVE  /\ ResolveCredentialRef(t, ref) = {c}
         /\ c # None => c \in DOMAIN t.creds
<1>1. CASE ref # None
  BY <1>1, ExplicitlyResolved
<1>2. CASE ref = None
  <2>1. CASE t.defCred # None
    BY <1>2, <2>1, ImplicitlyResolved
  <2>2. CASE t.defCred = None
    BY <1>2, <2>2, ImplicitlyResolved, OnlyIsOne
  <2> QED BY <2>1, <2>2
<1> QED BY <1>1, <1>2

(* A device of the credential that a login was for finds the record where    *)
(* the login would put it.                                                  *)
LEMMA ServedDirectory ==
  ASSUME NEW t, WellFormed(t), ValidateStructure(t), NEW c, NEW device, NEW drivers,
         ValidDevice(t, device), Served(t, c, device, drivers)
  PROVE  /\ DeviceDir(t, device, drivers) \subseteq ChosenDir(t, c)
         /\ DOMAIN t.creds = {} /\ t.defCred = None =>
              DeviceDir(t, device, drivers) \subseteq {DefaultCredentialStateDir(c)}
<1>1. DeviceDir(t, device, drivers) =
        {StateDir(t, x) : x \in ResolveCredentialRef(t, device.cred)}
  BY DirectoryOf DEF Served
<1>2. None \notin DOMAIN t.creds /\ (device.cred # None => device.cred \in DOMAIN t.creds)
  BY DEF ValidateStructure, ValidDevice
<1>3. CASE c = None
  <2>1. device.cred = None
    BY <1>3 DEF Served
  <2> DEFINE found == ResolveCredentialRef(t, None)
  <2>2. ChosenDir(t, c) = IF found = {} THEN {Base} ELSE {StateDir(t, x) : x \in found}
    BY <1>3, Zenon DEF ChosenDir
  <2>3. DeviceDir(t, device, drivers) = {StateDir(t, x) : x \in found}
    BY <1>1, <2>1
  <2>4. DOMAIN t.creds = {} /\ t.defCred = None => found = {None}
    BY ImplicitlyResolved
  <2>5. StateDir(t, None) = DefaultCredentialStateDir(None)
    BY DEF StateDir
  <2> HIDE DEF found
  <2> QED BY <1>3, <2>2, <2>3, <2>4, <2>5
<1>4. CASE c # None
  <2>1. c \in ResolveCredentialRef(t, device.cred)
    BY <1>4 DEF Served
  <2>2. ResolveCredentialRef(t, device.cred) = {c} /\ c \in DOMAIN t.creds
    BY <1>4, <2>1, Resolved DEF WellFormed
  <2>4. ChosenDir(t, c) = {StateDir(t, x) : x \in {c} \cap DOMAIN t.creds}
    BY <1>4 DEF ChosenDir
  <2> QED BY <1>1, <2>2, <2>4
<1> QED BY <1>3, <1>4

(* The credential commands list the devices that the runs resolve. *)
LEMMA BoundAreServed ==
  ASSUME NEW t, WellFormed(t), ValidateStructure(t), NEW c \in DOMAIN t.creds, NEW device,
         ValidDevice(t, device)
  PROVE  (IF device.cred # None THEN device.cred = c ELSE c \in ImplicitRef(t))
           <=> c \in ResolveCredentialRef(t, device.cred)
<1>1. CASE device.cred # None
  <2>1. device.cred \in DOMAIN t.creds
    BY <1>1 DEF ValidDevice
  <2> QED BY <1>1, <2>1, ExplicitlyResolved
<1>2. CASE device.cred = None
  <2>1. ResolveCredentialRef(t, None) = ImplicitRef(t)
    <3>1. t.defCred # None => t.defCred \in DOMAIN t.creds
      BY DEF ValidateStructure, Default
    <3>2. CASE t.defCred # None
      BY <3>1, <3>2, ImplicitlyResolved DEF ImplicitRef
    <3>3. CASE t.defCred = None
      BY <3>3, ImplicitlyResolved DEF ImplicitRef
    <3> QED BY <3>2, <3>3
  <2> QED BY <1>2, <2>1
<1> QED BY <1>1, <1>2

(* Sources and sinks of a valid topology are valid devices. *)
LEMMA ValidDevices ==
  ASSUME NEW t, ValidateStructure(t)
  PROVE  /\ \A s \in DOMAIN t.sources : ValidDevice(t, t.sources[s])
         /\ \A k \in DOMAIN t.sinks : ValidDevice(t, t.sinks[k])
BY DEF ValidateStructure, ValidSource

(* The names on a list of bindings are those it was made from. *)
LEMMA BindingNames ==
  ASSUME NEW sources, NEW sinks, NEW B,
         B = {<<"source", s>> : s \in sources} \cup {<<"sink", k>> : k \in sinks}
  PROVE  /\ {b[2] : b \in {x \in B : x[1] = "source"}} = sources
         /\ {b[2] : b \in {x \in B : x[1] = "sink"}} = sinks
<1>3. \A x \in B : x[1] = "source" => x[2] \in sources
  OBVIOUS
<1>4. \A x \in B : x[1] = "sink" => x[2] \in sinks
  OBVIOUS
<1>5. {b[2] : b \in {x \in B : x[1] = "source"}} = sources
  <2>1. \A s \in sources : \E b \in {x \in B : x[1] = "source"} : b[2] = s
    <3> TAKE s \in sources
    <3> WITNESS <<"source", s>> \in {x \in B : x[1] = "source"}
    <3> QED OBVIOUS
  <2>2. \A b \in {x \in B : x[1] = "source"} : b[2] \in sources
    BY <1>3
  <2> QED BY <2>1, <2>2
<1>6. {b[2] : b \in {x \in B : x[1] = "sink"}} = sinks
  <2>1. \A k \in sinks : \E b \in {x \in B : x[1] = "sink"} : b[2] = k
    <3> TAKE k \in sinks
    <3> WITNESS <<"sink", k>> \in {x \in B : x[1] = "sink"}
    <3> QED OBVIOUS
  <2>2. \A b \in {x \in B : x[1] = "sink"} : b[2] \in sinks
    BY <1>4
  <2> QED BY <2>1, <2>2
<1> QED BY <1>5, <1>6

(* The bindings listed for a credential are those of the devices it serves. *)
LEMMA BindingsAreServed ==
  ASSUME NEW t, WellFormed(t), ValidateStructure(t), NEW c \in DOMAIN t.creds,
         Bindings(t, c) # {}
  PROVE  /\ {b[2] : b \in {x \in Bindings(t, c) : x[1] = "source"}} =
              {s \in DOMAIN t.sources : Served(t, c, t.sources[s], SourceDrivers)}
         /\ {b[2] : b \in {x \in Bindings(t, c) : x[1] = "sink"}} =
              {k \in DOMAIN t.sinks : Served(t, c, t.sinks[k], SinkDrivers)}
<1> DEFINE Bound(d, drivers) ==
             /\ drivers[d.driver].credential
             /\ IF d.cred # None THEN d.cred = c ELSE c \in ImplicitRef(t)
           sources == {s \in DOMAIN t.sources : Bound(t.sources[s], SourceDrivers)}
           sinks == {k \in DOMAIN t.sinks : Bound(t.sinks[k], SinkDrivers)}
<1>1. /\ \A s \in DOMAIN t.sources : t.sources[s].driver \in DOMAIN SourceDrivers
      /\ \A k \in DOMAIN t.sinks : t.sinks[k].driver \in DOMAIN SinkDrivers
      /\ Bindings(t, c) = {<<"source", s>> : s \in sources} \cup {<<"sink", k>> : k \in sinks}
  <2> DEFINE unknown == \/ \E s \in DOMAIN t.sources :
                             t.sources[s].driver \notin DOMAIN SourceDrivers
                        \/ \E k \in DOMAIN t.sinks :
                             t.sinks[k].driver \notin DOMAIN SinkDrivers
  <2>1. CASE unknown
    BY <2>1, Zenon DEF Bindings
  <2>2. CASE ~unknown
    BY <2>2, Zenon DEF Bindings
  <2> QED BY <2>1, <2>2
<1>2. c # None
  BY DEF ValidateStructure
<1>3. \A s \in DOMAIN t.sources :
        s \in sources <=> Served(t, c, t.sources[s], SourceDrivers)
  <2> TAKE s \in DOMAIN t.sources
  <2>1. (IF t.sources[s].cred # None THEN t.sources[s].cred = c ELSE c \in ImplicitRef(t))
           <=> c \in ResolveCredentialRef(t, t.sources[s].cred)
    BY ValidDevices, BoundAreServed
  <2> QED BY <1>1, <1>2, <2>1, Zenon DEF Served
<1>4. \A k \in DOMAIN t.sinks : k \in sinks <=> Served(t, c, t.sinks[k], SinkDrivers)
  <2> TAKE k \in DOMAIN t.sinks
  <2>1. (IF t.sinks[k].cred # None THEN t.sinks[k].cred = c ELSE c \in ImplicitRef(t))
           <=> c \in ResolveCredentialRef(t, t.sinks[k].cred)
    BY ValidDevices, BoundAreServed
  <2> QED BY <1>1, <1>2, <2>1, Zenon DEF Served
<1>5. sources = {s \in DOMAIN t.sources : Served(t, c, t.sources[s], SourceDrivers)}
  <2> HIDE DEF Bound
  <2> QED BY <1>3
<1>6. sinks = {k \in DOMAIN t.sinks : Served(t, c, t.sinks[k], SinkDrivers)}
  <2> HIDE DEF Bound
  <2> QED BY <1>4
<1> HIDE DEF sources, sinks
<1>7. /\ {b[2] : b \in {x \in Bindings(t, c) : x[1] = "source"}} = sources
      /\ {b[2] : b \in {x \in Bindings(t, c) : x[1] = "sink"}} = sinks
  BY <1>1, BindingNames
<1> QED BY <1>5, <1>6, <1>7

(* Wherever a login has put the token record, the runs of every topology     *)
(* that `config source` makes of the file look for it there, and the login   *)
(* lists exactly the sources and sinks that do.                             *)
THEOREM LoginsServeRuns == Spec => []LoginServesRuns
<1>1. TypeInv /\ SignInv => LoginServesRuns
  <2> SUFFICES ASSUME TypeInv, SignInv, disk = "whole", ValidateStructure(file)
               PROVE  LoginServesRuns
    BY DEF LoginServesRuns, Readable, Usable
  <2>1. WellFormed(file) /\ Current = file /\ disk # "torn"
    BY DEF TypeInv, Current
  <2>2. ASSUME NEW c \in Flags \ guessed, signedIn[c] # {}, NEW device, NEW drivers,
               ValidDevice(file, device), Served(file, c, device, drivers)
        PROVE  DeviceDir(file, device, drivers) \subseteq signedIn[c]
    BY <2>1, <2>2, ServedDirectory DEF SignInv
  <2>3. \A c \in Flags \ guessed : signedIn[c] # {} =>
         /\ \A s \in DOMAIN file.sources : Served(file, c, file.sources[s], SourceDrivers) =>
              DeviceDir(file, file.sources[s], SourceDrivers) \subseteq signedIn[c]
         /\ \A k \in DOMAIN file.sinks : Served(file, c, file.sinks[k], SinkDrivers) =>
              DeviceDir(file, file.sinks[k], SinkDrivers) \subseteq signedIn[c]
    BY <2>2, ValidDevices
  <2>4. \A c \in DOMAIN file.creds : Bindings(file, c) # {} =>
         /\ {b[2] : b \in {x \in Bindings(file, c) : x[1] = "source"}} =
              {s \in DOMAIN file.sources : Served(file, c, file.sources[s], SourceDrivers)}
         /\ {b[2] : b \in {x \in Bindings(file, c) : x[1] = "sink"}} =
              {k \in DOMAIN file.sinks : Served(file, c, file.sinks[k], SinkDrivers)}
    BY <2>1, BindingsAreServed
  <2> QED BY <2>3, <2>4, Zenon DEF LoginServesRuns
<1> QED BY <1>1, TypeCorrect, SignCorrect, PTL

-----------------------------------------------------------------------------
(* Edits are local. *)

(* What an applied draft leaves as it was. *)
LEMMA OthersAsBefore ==
  ASSUME NEW t, WellFormed(t), NEW d \in Drafts, NEW n, n \in Applied(t, d)
  PROVE  /\ n.creds = t.creds /\ n.defCred = t.defCred /\ n.sinks = t.sinks
         /\ DOMAIN n.sources = DOMAIN t.sources \cup {d.source}
         /\ \A s \in DOMAIN t.sources \ {d.source} : n.sources[s] = t.sources[s]
         /\ DOMAIN n.routes = DOMAIN t.routes \cup (IF d.route = None THEN {} ELSE {d.route})
         /\ \A r \in DOMAIN t.routes \ {d.route} : n.routes[r] = t.routes[r]
<1>1. n = Edited(t, d)
  BY AppliedIsEdited
<1>2. /\ n.creds = t.creds /\ n.defCred = t.defCred /\ n.sinks = t.sinks
      /\ n.sources = With(t.sources, d.source, Drafted(t, d))
  BY <1>1, EditedFields
<1> DEFINE route == IF d.route \in DOMAIN t.routes THEN Attached(t, d) ELSE NewRoute(d)
<1>3. n.routes = IF d.route = None THEN t.routes ELSE With(t.routes, d.route, route)
  BY <1>1, EditedFields
<1> HIDE DEF route
<1>4. /\ DOMAIN n.sources = DOMAIN t.sources \cup {d.source}
      /\ \A s \in DOMAIN t.sources \ {d.source} : n.sources[s] = t.sources[s]
  BY <1>2 DEF With
<1>5. /\ DOMAIN n.routes = DOMAIN t.routes \cup (IF d.route = None THEN {} ELSE {d.route})
      /\ \A r \in DOMAIN t.routes \ {d.route} : n.routes[r] = t.routes[r]
  BY <1>3 DEF With
<1> QED BY <1>2, <1>4, <1>5

(* The route that a source is attached to changes in its references only. *)
LEMMA RouteAsBefore ==
  ASSUME NEW t, WellFormed(t), ValidateStructure(t), NEW d \in Drafts,
         NEW n, n \in Applied(t, d), NEW r \in DOMAIN t.routes
  PROVE  /\ n.routes[r].targets = t.routes[r].targets
         /\ n.routes[r].delete = t.routes[r].delete
         /\ n.routes[r].sameStore = t.routes[r].sameStore
         /\ n.routes[r].eligible = t.routes[r].eligible
         /\ \A s : s # d.source =>
              (s \in Range(n.routes[r].sources) <=> s \in Range(t.routes[r].sources))
<1>1. CASE r # d.route
  BY <1>1, OthersAsBefore
<1>2. CASE r = d.route
  <2>1. n.routes = With(t.routes, r, Attached(t, d))
    <3>1. r # None
      BY DEF ValidateStructure
    <3> QED BY <1>2, <3>1, AppliedIsEdited, EditedFields
  <2>2. n.routes[r] = Attached(t, d)
    BY <2>1 DEF With
  <2>3. IsRoute(t.routes[r])
    BY DEF WellFormed
  <2>4. CASE d.source \in Range(t.routes[r].sources)
    BY <1>2, <2>2, <2>4 DEF Attached
  <2>5. CASE d.source \notin Range(t.routes[r].sources)
    <3>1. n.routes[r] = [t.routes[r] EXCEPT !.sources = Append(t.routes[r].sources, d.source)]
      BY <1>2, <2>2, <2>5 DEF Attached
    <3>2. /\ n.routes[r].targets = t.routes[r].targets
          /\ n.routes[r].delete = t.routes[r].delete
          /\ n.routes[r].sameStore = t.routes[r].sameStore
          /\ n.routes[r].eligible = t.routes[r].eligible
          /\ n.routes[r].sources = Append(t.routes[r].sources, d.source)
      BY <2>3, <3>1 DEF IsRoute
    <3> DEFINE refs == t.routes[r].sources
    <3>3. refs \in Seq(Names) /\ d.source \in Names
      BY <2>3 DEF IsRoute, DraftType
    <3> HIDE DEF refs
    <3>4. \A s : s # d.source => (s \in Range(Append(refs, d.source)) <=> s \in Range(refs))
      BY <3>3 DEF Range
    <3> QED BY <3>2, <3>4 DEF refs
  <2> QED BY <2>4, <2>5
<1> QED BY <1>1, <1>2

(* What `config source` drafts is a webhook, configured as it was entered. *)
LEMMA DraftedIsWebhook ==
  ASSUME NEW t, WellFormed(t), NEW d \in Drafts
  PROVE  Drafted(t, d).driver = "webhook" /\ Drafted(t, d).configured = d.rooted
<1>1. CASE d.source \in DOMAIN t.sources
  <2>1. IsSource(t.sources[d.source])
    BY <1>1 DEF WellFormed
  <2>2. Drafted(t, d) = [t.sources[d.source] EXCEPT !.driver = "webhook", !.mode = "push",
                                                   !.configured = d.rooted]
    BY <1>1 DEF Drafted
  <2> QED BY <2>1, <2>2 DEF IsSource
<1>2. CASE d.source \notin DOMAIN t.sources
  <2>1. Drafted(t, d) =
          [[driver |-> "", mode |-> "", cred |-> None, folder |-> None, configured |-> FALSE]
             EXCEPT !.driver = "webhook", !.mode = "push", !.configured = d.rooted]
    BY <1>2 DEF Drafted
  <2> QED BY <2>1
<1> QED BY <1>1, <1>2

(* A usable topology stays usable, if the path entered is one for the driver. *)
LEMMA StaysUsable ==
  ASSUME NEW t, WellFormed(t), Usable(t), NEW d \in Drafts, NEW n, n \in Applied(t, d)
  PROVE  Usable(n) <=> d.rooted
<1>1. /\ ValidateStructure(t) /\ ValidDrivers(t)
      /\ d.source # None /\ n = Edited(t, d)
      /\ ValidSource(t, n.sources[d.source])
      /\ d.route # None => ValidRoute(n, n.routes[d.route])
  BY AppliedIsEdited DEF Usable, DraftType
<1>2. /\ n.defSource = IF t.defSource = None THEN d.source ELSE t.defSource
      /\ n.defRoute = IF t.defRoute = None THEN d.route ELSE t.defRoute
      /\ n.sources[d.source] = Drafted(t, d)
  <2>1. /\ Edited(t, d).defSource = IF t.defSource = None THEN d.source ELSE t.defSource
        /\ Edited(t, d).defRoute = IF t.defRoute = None THEN d.route ELSE t.defRoute
        /\ Edited(t, d).sources = With(t.sources, d.source, Drafted(t, d))
    BY EditedFields
  <2>2. \A v : With(t.sources, d.source, v)[d.source] = v
    BY DEF With
  <2> QED BY <1>1, <2>1, <2>2
<1>3. ValidateStructure(n)
  <2>1. /\ DOMAIN n.sources # {} /\ DOMAIN n.routes # {}
        /\ None \notin DOMAIN n.creds \cup DOMAIN n.sources \cup DOMAIN n.sinks \cup DOMAIN n.routes
    BY <1>1, OthersAsBefore DEF ValidateStructure
  <2>2. /\ Default(n.defCred, n.creds) /\ Default(n.defSource, n.sources)
        /\ Default(n.defRoute, n.routes)
    BY <1>1, <1>2, OthersAsBefore DEF ValidateStructure, Default
  <2>3. \A s \in DOMAIN n.sources : ValidSource(n, n.sources[s])
    <3>1. \A x : ValidSource(t, x) <=> ValidSource(n, x)
      <4>1. n.creds = t.creds
        BY OthersAsBefore
      <4> QED BY <4>1, Zenon DEF ValidSource, ValidDevice
    <3>2. \A s \in DOMAIN t.sources : ValidSource(t, t.sources[s])
      BY <1>1 DEF ValidateStructure
    <3>3. \A s \in DOMAIN n.sources :
            s = d.source \/ (s \in DOMAIN t.sources /\ n.sources[s] = t.sources[s])
      BY OthersAsBefore
    <3> QED BY <1>1, <3>1, <3>2, <3>3, Zenon
  <2>4. \A k \in DOMAIN n.sinks : ValidDevice(n, n.sinks[k])
    <3>1. n.creds = t.creds /\ n.sinks = t.sinks
      BY OthersAsBefore
    <3>2. \A k \in DOMAIN t.sinks : ValidDevice(t, t.sinks[k])
      BY <1>1 DEF ValidateStructure
    <3> QED BY <3>1, <3>2, Zenon DEF ValidDevice
  <2>5. \A r \in DOMAIN n.routes : ValidRoute(n, n.routes[r])
    <3> SUFFICES ASSUME NEW r \in DOMAIN n.routes, r # d.route PROVE ValidRoute(n, n.routes[r])
      BY <1>1, OthersAsBefore DEF DraftType, ValidateStructure
    <3>1. r \in DOMAIN t.routes /\ n.routes[r] = t.routes[r] /\ ValidRoute(t, t.routes[r])
      BY <1>1, OthersAsBefore DEF ValidateStructure
    <3>2. DOMAIN t.sources \subseteq DOMAIN n.sources /\ n.sinks = t.sinks
      BY OthersAsBefore
    <3> QED BY <3>1, <3>2 DEF ValidRoute
  <2> QED BY <2>1, <2>2, <2>3, <2>4, <2>5 DEF ValidateStructure
<1>4. ValidDrivers(n) <=> d.rooted
  <2>1. /\ n.sources[d.source].driver = "webhook"
        /\ n.sources[d.source].configured = d.rooted
        /\ d.source \in DOMAIN n.sources
    BY <1>2, DraftedIsWebhook, OthersAsBefore
  <2>2. \A s \in DOMAIN n.sources :
          s = d.source \/ (s \in DOMAIN t.sources /\ n.sources[s] = t.sources[s])
    BY OthersAsBefore
  <2>3. n.sinks = t.sinks
    BY OthersAsBefore
  <2>4. "webhook" \in Registered
    BY DEF Registered, SourceDrivers
  <2>5. ASSUME ValidDrivers(n) PROVE d.rooted
    BY <2>1, <2>5, Zenon DEF ValidDrivers
  <2>6. ASSUME d.rooted PROVE ValidDrivers(n)
    <3>1. \A s \in DOMAIN n.sources :
            /\ n.sources[s].driver \in Registered
            /\ n.sources[s].driver = "webhook" => n.sources[s].configured
      BY <1>1, <2>1, <2>2, <2>4, <2>6, Zenon DEF ValidDrivers
    <3> QED BY <1>1, <2>3, <3>1, Zenon DEF ValidDrivers
  <2> QED BY <2>5, <2>6
<1> QED BY <1>3, <1>4, Zenon DEF Usable

(* Where a device looks for its state depends on the credentials alone. *)
LEMMA SameDirectories ==
  ASSUME NEW t, NEW u, u.creds = t.creds, u.defCred = t.defCred, NEW device, NEW drivers
  PROVE  DeviceDir(u, device, drivers) = DeviceDir(t, device, drivers)
<1>1. CASE device.driver \notin DOMAIN drivers
  BY <1>1, Zenon DEF DeviceDir
<1>2. CASE device.driver \in DOMAIN drivers /\ ~drivers[device.driver].credential
  BY <1>2, Zenon DEF DeviceDir
<1>3. CASE device.driver \in DOMAIN drivers /\ drivers[device.driver].credential
  <2>1. /\ \A c : StateDir(u, c) = StateDir(t, c)
        /\ ResolveCredentialRef(u, device.cred) = ResolveCredentialRef(t, device.cred)
    BY SameCredentials
  <2>2. \A S : {StateDir(u, x) : x \in S} = {StateDir(t, x) : x \in S}
    BY <2>1
  <2>3. /\ DeviceDir(u, device, drivers)
             = {StateDir(u, x) : x \in ResolveCredentialRef(u, device.cred)}
        /\ DeviceDir(t, device, drivers)
             = {StateDir(t, x) : x \in ResolveCredentialRef(t, device.cred)}
    BY <1>3, DirectoryOf
  <2> QED BY <2>1, <2>2, <2>3
<1> QED BY <1>1, <1>2, <1>3

(* The parts that a plan and a source run are made of. *)
PlanOf(targets, delete, sameStore, eligible) ==
  [targets |->
     [i \in DOMAIN targets |->
        [key |-> DeliveryKey(targets[i]), consumer |-> targets[i].sink,
         required |-> targets[i].required]],
   enabled |-> delete,
   sameStore |-> delete /\ sameStore,
   eligible |-> IF delete THEN eligible ELSE {}]

SinksOf(route) == {route.targets[i].sink : i \in DOMAIN route.targets}

SinkDirs(t, sinks) == [k \in sinks |-> DeviceDir(t, t.sinks[k], SinkDrivers)]

SourceDirs(t, s, plan, sinks) ==
  {d \in DeviceDir(t, s, SourceDrivers) :
     /\ s.mode = SourceDrivers[s.driver].mode
     /\ ValidPlan(plan)
     /\ \A k \in sinks : DeviceDir(t, t.sinks[k], SinkDrivers) # {}}

RunsOf(r, source, s, plan, sinks, dirs) ==
  {[route |-> r, source |-> source, plan |-> plan, sinks |-> sinks,
    lock |-> RunLockPath(dir, r, source, s),
    state |-> IF s.mode = "poll" THEN ProducerStatePath(dir, source, s)
              ELSE PushSpoolDir(dir, r, source, s),
    tx |-> FlowStateDir(dir, r, source, s)] : dir \in dirs}

(* A source run is what its parts make of it. *)
LEMMA RunParts ==
  ASSUME NEW t, NEW r, NEW source
  PROVE  SourceRun(t, r, source) =
           RunsOf(r, source, t.sources[source], ExecutionPlan(t.routes[r]),
                  SinkDirs(t, SinksOf(t.routes[r])),
                  SourceDirs(t, t.sources[source], ExecutionPlan(t.routes[r]),
                             SinksOf(t.routes[r])))
BY Zenon DEF SourceRun, RunsOf, SinkDirs, SourceDirs, SinksOf

(* Sources other than the new one run as before. *)
LEMMA SameRuns ==
  ASSUME NEW t, WellFormed(t), ValidateStructure(t), NEW d \in Drafts,
         NEW n, n \in Applied(t, d), NEW r \in DOMAIN t.routes,
         NEW source \in DOMAIN t.sources \ {d.source}
  PROVE  SourceRun(n, r, source) = SourceRun(t, r, source)
<1>1. /\ n.creds = t.creds /\ n.defCred = t.defCred /\ n.sinks = t.sinks
      /\ n.sources[source] = t.sources[source]
  BY OthersAsBefore
<1>2. ExecutionPlan(n.routes[r]) = ExecutionPlan(t.routes[r])
  <2>1. \A x : ExecutionPlan(x) = PlanOf(x.targets, x.delete, x.sameStore, x.eligible)
    BY Zenon DEF ExecutionPlan, PlanOf
  <2>2. /\ n.routes[r].targets = t.routes[r].targets
        /\ n.routes[r].delete = t.routes[r].delete
        /\ n.routes[r].sameStore = t.routes[r].sameStore
        /\ n.routes[r].eligible = t.routes[r].eligible
    BY RouteAsBefore
  <2>3. PlanOf(n.routes[r].targets, n.routes[r].delete, n.routes[r].sameStore,
               n.routes[r].eligible)
          = PlanOf(t.routes[r].targets, t.routes[r].delete, t.routes[r].sameStore,
                   t.routes[r].eligible)
    BY <2>2
  <2> QED BY <2>1, <2>3
<1>3. SinksOf(n.routes[r]) = SinksOf(t.routes[r])
  <2>1. n.routes[r].targets = t.routes[r].targets
    BY RouteAsBefore
  <2> QED BY <2>1 DEF SinksOf
<1>4. \A device, drivers : DeviceDir(n, device, drivers) = DeviceDir(t, device, drivers)
  BY <1>1, SameDirectories
<1>5. \A sinks : SinkDirs(n, sinks) = SinkDirs(t, sinks)
  BY <1>1, <1>4 DEF SinkDirs
<1>6. \A s, plan, sinks : SourceDirs(n, s, plan, sinks) = SourceDirs(t, s, plan, sinks)
  BY <1>1, <1>4 DEF SourceDirs
<1> QED BY <1>1, <1>2, <1>3, <1>5, <1>6, RunParts, Zenon

(* The set that a definition without an error takes its value from. *)
PlansOf(runs) == IF runs # {} /\ {} \notin runs THEN {UNION runs} ELSE {}

(* The plan of a named route and source. *)
LEMMA PlanOfOneSource ==
  ASSUME NEW t, Usable(t), NEW r \in DOMAIN t.routes, r # None,
         NEW source, source # None
  PROVE  RoutePlan(t, r, source, TRUE) =
           PlansOf({SourceRun(t, r, s) : s \in {source} \cap Range(t.routes[r].sources)})
<1>1. Select(r, t.defRoute, t.routes) = {r}
  <2>1. Select(r, t.defRoute, t.routes) = {r} \cap DOMAIN t.routes
    BY Zenon DEF Select
  <2> QED BY <2>1
<1>2. RouteSources(t, r, source, TRUE) = {source} \cap Range(t.routes[r].sources)
  BY Zenon DEF RouteSources
<1> DEFINE runs(x) == {SourceRun(t, x, s) : s \in RouteSources(t, x, source, TRUE)}
<1>3. RoutePlan(t, r, source, TRUE) =
        {UNION runs(x) : x \in {y \in {r} : runs(y) # {} /\ {} \notin runs(y)}}
  BY <1>1, Zenon DEF RoutePlan
<1>4. RoutePlan(t, r, source, TRUE) = PlansOf(runs(r))
  <2> HIDE DEF runs
  <2> QED BY <1>3 DEF PlansOf
<1> QED BY <1>2, <1>4

(* What `run` runs for a named source of a named route, *)
NamedPlan(t, r, s) == RoutePlan(t, r, s, TRUE)

(* is as before. *)
LEMMA SameRoutePlans ==
  ASSUME NEW t, WellFormed(t), Usable(t), NEW d \in Drafts, d.rooted,
         NEW n, n \in Applied(t, d)
  PROVE  \A r \in DOMAIN t.routes : \A s \in DOMAIN t.sources \ {d.source} :
           NamedPlan(n, r, s) = NamedPlan(t, r, s)
<1> TAKE r \in DOMAIN t.routes
<1> TAKE s \in DOMAIN t.sources \ {d.source}
<1>1. ValidateStructure(t) /\ Usable(n)
  BY StaysUsable DEF Usable
<1>2. r # None /\ s # None /\ r \in DOMAIN n.routes
  BY <1>1, OthersAsBefore DEF ValidateStructure
<1> DEFINE old == {s} \cap Range(t.routes[r].sources)
           new == {s} \cap Range(n.routes[r].sources)
<1>3. new = old
  BY <1>1, RouteAsBefore
<1>4. \A x \in old : SourceRun(n, r, x) = SourceRun(t, r, x)
  BY <1>1, SameRuns
<1>5. /\ NamedPlan(n, r, s) = PlansOf({SourceRun(n, r, x) : x \in new})
      /\ NamedPlan(t, r, s) = PlansOf({SourceRun(t, r, x) : x \in old})
  BY <1>1, <1>2, PlanOfOneSource DEF NamedPlan
<1> HIDE DEF old, new
<1>6. {SourceRun(n, r, x) : x \in new} = {SourceRun(t, r, x) : x \in old}
  BY <1>3, <1>4
<1> QED BY <1>5, <1>6

(* The plan of a named source without a route. *)
LEMMA PlanOfSourceAlone ==
  ASSUME NEW t, Usable(t), NEW s \in DOMAIN t.sources, s # None
  PROVE  SourcePlan(t, s) = {<<s, DeviceDir(t, t.sources[s], SourceDrivers)>>}
<1>1. Select(s, t.defSource, t.sources) = {s} \cap DOMAIN t.sources
  BY Zenon DEF Select
<1>2. Select(s, t.defSource, t.sources) = {s}
  BY <1>1
<1>3. SourcePlan(t, s) = {<<x, DeviceDir(t, t.sources[x], SourceDrivers)>> : x \in {s}}
  BY <1>2, Zenon DEF SourcePlan
<1> QED BY <1>3

(* An applied draft that the driver accepts changes no plan of another source. *)
LEMMA PlansStay ==
  ASSUME NEW t, WellFormed(t), Usable(t), NEW d \in Drafts, d.rooted,
         NEW n, n \in Applied(t, d)
  PROVE  SamePlans(t, n, d)
<1>1. ValidateStructure(t) /\ Usable(n)
  BY StaysUsable DEF Usable
<1>2. \A r \in DOMAIN t.routes : \A s \in DOMAIN t.sources \ {d.source} :
        RoutePlan(n, r, s, TRUE) = RoutePlan(t, r, s, TRUE)
  <2>1. \A r \in DOMAIN t.routes : \A s \in DOMAIN t.sources \ {d.source} :
          NamedPlan(n, r, s) = NamedPlan(t, r, s)
    BY SameRoutePlans
  <2> QED BY <2>1, Zenon DEF NamedPlan
<1>3. ASSUME NEW s \in DOMAIN t.sources \ {d.source}
      PROVE  SourcePlan(n, s) = SourcePlan(t, s)
  <2>1. /\ n.creds = t.creds /\ n.defCred = t.defCred
        /\ s \in DOMAIN n.sources /\ n.sources[s] = t.sources[s]
    BY OthersAsBefore
  <2>2. s # None
    BY <1>1 DEF ValidateStructure
  <2>3. DeviceDir(n, n.sources[s], SourceDrivers) = DeviceDir(t, t.sources[s], SourceDrivers)
    BY <2>1, SameDirectories
  <2> QED BY <1>1, <2>1, <2>2, <2>3, PlanOfSourceAlone
<1> QED BY <1>2, <1>3 DEF SamePlans

(* An applied draft changes no selection but those the file left open. *)
LEMMA SelectionStays ==
  ASSUME NEW t, WellFormed(t), Usable(t), NEW d \in Drafts, NEW n, n \in Applied(t, d)
  PROVE  SameSelection(t, n, d)
<1>1. ValidateStructure(t) /\ n = Edited(t, d)
  BY AppliedIsEdited DEF Usable
<1>2. ASSUME t.defRoute # None PROVE Select(None, n.defRoute, n.routes) = {t.defRoute}
  <2>1. n.defRoute = t.defRoute
    BY <1>1, <1>2, EditedFields
  <2>2. t.defRoute \in DOMAIN n.routes
    BY <1>1, <1>2, OthersAsBefore DEF ValidateStructure, Default
  <2>3. Select(None, n.defRoute, n.routes) = {t.defRoute} \cap DOMAIN n.routes
    BY <1>2, <2>1, Zenon DEF Select
  <2> QED BY <2>2, <2>3
<1>3. ASSUME t.defSource # None, NEW r \in DOMAIN t.routes \ {d.route}
      PROVE  RouteSources(n, r, None, FALSE) = RouteSources(t, r, None, FALSE)
  <2>1. n.defSource = t.defSource
    BY <1>1, <1>3, EditedFields
  <2>2. n.routes[r] = t.routes[r]
    BY OthersAsBefore
  <2> QED BY <1>3, <2>1, <2>2, Zenon DEF RouteSources
<1> QED BY <1>2, <1>3 DEF SameSelection

(* Whatever an operator enters in `config source`: commands without flags    *)
(* keep the route and the source that the defaults name; and a usable        *)
(* topology stays usable, with the plans of all other sources in every       *)
(* route, exactly when the path entered begins with "/".                     *)
THEOREM EditsStayLocal == Spec => EditsAreLocal
<1>1. TypeInv /\ [Next]_vars =>
        (pc = "prompt" /\ pc' = "saving" /\ Usable(draft) =>
           \E d \in Drafts :
             /\ draft' \in Applied(draft, d)
             /\ SameSelection(draft, draft', d)
             /\ Usable(draft') <=> d.rooted
             /\ d.rooted => SamePlans(draft, draft', d))
  <2> SUFFICES ASSUME TypeInv, [Next]_vars, pc = "prompt", pc' = "saving", Usable(draft)
               PROVE  \E d \in Drafts :
                        /\ draft' \in Applied(draft, d)
                        /\ SameSelection(draft, draft', d)
                        /\ Usable(draft') <=> d.rooted
                        /\ d.rooted => SamePlans(draft, draft', d)
    OBVIOUS
  <2>1. Save
    BY DEF Next, Configure, Saved, Abandon, WriteByHand, Login, vars
  <2>2. PICK d \in Drafts : draft' \in Applied(draft, d)
    BY <2>1 DEF Save
  <2>3. WellFormed(draft)
    BY DEF TypeInv
  <2>4. SameSelection(draft, draft', d)
    BY <2>2, <2>3, SelectionStays
  <2>5. Usable(draft') <=> d.rooted
    BY <2>2, <2>3, StaysUsable
  <2>6. d.rooted => SamePlans(draft, draft', d)
    BY <2>2, <2>3, PlansStay
  <2> QED BY <2>2, <2>4, <2>5, <2>6
<1> QED BY <1>1, TypeCorrect, PTL DEF Spec, EditsAreLocal
=============================================================================
