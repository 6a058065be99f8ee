------------------------------ MODULE Topology ------------------------------
(***************************************************************************)
(* The topology file and what the commands make of it: `config source`     *)
(* changes it, `login` and the other credential commands choose a state    *)
(* directory by it, and `run`, `process`, `list`, `download` and `health`  *)
(* resolve their route, sources, sinks, credentials and state files from   *)
(* it (internal/appconfig, internal/flowruntime/plan.go,                   *)
(* internal/appruntime/credential_plan.go, internal/cli/config.go).        *)
(*                                                                         *)
(* A name is a sequence of words, the string its words joined by "-", so   *)
(* that flowStateScope is a concatenation; the empty name is "not set".    *)
(* What a lookup returns is a set: one element, or none for an error.      *)
(***************************************************************************)
EXTENDS Naturals, Sequences, FiniteSets, Functions

CONSTANTS
  Written,   \* topologies that an operator writes by hand
  Drafts,    \* what is entered in `config source`, see DraftType
  Cleaned,   \* words with characters that file names replace, and the outcome
  MaxEdits   \* bound: changes of the file

None == <<>>
DefaultName == <<"default">>
Base == <<"state">>   \* the base state directory

VARIABLES
  disk,      \* what the topology file is: "absent", "whole", or "torn" in its JSON
  file,      \* the topology in it, Empty unless it is whole
  draft,     \* the topology that `config source` has built and is saving
  pc,        \* what `config source` does next: "idle", "prompt" or "saving"
  signedIn,  \* signedIn[c]: where the last login for c has put the token record
  guessed,   \* flags whose last login found a file that it could not read
  edits

vars == <<disk, file, draft, pc, signedIn, guessed, edits>>

-----------------------------------------------------------------------------
(* The drivers (providers/registry.go). *)

SourceDrivers ==
  [graph   |-> [mode |-> "poll", credential |-> TRUE],
   imap    |-> [mode |-> "poll", credential |-> TRUE],
   webhook |-> [mode |-> "push", credential |-> FALSE]]

SinkDrivers ==
  [d \in {"graph", "ews", "imap", "file", "backup", "discard"} |->
     [credential |-> d \in {"graph", "ews", "imap"}]]

Registered == DOMAIN SourceDrivers \cup DOMAIN SinkDrivers

(* The topology. *)

Empty ==
  [creds |-> <<>>, sources |-> <<>>, sinks |-> <<>>, routes |-> <<>>,
   defCred |-> None, defSource |-> None, defRoute |-> None]

Readable == disk = "whole"

(* What a topology file can say, whether it makes sense or not. *)
Names == Seq(STRING)

IsSource(s) ==
  /\ DOMAIN s = {"driver", "mode", "cred", "folder", "configured"}
  /\ s.cred \in Names /\ s.folder \in Names

IsRoute(r) ==
  /\ DOMAIN r = {"sources", "targets", "delete", "sameStore", "eligible"}
  /\ r.sources \in Seq(Names)

WellFormed(t) ==
  /\ DOMAIN t = DOMAIN Empty
  /\ IsFiniteSet(DOMAIN t.creds)
  /\ \A s \in DOMAIN t.sources : s \in Names /\ IsSource(t.sources[s])
  /\ \A k \in DOMAIN t.sinks : k \in Names /\ t.sinks[k].cred \in Names
  /\ \A r \in DOMAIN t.routes : r \in Names /\ IsRoute(t.routes[r])

ASSUME WrittenAssumption == \A t \in Written : WellFormed(t)

Default(name, instances) == name # None => name \in DOMAIN instances

ValidDevice(t, d) ==
  /\ d.driver # ""
  /\ d.cred # None => d.cred \in DOMAIN t.creds

ValidSource(t, s) == ValidDevice(t, s) /\ s.mode # ""

Artifact(target) == IF target.artifact = "" THEN "primary" ELSE target.artifact

(* RouteTarget.Key *)
TargetKey(target) == <<target.sink, Artifact(target)>>

ValidRoute(t, r) ==
  /\ r.sources # <<>> /\ Range(r.sources) \subseteq DOMAIN t.sources
  /\ r.targets # <<>>
  /\ \A i \in DOMAIN r.targets : r.targets[i].sink \in DOMAIN t.sinks
  /\ \A i, j \in DOMAIN r.targets :
       TargetKey(r.targets[i]) = TargetKey(r.targets[j]) => i = j
  /\ \E i \in DOMAIN r.targets : r.targets[i].required
  /\ r.delete => r.eligible # {} /\ r.eligible \subseteq DOMAIN t.sinks

ValidateStructure(t) ==
  /\ DOMAIN t.sources # {} /\ DOMAIN t.routes # {}
  /\ None \notin DOMAIN t.creds \cup DOMAIN t.sources \cup DOMAIN t.sinks \cup DOMAIN t.routes
  /\ Default(t.defCred, t.creds)
  /\ Default(t.defSource, t.sources)
  /\ Default(t.defRoute, t.routes)
  /\ \A s \in DOMAIN t.sources : ValidSource(t, t.sources[s])
  /\ \A k \in DOMAIN t.sinks : ValidDevice(t, t.sinks[k])
  /\ \A r \in DOMAIN t.routes : ValidRoute(t, t.routes[r])

(* validateConfiguredDrivers: any registered driver will do; only the webhook *)
(* driver looks at its own configuration.                                    *)
ValidDrivers(t) ==
  /\ \A s \in DOMAIN t.sources :
       /\ t.sources[s].driver \in Registered
       /\ t.sources[s].driver = "webhook" => t.sources[s].configured
  /\ \A k \in DOMAIN t.sinks : t.sinks[k].driver \in Registered

(* loadRuntimeTopology *)
Usable(t) == ValidateStructure(t) /\ ValidDrivers(t)

-----------------------------------------------------------------------------
(* Credentials and their state directories. *)

Only(S) == IF Cardinality(S) = 1 THEN S ELSE {}

(* Topology.ResolveCredentialRef; None if there are no credentials at all. *)
ResolveCredentialRef(t, ref) ==
  CASE ref # None -> {ref} \cap DOMAIN t.creds
    [] ref = None /\ t.defCred # None -> {t.defCred} \cap DOMAIN t.creds
    [] OTHER ->
         IF DOMAIN t.creds = {} THEN {None}
         ELSE IF DefaultName \in DOMAIN t.creds THEN {DefaultName}
         ELSE Only(DOMAIN t.creds)

Clean(name) ==
  [i \in DOMAIN name |-> IF name[i] \in DOMAIN Cleaned THEN Cleaned[name[i]] ELSE name[i]]

DefaultCredentialStateDir(c) ==
  IF c \in {None, DefaultName} THEN Base ELSE Base \o <<"credentials">> \o Clean(c)

(* Config.WithCredential *)
StateDir(t, c) ==
  IF c # None /\ t.creds[c] # None THEN t.creds[c] ELSE DefaultCredentialStateDir(c)

(* configForSource and configForSink. *)
DeviceDir(t, d, drivers) ==
  CASE d.driver \notin DOMAIN drivers -> {}
    [] d.driver \in DOMAIN drivers /\ ~drivers[d.driver].credential -> {Base}
    [] OTHER -> {StateDir(t, c) : c \in ResolveCredentialRef(t, d.cred)}

(* Mutant: a credential named "default" comes before default_credential. *)
ImplicitRef_default(t) ==
  IF DefaultName \in DOMAIN t.creds THEN {DefaultName}
  ELSE IF t.defCred # None THEN {t.defCred} ELSE Only(DOMAIN t.creds)

(* implicitCredentialRef: what the credential commands take an empty reference *)
(* for when they list the bindings of a credential.                          *)
ImplicitRef(t) ==
  IF t.defCred # None THEN {t.defCred}
  ELSE IF DefaultName \in DOMAIN t.creds THEN {DefaultName} ELSE Only(DOMAIN t.creds)

(* resolveCredentialBindings; one unknown driver and the list stays empty. *)
Bindings(t, c) ==
  LET bound(d, drivers) ==
        /\ drivers[d.driver].credential
        /\ IF d.cred # None THEN d.cred = c ELSE c \in ImplicitRef(t)
  IN  IF (\E s \in DOMAIN t.sources : t.sources[s].driver \notin DOMAIN SourceDrivers)
         \/ (\E k \in DOMAIN t.sinks : t.sinks[k].driver \notin DOMAIN SinkDrivers)
        THEN {}
        ELSE {<<"source", s>> : s \in {x \in DOMAIN t.sources : bound(t.sources[x], SourceDrivers)}}
               \cup
             {<<"sink", k>> : k \in {x \in DOMAIN t.sinks : bound(t.sinks[x], SinkDrivers)}}

(* ResolveCredentialCommandPlan: where login, revoke and the token commands *)
(* work with the flag --credential c.  They do with a topology that does not *)
(* tell which credential is meant, ...                                      *)
ChosenDir(t, c) ==
  IF c # None THEN {StateDir(t, x) : x \in {c} \cap DOMAIN t.creds}
  ELSE LET found == ResolveCredentialRef(t, None)
       IN  IF found = {} THEN {Base} ELSE {StateDir(t, x) : x \in found}

(* ... without a file, and with a broken one. *)
CommandDir(c) ==
  IF Readable THEN ChosenDir(file, c) ELSE {DefaultCredentialStateDir(c)}

-----------------------------------------------------------------------------
(* Plans. *)

(* sanitizeFileComponent(flowStateScope(..)) *)
Scope(route, source, s) == Clean(route \o source \o <<s.driver>> \o s.folder)

(* Mutant: the run lock is named after the route as well. *)
RunLockPath_route(dir, route, source, s) == <<dir, "run", Scope(route, source, s)>>

(* RunLockPathFor and FlowProducerStatePathFor leave the route out, *)
RunLockPath(dir, route, source, s) == <<dir, "run", Scope(None, source, s)>>
ProducerStatePath(dir, source, s) == <<dir, "flow-sync", Scope(None, source, s)>>

(* FlowStateDirFor and pushSpoolDirForSource do not. *)
FlowStateDir(dir, route, source, s) == <<dir, "flow-state", Scope(route, source, s)>>
PushSpoolDir(dir, route, source, s) ==
  FlowStateDir(dir, route, source, s) \o <<"push-spool", Scope(None, source, s)>>

(* DeliveryTarget.Key: by its own name, if the target has one. *)
DeliveryKey(target) ==
  IF target.name # None THEN target.name ELSE target.sink \o <<":", Artifact(target)>>

(* buildMailflowPlan *)
ExecutionPlan(r) ==
  [targets |->
     [i \in DOMAIN r.targets |->
        [key |-> DeliveryKey(r.targets[i]), consumer |-> r.targets[i].sink,
         required |-> r.targets[i].required]],
   enabled |-> r.delete,
   sameStore |-> r.delete /\ r.sameStore,
   eligible |-> IF r.delete THEN r.eligible ELSE {}]

(* ExecutionPlan.Validate *)
ValidPlan(plan) ==
  /\ \E i \in DOMAIN plan.targets : plan.targets[i].required
  /\ \A i, j \in DOMAIN plan.targets : plan.targets[i].key = plan.targets[j].key => i = j

(* buildSourceRun *)
SourceRun(t, r, source) ==
  LET s == t.sources[source]
      route == t.routes[r]
      sinks == {route.targets[i].sink : i \in DOMAIN route.targets}
  IN  {[route |-> r, source |-> source, plan |-> ExecutionPlan(route),
        sinks |-> [k \in sinks |-> DeviceDir(t, t.sinks[k], SinkDrivers)],
        lock |-> RunLockPath(dir, r, source, s),
        state |-> IF s.mode = "poll" THEN ProducerStatePath(dir, source, s)
                  ELSE PushSpoolDir(dir, r, source, s),
        tx |-> FlowStateDir(dir, r, source, s)] :
         dir \in {d \in DeviceDir(t, s, SourceDrivers) :
                    /\ s.mode = SourceDrivers[s.driver].mode
                    /\ ValidPlan(ExecutionPlan(route))
                    /\ \A k \in sinks : DeviceDir(t, t.sinks[k], SinkDrivers) # {}}}

(* selectRouteName and selectSourceName: the flag, the default, or the only one. *)
Select(flag, default, instances) ==
  (CASE flag # None -> {flag}
     [] flag = None /\ default # None -> {default}
     [] OTHER -> Only(DOMAIN instances)) \cap DOMAIN instances

(* selectRouteSources: `run` and `health` take all sources of the route, *)
(* `process` takes one.                                                  *)
RouteSources(t, r, flag, all) ==
  LET refs == t.routes[r].sources
  IN  CASE flag # None -> {flag} \cap Range(refs)
        [] flag = None /\ all -> Range(refs)
        [] flag = None /\ ~all /\ t.defSource # None -> {t.defSource} \cap Range(refs)
        [] OTHER -> IF Len(refs) = 1 THEN Range(refs) ELSE {}

(* ResolveRoutePlan: the set of source runs, if all of them resolve. *)
RoutePlan(t, routeFlag, sourceFlag, all) ==
  LET runs(r) == {SourceRun(t, r, s) : s \in RouteSources(t, r, sourceFlag, all)}
  IN  IF Usable(t)
        THEN {UNION runs(r) : r \in {x \in Select(routeFlag, t.defRoute, t.routes) :
                                       runs(x) # {} /\ {} \notin runs(x)}}
        ELSE {}

(* ResolveSourcePlan: `list` and `download` name no route. *)
SourcePlan(t, flag) ==
  IF Usable(t)
    THEN {<<s, DeviceDir(t, t.sources[s], SourceDrivers)>> :
            s \in Select(flag, t.defSource, t.sources)}
    ELSE {}

-----------------------------------------------------------------------------
(* `config source`. *)

(* A draft: the source's name, its route and, for a new route, its sink, and *)
(* whether the path entered for it begins with "/".  The prompts refuse all  *)
(* else that the webhook driver would: blanks and negative numbers.          *)
DraftType(d) ==
  d \in [source : Names \ {None}, route : Names, sink : Names, rooted : BOOLEAN]

ASSUME DraftsAssumption == \A d \in Drafts : DraftType(d)
ASSUME EditsAssumption == MaxEdits \in Nat

(* ConfigureSource: the only driver that can be configured is webhook; what  *)
(* else an existing source of that name says stays as it is.  The path is    *)
(* taken as it is entered, so the driver may not accept what is configured.  *)
Drafted(t, d) ==
  LET old == IF d.source \in DOMAIN t.sources THEN t.sources[d.source]
             ELSE [driver |-> "", mode |-> "", cred |-> None, folder |-> None,
                   configured |-> FALSE]
  IN  [old EXCEPT !.driver = "webhook", !.mode = "push", !.configured = d.rooted]

NewRoute(d) ==
  [sources |-> <<d.source>>,
   targets |-> <<[name |-> d.sink, sink |-> d.sink, artifact |-> "primary", required |-> TRUE]>>,
   delete |-> FALSE, sameStore |-> FALSE, eligible |-> {}]

(* The route with the source appended to its references, if it is new there. *)
Attached(t, d) ==
  LET route == t.routes[d.route]
  IN  IF d.source \in Range(route.sources) THEN route
      ELSE [route EXCEPT !.sources = Append(@, d.source)]

With(f, k, v) == [x \in DOMAIN f \cup {k} |-> IF x = k THEN v ELSE f[x]]

(* The topology with the draft in it; what had no default gets it as one. *)
Edited(t, d) ==
  LET route == IF d.route \in DOMAIN t.routes THEN Attached(t, d) ELSE NewRoute(d)
      withSource == [t EXCEPT !.sources = With(@, d.source, Drafted(t, d)),
                              !.defSource = IF @ = None THEN d.source ELSE @]
  IN  IF d.route = None THEN withSource
      ELSE [withSource EXCEPT !.routes = With(@, d.route, route),
                              !.defRoute = IF @ = None THEN d.route ELSE @]

(* Mutant: nothing is validated before it is saved. *)
Applied_unchecked(t, d) == {Edited(t, d)}

(* applySourceDraft validates the source and its route, nothing else: the    *)
(* drivers' validation is left to the commands that load the file.           *)
Applied(t, d) ==
  LET new == Edited(t, d)
  IN  IF /\ ValidSource(t, new.sources[d.source])
         /\ d.route # None => ValidRoute(new, new.routes[d.route])
        THEN {new} ELSE {}

-----------------------------------------------------------------------------
Flags == {None} \cup UNION {DOMAIN t.creds : t \in Written}

Init ==
  /\ \/ disk = "whole" /\ file \in Written
     \/ disk = "absent" /\ file = Empty
  /\ draft = Empty
  /\ pc = "idle"
  /\ signedIn = [c \in Flags |-> {}]
  /\ guessed = {}
  /\ edits = 0

(* loadOrInitTopology: a file that is missing is an empty topology, one that *)
(* cannot be parsed ends the command.                                        *)
Configure ==
  /\ pc = "idle" /\ disk # "torn"
  /\ edits < MaxEdits
  /\ edits' = edits + 1
  /\ draft' = file
  /\ pc' = "prompt"
  /\ UNCHANGED <<disk, file, signedIn, guessed>>

(* SaveTopologyFile: os.WriteFile truncates the file ... *)
Save ==
  /\ pc = "prompt"
  /\ \E d \in Drafts : draft' \in Applied(draft, d)
  /\ disk' = "torn" /\ file' = Empty
  /\ pc' = "saving"
  /\ UNCHANGED <<signedIn, guessed, edits>>

(* ... and then fills it. *)
Saved ==
  /\ pc = "saving"
  /\ disk' = "whole" /\ file' = draft
  /\ draft' = Empty
  /\ pc' = "idle"
  /\ UNCHANGED <<signedIn, guessed, edits>>

(* The operator quits, the draft is refused, or the process is killed. *)
Abandon ==
  /\ pc # "idle"
  /\ draft' = Empty
  /\ pc' = "idle"
  /\ UNCHANGED <<disk, file, signedIn, guessed, edits>>

(* The operator writes the file; earlier logins need not fit it. *)
WriteByHand ==
  /\ pc = "idle" /\ edits < MaxEdits
  /\ edits' = edits + 1
  /\ disk' = "whole" /\ file' \in Written
  /\ signedIn' = [c \in Flags |-> {}]
  /\ guessed' = {}
  /\ UNCHANGED <<draft, pc>>

(* `login --credential c` puts the token record where CommandDir says. *)
Login(c) ==
  /\ CommandDir(c) # {}
  /\ signedIn' = [signedIn EXCEPT ![c] = CommandDir(c)]
  /\ guessed' = IF disk = "torn" THEN guessed \cup {c} ELSE guessed \ {c}
  /\ UNCHANGED <<disk, file, draft, pc, edits>>

Next == Configure \/ Save \/ Saved \/ Abandon \/ WriteByHand \/ \E c \in Flags : Login(c)

Spec == Init /\ [][Next]_vars

-----------------------------------------------------------------------------
(* All source runs that any process started with this file may make. *)
SourceRuns(t) ==
  UNION {UNION {SourceRun(t, r, s) : s \in Range(t.routes[r].sources)} : r \in DOMAIN t.routes}

(* Two runs share a state file, a spool, or the transactions of a mail, whose *)
(* key begins with the name of the source.                                   *)
Share(a, b) == a.state = b.state \/ (a.tx = b.tx /\ a.source = b.source)

Plain(name) == Len(name) = 1 /\ name[1] \notin DOMAIN Cleaned

(* README "state and safety": what two runs share, the run lock protects,   *)
(* although the lock is scoped by source, driver and folder and the         *)
(* transactions also by route; and two sources of a route neither share     *)
(* state nor refuse each other, if their names are plain (files are named   *)
(* after several names joined by "-", with other characters replaced).      *)
LocksMatchState ==
  Readable /\ Usable(file) =>
    \A a, b \in SourceRuns(file) :
      /\ Share(a, b) => a.lock = b.lock
      /\ Plain(a.source) /\ Plain(b.source) /\ a.source # b.source =>
           ~Share(a, b) /\ a.lock # b.lock

(* The devices that need the credential a flag stands for. *)
Served(t, c, device, drivers) ==
  /\ device.driver \in DOMAIN drivers /\ drivers[device.driver].credential
  /\ IF c = None THEN device.cred = None ELSE c \in ResolveCredentialRef(t, device.cred)

(* A login serves the runs: whatever `config source` does to the file after  *)
(* a login, with or without --credential, the sources and sinks that resolve *)
(* to that credential look for the token where the login has put it, and     *)
(* they are the ones that the login has listed as bound to it.  Named        *)
(* accident: a login that runs while `config source` writes the file, or     *)
(* after a crash in there, takes the directory for one without a topology.   *)
LoginServesRuns ==
  Readable /\ Usable(file) =>
    /\ \A c \in Flags \ guessed : signedIn[c] # {} =>
         /\ \A s \in DOMAIN file.sources : Served(file, c, file.sources[s], SourceDrivers) =>
              DeviceDir(file, file.sources[s], SourceDrivers) \subseteq signedIn[c]
         /\ \A k \in DOMAIN file.sinks : Served(file, c, file.sinks[k], SinkDrivers) =>
              DeviceDir(file, file.sinks[k], SinkDrivers) \subseteq signedIn[c]
    /\ \A c \in DOMAIN file.creds : Bindings(file, c) # {} =>
         /\ {b[2] : b \in {x \in Bindings(file, c) : x[1] = "source"}} =
              {s \in DOMAIN file.sources : Served(file, c, file.sources[s], SourceDrivers)}
         /\ {b[2] : b \in {x \in Bindings(file, c) : x[1] = "sink"}} =
              {k \in DOMAIN file.sinks : Served(file, c, file.sinks[k], SinkDrivers)}

(* All other sources keep their plans in every route: *)
SamePlans(old, new, d) ==
  /\ \A r \in DOMAIN old.routes : \A s \in DOMAIN old.sources \ {d.source} :
       RoutePlan(new, r, s, TRUE) = RoutePlan(old, r, s, TRUE)
  /\ \A s \in DOMAIN old.sources \ {d.source} : SourcePlan(new, s) = SourcePlan(old, s)

(* What a command without flags selects stays selected: *)
SameSelection(old, new, d) ==
  /\ old.defRoute # None => Select(None, new.defRoute, new.routes) = {old.defRoute}
  /\ old.defSource # None =>
       \A r \in DOMAIN old.routes \ {d.route} :
         RouteSources(new, r, None, FALSE) = RouteSources(old, r, None, FALSE)

(* `config source` adds to a topology: a command without flags keeps its     *)
(* route and source, unless the file has no default_route or default_source: *)
(* those the new source and its route become, although the commands had      *)
(* inferred the only ones before.  A usable topology stays usable, and all   *)
(* other sources keep their plans in every route, if the path entered begins *)
(* with "/", and only then: one that does not is saved as well, and no       *)
(* command will take the file until it has been corrected.                   *)
EditsAreLocal ==
  [][pc = "prompt" /\ pc' = "saving" /\ Usable(draft) =>
       \E d \in Drafts :
         /\ draft' \in Applied(draft, d)
         /\ SameSelection(draft, draft', d)
         /\ Usable(draft') <=> d.rooted
         /\ d.rooted => SamePlans(draft, draft', d)]_vars

-----------------------------------------------------------------------------
(* What makes the properties inductive. *)

(* `config source` edits what is in the file, and all files are topologies. *)
TypeInv ==
  /\ disk \in {"absent", "whole", "torn"} /\ pc \in {"idle", "prompt", "saving"}
  /\ WellFormed(file) /\ WellFormed(draft)
  /\ disk # "whole" => file = Empty
  /\ pc = "prompt" => disk # "torn" /\ draft = file
  /\ pc = "saving" => disk = "torn"
  /\ DOMAIN signedIn = Flags

(* What the file says, or will say in a moment. *)
Current == IF pc = "saving" THEN draft ELSE file

(* A login that found a file, or none, has put the record where it would    *)
(* today, or the file was made by `config source` alone and knows of no     *)
(* credentials.  Nothing is claimed while the file is left broken.          *)
SignInv ==
  (disk = "torn" => pc = "saving") =>
    \A c \in Flags \ guessed : signedIn[c] # {} =>
      \/ signedIn[c] = ChosenDir(Current, c)
      \/ /\ DOMAIN Current.creds = {} /\ Current.defCred = None
         /\ signedIn[c] = {DefaultCredentialStateDir(c)}
=============================================================================
