----------------------------- MODULE Credential -----------------------------
(***************************************************************************)
(* One credential: its token record (token.json or the keyring entry), its *)
(* local configuration (config.json), and the processes that use them: a   *)
(* `run` that acquires tokens as long as it lives, and the commands login, *)
(* revoke, token import and any command that needs a token.                *)
(*                                                                         *)
(* auth.Session keeps the account in memory (the MSAL cache) and puts it   *)
(* through msalCacheAccessor into the record; a guard (a mutex and a flock *)
(* on .token-store.lock) encloses every operation except the export that   *)
(* MSAL itself makes at the end of a device code login.                    *)
(*                                                                         *)
(* Refresh tokens are numbered in the order the service issues them.  As   *)
(* the Microsoft service does, it goes on accepting a refresh token after  *)
(* it has issued a newer one, until the sessions are revoked.              *)
(***************************************************************************)
EXTENDS Naturals

CONSTANTS
  Services,   \* `run` processes: they keep the MSAL cache between acquisitions
  Commands,   \* commands: one errand, then the process ends
  NoOne,      \* the guard is free
  NoRecord,   \* there is no token record
  Imported,   \* does a login start from a machine with an imported token?
  MaxTokens,  \* bound: refresh tokens issued
  MaxFaults   \* bound: crashes, failed saves and failed removals

Procs == Services \cup Commands

ASSUME ProcsAssumption == NoOne \notin Procs /\ Services \cap Commands = {}
ASSUME BoundAssumption == MaxTokens \in Nat \ {0} /\ MaxFaults \in Nat /\ Imported \in BOOLEAN

VARIABLES
  record,   \* the sessionRecord on disk
  config,   \* config.json: "absent", "whole", or "torn" in the middle of a write
  live,     \* refresh tokens that the service accepts
  issued,   \* number of refresh tokens issued so far
  guard,    \* holder of the store guard
  pc,       \* pc[p]: the step p takes next
  op,       \* op[p]: the errand of p
  mem,      \* mem[p]: the refresh token in p's MSAL cache, 0 if there is no account
  buf,      \* buf[p]: the record that p has loaded and is going to save
  signedIn, \* a login has succeeded or an import taken effect; nothing has ended it
  mishaps,  \* which of the named accidents below have happened
  faults

service == <<live, issued>>
history == <<signedIn, mishaps>>
vars == <<record, config, service, guard, pc, op, mem, buf, history, faults>>

(* sessionRecord: the refresh token inside Cache, Token.RefreshToken, and  *)
(* whether Token holds an access token.  0 stands for "none".  Format is   *)
(* derived from these and decides nothing.                                 *)
Record == [cache : Nat, refresh : Nat, access : BOOLEAN]

ASSUME NoRecordAssumption == NoRecord \notin Record

(* Mutant: a token without an access token loses the field. *)
Empty_short == [cache |-> 0, refresh |-> 0]

Empty == [cache |-> 0, refresh |-> 0, access |-> FALSE]

LoadedOrEmpty == IF record = NoRecord THEN Empty ELSE record

(* The record is a way to get a token without the user. *)
Renewable(r) == r # NoRecord /\ (r.cache \in live \/ r.refresh \in live)

Errands == {"none", "acquire", "login", "import", "revoke", "relogin", "reacquire", "erase"}

(* Places where p holds the guard. *)
Guarded ==
  {"account", "silent", "legacy", "refresh", "legacySave", "persist", "persisting",
   "import", "logout"}

Places ==
  Guarded \cup {"idle", "lock", "configure", "configuring", "device", "export",
                "exporting", "post", "clear"}

Holds(p) == guard = p

(* Accidents that the code does not exclude; properties name the ones that *)
(* spoil them.  "dropped": an acquisition saved a record without a cache   *)
(* over one whose cache serves: it ran between the export of a login,      *)
(* which does not take the guard, and that login's persistMSALToken, or    *)
(* after a login that died there.  "buried": an import while another       *)
(* process keeps an account in memory, whose next access token takes the   *)
(* place of the imported refresh token.  "outlived": a process that was    *)
(* signed in before a revoke brought the record back.  "kept": revoke      *)
(* could not remove the record but cleared config.json.  "torn": a login   *)
(* died or failed while it wrote config.json, or two logins wrote it at the *)
(* same time.  "crossed": a revoke removed the record or config.json while  *)
(* another command was importing, signing in, or revoking, which may sign  *)
(* in.                                                                     *)
Accidents == {"dropped", "buried", "outlived", "kept", "torn", "crossed"}

-----------------------------------------------------------------------------
Init ==
  /\ record \in {NoRecord} \cup
        (IF Imported THEN {[cache |-> 0, refresh |-> 1, access |-> TRUE]} ELSE {})
  /\ config = IF record = NoRecord THEN "absent" ELSE "whole"
  /\ issued = IF record = NoRecord THEN 0 ELSE 1
  /\ live = 1..issued
  /\ guard = NoOne
  /\ pc = [p \in Procs |-> "idle"]
  /\ op = [p \in Procs |-> "none"]
  /\ mem = [p \in Procs |-> 0]
  /\ buf = [p \in Procs |-> Empty]
  /\ signedIn = (record # NoRecord)
  /\ mishaps = {}
  /\ faults = 0

Goto(p, place) == pc' = [pc EXCEPT ![p] = place]

(* Mutant: an errand that fails keeps the file lock. *)
Release_onSuccess(p, good) ==
  guard' = IF guard = p /\ good THEN NoOne ELSE guard

(* The deferred release(): every return of an operation leaves the guard. *)
Release(p, good) == guard' = IF guard = p THEN NoOne ELSE guard

(* Where an errand goes on after an operation returned with or without     *)
(* success.  `login` asks the service who signed in, with an acquisition;  *)
(* revoke signs in again when it cannot get a token for the remote call.   *)
Continue(p, good) ==
  LET errand == CASE op[p] = "login" /\ good -> "acquire"
                  [] op[p] = "revoke" /\ ~good -> "relogin"
                  [] op[p] = "relogin" /\ good -> "reacquire"
                  [] OTHER -> op[p]
      over == \/ op[p] \in {"acquire", "import"}
              \/ op[p] \in {"login", "relogin", "reacquire"} /\ ~good
      next == CASE errand = "acquire" -> "lock"
                [] errand = "relogin" -> "device"
                [] op[p] = "relogin" -> "lock"
                [] op[p] = "erase" -> "clear"
                [] OTHER -> "post"
  IN  /\ Release(p, good)
      /\ \/ /\ over
            /\ Goto(p, "idle")
            /\ op' = [op EXCEPT ![p] = "none"]
            /\ mem' = [mem EXCEPT ![p] = IF p \in Services THEN @ ELSE 0]
         \/ /\ ~over
            /\ Goto(p, next)
            /\ op' = [op EXCEPT ![p] = errand]
            /\ UNCHANGED mem
         (* revoke --force goes on without the remote call. *)
         \/ /\ op[p] \in {"relogin", "reacquire"} /\ ~good
            /\ Goto(p, "lock")
            /\ op' = [op EXCEPT ![p] = "erase"]
            /\ UNCHANGED mem
      /\ buf' = [buf EXCEPT ![p] = Empty]

-----------------------------------------------------------------------------
(* Mutant: login saves its configuration when it has signed in. *)
FirstLoginStep_signIn == "device"

FirstLoginStep == "configure"

(* The errands begin.  Every command but login needs the runtime name that *)
(* login has left in config.json; `run` does not read that file.           *)
Start(p) ==
  /\ pc[p] = "idle"
  /\ \/ /\ op' = [op EXCEPT ![p] = "acquire"]
        /\ Goto(p, "lock")
     \/ /\ p \in Commands /\ config # "torn"
        /\ op' = [op EXCEPT ![p] = "login"]
        /\ Goto(p, FirstLoginStep)
     \/ /\ p \in Commands /\ config = "whole"
        /\ op' = [op EXCEPT ![p] = "import"]
        /\ Goto(p, "lock")
     (* A kind of credential without remote sessions is only erased. *)
     \/ /\ p \in Commands /\ config = "whole"
        /\ \E errand \in {"revoke", "erase"} : op' = [op EXCEPT ![p] = errand]
        /\ Goto(p, "lock")
  /\ UNCHANGED <<record, config, service, guard, mem, buf, history, faults>>

(* SaveLocalConfig before the device code is requested: os.WriteFile *)
(* truncates the file, then writes it.                               *)
Configure(p) ==
  /\ pc[p] = "configure"
  /\ config' = "torn"
  /\ Goto(p, "configuring")
  /\ UNCHANGED <<record, service, guard, op, mem, buf, history, faults>>

(* What is under the name config.json when p leaves os.WriteFile: nothing,  *)
(* if a revoke has removed the name since p truncated the file; the file, if *)
(* p wrote all of it (done) and nobody else did; else the file or a part of  *)
(* it, or a mixture with what another login has written.                     *)
LeaveConfig(done) ==
  /\ config' \in IF config = "absent" THEN {"absent"}
                ELSE IF done /\ config = "torn" THEN {"whole"}
                ELSE {"torn", "whole"}
  /\ mishaps' = mishaps \cup (IF config' = "torn" THEN {"torn"} ELSE {})

Configured(p) ==
  /\ pc[p] = "configuring"
  /\ LeaveConfig(TRUE)
  /\ Goto(p, "device")
  /\ UNCHANGED <<record, service, guard, op, mem, buf, signedIn, faults>>

(* The service issues a refresh token. *)
Issue ==
  /\ issued < MaxTokens
  /\ issued' = issued + 1
  /\ live' = live \cup {issued + 1}

(* AuthenticationResult: the user entered the code; or did not in time. *)
SignIn(p) ==
  /\ pc[p] = "device"
  /\ Issue
  /\ mem' = [mem EXCEPT ![p] = issued + 1]
  /\ Goto(p, "export")
  /\ UNCHANGED <<record, config, guard, op, buf, history, faults>>

SignInFails(p) ==
  /\ pc[p] = "device"
  /\ Continue(p, FALSE)
  /\ UNCHANGED <<record, config, service, history, faults>>

(* Mutant: Logout does not take the guard. *)
Free_toErase(p) == guard = NoOne \/ op[p] = "erase"

Free(p) == guard = NoOne

(* acquireSessionStoreGuard blocks until the holder has released both locks. *)
Lock(p) ==
  /\ pc[p] = "lock"
  /\ Free(p)
  /\ guard' = p
  /\ Goto(p, CASE op[p] \in {"login", "relogin"} -> "persist"
               [] op[p] = "import" -> "import"
               [] op[p] = "erase" -> "logout"
               [] OTHER -> "account")
  /\ UNCHANGED <<record, config, service, op, mem, buf, history, faults>>

(* msalCacheAccessor.Replace: a record without a cache leaves the memory alone. *)
Replaced(p) ==
  IF record # NoRecord /\ record.cache # 0 THEN record.cache ELSE mem[p]

(* currentAccount. *)
Account(p) ==
  /\ pc[p] = "account"
  /\ mem' = [mem EXCEPT ![p] = Replaced(p)]
  /\ Goto(p, IF mem'[p] = 0 THEN "legacy" ELSE "silent")
  /\ UNCHANGED <<record, config, service, guard, op, buf, history, faults>>

(* AcquireTokenSilent: an unexpired access token of the cache, or a refresh *)
(* with the cache's refresh token, or an error.                             *)
Silent(p) ==
  /\ pc[p] = "silent"
  /\ mem' = [mem EXCEPT ![p] = Replaced(p)]
  /\ \/ Goto(p, "persist") /\ UNCHANGED service
     \/ Goto(p, "legacy") /\ UNCHANGED service
  /\ UNCHANGED <<record, config, guard, op, buf, history, faults>>

SilentRefresh(p) ==
  /\ pc[p] = "silent"
  /\ Replaced(p) \in live
  /\ Issue
  /\ mem' = [mem EXCEPT ![p] = issued + 1]
  /\ Goto(p, "export")
  /\ UNCHANGED <<record, config, guard, op, buf, history, faults>>

(* msalCacheAccessor.Export: load, replace the cache, save.  MSAL calls it *)
(* with the guard held in an acquisition, and without it in a login.       *)
Export(p) ==
  /\ pc[p] = "export"
  /\ buf' = [buf EXCEPT ![p] = [LoadedOrEmpty EXCEPT !.cache = mem[p]]]
  /\ Goto(p, "exporting")
  /\ UNCHANGED <<record, config, service, guard, op, mem, history, faults>>

Drops(p, new) ==
  record # NoRecord /\ record.cache \in live /\ new.cache \notin live /\ op[p] # "import"

Buries(p) == op[p] = "import" /\ \E q \in Procs \ {p} : mem[q] # 0

Crossed ==
  IF /\ \E p \in Procs : op[p] \in {"login", "import", "revoke", "relogin"}
     /\ \E p \in Procs : pc[p] \in {"logout", "clear"}
  THEN {"crossed"} ELSE {}

Outlives(p) == record = NoRecord /\ op[p] \notin {"login", "relogin", "import"}

(* saveRecord. *)
Saved(p, new) ==
  /\ record' = new
  /\ mishaps' = mishaps \cup (IF Drops(p, new) THEN {"dropped"} ELSE {})
                       \cup (IF Buries(p) THEN {"buried"} ELSE {})
                       \cup (IF Outlives(p) THEN {"outlived"} ELSE {})
                       \cup Crossed

Exported(p) ==
  /\ pc[p] = "exporting"
  /\ Saved(p, buf[p])
  /\ Goto(p, IF Holds(p) THEN "persist" ELSE "lock")
  /\ buf' = [buf EXCEPT ![p] = Empty]
  /\ UNCHANGED <<config, service, guard, op, mem, signedIn, faults>>

(* persistMSALToken: load, put the access token in, save. *)
Persist(p) ==
  /\ pc[p] = "persist"
  /\ buf' = [buf EXCEPT ![p] = [LoadedOrEmpty EXCEPT !.refresh = 0, !.access = TRUE]]
  /\ Goto(p, "persisting")
  /\ UNCHANGED <<record, config, service, guard, op, mem, history, faults>>

Persisted(p) ==
  /\ pc[p] = "persisting"
  /\ Saved(p, buf[p])
  /\ Continue(p, TRUE)
  /\ signedIn' = (signedIn \/ (op[p] = "login" /\ mem[p] \in live))
  /\ UNCHANGED <<config, service, faults>>

(* accessTokenFromLegacyRecord: an access token that still serves, no way   *)
(* to get one, or a refresh with Token.RefreshToken.                        *)
Legacy(p) ==
  /\ pc[p] = "legacy"
  /\ \/ /\ LoadedOrEmpty.access
        /\ Continue(p, TRUE)
     \/ /\ LoadedOrEmpty.refresh = 0
        /\ Continue(p, FALSE)
     \/ /\ LoadedOrEmpty.refresh # 0
        /\ buf' = [buf EXCEPT ![p] = record]
        /\ Goto(p, "refresh")
        /\ UNCHANGED <<guard, op, mem>>
  /\ UNCHANGED <<record, config, service, history, faults>>

(* Mutant: an answer without a refresh token clears the one in use. *)
Refreshed_bare(old, new) == [cache |-> 0, refresh |-> new, access |-> TRUE]

(* tokenStore.save makes a record without Cache; an answer that brings no *)
(* new refresh token (new = 0) leaves the old one in use.                 *)
Refreshed(old, new) ==
  [cache |-> 0, refresh |-> IF new = 0 THEN old ELSE new, access |-> TRUE]

LegacyRefresh(p) ==
  /\ pc[p] = "refresh"
  /\ buf[p].refresh \in live
  /\ \/ /\ Issue
        /\ buf' = [buf EXCEPT ![p] = Refreshed(buf[p].refresh, issued + 1)]
     \/ /\ buf' = [buf EXCEPT ![p] = Refreshed(buf[p].refresh, 0)]
        /\ UNCHANGED service
  /\ Goto(p, "legacySave")
  /\ UNCHANGED <<record, config, guard, op, mem, history, faults>>

LegacyRefreshFails(p) ==
  /\ pc[p] = "refresh"
  /\ Continue(p, FALSE)
  /\ UNCHANGED <<record, config, service, history, faults>>

LegacySave(p) ==
  /\ pc[p] = "legacySave"
  /\ Saved(p, buf[p])
  /\ Continue(p, TRUE)
  /\ UNCHANGED <<config, service, signedIn, faults>>

(* `token import`: a refresh token from elsewhere, or an access token only. *)
StoreToken(p) ==
  \/ /\ Issue
     /\ Saved(p, [cache |-> 0, refresh |-> issued + 1, access |-> FALSE])
     /\ signedIn' = TRUE
  \/ /\ Saved(p, [cache |-> 0, refresh |-> 0, access |-> TRUE])
     /\ signedIn' = FALSE
     /\ UNCHANGED service

Import(p) ==
  /\ pc[p] = "import"
  /\ StoreToken(p)
  /\ Continue(p, TRUE)
  /\ UNCHANGED <<config, faults>>

(* identityRevoker.Revoke ends all sessions of the user; on an error, which *)
(* may hide that it did, revoke leaves everything, or goes on if forced.    *)
Post(p) ==
  /\ pc[p] = "post"
  /\ op' = [op EXCEPT ![p] = "erase"]
  /\ Goto(p, "lock")
  /\ live' = {}
  /\ signedIn' = FALSE
  /\ UNCHANGED <<record, config, issued, guard, mem, buf, mishaps, faults>>

PostFails(p) ==
  /\ pc[p] = "post"
  /\ \/ /\ op' = [op EXCEPT ![p] = "erase"]
        /\ Goto(p, "lock")
        /\ UNCHANGED mem
     \/ /\ op' = [op EXCEPT ![p] = "none"]
        /\ Goto(p, "idle")
        /\ mem' = [mem EXCEPT ![p] = 0]
  /\ \/ live' = {} /\ signedIn' = FALSE
     \/ UNCHANGED <<live, signedIn>>
  /\ UNCHANGED <<record, config, issued, guard, buf, mishaps, faults>>

(* Session.Logout; a record that is not there is no error. *)
Logout(p) ==
  /\ pc[p] = "logout"
  /\ record' = NoRecord
  /\ signedIn' = FALSE
  /\ mishaps' = mishaps \cup Crossed
  /\ Continue(p, TRUE)
  /\ UNCHANGED <<config, service, faults>>

(* ClearLocalConfig, whether or not Logout succeeded. *)
Clear(p) ==
  /\ pc[p] = "clear"
  /\ config' = "absent"
  /\ mishaps' = mishaps \cup Crossed
  /\ Goto(p, "idle")
  /\ op' = [op EXCEPT ![p] = "none"]
  /\ mem' = [mem EXCEPT ![p] = 0]
  /\ UNCHANGED <<record, service, guard, buf, signedIn, faults>>

(* `run` is stopped and started again between two cycles. *)
Restart(p) ==
  /\ p \in Services /\ pc[p] = "idle"
  /\ mem' = [mem EXCEPT ![p] = 0]
  /\ UNCHANGED <<record, config, service, guard, pc, op, buf, history, faults>>

(* A save or a removal reports an error.  A record is written to a file of  *)
(* its own and renamed, and may be in place all the same, or it stays as it *)
(* was.  An acquisition whose export failed tries the legacy record.        *)
SaveFails(p) ==
  /\ pc[p] \in {"exporting", "persisting", "legacySave"}
  /\ \/ Saved(p, buf[p])
     \/ UNCHANGED <<record, mishaps>>
  /\ \/ /\ pc[p] = "exporting" /\ Holds(p)
        /\ Goto(p, "legacy")
        /\ buf' = [buf EXCEPT ![p] = Empty]
        /\ UNCHANGED <<guard, op, mem>>
     \/ /\ ~(pc[p] = "exporting" /\ Holds(p))
        /\ Continue(p, FALSE)
  /\ UNCHANGED <<config, service, signedIn>>

ImportFails(p) ==
  /\ pc[p] = "import"
  /\ \/ StoreToken(p)
     \/ UNCHANGED <<record, mishaps, service, signedIn>>
  /\ Continue(p, FALSE)
  /\ UNCHANGED config

(* A login ends when it cannot write its configuration, before os.WriteFile *)
(* has truncated the file or after.                                        *)
ConfigureFails(p) ==
  /\ \/ pc[p] = "configure" /\ UNCHANGED <<config, mishaps>>
     \/ pc[p] = "configuring" /\ LeaveConfig(FALSE)
  /\ Continue(p, FALSE)
  /\ UNCHANGED <<record, service, signedIn>>

(* Session.Logout or ClearLocalConfig fails; revoke clears the configuration *)
(* in either case.                                                          *)
RemovalFails(p) ==
  /\ \/ /\ pc[p] = "logout"
        /\ mishaps' = mishaps \cup {"kept"}
        /\ Continue(p, FALSE)
     \/ /\ pc[p] = "clear"
        /\ Goto(p, "idle")
        /\ op' = [op EXCEPT ![p] = "none"]
        /\ mem' = [mem EXCEPT ![p] = 0]
        /\ UNCHANGED <<guard, buf, mishaps>>
  /\ UNCHANGED <<record, config, service, signedIn>>

StoreFails(p) ==
  /\ faults < MaxFaults
  /\ faults' = faults + 1
  /\ SaveFails(p) \/ ImportFails(p) \/ ConfigureFails(p) \/ RemovalFails(p)

(* The process dies; the kernel drops its file lock. *)
Crash(p) ==
  /\ faults < MaxFaults
  /\ faults' = faults + 1
  /\ pc[p] # "idle"
  /\ guard' = IF Holds(p) THEN NoOne ELSE guard
  /\ Goto(p, "idle")
  /\ op' = [op EXCEPT ![p] = "none"]
  /\ mem' = [mem EXCEPT ![p] = 0]
  /\ buf' = [buf EXCEPT ![p] = Empty]
  /\ IF pc[p] = "configuring" THEN LeaveConfig(FALSE) ELSE UNCHANGED <<config, mishaps>>
  /\ UNCHANGED <<record, service, signedIn>>

Step(p) ==
  \/ Configure(p) \/ Configured(p) \/ SignIn(p) \/ SignInFails(p) \/ Lock(p)
  \/ Account(p) \/ Silent(p) \/ SilentRefresh(p) \/ Export(p) \/ Exported(p)
  \/ Persist(p) \/ Persisted(p) \/ Legacy(p) \/ LegacyRefresh(p)
  \/ LegacyRefreshFails(p) \/ LegacySave(p) \/ Import(p) \/ Post(p) \/ PostFails(p)
  \/ Logout(p) \/ Clear(p)

Next == \E p \in Procs : Start(p) \/ Step(p) \/ Restart(p) \/ StoreFails(p) \/ Crash(p)

Spec == Init /\ [][Next]_vars

(* Requests to the service are answered or time out, a login has 15 minutes, *)
(* and whoever waits for the lock file gets it when it is free often enough. *)
Fairness == \A p \in Procs : WF_vars(Step(p)) /\ SF_vars(Lock(p))

FairSpec == Spec /\ Fairness

-----------------------------------------------------------------------------
(* Every variable has its type; what is saved is always a whole record. *)
TypeOK ==
  /\ record \in Record \cup {NoRecord}
  /\ config \in {"absent", "whole", "torn"}
  /\ live \subseteq 1..issued
  /\ issued \in 0..MaxTokens
  /\ guard \in Procs \cup {NoOne}
  /\ pc \in [Procs -> Places]
  /\ op \in [Procs -> Errands]
  /\ mem \in [Procs -> 0..MaxTokens]
  /\ buf \in [Procs -> Record]
  /\ signedIn \in BOOLEAN
  /\ mishaps \subseteq Accidents
  /\ faults \in 0..MaxFaults

(* The token of one credential is refreshed by one process at a time, within *)
(* a process and between processes (README "状态与安全"): whoever reads the  *)
(* record, talks to the token endpoint and saves does it under the guard.    *)
RefreshIsSerialised ==
  \A p \in Procs :
    /\ pc[p] \in Guarded => Holds(p)
    /\ pc[p] \in {"export", "exporting"} /\ op[p] \notin {"login", "relogin"} => Holds(p)

(* A credential that was signed in stays usable without its user: whatever  *)
(* acquisitions, logins, crashes and failed saves do to the record, it holds *)
(* a refresh token that the service accepts, unless an acquisition dropped   *)
(* the cache that a login had just exported, the account that a process kept *)
(* in memory buried an import, or a revoke fell between the two saves of a   *)
(* login.                                                                    *)
StaysRenewable ==
  signedIn /\ mishaps \cap {"dropped", "buried", "crossed"} = {} => Renewable(record)

(* A revocation is not undone by a refresh that was under way: the record    *)
(* reappears only by a new sign-in, an import, or a process that has kept    *)
(* the account in its memory.                                                *)
OnlyMemoryOutlivesRevoke ==
  [][record = NoRecord /\ record' # NoRecord =>
       \E p \in Procs : pc[p] # pc'[p] /\ (mem[p] # 0 \/ op[p] = "import")]_vars

(* Whoever finds a token record on the machine can still revoke it: commands *)
(* need the runtime name in config.json, and login writes it first while     *)
(* revoke removes it last.  Four of the accidents break this.                *)
RevokeIsPossible ==
  record # NoRecord /\ mishaps \cap {"outlived", "kept", "torn", "crossed"} = {} =>
    config = "whole" \/ \E p \in Procs : pc[p] = "configuring"

(* No errand waits for ever for the guard, whoever dies or fails meanwhile. *)
EveryErrandEnds == \A p \in Procs : op[p] # "none" ~> op[p] = "none"
=============================================================================
