-------------------------- MODULE CredentialProofs --------------------------
(***************************************************************************)
(* Proofs about Credential: the record of a credential is read, refreshed  *)
(* and saved by one process at a time, and a revoked record comes back     *)
(* only through an account in memory or an import, for any number of       *)
(* services, commands, tokens and faults.                                  *)
(***************************************************************************)
EXTENDS Credential, TLAPS

Tokens == 0..MaxTokens

(* What an errand finds in a record or saves there. *)
Records == [cache : Tokens, refresh : Nat, access : BOOLEAN]

TypeInv ==
  /\ record \in Records \cup {NoRecord}
  /\ config \in {"absent", "whole", "torn"}
  /\ live \subseteq 1..issued
  /\ issued \in 0..MaxTokens
  /\ guard \in Procs \cup {NoOne}
  /\ pc \in [Procs -> Places]
  /\ op \in [Procs -> Errands]
  /\ mem \in [Procs -> Tokens]
  /\ buf \in [Procs -> Records]
  /\ signedIn \in BOOLEAN
  /\ mishaps \subseteq Accidents
  /\ faults \in 0..MaxFaults

(* What holds of p wherever it is: who works on the record has the guard;   *)
(* who exports or saves what MSAL returned has an account in memory; and a  *)
(* legacy refresh saves over the record that it has read.                   *)
Sound(p) ==
  /\ pc[p] \in Guarded => guard = p
  /\ pc[p] \in {"export", "exporting"} /\ op[p] \notin {"login", "relogin"} => guard = p
  /\ pc[p] \in {"configure", "configuring", "device"} => op[p] \in {"login", "relogin"}
  /\ pc[p] \in {"silent", "export", "exporting", "persist", "persisting"} => mem[p] # 0
  /\ pc[p] = "lock" /\ op[p] \in {"login", "relogin"} => mem[p] # 0
  /\ pc[p] = "import" => op[p] = "import"
  /\ pc[p] \in {"refresh", "legacySave"} => record # NoRecord

IInv == TypeInv /\ \A p \in Procs : Sound(p)

-----------------------------------------------------------------------------
(* The records of the proofs are records of the model, and none is the *)
(* missing file.                                                       *)
LEMMA RecordsAreRecords == Records \subseteq Record /\ NoRecord \notin Records
BY NoRecordAssumption, BoundAssumption DEF Records, Record, Tokens

(* The empty record is one. *)
LEMMA EmptyIsRecord == Empty \in Records
BY BoundAssumption DEF Empty, Records, Tokens

(* A record with a new MSAL cache is one. *)
LEMMA CacheReplaced ==
  ASSUME NEW r \in Records, NEW c \in Tokens
  PROVE  [r EXCEPT !.cache = c] \in Records
BY DEF Records

(* A record after a legacy refresh without a new refresh token is one. *)
LEMMA TokenReplaced ==
  ASSUME NEW r \in Records
  PROVE  [r EXCEPT !.refresh = 0, !.access = TRUE] \in Records
BY DEF Records

(* What a process loads is a record, whether the file is there or not. *)
LEMMA LoadedIsRecord ==
  ASSUME TypeInv
  PROVE  LoadedOrEmpty \in Records
BY EmptyIsRecord DEF TypeInv, LoadedOrEmpty

(* MSAL's replace leaves a token in memory that was there. *)
LEMMA ReplacedIsToken ==
  ASSUME TypeInv, NEW p \in Procs
  PROVE  Replaced(p) \in Tokens /\ (mem[p] # 0 => Replaced(p) # 0)
BY DEF TypeInv, Replaced, Records

(* Saving replaces the record and adds no accident but those with a name. *)
LEMMA AccidentsAreNamed ==
  ASSUME mishaps \subseteq Accidents, NEW p, NEW r, Saved(p, r)
  PROVE  record' = r /\ mishaps' \subseteq Accidents
BY DEF Saved, Accidents, Crossed

(* Whoever leaves os.WriteFile leaves a file of a named kind, or none where *)
(* there was none; if it is torn, the accident has a name.                  *)
LEMMA LeftConfig ==
  ASSUME mishaps \subseteq Accidents, NEW done, LeaveConfig(done)
  PROVE  /\ config' \in {"absent", "whole", "torn"} /\ mishaps' \subseteq Accidents
         /\ config' = "absent" <=> config = "absent"
         /\ config' = "torn" => "torn" \in mishaps'
BY DEF LeaveConfig, Accidents

(* Where an operation returns to: p leaves the guard, and it neither works  *)
(* on the record nor waits for the guard with a sign-in to be saved.        *)
Returned(p) ==
  /\ guard' = IF guard = p THEN NoOne ELSE guard
  /\ \E place \in {"idle", "lock", "device", "post", "clear"}, errand \in Errands :
       /\ pc' = [pc EXCEPT ![p] = place]
       /\ op' = [op EXCEPT ![p] = errand]
       /\ place = "device" => errand = "relogin"
       /\ place = "lock" => errand \in {"acquire", "reacquire", "erase"}
  /\ \E token \in {0, mem[p]} : mem' = [mem EXCEPT ![p] = token]
  /\ buf' = [buf EXCEPT ![p] = Empty]

(* An operation that succeeds returns, *)
LEMMA ReturnedWell ==
  ASSUME TypeInv, NEW p \in Procs, Continue(p, TRUE)
  PROVE  Returned(p)
<1>1. op[p] \in Errands /\ op = [op EXCEPT ![p] = op[p]] /\ mem = [mem EXCEPT ![p] = mem[p]]
  BY DEF TypeInv
<1> QED
  BY <1>1 DEF Continue, Release, Goto, Returned, Errands

(* and so does one that fails. *)
LEMMA ReturnedWithError ==
  ASSUME TypeInv, NEW p \in Procs, Continue(p, FALSE)
  PROVE  Returned(p)
<1>1. op[p] \in Errands /\ op = [op EXCEPT ![p] = op[p]] /\ mem = [mem EXCEPT ![p] = mem[p]]
  BY DEF TypeInv
<1> QED
  BY <1>1 DEF Continue, Release, Goto, Returned, Errands

(* A step of p leaves what holds of the others as it was. *)
LEMMA OthersStaySound ==
  ASSUME IInv, NEW p \in Procs, NEW q \in Procs \ {p},
         pc'[q] = pc[q], op'[q] = op[q], mem'[q] = mem[q],
         guard' = guard \/ guard \in {p, NoOne},
         record' = NoRecord => record = NoRecord \/ guard = p
  PROVE  Sound(q)'
BY ProcsAssumption DEF IInv, Sound, Guarded, Procs

-----------------------------------------------------------------------------
(* IInv holds at first. *)
LEMMA Initially == Init => IInv
<1> SUFFICES ASSUME Init PROVE IInv
  OBVIOUS
<1>1. record \in Records \cup {NoRecord}
  <2>1. \/ record = NoRecord
        \/ record = [cache |-> 0, refresh |-> 1, access |-> TRUE]
    BY DEF Init
  <2>2. [cache |-> 0, refresh |-> 1, access |-> TRUE] \in Records
    BY BoundAssumption DEF Records, Tokens
  <2> QED BY <2>1, <2>2
<1>2. TypeInv
  BY <1>1, BoundAssumption, EmptyIsRecord
     DEF Init, TypeInv, Places, Guarded, Errands, Tokens, Accidents
<1>3. \A p \in Procs : Sound(p)
  BY DEF Init, Sound, Guarded
<1> QED BY <1>2, <1>3 DEF IInv

(* An operation of p that returns and leaves the service and config.json *)
(* alone, whatever it did to the record and to the history.              *)
LEMMA ReturnKeepsInv ==
  ASSUME IInv, NEW p \in Procs, Returned(p),
         record' \in Records \cup {NoRecord},
         record' = NoRecord => record = NoRecord \/ guard = p,
         live' \subseteq 1..issued', issued' \in 0..MaxTokens,
         config' \in {"absent", "whole", "torn"},
         signedIn' \in BOOLEAN, mishaps' \subseteq Accidents, faults' \in 0..MaxFaults
  PROVE  IInv'
<1>1. PICK place \in {"idle", "lock", "device", "post", "clear"}, errand \in Errands :
        /\ pc' = [pc EXCEPT ![p] = place]
        /\ op' = [op EXCEPT ![p] = errand]
        /\ place = "device" => errand = "relogin"
        /\ place = "lock" => errand \in {"acquire", "reacquire", "erase"}
  BY DEF Returned
<1>2. PICK token \in {0, mem[p]} : mem' = [mem EXCEPT ![p] = token]
  BY DEF Returned
<1>3. token \in Tokens /\ place \in Places
  BY BoundAssumption DEF IInv, TypeInv, Tokens, Places
<1>4. TypeInv'
  BY <1>1, <1>2, <1>3, EmptyIsRecord DEF IInv, TypeInv, Returned
<1>5. Sound(p)'
  BY <1>1 DEF IInv, TypeInv, Sound, Guarded
<1>6. ASSUME NEW q \in Procs \ {p} PROVE Sound(q)'
  BY <1>1, <1>2, OthersStaySound DEF IInv, TypeInv, Returned
<1> QED BY <1>4, <1>5, <1>6 DEF IInv

(* A move of p inside its errand: what must hold of p at the new place is *)
(* left to the step.                                                      *)
LEMMA MoveKeepsOthers ==
  ASSUME IInv, NEW p \in Procs, NEW place, NEW errand, NEW token, NEW r,
         pc' = [pc EXCEPT ![p] = place],
         op' = [op EXCEPT ![p] = errand],
         mem' = [mem EXCEPT ![p] = token],
         guard' = guard \/ (guard = NoOne /\ guard' = p),
         record' = NoRecord => record = NoRecord \/ guard = p,
         TypeInv', Sound(p)'
  PROVE  IInv'
<1>1. ASSUME NEW q \in Procs \ {p} PROVE Sound(q)'
  BY OthersStaySound DEF IInv, TypeInv
<1> QED BY <1>1 DEF IInv

(* The service numbers the tokens that it issues. *)
LEMMA IssuedIsToken ==
  ASSUME TypeInv, Issue
  PROVE  /\ issued + 1 \in Tokens /\ issued + 1 # 0
         /\ issued' \in 0..MaxTokens /\ live' \subseteq 1..issued'
<1>1. /\ issued \in 0..MaxTokens /\ issued < MaxTokens /\ issued' = issued + 1
      /\ live' = live \cup {issued + 1}
      /\ live \subseteq 1..issued
  BY DEF TypeInv, Issue
<1>2. issued + 1 \in Tokens /\ issued + 1 # 0 /\ issued' \in 0..MaxTokens
  BY <1>1, BoundAssumption DEF Tokens
<1>3. live' \subseteq 1..issued'
  <2> SUFFICES ASSUME NEW n \in live' PROVE n \in 1..issued'
    OBVIOUS
  <2>1. n \in 1..issued \/ n = issued + 1
    BY <1>1
  <2> QED BY <1>1, <2>1, BoundAssumption
<1> QED BY <1>2, <1>3

(* An import makes a record, of a token that the service knows or of none. *)
LEMMA TokenStored ==
  ASSUME TypeInv, NEW p \in Procs, StoreToken(p)
  PROVE  /\ record' \in Records /\ mishaps' \subseteq Accidents
         /\ live' \subseteq 1..issued' /\ issued' \in 0..MaxTokens /\ signedIn' \in BOOLEAN
<1>1. PICK r \in Records : Saved(p, r)
  <2>1. \A n \in Nat, a \in BOOLEAN : [cache |-> 0, refresh |-> n, access |-> a] \in Records
    BY BoundAssumption DEF Records, Tokens
  <2>2. issued + 1 \in Nat
    BY BoundAssumption DEF TypeInv
  <2> QED BY <2>1, <2>2 DEF StoreToken
<1>2. record' \in Records /\ mishaps' \subseteq Accidents
  BY <1>1, AccidentsAreNamed DEF TypeInv
<1>3. issued' \in 0..MaxTokens /\ live' \subseteq 1..issued' /\ signedIn' \in BOOLEAN
  <2>1. CASE Issue
    BY <2>1, IssuedIsToken DEF StoreToken
  <2>2. CASE UNCHANGED service
    BY <2>2 DEF StoreToken, TypeInv, service
  <2> QED BY <2>1, <2>2 DEF StoreToken
<1> QED BY <1>2, <1>3

(* The steps up to the guard and the sign-in. *)
LEMMA ErrandStep ==
  ASSUME IInv, NEW p \in Procs,
         Start(p) \/ Configure(p) \/ Configured(p) \/ SignIn(p) \/ Lock(p) \/ Account(p)
  PROVE  IInv'
<1> USE DEF Goto
<1>t. /\ pc \in [Procs -> Places] /\ op \in [Procs -> Errands] /\ mem \in [Procs -> Tokens]
      /\ TypeInv /\ Sound(p)
      /\ op = [op EXCEPT ![p] = op[p]] /\ mem = [mem EXCEPT ![p] = mem[p]]
  BY DEF IInv, TypeInv
<1>1. CASE Start(p)
  <2>1. TypeInv'
    BY <1>1, <1>t DEF Start, TypeInv, Places, Guarded, Errands, service, history, FirstLoginStep
  <2>2. Sound(p)'
    BY <1>1, <1>t DEF Start, Sound, Guarded, FirstLoginStep
  <2>3. \A q \in Procs \ {p} : Sound(q)'
    <3> SUFFICES ASSUME NEW q \in Procs \ {p} PROVE Sound(q)'
      OBVIOUS
    <3>1. pc'[q] = pc[q] /\ op'[q] = op[q] /\ mem'[q] = mem[q]
      BY <1>1, <1>t DEF Start
    <3> QED BY <1>1, <3>1, OthersStaySound DEF Start
  <2> QED BY <2>1, <2>2, <2>3 DEF IInv
<1>2. CASE Configure(p)
  <2>1. TypeInv'
    BY <1>2, <1>t DEF Configure, TypeInv, Places, Guarded, service, history
  <2>2. Sound(p)'
    BY <1>2, <1>t DEF Configure, Sound, Guarded
  <2> QED BY <1>2, <1>t, <2>1, <2>2, MoveKeepsOthers DEF Configure
<1>3. CASE Configured(p)
  <2>0. config' \in {"absent", "whole", "torn"} /\ mishaps' \subseteq Accidents
    BY <1>3, <1>t, LeftConfig DEF Configured, TypeInv
  <2>1. TypeInv'
    BY <1>3, <1>t, <2>0 DEF Configured, TypeInv, Places, Guarded, service
  <2>2. Sound(p)'
    BY <1>3, <1>t DEF Configured, Sound, Guarded
  <2> QED BY <1>3, <1>t, <2>1, <2>2, MoveKeepsOthers DEF Configured
<1>4. CASE SignIn(p)
  <2>0. /\ issued + 1 \in Tokens /\ issued + 1 # 0
        /\ issued' \in 0..MaxTokens /\ live' \subseteq 1..issued'
    BY <1>4, <1>t, IssuedIsToken DEF SignIn
  <2>1. TypeInv'
    BY <1>4, <1>t, <2>0 DEF SignIn, TypeInv, Places, Guarded, service, history
  <2>2. Sound(p)'
    BY <1>4, <1>t, <2>0 DEF SignIn, Sound, Guarded
  <2> QED BY <1>4, <1>t, <2>1, <2>2, MoveKeepsOthers DEF SignIn
<1>5. CASE Lock(p)
  <2>1. TypeInv'
    BY <1>5, <1>t DEF Lock, TypeInv, Places, Guarded, service, history, Free
  <2>2. Sound(p)'
    BY <1>5, <1>t DEF Lock, Sound, Guarded, Free
  <2>3. PICK place : pc' = [pc EXCEPT ![p] = place]
    BY <1>5 DEF Lock
  <2> QED BY <1>5, <1>t, <2>1, <2>2, <2>3, MoveKeepsOthers DEF Lock, Free
<1>6. CASE Account(p)
  <2>0. Replaced(p) \in Tokens
    BY <1>t, ReplacedIsToken
  <2>1. TypeInv'
    BY <1>6, <1>t, <2>0 DEF Account, TypeInv, Places, Guarded, service, history
  <2>2. Sound(p)'
    BY <1>6, <1>t, <2>0 DEF Account, Sound, Guarded
  <2> QED BY <1>6, <1>t, <2>1, <2>2, MoveKeepsOthers DEF Account
<1> QED BY <1>1, <1>2, <1>3, <1>4, <1>5, <1>6

(* The steps that ask the service and save what it answered. *)
LEMMA AcquisitionStep ==
  ASSUME IInv, NEW p \in Procs,
         Silent(p) \/ SilentRefresh(p) \/ Export(p) \/ Exported(p) \/ Persist(p) \/ LegacyRefresh(p)
  PROVE  IInv'
<1> USE DEF Goto
<1>t. /\ pc \in [Procs -> Places] /\ op \in [Procs -> Errands] /\ mem \in [Procs -> Tokens]
      /\ TypeInv /\ Sound(p)
      /\ op = [op EXCEPT ![p] = op[p]] /\ mem = [mem EXCEPT ![p] = mem[p]]
  BY DEF IInv, TypeInv
<1>1. CASE Silent(p)
  <2>0. Replaced(p) \in Tokens /\ Replaced(p) # 0
    BY <1>1, <1>t, ReplacedIsToken DEF Silent, Sound
  <2>1. TypeInv'
    BY <1>1, <1>t, <2>0 DEF Silent, TypeInv, Places, Guarded, service, history
  <2>2. Sound(p)'
    BY <1>1, <1>t, <2>0 DEF Silent, Sound, Guarded
  <2> QED BY <1>1, <1>t, <2>1, <2>2, MoveKeepsOthers DEF Silent
<1>2. CASE SilentRefresh(p)
  <2>0. /\ issued + 1 \in Tokens /\ issued + 1 # 0
        /\ issued' \in 0..MaxTokens /\ live' \subseteq 1..issued'
    BY <1>2, <1>t, IssuedIsToken DEF SilentRefresh
  <2>1. TypeInv'
    BY <1>2, <1>t, <2>0 DEF SilentRefresh, TypeInv, Places, Guarded, service, history
  <2>2. Sound(p)'
    BY <1>2, <1>t, <2>0 DEF SilentRefresh, Sound, Guarded
  <2> QED BY <1>2, <1>t, <2>1, <2>2, MoveKeepsOthers DEF SilentRefresh
<1>3. CASE Export(p)
  <2>0. [LoadedOrEmpty EXCEPT !.cache = mem[p]] \in Records
    BY <1>t, LoadedIsRecord, CacheReplaced
  <2>1. TypeInv'
    BY <1>3, <1>t, <2>0 DEF Export, TypeInv, Places, Guarded, service, history
  <2>2. Sound(p)'
    BY <1>3, <1>t, <2>0 DEF Export, Sound, Guarded
  <2> QED BY <1>3, <1>t, <2>1, <2>2, MoveKeepsOthers DEF Export
<1>4. CASE Exported(p)
  <2>0. /\ record' = buf[p] /\ mishaps' \subseteq Accidents
        /\ buf[p] \in Records /\ buf[p] # NoRecord
    BY <1>4, <1>t, AccidentsAreNamed, RecordsAreRecords DEF Exported, TypeInv
  <2>1. TypeInv'
    BY <1>4, <1>t, <2>0, EmptyIsRecord
       DEF Exported, TypeInv, Places, Guarded, service, history, Holds
  <2>2. Sound(p)'
    BY <1>4, <1>t, <2>0, EmptyIsRecord DEF Exported, Sound, Guarded, Holds
  <2>3. PICK place : pc' = [pc EXCEPT ![p] = place]
    BY <1>4 DEF Exported
  <2> QED BY <1>4, <1>t, <2>0, <2>1, <2>2, <2>3, MoveKeepsOthers DEF Exported
<1>5. CASE Persist(p)
  <2>0. [LoadedOrEmpty EXCEPT !.refresh = 0, !.access = TRUE] \in Records
    BY <1>t, LoadedIsRecord, TokenReplaced
  <2>1. TypeInv'
    BY <1>5, <1>t, <2>0 DEF Persist, TypeInv, Places, Guarded, service, history
  <2>2. Sound(p)'
    BY <1>5, <1>t, <2>0 DEF Persist, Sound, Guarded
  <2> QED BY <1>5, <1>t, <2>1, <2>2, MoveKeepsOthers DEF Persist
<1>6. CASE LegacyRefresh(p)
  <2>0. /\ Refreshed(buf[p].refresh, issued + 1) \in Records
        /\ Refreshed(buf[p].refresh, 0) \in Records
    <3>1. /\ buf[p] \in Records /\ buf[p].refresh \in Nat
          /\ issued + 1 \in Nat /\ 0 \in Tokens
      BY <1>t, BoundAssumption DEF TypeInv, Records, Tokens
    <3> QED BY <3>1 DEF Records, Refreshed
  <2>a. issued' \in 0..MaxTokens /\ live' \subseteq 1..issued'
    <3>1. CASE Issue
      BY <1>t, <3>1, IssuedIsToken
    <3>2. CASE UNCHANGED service
      BY <1>t, <3>2 DEF TypeInv, service
    <3> QED BY <1>6, <3>1, <3>2 DEF LegacyRefresh
  <2>1. TypeInv'
    BY <1>6, <1>t, <2>0, <2>a DEF LegacyRefresh, TypeInv, Places, Guarded, service, history
  <2>2. Sound(p)'
    BY <1>6, <1>t, <2>0, <2>a DEF LegacyRefresh, Sound, Guarded
  <2> QED BY <1>6, <1>t, <2>1, <2>2, MoveKeepsOthers DEF LegacyRefresh
<1> QED BY <1>1, <1>2, <1>3, <1>4, <1>5, <1>6

(* The steps with which an operation returns. *)
LEMMA ReturnStep ==
  ASSUME IInv, NEW p \in Procs,
         Persisted(p) \/ LegacySave(p) \/ Import(p) \/ Logout(p)
           \/ SignInFails(p) \/ Legacy(p) \/ LegacyRefreshFails(p)
  PROVE  IInv'
<1> USE DEF Goto
<1>t. /\ pc \in [Procs -> Places] /\ op \in [Procs -> Errands] /\ mem \in [Procs -> Tokens]
      /\ TypeInv /\ Sound(p)
      /\ op = [op EXCEPT ![p] = op[p]] /\ mem = [mem EXCEPT ![p] = mem[p]]
  BY DEF IInv, TypeInv
<1>1. CASE Persisted(p)
  <2>1. /\ record' = buf[p] /\ mishaps' \subseteq Accidents
        /\ buf[p] \in Records /\ buf[p] # NoRecord
    BY <1>1, <1>t, AccidentsAreNamed, RecordsAreRecords DEF Persisted, TypeInv
  <2>2. Returned(p)
    BY <1>1, <1>t, ReturnedWell DEF Persisted
  <2> QED
    BY <1>1, <1>t, <2>1, <2>2, ReturnKeepsInv DEF Persisted, TypeInv, service, history
<1>2. CASE LegacySave(p)
  <2>1. /\ record' = buf[p] /\ mishaps' \subseteq Accidents
        /\ buf[p] \in Records /\ buf[p] # NoRecord
    BY <1>2, <1>t, AccidentsAreNamed, RecordsAreRecords DEF LegacySave, TypeInv
  <2>2. Returned(p)
    BY <1>2, <1>t, ReturnedWell DEF LegacySave
  <2> QED
    BY <1>2, <1>t, <2>1, <2>2, ReturnKeepsInv DEF LegacySave, TypeInv, service, history
<1>3. CASE Import(p)
  <2>1. /\ record' \in Records /\ mishaps' \subseteq Accidents
        /\ live' \subseteq 1..issued' /\ issued' \in 0..MaxTokens /\ signedIn' \in BOOLEAN
    BY <1>3, <1>t, TokenStored DEF Import
  <2>2. record' # NoRecord
    BY <2>1, RecordsAreRecords
  <2>3. Returned(p)
    BY <1>3, <1>t, ReturnedWell DEF Import
  <2> QED
    BY <1>3, <1>t, <2>1, <2>2, <2>3, ReturnKeepsInv DEF Import, TypeInv
<1>4. CASE Logout(p)
  <2>1. guard = p
    BY <1>4, <1>t DEF Logout, Sound, Guarded
  <2>2. mishaps' \subseteq Accidents
    BY <1>4, <1>t DEF Logout, TypeInv, Crossed, Accidents
  <2>3. Returned(p)
    BY <1>4, <1>t, ReturnedWell DEF Logout
  <2> QED
    BY <1>4, <1>t, <2>1, <2>2, <2>3, ReturnKeepsInv DEF Logout, TypeInv, service
<1>5. CASE SignInFails(p)
  <2>1. Returned(p)
    BY <1>5, <1>t, ReturnedWithError DEF SignInFails
  <2> QED
    BY <1>5, <1>t, <2>1, ReturnKeepsInv DEF SignInFails, TypeInv, service, history
<1>6. CASE Legacy(p)
  <2>1. CASE pc' = [pc EXCEPT ![p] = "refresh"] /\ LoadedOrEmpty.refresh # 0
             /\ buf' = [buf EXCEPT ![p] = record] /\ UNCHANGED <<guard, op, mem>>
    <3>1. record \in Records /\ record # NoRecord
      BY <1>t, <2>1 DEF TypeInv, LoadedOrEmpty, Empty
    <3>2. TypeInv'
      BY <1>6, <1>t, <2>1, <3>1 DEF Legacy, TypeInv, Places, Guarded, service, history
    <3>3. Sound(p)'
      BY <1>6, <1>t, <2>1, <3>1 DEF Legacy, Sound, Guarded
    <3> QED BY <1>6, <1>t, <2>1, <3>2, <3>3, MoveKeepsOthers DEF Legacy
  <2>2. CASE Continue(p, TRUE) \/ Continue(p, FALSE)
    <3>1. Returned(p)
      BY <1>t, <2>2, ReturnedWell, ReturnedWithError
    <3> QED
      BY <1>6, <1>t, <3>1, ReturnKeepsInv DEF Legacy, TypeInv, service, history
  <2> QED BY <1>6, <2>1, <2>2 DEF Legacy
<1>7. CASE LegacyRefreshFails(p)
  <2>1. Returned(p)
    BY <1>7, <1>t, ReturnedWithError DEF LegacyRefreshFails
  <2> QED
    BY <1>7, <1>t, <2>1, ReturnKeepsInv DEF LegacyRefreshFails, TypeInv, service, history
<1> QED BY <1>1, <1>2, <1>3, <1>4, <1>5, <1>6, <1>7

(* The steps of a revoke that do not touch the record. *)
LEMMA RevokeStep ==
  ASSUME IInv, NEW p \in Procs,
         Post(p) \/ PostFails(p) \/ Clear(p)
  PROVE  IInv'
<1> USE DEF Goto
<1>t. /\ pc \in [Procs -> Places] /\ op \in [Procs -> Errands] /\ mem \in [Procs -> Tokens]
      /\ TypeInv /\ Sound(p)
      /\ op = [op EXCEPT ![p] = op[p]] /\ mem = [mem EXCEPT ![p] = mem[p]]
  BY DEF IInv, TypeInv
<1>1. CASE Post(p)
  <2>1. TypeInv'
    BY <1>1, <1>t, BoundAssumption DEF Post, TypeInv, Places, Guarded, Errands, Tokens, Accidents
  <2>2. Sound(p)'
    BY <1>1, <1>t DEF Post, Sound, Guarded
  <2>3. PICK place, errand, token :
          /\ pc' = [pc EXCEPT ![p] = place]
          /\ op' = [op EXCEPT ![p] = errand]
          /\ mem' = [mem EXCEPT ![p] = token]
    BY <1>1, <1>t DEF Post
  <2> QED BY <1>1, <1>t, <2>1, <2>2, <2>3, MoveKeepsOthers DEF Post
<1>2. CASE PostFails(p)
  <2>1. TypeInv'
    <3>1. live' \subseteq 1..issued /\ signedIn' \in BOOLEAN
      BY <1>2, <1>t DEF PostFails, TypeInv
    <3>2. pc' \in [Procs -> Places] /\ op' \in [Procs -> Errands] /\ mem' \in [Procs -> Tokens]
      BY <1>2, <1>t, BoundAssumption DEF PostFails, Places, Errands, Tokens
    <3> QED BY <1>2, <1>t, <3>1, <3>2 DEF PostFails, TypeInv
  <2>2. Sound(p)'
    BY <1>2, <1>t DEF PostFails, Sound, Guarded
  <2>3. PICK place, errand, token :
          /\ pc' = [pc EXCEPT ![p] = place]
          /\ op' = [op EXCEPT ![p] = errand]
          /\ mem' = [mem EXCEPT ![p] = token]
    BY <1>2, <1>t DEF PostFails
  <2> QED BY <1>2, <1>t, <2>1, <2>2, <2>3, MoveKeepsOthers DEF PostFails
<1>3. CASE Clear(p)
  <2>1. TypeInv'
    <3>1. mishaps' \subseteq Accidents
      BY <1>3, <1>t DEF Clear, TypeInv, Crossed, Accidents
    <3>2. pc' \in [Procs -> Places] /\ op' \in [Procs -> Errands] /\ mem' \in [Procs -> Tokens]
      BY <1>3, <1>t, BoundAssumption DEF Clear, Places, Errands, Tokens
    <3> QED BY <1>3, <1>t, <3>1, <3>2 DEF Clear, TypeInv, service
  <2>2. Sound(p)'
    BY <1>3, <1>t DEF Clear, Sound, Guarded
  <2> QED BY <1>3, <1>t, <2>1, <2>2, MoveKeepsOthers DEF Clear
<1> QED BY <1>1, <1>2, <1>3

(* A save of a record fails, in place or not. *)
LEMMA FailedSave ==
  ASSUME IInv, NEW p \in Procs, SaveFails(p), faults' \in 0..MaxFaults
  PROVE  IInv'
<1> USE DEF Goto
<1>t. /\ pc \in [Procs -> Places] /\ op \in [Procs -> Errands] /\ mem \in [Procs -> Tokens]
      /\ TypeInv /\ Sound(p)
      /\ op = [op EXCEPT ![p] = op[p]] /\ mem = [mem EXCEPT ![p] = mem[p]]
  BY DEF IInv, TypeInv
<1>1. /\ UNCHANGED <<config, signedIn>>
      /\ live' \subseteq 1..issued' /\ issued' \in 0..MaxTokens
      /\ config' \in {"absent", "whole", "torn"} /\ signedIn' \in BOOLEAN
  BY <1>t DEF SaveFails, TypeInv, service
<1>2. /\ record' \in Records \cup {NoRecord}
      /\ record' = NoRecord => record = NoRecord
      /\ mishaps' \subseteq Accidents
  <2>1. ASSUME Saved(p, buf[p])
        PROVE  record' \in Records /\ record' # NoRecord /\ mishaps' \subseteq Accidents
    BY <1>t, <2>1, AccidentsAreNamed, RecordsAreRecords DEF TypeInv
  <2> QED BY <1>t, <2>1 DEF SaveFails, TypeInv
<1>3. CASE pc[p] = "exporting" /\ Holds(p) /\ pc' = [pc EXCEPT ![p] = "legacy"]
             /\ buf' = [buf EXCEPT ![p] = Empty] /\ UNCHANGED <<guard, op, mem>>
  <2>1. TypeInv'
    BY <1>t, <1>1, <1>2, <1>3, EmptyIsRecord DEF TypeInv, Places, Guarded
  <2>2. Sound(p)'
    BY <1>t, <1>3 DEF Sound, Guarded, Holds
  <2> QED BY <1>t, <1>2, <1>3, <2>1, <2>2, MoveKeepsOthers
<1>4. CASE Continue(p, FALSE)
  <2>1. Returned(p)
    BY <1>t, <1>4, ReturnedWithError
  <2> QED BY <1>1, <1>2, <2>1, ReturnKeepsInv
<1> QED BY <1>3, <1>4 DEF SaveFails

(* Restarts, failing saves and removals, and crashes. *)
LEMMA AccidentStep ==
  ASSUME IInv, NEW p \in Procs,
         Restart(p) \/ StoreFails(p) \/ Crash(p)
  PROVE  IInv'
<1> USE DEF Goto
<1>t. /\ pc \in [Procs -> Places] /\ op \in [Procs -> Errands] /\ mem \in [Procs -> Tokens]
      /\ TypeInv /\ Sound(p)
      /\ op = [op EXCEPT ![p] = op[p]] /\ mem = [mem EXCEPT ![p] = mem[p]]
  BY DEF IInv, TypeInv
<1>1. CASE Restart(p)
  <2>1. TypeInv'
    BY <1>1, <1>t, BoundAssumption DEF Restart, TypeInv, Tokens, service, history
  <2>2. Sound(p)'
    BY <1>1, <1>t DEF Restart, Sound, Guarded
  <2>3. pc = [pc EXCEPT ![p] = pc[p]]
    BY <1>t
  <2> QED BY <1>1, <1>t, <2>1, <2>2, <2>3, MoveKeepsOthers DEF Restart
<1>2. CASE StoreFails(p)
  <2>1. faults' \in 0..MaxFaults
    BY <1>2, <1>t, BoundAssumption DEF StoreFails, TypeInv
  <2>2. CASE SaveFails(p)
    BY <1>t, <2>1, <2>2, FailedSave
  <2>3. CASE ImportFails(p)
    <3>1. /\ live' \subseteq 1..issued' /\ issued' \in 0..MaxTokens /\ signedIn' \in BOOLEAN
          /\ record' \in Records \cup {NoRecord} /\ mishaps' \subseteq Accidents
          /\ record' = NoRecord => record = NoRecord
      <4>1. CASE StoreToken(p)
        BY <1>t, <4>1, TokenStored, RecordsAreRecords
      <4>2. CASE UNCHANGED <<record, mishaps, service, signedIn>>
        BY <1>t, <4>2 DEF TypeInv, service
      <4> QED BY <2>3, <4>1, <4>2 DEF ImportFails
    <3>2. Returned(p) /\ config' = config
      BY <1>t, <2>3, ReturnedWithError DEF ImportFails
    <3> QED BY <1>t, <2>1, <3>1, <3>2, ReturnKeepsInv DEF TypeInv
  <2>4. CASE ConfigureFails(p)
    <3>1. config' \in {"absent", "whole", "torn"} /\ mishaps' \subseteq Accidents
      BY <1>t, <2>4, LeftConfig DEF ConfigureFails, TypeInv
    <3>2. Returned(p) /\ UNCHANGED <<record, live, issued, signedIn>>
      BY <1>t, <2>4, ReturnedWithError DEF ConfigureFails, service
    <3> QED BY <1>t, <2>1, <3>1, <3>2, ReturnKeepsInv DEF TypeInv
  <2>5. CASE RemovalFails(p) /\ pc[p] = "logout"
    <3>1. mishaps' \subseteq Accidents
      BY <1>t, <2>5 DEF RemovalFails, TypeInv, Accidents
    <3>2. Returned(p) /\ UNCHANGED <<record, config, live, issued, signedIn>>
      BY <1>t, <2>5, ReturnedWithError DEF RemovalFails, service
    <3> QED BY <1>t, <2>1, <3>1, <3>2, ReturnKeepsInv DEF TypeInv
  <2>6. CASE RemovalFails(p) /\ pc[p] = "clear"
    <3>1. TypeInv'
      BY <1>t, <2>1, <2>6, BoundAssumption
         DEF RemovalFails, TypeInv, Places, Errands, Tokens, service
    <3>2. Sound(p)'
      BY <1>t, <2>6 DEF RemovalFails, Sound, Guarded
    <3> QED BY <1>t, <2>6, <3>1, <3>2, MoveKeepsOthers DEF RemovalFails
  <2> QED BY <1>2, <2>2, <2>3, <2>4, <2>5, <2>6 DEF StoreFails, RemovalFails
<1>3. CASE Crash(p)
  <2>1. Returned(p)
    BY <1>3, <1>t DEF Crash, Returned, Holds, Errands
  <2>2. /\ faults' \in 0..MaxFaults /\ mishaps' \subseteq Accidents
        /\ config' \in {"absent", "whole", "torn"}
    <3>1. faults' \in 0..MaxFaults
      BY <1>3, <1>t, BoundAssumption DEF Crash, TypeInv
    <3>2. CASE LeaveConfig(FALSE)
      BY <1>t, <3>1, <3>2, LeftConfig DEF TypeInv
    <3>3. CASE UNCHANGED <<config, mishaps>>
      BY <1>t, <3>1, <3>3 DEF TypeInv
    <3> QED BY <1>3, <3>2, <3>3 DEF Crash
  <2> QED
    BY <1>3, <1>t, <2>1, <2>2, ReturnKeepsInv DEF Crash, TypeInv, service
<1> QED BY <1>1, <1>2, <1>3

(* Every step keeps IInv. *)
LEMMA StepKeepsInv == IInv /\ [Next]_vars => IInv'
<1> SUFFICES ASSUME IInv, [Next]_vars PROVE IInv'
  OBVIOUS
<1>1. CASE Next
  <2>1. PICK p \in Procs : Start(p) \/ Step(p) \/ Restart(p) \/ StoreFails(p) \/ Crash(p)
    BY <1>1 DEF Next
  <2> QED
    BY <2>1, ErrandStep, AcquisitionStep, ReturnStep, RevokeStep, AccidentStep DEF Step
<1>2. CASE UNCHANGED vars
  BY <1>2 DEF vars, service, history, IInv, TypeInv, Sound
<1> QED BY <1>1, <1>2

(* Who works on the record holds the guard, who saves what MSAL returned *)
(* has an account in memory, and a legacy refresh saves over the record  *)
(* that it has read, whatever the interleaving.                          *)
THEOREM Invariance == Spec => []IInv
BY Initially, StepKeepsInv, PTL DEF Spec

(* Every variable keeps its type; what is saved is always a whole record, *)
(* and no token outruns the service that numbers them.                    *)
THEOREM TypesAreKept == Spec => []TypeOK
<1>1. IInv => TypeOK
  BY RecordsAreRecords DEF IInv, TypeInv, TypeOK, Tokens
<1> QED BY <1>1, Invariance, PTL

(* Whoever reads the record, talks to the token endpoint and saves does it *)
(* under the guard, whatever crashes and failures come between.            *)
THEOREM OneRefreshAtATime == Spec => []RefreshIsSerialised
<1>1. IInv => RefreshIsSerialised
  BY DEF IInv, Sound, RefreshIsSerialised, Holds
<1> QED BY <1>1, Invariance, PTL

-----------------------------------------------------------------------------
(* A step that makes a record appear is a save of a process that moves on, *)
(* and either holds an account in memory or imports.                       *)
LEMMA AppearsFromMemory ==
  ASSUME IInv, NEW p \in Procs, record = NoRecord, record' # NoRecord,
         Start(p) \/ Step(p) \/ Restart(p) \/ StoreFails(p) \/ Crash(p)
  PROVE  pc[p] # pc'[p] /\ (mem[p] # 0 \/ op[p] = "import")
<1>t. Sound(p) /\ TypeInv /\ pc \in [Procs -> Places]
  BY DEF IInv, TypeInv
<1>1. pc[p] \in {"exporting", "persisting", "import"}
  <2>1. \/ Exported(p) \/ Persisted(p) \/ LegacySave(p) \/ Import(p) \/ Logout(p)
        \/ StoreFails(p)
    BY DEF Start, Step, Configure, Configured, LeaveConfig, SignIn, SignInFails, Lock, Account,
           Silent, SilentRefresh, Export, Persist, Legacy, LegacyRefresh, LegacyRefreshFails,
           Post, PostFails, Clear, Restart, Crash
  <2> QED
    BY <1>t, <2>1
       DEF Exported, Persisted, LegacySave, Import, Logout, StoreFails, SaveFails, ImportFails,
           ConfigureFails, RemovalFails, Sound
<1>2. mem[p] # 0 \/ op[p] = "import"
  BY <1>t, <1>1 DEF Sound
<1>3. pc'[p] # pc[p]
  <2>1. \/ \E place \in {"persist", "lock", "legacy"} : pc' = [pc EXCEPT ![p] = place]
        \/ Continue(p, TRUE) \/ Continue(p, FALSE)
    BY <1>1 DEF Start, Step, Configure, Configured, LeaveConfig, SignIn, SignInFails, Lock,
                Account, Silent, SilentRefresh, Export, Exported, Persist, Persisted, Legacy,
                LegacyRefresh, LegacyRefreshFails, LegacySave, Import, StoreToken, Post,
                PostFails, Logout, Clear, Restart, StoreFails, SaveFails, ImportFails,
                ConfigureFails, RemovalFails, Crash, Goto
  <2> QED BY <1>t, <1>1, <2>1, ReturnedWell, ReturnedWithError DEF Returned
<1> QED BY <1>2, <1>3

(* A revocation is not undone by a refresh that was under way: the record  *)
(* comes back only through an account in memory or an import.              *)
THEOREM RevokedStaysRevoked == Spec => OnlyMemoryOutlivesRevoke
<1> DEFINE A == record = NoRecord /\ record' # NoRecord =>
                  \E p \in Procs : pc[p] # pc'[p] /\ (mem[p] # 0 \/ op[p] = "import")
<1>1. IInv /\ [Next]_vars => [A]_vars
  <2> SUFFICES ASSUME IInv, Next, record = NoRecord, record' # NoRecord
               PROVE  A
    OBVIOUS
  <2>1. PICK p \in Procs : Start(p) \/ Step(p) \/ Restart(p) \/ StoreFails(p) \/ Crash(p)
    BY DEF Next
  <2> QED BY <2>1, AppearsFromMemory
<1> QED BY <1>1, Invariance, PTL DEF Spec, OnlyMemoryOutlivesRevoke

-----------------------------------------------------------------------------
(* Errands that use the record to get an access token. *)
Acquiring == {"acquire", "revoke", "reacquire"}
SigningIn == {"login", "relogin"}

(* Where p is, by its errand, and what it carries. *)
Placed(p) ==
  /\ p \in Services => op[p] \in {"none", "acquire"}
  /\ pc[p] = "idle" /\ p \in Commands => mem[p] = 0
  /\ op[p] = "import" => mem[p] = 0 /\ pc[p] \in {"lock", "import"}
  /\ op[p] = "erase" => pc[p] \in {"lock", "logout", "clear"}
  /\ pc[p] = "logout" => op[p] = "erase"
  /\ pc[p] \in {"account", "silent", "legacy", "refresh", "legacySave"} => op[p] \in Acquiring
  /\ pc[p] \in {"export", "exporting", "persist", "persisting"} =>
       op[p] \in Acquiring \cup SigningIn
  /\ pc[p] \in {"configure", "configuring"} => op[p] = "login"
  /\ pc[p] = "lock" => op[p] # "none"
  /\ pc[p] = "post" => op[p] \in {"revoke", "reacquire"}
  /\ guard = p => pc[p] \in Guarded
                    \/ (pc[p] \in {"export", "exporting"} /\ op[p] \in Acquiring)
  /\ pc[p] = "exporting" => buf[p].cache = mem[p]
  /\ pc[p] = "legacySave" => buf[p].cache = 0
  /\ mem[p] \in 0..issued /\ buf[p].cache \in 0..issued

PlacesInv ==
  /\ \A p \in Procs : Placed(p)
  /\ record # NoRecord => record.cache \in 0..issued

Act(p) == Start(p) \/ Step(p) \/ Restart(p) \/ StoreFails(p) \/ Crash(p)

(* Nobody touches the memory of another process; the guard is taken when it *)
(* is free.                                                                 *)
LEMMA OthersAreLeft ==
  ASSUME IInv, NEW p \in Procs, Act(p)
  PROVE  /\ \A q \in Procs \ {p} :
              pc'[q] = pc[q] /\ op'[q] = op[q] /\ mem'[q] = mem[q] /\ buf'[q] = buf[q]
         /\ guard' \in {guard, p, NoOne} /\ (guard' # guard => guard \in {p, NoOne})
         /\ issued' \in {issued, issued + 1}
<1> USE DEF Goto
<1>t. /\ pc \in [Procs -> Places] /\ op \in [Procs -> Errands] /\ mem \in [Procs -> Tokens]
      /\ buf \in [Procs -> Records] /\ TypeInv
  BY DEF IInv, TypeInv
<1>c. ASSUME Continue(p, TRUE) \/ Continue(p, FALSE)
      PROVE  /\ \A q \in Procs \ {p} :
                  pc'[q] = pc[q] /\ op'[q] = op[q] /\ mem'[q] = mem[q] /\ buf'[q] = buf[q]
             /\ guard' = IF guard = p THEN NoOne ELSE guard
  <2>1. Returned(p)
    BY <1>c, <1>t, ReturnedWell, ReturnedWithError
  <2> QED BY <1>t, <2>1 DEF Returned
<1>1. CASE Continue(p, TRUE) \/ Continue(p, FALSE)
  <2>1. issued' \in {issued, issued + 1}
    <3>1. UNCHANGED service \/ Issue \/ issued' = issued
      BY DEF Act, Step, Start, Configure, Configured, LeaveConfig, SignIn, SignInFails, Lock,
             Account, Silent, SilentRefresh, Export, Exported, Persist, Persisted, Legacy,
             LegacyRefresh, LegacyRefreshFails, LegacySave, Import, StoreToken, Post, PostFails,
             Logout, Clear, Restart, StoreFails, SaveFails, ImportFails, ConfigureFails,
             RemovalFails, Crash
    <3> QED BY <3>1 DEF Issue, service
  <2> QED BY <1>1, <1>c, <2>1
<1>2. CASE Start(p) \/ Restart(p) \/ Crash(p)
  BY <1>2, <1>t DEF Start, Restart, Crash, LeaveConfig, Holds, service
<1>3. CASE Configure(p) \/ Configured(p) \/ SignIn(p) \/ Lock(p) \/ Account(p) \/ Silent(p)
             \/ SilentRefresh(p)
  BY <1>3, <1>t DEF Configure, Configured, LeaveConfig, SignIn, Lock, Free, Account, Silent,
                    SilentRefresh, Issue, service
<1>4. CASE Export(p) \/ Exported(p) \/ Persist(p) \/ LegacyRefresh(p)
  BY <1>4, <1>t DEF Export, Exported, Persist, LegacyRefresh, Issue, service
<1>5. CASE Post(p) \/ PostFails(p) \/ Clear(p)
  BY <1>5, <1>t DEF Post, PostFails, Clear, service
<1>6. CASE Legacy(p) /\ ~Continue(p, TRUE) /\ ~Continue(p, FALSE)
  BY <1>6, <1>t DEF Legacy, service
<1>7. CASE SaveFails(p) /\ ~Continue(p, FALSE)
  BY <1>7, <1>t DEF SaveFails, service
<1>8. CASE RemovalFails(p) /\ pc[p] = "clear"
  BY <1>8, <1>t DEF RemovalFails, service
<1> QED
  BY <1>1, <1>2, <1>3, <1>4, <1>5, <1>6, <1>7, <1>8
     DEF Act, Step, Persisted, SignInFails, LegacyRefreshFails, LegacySave, Import, Logout,
         StoreFails, ImportFails, ConfigureFails, RemovalFails

(* A step of one process leaves what the others hold. *)
LEMMA OthersStayPlaced ==
  ASSUME IInv, PlacesInv, NEW p \in Procs, Act(p), NEW q \in Procs \ {p}
  PROVE  Placed(q)'
<1>1. /\ pc'[q] = pc[q] /\ op'[q] = op[q] /\ mem'[q] = mem[q] /\ buf'[q] = buf[q]
      /\ guard' = q => guard = q
      /\ issued' \in {issued, issued + 1}
  BY OthersAreLeft, ProcsAssumption DEF IInv, TypeInv
<1>2. issued \in Nat
  BY BoundAssumption DEF IInv, TypeInv
<1>3. Placed(q)
  BY DEF PlacesInv
<1>4. mem'[q] \in 0..issued' /\ buf'[q].cache \in 0..issued'
  BY <1>1, <1>2, <1>3 DEF Placed
<1> QED BY <1>1, <1>3, <1>4 DEF Placed

(* What a returning operation holds fits the place it returns to. *)
LEMMA ReturnedToPlace ==
  ASSUME IInv, NEW p \in Procs, Placed(p), NEW good \in BOOLEAN, Continue(p, good),
         op[p] \in Acquiring \cup SigningIn \cup {"import", "erase"},
         issued' \in {issued, issued + 1}
  PROVE  /\ Placed(p)' /\ buf'[p] = Empty
         /\ pc'[p] \in {"idle", "lock", "device", "post", "clear"}
         /\ op'[p] # "login" /\ (op'[p] = "relogin" => op[p] = "revoke")
         /\ mem'[p] \in {0, mem[p]}
<1>t. /\ pc \in [Procs -> Places] /\ op \in [Procs -> Errands] /\ mem \in [Procs -> Tokens]
      /\ buf \in [Procs -> Records] /\ issued \in Nat
  BY BoundAssumption DEF IInv, TypeInv
<1>1. \/ /\ pc'[p] = "idle" /\ op'[p] = "none"
         /\ mem'[p] = IF p \in Services THEN mem[p] ELSE 0
      \/ /\ op'[p] = "acquire" /\ op[p] = "login" /\ pc'[p] = "lock" /\ mem'[p] = mem[p]
      \/ /\ op'[p] = "relogin" /\ op[p] = "revoke" /\ pc'[p] = "device" /\ mem'[p] = mem[p]
      \/ /\ op'[p] = "reacquire" /\ op[p] = "relogin" /\ pc'[p] = "lock" /\ mem'[p] = mem[p]
      \/ /\ op'[p] = "erase" /\ op[p] = "erase" /\ pc'[p] = "clear" /\ mem'[p] = mem[p]
      \/ /\ op'[p] = op[p] /\ op[p] \in {"revoke", "reacquire"} /\ pc'[p] = "post"
         /\ mem'[p] = mem[p]
      \/ /\ op'[p] = "erase" /\ op[p] \in {"relogin", "reacquire"} /\ pc'[p] = "lock"
         /\ mem'[p] = mem[p]
  BY <1>t DEF Continue, Goto, Acquiring, SigningIn
<1>2. buf'[p] = Empty /\ guard' # p
  BY <1>t, ProcsAssumption DEF Continue, Release
<1>3. Empty.cache = 0
  BY DEF Empty
<1>4. p \in Services => op[p] \in {"none", "acquire"} /\ p \notin Commands
  BY ProcsAssumption DEF Placed
<1>5. p \in Services \/ p \in Commands
  BY DEF Procs
<1>6. mem'[p] \in 0..issued'
  BY <1>1, <1>t DEF Placed
<1>7. Placed(p)'
  BY <1>1, <1>2, <1>3, <1>4, <1>5, <1>6, <1>t DEF Placed, Guarded
<1> QED BY <1>1, <1>2, <1>7

(* PlacesInv holds at first. *)
LEMMA PlacesAtFirst == Init => PlacesInv
<1> SUFFICES ASSUME Init PROVE PlacesInv
  OBVIOUS
<1>1. issued \in Nat /\ issued >= 0
  BY DEF Init
<1>2. ASSUME NEW p \in Procs PROVE Placed(p)
  <2>1. pc[p] = "idle" /\ op[p] = "none" /\ mem[p] = 0 /\ buf[p].cache = 0 /\ guard # p
    BY ProcsAssumption DEF Init, Empty
  <2> QED BY <1>1, <2>1 DEF Placed, Guarded
<1>3. record # NoRecord => record.cache \in 0..issued
  BY <1>1 DEF Init
<1> QED BY <1>2, <1>3 DEF PlacesInv

(* Who changes the record. *)
LEMMA RecordChanges ==
  ASSUME NEW p \in Procs, Act(p), record' # record
  PROVE  /\ config' = config
         /\ \/ Logout(p)
            \/ /\ pc[p] \in {"exporting", "persisting", "legacySave"}
               /\ Saved(p, buf[p])
               /\ live' = live
            \/ pc[p] = "import" /\ StoreToken(p)
BY DEF Act, Step, Start, Configure, Configured, SignIn, SignInFails, Lock, Account, Silent,
       SilentRefresh, Export, Exported, Persist, Persisted, Legacy, LegacyRefresh,
       LegacyRefreshFails, LegacySave, Import, Post, PostFails, Logout, Clear, Restart,
       StoreFails, SaveFails, ImportFails, ConfigureFails, RemovalFails, Crash, service

(* What a save leaves in the record. *)
LEMMA SavedCache ==
  ASSUME IInv, PlacesInv, NEW p \in Procs, Act(p), record' # record, record' # NoRecord
  PROVE  record'.cache \in 0..issued'
<1>t. /\ issued \in Nat /\ issued' \in {issued, issued + 1}
      /\ buf[p].cache \in 0..issued
  BY BoundAssumption, OthersAreLeft DEF IInv, TypeInv, PlacesInv, Placed
<1>1. record' = buf[p] \/ StoreToken(p)
  BY RecordChanges DEF Logout, Saved
<1>2. CASE record' = buf[p]
  BY <1>t, <1>2
<1>3. CASE StoreToken(p)
  <2>1. record'.cache = 0
    BY <1>3 DEF StoreToken, Saved
  <2> QED BY <1>t, <2>1
<1> QED BY <1>1, <1>2, <1>3

(* Where p is after each of its steps. *)
LEMMA StepIsPlaced ==
  ASSUME IInv, PlacesInv, NEW p \in Procs, Act(p)
  PROVE  Placed(p)'
<1> USE DEF Goto
<1>t. /\ pc \in [Procs -> Places] /\ op \in [Procs -> Errands] /\ mem \in [Procs -> Tokens]
      /\ buf \in [Procs -> Records] /\ TypeInv /\ issued \in Nat
      /\ issued' \in {issued, issued + 1}
      /\ Placed(p) /\ Sound(p) /\ mem[p] \in 0..issued /\ buf[p].cache \in 0..issued
      /\ guard = NoOne => guard # p
  BY BoundAssumption, ProcsAssumption, OthersAreLeft DEF IInv, TypeInv, PlacesInv, Placed
<1>s. p \in Services => p \notin Commands
  BY ProcsAssumption
<1>i. 0 \in 0..issued' /\ \A n \in 0..issued : n \in 0..issued'
  BY <1>t
<1>c. ASSUME Continue(p, TRUE) \/ Continue(p, FALSE),
             pc[p] \notin {"idle", "lock", "post", "clear"}
      PROVE  Placed(p)'
  <2>1. op[p] \in Acquiring \cup SigningIn \cup {"import", "erase"}
    BY <1>c, <1>t DEF Placed, Sound, Places, Guarded, SigningIn
  <2> QED BY <1>c, <1>t, <2>1, ReturnedToPlace
<1>1. CASE Start(p)
  BY <1>1, <1>t, <1>s, <1>i DEF Start, Placed, Guarded, FirstLoginStep, Sound
<1>2. CASE Configure(p) \/ Configured(p)
  BY <1>2, <1>t, <1>i DEF Configure, Configured, LeaveConfig, Placed, Guarded
<1>3. CASE SignIn(p)
  <2>1. op[p] \in SigningIn
    BY <1>3, <1>t DEF SignIn, Sound, SigningIn
  <2>2. issued' = issued + 1 /\ mem'[p] = issued + 1 /\ guard # p
    BY <1>3, <1>t DEF SignIn, Issue, Placed, Guarded
  <2>3. mem'[p] \in 0..issued'
    BY <1>t, <2>2
  <2> QED BY <1>3, <1>t, <1>i, <2>1, <2>2, <2>3 DEF SignIn, Placed, Guarded, Acquiring, SigningIn
<1>4. CASE Lock(p)
  <2>0. /\ pc[p] = "lock" /\ guard' = p /\ UNCHANGED <<op, mem, buf, issued>>
        /\ op[p] # "none"
    BY <1>4, <1>t DEF Lock, service, Placed
  <2>1. CASE op[p] \in SigningIn
    <3>1. pc'[p] = "persist"
      BY <1>4, <1>t, <2>1 DEF Lock, SigningIn
    <3> QED BY <1>t, <2>0, <2>1, <3>1 DEF Placed, Guarded, SigningIn
  <2>2. CASE op[p] = "import"
    <3>1. pc'[p] = "import"
      BY <1>4, <1>t, <2>2 DEF Lock
    <3> QED BY <1>t, <2>0, <2>2, <3>1 DEF Placed, Guarded
  <2>3. CASE op[p] = "erase"
    <3>1. pc'[p] = "logout"
      BY <1>4, <1>t, <2>3 DEF Lock
    <3> QED BY <1>t, <2>0, <2>3, <3>1 DEF Placed, Guarded
  <2>4. CASE op[p] \in Acquiring
    <3>1. pc'[p] = "account"
      BY <1>4, <1>t, <2>4 DEF Lock, Acquiring
    <3> QED BY <1>t, <2>0, <2>4, <3>1 DEF Placed, Guarded, Acquiring
  <2> QED BY <1>t, <2>0, <2>1, <2>2, <2>3, <2>4 DEF Errands, Acquiring, SigningIn
<1>5. CASE Account(p) \/ Silent(p)
  <2>1. Replaced(p) \in 0..issued
    BY <1>t DEF Replaced, PlacesInv
  <2> QED BY <1>5, <1>t, <1>i, <2>1
       DEF Account, Silent, Placed, Guarded, Acquiring, SigningIn, Sound
<1>6. CASE SilentRefresh(p)
  <2>1. issued' = issued + 1 /\ mem'[p] = issued + 1 /\ op[p] \in Acquiring
    BY <1>6, <1>t DEF SilentRefresh, Issue, Placed
  <2>2. mem'[p] \in 0..issued'
    BY <1>t, <2>1
  <2> QED BY <1>6, <1>t, <1>i, <2>1, <2>2 DEF SilentRefresh, Placed, Guarded, Acquiring
<1>7. CASE Export(p)
  <2>1. buf'[p].cache = mem[p]
    BY <1>7, <1>t, LoadedIsRecord DEF Export, Records
  <2> QED BY <1>7, <1>t, <1>i, <2>1 DEF Export, Placed, Guarded
<1>8. CASE Exported(p)
  <2>1. buf'[p].cache = 0
    BY <1>8, <1>t DEF Exported, Empty
  <2> QED BY <1>8, <1>t, <1>i, <2>1 DEF Exported, Placed, Guarded, Holds, Acquiring, SigningIn
<1>9. CASE Persist(p)
  <2>1. buf'[p].cache = LoadedOrEmpty.cache
    BY <1>9, <1>t, LoadedIsRecord DEF Persist, Records
  <2>2. LoadedOrEmpty.cache \in 0..issued
    BY <1>t DEF LoadedOrEmpty, Empty, PlacesInv
  <2> QED BY <1>9, <1>t, <1>i, <2>1, <2>2 DEF Persist, Placed, Guarded
<1>10. CASE Legacy(p) /\ ~Continue(p, TRUE) /\ ~Continue(p, FALSE)
  <2>1. buf'[p] = record /\ record # NoRecord
    BY <1>10, <1>t DEF Legacy, LoadedOrEmpty, Empty
  <2> QED BY <1>10, <1>t, <1>i, <2>1 DEF Legacy, Placed, PlacesInv, Guarded
<1>11. CASE LegacyRefresh(p)
  <2>1. buf'[p].cache = 0
    BY <1>11, <1>t DEF LegacyRefresh, Refreshed
  <2> QED BY <1>11, <1>t, <1>i, <2>1 DEF LegacyRefresh, Placed, Guarded
<1>12. CASE Post(p) \/ PostFails(p) \/ Clear(p)
  <2>0. UNCHANGED <<buf, guard, issued>>
    BY <1>12 DEF Post, PostFails, Clear, service
  <2>1. CASE Post(p) \/ PostFails(p)
    <3>1. p \notin Services /\ guard # p
      BY <1>t, <2>1 DEF Post, PostFails, Placed, Guarded
    <3>2. \/ pc'[p] = "lock" /\ op'[p] = "erase" /\ mem'[p] = mem[p]
          \/ pc'[p] = "idle" /\ op'[p] = "none" /\ mem'[p] = 0
      BY <1>t, <2>1 DEF Post, PostFails
    <3> QED BY <1>t, <1>i, <2>0, <3>1, <3>2 DEF Placed, Guarded
  <2>2. CASE Clear(p)
    <3>1. pc'[p] = "idle" /\ op'[p] = "none" /\ mem'[p] = 0 /\ guard # p
      BY <1>t, <2>2 DEF Clear, Placed, Guarded
    <3> QED BY <1>t, <1>i, <2>0, <3>1 DEF Placed, Guarded
  <2> QED BY <1>12, <2>1, <2>2
<1>13. CASE Restart(p)
  BY <1>13, <1>t, <1>i, <1>s DEF Restart, Placed, Guarded
<1>14. CASE Crash(p)
  <2>1. buf'[p].cache = 0 /\ guard' # p
    BY <1>14, <1>t, ProcsAssumption DEF Crash, LeaveConfig, Empty, Holds
  <2> QED BY <1>14, <1>t, <1>i, <2>1 DEF Crash, LeaveConfig, Placed, Guarded
<1>15. CASE SaveFails(p) /\ ~Continue(p, FALSE)
  <2>1. /\ pc[p] = "exporting" /\ guard = p /\ pc' = [pc EXCEPT ![p] = "legacy"]
        /\ buf' = [buf EXCEPT ![p] = Empty] /\ UNCHANGED <<guard, op, mem>>
    BY <1>15 DEF SaveFails, Holds
  <2>2. buf'[p].cache = 0 /\ pc'[p] = "legacy"
    BY <1>t, <2>1 DEF Empty
  <2>3. op[p] \in Acquiring
    BY <1>t, <2>1 DEF Placed, Guarded
  <2> QED BY <1>t, <1>i, <2>1, <2>2, <2>3 DEF Placed, Guarded
<1>16. CASE \/ Persisted(p) \/ SignInFails(p) \/ LegacyRefreshFails(p) \/ LegacySave(p)
            \/ Import(p) \/ Logout(p)
            \/ Legacy(p) /\ (Continue(p, TRUE) \/ Continue(p, FALSE))
            \/ SaveFails(p) /\ Continue(p, FALSE)
            \/ ImportFails(p) \/ ConfigureFails(p) \/ (RemovalFails(p) /\ pc[p] = "logout")
  BY <1>16, <1>c DEF Persisted, SignInFails, LegacyRefreshFails, LegacySave, Import, Logout,
                     Legacy, SaveFails, ImportFails, ConfigureFails, RemovalFails
<1>17. CASE RemovalFails(p) /\ pc[p] = "clear"
  <2>1. /\ pc'[p] = "idle" /\ op'[p] = "none" /\ mem'[p] = 0 /\ guard' = guard /\ guard # p
        /\ buf' = buf
    BY <1>t, <1>17 DEF RemovalFails, Placed, Guarded
  <2> QED BY <1>t, <1>i, <2>1 DEF Placed, Guarded
<1> QED
  BY <1>1, <1>2, <1>3, <1>4, <1>5, <1>6, <1>7, <1>8, <1>9, <1>10, <1>11, <1>12, <1>13, <1>14,
     <1>15, <1>16, <1>17 DEF Act, Step, StoreFails, RemovalFails

(* Every step keeps PlacesInv. *)
LEMMA StepKeepsPlaces ==
  ASSUME IInv, PlacesInv, NEW p \in Procs, Act(p)
  PROVE  PlacesInv'
<1>1. \A q \in Procs : Placed(q)'
  BY StepIsPlaced, OthersStayPlaced
<1>2. record' # NoRecord => record'.cache \in 0..issued'
  <2>1. CASE record' = record
    <3>1. issued \in Nat /\ issued' \in {issued, issued + 1}
      BY BoundAssumption, OthersAreLeft DEF IInv, TypeInv
    <3> QED BY <2>1, <3>1 DEF PlacesInv
  <2> QED BY <2>1, SavedCache
<1> QED BY <1>1, <1>2 DEF PlacesInv

-----------------------------------------------------------------------------
Orderly == mishaps \cap {"outlived", "kept", "torn", "crossed"} = {}

(* The runtime name in config.json is there for those who count on it: for  *)
(* whoever finds a record, and for the commands that are going to save one. *)
NamedInv ==
  Orderly =>
    /\ record # NoRecord => config # "absent"
    /\ \A p \in Procs : pc[p] = "clear" => record = NoRecord
    /\ \A p \in Procs :
         op[p] \in {"import", "revoke", "relogin"} \/ (op[p] = "login" /\ pc[p] # "configure") =>
           config # "absent"
    /\ config = "torn" => \E p \in Procs : pc[p] = "configuring"

(* No step forgets an accident. *)
LEMMA AccidentsStay ==
  ASSUME NEW p \in Procs, Act(p)
  PROVE  mishaps \subseteq mishaps'
BY DEF Act, Step, Start, Configure, Configured, LeaveConfig, SignIn, SignInFails, Lock, Account,
       Silent, SilentRefresh, Export, Exported, Persist, Persisted, Legacy, LegacyRefresh,
       LegacyRefreshFails, LegacySave, Import, StoreToken, Post, PostFails, Logout, Clear,
       Restart, StoreFails, SaveFails, ImportFails, ConfigureFails, RemovalFails, Crash, Saved,
       history

(* Who writes or removes config.json, or dies or fails while writing it. *)
LEMMA ConfigChanges ==
  ASSUME NEW p \in Procs, Act(p), config' # config
  PROVE  \/ Configure(p) \/ Clear(p)
         \/ pc[p] = "configuring" /\ record' = record
              /\ \E done \in BOOLEAN : LeaveConfig(done)
BY DEF Act, Step, Start, Configured, SignIn, SignInFails, Lock, Account, Silent, SilentRefresh,
       Export, Exported, Persist, Persisted, Legacy, LegacyRefresh, LegacyRefreshFails,
       LegacySave, Import, Post, PostFails, Logout, Restart, StoreFails, SaveFails, ImportFails,
       ConfigureFails, RemovalFails, Crash

(* Where a record appears in an orderly history, a sign-in or an import has *)
(* put it, and nobody is erasing.                                           *)
LEMMA OrderlySave ==
  ASSUME IInv, PlacesInv, NEW p \in Procs, Act(p), record = NoRecord, record' # NoRecord, Orderly'
  PROVE  /\ op[p] \in {"login", "relogin", "import"}
         /\ pc[p] \in {"exporting", "persisting", "import"}
         /\ \A q \in Procs : pc[q] \notin {"logout", "clear"}
<1>t. Placed(p) /\ Sound(p)
  BY DEF IInv, PlacesInv
<1>1. PICK r : Saved(p, r) /\ pc[p] \in {"exporting", "persisting", "legacySave", "import"}
  BY RecordChanges DEF Logout, StoreToken
<1>2. op[p] \in {"login", "relogin", "import"}
  BY <1>1 DEF Saved, Outlives, Orderly
<1>3. pc[p] # "legacySave"
  BY <1>t DEF Sound
<1>4. Crossed = {}
  BY <1>1 DEF Saved, Crossed, Orderly
<1>5. \A q \in Procs : pc[q] \notin {"logout", "clear"}
  BY <1>2, <1>4 DEF Crossed
<1> QED BY <1>1, <1>2, <1>3, <1>5

(* The new errand of p, and where it begins. *)
LEMMA NewErrand ==
  ASSUME IInv, PlacesInv, NEW p \in Procs, Act(p)
  PROVE  /\ op'[p] \in {"import", "revoke", "relogin"} \/ (op'[p] = "login" /\ pc'[p] # "configure")
              => \/ op[p] \in {"import", "revoke", "relogin"}
                 \/ op[p] = "login" /\ pc[p] # "configure"
                 \/ config' # "absent"
         /\ pc'[p] = "clear" => Logout(p) \/ (StoreFails(p) /\ "kept" \in mishaps')
         /\ pc[p] = "configuring" => \E done \in BOOLEAN : LeaveConfig(done)
<1> USE DEF Goto
<1>t. /\ pc \in [Procs -> Places] /\ op \in [Procs -> Errands] /\ mem \in [Procs -> Tokens]
      /\ Placed(p) /\ Sound(p)
  BY DEF IInv, TypeInv, PlacesInv
<1>i. issued' \in {issued, issued + 1}
  BY OthersAreLeft
<1>c. ASSUME Continue(p, TRUE) \/ Continue(p, FALSE),
             pc[p] \notin {"idle", "lock", "post", "clear"}
      PROVE  /\ op'[p] # "login" /\ (op'[p] = "relogin" => op[p] = "revoke")
             /\ op'[p] # "import" /\ (op'[p] = "revoke" => op[p] = "revoke")
             /\ pc'[p] = "clear" => op[p] = "erase"
  <2>1. op[p] \in Acquiring \cup SigningIn \cup {"import", "erase"}
    BY <1>c, <1>t DEF Placed, Sound, Places, Guarded, SigningIn
  <2> QED BY <1>c, <1>t, <2>1 DEF Continue, Acquiring, SigningIn
<1>1. CASE Start(p)
  BY <1>1, <1>t DEF Start, FirstLoginStep
<1>2. CASE Configure(p) \/ Configured(p)
  BY <1>2, <1>t DEF Configure, Configured
<1>3. CASE SignIn(p) \/ Account(p) \/ Silent(p) \/ SilentRefresh(p) \/ Export(p)
             \/ Exported(p) \/ Persist(p) \/ LegacyRefresh(p)
  BY <1>3, <1>t DEF SignIn, Account, Silent, SilentRefresh, Export, Exported, Persist,
                    LegacyRefresh
<1>4. CASE Lock(p)
  <2>1. pc[p] = "lock" /\ op' = op /\ pc'[p] # "clear"
    BY <1>4, <1>t DEF Lock
  <2> QED BY <2>1
<1>5. CASE Legacy(p) /\ ~Continue(p, TRUE) /\ ~Continue(p, FALSE)
  BY <1>5, <1>t DEF Legacy
<1>6. CASE Post(p) \/ PostFails(p) \/ Clear(p) \/ Restart(p) \/ Crash(p)
  BY <1>6, <1>t DEF Post, PostFails, Clear, Restart, Crash
<1>7. CASE StoreFails(p) /\ (~Continue(p, FALSE) \/ pc[p] = "clear")
  <2>1. \/ pc[p] = "exporting" /\ pc'[p] = "legacy" /\ op' = op
        \/ pc[p] = "clear" /\ pc'[p] = "idle" /\ op'[p] = "none"
    BY <1>7, <1>t DEF StoreFails, SaveFails, ImportFails, ConfigureFails, RemovalFails
  <2> QED BY <2>1
<1>8. CASE StoreFails(p) /\ Continue(p, FALSE) /\ pc[p] # "clear"
  <2>1. /\ pc[p] \in {"exporting", "persisting", "legacySave", "import", "configure",
                       "configuring", "logout"}
        /\ pc[p] = "logout" => "kept" \in mishaps'
        /\ pc[p] = "configuring" => LeaveConfig(FALSE)
    BY <1>8 DEF StoreFails, SaveFails, ImportFails, ConfigureFails, RemovalFails
  <2>2. op[p] = "erase" => pc[p] = "logout"
    BY <1>t, <2>1 DEF Placed
  <2> QED BY <1>8, <1>c, <2>1, <2>2
<1>9. CASE Logout(p)
  BY <1>9, <1>c DEF Logout
<1>10. CASE \/ Persisted(p) \/ SignInFails(p) \/ LegacyRefreshFails(p) \/ LegacySave(p)
            \/ Import(p)
            \/ Legacy(p) /\ (Continue(p, TRUE) \/ Continue(p, FALSE))
  <2>1. /\ pc[p] \in {"persisting", "device", "refresh", "legacySave", "import", "legacy"}
        /\ Continue(p, TRUE) \/ Continue(p, FALSE)
    BY <1>10 DEF Persisted, SignInFails, LegacyRefreshFails, LegacySave, Import, StoreToken,
                 Legacy
  <2>2. op[p] # "erase"
    BY <1>t, <2>1 DEF Placed
  <2> QED BY <1>c, <2>1, <2>2
<1> QED
  BY <1>1, <1>2, <1>3, <1>4, <1>5, <1>6, <1>7, <1>8, <1>9, <1>10 DEF Act, Step

(* Every step keeps NamedInv. *)
LEMMA StepKeepsNamed ==
  ASSUME IInv, PlacesInv, NamedInv, NEW p \in Procs, Act(p)
  PROVE  NamedInv'
<1> SUFFICES ASSUME Orderly'
             PROVE  /\ record' # NoRecord => config' # "absent"
                    /\ \A q \in Procs : pc'[q] = "clear" => record' = NoRecord
                    /\ \A q \in Procs :
                         op'[q] \in {"import", "revoke", "relogin"}
                             \/ (op'[q] = "login" /\ pc'[q] # "configure") =>
                           config' # "absent"
                    /\ config' = "torn" => \E q \in Procs : pc'[q] = "configuring"
  BY DEF NamedInv
<1>o. Orderly
  BY AccidentsStay DEF Orderly
<1>t. pc \in [Procs -> Places] /\ config \in {"absent", "whole", "torn"}
  BY DEF IInv, TypeInv
<1>q. \A q \in Procs \ {p} : pc'[q] = pc[q] /\ op'[q] = op[q]
  BY OthersAreLeft
<1>n. /\ record # NoRecord => config # "absent"
      /\ \A q \in Procs : pc[q] = "clear" => record = NoRecord
      /\ \A q \in Procs :
           op[q] \in {"import", "revoke", "relogin"} \/ (op[q] = "login" /\ pc[q] # "configure")
             => config # "absent"
      /\ config = "torn" => \E q \in Procs : pc[q] = "configuring"
  BY <1>o DEF NamedInv
<1>l. ASSUME NEW done, LeaveConfig(done)
      PROVE  config' # "torn" /\ (config # "absent" => config' # "absent")
  BY <1>l, LeftConfig DEF IInv, TypeInv, Orderly
<1>c. \/ config' = config
      \/ Configure(p) /\ config' = "torn"
      \/ config' # "torn" /\ (config # "absent" => config' # "absent") /\ record' = record
      \/ Clear(p) /\ config' = "absent" /\ record' = record
  BY <1>l, ConfigChanges DEF Configure, Clear
<1>1. ASSUME record' # NoRecord PROVE config' # "absent"
  <2>1. CASE record = NoRecord
    <3>1. config # "absent" /\ config' = config
      BY <1>1, <1>n, <2>1, OrderlySave, RecordChanges
    <3> QED BY <3>1
  <2>2. CASE record # NoRecord
    <3>1. ~Clear(p)
      BY <1>n, <2>2 DEF Clear
    <3> QED BY <1>c, <1>n, <2>2, <3>1
  <2> QED BY <2>1, <2>2
<1>2. ASSUME NEW q \in Procs, pc'[q] = "clear" PROVE record' = NoRecord
  <2>1. CASE q = p
    <3>1. Logout(p) \/ "kept" \in mishaps'
      BY <1>2, <2>1, NewErrand
    <3> QED BY <3>1 DEF Logout, Orderly
  <2>2. CASE q # p
    <3>1. pc[q] = "clear" /\ record = NoRecord
      BY <1>2, <1>n, <1>q, <2>2
    <3> QED BY <3>1, OrderlySave
  <2> QED BY <2>1, <2>2
<1>3. ASSUME NEW q \in Procs,
             \/ op'[q] \in {"import", "revoke", "relogin"}
             \/ op'[q] = "login" /\ pc'[q] # "configure"
      PROVE  config' # "absent"
  <2>1. CASE q = p
    <3>1. ASSUME Clear(p) PROVE FALSE
      <4>1. op'[p] = "none"
        BY <3>1 DEF Clear, IInv, TypeInv
      <4> QED BY <1>3, <2>1, <4>1
    <3>2. config # "absent" \/ config' # "absent" \/ Configure(p)
      BY <1>3, <1>n, <2>1, NewErrand
    <3> QED BY <1>c, <3>1, <3>2 DEF Configure
  <2>2. CASE q # p
    <3>1. ~Clear(p)
      <4> SUFFICES ASSUME Clear(p) PROVE FALSE
        OBVIOUS
      <4>1. op[q] \in {"login", "import", "revoke", "relogin"} /\ pc[p] = "clear"
        BY <1>3, <1>q, <2>2 DEF Clear
      <4>2. "crossed" \in mishaps'
        BY <4>1 DEF Clear, Crossed
      <4> QED BY <4>2 DEF Orderly
    <3> QED BY <1>3, <1>c, <1>n, <1>q, <2>2, <3>1
  <2> QED BY <2>1, <2>2
<1>4. ASSUME config' = "torn" PROVE \E q \in Procs : pc'[q] = "configuring"
  <2>1. CASE Configure(p)
    BY <1>t, <2>1 DEF Configure, Goto
  <2>2. CASE config = "torn" /\ ~Configure(p)
    <3>1. PICK q \in Procs : pc[q] = "configuring"
      BY <1>n, <2>2
    <3>2. q # p
      <4> SUFFICES ASSUME pc[p] = "configuring" PROVE FALSE
        BY <3>1
      <4> QED BY <1>4, <1>l, NewErrand
    <3> QED BY <1>q, <3>1, <3>2
  <2> QED BY <1>4, <1>c, <2>1, <2>2
<1> QED BY <1>1, <1>2, <1>3, <1>4

-----------------------------------------------------------------------------
Serving == record # NoRecord /\ record.cache \in live
Smooth == mishaps \cap {"dropped", "buried", "crossed"} = {}
Served == signedIn /\ Smooth

(* An account in somebody's memory goes with a record that serves by its     *)
(* cache, which no acquisition may lose, except while a login is on its way *)
(* to its first save; a login that will count as one finds the cache that   *)
(* it has saved; and what is about to be saved serves.                      *)
ServedTo(p) ==
  /\ Served /\ mem[p] # 0 /\ op[p] # "erase" =>
       \/ Serving
       \/ op[p] \in SigningIn /\ pc[p] \in {"export", "exporting"} /\ mem[p] \in live
  /\ Smooth /\ op[p] = "login" /\ pc[p] \in {"lock", "persist", "persisting"} /\ mem[p] \in live =>
       Serving
  /\ Smooth /\ pc[p] = "persisting" /\ (signedIn \/ (op[p] = "login" /\ mem[p] \in live)) =>
       buf[p].cache \in live
  /\ Served /\ pc[p] = "legacySave" => buf[p].refresh \in live

ServedInv ==
  /\ Served => Renewable(record) /\ (Serving \/ record.cache = 0)
  /\ \A p \in Procs : ServedTo(p)

(* What a step of p may do to what the others rely on. *)
LEMMA OthersStayServed ==
  ASSUME IInv, PlacesInv, ServedInv, NEW p \in Procs, Act(p), NEW q \in Procs \ {p},
         live' \subseteq live \cup {issued + 1},
         live \subseteq live' \/ (live' = {} /\ ~signedIn'),
         Served' => Served \/ (guard = p /\ (Serving' \/ mem[q] = 0)),
         signedIn' => signedIn \/ guard = p,
         Smooth' /\ Serving /\ mem[q] # 0 =>
           Serving' \/ (~signedIn' /\ (op[q] = "login" => mem[q] \notin live'))
  PROVE  ServedTo(q)'
<1>1. /\ pc'[q] = pc[q] /\ op'[q] = op[q] /\ mem'[q] = mem[q] /\ buf'[q] = buf[q]
  BY OthersAreLeft
<1>2. Smooth' => Smooth
  BY AccidentsStay DEF Smooth
<1>3. issued \in Nat /\ mem[q] \in 0..issued /\ live \subseteq 1..issued /\ ServedTo(q)
      /\ buf[q].cache \in 0..issued
  BY BoundAssumption DEF PlacesInv, Placed, ServedInv, IInv, TypeInv
<1>4. mem[q] \in live' => mem[q] \in live /\ mem[q] # 0
  BY <1>3
<1>5. pc[q] \in {"persisting", "legacySave"} => guard # p
  BY DEF IInv, Sound, Guarded
<1>6. (Served /\ mem[q] # 0 /\ op[q] # "erase" =>
         \/ Serving
         \/ op[q] \in SigningIn /\ pc[q] \in {"export", "exporting"} /\ mem[q] \in live)'
  BY <1>1, <1>2, <1>3 DEF ServedTo, Served
<1>7. (Smooth /\ op[q] = "login" /\ pc[q] \in {"lock", "persist", "persisting"}
         /\ mem[q] \in live => Serving)'
  BY <1>1, <1>2, <1>3, <1>4 DEF ServedTo
<1>8. (Smooth /\ pc[q] = "persisting" /\ (signedIn \/ (op[q] = "login" /\ mem[q] \in live)) =>
         buf[q].cache \in live)'
  <2> SUFFICES ASSUME Smooth', pc[q] = "persisting",
                      signedIn' \/ (op[q] = "login" /\ mem[q] \in live')
               PROVE  buf[q].cache \in live'
    BY <1>1
  <2>1. buf[q].cache \in live
    BY <1>2, <1>3, <1>4, <1>5 DEF ServedTo
  <2>2. live \subseteq live'
    OBVIOUS
  <2> QED BY <2>1, <2>2
<1>9. (Served /\ pc[q] = "legacySave" => buf[q].refresh \in live)'
  BY <1>1, <1>2, <1>3, <1>5 DEF ServedTo, Served
<1> QED BY <1>6, <1>7, <1>8, <1>9 DEF ServedTo

(* Steps that leave the record, the service's view of the sign-in and the    *)
(* list of the accidents as they are; new tokens may be issued.              *)
LEMMA QuietStep ==
  ASSUME IInv, PlacesInv, ServedInv, NEW p \in Procs, Act(p),
         record' = record, signedIn' = signedIn,
         live' \subseteq live \cup {issued + 1}, live \subseteq live',
         ServedTo(p)'
  PROVE  ServedInv'
<1>1. (Smooth' => Smooth) /\ (Serving => Serving')
  BY AccidentsStay DEF Smooth, Serving
<1>2. \A q \in Procs \ {p} : ServedTo(q)'
  BY <1>1, OthersStayServed DEF Served
<1>3. Served' => Renewable(record)' /\ (Serving' \/ record'.cache = 0)
  BY <1>1 DEF ServedInv, Served, Renewable
<1> QED BY <1>2, <1>3 DEF ServedInv

(* The account that p finds serves as the cache of the record does. *)
LEMMA ReplacedServes ==
  ASSUME IInv, PlacesInv, ServedInv, NEW p \in Procs, Served, op[p] \in Acquiring,
         Replaced(p) # 0
  PROVE  Serving
BY DEF ServedInv, ServedTo, Replaced, Serving, Acquiring, SigningIn

(* When an operation returns, p carries no promise of its own: a sign-in    *)
(* that failed has left no account in memory, or is going to erase it.      *)
LEMMA ReturnedServed ==
  ASSUME IInv, PlacesInv, NEW p \in Procs, Continue(p, TRUE) \/ Continue(p, FALSE),
         op[p] \in Acquiring \cup SigningIn \cup {"import", "erase"},
         issued' \in {issued, issued + 1},
         Served' /\ mem[p] # 0 /\ op[p] # "erase" =>
           Serving' \/ (Continue(p, FALSE) /\ op[p] \in SigningIn)
  PROVE  ServedTo(p)'
<1>1. /\ Placed(p)' /\ pc'[p] \in {"idle", "lock", "device", "post", "clear"}
      /\ op'[p] # "login" /\ mem'[p] \in {0, mem[p]}
  <2>1. CASE Continue(p, TRUE)
    BY <2>1, ReturnedToPlace DEF PlacesInv
  <2>2. CASE Continue(p, FALSE)
    BY <2>2, ReturnedToPlace DEF PlacesInv
  <2> QED BY <2>1, <2>2
<1>2. ASSUME Continue(p, FALSE), op[p] \in SigningIn
      PROVE  mem'[p] = 0 \/ op'[p] = "erase"
  <2>1. p \notin Services
    BY <1>2 DEF PlacesInv, Placed, SigningIn
  <2> QED BY <1>2, <2>1 DEF Continue, SigningIn, IInv, TypeInv
<1>3. op[p] = "erase" => op'[p] = "erase"
  BY DEF Continue, IInv, TypeInv
<1> QED BY <1>1, <1>2, <1>3 DEF ServedTo

(* The steps of p on its way, with the record left alone. *)
LEMMA QuietSteps ==
  ASSUME IInv, PlacesInv, ServedInv, NEW p \in Procs, Act(p),
         \/ Start(p) \/ Configure(p) \/ Configured(p) \/ SignIn(p) \/ SignInFails(p) \/ Lock(p)
         \/ Account(p) \/ Silent(p) \/ SilentRefresh(p) \/ Export(p) \/ Persist(p) \/ Legacy(p)
         \/ LegacyRefresh(p) \/ LegacyRefreshFails(p) \/ Clear(p) \/ Restart(p) \/ Crash(p)
  PROVE  ServedInv'
<1> USE DEF Goto
<1>t. /\ pc \in [Procs -> Places] /\ op \in [Procs -> Errands] /\ mem \in [Procs -> Tokens]
      /\ buf \in [Procs -> Records] /\ TypeInv /\ issued \in Nat
      /\ issued' \in {issued, issued + 1} /\ live \subseteq 1..issued
      /\ Placed(p) /\ Sound(p) /\ ServedTo(p)
  BY BoundAssumption, OthersAreLeft DEF IInv, TypeInv, PlacesInv, ServedInv
<1>1. /\ record' = record /\ signedIn' = signedIn
      /\ UNCHANGED service \/ Issue
  BY DEF Start, Configure, Configured, LeaveConfig, SignIn, SignInFails, Lock, Account, Silent,
         SilentRefresh, Export, Persist, Legacy, LegacyRefresh, LegacyRefreshFails, Clear,
         Restart, Crash, service, history
<1>2. /\ live' \subseteq live \cup {issued + 1} /\ live \subseteq live'
      /\ Smooth' => Smooth
      /\ Served' => Served
      /\ Serving => Serving'
  BY <1>1, AccidentsStay DEF Smooth, Served, Serving, Issue, service
<1>3. SUFFICES ServedTo(p)'
  BY <1>1, <1>2, QuietStep
<1>m. /\ mem[p] \in live' => mem[p] \in live
      /\ 0 \notin live
  <2>1. mem[p] \in 0..issued
    BY <1>t DEF Placed
  <2> QED BY <1>t, <1>2, <2>1
<1>c. ASSUME Continue(p, TRUE) \/ Continue(p, FALSE),
             pc[p] \in {"legacy", "refresh", "device"}
      PROVE  ServedTo(p)'
  <2>1. op[p] \in Acquiring \cup SigningIn \cup {"import", "erase"}
    BY <1>c, <1>t DEF Placed, Sound, SigningIn
  <2>2. pc[p] \notin {"export", "exporting"}
    BY <1>c
  <2>3. Served' /\ mem[p] # 0 /\ op[p] # "erase" => Serving'
    BY <1>t, <1>2, <2>2 DEF ServedTo
  <2> QED BY <1>c, <1>t, <2>1, <2>3, ReturnedServed
<1>4. CASE Start(p)
  BY <1>4, <1>t, <1>2, <1>m DEF Start, FirstLoginStep, ServedTo, Placed
<1>5. CASE Configure(p) \/ Configured(p)
  BY <1>5, <1>t, <1>2, <1>m DEF Configure, Configured, LeaveConfig, ServedTo
<1>6. CASE SignIn(p)
  <2>1. /\ pc'[p] = "export" /\ op' = op /\ mem'[p] = issued + 1 /\ issued + 1 \in live'
        /\ op[p] \in SigningIn
    BY <1>6, <1>t DEF SignIn, Issue, Sound, SigningIn
  <2> QED BY <2>1 DEF ServedTo
<1>7. CASE Lock(p)
  <2>1. /\ pc[p] = "lock" /\ UNCHANGED <<op, mem, buf, live>>
        /\ pc'[p] \in {"persist", "import", "logout", "account"}
    BY <1>7, <1>t DEF Lock, service
  <2> QED BY <1>t, <1>2, <1>m, <2>1 DEF ServedTo
<1>8. CASE Account(p) \/ Silent(p)
  <2>1. /\ pc'[p] \in {"legacy", "silent", "persist"} /\ op' = op /\ mem'[p] = Replaced(p)
        /\ op[p] \in Acquiring
    BY <1>8, <1>t DEF Account, Silent, Placed
  <2>2. Served' /\ mem'[p] # 0 => Serving'
    BY <1>2, <2>1, ReplacedServes
  <2> QED BY <2>1, <2>2 DEF ServedTo, Acquiring
<1>9. CASE SilentRefresh(p)
  <2>1. pc'[p] = "export" /\ op' = op /\ op[p] \in Acquiring /\ Replaced(p) # 0
    BY <1>9, <1>t, <1>m DEF SilentRefresh, Placed
  <2>2. Served' => Serving'
    BY <1>2, <2>1, ReplacedServes
  <2> QED BY <2>1, <2>2 DEF ServedTo, Acquiring
<1>10. CASE Export(p)
  <2>1. pc[p] = "export" /\ pc'[p] = "exporting" /\ UNCHANGED <<op, mem, live>>
    BY <1>10, <1>t DEF Export, service
  <2> QED BY <1>t, <1>2, <2>1 DEF ServedTo
<1>11. CASE Persist(p)
  <2>1. /\ pc[p] = "persist" /\ pc'[p] = "persisting" /\ UNCHANGED <<op, mem, live>>
        /\ mem[p] # 0 /\ op[p] # "erase"
    BY <1>11, <1>t DEF Persist, service, Sound, Placed
  <2>2. buf'[p].cache = LoadedOrEmpty.cache
    BY <1>11, <1>t, LoadedIsRecord DEF Persist, Records
  <2>3. Serving => buf'[p].cache \in live'
    BY <2>1, <2>2 DEF Serving, LoadedOrEmpty
  <2>4. Smooth' /\ (signedIn' \/ (op[p] = "login" /\ mem[p] \in live)) => Serving
    BY <1>t, <1>1, <1>2, <2>1 DEF ServedTo, Served
  <2> QED BY <1>t, <1>2, <2>1, <2>3, <2>4 DEF ServedTo, Served
<1>12. CASE Legacy(p) /\ ~Continue(p, TRUE) /\ ~Continue(p, FALSE)
  <2>1. pc[p] = "legacy" /\ pc'[p] = "refresh" /\ UNCHANGED <<op, mem>>
    BY <1>12, <1>t DEF Legacy
  <2> QED BY <1>t, <1>2, <2>1 DEF ServedTo
<1>13. CASE LegacyRefresh(p)
  <2>1. /\ pc[p] = "refresh" /\ pc'[p] = "legacySave" /\ UNCHANGED <<op, mem>>
    BY <1>13, <1>t DEF LegacyRefresh
  <2>2. buf'[p].refresh \in live'
    <3>1. CASE UNCHANGED service /\ buf' = [buf EXCEPT ![p] = Refreshed(buf[p].refresh, 0)]
      BY <1>13, <1>t, <3>1 DEF LegacyRefresh, Refreshed, service
    <3>2. CASE Issue /\ buf' = [buf EXCEPT ![p] = Refreshed(buf[p].refresh, issued + 1)]
      <4>1. issued + 1 # 0 /\ issued + 1 \in live'
        BY <1>t, <3>2 DEF Issue
      <4> QED BY <1>t, <3>2, <4>1 DEF Refreshed
    <3> QED BY <1>13, <3>1, <3>2 DEF LegacyRefresh
  <2> QED BY <1>t, <1>2, <2>1, <2>2 DEF ServedTo
<1>14. CASE Clear(p) \/ Restart(p) \/ Crash(p)
  <2>1. mem'[p] = 0 /\ pc'[p] = "idle"
    BY <1>14, <1>t DEF Clear, Restart, Crash, LeaveConfig
  <2> QED BY <2>1 DEF ServedTo
<1> QED
  BY <1>4, <1>5, <1>6, <1>7, <1>8, <1>9, <1>10, <1>11, <1>12, <1>13, <1>14, <1>c
     DEF Legacy, SignInFails, LegacyRefreshFails

(* A save of what p has made of the record: an orderly history keeps a     *)
(* cache that serves.                                                      *)
LEMMA SaveServes ==
  ASSUME IInv, PlacesInv, ServedInv, NEW p \in Procs, Act(p),
         pc[p] \in {"exporting", "persisting", "legacySave"}, Saved(p, buf[p]), live' = live,
         \/ signedIn' = signedIn
         \/ pc[p] = "persisting" /\ signedIn' = (signedIn \/ (op[p] = "login" /\ mem[p] \in live))
  PROVE  /\ Smooth' /\ Serving => Serving'
         /\ Served' => Renewable(record)' /\ (Serving' \/ record'.cache = 0)
         /\ Served' /\ pc[p] # "legacySave" => Serving'
         /\ \A q \in Procs \ {p} : ServedTo(q)'
<1>t. /\ TypeInv /\ Placed(p) /\ Sound(p) /\ ServedTo(p) /\ buf[p] \in Records
      /\ buf[p] # NoRecord /\ record' = buf[p]
  BY RecordsAreRecords DEF IInv, TypeInv, PlacesInv, ServedInv, Saved
<1>1. Smooth' => Smooth
  BY AccidentsStay DEF Smooth
<1>2. Smooth' /\ Serving => Serving'
  <2> SUFFICES ASSUME Smooth', Serving, ~Serving' PROVE FALSE
    OBVIOUS
  <2>1. op[p] # "import"
    BY <1>t DEF Placed
  <2>2. Drops(p, buf[p])
    BY <1>t, <2>1 DEF Drops, Serving
  <2> QED BY <2>2 DEF Saved, Smooth
<1>3. Served' => Served \/ (pc[p] = "persisting" /\ op[p] = "login" /\ mem[p] \in live)
  BY <1>1 DEF Served
<1>4. Served' /\ pc[p] = "persisting" => Serving'
  BY <1>1, <1>3, <1>t DEF ServedTo, Served, Serving
<1>5. Served' /\ pc[p] = "exporting" => Serving'
  <2> SUFFICES ASSUME Served', pc[p] = "exporting" PROVE Serving'
    OBVIOUS
  <2>1. Serving \/ mem[p] \in live
    BY <1>3, <1>t DEF ServedTo, Sound, Placed
  <2>2. CASE Serving
    BY <1>2, <2>2 DEF Served
  <2>3. CASE mem[p] \in live
    BY <1>t, <2>3 DEF Serving, Placed
  <2> QED BY <2>1, <2>2, <2>3
<1>6. Served' /\ pc[p] = "legacySave" => Renewable(record)' /\ (Serving' \/ record'.cache = 0)
  BY <1>3, <1>t DEF ServedTo, Placed, Renewable
<1>7. Served' => Renewable(record)' /\ (Serving' \/ record'.cache = 0)
  BY <1>4, <1>5, <1>6 DEF Serving, Renewable
<1>8. ASSUME NEW q \in Procs \ {p} PROVE ServedTo(q)'
  <2>1. pc[p] = "persisting" => guard = p
    BY <1>t DEF Sound, Guarded
  <2>2. Served' => Served \/ (guard = p /\ Serving')
    BY <1>3, <1>4, <2>1
  <2>3. signedIn' => signedIn \/ guard = p
    BY <2>1
  <2> QED BY <1>2, <2>2, <2>3, OthersStayServed
<1> QED BY <1>2, <1>4, <1>5, <1>7, <1>8

(* The saves, whether they report success or not. *)
LEMMA SaveSteps ==
  ASSUME IInv, PlacesInv, ServedInv, NEW p \in Procs, Act(p),
         \/ Exported(p) \/ Persisted(p) \/ LegacySave(p)
         \/ SaveFails(p) /\ Saved(p, buf[p])
  PROVE  ServedInv'
<1> USE DEF Goto
<1>t. /\ pc \in [Procs -> Places] /\ op \in [Procs -> Errands] /\ mem \in [Procs -> Tokens]
      /\ TypeInv /\ Placed(p) /\ Sound(p) /\ ServedTo(p)
      /\ issued' \in {issued, issued + 1}
      /\ op[p] \in Acquiring \cup SigningIn
  <2>1. op[p] \in Acquiring \cup SigningIn
    BY DEF Exported, Persisted, LegacySave, SaveFails, PlacesInv, Placed
  <2> QED BY <2>1, OthersAreLeft DEF IInv, TypeInv, PlacesInv, ServedInv
<1>0. /\ pc[p] \in {"exporting", "persisting", "legacySave"} /\ Saved(p, buf[p]) /\ live' = live
      /\ \/ signedIn' = signedIn
         \/ pc[p] = "persisting" /\ signedIn' = (signedIn \/ (op[p] = "login" /\ mem[p] \in live))
  BY DEF Exported, Persisted, LegacySave, SaveFails, service
<1>1. /\ Smooth' /\ Serving => Serving'
      /\ Served' => Renewable(record)' /\ (Serving' \/ record'.cache = 0)
      /\ Served' /\ pc[p] # "legacySave" => Serving'
      /\ \A q \in Procs \ {p} : ServedTo(q)'
  BY <1>0, SaveServes
<1>2. SUFFICES ServedTo(p)'
  BY <1>1 DEF ServedInv
<1>m. Smooth' => Smooth
  BY AccidentsStay DEF Smooth
<1>3. Served' /\ mem[p] # 0 /\ op[p] # "erase" => Serving'
  <2> SUFFICES ASSUME Served', mem[p] # 0, op[p] # "erase", pc[p] = "legacySave" PROVE Serving'
    BY <1>1
  <2>1. signedIn' = signedIn
    BY <1>0
  <2>2. Serving
    BY <1>m, <1>t, <2>1 DEF ServedTo, Served
  <2> QED BY <1>1, <2>2 DEF Served
<1>c. ASSUME Continue(p, TRUE) \/ Continue(p, FALSE) PROVE ServedTo(p)'
  <2>1. op[p] \in Acquiring \cup SigningIn \cup {"import", "erase"}
    BY <1>t
  <2> QED BY <1>c, <1>t, <1>3, <2>1, ReturnedServed
<1>4. CASE Exported(p)
  <2>1. /\ pc[p] = "exporting" /\ pc'[p] \in {"persist", "lock"} /\ UNCHANGED <<op, mem>>
        /\ op[p] # "erase"
    BY <1>4, <1>t DEF Exported, Placed
  <2>2. Smooth' /\ op[p] = "login" /\ mem[p] \in live => Serving'
    <3>1. record' = buf[p] /\ buf[p].cache = mem[p] /\ buf[p] # NoRecord
      BY <1>0, <1>t, <2>1, RecordsAreRecords DEF Saved, Placed, TypeInv
    <3> QED BY <1>0, <3>1 DEF Serving
  <2> QED BY <1>0, <1>1, <1>3, <2>1, <2>2 DEF ServedTo
<1>5. CASE SaveFails(p) /\ ~Continue(p, FALSE)
  <2>1. pc[p] = "exporting" /\ pc'[p] = "legacy" /\ UNCHANGED <<op, mem>>
    BY <1>5, <1>t DEF SaveFails
  <2> QED BY <1>1, <2>1 DEF ServedTo
<1> QED BY <1>4, <1>5, <1>c DEF Persisted, LegacySave

(* An import, which nobody's account may bury, whether or not it reports *)
(* success.                                                              *)
LEMMA ImportStep ==
  ASSUME IInv, PlacesInv, ServedInv, NEW p \in Procs, Act(p), pc[p] = "import", StoreToken(p),
         Continue(p, TRUE) \/ Continue(p, FALSE)
  PROVE  ServedInv'
<1>t. /\ TypeInv /\ Placed(p) /\ Sound(p) /\ op[p] = "import" /\ mem[p] = 0 /\ guard = p
      /\ issued' \in {issued, issued + 1}
  BY OthersAreLeft DEF StoreToken, IInv, PlacesInv, Placed, Sound, Guarded
<1>1. /\ live' \subseteq live \cup {issued + 1} /\ live \subseteq live'
      /\ record'.cache = 0 /\ record' # NoRecord
      /\ signedIn' => record'.refresh \in live'
  <2>1. \A n \in Nat, a \in BOOLEAN : [cache |-> 0, refresh |-> n, access |-> a] # NoRecord
    BY NoRecordAssumption DEF Record
  <2>2. issued + 1 \in Nat
    BY <1>t, BoundAssumption DEF TypeInv
  <2>3. CASE Issue /\ record' = [cache |-> 0, refresh |-> issued + 1, access |-> FALSE]
    BY <2>1, <2>2, <2>3 DEF Issue
  <2>4. CASE UNCHANGED service /\ signedIn' = FALSE
             /\ record' = [cache |-> 0, refresh |-> 0, access |-> TRUE]
    BY <2>1, <2>4 DEF service
  <2> QED BY <2>3, <2>4 DEF StoreToken, Saved
<1>2. Smooth' => \A q \in Procs \ {p} : mem[q] = 0
  <2> SUFFICES ASSUME NEW q \in Procs \ {p}, mem[q] # 0 PROVE ~Smooth'
    OBVIOUS
  <2>1. Buries(p)
    BY <1>t DEF Buries
  <2>2. "buried" \in mishaps'
    BY <2>1 DEF StoreToken, Saved
  <2> QED BY <2>2 DEF Smooth
<1>3. \A q \in Procs \ {p} : ServedTo(q)'
  BY <1>1, <1>2, <1>t, OthersStayServed DEF Served
<1>4. ServedTo(p)'
  BY <1>t, ReturnedServed
<1>5. Served' => Renewable(record)' /\ (Serving' \/ record'.cache = 0)
  BY <1>1 DEF Served, Renewable
<1> QED BY <1>3, <1>4, <1>5 DEF ServedInv

(* A revocation ends the promise; it crosses no login. *)
LEMMA RevokeServed ==
  ASSUME IInv, PlacesInv, ServedInv, NEW p \in Procs, Act(p), Post(p) \/ PostFails(p) \/ Logout(p)
  PROVE  ServedInv'
<1> USE DEF Goto
<1>t. /\ pc \in [Procs -> Places] /\ op \in [Procs -> Errands] /\ mem \in [Procs -> Tokens]
      /\ TypeInv /\ Placed(p) /\ ServedTo(p) /\ issued' \in {issued, issued + 1}
  BY OthersAreLeft DEF IInv, TypeInv, PlacesInv, ServedInv
<1>1. CASE Logout(p)
  <2>1. ~signedIn' /\ ~Served' /\ live' = live /\ pc[p] = "logout" /\ op[p] = "erase"
    BY <1>1, <1>t DEF Logout, Served, service, Placed
  <2>2. ASSUME NEW q \in Procs, Smooth' PROVE op[q] # "login"
    <3> SUFFICES ASSUME op[q] = "login" PROVE FALSE
      OBVIOUS
    <3>1. "crossed" \in mishaps'
      BY <1>1, <2>1 DEF Logout, Crossed
    <3> QED BY <2>2, <3>1 DEF Smooth
  <2>3. \A q \in Procs \ {p} : ServedTo(q)'
    BY <2>1, <2>2, OthersStayServed
  <2>4. ServedTo(p)'
    BY <1>1, <1>t, <2>1, ReturnedServed DEF Logout
  <2> QED BY <2>1, <2>3, <2>4 DEF ServedInv
<1>2. CASE Post(p) \/ PostFails(p)
  <2>1. /\ record' = record /\ mishaps' = mishaps
        /\ pc[p] = "post" /\ (mem'[p] = 0 \/ (op'[p] = "erase" /\ pc'[p] = "lock"))
        /\ pc'[p] \in {"lock", "idle"} /\ op'[p] \in {"erase", "none"}
        /\ \/ live' = {} /\ ~signedIn'
           \/ live' = live /\ signedIn' = signedIn
    BY <1>2, <1>t DEF Post, PostFails
  <2>2. ServedTo(p)'
    BY <2>1 DEF ServedTo
  <2>3. CASE live' = {} /\ ~signedIn'
    <3>1. \A q \in Procs \ {p} : ServedTo(q)'
      BY <2>3, OthersStayServed DEF Served
    <3> QED BY <2>2, <2>3, <3>1 DEF ServedInv, Served
  <2>4. CASE live' = live /\ signedIn' = signedIn
    BY <2>1, <2>2, <2>4, QuietStep
  <2> QED BY <2>1, <2>3, <2>4
<1> QED BY <1>1, <1>2

(* A save or a removal that fails without a trace in the record, or a login *)
(* that cannot write its configuration.                                     *)
LEMMA NothingSaved ==
  ASSUME IInv, PlacesInv, ServedInv, NEW p \in Procs, Act(p), StoreFails(p),
         UNCHANGED <<record, live, signedIn>>
  PROVE  ServedInv'
<1>t. /\ TypeInv /\ Placed(p) /\ Sound(p) /\ ServedTo(p) /\ issued' \in {issued, issued + 1}
      /\ pc \in [Procs -> Places] /\ op \in [Procs -> Errands] /\ mem \in [Procs -> Tokens]
  BY OthersAreLeft DEF IInv, TypeInv, PlacesInv, ServedInv
<1>1. Smooth' => Smooth
  BY AccidentsStay DEF Smooth
<1>2. Served' => Served /\ (Serving => Serving')
  BY <1>1 DEF Served, Serving
<1>3. CASE Continue(p, FALSE) /\ pc[p] # "clear"
  <2>1. \/ pc[p] \in {"persisting", "legacySave", "import", "logout", "configure",
                     "configuring"}
        \/ pc[p] = "exporting" /\ op[p] \in SigningIn
        \/ pc[p] = "exporting" /\ guard = p
    BY <1>3, <1>t DEF StoreFails, SaveFails, ImportFails, ConfigureFails, RemovalFails, Holds,
                      Placed, Sound, Acquiring, SigningIn
  <2>2. op[p] \in Acquiring \cup SigningIn \cup {"import", "erase"}
    BY <1>t, <2>1 DEF Placed, Sound, SigningIn
  <2>3. Served' /\ mem[p] # 0 /\ op[p] # "erase" => Serving' \/ op[p] \in SigningIn
    BY <1>t, <1>2, <2>1, <2>2 DEF ServedTo, Placed, Sound, SigningIn
  <2>4. ServedTo(p)'
    BY <1>t, <1>3, <2>2, <2>3, ReturnedServed
  <2> QED BY <2>4, QuietStep
<1>4. CASE ~Continue(p, FALSE) /\ pc[p] # "clear"
  <2>1. /\ pc[p] = "exporting" /\ guard = p /\ pc' = [pc EXCEPT ![p] = "legacy"]
        /\ UNCHANGED <<op, mem>>
    BY <1>4 DEF StoreFails, SaveFails, ImportFails, ConfigureFails, RemovalFails, Holds, Goto
  <2>2. pc'[p] = "legacy" /\ op[p] \notin SigningIn
    BY <1>t, <2>1 DEF Placed, Guarded, Acquiring, SigningIn
  <2>3. ServedTo(p)'
    BY <1>t, <1>2, <2>1, <2>2 DEF ServedTo
  <2> QED BY <2>3, QuietStep
<1>5. CASE pc[p] = "clear"
  <2>1. mem'[p] = 0 /\ pc'[p] = "idle"
    BY <1>5, <1>t
       DEF StoreFails, SaveFails, ImportFails, ConfigureFails, RemovalFails, Goto
  <2>2. ServedTo(p)'
    BY <2>1 DEF ServedTo
  <2> QED BY <2>2, QuietStep
<1> QED BY <1>3, <1>4, <1>5

(* Every step keeps ServedInv. *)
LEMMA StepKeepsServed ==
  ASSUME IInv, PlacesInv, ServedInv, NEW p \in Procs, Act(p)
  PROVE  ServedInv'
<1>1. ASSUME StoreFails(p)
      PROVE  \/ SaveFails(p) /\ Saved(p, buf[p])
             \/ pc[p] = "import" /\ StoreToken(p) /\ Continue(p, FALSE)
             \/ UNCHANGED <<record, live, signedIn>>
  BY <1>1 DEF StoreFails, SaveFails, ImportFails, ConfigureFails, RemovalFails, service
<1>2. ASSUME Import(p) PROVE pc[p] = "import" /\ StoreToken(p) /\ Continue(p, TRUE)
  BY <1>2 DEF Import
<1> QED
  BY <1>1, <1>2, QuietSteps, SaveSteps, ImportStep, RevokeServed, NothingSaved DEF Act, Step

-----------------------------------------------------------------------------
(* The three invariants about the saved record hold. *)
LEMMA RecordInvariance == Spec => [](PlacesInv /\ ServedInv /\ NamedInv)
<1>1. Init => PlacesInv /\ ServedInv /\ NamedInv
  <2> SUFFICES ASSUME Init PROVE ServedInv /\ NamedInv
    BY PlacesAtFirst
  <2>1. \A p \in Procs : pc[p] = "idle" /\ op[p] = "none" /\ mem[p] = 0
    BY DEF Init
  <2>2. Served => Renewable(record) /\ (Serving \/ record.cache = 0)
    <3>1. CASE record = NoRecord
      BY <3>1 DEF Init, Served
    <3>2. CASE record # NoRecord
      <4>1. record = [cache |-> 0, refresh |-> 1, access |-> TRUE] /\ live = 1..1
        BY <3>2 DEF Init
      <4>2. record.refresh = 1 /\ record.cache = 0 /\ 1 \in live
        BY <4>1
      <4> QED BY <3>2, <4>2 DEF Renewable
    <3> QED BY <3>1, <3>2
  <2>3. ServedInv
    BY <2>1, <2>2 DEF ServedInv, ServedTo
  <2>4. NamedInv
    BY <2>1 DEF Init, NamedInv
  <2> QED BY <2>3, <2>4
<1>2. IInv /\ (PlacesInv /\ ServedInv /\ NamedInv) /\ [Next]_vars =>
        (PlacesInv /\ ServedInv /\ NamedInv)'
  <2> SUFFICES ASSUME IInv, PlacesInv, ServedInv, NamedInv, [Next]_vars
               PROVE  PlacesInv' /\ ServedInv' /\ NamedInv'
    OBVIOUS
  <2>1. CASE Next
    <3>1. PICK p \in Procs : Act(p)
      BY <2>1 DEF Next, Act
    <3> QED BY <3>1, StepKeepsPlaces, StepKeepsServed, StepKeepsNamed
  <2>2. CASE UNCHANGED vars
    <3>1. UNCHANGED <<record, config, live, issued, guard, pc, op, mem, buf, signedIn, mishaps>>
      BY <2>2 DEF vars, service, history
    <3>2. PlacesInv'
      BY <3>1 DEF PlacesInv, Placed
    <3>3. ServedInv'
      BY <3>1 DEF ServedInv, ServedTo, Served, Smooth, Serving, Renewable
    <3>4. NamedInv'
      BY <3>1 DEF NamedInv, Orderly
    <3> QED BY <3>2, <3>3, <3>4
  <2> QED BY <2>1, <2>2
<1> QED BY <1>1, <1>2, Invariance, PTL DEF Spec

(* A credential that was signed in stays usable without its user through    *)
(* acquisitions, logins, crashes and failed saves of any number of          *)
(* processes, but for the three accidents that StaysRenewable names.        *)
THEOREM CredentialStaysRenewable == Spec => []StaysRenewable
<1>1. ServedInv => StaysRenewable
  BY DEF ServedInv, StaysRenewable, Served, Smooth
<1> QED BY <1>1, RecordInvariance, PTL

(* Whoever finds a token record finds the runtime name too, or a login that *)
(* is writing it: RevokeIsPossible, for any number of commands that sign    *)
(* in, import and revoke at the same time.                                  *)
THEOREM RecordsCanBeRevoked == Spec => []RevokeIsPossible
<1>1. IInv /\ NamedInv => RevokeIsPossible
  BY DEF IInv, TypeInv, NamedInv, Orderly, RevokeIsPossible
<1> QED BY <1>1, Invariance, RecordInvariance, PTL
=============================================================================
