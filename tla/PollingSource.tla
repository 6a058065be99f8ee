--------------------------- MODULE PollingSource ---------------------------
(***************************************************************************)
(* A polled source: PollingProducer with its state file (delta link,       *)
(* next delta link, pending messages), the IMAP reader behind it, and the  *)
(* cycles of `mimecrypt run` that call them, over a folder in which mail   *)
(* arrives and from which its user removes mail at any time.               *)
(*                                                                         *)
(* The Coordinator is reduced to the state it saves per transaction key,   *)
(* which is made of the source's name and the UID; module Coordinator has  *)
(* it in full.                                                             *)
(***************************************************************************)
EXTENDS ImapDelta

CONSTANTS
  Mails,            \* the mails that may arrive
  IncludeExisting,  \* include_existing of the source
  DeleteSource,     \* delete_source of the route (IMAP deletes are hard)
  OmitsUIDNext,     \* may the server's SELECT leave out UIDNEXT?
  UserExpunges,     \* \subseteq {"unpolled", "pending", "handled"}: what the user removes
  MaxUID,           \* bound: the highest UID
  MaxValidity,      \* bound: the highest UIDVALIDITY
  MaxExpunges,      \* bound: mails the user removes
  MaxFaults         \* bound: failed calls, crashes and timeouts in one behaviour

ASSUME PollAssumption ==
  /\ IncludeExisting \in BOOLEAN /\ DeleteSource \in BOOLEAN /\ OmitsUIDNext \in BOOLEAN
  /\ UserExpunges \subseteq {"unpolled", "pending", "handled"}
ASSUME PollBoundAssumption ==
  MaxUID \in Nat /\ MaxValidity \in Nat \ {0} /\ MaxExpunges \in Nat /\ MaxFaults \in Nat

VARIABLES
  uid,       \* uid[m]: the UID of mail m, 0 if it is not in the folder
  uidNext,   \* the folder's UIDNEXT
  validity,  \* the folder's UIDVALIDITY
  arrived,   \* the mails that have arrived
  existing,  \* those that arrived before the program was first started
  due,       \* those the source has to offer
  accidents, \* which of the two accidents below have happened
  link,      \* pollingState.DeltaLink
  next,      \* pollingState.NextDeltaLink
  pending,   \* pollingState.PendingMessages: UIDs, offered in ascending order
  tx,        \* tx[u]: what the Coordinator has saved for the key of UID u
  pc,        \* the next step of the process
  sel,       \* the reader's SELECT: validity, uidNext and the last UID covered
  ids,       \* the answer of its UID SEARCH
  got,       \* the messages it returns
  mark,      \* the delta link it returns
  cur,       \* the UID of the message being handled
  handled,   \* the mails whose MIME was processed and delivered
  removed,   \* the mails the program deleted from the folder
  faults, expunges

folder == <<uid, uidNext, validity>>
history == <<arrived, existing, due, accidents>>
file == <<link, next, pending>>
reader == <<sel, ids, got, mark>>
outcome == <<handled, removed>>
vars == <<folder, history, file, tx, pc, reader, cur, outcome, faults, expunges>>

UIDs == 1..MaxUID
NoSelect == [validity |-> 0, uidNext |-> 0, last |-> 0]

Init ==
  /\ uid = [m \in Mails |-> 0]
  /\ uidNext = 1
  /\ validity = 1
  /\ arrived = {} /\ existing = {} /\ due = {} /\ accidents = {}
  /\ link = NoLink /\ next = NoLink /\ pending = {}
  /\ tx = [u \in UIDs |-> "none"]
  /\ pc = "new"
  /\ sel = NoSelect /\ ids = {} /\ got = {} /\ mark = NoLink
  /\ cur = 0
  /\ handled = {} /\ removed = {}
  /\ faults = 0 /\ expunges = 0

Present == {u \in UIDs : \E m \in Mails : uid[m] = u}

(* What makes the source offer mail that it should have passed over.         *)
(* "starred": the folder was searched for mail beyond the link when the link *)
(* covered all there was, since the new mail had gone or SELECT had not      *)
(* reported UIDNEXT; "*" is then the highest UID that the link covers.       *)
(* "cut": a header fetch failed in the first listing, and the link went no   *)
(* further.                                                                  *)
Accidents == {"starred", "cut"}

NothingNew == Present # {} /\ \A u \in Present : u <= sel.last

-----------------------------------------------------------------------------
(* The folder. *)

(* A mail arrives.  The source has to offer it if it offers existing mail,  *)
(* or if the first listing is recorded by then.                             *)
Arrive(m) ==
  /\ m \notin arrived
  /\ uidNext <= MaxUID
  /\ uid' = [uid EXCEPT ![m] = uidNext]
  /\ uidNext' = uidNext + 1
  /\ arrived' = arrived \cup {m}
  /\ existing' = IF pc = "new" THEN existing \cup {m} ELSE existing
  /\ due' = IF IncludeExisting \/ link # NoLink THEN due \cup {m} ELSE due
  /\ UNCHANGED <<validity, accidents, file, tx, pc, reader, cur, outcome, faults, expunges>>

(* Where the program is with mail m when its user removes it. *)
Stage(m) ==
  IF m \in handled THEN "handled"
  ELSE IF uid[m] \in pending \cup got THEN "pending" ELSE "unpolled"

Expunge(m) ==
  /\ uid[m] # 0
  /\ Stage(m) \in UserExpunges
  /\ expunges < MaxExpunges
  /\ expunges' = expunges + 1
  /\ uid' = [uid EXCEPT ![m] = 0]
  /\ UNCHANGED <<uidNext, validity, history, file, tx, pc, reader, cur, outcome, faults>>

(* The server numbers the folder afresh, under a new UIDVALIDITY, but not    *)
(* under a session that has it selected.                                    *)
Renumber ==
  /\ validity < MaxValidity
  /\ pc \notin {"search", "fetch"}
  /\ validity' = validity + 1
  /\ \E n \in 1..uidNext :
       /\ uidNext' = n
       /\ uid' \in [Mails -> 0..(n - 1)]
  /\ \A m \in Mails : uid'[m] = 0 <=> uid[m] = 0
  /\ \A m, o \in Mails : uid[m] # 0 /\ uid[m] < uid[o] => uid'[m] < uid'[o]
  /\ UNCHANGED <<history, file, tx, pc, reader, cur, outcome, faults, expunges>>

-----------------------------------------------------------------------------
(* The process: a cycle calls Runner.RunOnce until it reports no mail.      *)

Fault == faults < MaxFaults /\ faults' = faults + 1

Forget ==
  /\ sel' = NoSelect /\ ids' = {} /\ got' = {} /\ mark' = NoLink
  /\ cur' = 0

Start ==
  /\ pc = "new"
  /\ pc' = "idle"
  /\ UNCHANGED <<folder, history, file, tx, reader, cur, outcome, faults, expunges>>

(* The process dies and is started again, or a call fails, for example at   *)
(* the cycle's timeout, which ends the cycle: what is in memory is lost.    *)
Interrupt ==
  /\ pc \notin {"new", "idle"}
  /\ Fault
  /\ pc' = "idle"
  /\ Forget
  /\ UNCHANGED <<folder, history, file, tx, outcome, expunges>>

First(u, messages) == \A v \in messages : u <= v

(* PollingProducer.Next offers the first pending message, ... *)
Offer ==
  /\ pc = "idle"
  /\ pending # {}
  /\ next # NoLink
  /\ \E u \in pending : First(u, pending) /\ cur' = u
  /\ pc' = "run"
  /\ UNCHANGED <<folder, history, file, tx, reader, outcome, faults, expunges>>

(* ... or lists new mail.  The reader selects the folder, ... *)
Select ==
  /\ pc = "idle"
  /\ pending = {}
  /\ \E status \in {uidNext} \cup (IF OmitsUIDNext THEN {0} ELSE {}) :
       LET last == LastUID(link, validity)
       IN  /\ sel' = [validity |-> validity, uidNext |-> status, last |-> last]
           /\ mark' = [validity |-> validity, uid |-> last]
           /\ pc' = IF MayHaveNew(last, status) THEN "search" ELSE "save"
  /\ UNCHANGED <<folder, history, file, tx, ids, got, cur, outcome, faults, expunges>>

(* ... searches it, ... *)
SearchNew ==
  /\ pc = "search"
  /\ ids' = Search(Present, sel.last + 1)
  /\ pc' = IF ids' = {} THEN "save" ELSE "fetch"
  /\ accidents' = IF NothingNew THEN accidents \cup {"starred"} ELSE accidents
  /\ UNCHANGED <<folder, arrived, existing, due, file, tx, sel, got, mark, cur, outcome,
                 faults, expunges>>

(* ... and fetches headers until a UID fails; what is gone is left out. *)
FetchHeaders ==
  /\ pc = "fetch"
  /\ \E through \in ids \cup {0} :
       LET complete == \A u \in ids : u <= through
       IN  /\ IF complete THEN UNCHANGED <<faults, accidents>>
              ELSE /\ Fault
                   /\ accidents' = IF link = NoLink THEN accidents \cup {"cut"} ELSE accidents
           /\ got' = {u \in ids : u <= through /\ u \in Present}
           /\ mark' = [validity |-> sel.validity,
                       uid |-> Checkpoint(sel.last, through, complete, sel.uidNext)]
  /\ pc' = "save"
  /\ UNCHANGED <<folder, arrived, existing, due, file, tx, sel, ids, cur, outcome, expunges>>

(* Mutant: the first listing is a listing like any other. *)
Bootstrapping_never == FALSE

Bootstrapping == link = NoLink

(* Next records the listing.  The first one is not offered, unless existing *)
(* mail is included; an empty one ends the cycle.                           *)
SaveListing ==
  /\ pc = "save"
  /\ sel' = NoSelect /\ ids' = {} /\ got' = {} /\ mark' = NoLink
  /\ IF got = {} \/ (Bootstrapping /\ ~IncludeExisting)
       THEN /\ link' = mark
            /\ next' = NoLink
            /\ pending' = {}
            /\ pc' = "idle"
            /\ UNCHANGED cur
       ELSE /\ link' = link
            /\ next' = mark
            /\ pending' = got
            /\ pc' = "run"
            /\ \E u \in got : First(u, got) /\ cur' = u
  /\ UNCHANGED <<folder, history, tx, outcome, faults, expunges>>

(* Coordinator.Run finds a completed transaction and has nothing to do: a   *)
(* polled source has no FinalizeAcknowledge.                                *)
AlreadyCompleted ==
  /\ pc = "run"
  /\ tx[cur] = "completed"
  /\ pc' = "idle"
  /\ Forget
  /\ UNCHANGED <<folder, history, file, tx, outcome, faults, expunges>>

(* It resumes an interrupted transaction, ... *)
Resume ==
  /\ pc = "run"
  /\ tx[cur] \in {"delivered", "deleted", "acked"}
  /\ pc' = CASE tx[cur] = "delivered" -> IF DeleteSource THEN "delete" ELSE "ack"
             [] tx[cur] = "deleted"   -> "ack"
             [] tx[cur] = "acked"     -> "complete"
  /\ UNCHANGED <<folder, history, file, tx, reader, cur, outcome, faults, expunges>>

(* ... or processes and delivers the mail that has the UID now. *)
Deliver(m) ==
  /\ pc = "run"
  /\ tx[cur] = "none"
  /\ uid[m] = cur
  /\ handled' = handled \cup {m}
  /\ tx' = [tx EXCEPT ![cur] = "delivered"]
  /\ pc' = IF DeleteSource THEN "delete" ELSE "ack"
  /\ UNCHANGED <<folder, history, file, reader, cur, removed, faults, expunges>>

(* FetchMIME finds no mail with the UID: an error, the cycle ends. *)
MailIsGone ==
  /\ pc = "run"
  /\ tx[cur] = "none"
  /\ cur \notin Present
  /\ pc' = "idle"
  /\ Forget
  /\ UNCHANGED <<folder, history, file, tx, outcome, faults, expunges>>

(* Mutant: the UID set of the deletion is open-ended. *)
Targeted_range(m) == uid[m] >= cur

(* The mail that the deletion of the message's UID hits. *)
Targeted(m) == uid[m] = cur

(* Delete expunges the UID if it is there, whatever mail that is now. *)
Delete ==
  /\ pc = "delete"
  /\ uid' = [m \in Mails |-> IF Targeted(m) THEN 0 ELSE uid[m]]
  /\ removed' = removed \cup {m \in Mails : Targeted(m)}
  /\ pc' = "saveDeleted"
  /\ UNCHANGED <<uidNext, validity, history, file, tx, reader, cur, handled, faults, expunges>>

SaveDeleted ==
  /\ pc = "saveDeleted"
  /\ tx' = [tx EXCEPT ![cur] = "deleted"]
  /\ pc' = "ack"
  /\ UNCHANGED <<folder, history, file, reader, cur, outcome, faults, expunges>>

(* Mutant: the state written while messages remain lacks the next link. *)
Kept_noNext == NoLink

(* NextDeltaLink while messages remain. *)
Kept == next

(* Acknowledge takes the message off the pending list; with the last one    *)
(* the link moves on.                                                       *)
Acknowledge ==
  /\ pc = "ack"
  /\ IF cur \notin pending THEN UNCHANGED file
     ELSE /\ pending' = pending \ {cur}
          /\ IF pending' = {} THEN link' = next /\ next' = NoLink
                              ELSE link' = link /\ next' = Kept
  /\ pc' = "saveAcked"
  /\ UNCHANGED <<folder, history, tx, reader, cur, outcome, faults, expunges>>

SaveAcked ==
  /\ pc = "saveAcked"
  /\ tx' = [tx EXCEPT ![cur] = "acked"]
  /\ pc' = "complete"
  /\ UNCHANGED <<folder, history, file, reader, cur, outcome, faults, expunges>>

SaveCompleted ==
  /\ pc = "complete"
  /\ tx' = [tx EXCEPT ![cur] = "completed"]
  /\ pc' = "idle"
  /\ Forget
  /\ UNCHANGED <<folder, history, file, outcome, faults, expunges>>

Step ==
  \/ Offer \/ Select \/ SearchNew \/ FetchHeaders \/ SaveListing
  \/ AlreadyCompleted \/ Resume \/ (\E m \in Mails : Deliver(m)) \/ MailIsGone
  \/ Delete \/ SaveDeleted \/ Acknowledge \/ SaveAcked \/ SaveCompleted

Next ==
  \/ Start \/ Step \/ Interrupt
  \/ Renumber \/ \E m \in Mails : Arrive(m) \/ Expunge(m)

Spec == Init /\ [][Next]_vars

(* `run` is started, goes on polling and is restarted by the service manager *)
(* (compose.example.yml: restart: unless-stopped).                           *)
FairSpec == Spec /\ WF_vars(Start) /\ WF_vars(Step)
-----------------------------------------------------------------------------
(* Properties. *)

Links == [validity : 0..MaxValidity, uid : 0..MaxUID]

RunLabels == {"run", "delete", "saveDeleted", "ack", "saveAcked", "complete"}

(* Every variable has its type, and the process is at a message while the   *)
(* Coordinator runs, and only then.                                         *)
TypeOK ==
  /\ uid \in [Mails -> 0..MaxUID]
  /\ uidNext \in 1..(MaxUID + 1)
  /\ validity \in 1..MaxValidity
  /\ arrived \subseteq Mails /\ existing \subseteq arrived /\ due \subseteq arrived
  /\ accidents \subseteq Accidents
  /\ link \in Links /\ next \in Links /\ pending \subseteq UIDs
  /\ tx \in [UIDs -> {"none", "delivered", "deleted", "acked", "completed"}]
  /\ pc \in {"new", "idle", "search", "fetch", "save"} \cup RunLabels
  /\ sel \in [validity : 0..MaxValidity, uidNext : 0..(MaxUID + 1), last : 0..MaxUID]
  /\ ids \subseteq UIDs /\ got \subseteq UIDs /\ mark \in Links
  /\ cur \in 0..MaxUID
  /\ cur # 0 <=> pc \in RunLabels
  /\ handled \subseteq Mails /\ removed \subseteq Mails
  /\ faults \in Nat /\ expunges \in Nat

(* Messages are pending only together with the link that follows them: the  *)
(* error "producer state is damaged", which no later cycle gets over, does  *)
(* not occur.                                                               *)
PendingHasNext == pending # {} <=> next # NoLink

Renumbered == validity # 1

Covers(aLink, m) == aLink.validity = validity /\ uid[m] <= aLink.uid

(* The delta link never runs ahead of the deliveries: a mail in the folder  *)
(* that the link covers was handled, one that the next link covers was      *)
(* handled or is pending, whatever arrives, goes, fails or dies between the *)
(* reader's SELECT, SEARCH and FETCH and the file's next version.  Else the *)
(* mail would never be listed again.  (After a renumbering a reused UID is  *)
(* taken for the old mail's transaction.)                                   *)
NothingIsSkipped ==
  \A m \in due :
    uid[m] # 0 /\ ~Renumbered =>
      /\ Covers(link, m) => m \in handled
      /\ Covers(next, m) => m \in handled \/ uid[m] \in pending

(* README "safe deletion": what the program deletes is a mail it handled. *)
DeletedWasHandled == removed \subseteq handled

(* It is, while UIDs keep their meaning: a deletion that was interrupted and *)
(* is resumed later, or that its user has overtaken, hits no other mail.     *)
DeletesOnlyHandled == ~Renumbered => DeletedWasHandled

(* TestPollingProducerSkipsBootstrapMessagesByDefault: without              *)
(* include_existing, mail that was there before the first start is left     *)
(* alone for good, whatever arrives, is removed, fails or dies meanwhile,    *)
(* unless the first listing was cut off, a search was left with nothing new  *)
(* to answer (client_read.go:71 takes "*" for new), or UIDs lost their       *)
(* meaning.                                                                 *)
ExistingIsLeftAlone ==
  ~IncludeExisting /\ accidents = {} /\ ~Renumbered => existing \cap handled = {}

(* Within one UIDVALIDITY the recorded link never moves back, so that       *)
(* handled mail is not listed again.                                        *)
LinkNeverMovesBack ==
  [][link'.validity = link.validity => link.uid <= link'.uid]_vars

-----------------------------------------------------------------------------
(* What makes the safety properties inductive.  The parts about UIDs are     *)
(* guarded by ~Renumbered: after a renumbering they do not hold.            *)

Listing == {"search", "fetch", "save"}

(* The state file: an empty link is the first start's, the next link lies    *)
(* beyond the link, and nothing is due before the first listing is recorded. *)
FileInv ==
  /\ PendingHasNext
  /\ link.validity = 0 => link = NoLink
  /\ next # NoLink => /\ next.validity # 0
                      /\ next.validity = link.validity => link.uid <= next.uid
  /\ ~IncludeExisting /\ link = NoLink => due = {}

(* A listing starts at the recorded link and its new link lies beyond it. *)
ListingInv ==
  pc \in Listing =>
    /\ pending = {}
    /\ sel.validity # 0 /\ mark.validity = sel.validity
    /\ sel.last = LastUID(link, sel.validity) /\ sel.last <= mark.uid
    /\ pc = "search" => mark.uid = sel.last

(* UIDs are unique and below UIDNEXT, and so is what is known of them; the   *)
(* mail whose UID has a transaction was handled.                            *)
FolderInv ==
  /\ \A m \in Mails : uid[m] < uidNext
  /\ \A m, o \in Mails : uid[m] = uid[o] /\ uid[m] # 0 => m = o
  /\ \A u \in UIDs : tx[u] # "none" => u < uidNext
  /\ \A m \in Mails : uid[m] # 0 /\ tx[uid[m]] # "none" => m \in handled
  /\ link.validity \in {0, 1} /\ link.uid < uidNext
  /\ next.validity \in {0, 1} /\ next.uid < uidNext

(* The mails a listing still has to answer for: those its link would cover   *)
(* are in the answer of the search, then among the messages it returns.     *)
AnswerInv ==
  /\ pc \in Listing => sel.validity = 1 /\ sel.uidNext <= uidNext /\ mark.uid < uidNext
  /\ \A u \in ids : u < uidNext
  /\ pc = "fetch" =>
       \A m \in Mails :
         sel.last < uid[m] /\ (uid[m] < sel.uidNext \/ \E u \in ids : uid[m] <= u)
           => uid[m] \in ids
  /\ pc = "save" =>
       \A m \in Mails : sel.last < uid[m] /\ uid[m] <= mark.uid => uid[m] \in got

(* A message past its delivery has a transaction. *)
TransactionInv == pc \in RunLabels \ {"run"} => tx[cur] # "none"

(* The inductive invariant: the file and the listing are consistent, and     *)
(* within the first UIDVALIDITY a deletion hits what was handled and no      *)
(* listing overlooks a mail that its link covers.                           *)
PollInv ==
  /\ FileInv
  /\ ListingInv
  /\ TransactionInv
  /\ ~Renumbered => FolderInv /\ AnswerInv
  /\ NothingIsSkipped

(* What makes ExistingIsLeftAlone inductive.  The first listing covers all   *)
(* existing mail: what there is is in the answer of its search, then below   *)
(* its link.  Every later listing is of what lies beyond the recorded link.  *)
Undisturbed == ~IncludeExisting /\ accidents = {} /\ ~Renumbered

UndisturbedInv ==
  /\ pc = "new" => link = NoLink /\ handled = {}
  /\ link = NoLink => pending = {} /\ pc \notin RunLabels
  /\ link # NoLink => \A m \in existing : uid[m] <= link.uid
  /\ \A u \in pending : link.uid < u
  /\ pc \in {"run", "delete", "saveDeleted", "ack"} => cur \in pending
  /\ pc = "fetch" => \A u \in ids : sel.last < u
  /\ pc = "fetch" /\ link = NoLink => \A m \in existing : uid[m] \in ids \cup {0}
  /\ pc = "save" /\ link = NoLink => \A m \in existing : uid[m] <= mark.uid
  /\ \A u \in got : pc = "save" /\ sel.last < u
  /\ existing \cap handled = {}

(* The first pending message cannot be passed any more: it went before it    *)
(* was delivered, or its transaction is completed and Run does not           *)
(* acknowledge it again.                                                    *)
HeadIsStuck ==
  \E u \in pending :
    First(u, pending) /\ (tx[u] = "completed" \/ (tx[u] = "none" /\ u \notin Present))

(* Continuous polling: a mail that the source has to offer is handled in    *)
(* the end if it stays in the folder, through crashes, timeouts, failed      *)
(* fetches and removals of any mail, unless a message before it is stuck.    *)
EveryMailIsHandled ==
  \A m \in Mails :
    m \in due /\ uid[m] # 0 ~> m \in handled \/ uid[m] = 0 \/ HeadIsStuck

(* Without the exception: false of the code (PollStar.cfg).                  *)
NothingGetsStuck == \A m \in Mails : m \in due /\ uid[m] # 0 ~> m \in handled \/ uid[m] = 0
=============================================================================
