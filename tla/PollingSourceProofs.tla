------------------------ MODULE PollingSourceProofs ------------------------
(* Theorems about PollingSource, for any mails, UIDs, UIDVALIDITYs, removals *)
(* and faults.                                                               *)
EXTENDS PollingSource, TLAPS

USE PollAssumption, PollBoundAssumption

(* What FetchHeaders returns: the messages up to a UID, and a link beyond the *)
(* last one that covers no more than those, or than the folder at SELECT.     *)
LEMMA Fetched ==
  ASSUME TypeOK, FetchHeaders
  PROVE  \E through \in Nat, c \in Nat :
           /\ through \in ids \cup {0}
           /\ got' = {u \in ids : u <= through /\ u \in Present}
           /\ mark' = [validity |-> sel.validity, uid |-> c]
           /\ sel.last <= c
           /\ \/ c <= sel.last
              \/ c <= through
              \/ c < sel.uidNext /\ \A u \in ids : u <= through
<1>1. PICK through \in ids \cup {0} :
        LET complete == \A u \in ids : u <= through
        IN  /\ got' = {u \in ids : u <= through /\ u \in Present}
            /\ mark' = [validity |-> sel.validity,
                        uid |-> Checkpoint(sel.last, through, complete, sel.uidNext)]
  BY DEF FetchHeaders
<1>2. through \in Nat /\ sel.last \in Nat /\ sel.uidNext \in Nat
  BY DEF TypeOK, UIDs
<1> DEFINE fetched == IF through > sel.last THEN through ELSE sel.last
           all == \A u \in ids : u <= through
           c == IF all /\ sel.uidNext > 0 /\ sel.uidNext - 1 > fetched
                THEN sel.uidNext - 1 ELSE fetched
<1>3. c = Checkpoint(sel.last, through, \A u \in ids : u <= through, sel.uidNext)
  BY Zenon DEF Checkpoint
<1>4. mark' = [validity |-> sel.validity, uid |-> c]
  BY <1>1, <1>3, Zenon
<1> HIDE DEF all
<1>5. /\ c \in Nat /\ sel.last <= c
      /\ c <= sel.last \/ c <= through \/ (c < sel.uidNext /\ all)
  BY <1>2
<1> HIDE DEF c
<1>6. QED BY <1>1, <1>2, <1>4, <1>5 DEF all

(* Every variable has its type at the start. *)
LEMMA TypeInit == Init => TypeOK
BY DEF Init, TypeOK, NoLink, NoSelect, Links, RunLabels, UIDs

(* Every step of the reader and of the polling producer keeps the types. *)
LEMMA ListingTypes ==
  ASSUME TypeOK,
         \/ Offer \/ Select \/ SearchNew \/ FetchHeaders \/ SaveListing
  PROVE  TypeOK'
<1>1. CASE Offer
  <2>1. cur' \in 1..MaxUID
    BY <1>1 DEF TypeOK, Offer, UIDs
  <2> QED BY <1>1, <2>1 DEF TypeOK, Offer, RunLabels, folder, history, file, reader, outcome
<1>2. CASE Select
  BY <1>2 DEF TypeOK, Select, LastUID, MayHaveNew, folder, history, file, outcome, RunLabels, Links
<1>3. CASE SearchNew
  <2>1. accidents' \subseteq Accidents
    BY <1>3 DEF TypeOK, SearchNew, Accidents
  <2> QED BY <1>3, <2>1
       DEF TypeOK, SearchNew, Search, Present, folder, file, outcome, RunLabels
<1>4. CASE FetchHeaders
  <2>1. PICK through \in Nat, c \in Nat :
          /\ through \in ids \cup {0}
          /\ got' = {u \in ids : u <= through /\ u \in Present}
          /\ mark' = [validity |-> sel.validity, uid |-> c]
          /\ c <= sel.last \/ c <= through \/ c < sel.uidNext
    BY <1>4, Fetched
  <2>2. faults' \in Nat /\ accidents' \subseteq Accidents
    <3>1. \/ UNCHANGED <<faults, accidents>>
          \/ /\ Fault
             /\ accidents' = IF link = NoLink THEN accidents \cup {"cut"} ELSE accidents
      BY <1>4, Zenon DEF FetchHeaders
    <3>2. faults \in Nat /\ accidents \subseteq Accidents
      BY DEF TypeOK
    <3>3. faults' \in Nat
      BY <3>1, <3>2 DEF Fault
    <3>4. accidents' \subseteq Accidents
      BY <3>1, <3>2, Zenon DEF Accidents
    <3> QED BY <3>3, <3>4
  <2>3. mark' \in Links
    BY <2>1 DEF Links, TypeOK, UIDs
  <2>4. got' \subseteq UIDs
    BY <2>1 DEF TypeOK
  <2> QED BY <1>4, <2>2, <2>3, <2>4
       DEF TypeOK, FetchHeaders, folder, file, outcome, RunLabels
<1>5. CASE SaveListing
  <2>1. /\ sel' \in [validity : 0..MaxValidity, uidNext : 0..(MaxUID + 1), last : 0..MaxUID]
        /\ NoLink \in Links
    BY <1>5 DEF SaveListing, NoSelect, NoLink, Links
  <2>2. CASE got = {} \/ (Bootstrapping /\ ~IncludeExisting)
    BY <1>5, <2>1, <2>2 DEF TypeOK, SaveListing, RunLabels, folder, history, outcome
  <2>3. CASE ~(got = {} \/ (Bootstrapping /\ ~IncludeExisting))
    <3>1. cur' \in 1..MaxUID
      BY <1>5, <2>3 DEF TypeOK, SaveListing, UIDs
    <3> QED BY <1>5, <2>1, <2>3, <3>1
         DEF TypeOK, SaveListing, RunLabels, folder, history, outcome
  <2> QED BY <2>2, <2>3
<1> QED BY <1>1, <1>2, <1>3, <1>4, <1>5

(* Every step of the transaction keeps the types. *)
LEMMA TransactionTypes ==
  ASSUME TypeOK,
         \/ AlreadyCompleted \/ Resume \/ (\E m \in Mails : Deliver(m)) \/ MailIsGone
         \/ Delete \/ SaveDeleted \/ Acknowledge \/ SaveAcked \/ SaveCompleted
  PROVE  TypeOK'
<1> USE DEF TypeOK, RunLabels, UIDs, folder, history, file, reader, outcome
<1>f. Forget => /\ sel' = NoSelect /\ ids' = {} /\ got' = {} /\ mark' = NoLink /\ cur' = 0
  BY DEF Forget
<1>n. /\ NoSelect \in [validity : 0..MaxValidity, uidNext : 0..(MaxUID + 1), last : 0..MaxUID]
      /\ NoLink \in Links
  BY DEF NoSelect, NoLink, Links
<1>1. CASE AlreadyCompleted
  BY <1>1, <1>f, <1>n DEF AlreadyCompleted
<1>2. CASE Resume
  BY <1>2 DEF Resume
<1>3. ASSUME NEW m \in Mails, Deliver(m) PROVE TypeOK'
  BY <1>3 DEF Deliver
<1>4. CASE MailIsGone
  BY <1>4, <1>f, <1>n DEF MailIsGone
<1>5. CASE Delete
  BY <1>5 DEF Delete
<1>6. CASE SaveDeleted
  BY <1>6 DEF SaveDeleted
<1>7. CASE Acknowledge
  BY <1>7, <1>n DEF Acknowledge, Kept
<1>8. CASE SaveAcked
  BY <1>8 DEF SaveAcked
<1>9. CASE SaveCompleted
  BY <1>9, <1>f, <1>n DEF SaveCompleted
<1> QED BY <1>1, <1>2, <1>3, <1>4, <1>5, <1>6, <1>7, <1>8, <1>9

(* Every step keeps the variables in their types. *)
LEMMA TypeStep ==
  ASSUME TypeOK, [Next]_vars
  PROVE  TypeOK'
<1>1. CASE Start
  BY <1>1 DEF TypeOK, Start, RunLabels, folder, history, file, reader, outcome
<1>2. CASE Step
  BY <1>2, ListingTypes, TransactionTypes DEF Step
<1>3. CASE Interrupt
  BY <1>3 DEF TypeOK, Interrupt, Fault, Forget, NoSelect, NoLink, Links, RunLabels,
              folder, history, file, outcome
<1>4. CASE Renumber
  <2>1. PICK n \in 1..uidNext : uidNext' = n /\ uid' \in [Mails -> 0..(n - 1)]
    BY <1>4 DEF Renumber
  <2>2. uidNext' \in 1..(MaxUID + 1) /\ uid' \in [Mails -> 0..MaxUID]
    BY <2>1 DEF TypeOK
  <2> QED BY <1>4, <2>2 DEF TypeOK, Renumber, RunLabels, history, file, reader, outcome
<1>5. ASSUME NEW m \in Mails, Arrive(m) PROVE TypeOK'
  BY <1>5 DEF TypeOK, Arrive, RunLabels, file, reader, outcome
<1>6. ASSUME NEW m \in Mails, Expunge(m) PROVE TypeOK'
  BY <1>6 DEF TypeOK, Expunge, RunLabels, history, file, reader, outcome
<1>7. CASE UNCHANGED vars
  BY <1>7 DEF TypeOK, vars, RunLabels, folder, history, file, reader, outcome
<1> QED BY <1>1, <1>2, <1>3, <1>4, <1>5, <1>6, <1>7 DEF Next

-----------------------------------------------------------------------------
(* The invariant holds at the start: nothing is listed, pending or due. *)
LEMMA PollInvInit == Init => PollInv
BY DEF Init, PollInv, FileInv, PendingHasNext, ListingInv, Listing, TransactionInv, RunLabels,
       FolderInv, AnswerInv, Renumbered, NothingIsSkipped, Covers, NoLink, NoSelect, UIDs

(* The search answers every mail above the last UID that is in the folder. *)
LEMMA SearchNewInv ==
  ASSUME TypeOK, TypeOK', PollInv, SearchNew
  PROVE  PollInv'
<1> USE DEF TypeOK, UIDs, folder, history, file, outcome
<1>1. FileInv'
  BY DEF SearchNew, PollInv, FileInv, PendingHasNext
<1>2. ListingInv' /\ TransactionInv'
  BY DEF SearchNew, PollInv, ListingInv, Listing, LastUID, TransactionInv, RunLabels
<1>3. ASSUME ~Renumbered' PROVE FolderInv' /\ AnswerInv'
  <2>1. FolderInv /\ AnswerInv /\ FolderInv'
    BY <1>3 DEF SearchNew, PollInv, Renumbered, FolderInv
  <2>2. ids' = {u \in Present : u >= sel.last + 1 \/ \A v \in Present : v <= u}
    BY DEF SearchNew, Search
  <2>3. \A u \in ids' : u < uidNext'
    BY <2>1, <2>2 DEF SearchNew, FolderInv, Present
  <2>4. \A m \in Mails : sel'.last < uid'[m] => uid'[m] \in ids'
    BY <2>2 DEF SearchNew, Present
  <2>5. pc' = "save" => mark'.uid = sel'.last
    BY DEF SearchNew, PollInv, ListingInv, Listing
  <2> QED BY <2>1, <2>3, <2>4, <2>5 DEF SearchNew, AnswerInv, Listing
<1>4. NothingIsSkipped'
  BY DEF SearchNew, PollInv, NothingIsSkipped, Covers, Renumbered
<1> QED BY <1>1, <1>2, <1>3, <1>4 DEF PollInv

(* The messages fetched are all that the new link adds, even if the fetch    *)
(* stopped early.                                                           *)
LEMMA FetchHeadersInv ==
  ASSUME TypeOK, TypeOK', PollInv, FetchHeaders
  PROVE  PollInv'
<1> USE DEF TypeOK, UIDs, folder, history, file, outcome
<1>f. PICK through \in Nat, c \in Nat :
        /\ through \in ids \cup {0}
        /\ got' = {u \in ids : u <= through /\ u \in Present}
        /\ mark' = [validity |-> sel.validity, uid |-> c]
        /\ sel.last <= c
        /\ \/ c <= sel.last
           \/ c <= through
           \/ c < sel.uidNext /\ \A u \in ids : u <= through
  BY Fetched
<1>u. /\ pc = "fetch" /\ pc' = "save"
      /\ UNCHANGED <<folder, arrived, existing, due, file, tx, sel, ids, cur, outcome,
                     expunges>>
  BY DEF FetchHeaders
<1>1. FileInv'
  BY <1>u DEF PollInv, FileInv, PendingHasNext
<1>2. ListingInv' /\ TransactionInv'
  <2>1. mark'.validity = sel.validity /\ sel.last <= mark'.uid
    BY <1>f
  <2> QED BY <1>u, <2>1
       DEF PollInv, ListingInv, Listing, LastUID, TransactionInv, RunLabels
<1>3. ASSUME ~Renumbered' PROVE FolderInv' /\ AnswerInv'
  <2>1. FolderInv /\ AnswerInv /\ FolderInv'
    BY <1>3, <1>u DEF PollInv, Renumbered, FolderInv
  <2>2. mark'.uid = c /\ c < uidNext
    <3>1. sel.last < uidNext /\ sel.uidNext <= uidNext
      BY <2>1, <1>u DEF AnswerInv, PollInv, ListingInv, Listing, Links
    <3>2. through < uidNext
      BY SMTT(30), <2>1, <1>f DEF AnswerInv
    <3> QED BY SMTT(30), <1>f, <3>1, <3>2
  <2>3. ASSUME NEW m \in Mails, sel.last < uid[m], uid[m] <= c
        PROVE  uid[m] \in got'
    <3>1. uid[m] \in ids /\ uid[m] <= through
      <4>1. uid[m] \in Nat /\ sel.last \in Nat
        OBVIOUS
      <4>2. CASE uid[m] <= through
        BY <1>f, <1>u, <2>1, <2>3, <4>1, <4>2 DEF AnswerInv
      <4>3. CASE c < sel.uidNext /\ \A u \in ids : u <= through
        <5>1. uid[m] < sel.uidNext
          BY SMTT(30), <2>3, <4>1, <4>3
        <5>2. uid[m] \in ids
          BY <1>u, <2>1, <2>3, <5>1 DEF AnswerInv
        <5> QED BY <4>3, <5>2
      <4>4. c <= through => uid[m] <= through
        BY SMTT(30), <2>3, <4>1
      <4>5. ~(c <= sel.last)
        BY SMTT(30), <2>3, <4>1
      <4> QED BY <1>f, <4>2, <4>3, <4>4, <4>5
    <3>2. uid[m] \in Present
      BY <3>1 DEF Present
    <3> QED BY <1>f, <3>1, <3>2
  <2> QED BY <1>u, <2>1, <2>2, <2>3 DEF AnswerInv, Listing
<1>4. NothingIsSkipped'
  BY <1>u DEF PollInv, NothingIsSkipped, Covers, Renumbered
<1> QED BY <1>1, <1>2, <1>3, <1>4 DEF PollInv

(* A listing that is recorded has every mail that its link covers and that   *)
(* was not handled among the pending messages.                              *)
LEMMA SaveListingInv ==
  ASSUME TypeOK, TypeOK', PollInv, SaveListing
  PROVE  PollInv'
<1> USE DEF TypeOK, UIDs, Links, folder, history, outcome
<1>u. /\ pc = "save" /\ pc' \in {"idle", "run"}
      /\ UNCHANGED <<folder, history, tx, outcome, faults, expunges>>
  BY DEF SaveListing
<1>m. /\ mark.validity # 0 /\ mark.validity = sel.validity
      /\ sel.last = LastUID(link, sel.validity) /\ sel.last <= mark.uid
      /\ pending = {}
  BY <1>u DEF PollInv, ListingInv, Listing
<1>l. mark # NoLink /\ next = NoLink
  BY <1>m DEF PollInv, FileInv, PendingHasNext, NoLink
<1>a. ASSUME validity = 1, FolderInv, AnswerInv, NEW m \in due, uid[m] # 0, uid[m] <= mark.uid
      PROVE  m \in handled \/ uid[m] \in got
  <2>0. m \in Mails
    OBVIOUS
  <2>1. uid[m] \in Nat /\ sel.last \in Nat /\ sel.validity = 1
    BY <1>u, <1>a, <2>0 DEF AnswerInv, Listing
  <2>2. CASE sel.last < uid[m]
    BY <1>u, <1>a, <2>0, <2>1, <2>2 DEF AnswerInv
  <2>3. CASE uid[m] <= sel.last
    <3>1. link.validity = 1 /\ uid[m] <= link.uid
      <4>1. sel.last = link.uid
        BY <1>m, <1>a, <2>1 DEF LastUID, FolderInv
      <4>2. link # NoLink
        <5>1. sel.last # 0
          <6>1. uid[m] # 0
            BY <1>a
          <6> HIDE DEF TypeOK
          <6> QED BY <2>1, <2>3, <6>1
        <5>2. link.uid # 0
          BY <4>1, <5>1, Zenon
        <5> QED BY <5>2 DEF NoLink
      <4>3. link.validity # 0
        BY <4>2 DEF PollInv, FileInv
      <4> QED BY <1>a, <2>3, <4>1, <4>3 DEF FolderInv
    <3>2. Covers(link, m) /\ ~Renumbered /\ uid[m] # 0
      BY <1>a, <3>1 DEF Covers, Renumbered
    <3>3. NothingIsSkipped
      BY DEF PollInv
    <3> QED BY <3>2, <3>3 DEF NothingIsSkipped
  <2> HIDE DEF TypeOK
  <2>4. sel.last < uid[m] \/ uid[m] <= sel.last
    BY <2>1
  <2> QED BY <2>2, <2>3, <2>4
<1>e. CASE got = {} \/ (Bootstrapping /\ ~IncludeExisting)
  <2>1. link' = mark /\ next' = NoLink /\ pending' = {} /\ ids' = {} /\ pc' = "idle"
    BY <1>e DEF SaveListing
  <2>2. FileInv' /\ ListingInv' /\ TransactionInv'
    BY <1>m, <1>l, <2>1 DEF FileInv, PendingHasNext, ListingInv, Listing, TransactionInv, RunLabels
  <2>3. ASSUME ~Renumbered' PROVE FolderInv' /\ AnswerInv' /\ NothingIsSkipped'
    <3>1. FolderInv /\ AnswerInv /\ validity = 1
      BY <1>u, <2>3 DEF PollInv, Renumbered
    <3>2. mark.validity = 1 /\ mark.uid < uidNext
      BY <1>u, <1>m, <3>1 DEF AnswerInv, Listing
    <3>3. FolderInv' /\ AnswerInv'
      BY <1>u, <2>1, <3>1, <3>2 DEF FolderInv, AnswerInv, Listing, NoLink
    <3>4. ASSUME NEW m \in due, uid[m] # 0, uid[m] <= mark.uid PROVE m \in handled
      <4>1. CASE link = NoLink /\ ~IncludeExisting
        BY <4>1 DEF PollInv, FileInv
      <4>2. CASE got = {}
        BY <1>a, <3>1, <3>4, <4>2
      <4> QED BY <1>e, <4>1, <4>2 DEF Bootstrapping
    <3> QED BY <1>u, <2>1, <3>1, <3>3, <3>4 DEF NothingIsSkipped, Covers, NoLink
  <2> QED BY <2>2, <2>3 DEF PollInv, NothingIsSkipped
<1>n. CASE ~(got = {} \/ (Bootstrapping /\ ~IncludeExisting))
  <2>1. /\ link' = link /\ next' = mark /\ pending' = got /\ got # {} /\ ids' = {}
        /\ pc' = "run"
    BY <1>n DEF SaveListing
  <2>2. FileInv'
    <3>1. mark.validity = link.validity => link.uid <= mark.uid
      BY <1>m DEF LastUID
    <3> QED BY <1>u, <1>m, <1>l, <2>1, <3>1 DEF PollInv, FileInv, PendingHasNext
  <2>3. ListingInv' /\ TransactionInv'
    BY <2>1 DEF ListingInv, Listing, TransactionInv, RunLabels
  <2>4. ASSUME ~Renumbered' PROVE FolderInv' /\ AnswerInv' /\ NothingIsSkipped'
    <3>1. FolderInv /\ AnswerInv /\ validity = 1
      BY <1>u, <2>4 DEF PollInv, Renumbered
    <3>2. mark.validity = 1 /\ mark.uid < uidNext
      BY <1>u, <1>m, <3>1 DEF AnswerInv, Listing
    <3>3. FolderInv' /\ AnswerInv'
      BY <1>u, <2>1, <3>1, <3>2 DEF FolderInv, AnswerInv, Listing
    <3>4. ASSUME NEW m \in due, uid[m] # 0, uid[m] <= mark.uid
          PROVE  m \in handled \/ uid[m] \in got
      BY <1>a, <3>1, <3>4
    <3>5. \A m \in due : uid[m] # 0 /\ Covers(link, m) => m \in handled
      BY <3>1 DEF PollInv, NothingIsSkipped, Renumbered
    <3> QED BY <1>u, <2>1, <3>3, <3>4, <3>5 DEF NothingIsSkipped, Covers
  <2> QED BY <2>2, <2>3, <2>4 DEF PollInv, NothingIsSkipped
<1> QED BY <1>e, <1>n

(* A message leaves the pending list with a transaction, that is, handled;   *)
(* the last one lets the link move on.                                      *)
LEMMA AcknowledgeInv ==
  ASSUME TypeOK, TypeOK', PollInv, Acknowledge
  PROVE  PollInv'
<1> USE DEF TypeOK, UIDs, Links, folder, history, reader, outcome
<1>u. /\ pc = "ack" /\ pc' = "saveAcked" /\ tx[cur] # "none"
      /\ UNCHANGED <<folder, history, tx, reader, cur, outcome, faults, expunges>>
  BY DEF Acknowledge, PollInv, TransactionInv, RunLabels
<1>1. CASE cur \notin pending
  <2>1. UNCHANGED file
    BY <1>1 DEF Acknowledge
  <2> QED BY <1>u, <2>1
       DEF PollInv, FileInv, PendingHasNext, ListingInv, Listing, TransactionInv, RunLabels,
           FolderInv, AnswerInv, Renumbered, NothingIsSkipped, Covers, file
<1>2. CASE cur \in pending
  <2>1. /\ pending' = pending \ {cur}
        /\ IF pending' = {} THEN link' = next /\ next' = NoLink ELSE link' = link /\ next' = next
    BY <1>2 DEF Acknowledge, Kept
  <2>2. next # NoLink /\ next.validity # 0
    BY <1>2 DEF PollInv, FileInv, PendingHasNext
  <2>3. FileInv'
    <3>1. NoLink.validity = 0
      BY DEF NoLink
    <3>2. CASE pending' = {}
      <4>1. link' = next /\ next' = NoLink
        BY <2>1, <3>2
      <4> QED BY <1>u, <2>2, <3>1, <3>2, <4>1 DEF FileInv, PendingHasNext
    <3>3. CASE pending' # {}
      BY <1>u, <2>1, <2>2, <3>3 DEF PollInv, FileInv, PendingHasNext
    <3> QED BY <3>2, <3>3
  <2>4. ListingInv' /\ TransactionInv'
    BY <1>u DEF ListingInv, Listing, TransactionInv, RunLabels
  <2>5. ASSUME ~Renumbered' PROVE FolderInv' /\ AnswerInv' /\ NothingIsSkipped'
    <3>1. FolderInv /\ AnswerInv /\ NothingIsSkipped /\ ~Renumbered
      BY <1>u, <2>5 DEF PollInv, Renumbered
    <3>2. FolderInv'
      <4>1. NoLink.validity = 0 /\ NoLink.uid = 0
        BY DEF NoLink
      <4>2. (link' = link \/ link' = next) /\ (next' = next \/ next' = NoLink)
        BY <2>1
      <4>3. 0 < uidNext
        OBVIOUS
      <4>4. /\ link'.validity \in {0, 1} /\ link'.uid < uidNext
            /\ next'.validity \in {0, 1} /\ next'.uid < uidNext
        <5>1. /\ link.validity \in {0, 1} /\ link.uid < uidNext
              /\ next.validity \in {0, 1} /\ next.uid < uidNext
          BY <3>1 DEF FolderInv
        <5> QED BY <4>1, <4>2, <4>3, <5>1
      <4> QED BY <1>u, <3>1, <4>4 DEF FolderInv
    <3>3. AnswerInv'
      BY <1>u, <3>1 DEF AnswerInv, Listing
    <3>4. \A m \in Mails : uid[m] = cur => m \in handled
      BY <1>u, <3>1 DEF FolderInv, RunLabels
    <3>5. CASE pending' = {}
      <4>1. link' = next /\ next' = NoLink /\ pending \subseteq {cur}
        BY <2>1, <3>5
      <4>2. NoLink.validity = 0
        BY DEF NoLink
      <4> QED BY SMTT(30), <1>u, <3>1, <3>2, <3>3, <3>4, <4>1, <4>2
           DEF NothingIsSkipped, Covers, Renumbered
    <3>6. CASE pending' # {}
      <4>1. link' = link /\ next' = next
        BY <2>1, <3>6
      <4> QED BY <1>u, <2>1, <3>1, <3>2, <3>3, <3>4, <4>1
           DEF NothingIsSkipped, Covers, Renumbered
    <3> QED BY <3>5, <3>6
  <2> QED BY <2>3, <2>4, <2>5 DEF PollInv, NothingIsSkipped
<1> QED BY <1>1, <1>2

(* A mail that arrives has a UID that no link and no transaction knows. *)
LEMMA ArriveInv ==
  ASSUME TypeOK, TypeOK', PollInv, NEW d \in Mails, Arrive(d)
  PROVE  PollInv'
<1> USE DEF TypeOK, UIDs, Links, file, reader, outcome
<1>u. /\ uid' = [uid EXCEPT ![d] = uidNext] /\ uidNext' = uidNext + 1
      /\ due' = IF IncludeExisting \/ link # NoLink THEN due \cup {d} ELSE due
      /\ UNCHANGED <<validity, file, tx, pc, reader, cur, outcome, faults, expunges>>
  BY DEF Arrive
<1>1. FileInv' /\ ListingInv' /\ TransactionInv'
  BY <1>u DEF PollInv, FileInv, PendingHasNext, ListingInv, Listing, LastUID,
              TransactionInv, RunLabels
<1>2. ASSUME ~Renumbered' PROVE FolderInv' /\ AnswerInv' /\ NothingIsSkipped'
  <2>1. FolderInv /\ AnswerInv /\ NothingIsSkipped /\ ~Renumbered
    BY <1>u, <1>2 DEF PollInv, Renumbered
  <2>2. FolderInv'
    <3>1. \A m, o \in Mails : uid'[m] = uid'[o] /\ uid'[m] # 0 => m = o
      BY SMTT(30), <1>u, <2>1 DEF FolderInv
    <3>2. \A m \in Mails : uid'[m] < uidNext'
      BY SMTT(30), <1>u, <2>1 DEF FolderInv
    <3>3. \A m \in Mails : uid'[m] # 0 /\ tx'[uid'[m]] # "none" => m \in handled'
      <4> SUFFICES ASSUME NEW m \in Mails, uid'[m] # 0, tx'[uid'[m]] # "none"
                   PROVE  m \in handled'
        OBVIOUS
      <4>1. CASE m = d
        <5>1. uid'[m] = uidNext /\ uidNext \in UIDs
          BY <1>u, <4>1 DEF Arrive
        <5> QED BY <1>u, <2>1, <5>1 DEF FolderInv
      <4>2. CASE m # d
        <5>1. uid'[m] = uid[m]
          BY <1>u, <4>2
        <5> QED BY <1>u, <2>1, <5>1 DEF FolderInv
      <4> QED BY <4>1, <4>2
    <3> QED BY SMTT(30), <1>u, <2>1, <3>1, <3>2, <3>3 DEF FolderInv
  <2>3. AnswerInv'
    <3>1. \A m \in Mails : uid'[m] = uid[m] \/ uid'[m] = uidNext
      BY <1>u
    <3> QED BY SMTT(30), <1>u, <2>1, <3>1 DEF AnswerInv, Listing
  <2>4. NothingIsSkipped'
    <3>1. \A m \in due' : m = d \/ (m \in due /\ uid'[m] = uid[m])
      BY <1>u
    <3>2. uid'[d] = uidNext /\ ~Covers(link, d)' /\ ~Covers(next, d)'
      BY SMTT(30), <1>u, <2>1 DEF FolderInv, Covers
    <3> QED BY <1>u, <2>1, <3>1, <3>2 DEF NothingIsSkipped, Covers, Renumbered
  <2> QED BY <2>2, <2>3, <2>4
<1> QED BY <1>1, <1>2 DEF PollInv, NothingIsSkipped

(* Every step preserves the invariant. *)
LEMMA PollInvStep ==
  ASSUME TypeOK, TypeOK', PollInv, [Next]_vars
  PROVE  PollInv'
<1> USE DEF TypeOK, UIDs, Links, NoLink, LastUID, folder, history, file, reader, outcome,
            PollInv, FileInv, PendingHasNext, ListingInv, Listing, TransactionInv,
            RunLabels, FolderInv, AnswerInv, Renumbered, NothingIsSkipped, Covers
<1>1. CASE Start
  BY <1>1 DEF Start
<1>2. CASE Offer
  BY <1>2 DEF Offer
<1>3. CASE Select
  BY SMTT(30), <1>3 DEF Select, MayHaveNew
<1>4. CASE AlreadyCompleted
  BY <1>4 DEF AlreadyCompleted, Forget
<1>5. CASE Resume
  BY <1>5 DEF Resume
<1>6. ASSUME NEW m \in Mails, Deliver(m) PROVE PollInv'
  BY SMTT(30), <1>6 DEF Deliver
<1>7. CASE MailIsGone
  BY <1>7 DEF MailIsGone, Forget
<1>8. CASE Delete
  BY SMTT(30), <1>8 DEF Delete, Targeted
<1>9. CASE SaveDeleted
  BY <1>9 DEF SaveDeleted
<1>10. CASE SaveAcked
  BY <1>10 DEF SaveAcked
<1>11. CASE SaveCompleted
  BY SMTT(30), <1>11 DEF SaveCompleted, Forget
<1>12. CASE Interrupt
  BY <1>12 DEF Interrupt, Forget
<1>13. CASE Renumber
  BY <1>13 DEF Renumber
<1>14. ASSUME NEW m \in Mails, Expunge(m) PROVE PollInv'
  BY SMTT(30), <1>14 DEF Expunge
<1>15. CASE UNCHANGED vars
  BY <1>15 DEF vars
<1> QED
  BY <1>1, <1>2, <1>3, <1>4, <1>5, <1>6, <1>7, <1>8, <1>9, <1>10, <1>11, <1>12, <1>13,
     <1>14, <1>15, SearchNewInv, FetchHeadersInv, SaveListingInv, AcknowledgeInv, ArriveInv
  DEF Next, Step

-----------------------------------------------------------------------------
(* Type correctness of the polled source: in particular the link that a     *)
(* listing computes and the state file keeps is one of the folder.          *)
THEOREM TypeCorrect == Spec => []TypeOK
<1>1. TypeOK /\ [Next]_vars => TypeOK'
  BY TypeStep
<1> QED BY TypeInit, <1>1, PTL DEF Spec

(* The inductive invariant holds for any mails, expunges, renumberings and   *)
(* faults: PollingProducer's file, its listings and the transactions agree   *)
(* with the folder.                                                         *)
THEOREM PollInvariant == Spec => []PollInv
<1>1. TypeOK /\ TypeOK' /\ PollInv /\ [Next]_vars => PollInv'
  BY PollInvStep
<1> QED BY PollInvInit, TypeCorrect, <1>1, PTL DEF Spec

(* The state file never reaches the form that PollingProducer.Next rejects   *)
(* as damaged.                                                              *)
THEOREM FileStaysWellFormed == Spec => []PendingHasNext
<1>1. PollInv => PendingHasNext
  BY DEF PollInv, FileInv
<1> QED BY PollInvariant, <1>1, PTL

(* No listing and no acknowledgement records a delta link that covers a mail *)
(* nobody handled.                                                          *)
THEOREM ListingsSkipNothing == Spec => []NothingIsSkipped
<1>1. PollInv => NothingIsSkipped
  BY DEF PollInv
<1> QED BY PollInvariant, <1>1, PTL

(* Only Delete removes a mail, and the UID it targets has a transaction. *)
LEMMA DeletionStep ==
  ASSUME TypeOK, PollInv, DeletesOnlyHandled, [Next]_vars
  PROVE  DeletesOnlyHandled'
<1> USE DEF DeletesOnlyHandled, DeletedWasHandled, Renumbered
<1>1. CASE Delete
  <2>1. ASSUME validity = 1, NEW m \in Mails, uid[m] = cur PROVE m \in handled
    <3>1. cur # 0 /\ tx[cur] # "none"
      BY <1>1 DEF Delete, PollInv, TransactionInv, TypeOK, RunLabels
    <3> QED BY <2>1, <3>1 DEF PollInv, FolderInv
  <2> QED BY <1>1, <2>1 DEF Delete, Targeted, folder
<1>2. CASE Renumber
  BY <1>2 DEF Renumber, TypeOK
<1>3. CASE (\E m \in Mails : Deliver(m)) \/ (\E m \in Mails : Arrive(m) \/ Expunge(m))
  BY <1>3 DEF Deliver, Arrive, Expunge, folder, outcome
<1>4. CASE \/ Start \/ Offer \/ Select \/ SearchNew \/ FetchHeaders \/ SaveListing
           \/ AlreadyCompleted \/ Resume \/ MailIsGone \/ SaveDeleted \/ Acknowledge
           \/ SaveAcked \/ SaveCompleted \/ Interrupt \/ UNCHANGED vars
  BY <1>4 DEF Start, Offer, Select, SearchNew, FetchHeaders, SaveListing, AlreadyCompleted,
              Resume, MailIsGone, SaveDeleted, Acknowledge, SaveAcked, SaveCompleted,
              Interrupt, folder, outcome, vars
<1> QED BY <1>1, <1>2, <1>3, <1>4 DEF Next, Step

(* The source's Delete, resumed or not, removes only mail that was handled.  *)
THEOREM DeletionsHitHandled == Spec => []DeletesOnlyHandled
<1>1. Init => DeletesOnlyHandled
  BY DEF Init, DeletesOnlyHandled, DeletedWasHandled
<1>2. TypeOK /\ PollInv /\ DeletesOnlyHandled /\ [Next]_vars => DeletesOnlyHandled'
  BY DeletionStep
<1> QED BY <1>1, <1>2, TypeCorrect, PollInvariant, PTL DEF Spec

(* Only a recorded listing and the last acknowledgement move the link. *)
LEMMA LinkStep ==
  ASSUME TypeOK, PollInv, [Next]_vars
  PROVE  [link'.validity = link.validity => link.uid <= link'.uid]_vars
<1>1. CASE SaveListing
  <2>1. mark.validity = link.validity => link.uid <= mark.uid
    BY <1>1 DEF SaveListing, PollInv, ListingInv, Listing, LastUID
  <2>2. link' = link \/ link' = mark
    BY <1>1 DEF SaveListing
  <2> QED BY <2>1, <2>2 DEF TypeOK, Links
<1>2. CASE Acknowledge
  <2>1. next # NoLink => (next.validity = link.validity => link.uid <= next.uid)
    BY DEF PollInv, FileInv
  <2>2. link' = link \/ (next # NoLink /\ link' = next)
    BY <1>2 DEF Acknowledge, file, PollInv, FileInv, PendingHasNext
  <2> QED BY <2>1, <2>2 DEF TypeOK, Links
<1>3. CASE \/ Start \/ Offer \/ Select \/ SearchNew \/ FetchHeaders
           \/ AlreadyCompleted \/ Resume \/ (\E m \in Mails : Deliver(m)) \/ MailIsGone
           \/ Delete \/ SaveDeleted \/ SaveAcked \/ SaveCompleted \/ Interrupt
           \/ Renumber \/ (\E m \in Mails : Arrive(m) \/ Expunge(m)) \/ UNCHANGED vars
  <2>1. link' = link
    BY <1>3 DEF Start, Offer, Select, SearchNew, FetchHeaders, AlreadyCompleted, Resume,
                Deliver, MailIsGone, Delete, SaveDeleted, SaveAcked, SaveCompleted,
                Interrupt, Renumber, Arrive, Expunge, file, vars
  <2> QED BY <2>1 DEF TypeOK, Links
<1> QED BY <1>1, <1>2, <1>3 DEF Next, Step

(* Within one UIDVALIDITY the recorded link never moves back, whatever the   *)
(* server answers.                                                          *)
THEOREM LinkIsMonotone == Spec => LinkNeverMovesBack
<1>1. TypeOK /\ PollInv /\ [Next]_vars
        => [link'.validity = link.validity => link.uid <= link'.uid]_vars
  BY LinkStep
<1> QED BY <1>1, TypeCorrect, PollInvariant, PTL DEF Spec, LinkNeverMovesBack

-----------------------------------------------------------------------------
(* Without accidents the folder is still the first one, and a link is the    *)
(* empty one or of this folder.                                             *)
LEMMA FirstFolder ==
  ASSUME TypeOK, PollInv, Undisturbed
  PROVE  /\ FolderInv /\ AnswerInv /\ FileInv /\ ListingInv
         /\ pc \in Listing => sel.last = link.uid
         /\ link.uid \in Nat /\ next.uid \in Nat
<1>1. validity = 1 /\ FolderInv /\ AnswerInv /\ FileInv /\ ListingInv
  BY DEF Undisturbed, PollInv, Renumbered
<1>2. link.validity \in {0, 1} /\ (link.validity = 0 => link = NoLink)
  BY <1>1 DEF FolderInv, FileInv
<1>3. link.uid \in Nat /\ next.uid \in Nat
  BY DEF TypeOK, Links
<1>4. pc \in Listing => sel.last = link.uid
  BY <1>1, <1>2 DEF ListingInv, AnswerInv, LastUID
<1> QED BY <1>1, <1>3, <1>4

(* Existing mail is what arrives before the first start: no listing runs. *)
LEMMA ArriveUndisturbed ==
  ASSUME TypeOK, UndisturbedInv, NEW d \in Mails, Arrive(d)
  PROVE  UndisturbedInv'
<1>1. /\ uid' = [uid EXCEPT ![d] = uidNext] /\ d \notin arrived
      /\ existing' = IF pc = "new" THEN existing \cup {d} ELSE existing
      /\ UNCHANGED <<link, next, pending, pc, sel, ids, got, mark, cur, handled>>
  BY DEF Arrive, file, reader, outcome
<1>2. \A m \in existing : m # d /\ uid'[m] = uid[m]
  BY <1>1 DEF TypeOK
<1>3. pc = "new" => link = NoLink /\ handled = {}
  BY DEF UndisturbedInv
<1> QED BY <1>1, <1>2, <1>3 DEF UndisturbedInv

(* The first listing searches the whole folder, if it searches at all. *)
LEMMA SelectUndisturbed ==
  ASSUME TypeOK, PollInv, UndisturbedInv, Undisturbed, Select
  PROVE  UndisturbedInv'
<1>1. PICK status \in {uidNext} \cup (IF OmitsUIDNext THEN {0} ELSE {}) :
        LET last == LastUID(link, validity)
        IN  /\ sel' = [validity |-> validity, uidNext |-> status, last |-> last]
            /\ mark' = [validity |-> validity, uid |-> last]
            /\ pc' = IF MayHaveNew(last, status) THEN "search" ELSE "save"
  BY DEF Select
<1>2. /\ pending = {} /\ pc = "idle"
      /\ UNCHANGED <<uid, existing, link, next, pending, ids, got, cur, handled>>
  BY DEF Select, folder, history, file, outcome
<1>3. ASSUME pc' = "save", link = NoLink, NEW m \in existing PROVE uid[m] <= mark'.uid
  <2>1. LastUID(link, validity) = 0
    BY <1>3 DEF LastUID, NoLink
  <2>2. ~MayHaveNew(0, status) /\ mark'.uid = 0
    BY <1>1, <1>3, <2>1
  <2>3. status = uidNext /\ uidNext \in Nat /\ uidNext <= 1
    BY <1>1, <2>2 DEF MayHaveNew, TypeOK
  <2>4. uid[m] \in Nat /\ uid[m] < uidNext
    BY FirstFolder DEF FolderInv, TypeOK
  <2> QED BY <2>2, <2>3, <2>4
<1>4. got = {} /\ pc' \in {"search", "save"}
  BY <1>1, <1>2 DEF UndisturbedInv
<1> QED BY <1>2, <1>3, <1>4 DEF UndisturbedInv, RunLabels

(* While there is something new, a search answers nothing else; the first    *)
(* one answers all there is.                                                *)
LEMMA SearchUndisturbed ==
  ASSUME TypeOK, PollInv, UndisturbedInv, Undisturbed, Undisturbed', SearchNew
  PROVE  UndisturbedInv'
<1>1. /\ ids' = {u \in Present : u >= sel.last + 1 \/ \A v \in Present : v <= u}
      /\ pc' = IF ids' = {} THEN "save" ELSE "fetch"
      /\ pc = "search" /\ ~NothingNew
      /\ UNCHANGED <<uid, existing, link, next, pending, sel, got, mark, cur, handled>>
  BY DEF SearchNew, Search, folder, file, outcome, Undisturbed
<1>2. /\ sel.last \in Nat /\ \A u \in Present : u \in Nat
  BY DEF TypeOK, Present, UIDs
<1>3. \A u \in ids' : sel.last < u
  <2> SUFFICES ASSUME NEW u \in ids', ~(sel.last < u) PROVE FALSE
    OBVIOUS
  <2>1. u \in Present /\ u <= sel.last /\ \A v \in Present : v <= u
    BY <1>1, <1>2
  <2>2. \A v \in Present : v <= sel.last
    BY <1>2, <2>1
  <2> QED BY <1>1, <2>1, <2>2 DEF NothingNew
<1>4. ASSUME link = NoLink PROVE \A m \in existing : uid[m] \in ids' \cup {0}
  <2>1. sel.last = 0
    BY <1>1, <1>4, FirstFolder DEF Listing, NoLink
  <2>2. \A m \in existing : uid[m] # 0 => uid[m] \in Present
    BY DEF Present, TypeOK, UIDs
  <2> QED BY <1>1, <1>2, <2>1, <2>2
<1>5. ASSUME pc' = "save", link = NoLink PROVE \A m \in existing : uid[m] <= mark.uid
  <2>1. \A m \in existing : uid[m] = 0
    BY <1>1, <1>4, <1>5
  <2>2. mark.uid \in Nat
    BY DEF TypeOK, Links
  <2> QED BY <2>1, <2>2
<1>6. got = {}
  BY <1>1 DEF UndisturbedInv
<1> QED BY <1>1, <1>3, <1>4, <1>5, <1>6 DEF UndisturbedInv, RunLabels

(* The first listing is fetched to its end, so that its link covers all of it. *)
LEMMA FetchUndisturbed ==
  ASSUME TypeOK, PollInv, UndisturbedInv, Undisturbed, Undisturbed', FetchHeaders
  PROVE  UndisturbedInv'
<1>1. PICK through \in ids \cup {0} :
        LET complete == \A u \in ids : u <= through
        IN  /\ IF complete THEN UNCHANGED <<faults, accidents>>
               ELSE /\ Fault
                    /\ accidents' = IF link = NoLink THEN accidents \cup {"cut"} ELSE accidents
            /\ got' = {u \in ids : u <= through /\ u \in Present}
            /\ mark' = [validity |-> sel.validity,
                        uid |-> Checkpoint(sel.last, through, complete, sel.uidNext)]
  BY DEF FetchHeaders
<1>2. through \in Nat /\ sel.last \in Nat /\ sel.uidNext \in Nat
  BY DEF TypeOK, UIDs
<1>3. /\ pc = "fetch" /\ pc' = "save"
      /\ UNCHANGED <<uid, existing, link, next, pending, sel, ids, cur, handled>>
  BY DEF FetchHeaders, folder, file, outcome
<1>4. ASSUME link = NoLink, NEW m \in existing PROVE uid[m] <= mark'.uid
  <2>1. \A u \in ids : u <= through
    BY <1>1, <1>4 DEF Undisturbed
  <2>2. mark'.uid = Checkpoint(sel.last, through, TRUE, sel.uidNext)
    BY <1>1, <2>1
  <2>3. mark'.uid \in Nat /\ through <= mark'.uid
    BY <1>2, <2>2 DEF Checkpoint
  <2>4. uid[m] = 0 \/ uid[m] <= through
    BY <1>3, <1>4, <2>1 DEF UndisturbedInv
  <2>5. uid[m] \in Nat
    BY DEF TypeOK
  <2> QED BY <1>2, <2>3, <2>4, <2>5
<1>5. \A u \in got' : sel.last < u
  BY <1>1, <1>3 DEF UndisturbedInv
<1> QED BY <1>3, <1>4, <1>5 DEF UndisturbedInv, RunLabels

(* The first listing is recorded and not offered, what a later one offers    *)
(* lies beyond the recorded link.                                           *)
LEMMA SaveListingUndisturbed ==
  ASSUME TypeOK, PollInv, UndisturbedInv, Undisturbed, SaveListing
  PROVE  UndisturbedInv'
<1>1. /\ pc = "save" /\ got' = {}
      /\ UNCHANGED <<uid, existing, handled>>
  BY DEF SaveListing, folder, history, outcome
<1>2. /\ pending = {} /\ sel.last = link.uid /\ link.uid <= mark.uid
      /\ link.uid \in Nat /\ mark.uid \in Nat /\ mark.validity # 0
  BY <1>1, FirstFolder DEF ListingInv, Listing, TypeOK, Links
<1>3. \A m \in existing : uid[m] <= mark.uid /\ (link # NoLink => uid[m] <= link.uid)
  BY <1>1, <1>2 DEF UndisturbedInv, TypeOK
<1>4. mark # NoLink
  BY <1>2 DEF NoLink
<1>5. CASE got = {} \/ (Bootstrapping /\ ~IncludeExisting)
  <2>1. link' = mark /\ pending' = {} /\ pc' = "idle"
    BY <1>5 DEF SaveListing
  <2> QED BY <1>1, <1>3, <1>4, <2>1 DEF UndisturbedInv, RunLabels
<1>6. CASE ~(got = {} \/ (Bootstrapping /\ ~IncludeExisting))
  <2>1. link' = link /\ pending' = got /\ pc' = "run" /\ cur' \in got
    BY <1>6 DEF SaveListing
  <2>2. link # NoLink
    BY <1>6 DEF Undisturbed, Bootstrapping
  <2> QED BY <1>1, <1>2, <1>3, <2>1, <2>2 DEF UndisturbedInv, RunLabels
<1> QED BY <1>5, <1>6

(* With the last message the link moves on, never back. *)
LEMMA AcknowledgeUndisturbed ==
  ASSUME TypeOK, PollInv, UndisturbedInv, Undisturbed, Acknowledge
  PROVE  UndisturbedInv'
<1>1. /\ pc = "ack" /\ pc' = "saveAcked"
      /\ UNCHANGED <<uid, existing, sel, ids, got, mark, cur, handled>>
  BY DEF Acknowledge, folder, history, reader, outcome
<1>2. /\ cur \in pending /\ link # NoLink /\ next # NoLink /\ next.validity # 0
  BY <1>1, FirstFolder DEF UndisturbedInv, FileInv, PendingHasNext
<1>3. /\ pending' = pending \ {cur}
      /\ IF pending' = {} THEN link' = next /\ next' = NoLink
                          ELSE link' = link /\ next' = next
  BY <1>2 DEF Acknowledge, Kept
<1>4. link.uid <= next.uid /\ link.uid \in Nat /\ next.uid \in Nat
  <2>1. link.validity \in {0, 1} /\ next.validity \in {0, 1} /\ link.validity # 0
    BY <1>2, FirstFolder DEF FileInv, FolderInv
  <2> QED BY <1>2, <2>1, FirstFolder DEF FileInv
<1>5. link' # NoLink /\ \A m \in existing : uid[m] <= link'.uid
  BY <1>2, <1>3, <1>4 DEF UndisturbedInv, TypeOK
<1>6. \A u \in pending' : link'.uid < u
  BY <1>3 DEF UndisturbedInv
<1> QED BY <1>1, <1>5, <1>6 DEF UndisturbedInv, RunLabels

(* Mail only goes from the folder: the link covers what it covered. *)
LEMMA GoneUndisturbed ==
  ASSUME TypeOK, UndisturbedInv, \A m \in Mails : uid'[m] = uid[m] \/ uid'[m] = 0,
         UNCHANGED <<existing, link, next, pending, sel, ids, got, mark, cur, handled>>,
         \/ pc' = pc
         \/ pc = "delete" /\ pc' = "saveDeleted"
  PROVE  UndisturbedInv'
<1>1. link.uid \in Nat /\ mark.uid \in Nat /\ existing \subseteq Mails
  BY DEF TypeOK, Links
<1>2. link # NoLink => \A m \in existing : uid'[m] <= link.uid
  BY <1>1 DEF UndisturbedInv
<1>3. pc = "fetch" /\ link = NoLink => \A m \in existing : uid'[m] \in ids \cup {0}
  BY <1>1 DEF UndisturbedInv
<1>4. pc = "save" /\ link = NoLink => \A m \in existing : uid'[m] <= mark.uid
  BY <1>1 DEF UndisturbedInv
<1> QED BY <1>2, <1>3, <1>4 DEF UndisturbedInv, RunLabels

(* While no accident happens every step keeps the invariant: arrivals,       *)
(* removals, crashes and failed calls included.                             *)
LEMMA UndisturbedStep ==
  ASSUME TypeOK, PollInv, Undisturbed, UndisturbedInv, Undisturbed', [Next]_vars
  PROVE  UndisturbedInv'
<1> USE DEF UndisturbedInv, RunLabels, folder, history, file, reader, outcome
<1>1. CASE Start
  BY <1>1 DEF Start
<1>2. CASE Offer
  BY <1>2 DEF Offer
<1>3. CASE AlreadyCompleted \/ MailIsGone \/ SaveCompleted \/ Interrupt
  BY <1>3 DEF AlreadyCompleted, MailIsGone, SaveCompleted, Interrupt, Forget
<1>4. CASE Resume
  BY <1>4 DEF Resume
<1>5. ASSUME NEW m \in Mails, Deliver(m) PROVE UndisturbedInv'
  <2>1. link # NoLink /\ link.uid < uid[m] /\ link.uid \in Nat
    BY <1>5, FirstFolder DEF Deliver
  <2>2. m \notin existing
    BY <2>1 DEF TypeOK
  <2> QED BY <1>5, <2>2 DEF Deliver
<1>6. CASE SaveDeleted \/ SaveAcked
  BY <1>6 DEF SaveDeleted, SaveAcked
<1>7. CASE UNCHANGED vars
  BY <1>7 DEF vars
<1> HIDE DEF UndisturbedInv
<1>8. CASE Delete
  BY <1>8, GoneUndisturbed DEF Delete
<1>9. ASSUME NEW m \in Mails, Expunge(m) PROVE UndisturbedInv'
  BY <1>9, GoneUndisturbed DEF Expunge, TypeOK
<1>10. CASE Renumber
  BY <1>10 DEF Renumber, Undisturbed, Renumbered, TypeOK
<1> QED
  BY <1>1, <1>2, <1>3, <1>4, <1>5, <1>6, <1>7, <1>8, <1>9, <1>10, ArriveUndisturbed,
     SelectUndisturbed, SearchUndisturbed, FetchUndisturbed, SaveListingUndisturbed,
     AcknowledgeUndisturbed
  DEF Next, Step

(* An accident is never undone, nor is a renumbering. *)
LEMMA AccidentsStay ==
  ASSUME TypeOK, Undisturbed', [Next]_vars
  PROVE  Undisturbed
<1>1. accidents \subseteq accidents' /\ validity' \in {validity, validity + 1}
  BY DEF Next, Step, Start, Offer, Select, SearchNew, FetchHeaders, SaveListing,
         AlreadyCompleted, Resume, Deliver, MailIsGone, Delete, SaveDeleted, Acknowledge,
         SaveAcked, SaveCompleted, Interrupt, Renumber, Arrive, Expunge, folder, history, vars
<1> QED BY <1>1 DEF Undisturbed, Renumbered, TypeOK

(* Without include_existing no mail of before the first start is ever       *)
(* handled, whatever arrives, is removed, fails or dies meanwhile, but for   *)
(* the accidents that the property names.                                   *)
THEOREM ExistingMailIsLeftAlone == Spec => []ExistingIsLeftAlone
<1>1. Init => (Undisturbed => UndisturbedInv)
  BY DEF Init, UndisturbedInv, RunLabels, NoLink
<1>2. /\ TypeOK /\ PollInv /\ (Undisturbed => UndisturbedInv) /\ [Next]_vars
      => (Undisturbed => UndisturbedInv)'
  BY AccidentsStay, UndisturbedStep
<1>3. (Undisturbed => UndisturbedInv) => ExistingIsLeftAlone
  BY DEF ExistingIsLeftAlone, Undisturbed, UndisturbedInv
<1> QED BY <1>1, <1>2, <1>3, TypeCorrect, PollInvariant, PTL DEF Spec
=============================================================================
