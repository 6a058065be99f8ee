--------------------------- MODULE DeliveryProofs ---------------------------
(***************************************************************************)
(* Proofs about Delivery, for every set of configurations and of mails and *)
(* for any number of copies and of broken attempts.                        *)
(*                                                                         *)
(* None of the four invariants is inductive alone.  A receipt is backed    *)
(* because the attempt that saves it holds a copy that is in place (Held); *)
(* that copy is never the one that is deleted because the mails that are   *)
(* gone are those with a receipt, and no other mail with a receipt is left *)
(* (Places); and no second copy is made because an attempt that goes on to *)
(* create one has seen that there is none (Bound), which is all it sees    *)
(* because every copy of a plain mail bears the mark (Marked).             *)
(***************************************************************************)
EXTENDS Delivery, FiniteSetTheorems, TLAPS

(* Where copies may be: the mail that arrived stays in the watched folder  *)
(* until it is deleted, only mails with a receipt are deleted, and a copy  *)
(* that has not landed yet is one of those whose sender has given up.      *)
Places ==
  /\ folder[1] \in {"source", "gone"}
  /\ \A c \in Copies : folder[c] = "gone" => conf.deletes /\ c \in receipts
  /\ \A c \in Copies : folder[c] = "pending" => c \in late /\ Mailbox
  /\ \A i \in DOMAIN queue : /\ folder[queue[i]] \in {"source", "gone"}
                             /\ ~conf.inPlace => queue[i] = 1
  /\ conf.deletes =>
       \A x \in receipts : folder[x] = "gone" \/ (queue # <<>> /\ x = Cur)

(* The copy this attempt vouches for. *)
Holds(place) ==
  new \in Copies /\ new # Cur /\ folder[new] = place /\ form[new] # "plain"

(* What the attempt knows at each of its steps. *)
Held ==
  /\ pc \in {"reconcile", "create", "move", "unread", "locate", "verify"} => Mailbox
  /\ pc = "save" => ~Mailbox
  /\ pc = "move" => Holds("drafts")
  /\ pc = "locate" /\ new # NoCopy => Holds(Written)
  /\ pc \in {"unread", "verify", "receipt"} => Holds(Written)
  /\ pc = "receipt" /\ conf.verify => form[new] = "processed"
  /\ pc \in {"delete", "ack"} => Cur \in receipts
  /\ pc = "delete" => conf.deletes
  /\ pc = "ack" /\ conf.deletes => folder[Cur] = "gone"

(* Every copy the program makes of a plain mail bears the mark. *)
Marked ==
  mail.form = "plain" =>
    \A c \in Copies : /\ form[c] # "foreign"
                      /\ c # 1 /\ folder[c] # "unborn" => form[c] = "processed"

(* The copies of a mail that can be recognised are two at most, and one    *)
(* where they do not come back; while one is being made there is no other. *)
AtMost(a, b) == Copied \subseteq {a, b} /\ (~conf.inPlace => a = b)

Bound ==
  /\ mail.form = "plain" /\ mail.id /\ Mailbox =>
       /\ \E a, b \in Copies : AtMost(a, b)
       /\ pc \in {"create", "move"} => Copied \subseteq {Cur}
  /\ ~Mailbox =>
       \A c, d \in Copies : folder[c] = "target" /\ folder[d] = "target" => c = d

Inv == TypeOK /\ Places /\ Held /\ Marked /\ Bound /\ ReceiptIsBacked

-----------------------------------------------------------------------------
(* The first copy is one of finitely many, and none is not. *)
LEMMA FirstCopy == 1 \in Copies /\ NoCopy \notin Copies /\ IsFiniteSet(Copies)
  BY BoundsAssumption, FS_Interval DEF Copies, NoCopy

(* The mail in work is the head of a queue that is not empty. *)
LEMMA CurIsOffered ==
  ASSUME TypeOK, Places, queue # <<>>
  PROVE  /\ Cur \in Copies /\ folder[Cur] \in {"source", "gone"}
         /\ ~conf.inPlace => Cur = 1
  <1>1. 1 \in DOMAIN queue /\ Cur = queue[1] /\ Cur \in Copies
    BY DEF TypeOK, Cur
  <1> QED
    BY <1>1 DEF Places

(* A step that only moves the attempt on keeps what concerns the copies. *)
LEMMA QuietStep ==
  ASSUME Inv, UNCHANGED <<fixed, mailbox, queue, receipts, late>>,
         pc' \in Steps, new' \in Copies \cup {NoCopy}, faults' \in 0..MaxFaults,
         pc' # "idle" => queue # <<>>,
         Held',
         pc' \in {"create", "move"} => Found = {}
  PROVE  Inv'
  <1> USE DEF Inv, fixed, mailbox
  <1>1. TypeOK'
    BY DEF TypeOK
  <1>2. Places'
    BY DEF Places, Mailbox, Cur
  <1>3. Marked' /\ ReceiptIsBacked'
    BY DEF Marked, ReceiptIsBacked, Written
  <1>4. Copied' = Copied /\ Mailbox' = Mailbox /\ Cur' = Cur
    BY DEF Copied, Mailbox, Cur, Written
  <1>5. ASSUME mail.form = "plain", mail.id, Mailbox, pc' \in {"create", "move"}
        PROVE  Copied \subseteq {Cur}
    <2>1. \A c \in Copied : c \in Copies /\ folder[c] = Written /\ c # 1
      BY DEF Copied
    <2>2. \A c \in Copied : form[c] = "processed"
      BY <1>5, <2>1 DEF Marked, Written
    <2> QED
      BY <1>5, <2>1, <2>2 DEF Found
  <1>6. Bound'
    <2>1. mail' = mail /\ conf' = conf /\ folder' = folder
      OBVIOUS
    <2> QED
      BY <1>4, <1>5, <2>1 DEF Bound, AtMost
  <1> QED
    BY <1>1, <1>2, <1>3, <1>6

(* Offering a mail keeps the invariant. *)
LEMMA OfferKeeps == ASSUME Inv, Offer PROVE Inv'
  <1>1. \/ pc' = "process"
        \/ pc' = "delete" /\ Cur \in receipts /\ conf.deletes
        \/ pc' = "ack" /\ Cur \in receipts /\ ~conf.deletes
    BY DEF Offer, Goto, AfterReceipt
  <1>2. Held'
    BY <1>1 DEF Held, Offer, Cur, fixed
  <1> QED
    BY <1>1, <1>2, QuietStep DEF Inv, TypeOK, Offer, Goto, Steps, fixed, mailbox

(* Processing it does. *)
LEMMA ProcessKeeps == ASSUME Inv, Process PROVE Inv'
  <1>1. Held'
    BY DEF Inv, Held, Process, Goto, GiveUp, Cur, fixed, mailbox, Mailbox
  <1> QED
    BY <1>1, QuietStep DEF Inv, TypeOK, Process, Goto, GiveUp, Steps, fixed, mailbox

(* What a search finds is a processed copy in the folder, not the original. *)
LEMMA FoundIsHeld ==
  ASSUME Inv, NEW c \in Found
  PROVE  c \in Copies /\ c # Cur /\ folder[c] = Written /\ form[c] = "processed"
  BY DEF Found

(* Looking for a copy of an earlier attempt keeps the invariant. *)
LEMMA ReconcileKeeps == ASSUME Inv, Reconcile PROVE Inv'
  <1> USE DEF Reconcile, AfterWrite, Goto, GiveUp
  <1>1. Mailbox
    BY DEF Inv, Held
  <1>2. Held'
    BY <1>1, FoundIsHeld
    DEF Inv, Held, Holds, Cur, fixed, mailbox, Mailbox, Written
  <1>3. /\ pc' \in Steps /\ new' \in Copies \cup {NoCopy} /\ queue # <<>>
        /\ faults' \in 0..MaxFaults
    BY FoundIsHeld DEF Inv, TypeOK, Steps
  <1>4. pc' \in {"create", "move"} => Found = {}
    OBVIOUS
  <1> QED
    BY <1>2, <1>3, <1>4, QuietStep

(* Looking up the written copy does. *)
LEMMA LocateKeeps == ASSUME Inv, Locate PROVE Inv'
  <1> USE DEF Locate, AfterWrite, Goto, GiveUp
  <1>1. Mailbox
    BY DEF Inv, Held
  <1>2. Held'
    BY <1>1, FoundIsHeld
    DEF Inv, Held, Holds, Cur, fixed, mailbox, Mailbox, Written
  <1>3. /\ pc' \in Steps /\ new' \in Copies \cup {NoCopy} /\ queue # <<>>
        /\ faults' \in 0..MaxFaults
    BY FoundIsHeld DEF Inv, TypeOK, Steps
  <1>4. pc' \notin {"create", "move"}
    OBVIOUS
  <1> QED
    BY <1>2, <1>3, <1>4, QuietStep

(* Marking it unread does. *)
LEMMA MarkUnreadKeeps == ASSUME Inv, MarkUnread PROVE Inv'
  <1> USE DEF MarkUnread, AfterWrite, Goto
  <1>1. Held'
    BY DEF Inv, Held, Holds, Cur, fixed, mailbox, Mailbox, Written
  <1> QED
    BY <1>1, QuietStep DEF Inv, TypeOK, Steps

(* Reading it back does. *)
LEMMA VerifyKeeps == ASSUME Inv, Verify PROVE Inv'
  <1> USE DEF Verify, Goto, GiveUp
  <1>1. Held'
    BY DEF Inv, Held, Holds, Cur, fixed, mailbox, Mailbox, Written
  <1> QED
    BY <1>1, QuietStep DEF Inv, TypeOK, Steps

(* A failed call does. *)
LEMMA BreaksKeeps == ASSUME Inv, Breaks PROVE Inv'
  <1> USE DEF Breaks, GiveUp
  <1>1. Held'
    BY DEF Held
  <1>2. faults' \in 0..MaxFaults
    BY BoundsAssumption DEF Inv, TypeOK
  <1> QED
    BY <1>1, <1>2, QuietStep DEF Inv, TypeOK, Steps

-----------------------------------------------------------------------------
(* Saving the receipt keeps the invariant: there is a copy to back it. *)
LEMMA SaveReceiptKeeps == ASSUME Inv, SaveReceipt PROVE Inv'
  <1> USE DEF Inv, SaveReceipt, Goto, AfterReceipt, fixed, mailbox
  <1>1. queue # <<>> /\ Cur \in Copies /\ Cur' = Cur /\ receipts' = receipts \cup {Cur}
    BY CurIsOffered DEF TypeOK, Cur
  <1>2. pc' \in {"delete", "ack"} /\ (pc' = "delete" <=> conf.deletes)
    OBVIOUS
  <1>3. TypeOK'
    BY <1>1, <1>2 DEF TypeOK, Steps
  <1>4. Places'
    BY <1>1 DEF Places, Mailbox
  <1>5. Held'
    BY <1>1, <1>2 DEF Held
  <1>6. Marked'
    BY DEF Marked
  <1>7. Bound'
    <2>1. Copied' = Copied /\ Mailbox' = Mailbox
      BY DEF Copied, Mailbox, Written
    <2> QED
      BY <1>1, <1>2, <2>1 DEF Bound, AtMost
  <1>8. ReceiptIsBacked'
    BY <1>1 DEF ReceiptIsBacked, Held, Holds, Written
  <1> QED
    BY <1>3, <1>4, <1>5, <1>6, <1>7, <1>8

(* Leaving the queue keeps it: the next mail has the same standing. *)
LEMMA AcknowledgeKeeps == ASSUME Inv, Acknowledge PROVE Inv'
  <1> USE DEF Inv, Acknowledge, GiveUp, fixed, mailbox
  <1>1. queue \in Seq(Copies) /\ queue # <<>> /\ Cur \in receipts
    BY DEF TypeOK, Held
  <1>2. /\ queue' \in Seq(Copies)
        /\ \A i \in DOMAIN queue' : i + 1 \in DOMAIN queue /\ queue'[i] = queue[i + 1]
    BY <1>1
  <1>3. TypeOK'
    BY <1>2 DEF TypeOK, Steps
  <1>4. conf.deletes => \A x \in receipts : folder[x] = "gone"
    BY DEF Places, Held
  <1>5. \A i \in DOMAIN queue' : /\ folder'[queue'[i]] \in {"source", "gone"}
                                 /\ ~conf'.inPlace => queue'[i] = 1
    BY <1>2 DEF Places
  <1>6. Places'
    BY <1>4, <1>5 DEF Places, Mailbox
  <1>7. Held'
    BY DEF Held
  <1>8. Marked' /\ ReceiptIsBacked'
    BY DEF Marked, ReceiptIsBacked, Written
  <1>9. Bound'
    <2>1. Copied' = Copied /\ Mailbox' = Mailbox
      BY DEF Copied, Mailbox, Written
    <2> QED
      BY <2>1 DEF Bound, AtMost
  <1> QED
    BY <1>3, <1>6, <1>7, <1>8, <1>9

(* The one step that takes a mail away.  It was the last mail with a       *)
(* receipt to be there, so the copy that backs the receipt is another one; *)
(* and that one backs the receipts of the mails that are gone as well.     *)
LEMMA DeleteOriginalKeeps == ASSUME Inv, DeleteOriginal PROVE Inv'
  <1> USE DEF Inv, DeleteOriginal, Goto, fixed
  <1>1. /\ queue # <<>> /\ Cur \in Copies /\ folder[Cur] \in {"source", "gone"}
        /\ Cur' = Cur /\ Cur \in receipts /\ conf.deletes
    BY CurIsOffered DEF TypeOK, Cur, Held
  <1>2. /\ folder' \in [Copies -> Folders] /\ folder'[Cur] = "gone"
        /\ \A c \in Copies \ {Cur} : folder'[c] = folder[c]
    BY <1>1 DEF TypeOK, Folders
  <1>3. Mailbox' = Mailbox /\ Written' = Written /\ Written # "gone"
    BY DEF Mailbox, Written
  <1>4. TypeOK'
    BY <1>2 DEF TypeOK, Steps
  <1>5. 1 \in Copies /\ \A i \in DOMAIN queue : queue[i] \in Copies
    BY FirstCopy DEF TypeOK
  <1>6. Places'
    <2>1. folder'[1] \in {"source", "gone"}
      BY <1>2, <1>5 DEF Places
    <2>2. \A c \in Copies : folder'[c] = "gone" => conf.deletes /\ c \in receipts
      BY <1>1, <1>2 DEF Places
    <2>3. \A c \in Copies : folder'[c] = "pending" => c \in late /\ Mailbox
      BY <1>2 DEF Places
    <2>4. \A i \in DOMAIN queue : /\ folder'[queue[i]] \in {"source", "gone"}
                                  /\ ~conf.inPlace => queue[i] = 1
      BY <1>2, <1>5 DEF Places
    <2>5. \A x \in receipts : folder'[x] = "gone" \/ x = Cur
      BY <1>1, <1>2 DEF Places, TypeOK
    <2> QED
      BY <1>1, <1>3, <2>1, <2>2, <2>3, <2>4, <2>5 DEF Places
  <1>7. Held'
    BY <1>1, <1>2 DEF Held
  <1>8. Marked'
    <2>1. \A c \in Copies : folder'[c] # "unborn" => folder[c] # "unborn"
      BY <1>1, <1>2
    <2> QED
      BY <2>1 DEF Marked
  <1>9. Bound'
    <2>1. Copied' \subseteq Copied
      BY <1>2, <1>3 DEF Copied
    <2>2. \A c \in Copies : folder'[c] = "target" => folder[c] = "target"
      BY <1>1, <1>2
    <2> QED
      BY <1>3, <2>1, <2>2 DEF Bound, AtMost
  <1>10. ReceiptIsBacked'
    <2> SUFFICES ASSUME NEW x \in receipts
                 PROVE  \E c \in Copies \ {x} :
                          /\ folder'[c] = Written
                          /\ form[c] # "plain"
                          /\ conf.verify => form[c] = "processed"
      BY <1>3 DEF ReceiptIsBacked
    <2>1. PICK c \in Copies \ {Cur} : /\ folder[c] = Written
                                      /\ form[c] # "plain"
                                      /\ conf.verify => form[c] = "processed"
      BY <1>1 DEF ReceiptIsBacked
    <2>2. folder'[c] = Written
      BY <1>2, <2>1
    <2>3. c # x
      BY <1>1, <1>3, <2>1 DEF Places
    <2> QED
      BY <2>1, <2>2, <2>3
  <1> QED
    BY <1>4, <1>6, <1>7, <1>8, <1>9, <1>10

-----------------------------------------------------------------------------
(* A copy that arrives in a folder goes nowhere else, and only the watched *)
(* folder lengthens the queue.                                             *)
LEMMA Arriving ==
  ASSUME TypeOK, NEW c \in Copies, NEW f \in Folders, Arrive(c, f)
  PROVE  /\ folder' \in [Copies -> Folders] /\ folder'[c] = f
         /\ \A d \in Copies \ {c} : folder'[d] = folder[d]
         /\ queue' \in Seq(Copies)
         /\ \A i \in DOMAIN queue' : \/ i \in DOMAIN queue /\ queue'[i] = queue[i]
                                     \/ f = "source" /\ queue'[i] = c
         /\ queue # <<>> => queue' # <<>> /\ Cur' = Cur
  <1>1. /\ folder' \in [Copies -> Folders] /\ folder'[c] = f
        /\ \A d \in Copies \ {c} : folder'[d] = folder[d]
    BY DEF TypeOK, Arrive
  <1>2. CASE f = "source"
    <2>1. queue' = Append(queue, c) /\ queue \in Seq(Copies)
      BY <1>2 DEF TypeOK, Arrive
    <2>2. /\ queue' \in Seq(Copies) /\ queue' # <<>> /\ DOMAIN queue = 1..Len(queue)
          /\ DOMAIN queue' = 1..(Len(queue) + 1)
          /\ \A i \in 1..Len(queue) : queue'[i] = queue[i]
          /\ queue'[Len(queue) + 1] = c
      BY <2>1
    <2>3. queue # <<>> => Cur' = Cur
      BY <2>1, <2>2 DEF Cur
    <2> QED
      BY <1>1, <1>2, <2>2, <2>3
  <1>3. CASE f # "source"
    BY <1>1, <1>3 DEF TypeOK, Arrive, Cur
  <1> QED
    BY <1>2, <1>3

(* Where a sink writes, by its configuration. *)
LEMMA SinkPlaces ==
  ASSUME TypeOK
  PROVE  /\ Written \in {"source", "target"} /\ (Written = "source" <=> conf.inPlace)
         /\ ~Mailbox => ~conf.inPlace /\ ~conf.verify
         /\ conf.sink \in Sinks
  BY ConfigsAssumption DEF TypeOK, Written, Mailbox, ConfigType, Sinks

(* A copy that arrives takes nothing away: a new one, one that was on its  *)
(* way, or a file that is replaced.                                        *)
LEMMA ArrivalKeeps ==
  ASSUME Inv, UNCHANGED <<fixed, receipts, late>>,
         NEW c \in Copies, NEW f \in {"drafts", Written}, Arrive(c, f),
         \/ folder[c] \in {"unborn", "drafts", "pending"}
         \/ folder[c] = "target" /\ f = "target" /\ ~Mailbox,
         form' \in [Copies -> {"plain", "foreign", "processed"}],
         \A d \in Copies \ {c} : form'[d] = form[d],
         folder[c] = "target" => form'[c] # "plain"
  PROVE  /\ folder' \in [Copies -> Folders] /\ queue' \in Seq(Copies)
         /\ Places' /\ ReceiptIsBacked'
         /\ queue # <<>> => queue' # <<>> /\ Cur' = Cur
  <1> USE DEF Inv, fixed
  <1>1. f \in Folders /\ f \in {"drafts", "source", "target"}
    BY SinkPlaces DEF Folders
  <1>2. /\ folder' \in [Copies -> Folders] /\ folder'[c] = f
        /\ \A d \in Copies \ {c} : folder'[d] = folder[d]
        /\ queue' \in Seq(Copies)
        /\ \A i \in DOMAIN queue' : \/ i \in DOMAIN queue /\ queue'[i] = queue[i]
                                    \/ f = "source" /\ queue'[i] = c
        /\ queue # <<>> => queue' # <<>> /\ Cur' = Cur
    BY <1>1, Arriving
  <1>3. Mailbox' = Mailbox /\ Written' = Written
    BY DEF Mailbox, Written
  <1>4. folder[c] \notin {"source", "gone"}
    OBVIOUS
  <1>5. Places'
    <2>1. folder'[1] \in {"source", "gone"}
      BY <1>2, <1>4, FirstCopy DEF Places
    <2>2. \A d \in Copies : folder'[d] = "gone" => conf.deletes /\ d \in receipts
      BY <1>1, <1>2 DEF Places
    <2>3. \A d \in Copies : folder'[d] = "pending" => d \in late /\ Mailbox
      BY <1>1, <1>2 DEF Places
    <2>4. ASSUME NEW i \in DOMAIN queue'
          PROVE  /\ folder'[queue'[i]] \in {"source", "gone"}
                 /\ ~conf.inPlace => queue'[i] = 1
      <3>1. CASE i \in DOMAIN queue /\ queue'[i] = queue[i]
        <4>1. /\ queue[i] \in Copies /\ folder[queue[i]] \in {"source", "gone"}
              /\ ~conf.inPlace => queue[i] = 1
          BY <3>1 DEF Places, TypeOK
        <4> QED
          BY <1>2, <1>4, <3>1, <4>1
      <3>2. CASE f = "source" /\ queue'[i] = c
        BY <1>2, <3>2, SinkPlaces
      <3> QED
        BY <1>2, <2>4, <3>1, <3>2
    <2>5. ASSUME conf.deletes, NEW x \in receipts
          PROVE  folder'[x] = "gone" \/ (queue' # <<>> /\ x = Cur')
      <3>1. x \in Copies /\ (folder[x] = "gone" \/ (queue # <<>> /\ x = Cur))
        BY <2>5 DEF Places, TypeOK
      <3> QED
        BY <1>2, <1>4, <3>1
    <2> QED
      BY <1>3, <2>1, <2>2, <2>3, <2>4, <2>5 DEF Places
  <1>6. ReceiptIsBacked'
    <2> SUFFICES ASSUME NEW x \in receipts
                 PROVE  \E d \in Copies \ {x} :
                          /\ folder'[d] = Written
                          /\ form'[d] # "plain"
                          /\ conf.verify => form'[d] = "processed"
      BY <1>3 DEF ReceiptIsBacked
    <2>1. PICK d \in Copies \ {x} : /\ folder[d] = Written
                                    /\ form[d] # "plain"
                                    /\ conf.verify => form[d] = "processed"
      BY DEF ReceiptIsBacked
    <2>2. CASE d # c
      BY <1>2, <2>1, <2>2
    <2>3. CASE d = c
      <3>1. folder[c] = "target" /\ f = "target" /\ ~Mailbox /\ Written = "target"
        BY <2>1, <2>3, SinkPlaces
      <3> QED
        BY <1>2, <2>1, <2>3, <3>1, SinkPlaces
    <2> QED
      BY <2>2, <2>3
  <1> QED
    BY <1>2, <1>5, <1>6

(* What a copy is made of. *)
LEMMA ProcessedForm ==
  ASSUME Inv, queue # <<>>
  PROVE  /\ Processed(Cur) \in {"foreign", "processed"}
         /\ mail.form = "plain" => Processed(Cur) = "processed"
  <1>1. Cur \in Copies /\ form[Cur] \in {"plain", "foreign", "processed"}
    BY CurIsOffered DEF Inv, TypeOK
  <1> QED
    BY <1>1 DEF Inv, Marked, Processed

(* A new copy is in no folder yet and is not the mail in work. *)
LEMMA FreshCopy ==
  ASSUME Inv, NEW c \in Fresh
  PROVE  c \in Copies /\ c # 1 /\ folder[c] = "unborn" /\ (queue # <<>> => c # Cur)
  <1>1. c \in Copies /\ folder[c] = "unborn"
    BY DEF Fresh
  <1> QED
    BY <1>1, CurIsOffered DEF Inv, Places

(* Where a mail can be recognised, the attempt that makes the copy has     *)
(* seen no other than the one it works on.                                 *)
LEMMA ArrivalIsBounded ==
  ASSUME Inv, UNCHANGED <<fixed, late>>, Mailbox, queue # <<>>,
         pc \in {"create", "move"}, pc' \notin {"create", "move"},
         NEW c \in Copies, \A d \in Copies \ {c} : folder'[d] = folder[d]
  PROVE  Bound'
  <1> USE DEF Inv, fixed
  <1>1. Mailbox' = Mailbox /\ Written' = Written
    BY DEF Mailbox, Written
  <1>2. Copied' \subseteq Copied \cup {c}
    BY <1>1 DEF Copied
  <1>3. Cur \in Copies /\ (~conf.inPlace => Cur = 1)
    BY CurIsOffered
  <1>4. ASSUME mail.form = "plain", mail.id
        PROVE  \E a, b \in Copies : AtMost(a, b)'
    <2>1. Copied' \subseteq {Cur, c}
      BY <1>2, <1>4 DEF Bound
    <2>2. CASE conf.inPlace
      BY <1>3, <2>1, <2>2 DEF AtMost
    <2>3. CASE ~conf.inPlace
      <3>1. 1 \notin Copied'
        BY DEF Copied
      <3>2. Copied' \subseteq {c, c}
        BY <1>3, <2>1, <2>3, <3>1
      <3> QED
        BY <3>2 DEF AtMost
    <2> QED
      BY <2>2, <2>3
  <1> QED
    BY <1>1, <1>4 DEF Bound

(* Creating a draft keeps the invariant. *)
LEMMA CreateDraftKeeps == ASSUME Inv, CreateDraft PROVE Inv'
  <1> USE DEF Inv, fixed
  <1>1. PICK c \in Fresh : /\ Arrive(c, "drafts")
                           /\ form' = [form EXCEPT ![c] = Processed(Cur)]
                           /\ new' = c
    BY DEF CreateDraft
  <1>2. UNCHANGED <<fixed, receipts, late, faults>> /\ pc' = "move"
    BY DEF CreateDraft
  <1>3. Mailbox /\ queue # <<>> /\ pc = "create"
    BY DEF Held, TypeOK, CreateDraft
  <1>4. c \in Copies /\ c # 1 /\ folder[c] = "unborn" /\ c # Cur
    BY <1>3, FreshCopy
  <1>5. /\ form' \in [Copies -> {"plain", "foreign", "processed"}]
        /\ form'[c] = Processed(Cur) /\ form'[c] # "plain"
        /\ \A d \in Copies \ {c} : form'[d] = form[d]
    BY <1>1, <1>3, <1>4, ProcessedForm DEF TypeOK
  <1>6. /\ folder' \in [Copies -> Folders] /\ queue' \in Seq(Copies)
        /\ Places' /\ ReceiptIsBacked' /\ queue' # <<>> /\ Cur' = Cur
    BY <1>1, <1>2, <1>3, <1>4, <1>5, ArrivalKeeps
  <1>7. folder'[c] = "drafts" /\ \A d \in Copies \ {c} : folder'[d] = folder[d]
    BY <1>1, <1>4, Arriving DEF Folders
  <1>8. TypeOK'
    BY <1>1, <1>2, <1>4, <1>5, <1>6 DEF TypeOK, Steps
  <1>9. Mailbox' = Mailbox /\ Written' = Written
    BY <1>2 DEF Mailbox, Written
  <1>10. Held'
    BY <1>1, <1>2, <1>3, <1>4, <1>5, <1>6, <1>7, <1>9 DEF Held, Holds
  <1>11. Marked'
    BY <1>2, <1>3, <1>4, <1>5, <1>7, ProcessedForm DEF Marked
  <1>12. Bound'
    <2>1. Copied' \subseteq Copied
      BY <1>2, <1>4, <1>7, <1>9, SinkPlaces DEF Copied
    <2> QED
      BY <1>2, <1>3, <1>6, <1>9, <2>1 DEF Bound, AtMost
  <1> QED
    BY <1>6, <1>8, <1>10, <1>11, <1>12

(* Creating the copy in its folder does. *)
LEMMA CreateInFolderKeeps == ASSUME Inv, CreateInFolder PROVE Inv'
  <1> USE DEF Inv, fixed
  <1>1. PICK c \in Fresh : /\ Arrive(c, Written)
                           /\ form' = [form EXCEPT ![c] = Processed(Cur)]
                           /\ new' = IF conf.answersId THEN c ELSE NoCopy
    BY DEF CreateInFolder
  <1>2. UNCHANGED <<fixed, receipts, late, faults>> /\ pc' = "locate"
    BY DEF CreateInFolder
  <1>3. Mailbox /\ queue # <<>> /\ pc = "create"
    BY DEF Held, TypeOK, CreateInFolder
  <1>4. c \in Copies /\ c # 1 /\ folder[c] = "unborn" /\ c # Cur
    BY <1>3, FreshCopy
  <1>5. /\ form' \in [Copies -> {"plain", "foreign", "processed"}]
        /\ form'[c] = Processed(Cur) /\ form'[c] # "plain"
        /\ \A d \in Copies \ {c} : form'[d] = form[d]
    BY <1>1, <1>3, <1>4, ProcessedForm DEF TypeOK
  <1>6. /\ folder' \in [Copies -> Folders] /\ queue' \in Seq(Copies)
        /\ Places' /\ ReceiptIsBacked' /\ queue' # <<>> /\ Cur' = Cur
    BY <1>1, <1>2, <1>3, <1>4, <1>5, ArrivalKeeps
  <1>7. folder'[c] = Written /\ \A d \in Copies \ {c} : folder'[d] = folder[d]
    BY <1>1, <1>4, Arriving, SinkPlaces DEF Folders
  <1>8. new' \in {c, NoCopy}
    BY <1>1
  <1>9. TypeOK'
    BY <1>2, <1>4, <1>5, <1>6, <1>8 DEF TypeOK, Steps
  <1>10. Mailbox' = Mailbox /\ Written' = Written
    BY <1>2 DEF Mailbox, Written
  <1>11. Held'
    BY <1>2, <1>3, <1>4, <1>5, <1>6, <1>7, <1>8, <1>10 DEF Held, Holds
  <1>12. Marked'
    BY <1>2, <1>3, <1>4, <1>5, <1>7, ProcessedForm DEF Marked
  <1>13. Bound'
    BY <1>2, <1>3, <1>4, <1>7, ArrivalIsBounded
  <1> QED
    BY <1>6, <1>9, <1>11, <1>12, <1>13

(* Moving the draft into the folder does. *)
LEMMA MoveKeeps == ASSUME Inv, Move PROVE Inv'
  <1> USE DEF Inv, fixed
  <1>1. Arrive(new, Written) /\ UNCHANGED <<fixed, form, receipts, late, faults, new>>
    BY DEF Move, Goto
  <1>2. Mailbox /\ queue # <<>> /\ pc = "move" /\ pc' = "unread"
    BY DEF Held, TypeOK, Move, Goto
  <1>3. new \in Copies /\ new # Cur /\ folder[new] = "drafts" /\ form[new] # "plain"
    BY <1>2 DEF Held, Holds
  <1>4. /\ folder' \in [Copies -> Folders] /\ queue' \in Seq(Copies)
        /\ Places' /\ ReceiptIsBacked' /\ queue' # <<>> /\ Cur' = Cur
    BY <1>1, <1>2, <1>3, ArrivalKeeps DEF TypeOK
  <1>5. folder'[new] = Written /\ \A d \in Copies \ {new} : folder'[d] = folder[d]
    BY <1>1, <1>3, Arriving, SinkPlaces DEF Folders
  <1>6. TypeOK'
    BY <1>1, <1>2, <1>4 DEF TypeOK, Steps
  <1>7. Mailbox' = Mailbox /\ Written' = Written
    BY <1>1 DEF Mailbox, Written
  <1>8. Held'
    BY <1>1, <1>2, <1>3, <1>4, <1>5, <1>7 DEF Held, Holds
  <1>9. Marked'
    BY <1>1, <1>3, <1>5 DEF Marked
  <1>10. Bound'
    BY <1>1, <1>2, <1>3, <1>5, ArrivalIsBounded
  <1> QED
    BY <1>4, <1>6, <1>8, <1>9, <1>10

(* A file is made where there is none, and replaced where there is one. *)
LEMMA SaveFileKeeps == ASSUME Inv, SaveFile PROVE Inv'
  <1> USE DEF Inv, fixed
  <1> DEFINE files == {c \in Copies : folder[c] = "target"}
             image == IF conf.sink = "backup" THEN "processed" ELSE Processed(Cur)
  <1>1. PICK c \in IF files = {} THEN Fresh ELSE files :
          /\ Arrive(c, "target")
          /\ form' = [form EXCEPT ![c] = image]
          /\ new' = c
    BY DEF SaveFile
  <1>2. UNCHANGED <<fixed, receipts, late, faults>> /\ pc' = "receipt"
    BY DEF SaveFile
  <1>3. ~Mailbox /\ queue # <<>> /\ Written = "target"
    BY SinkPlaces DEF Held, TypeOK, SaveFile, Written
  <1>4. /\ c \in Copies /\ c # Cur /\ c # 1
        /\ folder[c] = "unborn" \/ folder[c] = "target"
    BY <1>3, FreshCopy, CurIsOffered DEF Places
  <1>5. \A d \in Copies : folder[d] = "target" => d = c
    BY <1>3, <1>4 DEF Bound
  <1>6. image \in {"foreign", "processed"} /\ (mail.form = "plain" => image = "processed")
    BY <1>3, ProcessedForm
  <1>7. /\ form' \in [Copies -> {"plain", "foreign", "processed"}]
        /\ form'[c] = image /\ form'[c] # "plain"
        /\ \A d \in Copies \ {c} : form'[d] = form[d]
    <2> HIDE DEF image
    <2> QED
      BY <1>1, <1>4, <1>6 DEF TypeOK
  <1>8. /\ folder' \in [Copies -> Folders] /\ queue' \in Seq(Copies)
        /\ Places' /\ ReceiptIsBacked' /\ queue' # <<>> /\ Cur' = Cur
    BY <1>1, <1>2, <1>3, <1>4, <1>7, ArrivalKeeps
  <1>9. folder'[c] = "target" /\ \A d \in Copies \ {c} : folder'[d] = folder[d]
    BY <1>1, <1>4, Arriving DEF Folders
  <1>10. TypeOK'
    BY <1>1, <1>2, <1>4, <1>7, <1>8 DEF TypeOK, Steps
  <1>11. Mailbox' = Mailbox /\ Written' = Written
    BY <1>2 DEF Mailbox, Written
  <1>12. Held'
    BY <1>1, <1>2, <1>3, <1>4, <1>7, <1>8, <1>9, <1>11, SinkPlaces DEF Held, Holds
  <1>13. Marked'
    <2> HIDE DEF image
    <2> QED
      BY <1>2, <1>4, <1>6, <1>7, <1>9 DEF Marked
  <1>14. Bound'
    BY <1>3, <1>5, <1>9, <1>11 DEF Bound
  <1> QED
    BY <1>8, <1>10, <1>12, <1>13, <1>14

(* A copy that is on its way is in no folder, and counts as late. *)
LEMMA TimesOutKeeps == ASSUME Inv, TimesOut PROVE Inv'
  <1> USE DEF Inv, fixed
  <1>1. /\ UNCHANGED <<fixed, queue, receipts>> /\ pc' = "idle" /\ new' = NoCopy
        /\ faults' \in 0..MaxFaults
    BY BoundsAssumption DEF TimesOut, GiveUp, TypeOK
  <1>2. Mailbox /\ queue # <<>> /\ pc \in {"create", "move"}
    BY DEF Held, TypeOK, TimesOut
  <1>3. PICK c \in Copies :
          /\ folder[c] \in {"unborn", "drafts"}
          /\ folder' = [folder EXCEPT ![c] = "pending"]
          /\ late' = late \cup {c}
          /\ \/ form' = form /\ folder[c] = "drafts"
             \/ form' = [form EXCEPT ![c] = Processed(Cur)]
    <2>1. CASE pc = "create"
      <3>1. PICK c \in Fresh : /\ folder' = [folder EXCEPT ![c] = "pending"]
                               /\ form' = [form EXCEPT ![c] = Processed(Cur)]
                               /\ late' = late \cup {c}
        BY <2>1 DEF TimesOut
      <3> QED
        BY <3>1, FreshCopy
    <2>2. CASE pc = "move"
      <3>1. /\ folder' = [folder EXCEPT ![new] = "pending"]
            /\ late' = late \cup {new} /\ form' = form
        BY <2>2 DEF TimesOut
      <3>2. new \in Copies /\ folder[new] = "drafts"
        BY <2>2 DEF Held, Holds
      <3> QED
        BY <3>1, <3>2
    <2> QED
      BY <1>2, <2>1, <2>2
  <1>4. /\ folder' \in [Copies -> Folders] /\ folder'[c] = "pending"
        /\ \A d \in Copies \ {c} : folder'[d] = folder[d]
    BY <1>3 DEF TypeOK, Folders
  <1>5. /\ form' \in [Copies -> {"plain", "foreign", "processed"}]
        /\ \A d \in Copies \ {c} : form'[d] = form[d]
        /\ mail.form = "plain" => form'[c] \in {form[c], "processed"}
        /\ mail.form = "plain" /\ folder[c] = "unborn" => form'[c] = "processed"
    BY <1>2, <1>3, ProcessedForm DEF TypeOK
  <1>6. TypeOK'
    BY <1>1, <1>3, <1>4, <1>5 DEF TypeOK, Steps
  <1>7. Mailbox' = Mailbox /\ Written' = Written /\ Cur' = Cur /\ Written # "pending"
    BY <1>1, SinkPlaces DEF Mailbox, Written, Cur
  <1>8. Places'
    <2>1. folder'[1] \in {"source", "gone"}
      BY <1>3, <1>4, FirstCopy DEF Places
    <2>2. \A d \in Copies : folder'[d] = "gone" => conf.deletes /\ d \in receipts
      BY <1>4 DEF Places
    <2>3. \A d \in Copies : folder'[d] = "pending" => d \in late' /\ Mailbox
      BY <1>2, <1>3, <1>4 DEF Places
    <2>4. \A i \in DOMAIN queue : /\ queue[i] \in Copies
                                  /\ folder[queue[i]] \in {"source", "gone"}
                                  /\ ~conf.inPlace => queue[i] = 1
      BY DEF Places, TypeOK
    <2>5. \A i \in DOMAIN queue : folder'[queue[i]] \in {"source", "gone"}
      BY <1>3, <1>4, <2>4
    <2>6. ASSUME conf.deletes, NEW x \in receipts
          PROVE  folder'[x] = "gone" \/ (queue # <<>> /\ x = Cur)
      <3>1. x \in Copies /\ (folder[x] = "gone" \/ (queue # <<>> /\ x = Cur))
        BY <2>6 DEF Places, TypeOK
      <3> QED
        BY <1>3, <1>4, <3>1
    <2> QED
      BY <1>1, <1>7, <2>1, <2>2, <2>3, <2>4, <2>5, <2>6 DEF Places
  <1>9. Held'
    BY <1>1 DEF Held
  <1>10. Marked'
    BY <1>1, <1>3, <1>4, <1>5 DEF Marked
  <1>11. Bound'
    <2>1. Copied' \subseteq Copied
      BY <1>3, <1>4, <1>7 DEF Copied
    <2> QED
      BY <1>1, <1>2, <1>7, <2>1 DEF Bound, AtMost
  <1>12. ReceiptIsBacked'
    <2> SUFFICES ASSUME NEW x \in receipts
                 PROVE  \E d \in Copies \ {x} :
                          /\ folder'[d] = Written
                          /\ form'[d] # "plain"
                          /\ conf.verify => form'[d] = "processed"
      BY <1>1, <1>7 DEF ReceiptIsBacked
    <2>1. PICK d \in Copies \ {x} : /\ folder[d] = Written
                                    /\ form[d] # "plain"
                                    /\ conf.verify => form[d] = "processed"
      BY DEF ReceiptIsBacked
    <2>2. d # c
      BY <1>3, <2>1, SinkPlaces
    <2> QED
      BY <1>4, <1>5, <2>1, <2>2
  <1> QED
    BY <1>6, <1>8, <1>9, <1>10, <1>11, <1>12

(* A copy that arrives after its request was given up keeps it. *)
LEMMA LandsKeeps == ASSUME Inv, NEW c \in Copies, Lands(c) PROVE Inv'
  <1> USE DEF Inv, fixed
  <1>1. /\ Arrive(c, Written) /\ folder[c] = "pending"
        /\ UNCHANGED <<fixed, form, receipts, pc, new, late, faults>>
    BY DEF Lands
  <1>2. c \in late /\ Mailbox
    BY <1>1 DEF Places
  <1>3. /\ folder' \in [Copies -> Folders] /\ queue' \in Seq(Copies)
        /\ Places' /\ ReceiptIsBacked'
        /\ queue # <<>> => queue' # <<>> /\ Cur' = Cur
    BY <1>1, ArrivalKeeps DEF TypeOK
  <1>4. folder'[c] = Written /\ \A d \in Copies \ {c} : folder'[d] = folder[d]
    BY <1>1, Arriving, SinkPlaces DEF Folders
  <1>5. TypeOK'
    BY <1>1, <1>3 DEF TypeOK
  <1>6. Mailbox' = Mailbox /\ Written' = Written
    BY <1>1 DEF Mailbox, Written
  <1>7. Held'
    <2>1. pc # "idle" => queue # <<>> /\ Cur' = Cur /\ Cur \in Copies /\ Cur # c
      BY <1>1, <1>3, CurIsOffered DEF TypeOK
    <2>2. new \in Copies /\ folder[new] \in {"drafts", Written} => folder'[new] = folder[new]
      BY <1>1, <1>4, SinkPlaces
    <2>3. pc # "idle" => folder'[Cur] = folder[Cur]
      BY <1>4, <2>1
    <2>4. pc = pc' /\ new' = new /\ form' = form /\ receipts' = receipts /\ conf' = conf
      BY <1>1
    <2> QED
      BY <1>2, <1>6, <2>1, <2>2, <2>3, <2>4 DEF Held, Holds
  <1>8. Marked'
    BY <1>1, <1>4 DEF Marked
  <1>9. Bound'
    <2>1. Copied' \subseteq Copied
      BY <1>1, <1>2, <1>4, <1>6 DEF Copied
    <2>2. pc' \in {"create", "move"} => Cur' = Cur
      BY <1>1, <1>3 DEF TypeOK
    <2> QED
      BY <1>1, <1>2, <1>6, <2>1, <2>2 DEF Bound, AtMost
  <1> QED
    BY <1>3, <1>5, <1>7, <1>8, <1>9

-----------------------------------------------------------------------------
(* The invariant holds at first. *)
LEMMA InitInv == Init => Inv
  <1> SUFFICES ASSUME Init PROVE Inv
    OBVIOUS
  <1>1. 1 \in Copies
    BY FirstCopy
  <1>2. /\ conf \in Configs /\ mail \in Mails /\ mail.form \in {"plain", "foreign"}
        /\ queue = <<1>> /\ queue \in Seq(Copies) /\ Cur = 1
    BY <1>1, ConfigsAssumption DEF Init, MailType, Cur
  <1>3. \A c \in Copies : folder[c] = IF c = 1 THEN "source" ELSE "unborn"
    BY DEF Init
  <1>4. TypeOK
    BY <1>2, BoundsAssumption DEF Init, TypeOK, Folders, Steps
  <1>5. Written \in {"source", "target"}
    BY DEF Written
  <1>6. Copied = {}
    BY <1>3, <1>5 DEF Copied
  <1>7. Places
    BY <1>1, <1>2, <1>3 DEF Init, Places
  <1>8. Held /\ Marked /\ ReceiptIsBacked
    BY <1>3 DEF Init, Held, Marked, ReceiptIsBacked
  <1>9. Bound
    BY <1>1, <1>3, <1>6 DEF Init, Bound, AtMost
  <1> QED
    BY <1>4, <1>7, <1>8, <1>9 DEF Inv

(* Every step keeps it. *)
LEMMA StepKeepsInv == Inv /\ [Next]_vars => Inv'
  <1> SUFFICES ASSUME Inv, [Next]_vars PROVE Inv'
    OBVIOUS
  <1>1. CASE Attempt
    BY <1>1, ProcessKeeps, ReconcileKeeps, CreateDraftKeeps, MoveKeeps, CreateInFolderKeeps,
       LocateKeeps, MarkUnreadKeeps, VerifyKeeps, SaveFileKeeps, SaveReceiptKeeps,
       DeleteOriginalKeeps, AcknowledgeKeeps DEF Attempt
  <1>2. CASE Offer \/ Breaks \/ TimesOut
    BY <1>2, OfferKeeps, BreaksKeeps, TimesOutKeeps
  <1>3. ASSUME NEW c \in Copies, Lands(c) PROVE Inv'
    BY <1>3, LandsKeeps
  <1>4. CASE UNCHANGED vars
    <2> USE <1>4 DEF Inv, vars, fixed, mailbox
    <2>1. Copied' = Copied /\ Mailbox' = Mailbox /\ Cur' = Cur /\ Written' = Written
      BY DEF Copied, Mailbox, Cur, Written
    <2>2. Bound'
      BY <2>1 DEF Bound, AtMost
    <2>3. TypeOK' /\ Places'
      BY <2>1 DEF TypeOK, Places
    <2>4. Held'
      BY <2>1 DEF Held, Holds
    <2>5. Marked' /\ ReceiptIsBacked'
      BY <2>1 DEF Marked, ReceiptIsBacked
    <2> QED
      BY <2>2, <2>3, <2>4, <2>5
  <1> QED
    BY <1>1, <1>2, <1>3, <1>4 DEF Next

(* A saved receipt has a copy behind it, an attempt holds the copy its     *)
(* place in the protocol promises, and every copy of a mail bears the mark *)
(* that ends its processing.                                               *)
THEOREM Invariance == Spec => []Inv
  BY InitInv, StepKeepsInv, PTL DEF Spec

(* Every variable stays in its range, and an attempt always has a mail to  *)
(* work on.                                                                *)
THEOREM TypesAreKept == Spec => []TypeOK
  <1>1. Inv => TypeOK
    BY DEF Inv
  <1> QED
    BY <1>1, Invariance, PTL

(* A receipt always stands for another copy in the place the sink writes   *)
(* to, not in plain text and with the mark if the sink verifies, whatever  *)
(* broke off before it and whatever was deleted since.                     *)
THEOREM ReceiptsAreBacked == Spec => []ReceiptIsBacked
  <1>1. Inv => ReceiptIsBacked
    BY DEF Inv
  <1> QED
    BY <1>1, Invariance, PTL

(* The mail is never lost: once the one that arrived is deleted, its       *)
(* receipt stands for a copy that is there.                                *)
THEOREM LastCopyStays == Spec => []NeverTheLastCopy
  <1>1. Inv => NeverTheLastCopy
    <2> SUFFICES ASSUME Inv PROVE NeverTheLastCopy
      OBVIOUS
    <2>1. CASE folder[1] = "source"
      BY <2>1, FirstCopy DEF NeverTheLastCopy
    <2>2. CASE folder[1] = "gone"
      <3>1. 1 \in receipts
        BY <2>2, FirstCopy DEF Inv, Places
      <3>2. \E c \in Copies : folder[c] = Written
        BY <3>1 DEF Inv, ReceiptIsBacked
      <3> QED
        BY <3>2, SinkPlaces DEF Inv, NeverTheLastCopy
    <2> QED
      BY <2>1, <2>2 DEF Inv, Places
  <1> QED
    BY <1>1, Invariance, PTL

(* A subset of a pair has at most two elements, one if the pair has. *)
LEMMA AtMostTwo ==
  ASSUME NEW S, NEW a, NEW b, S \subseteq {a, b}
  PROVE  Cardinality(S) \in Nat /\ Cardinality(S) <= 2 /\ (a = b => Cardinality(S) <= 1)
  <1>1. IsFiniteSet({a}) /\ Cardinality({a}) = 1
    BY FS_Singleton
  <1>2. /\ IsFiniteSet({a, b}) /\ Cardinality({a, b}) <= 2
        /\ a = b => Cardinality({a, b}) = 1
    <2>1. {a, b} = {a} \cup {b}
      OBVIOUS
    <2> QED
      BY <1>1, <2>1, FS_AddElement
  <1>3. /\ IsFiniteSet(S) /\ Cardinality(S) <= Cardinality({a, b})
        /\ Cardinality(S) \in Nat /\ Cardinality({a, b}) \in Nat
    BY <1>2, FS_Subset, FS_CardinalityType
  <1> QED
    BY <1>2, <1>3

(* However often attempts on a mail that can be recognised break off, one  *)
(* copy of it is written (and one of that copy, where it comes back), not  *)
(* counting those that the server made after the attempt had given up.     *)
THEOREM CopiesAreBounded == Spec => []OneCopyPerMail
  <1>1. Inv => OneCopyPerMail
    <2> SUFFICES ASSUME Inv, (mail.form = "plain" /\ mail.id) \/ ~Mailbox
                 PROVE  Cardinality(Copied) <= (IF conf.inPlace THEN 2 ELSE 1)
      BY DEF OneCopyPerMail
    <2>1. CASE Mailbox
      BY <2>1, AtMostTwo DEF Inv, Bound, AtMost
    <2>2. CASE ~Mailbox
      <3>1. ~conf.inPlace /\ Written = "target"
        BY <2>2, SinkPlaces DEF Inv, Written
      <3>2. \E a \in Copies : Copied \subseteq {a, a}
        BY <2>2, <3>1, FirstCopy DEF Inv, Bound, Copied
      <3> QED
        BY <3>1, <3>2, AtMostTwo
    <2> QED
      BY <2>1, <2>2
  <1> QED
    BY <1>1, Invariance, PTL
=============================================================================
