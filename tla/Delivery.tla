------------------------------ MODULE Delivery ------------------------------
(***************************************************************************)
(* One mail on its way through the processor into one sink, over as many   *)
(* attempts as it takes.  An attempt asks a remote mailbox for several     *)
(* things in turn (create, move, mark, look up, verify) and may end after  *)
(* any of them; the next one finds out what the earlier ones left behind   *)
(* by looking for a mail with the same Message-ID that bears the mark      *)
(* X-MimeCrypt-Processed.                                                  *)
(*                                                                         *)
(* A copy is an instance of the mail in a folder.  Copy 1 is the mail that *)
(* arrived.  When the sink writes into the watched folder, which it does   *)
(* if no folder is configured, every copy it makes there is a new mail to  *)
(* the source, and comes back.                                             *)
(***************************************************************************)
EXTENDS Naturals, Sequences, FiniteSets

CONSTANTS
  Configs,    \* configurations of the sink, see ConfigType
  Mails,      \* kinds of mail that arrive, see MailType
  MaxCopies,  \* bound: instances of the mail ever made, the first included
  MaxFaults   \* bound: attempts that end half-way

Copies == 1..MaxCopies
Sinks == {"graph", "ews", "imap", "file", "backup"}

(* inPlace: the sink writes into the watched folder; deletes: the route    *)
(* deletes the source mail; verify: of the write-back sink; answersId: the *)
(* server answers a creation with the new id (APPENDUID, ItemId).          *)
ConfigType ==
  {c \in [sink : Sinks, inPlace : BOOLEAN, deletes : BOOLEAN,
          verify : BOOLEAN, answersId : BOOLEAN] :
     /\ c.sink \in {"file", "backup"} => ~c.inPlace /\ ~c.verify
     /\ c.sink \notin {"ews", "imap"} => c.answersId}

(* form: "plain", or "foreign" if it is encrypted, but not by this program;*)
(* id: has a Message-ID; recipients: a key to encrypt to can be found.     *)
MailType == [form : {"plain", "foreign"}, id : BOOLEAN, recipients : BOOLEAN]

ASSUME ConfigsAssumption == Configs \subseteq ConfigType /\ Mails \subseteq MailType
ASSUME BoundsAssumption == MaxCopies \in Nat \ {0} /\ MaxFaults \in Nat

VARIABLES
  conf,      \* the configuration, fixed
  mail,      \* the mail's kind, fixed
  folder,    \* folder[c]: where copy c is
  form,      \* form[c]: "plain", "foreign", or "processed" with the mark
  queue,     \* copies in the watched folder that are not acknowledged yet
  receipts,  \* copies whose transaction holds a receipt of the sink
  pc,        \* the step the attempt on Head(queue) takes next
  new,       \* the copy this attempt has created or found, 0 for none
  late,      \* copies made by a request whose sender had given up before
  faults

fixed == <<conf, mail>>
mailbox == <<folder, form>>
vars == <<fixed, mailbox, queue, receipts, pc, new, late, faults>>

Folders == {"unborn", "pending", "drafts", "source", "target", "gone"}
Steps == {"idle", "process", "reconcile", "create", "move", "unread", "locate",
          "verify", "save", "receipt", "delete", "ack"}

Cur == Head(queue)
Written == IF conf.inPlace THEN "source" ELSE "target"
Mailbox == conf.sink \in {"graph", "ews", "imap"}
NoCopy == 0

Init ==
  /\ conf \in Configs
  /\ mail \in Mails
  /\ folder = [c \in Copies |-> IF c = 1 THEN "source" ELSE "unborn"]
  /\ form = [c \in Copies |-> mail.form]
  /\ queue = <<1>>
  /\ receipts = {}
  /\ pc = "idle"
  /\ new = NoCopy
  /\ late = {}
  /\ faults = 0

-----------------------------------------------------------------------------
(* The attempt ends; the mail stays first in line (the source offers it    *)
(* again, and its transaction is not completed).                           *)
GiveUp == pc' = "idle" /\ new' = NoCopy

Goto(step) == pc' = step /\ UNCHANGED new

(* What the processor makes of a copy: an encrypted mail goes through      *)
(* unchanged, whoever encrypted it; any other is encrypted and marked.     *)
Processed(c) == IF form[c] = "plain" THEN "processed" ELSE form[c]

(* RunFromOpenerContext needs a recipient; so does the backup sink, which  *)
(* encrypts what it is given whether or not it is encrypted.               *)
Encryptable(c) ==
  form[c] = "plain" \/ conf.sink = "backup" => mail.recipients

AfterReceipt == IF conf.deletes THEN "delete" ELSE "ack"

(* The coordinator takes up the next mail: only one without a receipt      *)
(* goes through the processor.                                             *)
Offer ==
  /\ pc = "idle" /\ queue # <<>>
  /\ Goto(IF Cur \in receipts THEN AfterReceipt ELSE "process")
  /\ UNCHANGED <<fixed, mailbox, queue, receipts, late, faults>>

Process ==
  /\ pc = "process"
  /\ \/ Encryptable(Cur) /\ Goto(IF Mailbox THEN "reconcile" ELSE "save")
     \/ ~Encryptable(Cur) /\ GiveUp
  /\ UNCHANGED <<fixed, mailbox, queue, receipts, late, faults>>

-----------------------------------------------------------------------------
(* Mutant: the copy that is being written back is not left out. *)
Found_original ==
  {c \in Copies : mail.id /\ folder[c] = Written /\ form[c] = "processed"}

(* Mutant: any mail with the Message-ID will do. *)
Found_unmarked ==
  {c \in Copies \ {Cur} : mail.id /\ folder[c] = Written}

(* Mutant: the search goes to the folder of drafts. *)
Found_drafts ==
  {c \in Copies \ {Cur} : mail.id /\ folder[c] = "drafts" /\ form[c] = "processed"}

(* findProcessedMessage, findProcessedUID: the marked mails with the same  *)
(* Message-ID in the target folder, except the one that is written back.   *)
Found ==
  {c \in Copies \ {Cur} :
     mail.id /\ folder[c] = Written /\ form[c] = "processed"}

AfterWrite == IF conf.verify THEN "verify" ELSE "receipt"

(* reconcileInTarget, reconcileMessage; IMAP refuses a mail without a      *)
(* Message-ID, because a retry could not find it.                          *)
Reconcile ==
  /\ pc = "reconcile"
  /\ \/ /\ conf.sink = "imap" /\ ~mail.id
        /\ GiveUp
     \/ /\ Found # {}
        /\ \E c \in Found : new' = c
        /\ pc' = AfterWrite
     \/ /\ Found = {} /\ (conf.sink = "imap" => mail.id)
        /\ Goto("create")
  /\ UNCHANGED <<fixed, mailbox, queue, receipts, late, faults>>

Fresh == {c \in Copies : folder[c] = "unborn" /\ \A d \in 1..(c - 1) : folder[d] # "unborn"}

(* Copy c arrives in folder f: there the source may see it. *)
Arrive(c, f) ==
  /\ folder' = [folder EXCEPT ![c] = f]
  /\ queue' = IF f = "source" THEN Append(queue, c) ELSE queue

(* createDraftMessage: Graph creates mails in Drafts only. *)
CreateDraft ==
  /\ pc = "create" /\ conf.sink = "graph"
  /\ \E c \in Fresh :
       /\ Arrive(c, "drafts")
       /\ form' = [form EXCEPT ![c] = Processed(Cur)]
       /\ new' = c
  /\ pc' = "move"
  /\ UNCHANGED <<fixed, receipts, late, faults>>

Move ==
  /\ pc = "move"
  /\ Arrive(new, Written)
  /\ Goto("unread")
  /\ UNCHANGED <<fixed, form, receipts, late, faults>>

(* createMessage of EWS and APPEND put the mail where it belongs. *)
CreateInFolder ==
  /\ pc = "create" /\ conf.sink \in {"ews", "imap"}
  /\ \E c \in Fresh :
       /\ Arrive(c, Written)
       /\ form' = [form EXCEPT ![c] = Processed(Cur)]
       /\ new' = IF conf.answersId THEN c ELSE NoCopy
  /\ pc' = "locate"
  /\ UNCHANGED <<fixed, receipts, late, faults>>

(* Which copy was made?  EWS searches first and translates the answered id *)
(* only if that finds nothing; IMAP searches only if no id was answered.   *)
Locate ==
  /\ pc = "locate"
  /\ LET trusted == conf.sink = "imap" /\ new # NoCopy
     IN  \/ /\ ~trusted
            /\ \E c \in Found : new' = c
            /\ pc' = IF conf.sink = "ews" THEN "unread" ELSE AfterWrite
         \/ /\ new # NoCopy /\ (trusted \/ Found = {})
            /\ Goto(IF conf.sink = "ews" THEN "unread" ELSE AfterWrite)
         \/ /\ new = NoCopy /\ Found = {}
            /\ GiveUp
  /\ UNCHANGED <<fixed, mailbox, queue, receipts, late, faults>>

MarkUnread ==
  /\ pc = "unread"
  /\ Goto(AfterWrite)
  /\ UNCHANGED <<fixed, mailbox, queue, receipts, late, faults>>

(* verifyMessage, verifyProcessedMessage: the mark must be there.  The     *)
(* attempt that fails leaves its copy behind.                              *)
Verify ==
  /\ pc = "verify"
  /\ \/ form[new] = "processed" /\ Goto("receipt")
     \/ form[new] # "processed" /\ GiveUp
  /\ UNCHANGED <<fixed, mailbox, queue, receipts, late, faults>>

(* The file and backup sinks name the file after the mail's id and its     *)
(* time of receipt, and replace it atomically.                             *)
SaveFile ==
  /\ pc = "save"
  /\ LET files == {c \in Copies : folder[c] = "target"}
     IN  \E c \in IF files = {} THEN Fresh ELSE files :
           /\ Arrive(c, "target")
           /\ form' = [form EXCEPT ![c] = IF conf.sink = "backup" THEN "processed"
                                          ELSE Processed(Cur)]
           /\ new' = c
  /\ pc' = "receipt"
  /\ UNCHANGED <<fixed, receipts, late, faults>>

-----------------------------------------------------------------------------
(* The coordinator saves the receipt in the transaction, *)
SaveReceipt ==
  /\ pc = "receipt"
  /\ receipts' = receipts \cup {Cur}
  /\ Goto(AfterReceipt)
  /\ UNCHANGED <<fixed, mailbox, queue, late, faults>>

(* deletes the source mail (one that is gone already is no error), *)
DeleteOriginal ==
  /\ pc = "delete"
  /\ folder' = [folder EXCEPT ![Cur] = "gone"]
  /\ Goto("ack")
  /\ UNCHANGED <<fixed, form, queue, receipts, late, faults>>

(* Mutant: goes on to the next mail without asking whether there is one. *)
Acknowledge_next ==
  /\ pc = "ack"
  /\ queue' = Tail(queue)
  /\ Goto("process")
  /\ UNCHANGED <<fixed, mailbox, receipts, late, faults>>

(* and acknowledges it, so that the next one comes up. *)
Acknowledge ==
  /\ pc = "ack"
  /\ queue' = Tail(queue)
  /\ GiveUp
  /\ UNCHANGED <<fixed, mailbox, receipts, late, faults>>

-----------------------------------------------------------------------------
(* A call fails, its answer is lost, or the process dies: whatever was     *)
(* done before stays done and is forgotten.                                *)
Breaks ==
  /\ pc # "idle" /\ faults < MaxFaults
  /\ faults' = faults + 1
  /\ GiveUp
  /\ UNCHANGED <<fixed, mailbox, queue, receipts, late>>

(* The attempt gives up waiting for a creation or a move that the server   *)
(* has yet to carry out.                                                   *)
TimesOut ==
  /\ faults < MaxFaults
  /\ \/ pc = "create" /\ conf.sink \in {"ews", "imap"} /\ \E c \in Fresh :
          /\ folder' = [folder EXCEPT ![c] = "pending"]
          /\ form' = [form EXCEPT ![c] = Processed(Cur)]
          /\ late' = late \cup {c}
     \/ /\ pc = "move"
        /\ folder' = [folder EXCEPT ![new] = "pending"]
        /\ late' = late \cup {new}
        /\ UNCHANGED form
  /\ faults' = faults + 1
  /\ GiveUp
  /\ UNCHANGED <<fixed, queue, receipts>>

Lands(c) ==
  /\ folder[c] = "pending"
  /\ Arrive(c, Written)
  /\ UNCHANGED <<fixed, form, receipts, pc, new, late, faults>>

Attempt ==
  \/ Process \/ Reconcile \/ CreateDraft \/ Move \/ CreateInFolder \/ Locate
  \/ MarkUnread \/ Verify \/ SaveFile \/ SaveReceipt \/ DeleteOriginal \/ Acknowledge

Next == Offer \/ Attempt \/ Breaks \/ TimesOut \/ \E c \in Copies : Lands(c)

Spec == Init /\ [][Next]_vars

(* The source offers a mail again as long as it is not acknowledged (the   *)
(* polling cycles and the push worker, see PollingSource and PushSpool),   *)
(* and an attempt goes on: every remote call returns or times out.         *)
Fairness == WF_vars(Offer) /\ WF_vars(Attempt) /\ \A c \in Copies : WF_vars(Lands(c))

FairSpec == Spec /\ Fairness

-----------------------------------------------------------------------------
(* Types, and: the attempt works on a mail that is there. *)
TypeOK ==
  /\ conf \in Configs /\ mail \in Mails
  /\ folder \in [Copies -> Folders]
  /\ form \in [Copies -> {"plain", "foreign", "processed"}]
  /\ queue \in Seq(Copies)
  /\ receipts \in SUBSET Copies
  /\ pc \in Steps
  /\ new \in Copies \cup {NoCopy}
  /\ late \in SUBSET Copies
  /\ faults \in 0..MaxFaults
  /\ pc # "idle" => queue # <<>>

(* However often attempts on a mail that can be recognised break off, the  *)
(* folder it is written to ends up with one marked copy, not counting the  *)
(* creations that the server carried out after their sender had given up   *)
(* (and the copy of the copy when it is written into the watched folder).  *)
(* A file is never written twice, recognisable or not.                     *)
Copied == {c \in Copies \ {1} : folder[c] = Written} \ late

OneCopyPerMail ==
  (mail.form = "plain" /\ mail.id) \/ ~Mailbox =>
    Cardinality(Copied) <= (IF conf.inPlace THEN 2 ELSE 1)

(* Deleting the source never takes the last copy of the mail away: there   *)
(* is one in the watched folder, or where the sink writes.                 *)
NeverTheLastCopy == \E c \in Copies : folder[c] \in {"source", "target"}

(* A receipt stands for another copy, in the place the sink writes to; it  *)
(* is not plain text, and it bears the mark if the sink verifies.          *)
ReceiptIsBacked ==
  \A x \in receipts : \E c \in Copies \ {x} :
    /\ folder[c] = Written
    /\ form[c] # "plain"
    /\ conf.verify => form[c] = "processed"

-----------------------------------------------------------------------------
(* Mails and configurations for which the attempts come to an end.  Of     *)
(* those left out, some never reach a receipt; the others write copies     *)
(* without end: a foreign mail that is to bear the mark, or one without a  *)
(* mark or a Message-ID that is written into the watched folder, or any    *)
(* mail that is written there and deleted.                                 *)
Convergent ==
  /\ mail.form = "plain" \/ conf.sink = "backup" => mail.recipients
  /\ mail.form = "foreign" => ~conf.verify
  /\ conf.inPlace => mail.form = "plain" /\ mail.id /\ ~conf.deletes
  /\ conf.sink = "imap" => mail.id
  /\ conf.sink \in {"ews", "imap"} /\ ~conf.answersId => mail.form = "plain" /\ mail.id

(* For the convergent ones the mail and the copies that come back are all  *)
(* acknowledged in the end, and no copy is made any more.                  *)
Settles == Convergent => <>[](queue = <<>>)
=============================================================================
