----------------------------- MODULE ImapDelta -----------------------------
(***************************************************************************)
(* The arithmetic of the IMAP reader's incremental listing                 *)
(* (internal/providers/imap: deltaCreatedMessagesViaGoIMAP, parseDeltaLink *)
(* and buildDeltaLink), which turns a delta link and what the server says  *)
(* into the UIDs to fetch and the next delta link.                         *)
(***************************************************************************)
EXTENDS Naturals

(* A delta link, "uv=<validity>;uid=<uid>".  The empty link parses to zeros; *)
(* a server's UIDVALIDITY is never 0.                                        *)
NoLink == [validity |-> 0, uid |-> 0]
DeltaLink == [validity : Nat, uid : Nat]

(* The last UID the link covers; a new UIDVALIDITY starts over. *)
LastUID(link, validity) ==
  IF link.validity # 0 /\ link.validity # validity THEN 0 ELSE link.uid

(* Is a search worth the while?  A server may not report UIDNEXT (0). *)
MayHaveNew(last, uidNext) == uidNext = 0 \/ last + 1 < uidNext

(* Mutant: the range begins at the last UID that the link covers. *)
Search_fromLast(uids, first) == {u \in uids : u + 1 >= first \/ \A v \in uids : v <= u}

(* UID SEARCH UID first:*, as the server answers it: "*" is the highest UID *)
(* in the folder and a range has no order (RFC 3501), so the mail with the  *)
(* highest UID is always part of the answer.                                *)
Search(uids, first) == {u \in uids : u >= first \/ \A v \in uids : v <= u}

(* Mutants: what was fetched last is the checkpoint, even if it is old; a   *)
(* listing that stopped early is taken for a complete one; UIDNEXT itself   *)
(* is the checkpoint.                                                       *)
Checkpoint_fetched(last, through, complete, uidNext) == through
Checkpoint_always(last, through, complete, uidNext) ==
  IF uidNext > 0 THEN uidNext - 1 ELSE through
Checkpoint_next(last, through, complete, uidNext) ==
  IF complete /\ uidNext > 0 THEN uidNext ELSE IF through > last THEN through ELSE last

(* The UID of the next link: fetched through a UID, and through all there   *)
(* was at the SELECT if nothing failed; never below the last one.           *)
Checkpoint(last, through, complete, uidNext) ==
  LET fetched == IF through > last THEN through ELSE last
  IN  IF complete /\ uidNext > 0 /\ uidNext - 1 > fetched THEN uidNext - 1 ELSE fetched
=============================================================================
