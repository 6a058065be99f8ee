-------------------------- MODULE MailTransaction --------------------------
(***************************************************************************)
(* What the mail transaction promises, without saying how: one contract is *)
(* adopted and kept, sinks are only written to under it, and the source    *)
(* mail is removed from its mailbox, or released from the source queue,    *)
(* only when the contract is met.  Crashes, retries, saves and the order   *)
(* of the targets are not visible here; Coordinator implements this.       *)
(***************************************************************************)
CONSTANTS
  Contracts,   \* records with fields keys, required (sets) and removable
  NoContract

VARIABLES contract, delivered, removed, released, skipped

vars == <<contract, delivered, removed, released, skipped>>

Met == contract # NoContract /\ contract.required \subseteq delivered

Init ==
  /\ contract = NoContract
  /\ delivered = {}
  /\ removed = FALSE
  /\ released = FALSE
  /\ skipped = FALSE

(* The plan of the mail is saved before anything is delivered. *)
Adopt ==
  /\ contract = NoContract
  /\ contract' \in Contracts
  /\ UNCHANGED <<delivered, removed, released, skipped>>

Deliver ==
  /\ \E k \in contract.keys : delivered' = delivered \cup {k}
  /\ UNCHANGED <<contract, removed, released, skipped>>

(* The processor decides that the mail needs no delivery. *)
Skip ==
  /\ skipped' = TRUE
  /\ UNCHANGED <<contract, delivered, removed, released>>

Remove ==
  /\ Met
  /\ contract.removable
  /\ removed' = TRUE
  /\ UNCHANGED <<contract, delivered, released, skipped>>

Release ==
  /\ Met \/ skipped
  /\ released' = TRUE
  /\ UNCHANGED <<contract, delivered, removed, skipped>>

(* The source offers a mail again that is still in its mailbox. *)
Offer ==
  /\ ~removed
  /\ released' = FALSE
  /\ UNCHANGED <<contract, delivered, removed, skipped>>

Next == Adopt \/ Deliver \/ Skip \/ Remove \/ Release \/ Offer

Spec == Init /\ [][Next]_vars
=============================================================================
