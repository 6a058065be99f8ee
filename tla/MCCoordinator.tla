--------------------------- MODULE MCCoordinator ---------------------------
(* Instances of Coordinator for TLC: a route with a required and an optional *)
(* sink, its configuration before and after an edit, and the processes.      *)
EXTENDS Coordinator, TLC

CONSTANTS run, cmd, tmp, archive, backup, mailbox, elsewhere

MCKeys == {archive, backup}

Route(enabled, sameStore, eligible, backupRequired) ==
  [targets |-> <<[key |-> backup, consumer |-> backup, required |-> backupRequired],
                 [key |-> archive, consumer |-> archive, required |-> TRUE]>>,
   enabled |-> enabled, sameStore |-> sameStore, eligible |-> eligible]

(* archive writes back into the source's own mailbox store, backup to disk. *)
Setup(plan, semantics) ==
  [plan |-> plan, sourceStore |-> mailbox, semantics |-> semantics,
   sinkStore |-> [c \in MCKeys |-> IF c = archive THEN mailbox ELSE NoStore]]

SafeMove == Setup(Route(TRUE, TRUE, {archive}, FALSE), "hard")
SoftMove == Setup(Route(TRUE, TRUE, {archive}, FALSE), "soft")
BackupMove == Setup(Route(TRUE, FALSE, {backup}, TRUE), "hard")
CopyOnly == Setup(Route(FALSE, FALSE, {}, TRUE), "unknown")
Moved ==
  [SafeMove EXCEPT !.sinkStore = [c \in MCKeys |-> IF c = archive THEN elsewhere ELSE NoStore]]

EditedConfigs == {SafeMove, SoftMove, BackupMove, CopyOnly, Moved}
MoveEitherWay == {SafeMove, BackupMove}
CopyConfigs == {CopyOnly}

PollKind == run :> "poll"
PushKind == run :> "push"
SharedKind == run :> "poll" @@ cmd :> "reader"
MixedKind == run :> "poll" @@ cmd :> "reader" @@ tmp :> "reader"
=============================================================================
