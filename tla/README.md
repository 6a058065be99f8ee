# Formal models of MimeCrypt

MimeCrypt takes mail from a *source* (an IMAP or Graph folder that it polls, or
a webhook that pushes), processes it (usually: encrypts it) and delivers it to
the *sinks* of a route; then it may delete the source mail.  This directory
holds TLA+ models of the parts of it where a mail could be lost, deleted too
early, delivered without need, or left lying for ever; TLC runs over small
instances; and TLAPS proofs of all their safety properties for instances of
any size.  Around them stand models of what the mail path relies on: one
credential and the processes that share it, the topology file and what the
commands resolve from it, and the goroutines of `run`.  Paths below are relative
to `src/internal`.

## 1. The system

| Component | State it keeps | Operations | Talks to |
|---|---|---|---|
| mail transaction: `mailflow/coordinator.go`, `runner.go`, `file_store.go`, `memory_store.go` | one `TxState` per transaction key (plan, receipts, flags), in a file or in memory | `Run`: load, process, deliver, delete, acknowledge, complete, finalize; a save after each | processor, sinks, source handle |
| push spool: `mailflow/adapters/push_spool.go`, `push_producer.go` | directories `pending`, `processing`, `staging`, marker files `seen` | `EnqueueReader`, `RequeueProcessing`, `ClaimNext`, `PrepareAck`, `FinalizeAck` | ingress handlers (concurrent), one worker |
| polling producer: `mailflow/adapters/provider_polling_producer.go` | state file: delta link, next delta link, pending messages | `Next`, `Acknowledge`, `Delete` | reader and deleter of the driver |
| IMAP driver: `providers/imap` | none (the folder is the server's) | delta listing, fetch, delete; append, reconcile, verify | the server |
| Graph and EWS drivers: `providers/graph` | none | delta listing, fetch; create, move, mark, verify, reconcile | the service |
| webhook ingress: `providers/webhook` | none | `Handle`, `Run` | senders, push spool |
| run lock: `cli/run_lock_unix.go` | lock files and flocks | `acquireRunLock`, `Release` | other `run` processes |
| route loops: `cli/run.go`, `flowruntime/source_executor.go` | one goroutine per source, two more per push source | start-up cycles, polling loop, ingress and worker, shutdown | all of the above |
| token store and its commands: `auth/session.go`, `token_store.go`, `modules/login`, `revoke`, `tokenstate`, `appconfig/local_config.go` | one record and one `config.json` per credential, an MSAL cache in memory | acquire (with refresh), login, import, revoke | identity service, other processes |
| topology, plans, credentials: `appconfig`, `flowruntime/plan.go`, `build.go`, `appruntime`, `cli/config.go` | `topology.json` | load, validate, resolve, edit | all commands |
| processors and content: `modules/encrypt`, `mimeutil`, `mimefile` | temporary files | detect, encrypt, rewrite | gpg |
| audit, health, list, download, CLI texts | append-only log | read-only probes and output | - |

What is hard about it:

* **Crashes.** Nothing is a database transaction.  Delivery, deletion,
  acknowledgement and their records are separate effects, and the process may
  die or be cut off by the cycle timeout between any two.
* **Interleaving without locks.** The spool is touched by concurrent HTTP
  handlers and the worker with nothing but `stat`, `rename` and `RemoveAll`;
  `process` may work on the transaction file that `run` is working on.
* **Stale knowledge.** A listing, a pending list, a UID or a configuration is
  used cycles after it was read, while the user, the server and other processes
  go on.
* **Liveness.** Every error ends a cycle (polled) or the process (pushed) and is
  retried from the saved state; one message that can never pass blocks all
  others behind it.
* **Remote effects.** Writing a mail back takes several requests (create, move,
  mark, look up, verify).  A request whose answer is lost may have been carried
  out, or may be carried out later; a retry has only a search to find out.
* **Loops through the mailbox.** A sink without a folder writes into the watched
  folder, so that its own copies come back as new mail.
* **Two files, several commands.** The token record and `config.json` are changed
  one after the other, by commands that only lock the first, and a running `run`
  keeps in memory what a revoke has removed from the disk.

What makes the parts correct: no mail is deleted or released before its required
copies exist (transaction); what was answered with 202 is kept until it is
delivered (spool); the delta link never covers a mail that was not delivered
(polling); retries converge to one copy, and a deletion never takes the last one
(writers); a lock excludes, only a live holder refuses, and cycles run under the
locks only (run lock, route loops); a token is refreshed by one process at a
time, stays renewable, and can be revoked for good (token store); what two runs
share is under one lock, a login serves the runs that need it, and an edit of the
topology changes nothing else (topology); whatever is accepted or offered is
handled in the end, and a signal ends everything (all).

## 2. The modules

| Module | Models | Role |
|---|---|---|
| `MailTransaction` | - | abstract: one contract, delivered to, removed, released |
| `Coordinator` | `Coordinator.Run` and its callers, 1..n processes | implements `MailTransaction` |
| `CoordinatorProofs` | - | theorems of `Coordinator`, for several processes |
| `TransactionProofs` | - | theorems of `Coordinator` for one process, among them that it implements `MailTransaction` |
| `DurableQueue` | - | abstract: a queue that keeps what it answered for |
| `PushSpool` | the spool, its handlers and its worker | implements `DurableQueue` |
| `PushSpoolProofs` | - | theorems of `PushSpool` |
| `RunLock` | flock and unlink of the lock files, several paths | |
| `ImapDelta` | arithmetic of delta links and UID ranges | operators of `PollingSource` |
| `PollingSource` | polling producer, IMAP reader and deleter, cycles, a live folder | |
| `PollingSourceProofs` | - | theorems of `PollingSource` |
| `Delivery` | processor, write-back of Graph, EWS and IMAP, file and backup sinks, over any number of attempts at one mail | details the sinks that `Coordinator` treats as outcomes |
| `DeliveryProofs` | - | theorems of `Delivery` |
| `RouteRun` | `run` from its locks to its exit: main goroutine, source loops, ingresses, workers | composes `RunLock` (by EXTENDS) with the route |
| `RouteRunProofs` | - | theorems of `RunLock` and `RouteRun` |
| `Credential` | token record, `config.json`, guard, and the processes that acquire, log in, import, revoke | |
| `CredentialProofs` | - | theorems of `Credential` |
| `Topology` | topology file, `config source`, login, resolution of routes, credentials, state files and execution plans | operators for the pure parts, a small state machine for the file |
| `TopologyProofs` | - | theorems of `Topology` |
| `MC...` | constants of the instances | |

How state and actions correspond to the code:

* **Coordinator.** `store` is the file of the transaction, `mem[p]` the
  `TxState` of a running `Run`, `pc[p]` its place.  `landed`/`commits` are what
  the sinks hold, `present` the mail in its mailbox, `offered` its entry in the
  source's queue (the pending list or the spool).  Every effect is one action
  and every `stateStore.Save` another (`Save`, with the place in `pc`), so that
  `Crash` and the `...Fails` actions fall between them.  A failing sink or source
  call may have had its effect or not; a failing save may be in place or not
  (`WriteFileAtomic` renames before it syncs the directory).  `Kind` says what
  the source handle does: `poll` (acknowledging shortens the pending list),
  `push` (acknowledging writes a marker, finalizing removes the message),
  `reader` (the handle of `process`, which does nothing).  `Boot` reads one of
  `Configs`, so a configuration edited between restarts is part of the model.
* **PushSpool.** Handlers (`rpc`, `rkey`, `rlist`) and the worker (`wpc`, `cur`,
  `todo`) take one system call per step; the clean-up of a marker alone takes a
  read, two stats and a removal (`ReadSeen`, `StatEntries`, `RemoveSeen`), and
  works on the list that `ListSeen` has read.  A message directory is a `Contents`:
  absent, whole, or what `RemoveAll` left.  A marker is absent, torn (created,
  not written), fresh or stale; time is the action `Expire`.  The transaction is
  reduced to the state it saves (`tx`).
* **RunLock.** Paths name inodes (`dir`), a flock (`holder`) belongs to an
  inode, descriptors (`fd`) keep inodes after an unlink.
* **PollingSource.** `uid`, `uidNext`, `validity` are the folder; `link`, `next`,
  `pending` the state file; `sel`, `ids`, `got`, `mark` one listing, in the three
  round trips it takes; `tx` what the Coordinator has saved per UID, because the
  transaction key is made of the UID.  `due`, `existing` and `accidents` are
  history: the mails the source owes, those older than its first start, and what
  happened to a listing that makes it offer old mail (section 3).
* **Delivery.** `folder[c]` and `form[c]` say where copy `c` of the mail is and
  whether it is plain, encrypted elsewhere, or bears the mark; `queue` is what the
  source offers; `receipts` what transactions have recorded.  An attempt at the
  first of the queue goes through `process`, `reconcile`, `create`, `move`,
  `locate`, `verify`, `receipt`, `delete`, `ack`, one remote call per step, and
  `Breaks` may end it anywhere.  `TimesOut` gives a request up that `Lands` carries
  out later.  The instance has every configuration of the five sinks and every
  kind of mail, so that one run covers all writers.
* **RouteRun.** `route[p]` holds the phase of the main goroutine (`build`, `first`,
  `loops`, `drain`, `end`), the state of each loop, ingress and worker, and the
  three causes of an end (`stop`: the signal's context, `cancelled`, `reported`:
  the error channel).  What a cycle does to its mail is left to `PollingSource` and
  `PushSpool`.
* **Credential.** `record` is `sessionRecord` reduced to the refresh tokens in the
  cache and in the legacy field; tokens are numbered in the order of their issue,
  `live` are those the service accepts.  `guard` is the mutex plus the flock;
  `pc[p]`/`op[p]` the place and the errand of a process; `mem[p]` its MSAL cache,
  which a `run` keeps between acquisitions.  A load and the save that follows are
  two steps, `config.json` is torn between two steps, and what a death, a failed
  write, a second login or a revoke in between makes of it is `LeaveConfig`.
  `StoreFails` is a failing call of each kind: a save that may be in place all the
  same, a write of `config.json`, a removal.  `mishaps` records the named
  accidents (section 3) so that properties can say which one spoils them.
* **Topology.** A name is a sequence of words, so that the scopes, which join names
  by "-", are concatenations and may coincide.  `disk` says whether the
  topology file is absent, whole or torn, `file` what is in a whole one (`WellFormed`
  is what a file can say, sensible or not); `draft` is the one `config source` is about to save, made from one of
  `Drafts`, of which `rooted` says whether the webhook driver will accept its path;
  `signedIn` the directory that each login has chosen.  Everything a command resolves (route,
  sources, credentials, state files, execution plan) is an operator; a lookup that
  the code answers with an error is an empty set.

Definitions whose name has the form `X_suffix` are mutants: the definition `X`
with a plausible mistake.  Each property has one; with the mistake in place TLC
finds the property violated, which shows that the property says something about
the code.

## 3. The runs

Passing runs (TLC explores the whole state space of the instance):

| Run | Instance | Properties |
|---|---|---|
| `CoordPoll` | one polling `run`, two targets (one optional), five configurations, 3 faults, 1 re-offer | `TypeOK`, `NoRecommit`, `DurableProgress`, `DeleteAfterDurableReceipts`, `ImplementsMailTransaction` |
| `CoordPush` | one push source, 3 faults, 2 repeated deliveries, fairness | `ReleaseIsRecorded`, `EventuallyReleased` |
| `CoordShared` | `run`, a persistent and an ephemeral `process` on one mail, two configurations, 2 faults | `NoLossOnDelete`, `NoSilentDrop` |
| `SpoolSafe` | two deliveries, two request slots, 1 fault anywhere, 1 replay | `TypeOK`, `AcceptedIsKept`, `ImplementsDurableQueue` |
| `SpoolLive` | two deliveries, two request slots, 1 fault anywhere, no replay, fairness | `EventuallyAccepted`, `EventuallyHandled` |
| `PollSafe` | three mails, existing mail included, deletion, 1 fault, 1 removal of any mail, 1 renumbering, SELECT with or without UIDNEXT | `TypeOK`, `PendingHasNext`, `NothingIsSkipped`, `DeletesOnlyHandled`, `LinkNeverMovesBack` |
| `PollLive` | three mails, existing mail excluded, deletion, 2 faults, 2 removals of any mail, fairness | `ExistingIsLeftAlone`, `EveryMailIsHandled` |
| `Delivery` | every sink, configuration and kind of mail, 5 copies, 2 faults, fairness | `TypeOK`, `OneCopyPerMail`, `NeverTheLastCopy`, `ReceiptIsBacked`, `Settles` |
| `RouteRun` | a route of a polled and a pushed source; `run` or `run --once`, and a `run --debug-save-first` beside it; 4 lock files, 1 fault, fairness | `WorkIsLocked`, `NoMutualRefusal`, `RefusedOnlyByLive`, `PollErrorsAreLocal`, `RouteEnds` |
| `CredentialStore` | one `run`, one command, two refresh tokens, with and without an imported token at the start, 1 fault, fairness | `TypeOK`, `RefreshIsSerialised`, `StaysRenewable`, `RevokeIsPossible`, `OnlyMemoryOutlivesRevoke`, `EveryErrandEnds` |
| `Topology` | five hand-written topologies, 24 drafts (12 with a path that the driver refuses), 2 edits, logins at any time | `LocksMatchState`, `LoginServesRuns`, `EditsAreLocal` |

One run, `LockRace`, is one that TLC finds violated: two instances of `run` hold
"the" lock, because the lock file is removed after it is unlocked.  This and the
other disagreements between the code and what its tests, messages or docs say are
quoted in `PROJECT.json` "findings"; three of them have configurations here that
reproduce them:

| Configuration | What TLC finds |
|---|---|
| `SpoolBothDirs.cfg` (`MCPushSpool`) | a delivery that overlapping requests put into pending and processing is stuck after a restart (`AllAreHandled`) |
| `PollStar.cfg` (`MCPollingSource`) | `UID SEARCH n:*` lists a handled mail again, which blocks the source (`NothingGetsStuck`) |
| `PollReuseDelete.cfg` (`MCPollingSource`) | a deletion after a UIDVALIDITY change removes a mail nobody handled (`DeletedWasHandled`) |

`TwoCommands.cfg` (`MCCredential`) is `CredentialStore` with a second command,
without faults and fairness; its 9.3 million states take a few minutes, and all of
its safety properties hold.

### Known counterexamples

The passing runs leave out some situations in which a property they check does
not hold of the code.  Each is one change of constants away; the others stay as
in the run named.

| Situation | Change | Property that TLC then finds violated |
|---|---|---|
| A persistent `process` completed the mail that `run` is offered.  `Run` answers a completed transaction without `Acknowledge` (`mailflow/coordinator.go:45-50`), so the mail stays first in the pending list and the cycle loops over it without a pause. | `CoordPush`: `Procs = {run, cmd}`, both durable, `Kind <- SharedKind`, `MaxFaults = 0`, `MaxCommands = 1`, `MaxReoffers = 0` | `EventuallyReleased` |
| A UIDVALIDITY change: the transaction key has no UIDVALIDITY (`provider_polling_producer.go:121-127`), so a new mail with a used UID takes over the unfinished transaction of another one, and is passed over. | `PollLive`: `MaxValidity = 2`, `MaxFaults = 1`, `MaxExpunges = 0` | `EveryMailIsHandled` |

### Named accidents and exceptions

Some properties hold of the code up to situations that they name.  The passing
runs reach these situations; each was found by TLC before it was named.

`PushSpool`:

| Name | What happens | Property that names it |
|---|---|---|
| `TornMarker` | A crash or a failed write between creating and writing a seen marker (`push_spool.go:347-364`): every later `Enqueue` of the source fails to parse it. | `EventuallyAccepted` |
| `MetaMissing` | A crash inside `RemoveAll` after `meta.json` is gone (`push_spool.go:242`, `157-160`): the remains are requeued, every `ClaimNext` fails on them, and the ingress goes down with the worker. | `EventuallyAccepted`, `EventuallyHandled` |
| `Stuck` | Overlapping requests put one delivery into pending and processing, and a crash follows: it is neither requeued nor claimed. | `EventuallyHandled` |

`PollingSource`:

| Name | What happens | Property that names it |
|---|---|---|
| `starred` (`accidents`) | All mail beyond the link was removed before it was searched for, or SELECT does not report UIDNEXT: `UID SEARCH n:*` then answers the highest mail that the link covers (`imap/client_read.go:69-88`), which is listed as new.  If it is a mail of before the first start, it is *processed*, although `include_existing` is off and nobody touched it; if it was handled, it blocks the list (below). | `ExistingIsLeftAlone` |
| `cut` (`accidents`) | A header fetch fails in the very first listing (`imap/client_read.go:422-427`): the recorded link is below mail of before the start, which the next cycle processes. | `ExistingIsLeftAlone` |
| `HeadIsStuck` | The first pending message cannot be passed: the user removed it before its delivery, so that `FetchMIME` fails at every cycle, or its transaction is completed, so that `Run` does not acknowledge it again.  All mail behind it waits. | `EveryMailIsHandled` |

The history variable `accidents` only records them: after one of them the run goes on,
and the other properties are checked as before.  Removals of mail, crashes and
timeouts are no accidents by themselves.

`Credential` (`mishaps`):

| Accident | What happens | Property that names it |
|---|---|---|
| `dropped` | An acquisition gets in between the export of a device-code login, which takes no guard (`auth/session.go:433-451`), and the login's own `persistMSALToken`, or the login dies there.  It has loaded the record before, or its silent attempt fails, refreshes with the legacy token that is still there, and saves a record without the cache. | `StaysRenewable` |
| `buried` | A token is imported while a `run` keeps an account in memory: its next `persistMSALToken` (`auth/session.go:396-407`) saves over the imported refresh token. | `StaysRenewable` |
| `outlived` | A `run` that keeps the account in memory writes the record again after a revoke; there is no `config.json` any more, so that no command revokes it. | `RevokeIsPossible` |
| `kept` | `revoke` clears `config.json` although `Logout` has failed (`modules/revoke/service.go`); later ones, `--force` included, are refused with "请先执行 login" (`providers/credential_runtime_registry.go:206-209`). | `RevokeIsPossible` |
| `torn` | `config.json` is written by `os.WriteFile` (`appconfig/local_config.go:85`); a crash or a failed write in there (disk full), or two logins that write it at once, leave a file that `login` and `revoke` refuse, on a re-login beside a saved record. | `RevokeIsPossible` |
| `crossed` | Two commands at once: a revoke removes the record between the two saves of a login, or clears `config.json` after another login or import has saved its record. | `StaysRenewable`, `RevokeIsPossible` |

`Delivery`:

* `Settles` is about the configurations and mails of `Convergent`.  The others:
  a sink that writes into the watched folder re-offers its own copies, without
  end if the source mail is deleted, if it was encrypted elsewhere, or if it has no
  Message-ID (with none of these there are exactly two copies); a mail encrypted
  elsewhere fails the verification at every attempt, and each attempt leaves one
  more copy, although the error says that retries converge
  (`createdMessageRetainedError`); so does any mail that the search cannot find on a
  server that does not answer with the new id.  IMAP refuses mail without a
  Message-ID for ever, and so does the processor a mail without recipients.
* `OneCopyPerMail` does not count creations that the server carries out after
  their sender has given up: each can be a copy too many.  The drafts that failed
  moves leave behind are in another folder and stay there.

`RouteRun`: the ingress and the worker of a push source may go on for a moment
after the executor has returned on `ctx.Done` (`source_executor.go:96-98`);
`WorkIsLocked` is about cycles.

`Topology`:

* A file without `default_source` or `default_route` gets them from `config
  source`, which redirects commands without flags that had inferred the only one
  (`EditsAreLocal`).
* `config source` takes any path that is not blank (`providers/webhook/config.go:69`)
  and saves the topology without the driver's validation (`cli/config.go:314-363`).
  If the path does not begin with "/", `loadRuntimeTopology` refuses the whole file
  to every command (`webhook/ingress.go:88`) until another `config source` corrects it.
  `EditsAreLocal` says that a usable file stays usable if and only if the path
  entered (`rooted`) is accepted.  The other fields need no such flag: the prompts
  refuse blanks and negative numbers (`interact/interact.go`).
* `SaveTopologyFile` truncates the file first: a login meanwhile, or after a crash
  in there, sees a file it cannot read and chooses the directory of a machine
  without a topology (`guessed`, `LoginServesRuns`).
* Names are "plain" in the second half of `LocksMatchState`: two sources whose
  scopes become the same file name make `run` refuse itself.

Seen while modelling, and not expressed as a property: `delete_source` enabled with
eligible sinks that are not among the targets never deletes; `delete_source` on a
webhook source passes validation and fails at every mail; a sink with driver
`webhook` or a source with driver `file` passes validation and fails at resolution;
`config source` on an empty file saves a topology without sinks, which is
unusable; `poll_interval` 0 makes `time.NewTicker` panic (`cli/run.go:189`); `run`
and `health` do not apply the `config.json` that a login has saved; the final
`select` of `runRouteLoops` (`cli/run.go:211-225`) may choose the end of the loops
over an error that is waiting, and exit with success; a worker error that wraps
`context.Canceled` ends the worker silently; the IMAP reconciliation reads
`req.MIME`, which the write-back consumer leaves nil.

### Bounds, and why they are enough

`MaxFaults` bounds crashes, timeouts and failed calls together: with three, a
`Run` can be interrupted at each of two consecutive resumptions and fail once
more, which reaches every pair of "resume point, interruption point"; the spool
needs one fault per scenario, because a worker and two handlers already supply
the interleaving.  `MaxReoffers`, `MaxReplays` bound how often an external party
repeats a mail: one repetition after the release and one before it are different
cases.  `MaxReplays` counts requests for a delivery that was answered with 202;
`SpoolSafe` has one.  `SpoolLive` has none to keep it short: within one life of the
process a repetition does what a second request does that was received before the
answer and is slow, and of those there are any number; with `MaxReplays = 1` it takes
three minutes and its properties hold as well.  `MaxCommands` bounds invocations of `process`.  `MaxFiles` bounds created
lock files: a process creates one per path and attempt.  `MaxUID` (three mails)
gives a first, a middle and a last mail: one handled, one pending, one not yet
listed.  `MaxValidity` of two gives one renumbering.  `MaxExpunges` of one or two
lets a user remove one or two mails at any time, listed or not.  Two
targets, one optional, and the configurations before and after an edit cover each
branch of the delete policy.  `MaxCopies` of five is the mail, its copy, the copy of
the copy, and two that faults leave behind.  `MaxTokens` of two gives a token in use
and the one that replaces it (or an imported one and one of a login), which is what
an overwritten record needs.  `MaxEdits` of two lets an edit meet the outcome of
another one.  `Paths` of two gives two processes the chance to hold one lock each,
and one source of either mode.
All runs set `CHECK_DEADLOCK FALSE`: an instance has finitely many mails, faults
and repetitions, and the system rightly has nothing left to do after them.

### Fairness

`run` and the push worker are loops that go on as long as the process lives:
weak fairness of their steps.  The service manager starts the process again
(`compose.example.yml`: `restart: unless-stopped`): weak fairness of `Boot` and
`Start`.  A webhook sender repeats a request until it gets 202: strong fairness of
an unanswered delivery's `Receive`, because the ingress is down at times; this
is an assumption about the sender, not about MimeCrypt.  Nobody is assumed to
invoke `process`, no fault is assumed to happen, and nothing is assumed of users
and servers.

`Delivery`: the source offers a mail until it is acknowledged (`PollingSource`,
`PushSpool`), an attempt goes on because every remote call has a timeout, and what a
server has accepted it carries out some day.  `RouteRun`: goroutines are scheduled,
calls end by their context, and a `select` of Go takes each case that is ready again
and again, at random: weak fairness of the steps, strong fairness of a loop's end
against its ticks.  `Credential`: requests have a timeout and a login ends after
fifteen minutes, so every step but the start of an errand is weakly fair; whoever
waits for the guard gets it if it is free again and again (strong fairness of
`Lock`).  No command is assumed to be started.

Assumptions about an IMAP server: `SEARCH` answers in ascending order;
UIDVALIDITY is never 0 and does not change while the folder is selected; a range
with `*` includes the highest UID (RFC 3501).  An answer to one `FETCH` is taken
as atomic.

## 4. The proofs

Every safety property that a run checks, invariant, action property or refinement,
is also a theorem; `PROJECT.json` "theorems" lists them.

`CoordinatorProofs` proves, for every set of processes, targets, stores and
configurations and for any number of crashes and failed calls, `TypeCorrect`,
`DeletionIsSafe` (`NoLossOnDelete`) and `ReleaseLosesNothing` (`NoSilentDrop`).
Neither safety property is inductive: that a mail was deleted with its copies in
place depends on what the deleting process believed.  The invariant
`DeliveryInv` says that this belief is always true: every receipt, in memory or
saved, stands for a copy in the sink (`Backed`), and a process at `delete`,
`ack`, `complete` or `finalize` has established what that place needs (`Sound`).
It is preserved because copies are never taken back, so a receipt that is copied
from one process to another through the file stays true, even when two
processes overwrite each other's saves.  Assumptions: the named `ASSUME`s of
`Coordinator`, among them that a configuration has a valid plan.

`TransactionProofs` is about a process that has the transaction state to itself:
one process, which keeps it in a file (`Alone`, the hypothesis of its theorems; the
runs `CoordPoll` and `CoordPush` are instances, `CoordShared` is not, and with several
processes the properties are false of the code: two of them overwrite each other's
saves).  It proves `SavedReceiptIsFinal` (`NoRecommit`), `ProgressIsDurable`
(`DurableProgress`), `DeletionIsWrittenAhead` (`DeleteAfterDurableReceipts`),
`ReleaseComesLast` (`ReleaseIsRecorded`, for sources that are not polled) and
`TransactionIsImplemented`, the refinement of `MailTransaction`.  The invariant
joins `DeliveryInv` with `Tracked`: at every place of `Run` it says how far the state
in memory may be ahead of the file, which is nothing at all where an effect
is about to happen, and that receipts are those of an adopted plan.  The refinement
has one step per action: the places between an effect and its save are stutters of
the abstract transaction, and a save that adopts the plan is its first step.

`PushSpoolProofs` proves `SpoolCorrect` (`TypeOK` and `SpoolInv`), and from it
`AcceptedDeliveriesAreKept` and the refinement `SpoolIsADurableQueue`.  That an
accepted delivery is kept is not inductive by itself: the worker's removal must
only hit what is completed.  `SpoolInv` adds what the worker holds when
(`ClaimIsHeld`), what a marker means (`SeenIsDelivered`), what a handler holds
(`HandlersHold`), and that only completed messages are ever incomplete on disk
(`DamagedIsCompleted`).

`PollingSourceProofs` proves every safety property of `PollSafe` and `PollLive`:
`FileStaysWellFormed`, `ListingsSkipNothing`, `DeletionsHitHandled` and
`LinkIsMonotone`, and `ExistingMailIsLeftAlone`.  That the delta link skips nothing is about two round trips of a
listing during which the folder changes, so the invariant `PollInv` follows a
listing through them: what the new link will cover is in the answer of the search
(`AnswerInv`, place `fetch`), then among the messages returned (place `save`), and
what arrives meanwhile gets a UID beyond it (`FolderInv`).  `FileInv` relates the
two links of the state file, `ListingInv` the listing to the link it started
from, and `TransactionInv` says that a message past its delivery has a saved
transaction, which makes a resumed deletion safe.  The parts about UIDs hold
within the first UIDVALIDITY; `PollReuseDelete` shows why no more can be proved.

`UndisturbedInv` is for the last theorem, which has no bound on removals, crashes
and failed calls: every existing mail is in the answer of the first search, then below
its link, or gone; a later listing is of what lies beyond the recorded link, because a
search that would answer a mail at or below it is the accident `starred`, and the
first link is the highest UID of the first answer unless `cut` happened.

`RouteRunProofs` proves, for any number of processes, lock paths and sources of
either mode, that cycles run under all locks (`WorkNeedsLocks`) and that the errors
of poll cycles stay local (`PollErrorsStayLocal`).  `LocksAreHeld` is the invariant
of the lock protocol: an inode has been created under one path only
(`OnePathEach`), so that a process that takes its locks one path after the other
holds a flock on each of them (`HeldIsLocked`), whatever the others unlink.  That
two processes may hold flocks on *different* inodes of one path is what `LockRace`
shows; the theorem claims no exclusion.  `OnlyTheLiveRefuse` (`RefusedOnlyByLive`) adds
the converse, `Ledger`: a flock belongs to a process that has the inode open under a
lock it holds, so whoever is refused is refused by a live process.
`SomebodyGetsThrough` (`NoMutualRefusal`, for at least one process) needs to know *who*
gets through, although files are unlinked and created again meanwhile.  The invariant
`Survivor` follows one process with the first m locks and a date for each path
beyond: what it or any newcomer can open there is younger than the date, who has a
young file finds only young ones behind it, and who gives up has an old one.  When a
process overtakes the survivor, it becomes the survivor.  `RoutesAreSound` says which goroutines there are at
which place of the main goroutine: a loop that works implies `run` and the phases
`loops` or `drain`, so that no path to the exit leaves one behind.

`CredentialProofs` proves, for any services, commands, tokens and faults,
`TypesAreKept`, `OneRefreshAtATime` (`RefreshIsSerialised`) and `RevokedStaysRevoked`
(`OnlyMemoryOutlivesRevoke`).  The invariant `Sound(p)` ties the place of a process to
the guard, to the account in its memory (whoever exports or saves what MSAL
returned has one) and to the record (a legacy refresh saves over the record that it
has read, because only a holder of the guard removes it).  The last part is why no
refresh under way brings a revoked record back.  `CredentialStaysRenewable`
(`StaysRenewable`) and `RecordsCanBeRevoked` (`RevokeIsPossible`) are proved with the
accidents of section 3 as the properties name them, for failed writes of
`config.json` as well as crashes in them.  `PlacesInv` says which errand
may be where and which tokens it carries; `ServedInv` that an account in somebody's
memory goes with a record whose cache serves, except between a login's sign-in and
its first save; `NamedInv` that whoever will save a record finds `config.json`.  What
a step of one process does to the invariants of the others is a lemma
(`OthersStayServed`, `OthersStayPlaced`), since the record is theirs too.

`DeliveryProofs` proves, for every set of configurations and mails and any number of
copies and broken attempts, `TypesAreKept`, `ReceiptsAreBacked` (`ReceiptIsBacked`),
`LastCopyStays` (`NeverTheLastCopy`) and `CopiesAreBounded` (`OneCopyPerMail`).  A
receipt is backed because the attempt that saves it holds a copy that is in place
(`Held`); that copy is not what a deletion takes because the mails that are gone have
a receipt and no other mail with one is left (`Places`); no second copy is made
because an attempt creates one only if the search found none (`Bound`), and the
search sees them all because every copy of a plain mail bears the mark (`Marked`).

`TopologyProofs` proves, for any topologies that an operator may write, any drafts,
any characters that file names replace and any number of edits,
`RunsShareUnderTheirLock` (`LocksMatchState`), `LoginsServeRuns` (`LoginServesRuns`) and
`EditsStayLocal` (`EditsAreLocal`).  The first and the last hold of every well-formed
topology and need no history: paths are compared component by component, and an edit
is followed through every operator that reads the file (`OthersAsBefore`, `SameRuns`,
`SelectionStays`; `StaysUsable` has both directions, for paths that the driver accepts
and for those it refuses).  The second is about histories, and `SignInv` is its invariant: what
a login has chosen is what it would choose today, or the file has been made by
`config source` alone and knows no credentials, in which case all devices look where
a login without a file puts the token.

The named `ASSUME`s of the modules are all that the proofs assume: sentinels such as
`NoOne` are no processes, bounds are numbers, configurations have the type the code
validates.

Only model-checked: the liveness properties `EventuallyReleased`,
`EventuallyAccepted`, `EventuallyHandled`, `EveryMailIsHandled`, `EveryErrandEnds`,
`Settles` and `RouteEnds`, since the prover has no support for ENABLED, on which
fairness rests.  The invariants that the proofs add were checked by TLC on the
instances of the runs before they were proved.

Practical note for those who extend the proofs: with version 1.4.5 of the proof
manager the SMT backend mistranslates `\cap` between two set enumerations; the
proved modules avoid it.  `Op(x)'` primes the argument as well; bind the argument
first (`PICK c \in Keys : c = cur`).

## 5. What is not modelled

The list with reasons is in `PROJECT.json` "components".  In short:

* contents: MIME rewriting, encryption by gpg, headers and addresses appear only as
  outcomes (which mail is encrypted, passed on, refused, or bears the mark);
* the Graph reader: its paging follows the service's links and keeps no state of
  its own; the state that matters is that of `PollingSource`;
* admission of a webhook request (signature, time stamp, size): a pure filter in
  front of the spool;
* audit log, health probes, `list`, `download`, `encrypt`, usage texts: output that
  nothing reads, read-only requests, terminal text;
* prompts, environment variables, URLs and scopes; exit values;
* expiry of access tokens and the scopes they cover: a free choice of outcome in
  `Credential`; the page limit of the Graph search for a processed copy (`$top=10`);
* names of different mails that collide in the file and backup sinks.

## 6. Plan

Done: the transaction, the spool, the lock, the polled source, the writers, the
route loops, the credential, the topology, and the proofs of section 4.  The runs
are kept few; what a run has shown and a proof has taken over is not run again, and
reproductions of findings stay as configurations.  Next, in this order:

1. Proofs: lemmas about the pure operators that nothing rests on yet (`ImapDelta`'s
   ranges and links, the plans that `ExecutionPlan` compiles), and the safety halves of
   the liveness properties: that each waiting state has a step that leads out of it.
2. `Delivery` under `Coordinator`: the sinks of the transaction refined by the
   attempts of `Delivery`, several targets at once.
3. Admission of webhook requests over a clock: the retention of markers against the
   tolerance of time stamps.
4. The Graph reader as a second driver of `PollingSource`: next links in place of
   UIDs, mail that moves out of the folder and back.
