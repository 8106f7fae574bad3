# CenterManager: TLA+ models of the shared data and of what is kept in it

CenterManager is a desktop program that several workstations of a school use on
one encrypted SQLite database. There is no server of its own. The database
travels through a Git repository that every workstation can push to, and two
more branches of that repository carry the coordination between workstations.
This directory holds the specifications of that protocol, of the record that
lets a workstation recover from it, and of the two parts of the application
whose rules span many operations, contracts and money; the TLC configurations
that check them on small instances; and proofs that hold for every instance.

All paths below are relative to `src/CenterManager/src/centermanager/`, those that
begin with `docs/` to `src/CenterManager/`.

## The parts of the system

| Part | State it keeps | Operations | Module |
|---|---|---|---|
| Remote WRITE lock: branch `lock-main` (`platform/synchronization/git_synchronization_provider.py`, `git_clock_skew_guard.py`, `lock_acquisition_diagnostics.py`) | the ref and immutable lock commits; per process the token it owns, the commits it pushed without an answer, the last token it released | acquire, renew, release, observe | `LockLease` |
| Remote WRITE queue: branch `queue-main` (same provider) | the ref and immutable queue commits; the outcome of the last operation | enqueue, refresh, cancel, consume | `WriteQueue` |
| Collaboration manager and poller (`platform/collaboration/collaboration_manager.py`, `poller.py`) | pending request, cancellation asked for, provisional lock, WRITE mode | request, grant, undo, cancel, refresh, renew, release, loss, pause, recover | `Collaboration`, `StaleEditing` |
| WRITE transaction (`services/write_transaction.py`) | state of the editing session, base commit of MAIN, pending version, dirty flag | start, edit, finish, publish, retry, cancel, pause, recover, continue offline | `WriteTransaction` |
| Recovery journal (`platform/write_recovery.py`) | status of the work of the last session, captures, the CLEAN receipt with its fingerprint, the history of earlier journals | begin, preserve, published, released, record, refuse replacement, archive, prune captures, reconcile | `WriteTransaction`, `RuntimeInstall`, `RecoveryRecord` |
| Backups (`services/backup_operations_service.py`, `platform/backup/`) | copies of the live database, with the right to replace it by one | create, restore, publish what was restored | `RecoveryRecord` |
| Recovery outbox and mirror (`services/recovery_change_outbox.py`, `platform/recovery_change_mirror.py`, `recovery_mirror_worker.py`) | a row for each saved operation; a queue of jobs, one worker, its counters; encrypted copies outside the workspace | note, commit, hand over, copy, wait for the worker | `RecoveryMirror` |
| Mutation authority gate (`database/mutation_authority.py`, `guarded_dbapi.py`) | closed, lost, finishing, deadline, incarnation, pending observation and failure | open, observe, latch a loss, require, install permit, close | `MutationGate` |
| Handoff and background synchronization (`platform/sync/authoritative_runtime_sync_service.py`, `write_handoff_runtime_sync_service.py`) | the live files, what is put aside | pin MAIN, quiesce, replace, verify, seal, roll back | `WriteTransaction`, `RuntimeInstall` |
| Startup (`platform/sync/startup_sync.py`, `startup_install_replay.py`, `manual_review_backup.py`, `offline_read_gate.py`, `app.py`) | marker and copies of an interrupted installation, archives, the receipt of this boot | replay, fetch, archive, reset, capture, install, record, roll back, attest, read offline | `RuntimeInstall` |
| Contracts (`services/enrollment_service.py`, `enrollment_transfer_service.py`, `enrollment_reconciliation_service.py`, `tuition_accrual_service.py`, `class_service.py`, `session_service.py`, `attendance_service.py`, `student_service.py`) | enrolments with their ranges, boundaries and freezes; the sessions of a class; who was excused | enrol, withdraw, complete, restore, freeze, resume, transfer, reconcile, archive a class, hold, change or cancel a session, mark attendance | `Enrollment` |
| Money (`services/finance_period_service.py`, `financial_settlement_service.py`, `finance_ledger_guard.py`, `income_service.py`, `expense_service.py`, `tuition_adjustment_service.py`, `models/finance_period.py`) | configurations of periods, settlements with their saved totals, rows of income, expense and adjustment | configure, settle, reopen, create, change, void, refund, credit, link, reconcile | `FinancePeriod`, `FinanceLedger` |
| Files of rows (`services/employee_document_service.py`, `finance_attachment_service.py`, and their part in publication and startup) | files in the runtime and in the repository | upload, attach, hide, mirror, stage | `Attachments` |

How they interact:

- The collaboration manager takes the lock and the queue through the provider;
  the two refs are changed by separate compare-and-swap pushes.
- A granted request makes the WRITE transaction pin MAIN, replace the live
  database by it (handoff), open the journal and then the mutation gate.
- Every statement and commit of a database connection asks the gate. The poller
  and the interface thread feed the gate what they observed of the lock.
- Finish saves and copies the database, pushes MAIN fenced on the base commit,
  and only after MAIN was observed turns the journal into a CLEAN receipt.
- Every replacement of live files (startup, handoff, background) asks the
  journal whether the files may be replaced.

- An operation saved under the gate writes its rows, a row of the outbox and
  its audit in one database transaction; the row is mirrored after the commit.
- What a contract owes is derived each time from the sessions of its class, and
  payments, credits and refunds are compared with it.

What is hard here, and which module has it:

- *Concurrency.* Workstations compete for two refs; inside a process the
  interface thread, the poller and workers share a mutex and the gate's lock,
  and let go of the mutex during a handoff (`Collaboration`, `MutationGate`).
- *Unknown outcomes.* A push may land with its answer lost, or land after the
  client has given up (`LockLease`, `WriteQueue`, `WriteTransaction`).
- *Time.* Leases are compared with clocks that differ between machines; an
  observation is old when it is applied (`LockLease`, `WriteQueue`,
  `MutationGate`).
- *Crashes* between the replacement of two files, between the push and its
  receipt, with a provisional lock in hand (`RuntimeInstall`,
  `WriteTransaction`, `Collaboration`).
- *Records that outlive a session*: an edit is lost only if the journal, the
  retention of captures, a restore and a startup agree to it, several sessions
  apart (`RecoveryRecord`).
- *Rules about the past*: what was owed or totalled for a closed period follows
  from rows, sessions and configurations that may all change later
  (`Enrollment`, `FinanceLedger`).
- *Data that travel by different roads*: rows in the database, files beside it
  (`Attachments`).

`PROJECT.json` lists every part of the repository, these and the ones that are
not modelled, and every hazard with the line where it bites.

## Correctness, part by part

| Part | What makes it correct |
|---|---|
| Lock | one valid lease at a time; a lease ends by its owner, its expiry and grace, or a restart; a lease never goes back |
| Queue | a request waits once, in its place; a cancelled one does not come back; waiters leave in turn |
| Collaboration | one session writes at a time and only after it asked; no request without its owner, no lock taken back under a writer, no grant after a cancellation, whoever waits is served |
| Transaction | no edit is lost, CLEAN means published, lost authority is not published, MAIN is one line of whole transactions |
| Gate | nothing is admitted after the lease or after a known loss; a commit belongs to the session that made its statements; a finish and an installation find nobody inside; the interface goes on |
| Installers | what is opened is one whole database, all of MAIN or the accepted cache; unpublished work has a copy, an interrupted workstation opens again |
| Files | MAIN is complete, every shown voucher can be opened, none disappears |
| Recovery record | what may be replaced is in MAIN or in a capture; no edit disappears over any number of sessions |
| Outbox and mirror | a copy is of a committed operation and stays; Finish does not vouch for what was refused or failed; the queue clears |
| Contracts | one active contract of a student in a class, none in an archived class; no transition of a contract rewrites what it owed |
| Money | one period for a date; no operation on rows moves money into or out of a confirmed period; a row counts once; a credit keeps the payment it was given with |

## Modules

Each variable and action carries the name of the code it translates, or a
comment that names it; `PROJECT.json` maps every definition to its lines.

### LockLease

`ref` is the lock branch, `objects` the lock commits, `pushes` the pushes the
server has not processed. `owned`, `pendingTokens` and `released` are the
three fields the provider keeps in memory. `AcquireBegin`, `RenewBegin` and
`ReleaseBegin` prepare a commit against the OID that was read; `PushArrives`
applies any push in flight if the ref is still the expected one, whoever waits
for the answer; `Verify*`, `Renew*` and `Release*` read back. `LockCrash` forgets
the memory and leaves the pushes. Machine clocks are offsets of `now`.

### WriteQueue

`commits` and the ref as above. One operation is a sequence of attempts
(`Attempt`, `PushArrives`, `Confirmed`, `Retry`, `GiveUp`) over a pure mutation
(`Mutated`) of the list the reader sees (`Live` drops what is stale by its
clock). The retry limit is the constant `Retries`. Entries without a timestamp
or a sequence number, written by older versions, are left out.

### Collaboration

The procedures of the manager as stages of `run[s]`: request (enqueue, read
back), grant (head, take, recheck, guard, consume, verify), undo, cancel,
refresh, renew, release. A remote write has one of three outcomes: confirmed,
landed unseen, or still on its way (`lockPushes`, `queuePushes`). `GuardReturns`
is the moment at which the mutex was free and the user may have cancelled.
Commit names `Ids` are reused once nothing refers to them.

`ExclusiveWrite` is what the manager promises, without the refs: a session asks,
enters when nobody writes, leaves; or it calls its request off and that is
completed. `OneWritesAtATime` is the refinement `ManagerSpec => ExclusiveWrite!Spec`
with `phase <- PhaseOf`: a session is `writing` while it writes on a lock it has not
forfeited (its lease runs and it has not asked for the deletion), `stopping` from
the wish to cancel to its completion, `asking` while its request is pending.

`StaleEditing` extends `Collaboration` by the pause of an edit (EDITING_STALE) and
its recovery, which takes up a live lock of its own session outside the grant.
It is a module of its own because this is where the promise fails (Findings): what
is checked and proved of `Collaboration` is about the manager whose WRITE mode comes
from a grant.

### WriteTransaction

`tx[s]` is `_state`; `journal`, `runtime`, `saved`, `head` and `base` are the
journal, the live database, captures and archives, the local repository and
`_base_main_commit`. The lock is what `LockLease` proves of it: at most one
valid lease, which may end at any time. `flying` holds pushes of MAIN that may
still land. `SharedHistory` is the abstract specification (a history to which
whole transactions are appended, each once); `OneHistory` is the refinement
`WriteTransaction => SharedHistory!Spec` with `history <- main`.

### MutationGate

One process. `gate` has the fields of the gate, `locker` who holds its lock over
more than one step, `obs` the observation each observer thread carries, `handle`
what each database connection is doing, `ui` the interface thread inside
open, finish, pause, cancel and release. A renewal holds the mutex of the collaboration
manager from its read of the remote lock until the gate has been told (`mutex` of `obs`);
`Leave` needs it. One clock stands for the monotonic and the wall clock. `doomed` is
history: the present session, once its loss was latched.

### RuntimeInstall

One workstation, file by file. `live` gives the content of each file (the
generation it came from and the work done since), `marker` the copies of
`startup-install.pending.json`, `aside` what a running installer holds, `review`
the archives, `boot` what this startup has decided. `StartupMoves` and
`HandoffMoves` list the replacements in the order of the code; one action moves
one file, and a crash, a failed step, a commit of another workstation and the
loss of the network fit between any two. Editing and publication are reduced to
what they do to the files.

### Attachments

Rows (`data`) and files (`folder`) of employee documents and finance vouchers, and
the `commits` of MAIN with both. Documents are mirrored at publication, vouchers
only added; startup brings the documents of MAIN, a handoff brings the database
alone. The lease and the fenced push are reduced to what `WriteTransaction`
shows of them.

### RecoveryRecord, RecoveryMirror, CommittedLog

`RecoveryRecord` is one workstation over many editing sessions. An edit is
`<<session, number>>` and a database is the set of edits in it. `journal` is the
journal or the receipt it has become, `accepted` the database that receipt
answers for, `history` what the journals of earlier sessions said when they were
archived, `captures` the copies with the session each was made in. `Begin`
archives and installs a journal, `Open` takes the first capture and deletes old
ones (`Prunable`, any part of which may fail), `Published` to `Released` are what
the journal learns of a publication, `Stop` is an exit or a crash, `Reconcile`
the command of an operator, `Synchronize` and `ManualReset` the startups that
replace the database. `Restore` exchanges the database for a backup after a
safety backup, `RestoreTorn` dies in the exchange, `RestorePublished` makes the
restored database MAIN.

`RecoveryMirror` extends it: `Note`, `Commit` and `Rollback` are a transaction
with its outbox row, `HandOver` what follows the commit, `Take` to `Complete` the
worker, `DrainStart`, `DrainDone` and `DrainExpires` the barrier of Finish. Finish
waits in the thread of the interface, so that of the record's other steps only a loss
of authority and a push that is on its way come in between (`Beside`). Every
step of it is a step of `RecoveryRecord` or leaves the record alone
(`MirrorImplementsRecord`), and with `committed <- outbox` and `copied <- copies`
it implements `CommittedLog`, a log and a copy that grow and hold nothing else.

### Enrollment

`contract` are the enrolments, in the order of their identities, with the range,
the withdrawal boundary (`wd`), the end date and the freezes of each; `lesson[c][n]`
is session `n` of class `c`; `excused` the attendance rows that matter.
`Boundary`, `EffectiveRange` and `OverlapsHistory` are the helpers the operations
share, `IsBillable` and `Accrued` the rule by which a session is owed. `Transfer`
ends one contract and makes another in one step, `ReconcileDuplicates` sets a duplicate
aside, `ArchiveClass` ends what is active. `Duplicate` is an initial state in which
a withdrawn contract lies under an active one, as an earlier release could leave it.

### FinancePeriod and FinanceLedger

`FinancePeriod` is the calendar: dates as numbers of 31 to a month, `AddMonths`
with its clamp at the end of a month, the period of a date under a configuration.
Nothing of it is a variable. `FinanceLedger` has `configs`, `settlements`
(`confirmed`, with the rows of income and expense that the saved totals sum),
`incomes`, `expenses`, `adjustments` and `merged`. `Mutable` and `IncomeMutable`
are the questions of the ledger guard; every action asks those its operation asks,
of the dates it asks them of. `PaymentWithCredit` writes a payment and the
discount given for it in one transaction; `KeepsCredit` is the check behind a
change of that payment. `Due` is what `Enrollment` calls `Accrued`, as an amount.

### How the modules fit together

`LockLease` and `WriteQueue` have the refs in detail. `Collaboration` composes
the two, with the three outcomes of a push in place of the pushes themselves.
`WriteTransaction` composes lock, journal, live database and MAIN over several
workstations, with one atomic step per installation; `RuntimeInstall` opens
that step up for one workstation, and `MutationGate` opens up the statement and
the commit. `Attachments` adds the files to the commits of `WriteTransaction`.
`RecoveryRecord` follows the journal of one workstation over many sessions,
where `WriteTransaction` follows each session over several workstations and
deletes nothing; `RecoveryMirror` adds what happens inside the saving of an edit.
`Enrollment` and `FinanceLedger` are what is edited: they rely on one user at a
time, which is `LockLease`, and on an operation being one database transaction,
which is `MutationGate`.

## Runs

`MC<...>` gives the instances; the `.cfg` files give bounds. Every constant
called `Max...` is a bound of the model and not of the code. A run over components
that share no variable (`publication`, `tuition`) takes one of them per behaviour and
leaves the others as they began.

| Run | Question | Instance, and why it is enough |
|---|---|---|
| `publication`, the lock | `LeaseExclusion`, `TenuresEndProperly`, `LeasesOnlyExtend` | two machines whose clocks differ by the whole grace, three lock commits, four instants with a lease of 2 and a grace of 1: a lease is taken, renewed, lost and taken over, with late pushes of each; the machine that is ahead takes over at the earliest moment, when the lease just ends by the owner's clock. A takeover in the other direction comes later than any lease and is left to the theorem. 1.4M states |
| `publication`, the transaction | `WorkNeverLost`, `CleanIsPublished`, `LostIsNotPublished`, `OneHistory` | two workstations, two transactions of two edits, three commits of MAIN, one fault: a publication races another one's handoff, startup and recovery. 1.9M states |
| `publication`, the files | `VouchersTravel`, `VouchersOpen`, `VouchersKept` | two workstations, one document, one voucher (the theorems have any number), three commits: each workstation publishes over the other's commit from a tree that has not the voucher. 51k states |
| `write_queue` | `CancelIsFinal`, `OnePerSession`, `FirstComeFirstServed`, `WaitersLeaveInTurn` | two sessions, requests of one priority (`Priority.from_role` gives several, which the model and the theorems have), four commits, two attempts: an operation loses once and starts over, a request goes stale by one clock and not by the other. 4.5M states |
| `collaboration` | `NoGhostRequest`, `WriterKeepsLock`, `OneWritesAtATime` | two sessions and two faults (an unknown outcome, a crash or a handoff longer than the lease): one fault inside the undo of another. 1.5M states |
| `collaboration_served` | `WaiterServed` | the same with one fault, under fairness. 322k states |
| `collaboration_recovery` | `CleanupIsNotWrite`: violated, see Findings | two sessions, two faults |
| `mutation_gate` | `LeaseCovers`, `CommitsInItsSession`, `NobodyElseInside`, `LossIsFinal`, `LossTakesEffect`, `InterfaceGoesOn` | two connections, two observers, two editing sessions, a lease of one tick: observations of the first session are delivered in the second, and the poller holds the mutex of the manager while it waits for the lock of the gate. 491k states |
| `attachments_documents` | `DocumentsTravel`: violated, see Findings | two workstations, two documents |
| `runtime_install` | `Whole`, `WorkKept`, `StartsOnMain`, `OpensAgain` | two pieces of work, three commits of MAIN, three faults: a crash in a replay of the rollback of an installation. 470k states |
| `offline_start` | `OfflineOpens`: violated, see Findings | one commit of MAIN, and the network is lost once |
| `recovery` | `ReplaceableIsSafe`, `WorkKept`, `DrainIsHonest`, `MirrorIsLog`, `FullQueueClears` | a workstation that begins with a receipt, then a session of two edits and two more sessions or resets, four captures of which the newest session's are kept, two backups, a queue of one job: a restore ends in a receipt of its own, so only the retention of the session after it can delete the captures of what was restored over. 1.9M states |
| `tuition` | `OneActive`, `ArchivedIsEmpty`, `HistoryKept`, `PeriodsDisjoint`, `ClosedPeriodKept`, `CountedOnce`, `CreditKeepsPayment` | five operations on contracts or six on money. Contracts: one student, classes of two sessions and of one, three contracts, two dates, from nothing or from a duplicate of an earlier release: enrol, hold a session, withdraw, be restored, be transferred. Money: two contracts, 10 January, 25 January and 20 February, periods of one month, two rows and two adjustments of one unit: a period of January is settled, a configuration is added or ended before, inside or after it, a row moves over its boundary. 938k states |
| `ledger_retroactive` | `SnapshotKept`: violated, see Findings | the same money with one row |

Types are proved and are checked by no run of their own. Deadlock is not checked
where the bounds on time, commits, transactions or operations stop the model.

### Fairness

- `Collaboration!FairSpec`: each session's procedure in progress goes on, its
  timers (refresh and grant, both of the poller thread, which runs until the
  process ends) fire, leases and the requests of the dead expire, editing ends
  some day, and a data synchronization that is tried again and again succeeds at
  last. Every remote call has a timeout. The grant is strongly fair because one
  thread serves both timers, and a poll that is due while a refresh runs comes
  before the next refresh.
- `MutationGate!FairSpec`: a statement or a commit that runs ends, an
  installation ends, a read of the remote lock ends (each git command has a timeout),
  and the observer that has found the lock busy tries again (a loop in
  `mutation_authority.py`). The interface thread gets the lock of the gate when that
  stays free (weak fairness of `PauseCloses`, `FailureCloses`), and the mutex when it is
  free again and again (strong fairness of `Leave`): the poller renews every few seconds
  and lets go of it in between. Nothing is assumed of users or the clock.
- `RuntimeInstall!FairSpec`: a startup and a handoff that run go on, the user
  starts a refused program again and closes a fenced one, and the network comes
  back. Faults and commits of others are bounded, so they do not repeat for ever.
- `RecoveryMirror!MirrorSpec`: the worker, a thread that takes a job whenever
  there is one and whose jobs end (each is one file). Saving, Finish and the end
  of the process are not fair.
- Nothing else is fair: in the other modules any process may stop for ever.

## Theorems

TLAPS checks them for any sets of sessions, requests, threads, documents,
vouchers, work, students, classes and contracts, any lease, grace and clock
offsets within the stated assumptions, and any bounds.

**LockLeaseProofs** (`TypeCorrect`, `Exclusion`, `TenureEnds`, `RenewalsExtend`). Assumed: clocks
of two machines differ by at most the grace (`ClockAssumption`), which is what
the tolerance of 600 s is there for. `LeaseExclusion` is not inductive: it says
nothing of the pushes on their way. The invariant adds what each of them was
prepared against (`PushesSound`): a takeover when the contender's clock was past
the expiry by the whole tolerance, so the owner's clock was past it too; a
deletion of a commit its own session asked to delete; a renewal for a later
commit of the same session. `ExpiryBound` and `ExpiryOrder` make that enough,
`TokensOwn` says that tokens are about commits of their own session, and
`HoldersProtected` that the lock of a session with a valid lease is in place.
`RenewalsExtend` needs of it only what a renewal on its way was prepared against:
a late one finds the ref changed and does not land on a later expiry.

**WriteAccessProofs**, the queue (`TypeCorrect`, `CancellationFinal`, `WaitsOnce`,
`EarlierStaysEarlier`, `NobodyJumpsTheQueue`). Assumed:
clocks differ by at most the tolerated skew. `CancelIsFinal` is not inductive
because a push on its way could bring a request back. The invariant says that a
push lands only on the ref it was prepared against and a commit becomes the ref at
most once (`PushesFresh`), that sequence numbers are bounded by the number of the
commit, that every commit has one entry of each session (`CommitsOneEach`), and
that once the commit of a cancellation has landed nothing that can still land
holds the request (`SettledGone`). For the order of the queue, what is decided when
a push is prepared happens when it lands: `InTurn` says of each push what the two
properties say of the step that lands it, and neither the passing of time nor a
cancellation can make it false. `Stamped`, that an entry is never older than its
request, excludes that a request that went stale comes back in an earlier place.

**WriteAccessProofs**, the manager (`ManagerTypeCorrect`, `NothingLeftBehind`,
`LockStays`, `CancelPreventsGrant`, all from `ManagerInvariant`). None of the
properties of `Collaboration` is inductive because of what is on its way. A late
queue may bring a request back: `Cleared` says that no queue that may still land
has it, from the moment its removal is confirmed (`ClearedInTime`), and only
`Enqueue` of that session could add it again. A late push may take a granted lock
away: each was prepared against the lock that is there, or against none, under a name
of its own, and against a valid lease by its owner only (`PushSound`); and the owner
has a deletion of its live lock on its way only while it means to give it up or has
not yet undone an earlier attempt (`DeletionAsked`), which the rollback before every
grant ends. `Intent` ties what a session wants, and that a cancellation excludes most
stages of a grant, to the stage it is in. Assumed: the mark for no owner is no session.

The same invariant carries `OneWriter`, the refinement of `ExclusiveWrite`, with three
more facts (`Bookkeeping`): only a writer can be forfeited, a writer asks for nothing
and takes nothing back, and a session that takes its request back has noted that it
means to. `LockMeansAlone` is the heart of it: whoever holds the live lock is the only
one that can be in phase `writing`, because a writer that is not forfeited holds it
(`WriterKeepsLock`). Then each action of the manager moves the phase of one session as
an action of `ExclusiveWrite` does, or of none (`PhaseMoves`, `ExclusiveStep`); the end
of a lease takes its writer away. `CancelPreventsGrant` is a part of it that has its own
proof and no run: a session whose cancellation is pending is not granted.

**MutationGateProofs** (`TypeCorrect`, `LeaseAlwaysCovers`, `CommitsStayInSession`,
`NobodyInside`, `LossFinal`). The inductive invariant is
`TypeOK /\ Evidence /\ Locking /\ Told /\ Sessions /\ Finishing /\
CommitsInItsSession /\ InstallIsAlone`. `Evidence` says that no deadline, queued or
in the hands of an observer, is later than the end of the lease that is known
now, and that while the gate is open the lease is ours until it ends, so that a
late or reordered delivery shortens and never lengthens; `Locking` ties the lock
of the gate to the stage of a connection; `Told` says that a session in `doomed`
is not open or has the failure latched; `Sessions` that the gate is closed outside
a transaction and while the interface thread gives the lock back; `Finishing` that since the finisher
was set under the lock no other connection is inside.

**AttachmentsProofs** (`TypeCorrect`, `VouchersAreInMain`, `VouchersCanBeOpened`,
`VouchersStay`). The invariant adds `Growing` (an older commit has no voucher the
newer ones lack) to the three properties: a session that publishes over an older
base would otherwise not be known to keep what came since. `TypeOK` carries that
only the holder of the lease edits, which is why the base of the writer is the
newest commit.

**WriteTransactionProofs** (`TypeCorrect`, `WorkSurvives`, `CleanMeansPublished`,
`LostNeverPublished`, `OneHistoryKept`, from `Invariance`). MAIN only grows
(`MainGrows`) because what is published is the newest version and one transaction
more: `InHand` says that a session which has begun and not yet pushed has the version it
started from, all of its transaction and nothing else; `FlyingWhole` says the same of a
push that may land after its session gave it up. `Numbered`: the edits of a transaction
have no gaps, so that whole means all of them. No edit is lost because a live database is
replaced only where the receipt accounts for all of it or startup has archived it
(`Prepared`), so every edit that leaves the live database is in MAIN or in a copy.
`LostNeverPublished` needs `FinishSees`: Finish never overtakes a loss of the authority.
The refinement is a step simulation of `SharedHistory`: saving a
version prepares a transaction (`SaveSaves`), a push that lands appends it
(`LandingPublishes`), everything else stutters.

**RuntimeInstallProofs** (`TypeCorrect`, `WorkIsKept`, `OpenedWhole`, `EndsOnMain`).
`WorkKept` says that the live files, MAIN and the archives hold all work, and an
installer overwrites live files: it is not inductive. `Copies` adds that from the
decision to replace until the end of the rollback everything live, copied or put
aside is published or archived; `Receipts` why a receipt entitles an installer to
begin (it names files without work, and without a receipt there has been no
work); `Contents` covers the manifest, which no receipt names. `Overwriting` and
`PuttingAside` then settle every step that moves a file at once. `Installed` and
`Handed` say how far a startup and a handoff have come, which is what `Whole` and
`StartsOnMain` need.

**RecoveryProofs** (`NoWorkLost`, `ReplaceableSafe`, `MirrorImplementsRecord`,
`MirrorRefinesLog`, `DrainHonest`). `WorkKept` is not inductive: retention deletes captures, and
a replacement deletes what is live. `Accepted` says what a receipt speaks for:
MAIN, unless a restore has come between, and then all of MAIN and of the live
database is in the backups. `OwnCaptures` and `OldHistory` are why retention may
delete: captures of the present session hold nothing that is not live or kept,
and those of a session the history calls CLEAN hold nothing that is not in MAIN,
archived, backed up or reviewed. `OwnHistory` carries the one to the other when a
journal is archived. The two refinements are step simulations; the first gives the
composition every theorem of the record. `DrainIsHonest` is about counts, not rows:
Finish compares numbers of completed and submitted jobs. The invariant gives every
job that waits a place (`Places`), a number after those its session has completed or
has in the hands of the worker (`Reached`) and not after those submitted; a row the
barrier is about has a place up to its target, and a row that was handed over is
copied, counted as failed, or still to be tried (`HandedAccounted`). So when the
target is reached and nothing has failed, no row of the barrier is left untried.

**TuitionProofs**, contracts (`EnrollCorrect`, `AtMostOneActive`, `ArchivedKeepsNobody`,
`PastIsKept`). The invariant adds to the two state properties that an active
contract has no boundary, no end date and was not set aside. `PastIsKept` then
needs that the end of a contract puts its boundary behind every completed session
of its range (`BoundaryBehind`), so that nothing owed is cut away.

**TuitionProofs**, money (`LedgerCorrect`, `NoAmbiguousDate`, `CreditKeepsItsPayment`,
`ClosedStaysClosed`, `SavedIncomeStands`, `RowsCountOnce`).
`PeriodsDisjoint` is not inductive, since a new configuration cuts short only the one
that covers its first date: the invariant says that each configuration ends before
the next begins (`Ordered`). All theorems allow configurations that begin or end
before recorded rows and inside confirmed periods, and hold for every calendar,
duration and date. What survives such a configuration is less than what the
documents of the ledger ask (`SnapshotKept`, see Findings), and the theorems say how
much: the guard of an income asks for the period stored in its row and sums select
incomes by it, so no operation at all changes the income of a confirmed settlement
(`ClosedStaysClosed`), which stays the one that was saved (`SavedIncomeStands`). The
guard of an expense asks for the period its date has today, so the expense stands as
long as the dates of the settlement still have its period. `RowsCountOnce`: an income
counts in the period of its date or, when a later configuration has taken that date
over, in none; nothing counts in two. Both rest on `SamePeriod` (every date between
the first and the last of a period is given that same period, though months differ
in length and the 31st is clamped) and on each active income being posted to a
period that some configuration, ended or not, gives its date.

The proofs of a step have one case per action. What stays with TLC: liveness
(`WaiterServed`, `LossTakesEffect`, `InterfaceGoesOn`, `OpensAgain`, `FullQueueClears`), which needs
fairness and ENABLED, and the findings, which are counterexamples. Every
invariant and every action property of a passing run is also proved.

## Findings

*Employee documents leave MAIN* (`attachments_documents` ends in a
counterexample). A handoff brings the database and not the documents; the next
publication mirrors a tree that lacks them. `PROJECT.json` quotes the lines.

*A recovered edit writes on a lock that is being given back* (`collaboration_recovery`
ends in a counterexample). An edit is paused and its lease is over. The user recovers
it; the lock is taken but the answer is lost, and so is the answer to the cancellation,
so the lock stays provisional and the cancellation pending. The user presses again:
the remote shows a valid lock of this session, the renewal answers True because the
manager is not in WRITE mode (`collaboration_manager.py:851`), the gate opens, and the
check of the lock it makes sets WRITE. `docs/collaboration/E1A_WRITE_STATE_QUEUE_SAFETY.md`
(`:52`, `:98`) says that a provisional lock never shows as WRITE. In the same model TLC
finds `WriterKeepsLock` to fail, when the deletion the cancellation asked for lands
under the open edit, and then a second session that writes; the publication of the
first one is still fenced by the lock and by MAIN (`LostIsNotPublished`).

*A workstation without a network does not open its cache* (`offline_start` ends in a
counterexample). Startup cannot fetch MAIN, finds the runtime as its CLEAN receipt
says, and decides to show it for reading. Before the login `main()` renews that receipt
on every start (`app.py:203`), which takes an observation of MAIN at the commit of the
receipt (`write_recovery.py:770`); there is none, and the start is refused until the
network is back. The acceptance test of the feature
(`docs/qa/STARTUP_FIX_01_OFFLINE_READ_UAT.md:14`, `:37`) has the application open.
`StartsOnMain` keeps the two cases apart: a startup that reached MAIN opens on it,
one that did not (the network came back between its decision and its receipt) shows
the files of the receipt.

*A configuration inside a confirmed period opens it to expenses* (`ledger_retroactive`
ends in a counterexample). The period from 10 January is confirmed, a configuration
from 25 January takes its dates from there on, and an expense on 25 January is
accepted: the guard asks for the period the date has now (`finance_ledger_guard.py:58`).
`configure` and `deactivate` (`finance_period_service.py:128`, `:180`) look at no
settlement and no row; `docs/finance/FINANCE_WALLET_V2_DOMAIN_SPEC.md:194` has a confirmed
settlement close its period. The income side is F-21 of
`docs/finance/FINANCE_WORKSPACE_AUDIT_PASS3_2026-09-23.md:47`: such an income stays in the
saved total and leaves the totals of today (`CountedOnce` says where it counts).

## Seen while modelling

What the code does beside what a text of the repository says, for which there is
no run, most of it in an action that the module keeps and its properties survive:

- *Idle release.* `write_transaction.py:471` releases an idle session with "No
  unpublished work", and `_has_changes`, which it asks (`:474`), is set by some kinds
  of edits only (`_connect_domain_events` in `ui/main_window.py`). The edits stay in
  the live database and the journal refuses to have them replaced.
- *Failed publication.* `main_window.py:1099` offers to retry, and `retry_publish`
  (`write_transaction.py:1106`) needs a pending version that every way into FAILED has
  cleared. "Changes will be published later" (`main_window.py:1153`) has no code.
- *Restore over the work of others.* A restore publishes with `publish_only` and no
  expected commit, so the fence is whatever MAIN is at that moment
  (`git_synchronization_provider.py:1341`) and the push is forced from the local head
  (`:1162`). A commit that another workstation published since the last
  synchronization leaves MAIN and is in no backup of this workstation.
  `recovery_publisher.py:8` speaks of an optimistic check of MAIN. `RecoveryRecord` leaves other
  workstations out.
- *Reconciled work.* After an operator reconciles, the next synchronization records
  CLEAN for the same session (`record_synchronized`, `write_recovery.py:830`), and retention
  may later delete the capture that was the only copy, against "no only-copy deletion"
  (`:350`). `WorkKept` excepts what was `reviewed`.
- *Rows that are not handed over.* An exception while one row is mirrored drops the
  remaining rows of that commit (`HandOverFails`); neither a counter nor the barrier
  knows of them, so QUEUE_DRAINED speaks only for rows that were handed over.
- *Ranges of contracts.* `docs/archive/sprint-reports/PR_I_ENROLLMENT_RESTORE_REENROLLMENT_GUARD.md:17`
  has no two contracts of a student in a class overlap; a transfer does not look at the
  history in its target class, and moving a session's date or undoing its completion
  moves a boundary afterwards. What is checked is `OneActive` and `HistoryKept`.
- *End of the month.* `bounds_for` (`models/finance_period.py:104`) clamps each boundary to
  the length of the month, so a configuration that starts on the 29th to the 31st may
  leave days that resolve to no period; `Resolves` has it, and an operation on such a day is
  refused.
- `update_class` changes the plan and the capacity of a class without looking at its
  contracts; in `Enrollment` both are constants.
- A lock candidate that was pushed against an absent ref can land after a later
  lock was released, which makes the ref absent again; the comment at
  `git_synchronization_provider.py:894` says older candidates cannot.
  `LockLease` has the step; it takes a commit's lease from its own record, so
  exclusion is not at risk.
- A cancellation completes while an acquisition that was read as absent is still
  on its way (`collaboration_manager.py`, `_ungranted_lock`), against the docstring
  of `reconcile_waiting_request`. `Collaboration` has the step; the late lock
  blocks others until its lease is over.
- `recover_stale_editing` compares MAIN with its base before it takes the lock
  again and not after. Another session may publish in between; the fence at
  publication then refuses the work as a conflict. `WriteTransaction` has the step.
- `enter_finishing` assigns the state after a network call that follows its check,
  and may overwrite RECOVERY_REQUIRED. The gate, not the state, decides: `LossIsFinal`.
- When the installation of the database fails in a startup and its own rollback
  fails too, the backup was never recorded, and the marker is removed although the
  live file was not restored (`_complete_failed_startup_rollback` says only after every
  rollback). The next boot archives what is there and installs MAIN again:
  `InstallFails` and `Undo` of `RuntimeInstall` have it, and `WorkKept` holds.
- A handoff that fails at its receipt restores the database, its sidecars and the
  manifest, but not `version.json`, which the receipt covers: editing and further
  handoffs are refused until a restart. `HandoffFails` has it; `OpensAgain` holds.

## Assumptions and abstractions

- Clocks do not step back. A lost push never arrives; a push that arrives is a
  compare-and-swap on the ref. A failed read changes no state. The provider's
  `force_release` has no caller and is left out.
- `Collaboration`: the queue is in order of arrival. The order by priority is in `WriteQueue`,
  whose theorems have any priorities and whose run has only one. The
  mode without a remote repository and presence are left out. The suspension of the
  renewal, the pause and the recovery are in `StaleEditing`, where a recovery reads the
  lock once: in the code the gate reads it again and refuses if it has changed.
- `RecoveryRecord`: one workstation; what others add to MAIN is left out, and a
  publication is what the journal learns of it. A capture, an archive or a backup is
  written whole or not at all. An encrypted backup is another file than the receipt
  names even when its rows are the same (`restored`). The rollback of a restore is
  reduced to its outcomes: exchanged, torn, or only the safety backup made. The program
  closes after a restore, and the lock of a restore is `LockLease`'s.
- `RecoveryMirror`: a row is the edit it records, and an edit is one transaction. The
  barrier expires at any time. An identity that was rolled back is not used again in
  the same process.
- `Enrollment`: `Restore` is what a user can do: that the class is not archived and that
  the contract is the latest withdrawn one comes from its only callers, the page and the
  dialog of a class (`ui/class_workspace/class_detail_page.py:288`,
  `class_enrollment_dialog.py:172`), and not from `EnrollmentService.restore`
  (`enrollment_service.py:782`), so that `ArchivedIsEmpty` is about the program and not
  about that service alone. A session is one unit; prices and their versions, and edits
  of the plan and the capacity of a class, are left out. CANCELLED and POSTPONED are one
  status.
- `FinanceLedger`: a total is the set of rows it sums, each with its amount; rounding,
  percentages and the reports are left out.
- `WriteTransaction`: the journal's disk writes succeed except where the code handles
  their failure; `LOCAL_SAVED` is part of `SaveLocal`; `RetryPublish` has no action
  because it is never enabled (`CanRetryPublish`); FINISHING_STALE,
  `refresh_finishing_authority` (no caller), the uncommitted state of the local
  repository, reports, snapshots of the mode without a journal and the explicit
  reconciliation (a command line) are left out. A graceful shutdown is a crash after
  which the lease ends. The installation of a handoff is one step because the permit
  holds the gate's lock; a crash inside it is `CrashInInstall`, and `RuntimeInstall` has
  its steps.
- `MutationGate`: permissions, actors, the identity of the repository and the
  maintenance permits of startup deny a statement without changing state and are
  left out. Connections are fresh after a rollback (NullPool). Fields that nothing
  reads before the next opening are cleared at close and loss.
- `Attachments`: names of uploads are unique; a row may be refused after its file was
  stored; an empty tree of documents counts as a missing one, as in the code's result.
  The files of students and teachers never enter the repository.
- `RuntimeInstall`: keys, identities, migration of the schema, symbolic links and torn
  copies (a replay verifies hashes before it writes) are left out. The rollback of a
  startup is one step, since a crash in it leaves the marker and the replay overwrites
  every file it touches. `-shm` and `-journal` follow the WAL.

## Not modelled

- The user interface (about 37 000 of the 98 000 lines): it calls the operations that
  the modules name and keeps no state that decides on data. Its timers are the
  environment of `Collaboration` and `MutationGate`.
- The mode without a remote repository (local lock, queue and heartbeat files): the
  program is installed with a remote, and what both modes share is modelled with it.
- Presence, which decides nothing about WRITE; export, health, notifications,
  deployment: reading, printing and a start in a fixed order.
- Encryption, schema migration and the upgrade gate, which run alone before the
  database is opened; permissions and the protected data service, whose decisions are
  tables and comparisons of one thread.
- Employees, teachers and schedules, and the models, repositories and transfer objects:
  records of one database, each operation a validation and a save.
- Prices, discounts by percentage, rounding and the reports of outstanding amounts:
  arithmetic on rows that `FinanceLedger` and `Enrollment` keep.
- The registry of recovery cases: nothing outside the tests registers a case or asks
  whether one pins a file.

`PROJECT.json` has the reason for each part, and the hazards that no property covers
with the reason for that.

## What could come next

1. Restores in a model of several workstations, with the fence of `publish_only`.
2. The amounts of tuition: prices by version, discounts and rounding as operators,
   against a reference definition over bounded calendars.
3. `LocalLock`: the mode without a remote repository, whose lock and queue are files
   that are read and then written.
