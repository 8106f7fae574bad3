--------------------------- MODULE WriteTransaction ---------------------------
(***************************************************************************)
(* The WRITE transaction of a workstation: Start Editing, the edits, and   *)
(* Finish Editing, with everything that can happen in between.  Each       *)
(* session has a live copy of the database and a recovery journal beside   *)
(* it; MAIN is the shared one, replaced only by a push that is fenced on   *)
(* the commit the transaction started from.                                *)
(*                                                                         *)
(* The lock is here what LockLease shows it to be: at most one session has *)
(* a valid lease, and that can end at any time.  The waiting queue is left *)
(* to Collaboration: any session that waits may be the next one granted.   *)
(* A database is the set of edits in it; a commit of MAIN is its position  *)
(* in main.  The edits of one transaction are <<transaction, number>>.     *)
(***************************************************************************)
EXTENDS Integers, Sequences, FiniteSets, SequencesExt

CONSTANTS
    Session,     \* workstations
    MaxCommits,  \* bound: commits of MAIN, the first one included
    MaxTx,       \* bound: transactions that reach their journal
    MaxEdits,    \* bound: edits of one transaction
    MaxFaults    \* bound: crashes, pushes and releases of unknown outcome

ASSUME SessionAssumption == IsFiniteSet(Session)
ASSUME BoundAssumption ==
    /\ MaxCommits \in Nat \ {0} /\ MaxTx \in Nat
    /\ MaxEdits \in Nat /\ MaxFaults \in Nat

VARIABLES
    main,      \* the versions of MAIN
    flying,    \* pushes of MAIN that may still arrive
    lock,      \* the session whose WRITE lease is valid, None, or Ghost
    tx,        \* tx[s]: the state of the transaction (_state)
    queued,    \* queued[s]: the grant answers a waiting request
    writing,   \* writing[s]: _is_writing of the collaboration manager
    finishing, \* finishing[s]: the interface thread is in finish_editing
    pending,   \* pending[s]: _pending_version is set
    dirty,     \* dirty[s]: _has_changes
    base,      \* base[s]: the commit of MAIN it started from, or 0 (_base_main_commit)
    current,   \* current[s]: the transaction of this session
    runtime,   \* runtime[s]: the live database
    journal,   \* journal[s]: the recovery journal on disk
    saved,     \* saved[s]: edits in the verified captures and archives of s
    made,      \* history: every edit committed to a live database
    txs,       \* history: transactions so far
    faults     \* history: faults so far

shared == <<main, flying, lock>>
memory == <<tx, queued, writing, finishing, pending, dirty, base, current>>
disk == <<runtime, journal, saved>>
history == <<made, txs, faults>>
vars == <<shared, memory, disk, history>>

None == "none"
Ghost == "ghost"   \* the lease of a process that died

(* SYNC to VERIFY: the stages of a grant (ACQUIRING or GRANTING).  REACQUIRE: *)
(* a recovery of a stale session that has checked MAIN.  PUSHED: published,   *)
(* not yet verified.  DOWN, STARTING, OFFLINE_READ: the process is not there, *)
(* starts, or runs without a connection.                                      *)
State == {"IDLE", "WAITING", "SYNC", "INSTALL", "JOURNAL", "VERIFY", "EDITING",
          "EDITING_STALE", "REACQUIRE", "FINISHING",
          "FINISHING_WAITING_FOR_COLLABORATION", "PUBLISH_CONFLICT", "PUBLISHING",
          "PUSHED", "PUBLISHED", "PUBLISHED_LOCK_RELEASE_PENDING", "FAILED",
          "OFFLINE_PENDING_PUBLISH", "RECOVERY_REQUIRED", "STARTING", "OFFLINE_READ", "DOWN"}
Status == {"PREPARING", "OPEN", "PUBLISHING", "PUBLISHED", "POST_PUBLISH_PENDING",
           "CLEAN", "CANCELLED"}
Edit == (1 .. MaxTx) \X (1 .. MaxEdits)
Commit == 1 .. MaxCommits

TypeOK ==
    /\ main \in Seq(SUBSET Edit) /\ Len(main) \in Commit
    /\ flying \subseteq [base : Commit, content : SUBSET Edit]
    /\ lock \in Session \cup {None, Ghost}
    /\ tx \in [Session -> State]
    /\ {queued, writing, finishing, pending, dirty} \subseteq [Session -> BOOLEAN]
    /\ base \in [Session -> Commit \cup {0}]
    /\ current \in [Session -> 0 .. MaxTx]
    /\ runtime \in [Session -> SUBSET Edit]
    /\ journal \in [Session -> [status : Status, published : Commit, lost : BOOLEAN]]
    /\ saved \in [Session -> SUBSET Edit]
    /\ made \subseteq Edit /\ txs \in 0 .. MaxTx /\ faults \in 0 .. MaxFaults
    \* a receipt names a commit of MAIN, a transaction is one session's
    /\ \A s \in Session : journal[s].published <= Len(main) /\ base[s] <= Len(main)
    /\ \A s, t \in Session : s # t /\ current[s] > 0 => current[s] # current[t]

Receipt(c) == [status |-> "CLEAN", published |-> c, lost |-> FALSE]

Init ==
    /\ main = << {} >> /\ flying = {} /\ lock = None
    /\ tx = [s \in Session |-> "IDLE"]
    /\ queued = [s \in Session |-> FALSE]
    /\ writing = [s \in Session |-> FALSE]
    /\ finishing = [s \in Session |-> FALSE]
    /\ pending = [s \in Session |-> FALSE]
    /\ dirty = [s \in Session |-> FALSE]
    /\ base = [s \in Session |-> 0]
    /\ current = [s \in Session |-> 0]
    /\ runtime = [s \in Session |-> {}]
    /\ journal = [s \in Session |-> Receipt(1)]
    /\ saved = [s \in Session |-> {}]
    /\ made = {} /\ txs = 0 /\ faults = 0

-----------------------------------------------------------------------------
(* Helpers. *)

Newest == Len(main)
Goto(s, state) == tx' = [tx EXCEPT ![s] = state]
Fault == faults < MaxFaults /\ faults' = faults + 1
NoFault == UNCHANGED faults

(* assert_replaceable: the live database is the one its receipt accounts for. *)
Replaceable(s) ==
    /\ journal[s].status \in {"CLEAN", "PUBLISHED"}
    /\ ~journal[s].lost
    /\ runtime[s] = main[journal[s].published]

Forget(s) == base' = [base EXCEPT ![s] = 0]
Update(s, status) == journal' = [journal EXCEPT ![s].status = status]
Preserve(s) == saved' = [saved EXCEPT ![s] = @ \cup runtime[s]]

(* release_write: confirmed; done but unconfirmed; or refused, and the lock  *)
(* and the local WRITE projection stay.                                      *)
Released(s) ==
    /\ lock \in {s, None}
    /\ lock' = None
    /\ writing' = [writing EXCEPT ![s] = FALSE]
    /\ NoFault
ReleaseFails(s) ==
    /\ IF lock = s THEN Fault /\ lock' \in {s, None} ELSE UNCHANGED <<lock, faults>>
    /\ UNCHANGED writing
Releases(s) == writing[s] /\ (Released(s) \/ ReleaseFails(s))

-----------------------------------------------------------------------------
(* Start Editing. *)

(* Refused unless the receipt accounts for the live database.  The request   *)
(* is granted at once, to a free lock or to a session that kept its own, or  *)
(* it waits.                                                                 *)
Request(s) ==
    /\ tx[s] = "IDLE" /\ Replaceable(s)
    /\ \/ /\ IF writing[s] THEN lock = s ELSE lock = None
          /\ lock' = s
          /\ writing' = [writing EXCEPT ![s] = TRUE]
          /\ Goto(s, "SYNC")
       \/ /\ ~writing[s] /\ lock # None
          /\ Goto(s, "WAITING")
          /\ UNCHANGED <<lock, writing>>
    /\ queued' = [queued EXCEPT ![s] = FALSE]
    /\ UNCHANGED <<main, flying, finishing, pending, dirty, base, current, disk, history>>

GrantQueued(s) ==
    /\ tx[s] = "WAITING" /\ lock = None
    /\ lock' = s
    /\ writing' = [writing EXCEPT ![s] = TRUE]
    /\ queued' = [queued EXCEPT ![s] = TRUE]
    /\ Goto(s, "SYNC")
    /\ UNCHANGED <<main, flying, finishing, pending, dirty, base, current, disk, history>>

CancelWaiting(s) ==
    /\ tx[s] = "WAITING"
    /\ Goto(s, "IDLE")
    /\ UNCHANGED <<shared, disk, history, queued, writing, finishing, pending,
                   dirty, base, current>>

(* The handoff pins MAIN: fetch and reset of the local repository. *)
PinMain(s) ==
    /\ tx[s] = "SYNC" /\ Replaceable(s)
    /\ base' = [base EXCEPT ![s] = Newest]
    /\ Goto(s, "INSTALL")
    /\ UNCHANGED <<shared, disk, history, queued, writing, finishing, pending,
                   dirty, current>>

(* The pinned version becomes the live database and gets a new receipt, if   *)
(* the old one is still good and MAIN has not moved.                         *)
Install(s) ==
    /\ tx[s] = "INSTALL"
    /\ journal[s].status = "CLEAN" /\ Replaceable(s)
    /\ base[s] = Newest
    /\ runtime' = [runtime EXCEPT ![s] = main[base[s]]]
    /\ journal' = [journal EXCEPT ![s] = Receipt(base[s])]
    /\ Goto(s, "JOURNAL")
    /\ UNCHANGED <<shared, history, saved, queued, writing, finishing, pending,
                   dirty, base, current>>

(* Whatever goes wrong before the journal, the lock is given back. *)
HandoffFails(s) ==
    /\ tx[s] \in {"SYNC", "INSTALL", "JOURNAL"}
    /\ Releases(s)
    /\ Goto(s, IF queued[s] THEN "WAITING" ELSE "IDLE")
    /\ Forget(s)
    /\ UNCHANGED <<main, flying, queued, finishing, pending, dirty, current,
                   disk, made, txs>>

MutBeginJournalOpen(s) ==   \* the old receipt stays in force
    /\ tx[s] = "JOURNAL"
    /\ journal[s] = Receipt(base[s]) /\ Replaceable(s)
    /\ txs < MaxTx /\ txs' = txs + 1
    /\ current' = [current EXCEPT ![s] = txs + 1]
    /\ Preserve(s)
    /\ dirty' = [dirty EXCEPT ![s] = FALSE]
    /\ Goto(s, "VERIFY")
    /\ UNCHANGED <<shared, queued, writing, finishing, pending, base, runtime,
                   journal, made, faults>>
BeginJournal(s) ==
    /\ tx[s] = "JOURNAL"
    /\ journal[s] = Receipt(base[s]) /\ Replaceable(s)
    /\ txs < MaxTx /\ txs' = txs + 1
    /\ current' = [current EXCEPT ![s] = txs + 1]
    /\ journal' = [journal EXCEPT ![s].status = "OPEN"]
    /\ Preserve(s)
    /\ dirty' = [dirty EXCEPT ![s] = FALSE]
    /\ Goto(s, "VERIFY")
    /\ UNCHANGED <<shared, queued, writing, finishing, pending, base, runtime, made, faults>>

(* The receipt no longer fits the pinned commit, or the capture of the base  *)
(* fails half way.                                                           *)
BeginJournalFails(s) ==
    /\ tx[s] = "JOURNAL"
    /\ journal' \in {journal, [journal EXCEPT ![s].status = "PREPARING"]}
    /\ Releases(s)
    /\ Goto(s, "RECOVERY_REQUIRED")
    /\ UNCHANGED <<main, flying, queued, finishing, pending, dirty, base, current,
                   runtime, saved, made, txs>>

OpenEditing(s) ==
    /\ tx[s] = "VERIFY" /\ writing[s] /\ lock = s
    /\ Goto(s, "EDITING")
    /\ UNCHANGED <<shared, disk, history, queued, writing, finishing, pending,
                   dirty, base, current>>

GrantLost(s) ==
    /\ tx[s] = "VERIFY"
    /\ Preserve(s)
    /\ journal' = [journal EXCEPT ![s].lost = TRUE]
    /\ Releases(s)
    /\ Goto(s, "RECOVERY_REQUIRED")
    /\ UNCHANGED <<main, flying, queued, finishing, pending, dirty, base, current,
                   runtime, made, txs>>

-----------------------------------------------------------------------------
(* Editing. *)

(* A commit to the live database.  The mutation gate admits it while the     *)
(* lease it has seen is valid.  Only edits of a student mark the transaction *)
(* dirty.                                                                    *)
Save(s) ==
    /\ tx[s] = "EDITING" /\ writing[s] /\ lock = s
    /\ LET mine == {e \in runtime[s] : e[1] = current[s]}
           edit == <<current[s], Cardinality(mine) + 1>>
       IN  /\ Cardinality(mine) < MaxEdits
           /\ runtime' = [runtime EXCEPT ![s] = @ \cup {edit}]
           /\ made' = made \cup {edit}
    /\ \E ofStudent \in BOOLEAN : dirty' = [dirty EXCEPT ![s] = @ \/ ofStudent]
    /\ UNCHANGED <<shared, tx, queued, writing, finishing, pending, base, current,
                   journal, saved, txs, faults>>

(* An open gate is invalidated: the lease is lost or cannot be verified.  It *)
(* may happen while the interface thread is in finish_editing.  A validation *)
(* that finds no lock at all ends the local WRITE projection as well.        *)
LoseAuthority(s) ==
    /\ tx[s] \in {"EDITING", "FINISHING", "FINISHING_WAITING_FOR_COLLABORATION"}
    /\ journal' = [journal EXCEPT ![s].lost = TRUE]
    /\ \/ UNCHANGED writing
       \/ lock = None /\ writing' = [writing EXCEPT ![s] = FALSE]
    /\ Goto(s, "RECOVERY_REQUIRED")
    /\ UNCHANGED <<shared, history, queued, finishing, pending, dirty,
                   base, current, runtime, saved>>

PauseIdle(s) ==
    /\ tx[s] = "EDITING"
    /\ IF dirty[s] THEN UNCHANGED <<lock, writing, faults>> ELSE Releases(s)
    /\ Goto(s, "EDITING_STALE")
    /\ UNCHANGED <<main, flying, queued, finishing, pending, dirty, base, current,
                   disk, made, txs>>

(* Recover editing: MAIN must be the one the session started from.  A valid  *)
(* lease is renewed; without one the local projection is cleared and WRITE   *)
(* is requested anew.                                                        *)
Recover(s) ==
    /\ tx[s] = "EDITING_STALE"
    /\ \/ /\ Goto(s, "PUBLISH_CONFLICT")   \* MAIN changed, or cannot be read
          /\ UNCHANGED writing
       \/ /\ base[s] = Newest /\ lock = s
          /\ Goto(s, "EDITING")
          /\ writing' = [writing EXCEPT ![s] = TRUE]
       \/ /\ base[s] = Newest /\ lock = None
          /\ Goto(s, "REACQUIRE")
          /\ writing' = [writing EXCEPT ![s] = FALSE]
    /\ UNCHANGED <<shared, disk, history, queued, finishing, pending, dirty, base, current>>

Reacquire(s) ==
    /\ tx[s] = "REACQUIRE"
    /\ \/ /\ lock = None /\ lock' = s
          /\ writing' = [writing EXCEPT ![s] = TRUE]
          /\ Goto(s, "EDITING")
       \/ /\ lock # None
          /\ Goto(s, "EDITING_STALE")
          /\ UNCHANGED <<lock, writing>>
    /\ UNCHANGED <<main, flying, queued, finishing, pending, dirty, base, current,
                   disk, history>>

(* Cancel keeps the work in a capture and leaves it to a reconciliation; the *)
(* lock is given back only when the capture succeeds.                        *)
Cancel(s) ==
    /\ tx[s] \in {"EDITING", "FINISHING", "FINISHING_WAITING_FOR_COLLABORATION"}
    /\ ~finishing[s]
    /\ \/ Preserve(s) /\ Update(s, "CANCELLED") /\ Releases(s)
       \/ UNCHANGED <<saved, journal, lock, writing, faults>>
    /\ Goto(s, "RECOVERY_REQUIRED")
    /\ UNCHANGED <<main, flying, queued, finishing, pending, dirty, base, current,
                   runtime, made, txs>>

-----------------------------------------------------------------------------
(* Finish Editing, in the interface thread. *)

(* The authority is checked, then MAIN is read, then the state is assigned:  *)
(* a loss in between marks the journal, but its state is overwritten.        *)
EnterFinishing(s) ==
    /\ tx[s] = "EDITING"
    /\ \/ /\ Goto(s, "FINISHING_WAITING_FOR_COLLABORATION")   \* no connection
          /\ UNCHANGED <<finishing, journal>>
       \/ /\ \/ /\ Goto(s, "PUBLISH_CONFLICT")   \* MAIN changed, or cannot be read
                /\ UNCHANGED finishing
             \/ /\ base[s] = Newest
                /\ Goto(s, "FINISHING")
                /\ finishing' = [finishing EXCEPT ![s] = TRUE]
          /\ \/ lock = s /\ UNCHANGED journal
             \/ journal' = [journal EXCEPT ![s].lost = TRUE]
    /\ UNCHANGED <<shared, runtime, saved, history, queued, writing, pending,
                   dirty, base, current>>

(* The local save and the copy of the database into the repository; the gate *)
(* is closed in between, and a capture is made before anything is pushed.    *)
MutSaveLocal(s) ==   \* the loss of the authority during the save is not seen
    /\ finishing[s]
    /\ finishing' = [finishing EXCEPT ![s] = FALSE]
    /\ Preserve(s)
    /\ Update(s, "PUBLISHING")
    /\ pending' = [pending EXCEPT ![s] = TRUE]
    /\ Goto(s, "PUBLISHING")
    /\ UNCHANGED <<shared, history, queued, writing, dirty, base, current, runtime>>
SaveLocal(s) ==
    /\ finishing[s] /\ ~journal[s].lost
    /\ finishing' = [finishing EXCEPT ![s] = FALSE]
    /\ \/ /\ Preserve(s)
          /\ Update(s, "PUBLISHING")
          /\ pending' = [pending EXCEPT ![s] = TRUE]
          /\ Goto(s, "PUBLISHING")
       \/ /\ Goto(s, "RECOVERY_REQUIRED")   \* the capture fails
          /\ UNCHANGED <<pending, journal, saved>>
       \/ /\ Goto(s, "FAILED")              \* the save or the copy fails
          /\ UNCHANGED <<pending, journal, saved>>
    /\ UNCHANGED <<shared, history, queued, writing, dirty, base, current, runtime>>

SaveLocalLost(s) ==
    /\ finishing[s] /\ journal[s].lost
    /\ finishing' = [finishing EXCEPT ![s] = FALSE]
    /\ \/ UNCHANGED tx
       \/ tx[s] # "RECOVERY_REQUIRED" /\ Goto(s, "FAILED")   \* the save fails
    /\ UNCHANGED <<shared, disk, history, queued, writing, pending, dirty, base, current>>

(* One attempt, fenced on the base commit: it lands, or it lands unseen, or  *)
(* it is still under way, or it is refused or never sent.                    *)
MutFenced(b) == TRUE   \* a plain push --force
Fenced(b) == Newest = b
Land(content) == Len(main) < MaxCommits /\ main' = Append(main, content)
Push(s) ==
    /\ tx[s] = "PUBLISHING"
    /\ \/ /\ Fenced(base[s]) /\ Land(runtime[s]) /\ NoFault
          /\ Goto(s, "PUSHED")
          /\ UNCHANGED <<flying, pending>>
       \/ /\ Goto(s, "FAILED")
          /\ pending' = [pending EXCEPT ![s] = FALSE]
          /\ \/ Fenced(base[s]) /\ Land(runtime[s]) /\ Fault /\ UNCHANGED flying
             \/ /\ Fenced(base[s]) /\ Fault
                /\ flying' = flying \cup {[base |-> base[s], content |-> runtime[s]]}
                /\ UNCHANGED main
             \/ NoFault /\ UNCHANGED <<main, flying>>
    /\ UNCHANGED <<lock, queued, writing, finishing, dirty, base, current, disk, made, txs>>

(* Published means that MAIN, read again, is the commit just pushed.  What a *)
(* callback adds to the live files afterwards is kept, not published.        *)
ConfirmPublished(s) ==
    /\ tx[s] = "PUSHED" /\ Newest = base[s] + 1
    /\ \E status \in {"PUBLISHED", "POST_PUBLISH_PENDING"} :
         journal' = [journal EXCEPT ![s].status = status, ![s].published = base[s] + 1]
    /\ Preserve(s)
    /\ pending' = [pending EXCEPT ![s] = FALSE]
    /\ Goto(s, "PUBLISHED")
    /\ UNCHANGED <<shared, history, queued, writing, finishing, dirty, base, current, runtime>>

ConfirmFails(s) ==
    /\ tx[s] = "PUSHED"
    /\ pending' = [pending EXCEPT ![s] = FALSE]
    /\ Goto(s, "RECOVERY_REQUIRED")
    /\ UNCHANGED <<shared, disk, history, queued, writing, finishing, dirty, base, current>>

(* Also the retry of a release that was not confirmed. *)
ReleaseAfterPublish(s) ==
    /\ tx[s] \in {"PUBLISHED", "PUBLISHED_LOCK_RELEASE_PENDING"}
    /\ \/ /\ writing[s] /\ Released(s)
          /\ IF journal[s].status = "PUBLISHED" /\ Replaceable(s)
             THEN /\ Update(s, "CLEAN") /\ Goto(s, "IDLE") /\ Forget(s)
                  /\ dirty' = [dirty EXCEPT ![s] = FALSE]
             ELSE /\ Goto(s, "RECOVERY_REQUIRED")
                  /\ UNCHANGED <<journal, base, dirty>>
       \/ /\ ReleaseFails(s)
          /\ Goto(s, "PUBLISHED_LOCK_RELEASE_PENDING")
          /\ UNCHANGED <<journal, base, dirty>>
    /\ UNCHANGED <<main, flying, queued, finishing, pending, current, runtime,
                   saved, made, txs>>

(* After a failed publication the user may retry, if a version is pending,   *)
(* or continue offline.                                                      *)
CanRetryPublish(s) ==
    tx[s] \in {"FAILED", "OFFLINE_PENDING_PUBLISH"} /\ pending[s]

ContinueOffline(s) ==
    /\ tx[s] = "FAILED"
    /\ Goto(s, "OFFLINE_PENDING_PUBLISH")
    /\ UNCHANGED <<shared, disk, history, queued, writing, finishing, pending,
                   dirty, base, current>>

-----------------------------------------------------------------------------
(* What happens around a transaction. *)

(* The pull-only synchronization of a session that is not editing. *)
BackgroundSync(s) ==
    /\ tx[s] \notin {"DOWN", "STARTING"}
    /\ journal[s].status = "CLEAN" /\ Replaceable(s)
    /\ journal[s].published # Newest
    /\ runtime' = [runtime EXCEPT ![s] = main[Newest]]
    /\ journal' = [journal EXCEPT ![s] = Receipt(Newest)]
    /\ UNCHANGED <<shared, memory, saved, history>>

LeaseEnds ==
    /\ lock # None /\ lock' = None
    /\ UNCHANGED <<main, flying, memory, disk, history>>

LatePush ==
    /\ \E p \in flying : Fenced(p.base) /\ Land(p.content) /\ flying' = flying \ {p}
    /\ UNCHANGED <<lock, memory, disk, history>>

(* The process dies; its lock stays until the lease ends. *)
Dies(s) ==
    /\ Fault
    /\ Goto(s, "DOWN")
    /\ lock' = IF lock = s THEN Ghost ELSE lock
    /\ queued' = [queued EXCEPT ![s] = FALSE]
    /\ writing' = [writing EXCEPT ![s] = FALSE]
    /\ finishing' = [finishing EXCEPT ![s] = FALSE]
    /\ pending' = [pending EXCEPT ![s] = FALSE]
    /\ dirty' = [dirty EXCEPT ![s] = FALSE]
    /\ Forget(s)
    /\ UNCHANGED <<main, flying, current, journal, saved, made, txs>>

Crash(s) ==
    /\ tx[s] # "DOWN" /\ Dies(s)
    /\ UNCHANGED runtime

(* It may die between the replacement of the live database and its receipt. *)
CrashInInstall(s) ==
    /\ \/ tx[s] = "STARTING"
       \/ tx[s] # "DOWN" /\ journal[s].status = "CLEAN" /\ Replaceable(s)
    /\ runtime' = [runtime EXCEPT ![s] = main[Newest]]
    /\ Dies(s)

(* Startup synchronization: unless the receipt accounts for the workspace,   *)
(* all of it is archived; then MAIN, if it is still the one that was pinned, *)
(* replaces it under a new receipt.                                          *)
MutStartupPrepare(s) ==   \* only work that was given up is archived
    /\ tx[s] = "DOWN"
    /\ base' = [base EXCEPT ![s] = Newest]
    /\ IF journal[s].status = "CANCELLED" THEN Preserve(s) ELSE UNCHANGED saved
    /\ Goto(s, "STARTING")
    /\ UNCHANGED <<shared, history, queued, writing, finishing, pending, dirty,
                   current, runtime, journal>>
StartupPrepare(s) ==
    /\ tx[s] = "DOWN"
    /\ base' = [base EXCEPT ![s] = Newest]
    /\ IF journal[s].status = "CLEAN" /\ Replaceable(s) THEN UNCHANGED saved ELSE Preserve(s)
    /\ Goto(s, "STARTING")
    /\ UNCHANGED <<shared, history, queued, writing, finishing, pending, dirty,
                   current, runtime, journal>>

StartupInstall(s) ==
    /\ tx[s] = "STARTING"
    /\ IF base[s] = Newest
       THEN /\ runtime' = [runtime EXCEPT ![s] = main[base[s]]]
            /\ journal' = [journal EXCEPT ![s] = Receipt(base[s])]
            /\ Goto(s, "IDLE")
       ELSE /\ Goto(s, "DOWN")
            /\ UNCHANGED <<runtime, journal>>
    /\ Forget(s)
    /\ UNCHANGED <<shared, history, saved, queued, writing, finishing, pending,
                   dirty, current>>

(* Without a connection a good receipt admits to reading; back online, the   *)
(* newest version is installed before anything else is allowed.              *)
OfflineStart(s) ==
    /\ tx[s] = "DOWN"
    /\ journal[s].status = "CLEAN" /\ Replaceable(s)
    /\ Goto(s, "OFFLINE_READ")
    /\ UNCHANGED <<shared, disk, history, queued, writing, finishing, pending,
                   dirty, base, current>>

Reconnect(s) ==
    /\ tx[s] = "OFFLINE_READ" /\ Replaceable(s)
    /\ runtime' = [runtime EXCEPT ![s] = main[Newest]]
    /\ journal' = [journal EXCEPT ![s] = Receipt(Newest)]
    /\ Goto(s, "IDLE")
    /\ UNCHANGED <<shared, history, saved, queued, writing, finishing, pending,
                   dirty, base, current>>

-----------------------------------------------------------------------------
Editing(s) ==
    \/ OpenEditing(s) \/ GrantLost(s) \/ Save(s) \/ LoseAuthority(s)
    \/ PauseIdle(s) \/ Recover(s) \/ Reacquire(s) \/ Cancel(s)
Starting(s) ==
    \/ Request(s) \/ GrantQueued(s) \/ CancelWaiting(s)
    \/ PinMain(s) \/ Install(s) \/ HandoffFails(s)
    \/ BeginJournal(s) \/ BeginJournalFails(s)
Finishing(s) ==
    \/ EnterFinishing(s) \/ SaveLocal(s) \/ SaveLocalLost(s) \/ Push(s)
    \/ ConfirmPublished(s) \/ ConfirmFails(s) \/ ReleaseAfterPublish(s)
    \/ ContinueOffline(s)
Around(s) ==
    \/ BackgroundSync(s) \/ Crash(s) \/ CrashInInstall(s)
    \/ StartupPrepare(s) \/ StartupInstall(s) \/ OfflineStart(s) \/ Reconnect(s)

Next ==
    \/ \E s \in Session : Starting(s) \/ Editing(s) \/ Finishing(s) \/ Around(s)
    \/ LeaseEnds
    \/ LatePush

Spec == Init /\ [][Next]_vars

-----------------------------------------------------------------------------
(* Properties. *)

(* No committed edit is ever without a copy: it is in MAIN, in a live        *)
(* database, or in a capture or an archive (the handoff, the background and  *)
(* the startup synchronization all replace live databases).                  *)
WorkNeverLost ==
    \A e \in made : e \in Last(main) \/ \E s \in Session : e \in runtime[s] \cup saved[s]

(* A session whose receipt says CLEAN holds a published version and nothing  *)
(* of its own, also when it died in the middle of an installation.           *)
CleanIsPublished ==
    \A s \in Session : journal[s].status = "CLEAN" => runtime[s] \in ToSet(main)

(* Once the WRITE authority of a transaction was lost, nothing of it is      *)
(* published by this session, even when the loss comes in the middle of      *)
(* Finish Editing.                                                           *)
LostIsNotPublished ==
    \A s \in Session :
        journal[s].lost =>
            tx[s] \notin {"PUBLISHING", "PUSHED", "PUBLISHED", "PUBLISHED_LOCK_RELEASE_PENDING"}

(* MAIN is one line of versions; each publication adds one whole transaction *)
(* to the newest version, once.                                              *)
Shared == INSTANCE SharedHistory
            WITH history <- main, Tx <- 1 .. MaxTx, Number <- 1 .. MaxEdits
OneHistory == Shared!Spec
=============================================================================
