---------------------------- MODULE Collaboration ----------------------------
(***************************************************************************)
(* The collaboration manager: how a workstation gets the WRITE mode.  It   *)
(* enqueues a request, and when the request is at the head and the lock is *)
(* free it takes the lock provisionally, brings its data up to date,       *)
(* consumes the request and only then writes.  Whatever fails on the way   *)
(* is undone: the provisional lock is rolled back, a request that is not   *)
(* confirmed is cancelled.                                                 *)
(*                                                                         *)
(* The queue and the lock are two refs (WriteQueue and LockLease have them *)
(* in detail); here a remote write is one step that ends in one of three   *)
(* ways: it lands and is confirmed, it lands unseen, or it is still on its *)
(* way and may land later, as long as the ref is what it was prepared      *)
(* against.  All requests have one priority.  A session does one thing at  *)
(* a time (_state_mutex), but lets go of the mutex while the user          *)
(* interface synchronizes the data of a handoff.                           *)
(***************************************************************************)
EXTENDS Integers, Sequences, FiniteSets, FiniteSetsExt, SequencesExt

CONSTANTS
    Client,    \* runtime sessions
    Ids,        \* names for lock commits; one that nothing refers to is reused
    MaxFaults   \* bound: remote calls whose outcome stays unknown

ASSUME ClientAssumption == IsFiniteSet(Client)
ASSUME IdsAssumption == IsFiniteSet(Ids) /\ Ids \subseteq Nat \ {0}
ASSUME FaultAssumption == MaxFaults \in Nat

VARIABLES
    lock,        \* the remote lock: commit, owner and the phase of its lease
    queue,       \* the remote queue, head first
    lockPushes,  \* lock pushes that may still land
    queuePushes, \* queues that may still land on the present queue
    tokens,      \* tokens[s]: lock commits s may delete (owned or pending)
    run,         \* run[s]: the procedure s is in, and on whose behalf
    wants,       \* wants[s]: _pending_request is set
    cancelling,  \* cancelling[s]: _cancel_pending
    ungranted,   \* ungranted[s]: _ungranted_lock
    writing,     \* writing[s]: _is_writing
    forfeited,   \* history: writers whose lease ran out or that asked to delete the lock
    faults       \* history: number of unknown outcomes so far

remote == <<lock, queue, lockPushes, queuePushes>>
manager == <<wants, cancelling, ungranted, writing>>
managerVars == <<remote, tokens, run, manager, forfeited, faults>>

None == "none"
ASSUME NoneAssumption == None \notin Client

Phase == {"valid", "grace", "over"}
Absent == [id |-> 0, owner |-> None, lease |-> "over"]

(* Where a procedure stands.  undoFirst: the rollback before a grant;        *)
(* undoLast: the rollback of a failed grant; undoCancel and undoRefresh: the *)
(* rollback that ends a cancellation or starts a refresh.                    *)
Stage == {"idle", "enqueue", "readback", "undoFirst", "head", "take", "recheck",
          "guard", "consume", "verify", "undoLast", "cancel", "remaining",
          "undoCancel", "undoRefresh", "refresh", "dead"}
(* Who runs it: the user (blocked: another session held the lock when the    *)
(* request began) or the poller, whose grants synchronize the data first.    *)
Caller == {"user", "blocked", "poller"}
At(stage, caller) == [at |-> stage, by |-> caller]
Rest == At("idle", "user")

ManagerTypeOK ==
    /\ lock \in [id : Ids \cup {0}, owner : Client \cup {None}, lease : Phase]
    /\ queue \in Seq(Client)
    /\ lockPushes \subseteq [by : Client, old : Ids \cup {0}, new : Ids \cup {0}]
    /\ queuePushes \subseteq Seq(Client)
    /\ tokens \in [Client -> SUBSET Ids]
    /\ run \in [Client -> [at : Stage, by : Caller]]
    /\ wants \in [Client -> BOOLEAN]
    /\ cancelling \in [Client -> BOOLEAN]
    /\ ungranted \in [Client -> BOOLEAN]
    /\ writing \in [Client -> BOOLEAN]
    /\ forfeited \subseteq Client
    /\ faults \in 0 .. MaxFaults
    \* a session waits at most once, a lock has an owner
    /\ \A q \in queuePushes \cup {queue} : IsInjective(q)
    /\ lock.owner = None <=> lock = Absent

ManagerInit ==
    /\ lock = Absent /\ queue = << >>
    /\ lockPushes = {} /\ queuePushes = {}
    /\ tokens = [s \in Client |-> {}]
    /\ run = [s \in Client |-> Rest]
    /\ wants = [s \in Client |-> FALSE]
    /\ cancelling = [s \in Client |-> FALSE]
    /\ ungranted = [s \in Client |-> FALSE]
    /\ writing = [s \in Client |-> FALSE]
    /\ forfeited = {}
    /\ faults = 0

-----------------------------------------------------------------------------
(* The two refs. *)

Waits(s) == \E i \in DOMAIN queue : queue[i] = s
AtHead(s) == queue # << >> /\ Head(queue) = s
Holds(s) == lock.owner = s
LiveFor(s) == lock.owner = s /\ lock.lease = "valid"

(* Nobody's, this session's own expired lock, or one past the tolerance. *)
Takeable(s) ==
    lock = Absent \/ lock.lease = "over" \/ (Holds(s) /\ lock.lease = "grace")

(* A name s may give to a new lock commit: no other session knows it, and no *)
(* lock or push has it.                                                      *)
FreeIds(s) ==
    Ids \ ({lock.id} \cup (UNION {tokens[t] : t \in Client \ {s}})
           \cup {p.old : p \in lockPushes} \cup {p.new : p \in lockPushes})

(* The caller matters until the lock is taken. *)
Granting == {"readback", "undoFirst", "head", "take", "recheck"}
Goto(s, stage) ==
    run' = [run EXCEPT ![s] = At(stage, IF stage \in Granting THEN @.by ELSE "user")]
Finish(s) == Goto(s, "idle")
(* An outcome nobody knows: the read or the push fails. *)
Fault == faults < MaxFaults /\ faults' = faults + 1

(* A push prepared against a commit that is gone cannot land any more; one   *)
(* prepared against the absence of the lock can, whenever it is absent.      *)
StillPossible(pushes, id) == {p \in pushes : p.old \in {0, id}}

SetLock(new) ==
    /\ lock' = new
    /\ lockPushes' = StillPossible(lockPushes, new.id)

(* Every change of the queue makes a new commit: pushes prepared against the *)
(* one before are refused.                                                   *)
SetQueue(new) == queue' = new /\ queuePushes' = {}

(* _mutate_remote_queue: done, or done unseen, or still on its way. *)
WriteQueueTo(s, new, done, unknown) ==
    \/ SetQueue(new) /\ Goto(s, done) /\ UNCHANGED faults
    \/ SetQueue(new) /\ Goto(s, unknown) /\ Fault
    \/ /\ queuePushes' = queuePushes \cup {new}
       /\ Goto(s, unknown) /\ Fault
       /\ UNCHANGED queue

-----------------------------------------------------------------------------
(* Asking for the WRITE mode: request_write, _enqueue_or_return_waiting. *)

RequestWrite(s) ==
    /\ run[s] = Rest
    /\ ~writing[s] /\ ~cancelling[s]
    /\ wants' = [wants EXCEPT ![s] = TRUE]
    /\ run' = [run EXCEPT ![s] = At("enqueue",
                  IF lock.owner \in Client \ {s} /\ lock.lease # "over"
                  THEN "blocked" ELSE "user")]
    /\ UNCHANGED <<remote, tokens, cancelling, ungranted, writing, forfeited, faults>>

Enqueue(s) ==
    /\ run[s].at = "enqueue"
    /\ IF Waits(s)
       THEN Goto(s, "readback") /\ UNCHANGED <<queue, queuePushes, faults>>
       ELSE WriteQueueTo(s, Append(queue, s), "readback", "readback")
    /\ UNCHANGED <<lock, lockPushes, tokens, manager, forfeited>>

(* The request is seen in the queue, or it is not and is cancelled. *)
ReadBack(s) ==
    /\ run[s].at = "readback"
    /\ \/ /\ Waits(s)
          /\ IF run[s].by = "blocked" THEN Finish(s) ELSE Goto(s, "undoFirst")
          /\ UNCHANGED <<cancelling, faults>>
       \/ /\ ~Waits(s)
          /\ cancelling' = [cancelling EXCEPT ![s] = TRUE]
          /\ Goto(s, "cancel")
          /\ UNCHANGED faults
       \/ Fault /\ Finish(s) /\ UNCHANGED cancelling
    /\ UNCHANGED <<remote, tokens, wants, ungranted, writing, forfeited>>

-----------------------------------------------------------------------------
(* Rolling back a provisional lock: _rollback_ungranted_lock, release_lock. *)

NoUngranted(s) == ungranted' = [ungranted EXCEPT ![s] = FALSE]

(* The lock is absent, deleted and seen to be absent, or another session's. *)
RollbackSucceeds(s) ==
    \/ ~ungranted[s] /\ UNCHANGED <<lock, lockPushes, tokens, ungranted>>
    \/ /\ ungranted[s] /\ lock.owner \notin {s, None}
       /\ NoUngranted(s)
       /\ UNCHANGED <<lock, lockPushes, tokens>>
    \/ /\ ungranted[s] /\ lock = Absent /\ tokens[s] # {}
       /\ tokens' = [tokens EXCEPT ![s] = {}]
       /\ NoUngranted(s)
       /\ UNCHANGED <<lock, lockPushes>>
    \/ /\ ungranted[s] /\ Holds(s) /\ lock.id \in tokens[s]
       /\ SetLock(Absent)
       /\ tokens' = [tokens EXCEPT ![s] = {}]
       /\ NoUngranted(s)

(* The deletion of the lock is not seen: it is on its way, or has landed. *)
DeletionUnseen(s) ==
    /\ Holds(s) /\ lock.id \in tokens[s]
    /\ \/ SetLock(Absent)
       \/ /\ lockPushes' = lockPushes \cup {[by |-> s, old |-> lock.id, new |-> 0]}
          /\ UNCHANGED lock
    /\ UNCHANGED tokens

RollbackFails(s) ==
    /\ ungranted[s]
    /\ \/ Fault /\ (DeletionUnseen(s)
                    \/ UNCHANGED <<lock, lockPushes, tokens>>)
       \/ /\ \/ lock = Absent /\ tokens[s] = {}
             \/ Holds(s) /\ lock.id \notin tokens[s]
          /\ UNCHANGED <<lock, lockPushes, tokens, faults>>
    /\ UNCHANGED ungranted

AfterUndo == [undoFirst |-> "head", undoLast |-> "idle",
              undoCancel |-> "idle", undoRefresh |-> "refresh"]

(* Mutant: a rollback that fails does not stop what was to follow. *)
MutUndo(s) ==
    /\ run[s].at \in DOMAIN AfterUndo
    /\ (RollbackSucceeds(s) /\ UNCHANGED faults) \/ RollbackFails(s)
    /\ Goto(s, AfterUndo[run[s].at])
    /\ IF run[s].at = "undoCancel"
       THEN /\ wants' = [wants EXCEPT ![s] = FALSE]
            /\ cancelling' = [cancelling EXCEPT ![s] = FALSE]
       ELSE UNCHANGED <<wants, cancelling>>
    /\ UNCHANGED <<queue, queuePushes, writing, forfeited>>

(* What follows a rollback that succeeds; a cancellation is then complete.   *)
Undo(s) ==
    /\ run[s].at \in DOMAIN AfterUndo
    /\ \/ /\ RollbackSucceeds(s)
          /\ Goto(s, AfterUndo[run[s].at])
          /\ IF run[s].at = "undoCancel"
             THEN /\ wants' = [wants EXCEPT ![s] = FALSE]
                  /\ cancelling' = [cancelling EXCEPT ![s] = FALSE]
             ELSE UNCHANGED <<wants, cancelling>>
          /\ UNCHANGED faults
       \/ RollbackFails(s) /\ Finish(s) /\ UNCHANGED <<wants, cancelling>>
    /\ UNCHANGED <<queue, queuePushes, writing, forfeited>>

-----------------------------------------------------------------------------
(* The grant: _grant_remote_request. *)

(* The poller sees the lock free or expired and this session at the head. *)
PollerGrants(s) ==
    /\ run[s] = Rest
    /\ ~writing[s] /\ ~cancelling[s]
    /\ lock.lease # "valid" /\ AtHead(s)
    /\ run' = [run EXCEPT ![s] = At("undoFirst", "poller")]
    /\ UNCHANGED <<remote, tokens, manager, forfeited, faults>>

FindHead(s) ==
    /\ run[s].at = "head"
    /\ \/ AtHead(s) /\ Goto(s, "take") /\ UNCHANGED faults
       \/ ~AtHead(s) /\ Finish(s) /\ UNCHANGED faults
       \/ Fault /\ Finish(s)
    /\ UNCHANGED <<remote, tokens, manager, forfeited>>

NewLock(s, id) == [id |-> id, owner |-> s, lease |-> "valid"]

(* The candidate is remembered; the lock it may become counts as ours only   *)
(* when the next read shows it, or cannot be made.                           *)
TakeUnseen(s, id) ==
    /\ Fault
    /\ tokens' = [tokens EXCEPT ![s] = @ \cup {id}]
    /\ Finish(s)
    /\ \/ /\ SetLock(NewLock(s, id))
          /\ ungranted' = [ungranted EXCEPT ![s] = TRUE]
       \/ /\ lockPushes' = lockPushes \cup
                {[by |-> s, old |-> lock.id, new |-> id]}
          /\ \E unknown \in BOOLEAN :
                ungranted' = [ungranted EXCEPT ![s] = unknown \/ Holds(s)]
          /\ UNCHANGED lock

(* The lock is held by this very process already, or is acquired; or it is   *)
(* somebody else's, or an older one of this session it has no token for.     *)
Take(s) ==
    /\ run[s].at = "take"
    /\ \/ /\ LiveFor(s) /\ lock.id \in tokens[s]
          /\ ungranted' = [ungranted EXCEPT ![s] = TRUE]
          /\ Goto(s, "recheck")
          /\ UNCHANGED <<lock, lockPushes, tokens, faults>>
       \/ \E id \in FreeIds(s) :
             /\ id = Min(FreeIds(s))
             /\ Takeable(s)
             /\ \/ /\ SetLock(NewLock(s, id))
                   /\ tokens' = [tokens EXCEPT ![s] = {id}]
                   /\ ungranted' = [ungranted EXCEPT ![s] = TRUE]
                   /\ Goto(s, "recheck")
                   /\ UNCHANGED faults
                \/ TakeUnseen(s, id)
       \/ /\ ~Takeable(s) /\ ~(LiveFor(s) /\ lock.id \in tokens[s])
          /\ Finish(s)
          /\ UNCHANGED <<lock, lockPushes, tokens, ungranted, faults>>
       \/ Fault /\ Finish(s) /\ UNCHANGED <<lock, lockPushes, tokens, ungranted>>
    /\ UNCHANGED <<queue, queuePushes, wants, cancelling, writing, forfeited>>

(* The queue again, now that the lock is taken. *)
Recheck(s) ==
    /\ run[s].at = "recheck"
    /\ \/ /\ AtHead(s)
          /\ Goto(s, IF run[s].by = "poller" THEN "guard" ELSE "consume")
          /\ UNCHANGED faults
       \/ ~AtHead(s) /\ Goto(s, "undoLast") /\ UNCHANGED faults
       \/ Fault /\ Goto(s, "undoLast")
    /\ UNCHANGED <<remote, tokens, manager, forfeited>>

(* The user interface has synchronized the data, or could not; meanwhile the *)
(* mutex was free and the user may have asked for a cancellation.            *)
GuardReturns(s) ==
    /\ run[s].at = "guard"
    /\ \E synchronized \in BOOLEAN :
          Goto(s, IF synchronized /\ ~cancelling[s] THEN "consume" ELSE "undoLast")
    /\ UNCHANGED <<remote, tokens, manager, forfeited, faults>>

CancelDuringGuard(s) ==
    /\ run[s].at = "guard" /\ ~cancelling[s]
    /\ cancelling' = [cancelling EXCEPT ![s] = TRUE]
    /\ UNCHANGED <<remote, tokens, run, wants, ungranted, writing, forfeited, faults>>

Consume(s) ==
    /\ run[s].at = "consume"
    /\ \/ AtHead(s) /\ WriteQueueTo(s, Tail(queue), "verify", "undoLast")
       \/ /\ ~AtHead(s)
          /\ Goto(s, "undoLast")
          /\ UNCHANGED <<queue, queuePushes, faults>>
    /\ UNCHANGED <<lock, lockPushes, tokens, manager, forfeited>>

(* Mutant: the consumed request is granted without a last look at the lock. *)
MutVerify(s) ==
    /\ run[s].at = "verify"
    /\ writing' = [writing EXCEPT ![s] = TRUE]
    /\ NoUngranted(s)
    /\ wants' = [wants EXCEPT ![s] = FALSE]
    /\ Finish(s)
    /\ UNCHANGED <<remote, tokens, cancelling, forfeited, faults>>

(* The lock is read once more; only now the session writes. *)
Verify(s) ==
    /\ run[s].at = "verify"
    /\ \/ /\ LiveFor(s)
          /\ writing' = [writing EXCEPT ![s] = TRUE]
          /\ NoUngranted(s)
          /\ wants' = [wants EXCEPT ![s] = FALSE]
          /\ Finish(s)
          /\ UNCHANGED faults
       \/ /\ ~LiveFor(s)
          /\ Goto(s, "undoLast")
          /\ UNCHANGED <<wants, ungranted, writing, faults>>
       \/ /\ Fault
          /\ Goto(s, "undoLast")
          /\ UNCHANGED <<wants, ungranted, writing>>
    /\ UNCHANGED <<remote, tokens, cancelling, forfeited>>

-----------------------------------------------------------------------------
(* Cancelling and refreshing a request. *)

Cancel(s) ==
    /\ run[s] = Rest
    /\ ~writing[s]
    /\ wants[s] \/ cancelling[s]
    /\ cancelling' = [cancelling EXCEPT ![s] = TRUE]
    /\ Goto(s, "cancel")
    /\ UNCHANGED <<remote, tokens, wants, ungranted, writing, forfeited, faults>>

(* Mutant: nothing is written when the request is absent. *)
MutCancelInQueue(s) ==
    /\ run[s].at = "cancel"
    /\ IF Waits(s)
       THEN WriteQueueTo(s, RemoveFirst(queue, s), "remaining", "idle")
       ELSE Goto(s, "remaining") /\ UNCHANGED <<queue, queuePushes, faults>>
    /\ UNCHANGED <<lock, lockPushes, tokens, manager, forfeited>>

(* A new queue commit even when the request is absent. *)
CancelInQueue(s) ==
    /\ run[s].at = "cancel"
    /\ WriteQueueTo(s, RemoveFirst(queue, s), "remaining", "idle")
    /\ UNCHANGED <<lock, lockPushes, tokens, manager, forfeited>>

Remaining(s) ==
    /\ run[s].at = "remaining"
    /\ \/ ~Waits(s) /\ Goto(s, "undoCancel") /\ UNCHANGED faults
       \/ Waits(s) /\ Finish(s) /\ UNCHANGED faults
       \/ Fault /\ Finish(s)
    /\ UNCHANGED <<remote, tokens, manager, forfeited>>

(* The lease timer of a session that waits: refresh_waiting_request. *)
RefreshBegin(s) ==
    /\ run[s] = Rest
    /\ ~writing[s] /\ wants[s]
    /\ Goto(s, IF cancelling[s] THEN "cancel" ELSE "undoRefresh")
    /\ UNCHANGED <<remote, tokens, manager, forfeited, faults>>

(* Mutant: a request that is not in the queue any more stays waiting. *)
MutRefreshInQueue(s) ==
    /\ run[s].at = "refresh"
    /\ IF Waits(s)
       THEN WriteQueueTo(s, queue, "idle", "idle")
       ELSE Finish(s) /\ UNCHANGED <<queue, queuePushes, faults>>
    /\ UNCHANGED <<lock, lockPushes, tokens, manager, forfeited>>

(* A request that is not in the queue any more is cancelled. *)
RefreshInQueue(s) ==
    /\ run[s].at = "refresh"
    /\ \/ /\ Waits(s)
          /\ WriteQueueTo(s, queue, "idle", "idle")
          /\ UNCHANGED cancelling
       \/ /\ ~Waits(s)
          /\ cancelling' = [cancelling EXCEPT ![s] = TRUE]
          /\ Goto(s, "cancel")
          /\ UNCHANGED <<queue, queuePushes, faults>>
    /\ UNCHANGED <<lock, lockPushes, tokens, wants, ungranted, writing, forfeited>>

-----------------------------------------------------------------------------
(* While writing. *)

(* renew_remote_lease: a new commit, or one that is still on its way. *)
Renew(s) ==
    /\ run[s] = Rest
    /\ writing[s] /\ LiveFor(s)
    /\ \E id \in FreeIds(s) :
          /\ id = Min(FreeIds(s))
          /\ \/ /\ SetLock(NewLock(s, id))
                /\ tokens' = [tokens EXCEPT ![s] = {id}]
                /\ UNCHANGED faults
             \/ /\ Fault
                /\ tokens' = [tokens EXCEPT ![s] = @ \cup {id}]
                /\ \/ SetLock(NewLock(s, id))
                   \/ /\ lockPushes' = lockPushes \cup
                            {[by |-> s, old |-> lock.id, new |-> id]}
                      /\ UNCHANGED lock
    /\ UNCHANGED <<queue, queuePushes, run, manager, forfeited>>

(* release_write: WRITE is kept until the lock is seen to be gone. *)
Release(s) ==
    /\ run[s] = Rest
    /\ writing[s]
    /\ \/ /\ \/ lock = Absent /\ tokens[s] # {} /\ UNCHANGED <<lock, lockPushes>>
             \/ Holds(s) /\ lock.id \in tokens[s] /\ SetLock(Absent)
          /\ tokens' = [tokens EXCEPT ![s] = {}]
          /\ writing' = [writing EXCEPT ![s] = FALSE]
          /\ forfeited' = forfeited \ {s}
          /\ UNCHANGED faults
       \/ /\ Fault /\ DeletionUnseen(s)
          /\ forfeited' = forfeited \cup {s}
          /\ UNCHANGED writing
    /\ UNCHANGED <<queue, queuePushes, run, wants, cancelling, ungranted>>

(* The lock is seen not to be this session's live one: _sync_local_lock,     *)
(* validate_write_authority, clear_local_write_projection_for_recovery.      *)
LoseWriting(s) ==
    /\ run[s] = Rest
    /\ writing[s] /\ ~LiveFor(s)
    /\ writing' = [writing EXCEPT ![s] = FALSE]
    /\ forfeited' = forfeited \ {s}
    /\ UNCHANGED <<remote, tokens, run, wants, cancelling, ungranted, faults>>

-----------------------------------------------------------------------------
(* The network, the clock, the machines. *)

LockPushLands(p) ==
    /\ lock.id = p.old
    /\ lock' = IF p.new = 0 THEN Absent ELSE NewLock(p.by, p.new)
    /\ lockPushes' = StillPossible(lockPushes \ {p}, p.new)
    /\ UNCHANGED <<queue, queuePushes, tokens, run, manager, forfeited, faults>>

QueuePushLands(q) ==
    /\ SetQueue(q)
    /\ UNCHANGED <<lock, lockPushes, tokens, run, manager, forfeited, faults>>

(* A grant renews nothing: one that lasts longer than the lease is a fault.  *)
GrantRuns(s) == s # None /\ ungranted[s] /\ run[s] # Rest

LeaseEnds ==
    /\ lock # Absent /\ lock.lease # "over"
    /\ IF GrantRuns(lock.owner) THEN Fault ELSE UNCHANGED faults
    /\ lock' = [id |-> lock.id, owner |-> lock.owner,
                lease |-> IF lock.lease = "valid" THEN "grace" ELSE "over"]
    /\ forfeited' = forfeited \cup {s \in {lock.owner} : writing[s]}
    /\ UNCHANGED <<queue, lockPushes, queuePushes, tokens, run, manager>>

(* The process dies for good; a restart is another session. *)
Crash(s) ==
    /\ run[s].at # "dead"
    /\ Fault
    /\ run' = [run EXCEPT ![s] = At("dead", "user")]
    /\ tokens' = [tokens EXCEPT ![s] = {}]
    /\ wants' = [wants EXCEPT ![s] = FALSE]
    /\ cancelling' = [cancelling EXCEPT ![s] = FALSE]
    /\ ungranted' = [ungranted EXCEPT ![s] = FALSE]
    /\ writing' = [writing EXCEPT ![s] = FALSE]
    /\ forfeited' = forfeited \ {s}
    /\ UNCHANGED remote

(* The request of a dead session is refreshed by nobody and filtered out. *)
RequestExpires(s) ==
    /\ run[s].at = "dead" /\ Waits(s)
    /\ queue' = RemoveFirst(queue, s)
    /\ queuePushes' = {RemoveFirst(q, s) : q \in queuePushes}
    /\ UNCHANGED <<lock, lockPushes, tokens, run, manager, forfeited, faults>>

-----------------------------------------------------------------------------
(* A step of the procedure s is in. *)
Continue(s) ==
    \/ Enqueue(s) \/ ReadBack(s) \/ Undo(s)
    \/ FindHead(s) \/ Take(s) \/ Recheck(s) \/ GuardReturns(s) \/ Consume(s)
    \/ Verify(s)
    \/ CancelInQueue(s) \/ Remaining(s) \/ RefreshInQueue(s)

User(s) == RequestWrite(s) \/ Cancel(s) \/ CancelDuringGuard(s) \/ Release(s)
Poller(s) == PollerGrants(s) \/ RefreshBegin(s) \/ Renew(s)

ManagerNext ==
    \/ \E s \in Client : \/ Continue(s) \/ User(s) \/ Poller(s) \/ LoseWriting(s)
                          \/ Crash(s) \/ RequestExpires(s)
    \/ \E p \in lockPushes : LockPushLands(p)
    \/ \E q \in queuePushes : QueuePushLands(q)
    \/ LeaseEnds

ManagerSpec == ManagerInit /\ [][ManagerNext]_managerVars

(* Every procedure comes to its end (each remote call has a timeout), the    *)
(* timers of the poller fire, leases and the requests of the dead expire,    *)
(* and editing ends some day.  Strong fairness for the grant: both timers of *)
(* the poller share one thread, and a poll that is due while a refresh runs  *)
(* comes after it, before the next refresh is due.  And a data               *)
(* synchronization that is tried again and again succeeds at last.           *)
Progress(s) ==
    Continue(s) \/ RefreshBegin(s) \/ Release(s) \/ LoseWriting(s) \/ RequestExpires(s)

Fairness ==
    /\ \A s \in Client :
          /\ WF_managerVars(Progress(s))
          /\ SF_managerVars(PollerGrants(s))
          /\ SF_managerVars(GuardReturns(s) /\ run'[s].at = "consume")
    /\ WF_managerVars(LeaseEnds)

FairSpec == ManagerSpec /\ Fairness

-----------------------------------------------------------------------------
(* Properties *)

Resting(s) == run[s] = Rest

(* A session that neither asks nor writes is in no queue, and no push of its *)
(* earlier calls can bring it back (E1A: IDLE only after the absence of the  *)
(* request and the cancellation barrier are acknowledged).                   *)
NoGhostRequest ==
    \A s \in Client :
        Resting(s) /\ ~wants[s] =>
            /\ ~Waits(s)
            /\ \A q \in queuePushes : \A i \in DOMAIN q : q[i] # s

(* A lock that was granted stays: unless its lease ran out or its session    *)
(* asked for its deletion since, no late push, no rollback of an earlier     *)
(* attempt and no other session takes it away.                               *)
WriterKeepsLock ==
    \A s \in Client : writing[s] /\ s \notin forfeited => Holds(s)

(* From the moment the user asks for a cancellation until it is complete the *)
(* session is not granted, although the handoff in progress cannot be        *)
(* interrupted (E1A: remember cancellation intent, prevent grant).           *)
NoGrantAfterCancel ==
    [][\A s \in Client : cancelling[s] => ~(~writing[s] /\ writing'[s])]_managerVars

(* What the manager promises (ExclusiveWrite).  A writer that is forfeited   *)
(* counts as away: its lease has run out or it has given up the lock, and    *)
(* others may take it; the publication of its work is fenced on its own.     *)
PhaseOf(s) ==
    IF run[s].at = "dead" THEN "dead"
    ELSE IF writing[s] THEN (IF s \in forfeited THEN "away" ELSE "writing")
    ELSE IF cancelling[s] THEN "stopping"
    ELSE IF wants[s] THEN "asking" ELSE "away"

Exclusive == INSTANCE ExclusiveWrite WITH phase <- [s \in Client |-> PhaseOf(s)]

(* Two sessions never write at once, no session comes to write without       *)
(* having asked, and a request does not just vanish: whatever fails during   *)
(* a grant, it stays until it is granted or its cancellation is complete.    *)
OneWritesAtATime == Exclusive!Spec

(* Whoever waits is granted, or its request is cancelled. *)
WaiterServed == \A s \in Client : wants[s] ~> ~wants[s]
=============================================================================
