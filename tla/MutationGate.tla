----------------------------- MODULE MutationGate -----------------------------
(***************************************************************************)
(* The mutation authority gate of one process: which thread may change the *)
(* live database, and until when.  Every statement and every commit of a   *)
(* database connection asks the gate under its lock (guarded_dbapi.py);    *)
(* the threads that talk to the remote lock feed it what they observed     *)
(* (mutation_authority.py).  No network call is made under the lock, so    *)
(* an observation may be old when it is delivered, may find the lock taken *)
(* by a statement, and may belong to a session that has ended.             *)
(*                                                                         *)
(* There is a second lock, the mutex of the collaboration manager, and it  *)
(* is held over network calls: a renewal reads the remote lock and tells   *)
(* the gate what it saw without giving the mutex up.  What the interface   *)
(* thread does with the mutex waits for nothing else, and is one step.     *)
(*                                                                         *)
(* The remote lease is reduced to what a read of it shows: whether it is   *)
(* ours and when it ends.  One clock stands for the monotonic and the wall *)
(* clock.  Who may change what (permissions, actor) is left out, as are    *)
(* the checks of the identity of the repository: they deny the statement.  *)
(***************************************************************************)
EXTENDS Integers

CONSTANTS
    Handle,     \* database connections, one thread each
    Saver,      \* the connection of the interface thread
    Observer,   \* threads that observe the remote lock
    UI,         \* the interface thread, one of them
    Lease,      \* _lock_timeout, in ticks
    MaxTime,    \* bound: the clock
    MaxOpen     \* bound: editing sessions (incarnations)

ASSUME BoundAssumption == Lease \in Nat \ {0} /\ MaxTime \in Nat /\ MaxOpen \in Nat

VARIABLES
    now,        \* the clock
    lease,      \* [ours, ends]: the remote lock, and the last end of our lease
    leaving,    \* a deletion of our own lock that was given up as unanswered
    tx,         \* state of the write transaction (_state)
    marked,     \* mutation_authority_lost in the recovery journal
    gate,       \* the fields of the gate
    locker,     \* who holds gate.lock beyond one step: a handle or INSTALL
    obs,        \* obs[o]: the observation thread o is working on
    handle,     \* handle[h]: stage, incarnation of its permits, of its first use
    ui,         \* where the interface thread is
    doomed      \* history: the incarnation that was told of its loss

remote == <<lease, leaving>>
vars == <<now, remote, tx, marked, gate, locker, obs, handle, ui, doomed>>

None == "none"
Install == "install"

ASSUME ThreadAssumption ==
    Saver \in Handle /\ UI \in Observer /\ None \notin Handle /\ Install \notin Handle

State == {"IDLE", "EDITING", "FINISHING", "FINISHING_WAITING_FOR_COLLABORATION",
          "PUBLISH_CONFLICT", "LOCAL_SAVED", "FAILED", "EDITING_STALE", "RECOVERY_REQUIRED"}
NoObservation == [inc |-> 0, started |-> 0, ends |-> 0]
Idle == [stage |-> "idle", started |-> 0, ours |-> FALSE, ends |-> 0, mutex |-> FALSE]
Fresh == [stage |-> "free", permits |-> 0, bound |-> 0]

Time == 0 .. MaxTime
End == 0 .. MaxTime + Lease
Incarnation == 0 .. MaxOpen
Gate == [closed : BOOLEAN, lost : BOOLEAN, deadline : End, latest : Time,
         incarnation : Incarnation, finisher : BOOLEAN, failure : BOOLEAN,
         queued : [inc : Incarnation, started : Time, ends : End]]
Observation == [stage : {"idle", "asked", "answered", "condemned", "losing"},
                started : Time, ours : BOOLEAN, ends : End, mutex : BOOLEAN]
Connection == [stage : {"free", "running", "committing"},
               permits : Incarnation, bound : Incarnation]

TypeOK ==
    /\ now \in Time
    /\ lease \in [ours : BOOLEAN, ends : End]
    /\ leaving \in {"no", "flying", "landed"}
    /\ tx \in State /\ marked \in BOOLEAN
    /\ gate \in Gate
    /\ locker \in Handle \cup {None, Install}
    /\ obs \in [Observer -> Observation]
    /\ handle \in [Handle -> Connection]
    /\ ui \in {"ready", "opening", "checking", "assigning", "saving", "failing",
             "pausing", "leaving"}
    /\ doomed \subseteq 1 .. MaxOpen

Init ==
    /\ now = 0
    /\ lease = [ours |-> FALSE, ends |-> 0] /\ leaving = "no"
    /\ tx = "IDLE" /\ marked = FALSE
    /\ gate = [closed |-> TRUE, lost |-> FALSE, deadline |-> 0, latest |-> 0,
               incarnation |-> 0, finisher |-> FALSE, failure |-> FALSE,
               queued |-> NoObservation]
    /\ locker = None
    /\ obs = [o \in Observer |-> Idle]
    /\ handle = [h \in Handle |-> Fresh]
    /\ ui = "ready"
    /\ doomed = {}

-----------------------------------------------------------------------------
(* What the gate does to itself.                                            *)

IsOpen(g) == ~g.closed /\ ~g.lost

(* What is not read again before the next opening clears it is cleared here. *)
Dead(g) == [g EXCEPT !.deadline = 0, !.latest = 0, !.failure = FALSE,
                     !.queued = NoObservation]
Closed(g) == [Dead(g) EXCEPT !.closed = TRUE, !.finisher = FALSE]
Lost(g) == IF IsOpen(g) THEN [Dead(g) EXCEPT !.lost = TRUE] ELSE g

(* An observation of our own lock, asked for at o.started. *)
MutAcceptLate(g, o) ==   \* a whole lease is added to the end of the lease
    IF ~IsOpen(g) \/ o.started < g.latest THEN g
    ELSE IF now >= o.ends THEN Lost(g)
    ELSE [g EXCEPT !.latest = o.started, !.deadline = o.ends + Lease]
Accept(g, o) ==
    IF ~IsOpen(g) \/ o.started < g.latest THEN g
    ELSE IF now >= o.ends THEN Lost(g)
    ELSE [g EXCEPT !.latest = o.started,
                   !.deadline = IF o.started + Lease < o.ends THEN o.started + Lease
                                                              ELSE o.ends]

(* Before an admission the gate takes note of what could not wait for its   *)
(* lock: first a loss, then the newest good observation.                    *)
MutSettled(g) ==   \* the latch is not read
    LET q == [g EXCEPT !.queued = NoObservation]
    IN IF g.queued # NoObservation /\ g.queued.inc = g.incarnation
       THEN Accept(q, g.queued) ELSE q
Settled(g) ==
    LET f == IF g.failure THEN Lost(g) ELSE g
        q == [f EXCEPT !.queued = NoObservation]
    IN IF g.queued # NoObservation /\ g.queued.inc = g.incarnation
       THEN Accept(q, g.queued) ELSE q

(* The state of the transaction admits handle h. *)
Allowed(h) ==
    \/ tx = "EDITING" /\ (gate.finisher => h = Saver)
    \/ tx = "FINISHING" /\ gate.finisher /\ h = Saver

(* What is not admitted for the state, the time or the journal is a loss. *)
Required(h) ==
    LET g == Settled(gate)
    IN IF Allowed(h) /\ now < g.deadline /\ ~marked THEN g ELSE Lost(g)

(* The gate becomes g; a loss that is new is projected to the transaction   *)
(* and to the journal.                                                      *)
Become(g) ==
    /\ gate' = g
    /\ IF g.lost /\ ~gate.lost
       THEN /\ tx' = "RECOVERY_REQUIRED" /\ marked' = TRUE
            /\ doomed' = doomed \cup {g.incarnation}
       ELSE UNCHANGED <<tx, marked, doomed>>

Unlocked == locker = None

(* No renewal holds the mutex of the collaboration manager. *)
MutexFree == \A o \in Observer : ~obs[o].mutex

-----------------------------------------------------------------------------
(* The remote lock and the clock. *)

Tick ==
    /\ now < MaxTime
    /\ now' = now + 1
    /\ UNCHANGED <<remote, tx, marked, gate, locker, obs, handle, ui, doomed>>

Grant ==
    /\ tx = "IDLE" /\ ui = "ready" /\ MutexFree
    /\ lease.ours => now >= lease.ends
    /\ lease' = [ours |-> TRUE, ends |-> now + Lease]
    /\ leaving' = "no"
    /\ UNCHANGED <<now, tx, marked, gate, locker, obs, handle, ui, doomed>>

(* A renewal that was sent while the lock was ours arrives.  A deletion of  *)
(* the lock it replaces can then no longer arrive.                          *)
Renewed ==
    /\ lease.ours
    /\ \E e \in lease.ends .. now + Lease : lease' = [lease EXCEPT !.ends = e]
    /\ leaving' = "no"
    /\ UNCHANGED <<now, tx, marked, gate, locker, obs, handle, ui, doomed>>

(* Another session takes a lock whose lease is over. *)
TakenOver ==
    /\ lease.ours /\ now >= lease.ends
    /\ lease' = [lease EXCEPT !.ours = FALSE]
    /\ UNCHANGED <<now, leaving, tx, marked, gate, locker, obs, handle, ui, doomed>>

(* A handoff fails: the lock is given back, perhaps without an answer. *)
HandoffFails ==
    /\ tx = "IDLE" /\ ui = "ready" /\ lease.ours /\ MutexFree
    /\ \/ lease' = [lease EXCEPT !.ours = FALSE] /\ UNCHANGED leaving
       \/ leaving' = "flying" /\ UNCHANGED lease
    /\ UNCHANGED <<now, tx, marked, gate, locker, obs, handle, ui, doomed>>

DeletionLands ==
    /\ leaving = "flying" /\ lease.ours
    /\ lease' = [lease EXCEPT !.ours = FALSE]
    /\ leaving' = "landed"
    /\ UNCHANGED <<now, tx, marked, gate, locker, obs, handle, ui, doomed>>

-----------------------------------------------------------------------------
(* Observations.  The start is noted before the read, which may take long.  *)

(* The lease of a session that edits is renewed, until that is suspended.   *)
Renews == tx # "IDLE" /\ ~gate.lost /\ (tx = "EDITING_STALE" => ui # "ready")

(* A status is read without the mutex; a renewal takes it first.            *)
Ask(o) ==
    /\ obs[o].stage = "idle" /\ o # UI
    /\ \E m \in {FALSE, Renews /\ MutexFree} :
         obs' = [obs EXCEPT ![o] = [Idle EXCEPT !.stage = "asked", !.started = now,
                                                !.mutex = m]]
    /\ UNCHANGED <<now, remote, tx, marked, gate, locker, handle, ui, doomed>>

(* A read that fails counts as a lock that is not ours. *)
Answer(o) ==
    /\ obs[o].stage = "asked"
    /\ \E ours \in {lease.ours, FALSE} :
         obs' = [obs EXCEPT ![o] = IF ours THEN [@ EXCEPT !.stage = "answered",
                                                   !.ours = TRUE, !.ends = lease.ends]
                                   ELSE [Idle EXCEPT !.stage = "answered", !.mutex = obs[o].mutex]]
    /\ UNCHANGED <<now, remote, tx, marked, gate, locker, handle, ui, doomed>>

Good(o) == obs[o].ours /\ now < obs[o].ends
Done(o) == obs' = [obs EXCEPT ![o] = Idle]

(* The gate is closed or lost already. *)
DeliverLate(o) ==
    /\ obs[o].stage = "answered" /\ ~IsOpen(gate)
    /\ Done(o)
    /\ UNCHANGED <<now, remote, tx, marked, gate, locker, handle, ui, doomed>>

DeliverGood(o) ==
    /\ obs[o].stage = "answered" /\ IsOpen(gate) /\ Good(o)
    /\ Unlocked
    /\ Become(Accept(gate, obs[o]))
    /\ Done(o)
    /\ UNCHANGED <<now, remote, locker, handle, ui>>

(* A statement holds the lock: the newest good observation is left for it.  *)
DeliverBusy(o) ==
    /\ obs[o].stage = "answered" /\ IsOpen(gate) /\ Good(o)
    /\ ~Unlocked
    /\ gate' = IF gate.queued = NoObservation \/ obs[o].started >= gate.queued.started
               THEN [gate EXCEPT !.queued = [inc |-> gate.incarnation,
                                             started |-> obs[o].started, ends |-> obs[o].ends]]
               ELSE gate
    /\ Done(o)
    /\ UNCHANGED <<now, remote, tx, marked, locker, handle, ui, doomed>>

(* invalidate: the gate is seen open, ...                                   *)
DeliverBad(o) ==
    /\ obs[o].stage = "answered" /\ IsOpen(gate) /\ ~Good(o)
    /\ obs' = [obs EXCEPT ![o] = [Idle EXCEPT !.stage = "condemned",
                                               !.mutex = obs[o].mutex]]
    /\ UNCHANGED <<now, remote, tx, marked, gate, locker, handle, ui, doomed>>

(* ... the loss is latched without the lock, ...                            *)
MutLatch(o) ==   \* the loss only waits for the lock
    /\ obs[o].stage = "condemned"
    /\ doomed' = IF IsOpen(gate) THEN doomed \cup {gate.incarnation} ELSE doomed
    /\ obs' = [obs EXCEPT ![o].stage = "losing"]
    /\ UNCHANGED <<now, remote, tx, marked, gate, locker, handle, ui>>
Latch(o) ==
    /\ obs[o].stage = "condemned"
    /\ IF IsOpen(gate)
       THEN /\ gate' = [gate EXCEPT !.failure = TRUE]
            /\ doomed' = doomed \cup {gate.incarnation}
       ELSE UNCHANGED <<gate, doomed>>
    /\ obs' = [obs EXCEPT ![o].stage = "losing"]
    /\ UNCHANGED <<now, remote, tx, marked, locker, handle, ui>>

(* ... and takes effect when the lock is free.                              *)
Lose(o) ==
    /\ obs[o].stage = "losing" /\ Unlocked
    /\ Become(Lost(gate))
    /\ Done(o)
    /\ UNCHANGED <<now, remote, locker, handle, ui>>

-----------------------------------------------------------------------------
(* Database connections.  A connection runs a statement or a commit under   *)
(* the lock of the gate; its permits live until the transaction ends.       *)

(* The interface thread does nothing else while it waits for the network.   *)
Awake(h) == h = Saver => ui \in {"ready", "saving"}

MayRun(h, g) ==
    /\ IsOpen(g)
    /\ handle[h].permits \in {0, g.incarnation}
    /\ handle[h].bound \in {0, g.incarnation}
MutMayCommit(h, g) == IsOpen(g)   \* the permit of an old session is good
MayCommit(h, g) == IsOpen(g) /\ handle[h].permits = g.incarnation

Execute(h) ==
    /\ handle[h].stage = "free" /\ Unlocked /\ Awake(h)
    /\ LET g == Required(h)
       IN /\ Become(g)
          /\ IF MayRun(h, g)
             THEN /\ handle' = [handle EXCEPT ![h] = [stage |-> "running",
                                  permits |-> g.incarnation, bound |-> g.incarnation]]
                  /\ locker' = h
             ELSE UNCHANGED <<handle, locker>>
    /\ UNCHANGED <<now, remote, obs, ui>>

MutExecuted(h) ==   \* the manager is asked under its mutex
    /\ handle[h].stage = "running" /\ MutexFree
    /\ handle' = [handle EXCEPT ![h].stage = "free"]
    /\ locker' = None
    /\ UNCHANGED <<now, remote, tx, marked, gate, obs, ui, doomed>>
Executed(h) ==
    /\ handle[h].stage = "running"
    /\ handle' = [handle EXCEPT ![h].stage = "free"]
    /\ locker' = None
    /\ UNCHANGED <<now, remote, tx, marked, gate, obs, ui, doomed>>

(* The encrypted intent of an admitted statement cannot be stored. *)
IntentFails(h) ==
    /\ handle[h].stage = "running"
    /\ Become(Lost(gate))
    /\ handle' = [handle EXCEPT ![h].stage = "free"]
    /\ locker' = None
    /\ UNCHANGED <<now, remote, obs, ui>>

(* Reading on in a transaction that changes data is checked like a commit.  *)
Fetch(h) ==
    /\ handle[h].stage = "free" /\ handle[h].permits # 0 /\ Unlocked /\ Awake(h)
    /\ Become(Required(h))
    /\ UNCHANGED <<now, remote, locker, obs, handle, ui>>

Commit(h) ==
    /\ handle[h].stage = "free" /\ handle[h].permits # 0 /\ Unlocked /\ Awake(h)
    /\ LET g == Required(h)
       IN /\ Become(g)
          /\ IF MayCommit(h, g)
             THEN /\ handle' = [handle EXCEPT ![h].stage = "committing"]
                  /\ locker' = h
             ELSE UNCHANGED <<handle, locker>>
    /\ UNCHANGED <<now, remote, obs, ui>>

Committed(h) ==
    /\ handle[h].stage = "committing"
    /\ handle' = [handle EXCEPT ![h].stage = "free", ![h].permits = 0]
    /\ locker' = None
    /\ UNCHANGED <<now, remote, tx, marked, gate, obs, ui, doomed>>

(* rollback, or close: the next use of h is then another connection. *)
Rollback(h) ==
    /\ handle[h].stage = "free" /\ handle[h].bound # 0 /\ Unlocked /\ Awake(h)
    /\ handle' \in {[handle EXCEPT ![h].permits = 0], [handle EXCEPT ![h] = Fresh]}
    /\ UNCHANGED <<now, remote, tx, marked, gate, locker, obs, ui, doomed>>

-----------------------------------------------------------------------------
(* The interface thread. *)

AskUI == obs' = [obs EXCEPT ![UI] = [Idle EXCEPT !.stage = "asked", !.started = now]]

Opened(g) ==
    [Dead(g) EXCEPT !.incarnation = @ + 1, !.lost = FALSE, !.closed = FALSE]

(* A granted session enters EDITING: with a new journal, or, after a pause, *)
(* with the old one and a renewed lease.  The gate opens with no validity   *)
(* and is then fed by an observation of this thread.                        *)
MutOpen ==   \* the gate opens without its lock
    /\ ui = "ready" /\ tx \in {"IDLE", "EDITING_STALE"} /\ lease.ours
    /\ tx = "EDITING_STALE" => ~marked
    /\ gate.incarnation < MaxOpen
    /\ gate' = Opened(gate)
    /\ tx' = "EDITING" /\ marked' = FALSE
    /\ ui' = "opening" /\ AskUI /\ doomed' = {}
    /\ UNCHANGED <<now, remote, locker, handle>>
Open ==
    /\ ui = "ready" /\ tx \in {"IDLE", "EDITING_STALE"} /\ lease.ours /\ Unlocked
    /\ tx = "EDITING_STALE" => ~marked
    /\ gate.incarnation < MaxOpen
    /\ gate' = Opened(gate)
    /\ tx' = "EDITING" /\ marked' = FALSE
    /\ ui' = "opening" /\ AskUI /\ doomed' = {}
    /\ UNCHANGED <<now, remote, locker, handle>>

OpenVerified ==
    /\ ui = "opening" /\ obs[UI] = Idle /\ Unlocked
    /\ IF gate.lost \/ gate.deadline <= now
       THEN /\ gate' = Lost(gate) /\ tx' = "RECOVERY_REQUIRED"
            /\ marked' = (marked \/ IsOpen(gate))
            /\ doomed' = doomed \cup {gate.incarnation}
       ELSE UNCHANGED <<gate, tx, marked, doomed>>
    /\ ui' = "ready"
    /\ UNCHANGED <<now, remote, locker, obs, handle>>

(* finish_editing: first the authority is observed, ...                     *)
MutFinish ==   \* the finisher is set without the lock
    /\ ui = "ready" /\ tx = "EDITING" /\ ~gate.lost
    /\ gate' = [gate EXCEPT !.finisher = TRUE]
    /\ \/ ui' = "checking" /\ AskUI /\ UNCHANGED tx
       \/ tx' = "FINISHING_WAITING_FOR_COLLABORATION" /\ UNCHANGED <<ui, obs>>
    /\ UNCHANGED <<now, remote, marked, locker, handle, doomed>>
Finish ==
    /\ ui = "ready" /\ tx = "EDITING" /\ ~gate.lost /\ Unlocked
    /\ gate' = [gate EXCEPT !.finisher = TRUE]
    /\ \/ ui' = "checking" /\ AskUI /\ UNCHANGED tx
       \/ tx' = "FINISHING_WAITING_FOR_COLLABORATION" /\ UNCHANGED <<ui, obs>>
    /\ UNCHANGED <<now, remote, marked, locker, handle, doomed>>

FinishChecked ==
    /\ ui = "checking" /\ obs[UI] = Idle
    /\ ui' = IF gate.lost THEN "ready" ELSE "assigning"
    /\ UNCHANGED <<now, remote, tx, marked, gate, locker, obs, handle, doomed>>

(* ... then MAIN, and the state is assigned from what MAIN shows; ...       *)
Assign ==
    /\ ui = "assigning"
    /\ \/ tx' = "FINISHING" /\ ui' = "saving"
       \/ tx' = "PUBLISH_CONFLICT" /\ ui' = "ready"
    /\ UNCHANGED <<now, remote, marked, gate, locker, obs, handle, doomed>>

(* ... then the work is saved and the gate closed.                          *)
Saved ==
    /\ ui = "saving" /\ Unlocked
    /\ IF gate.lost THEN UNCHANGED <<gate, tx>>
       ELSE gate' = Closed(gate) /\ tx' = "LOCAL_SAVED"
    /\ ui' = "ready"
    /\ UNCHANGED <<now, remote, marked, locker, obs, handle, doomed>>

SaveFails ==
    /\ ui = "saving" /\ handle[Saver].stage = "free"
    /\ tx' = IF tx = "RECOVERY_REQUIRED" THEN tx ELSE "FAILED"
    /\ ui' = "failing"
    /\ UNCHANGED <<now, remote, marked, gate, locker, obs, handle, doomed>>

FailureCloses ==
    /\ ui = "failing" /\ Unlocked
    /\ gate' = Closed(gate)
    /\ ui' = "ready"
    /\ UNCHANGED <<now, remote, tx, marked, locker, obs, handle, doomed>>

(* The lock is given back, with or without an answer, or kept. *)
GivesBack ==
    \/ UNCHANGED remote
    \/ lease.ours /\ lease' = [lease EXCEPT !.ours = FALSE] /\ UNCHANGED leaving
    \/ lease.ours /\ leaving' = "flying" /\ UNCHANGED lease

(* Idle for too long: the state changes at once, the gate when it can.      *)
Pause ==
    /\ ui = "ready" /\ tx = "EDITING" /\ handle[Saver].stage = "free"
    /\ tx' = "EDITING_STALE" /\ ui' = "pausing"
    /\ UNCHANGED <<now, remote, marked, gate, locker, obs, handle, doomed>>

PauseCloses ==
    /\ ui = "pausing" /\ Unlocked
    /\ gate' = Closed(gate)
    /\ ui' = "leaving"
    /\ UNCHANGED <<now, remote, tx, marked, locker, obs, handle, doomed>>

(* cancel_editing: the work is preserved for review. *)
Cancel ==
    /\ ui = "ready" /\ Unlocked
    /\ tx \in {"EDITING", "FINISHING", "FINISHING_WAITING_FOR_COLLABORATION"}
    /\ gate' = Closed(gate)
    /\ tx' = "RECOVERY_REQUIRED" /\ ui' = "leaving"
    /\ UNCHANGED <<now, remote, marked, locker, obs, handle, doomed>>

(* The saved work is published: the gate is closed, ... *)
Release ==
    /\ ui = "ready" /\ tx = "LOCAL_SAVED" /\ Unlocked
    /\ gate' = Closed(gate)
    /\ ui' = "leaving"
    /\ UNCHANGED <<now, remote, tx, marked, locker, obs, handle, doomed>>

(* ... and then, under the mutex, the lock is released.  After a pause or a *)
(* cancellation it is given back, with or without an answer, or kept.       *)
Leave ==
    /\ ui = "leaving" /\ MutexFree
    /\ \/ tx # "LOCAL_SAVED" /\ GivesBack /\ UNCHANGED tx
       \/ /\ tx = "LOCAL_SAVED" /\ tx' = "IDLE"
          /\ lease' = [lease EXCEPT !.ours = FALSE] /\ UNCHANGED leaving
       \/ tx = "LOCAL_SAVED" /\ leaving' = "flying" /\ UNCHANGED <<tx, lease>>
    /\ ui' = "ready"
    /\ UNCHANGED <<now, marked, gate, locker, obs, handle, doomed>>

(* The process ends and starts again, under a new session identity; what    *)
(* was lost has been reviewed.                                              *)
Restart ==
    /\ lease' = [lease EXCEPT !.ours = FALSE] /\ leaving' = "no"
    /\ gate' = [Closed(gate) EXCEPT !.lost = FALSE]
    /\ tx' = "IDLE" /\ marked' = FALSE
    /\ locker' = None
    /\ obs' = [o \in Observer |-> Idle]
    /\ handle' = [h \in Handle |-> Fresh]
    /\ ui' = "ready" /\ doomed' = {}
    /\ UNCHANGED now

(* The background synchronization replaces the live database. *)
InstallBegin ==
    /\ Unlocked /\ gate.closed /\ tx = "IDLE"
    /\ locker' = Install
    /\ UNCHANGED <<now, remote, tx, marked, gate, obs, handle, ui, doomed>>

InstallEnd ==
    /\ locker = Install
    /\ locker' = None
    /\ UNCHANGED <<now, remote, tx, marked, gate, obs, handle, ui, doomed>>

-----------------------------------------------------------------------------
Observe(o) == Ask(o) \/ Answer(o) \/ DeliverLate(o) \/ DeliverGood(o) \/ DeliverBusy(o)
              \/ DeliverBad(o) \/ Latch(o) \/ Lose(o)
Use(h) == Execute(h) \/ Executed(h) \/ IntentFails(h) \/ Fetch(h) \/ Commit(h)
          \/ Committed(h) \/ Rollback(h)
Interface == Open \/ OpenVerified \/ Finish \/ FinishChecked \/ Assign \/ Saved \/ SaveFails
             \/ FailureCloses \/ Pause \/ PauseCloses \/ Cancel \/ Release \/ Leave

Next ==
    \/ Tick \/ Grant \/ Renewed \/ TakenOver \/ HandoffFails \/ DeletionLands
    \/ \E o \in Observer : Observe(o)
    \/ \E h \in Handle : Use(h)
    \/ Interface \/ Restart \/ InstallBegin \/ InstallEnd

Spec == Init /\ [][Next]_vars

(* A call of the network ends, a thread that has something to tell the gate *)
(* or works under its lock goes on, and the interface thread gets a lock    *)
(* that is free, or, since a renewal is followed by a pause of the poller,  *)
(* that is free again and again.                                            *)
Proceed(o) == Observe(o) /\ obs[o].stage # "idle"
FairSpec ==
    /\ Spec
    /\ \A o \in Observer : WF_vars(Proceed(o))
    /\ \A h \in Handle : WF_vars(Executed(h)) /\ WF_vars(Committed(h))
    /\ WF_vars(InstallEnd)
    /\ WF_vars(FailureCloses) /\ WF_vars(PauseCloses) /\ SF_vars(Leave)

-----------------------------------------------------------------------------
(* Properties.                                                              *)

(* While the gate admits changes the lock is ours and its lease is not      *)
(* over, whatever delays, reordering and earlier sessions did to the        *)
(* observations.  The exception is a deletion of our own that was given up  *)
(* as unanswered before the session began.  (_accept_observation, open)     *)
LeaseCovers ==
    IsOpen(gate) /\ now < gate.deadline /\ leaving # "landed"
        => lease.ours /\ now < lease.ends

(* A commit runs in the session that admitted its statements, and that      *)
(* session is neither lost nor closed before the commit is done: a loss, a  *)
(* finish or an installation waits for it.  (GuardedConnection.commit)      *)
CommitsInItsSession ==
    \A h \in Handle : handle[h].stage = "committing" =>
        /\ IsOpen(gate)
        /\ handle[h].permits = gate.incarnation
        /\ handle[h].bound = gate.incarnation

(* No statement and no commit begins in a session whose loss has been       *)
(* latched, though the loss may still wait for the lock; and what was lost  *)
(* is not regained.  (invalidate: "Its next commit cannot overtake this     *)
(* loss notification.")                                                     *)
LossIsFinal ==
    [][/\ \A h \in Handle :
            handle[h].stage = "free" /\ handle'[h].stage # "free"
                => gate'.incarnation \notin doomed
       /\ gate.lost /\ IsOpen(gate') => gate'.incarnation # gate.incarnation]_vars

(* The live database is never replaced under an open session, and while the *)
(* interface thread saves and copies it no other thread is inside a         *)
(* statement or a commit, though both began to work before the finish.      *)
(* (runtime_install_permit: "Runtime replacement cannot race an active      *)
(* local editor"; finish_editing)                                           *)
InstallIsAlone == locker = Install => gate.closed
SaveIsAlone == ui = "saving" => \A h \in Handle \ {Saver} : handle[h].stage = "free"
NobodyElseInside == InstallIsAlone /\ SaveIsAlone

(* A loss that a thread has seen ends the session that was open, though the *)
(* thread has to wait for the lock and statements keep taking it.           *)
(* (invalidate)                                                             *)
LossTakesEffect ==
    \A i \in 1 .. MaxOpen :
        (\E o \in Observer : obs[o].stage = "condemned") /\ gate.incarnation = i
            ~> ~(IsOpen(gate) /\ gate.incarnation = i)

(* The interface thread is never kept waiting for good: a pause, a          *)
(* cancellation, a release and a failed save need the lock of the gate and  *)
(* then the mutex, the poller needs the lock of the gate while it holds the *)
(* mutex, and statements hold the lock of the gate.  (invalidate: "Do not   *)
(* acquire the collaboration mutex here (renewal owns it).")                *)
InterfaceGoesOn == ui \in {"failing", "pausing", "leaving"} ~> ui = "ready"
=============================================================================
