---------------------------- MODULE RecoveryMirror ----------------------------
(***************************************************************************)
(* The recovery outbox and its mirror, over the record of RecoveryRecord.  *)
(* An operation saved while the journal is OPEN adds a row to the outbox   *)
(* in its own transaction.  After the commit the row is read back and      *)
(* handed to a worker through a bounded queue; the worker writes an        *)
(* encrypted copy of it outside the workspace.  Saving never waits for the *)
(* worker; Finish waits for it, for a time, and notes in the journal       *)
(* whether all that was handed over was written.                           *)
(*                                                                         *)
(* A row is the edit it records.  The queue, the counters and what is not  *)
(* committed are the memory of a process and end with it.                  *)
(***************************************************************************)
EXTENDS RecoveryRecord, Sequences, SequencesExt

CONSTANTS
    QueueSize, \* the jobs that may wait (_MAX_PENDING)
    Nothing    \* no transaction, no job, no barrier

Counters == [submitted : Nat, completed : Nat, failed : Nat]
Job == [edit : Edit, written : BOOLEAN]
Barrier == [target : Nat, rows : SUBSET Edit]

ASSUME MirrorAssumption == QueueSize \in Nat \ {0} /\ Nothing \notin Edit \cup Job \cup Barrier

VARIABLES
    open,    \* the edit of the open transaction, or Nothing
    noted,   \* rows kept for the time after the commit (_rv02_after_commit_events)
    used,    \* edits whose identities were given to a row
    outbox,  \* history: rows that were committed
    queue,   \* jobs that wait
    job,     \* the job of the worker, or Nothing
    count,   \* per session: submitted, completed, failed
    barrier, \* what Finish waits for, or Nothing: a number of submitted jobs
    copies,  \* rows whose copy is written, whole
    handed,  \* history: committed rows handed to this worker
    vouched  \* rows that a journal's QUEUE_DRAINED (rv02_mirror_state) speaks for

memory == <<open, noted, used, queue, job, count, barrier, handed>>
mirror == <<memory, outbox, copies, vouched>>
vars == <<record, mirror>>

MirrorTypeOK ==
    /\ open \in Edit \cup {Nothing} /\ {noted, used, outbox, copies, handed} \subseteq SUBSET Edit
    /\ queue \in Seq(Edit) /\ Len(queue) <= QueueSize
    /\ job \in Job \cup {Nothing}
    /\ count \in [Session -> Counters]
    /\ barrier \in Barrier \cup {Nothing} /\ vouched \subseteq Edit

NoJobs == [s \in Session |-> [submitted |-> 0, completed |-> 0, failed |-> 0]]

MirrorInit ==
    /\ Init
    /\ open = Nothing /\ noted = {} /\ used = {} /\ queue = << >> /\ job = Nothing
    /\ count = NoJobs /\ barrier = Nothing
    /\ outbox = {} /\ copies = {} /\ handed = {} /\ vouched = {}

-----------------------------------------------------------------------------
(* Saving. *)

(* record_for_active_write, in the transaction of the operation. *)
Note(e) ==
    /\ running /\ journal.status = "OPEN" /\ ~journal.lost /\ e[1] = journal.session
    /\ open = Nothing /\ e \notin used \cup made /\ barrier = Nothing
    /\ \A f \in Edit : f[1] = e[1] /\ f[2] < e[2] => f \in used
    /\ open' = e /\ noted' = noted \cup {e} /\ used' = used \cup {e}
    /\ UNCHANGED <<record, outbox, queue, job, count, barrier, copies, handed, vouched>>

Commit ==
    /\ open # Nothing /\ Save(open)
    /\ outbox' = outbox \cup {open} /\ open' = Nothing
    /\ UNCHANGED <<noted, used, queue, job, count, barrier, copies, handed, vouched>>

(* The row is gone, the note of it is not. *)
Rollback ==
    /\ open # Nothing /\ open' = Nothing
    /\ UNCHANGED <<record, noted, used, outbox, queue, job, count, barrier, copies, handed, vouched>>

Counted(s, field) == count' = [count EXCEPT ![s][field] = @ + 1]

(* enqueue: refused when the queue is full. *)
Enqueue(e) ==
    /\ handed' = handed \cup {e}
    /\ IF Len(queue) < QueueSize
       THEN queue' = Append(queue, e) /\ Counted(e[1], "submitted")
       ELSE UNCHANGED queue /\ Counted(e[1], "failed")

(* Mutant: a noted row is taken for committed. *)
MutHandOver(e) ==
    /\ open = Nothing /\ e \in noted
    /\ noted' = noted \ {e}
    /\ Enqueue(e)
    /\ UNCHANGED <<record, open, used, outbox, job, barrier, copies, vouched>>

(* mirror_after_successful_commit, a noted row at a time: what is not in the *)
(* database is passed over.                                                  *)
HandOver(e) ==
    /\ open = Nothing /\ e \in noted
    /\ noted' = noted \ {e}
    /\ IF e \in outbox \cap runtime THEN Enqueue(e) ELSE UNCHANGED <<queue, count, handed>>
    /\ UNCHANGED <<record, open, used, outbox, job, barrier, copies, vouched>>

(* It fails, and the rest of the rows is not handed over. *)
HandOverFails ==
    /\ open = Nothing /\ noted # {} /\ noted' = {}
    /\ UNCHANGED <<record, open, used, outbox, queue, job, count, barrier, copies, handed, vouched>>

-----------------------------------------------------------------------------
(* The worker. *)

(* Mutant: the worker wakes for a second job. *)
MutTake ==
    /\ job = Nothing /\ Len(queue) > 1
    /\ job' = [edit |-> Head(queue), written |-> FALSE] /\ queue' = Tail(queue)
    /\ UNCHANGED <<record, open, noted, used, outbox, count, barrier, copies, handed, vouched>>

Take ==
    /\ job = Nothing /\ queue # << >>
    /\ job' = [edit |-> Head(queue), written |-> FALSE] /\ queue' = Tail(queue)
    /\ UNCHANGED <<record, open, noted, used, outbox, count, barrier, copies, handed, vouched>>

Write ==
    /\ job # Nothing /\ ~job.written
    /\ copies' = copies \cup {job.edit} /\ job' = [job EXCEPT !.written = TRUE]
    /\ UNCHANGED <<record, open, noted, used, outbox, queue, count, barrier, handed, vouched>>

(* Mutant: the failure is logged and not counted. *)
MutWriteFails ==
    /\ job # Nothing /\ ~job.written
    /\ job' = [job EXCEPT !.written = TRUE]
    /\ UNCHANGED <<record, open, noted, used, outbox, queue, count, barrier, copies, handed, vouched>>

(* No key, no space, or a file that was made and not filled. *)
WriteFails ==
    /\ job # Nothing /\ ~job.written
    /\ job' = [job EXCEPT !.written = TRUE] /\ Counted(job.edit[1], "failed")
    /\ UNCHANGED <<record, open, noted, used, outbox, queue, barrier, copies, handed, vouched>>

Complete ==
    /\ job # Nothing /\ job.written
    /\ job' = Nothing /\ Counted(job.edit[1], "completed")
    /\ UNCHANGED <<record, open, noted, used, outbox, queue, barrier, copies, handed, vouched>>

Worker == Take \/ Write \/ WriteFails \/ Complete

-----------------------------------------------------------------------------
(* Finish: the barrier, and the capture and the status that follow it. *)

DrainStart ==
    /\ running /\ journal.status \in {"OPEN", "PUBLISHING"}
    /\ open = Nothing /\ barrier = Nothing
    /\ barrier' = [target |-> count[journal.session].submitted,
                   rows |-> {e \in handed : e[1] = journal.session}]
    /\ UNCHANGED <<record, open, noted, used, outbox, queue, job, count, copies, handed, vouched>>

Drain(result) ==
    /\ barrier # Nothing /\ Publish
    /\ barrier' = Nothing
    /\ vouched' = IF result = "QUEUE_DRAINED" THEN vouched \cup barrier.rows ELSE vouched
    /\ UNCHANGED <<open, noted, used, outbox, queue, job, count, copies, handed>>

(* All that was submitted is completed in time. *)
DrainDone ==
    LET c == count[journal.session]
    IN  /\ barrier # Nothing => c.completed >= barrier.target
        /\ Drain(IF c.failed = 0 THEN "QUEUE_DRAINED" ELSE "INCOMPLETE")

DrainExpires ==
    /\ barrier # Nothing => count[journal.session].completed < barrier.target
    /\ Drain("INCOMPLETE")

(* The process ends, and its memory with it. *)
StopAll ==
    /\ Stop \/ RestoreTorn
    /\ open' = Nothing /\ noted' = {} /\ queue' = << >> /\ job' = Nothing
    /\ count' = NoJobs /\ barrier' = Nothing /\ used' = {} /\ handed' = {}
    /\ UNCHANGED <<outbox, copies, vouched>>

-----------------------------------------------------------------------------
(* Finish waits in the thread of the interface: until it has its answer only *)
(* the observers of authority act, and pushes that are on their way.         *)
Beside == IF barrier = Nothing THEN Other ELSE LoseAuthority \/ PushLands

MirrorNext ==
    \/ Beside /\ UNCHANGED mirror
    \/ \E e \in Edit : Note(e) \/ HandOver(e)
    \/ Commit \/ Rollback \/ HandOverFails
    \/ Worker
    \/ DrainStart \/ DrainDone \/ DrainExpires
    \/ StopAll

(* The worker is a thread that takes a job whenever there is one. *)
MirrorSpec == MirrorInit /\ [][MirrorNext]_vars /\ WF_vars(Worker)

-----------------------------------------------------------------------------
(* What is copied was committed, whatever was rolled back in between, and a  *)
(* copy is never taken away.                                                 *)
Log == INSTANCE CommittedLog WITH Operation <- Edit, committed <- outbox, copied <- copies
MirrorIsLog == Log!Spec

(* When Finish notes "QUEUE_DRAINED", every row that was handed over before  *)
(* it looked has its copy: a full queue and a failed copy were not missed.   *)
DrainIsHonest == vouched \subseteq copies

(* A full queue, in which a further row would be refused, does not stay      *)
(* full: whatever fails, the worker goes on to the next job.                 *)
FullQueueClears == Len(queue) = QueueSize ~> Len(queue) < QueueSize
=============================================================================
