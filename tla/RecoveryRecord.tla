---------------------------- MODULE RecoveryRecord ----------------------------
(***************************************************************************)
(* The recovery record that one workstation keeps beside its database over *)
(* many edit sessions: the journal, which says whether what is in the live *)
(* database may be replaced; the history of earlier journals; the          *)
(* captures, whole copies of the live database; and the backups, which an  *)
(* administrator makes and restores.                                       *)
(*                                                                         *)
(* WriteTransaction follows one session through its publication and never  *)
(* deletes a capture.  Here publication is only what the journal learns of *)
(* it, and the subject is what survives from session to session: each one  *)
(* begins by archiving the journal of the one before and by deleting old   *)
(* captures.  An edit is <<session, number>>; a database is the set of     *)
(* edits in it.  What other workstations add to MAIN is left out.          *)
(***************************************************************************)
EXTENDS Integers, FiniteSets, FiniteSetsExt

CONSTANTS
    Session,    \* identities of edit sessions, and of receipts for an installed MAIN
    Edit,       \* the edits: <<session, number>>
    Keep,       \* captures of this many newest sessions stay (keep_sessions)
    MaxCaptures, \* bound: captures ever made
    MaxBackups   \* bound: different backups

ASSUME RecordAssumption ==
    /\ Session \subseteq Nat /\ Edit \subseteq Session \X Nat /\ Keep \in Nat \ {0}
    /\ MaxCaptures \in Nat /\ MaxBackups \in Nat

VARIABLES
    running,  \* the application runs on this workstation
    main,     \* the edits in MAIN
    runtime,  \* the edits in the live database
    journal,  \* the journal, or the receipt it has become
    history,  \* what earlier journals said when the next session began
    captures, \* the captures on disk
    taken,    \* captures ever made; numbers them in the order of their times
    archived, \* edits in the archives for manual review, which nothing deletes
    backups,  \* what the backups hold, which nothing deletes
    restored, \* a restore has left other files than the receipt answers for, or none
    made,     \* history: every edit that was saved
    reviewed  \* history: edits an operator reconciled before MAIN replaced them

record == <<running, main, runtime, journal, history, captures, taken, archived, backups, restored,
            made, reviewed>>
backup == <<backups, restored>>

Status == {"PREPARING", "OPEN", "PUBLISHING", "PUBLISHED", "POST_PUBLISH_PENDING", "CLEAN",
           "CANCELLED", "RECONCILED"}

(* "accepted" is the database the receipt answers for: the published one     *)
(* (published_runtime_sha256) or the reconciled one (reconciled_fingerprint). *)
Journal == [session : Session, status : Status, lost : BOOLEAN,
            accepted : SUBSET Edit, last : Nat]
Capture == [number : Nat, session : Session, content : SUBSET Edit]

TypeOK ==
    /\ running \in BOOLEAN
    /\ {main, runtime, archived, made, reviewed} \subseteq SUBSET Edit
    /\ backups \subseteq SUBSET Edit /\ restored \in {"NO", "SWAPPED", "TORN"}
    /\ journal \in Journal
    /\ history \subseteq [session : Session, status : Status]
    /\ captures \subseteq Capture /\ taken \in Nat
    /\ \A c \in captures : c.number <= taken
    /\ \A c, d \in captures : c.number = d.number => c = d

Receipt(s, content) ==
    [session |-> s, status |-> "CLEAN", lost |-> FALSE, accepted |-> content, last |-> 0]

Init ==
    /\ running = TRUE /\ main = {} /\ runtime = {}
    /\ \E s \in Session : (\A t \in Session : s <= t) /\ journal = Receipt(s, {})
    /\ history = {} /\ captures = {} /\ taken = 0 /\ archived = {}
    /\ backups = {} /\ restored = "NO" /\ made = {} /\ reviewed = {}

-----------------------------------------------------------------------------
(* Helpers. *)

(* assert_replaceable: the live database is exactly the one the receipt      *)
(* answers for, and what was reconciled is in a capture.                     *)
Replaceable ==
    /\ journal.status \in {"CLEAN", "PUBLISHED", "RECONCILED"}
    /\ runtime = journal.accepted /\ restored = "NO"
    /\ journal.lost => journal.status = "RECONCILED"
    /\ journal.status = "RECONCILED" => \E c \in captures : c.number = journal.last

CaptureNow == [number |-> taken + 1, session |-> journal.session, content |-> runtime]
Preserve ==
    /\ taken < MaxCaptures /\ taken' = taken + 1
    /\ captures' = captures \cup {CaptureNow}
Update(status) == journal' = [journal EXCEPT !.status = status]
UpdateCaptured(status) == journal' = [journal EXCEPT !.status = status, !.last = taken']

(* Sessions are as new as their newest capture. *)
NewestOf(s, all) == Max({c.number : c \in {d \in all : d.session = s}})
Sessions(all) == {c.session : c \in all}
Recent(all) ==
    {s \in Sessions(all) :
       Cardinality({t \in Sessions(all) : NewestOf(t, all) > NewestOf(s, all)}) < Keep}

(* The captures retention may delete: of old sessions that the history calls *)
(* CLEAN.                                                                    *)
Prunable(all) ==
    {c \in all : /\ c.session \notin Recent(all) \cup {journal.session}
                 /\ [session |-> c.session, status |-> "CLEAN"] \in history}

-----------------------------------------------------------------------------
(* Start Editing: the journal of the session before is archived and a new    *)
(* one installed; then a first capture, retention, and the session is open.  *)

(* Identities are random, never one that a file or a row has; here they are  *)
(* taken in order.                                                           *)
Known == {journal.session} \cup {h.session : h \in history} \cup {c.session : c \in captures}
            \cup {e[1] : e \in made}
Fresh(s) == s \notin Known /\ \A t \in Session : t < s => t \in Known

Archive == history' = history \cup {[session |-> journal.session, status |-> journal.status]}

Begin(s) ==
    /\ running /\ Replaceable /\ Fresh(s)
    /\ Archive
    /\ journal' = [session |-> s, status |-> "PREPARING", lost |-> FALSE,
                   accepted |-> {}, last |-> 0]
    /\ UNCHANGED <<running, main, runtime, captures, taken, archived, made,
                   reviewed, backup>>

(* The process dies, or the disk is full, before the new journal is there. *)
ArchiveOnly ==
    /\ running /\ Replaceable /\ Archive
    /\ UNCHANGED <<running, main, runtime, journal, captures, taken, archived,
                   made, reviewed, backup>>

(* Retention may fail part of the way, and the session goes on. *)
Open ==
    /\ running /\ journal.status = "PREPARING"
    /\ taken < MaxCaptures /\ taken' = taken + 1
    /\ \E gone \in SUBSET Prunable(captures \cup {CaptureNow}) :
          captures' = (captures \cup {CaptureNow}) \ gone
    /\ UpdateCaptured("OPEN")
    /\ UNCHANGED <<running, main, runtime, history, archived, made, reviewed, backup>>

-----------------------------------------------------------------------------
(* Editing, and what the journal learns of the publication. *)

Keeps == UNCHANGED <<running, main, runtime, history, archived, made, reviewed, backup>>

Save(e) ==
    /\ running /\ journal.status = "OPEN" /\ ~journal.lost
    /\ e[1] = journal.session
    /\ runtime' = runtime \cup {e} /\ made' = made \cup {e}
    /\ UNCHANGED <<running, main, journal, history, captures, taken, archived,
                   reviewed, backup>>

LoseAuthority ==
    /\ running /\ journal.status \in {"OPEN", "PUBLISHING"} /\ ~journal.lost
    /\ journal' = [journal EXCEPT !.lost = TRUE]
    /\ UNCHANGED <<running, main, runtime, history, captures, taken, archived,
                   made, reviewed, backup>>

(* A publication that failed may be tried again. *)
Publish ==
    /\ running /\ journal.status \in {"OPEN", "PUBLISHING"}
    /\ Preserve /\ UpdateCaptured("PUBLISHING") /\ Keeps

PushLands ==
    /\ running /\ journal.status = "PUBLISHING" /\ main # main \cup runtime
    /\ main' = main \cup runtime
    /\ UNCHANGED <<running, runtime, journal, history, captures, taken, archived,
                   made, reviewed, backup>>

(* MAIN is observed to be the local commit, and the live database to be the  *)
(* one in it.                                                                *)
Published ==
    /\ running /\ journal.status = "PUBLISHING" /\ ~journal.lost /\ runtime = main
    /\ Preserve
    /\ journal' = [journal EXCEPT !.status = "PUBLISHED", !.accepted = runtime,
                                  !.last = taken']
    /\ Keeps

(* The callback of a publication saves report metadata after the push. *)
SaveAfterPublish(e) ==
    /\ running /\ journal.status = "PUBLISHED" /\ e[1] = journal.session /\ e \notin made
    /\ runtime' = runtime \cup {e} /\ made' = made \cup {e}
    /\ UNCHANGED <<running, main, journal, history, captures, taken, archived,
                   reviewed, backup>>

PreservePostPublish ==
    /\ running /\ journal.status = "PUBLISHED" /\ runtime # journal.accepted
    /\ Preserve /\ UpdateCaptured("POST_PUBLISH_PENDING") /\ Keeps

Released ==
    /\ running /\ journal.status = "PUBLISHED" /\ ~journal.lost /\ runtime = journal.accepted
    /\ Update("CLEAN")
    /\ UNCHANGED <<captures, taken>> /\ Keeps

Cancel ==
    /\ running /\ journal.status \in {"OPEN", "PUBLISHING"}
    /\ Preserve /\ UpdateCaptured("CANCELLED") /\ Keeps

(* A WRITE handoff installs MAIN under a CLEAN receipt. *)
Handoff ==
    /\ running /\ journal.status = "CLEAN" /\ Replaceable
    /\ runtime' = main /\ journal' = [journal EXCEPT !.accepted = main]
    /\ UNCHANGED <<running, main, history, captures, taken, archived, made,
                   reviewed, backup>>

-----------------------------------------------------------------------------
(* Backups.  A restore needs the remote lock under a name of its own, which  *)
(* a workstation that edits does not get, and ends in a restart.             *)

Editing == journal.status \in {"PREPARING", "OPEN", "PUBLISHING", "PUBLISHED"} /\ ~journal.lost

BackUp == backups' = backups \cup {runtime} /\ Cardinality(backups') <= MaxBackups

(* By hand, or for a restore that is refused or rolled back after it. *)
CreateBackup ==
    /\ running /\ ~Editing /\ runtime \notin backups /\ BackUp
    /\ UNCHANGED <<running, main, runtime, journal, history, captures, taken, archived, restored,
                   made, reviewed>>

(* Mutant: the backup is made when the other database is in its place. *)
MutRestore(b) ==
    /\ running /\ ~Editing /\ b \in backups /\ Replaceable
    /\ runtime' = b /\ restored' = "SWAPPED"
    /\ UNCHANGED <<running, main, journal, history, captures, taken, archived, backups, made,
                   reviewed>>

(* restore_backup, both of them: a safety backup, then the exchange.         *)
Restore(b) ==
    /\ running /\ ~Editing /\ b \in backups
    /\ BackUp /\ Replaceable
    /\ runtime' = b /\ restored' = "SWAPPED"
    /\ UNCHANGED <<running, main, journal, history, captures, taken, archived,
                   made, reviewed>>

(* The process dies when the live database is moved away and the other one   *)
(* not in its place: there is none.                                          *)
RestoreTorn ==
    /\ running /\ ~Editing /\ backups # {}
    /\ BackUp /\ Replaceable
    /\ running' = FALSE /\ runtime' = {} /\ restored' = "TORN"
    /\ UNCHANGED <<main, journal, history, captures, taken, archived, made, reviewed>>

(* The restored database becomes MAIN, also when the answer is not seen; the *)
(* receipt is still the one of the database before.                          *)
RestorePublished ==
    /\ running /\ restored = "SWAPPED" /\ main # runtime
    /\ main' = runtime
    /\ UNCHANGED <<running, runtime, journal, history, captures, taken, archived, made, reviewed,
                   backup>>

-----------------------------------------------------------------------------
(* The application stops or dies, an operator reconciles, it starts again.   *)

Stop ==
    /\ running /\ running' = FALSE
    /\ UNCHANGED <<main, runtime, journal, history, captures, taken, archived,
                   made, reviewed, backup>>

(* Mutant: the copy is left to the operator. *)
MutReconcile ==
    /\ ~running
    /\ journal' = [journal EXCEPT !.status = "RECONCILED", !.lost = FALSE, !.accepted = runtime]
    /\ UNCHANGED <<running, main, runtime, history, captures, taken, archived,
                   made, reviewed, backup>>

(* "Explicitly retain local work and permit subsequent remote replacement." *)
Reconcile ==
    /\ ~running /\ restored # "TORN" /\ Preserve
    /\ journal' = [journal EXCEPT !.status = "RECONCILED", !.lost = FALSE,
                                  !.accepted = runtime, !.last = taken']
    /\ restored' = "NO"
    /\ UNCHANGED <<running, main, runtime, history, archived, backups, made, reviewed>>

(* Startup installs MAIN, and the receipt of the same session is CLEAN. *)
Synchronize ==
    /\ ~running /\ Replaceable
    /\ running' = TRUE /\ runtime' = main
    /\ journal' = [journal EXCEPT !.status = "CLEAN", !.accepted = main]
    /\ reviewed' = IF journal.status = "RECONCILED" THEN reviewed \cup runtime ELSE reviewed
    /\ UNCHANGED <<main, history, captures, taken, archived, made, backup>>

(* Startup finds a database no receipt answers for: it is archived whole,    *)
(* and MAIN begins a record of its own.                                      *)
ManualReset(s) ==
    /\ ~running /\ ~Replaceable /\ Fresh(s)
    /\ archived' = archived \cup runtime
    /\ running' = TRUE /\ runtime' = main /\ journal' = Receipt(s, main) /\ restored' = "NO"
    /\ UNCHANGED <<main, history, captures, taken, backups, made, reviewed>>

-----------------------------------------------------------------------------
Other ==
    \/ \E s \in Session : Begin(s)
    \/ ArchiveOnly \/ Open \/ LoseAuthority \/ PushLands \/ Published
    \/ \E e \in Edit : SaveAfterPublish(e)
    \/ PreservePostPublish \/ Released \/ Cancel \/ Handoff
    \/ CreateBackup \/ (\E b \in backups : Restore(b)) \/ RestorePublished
    \/ Reconcile \/ Synchronize
    \/ \E s \in Session : ManualReset(s)

Next == Other \/ (\E e \in Edit : Save(e)) \/ Publish \/ Stop \/ RestoreTorn

RecordSpec == Init /\ [][Next]_record

-----------------------------------------------------------------------------
Captured == UNION {c.content : c \in captures}
BackedUp == UNION backups

(* Nothing may replace the live database unless all that is in it is in MAIN *)
(* or in the capture the journal names.                                      *)
ReplaceableIsSafe ==
    Replaceable => \A e \in runtime : e \in main \/ \E c \in captures :
                                                      c.number = journal.last /\ e \in c.content

(* No edit is lost over any sequence of sessions, crashes, cancellations,    *)
(* retention and restores, but for what an operator reconciled and MAIN then *)
(* replaced.                                                                 *)
WorkKept ==
    made \subseteq main \cup runtime \cup archived \cup Captured \cup BackedUp \cup reviewed
=============================================================================
