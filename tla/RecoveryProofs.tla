--------------------------- MODULE RecoveryProofs ---------------------------
(***************************************************************************)
(* Proofs about RecoveryRecord and RecoveryMirror, for any number of       *)
(* sessions, edits and captures, any retention and any queue.              *)
(*                                                                         *)
(* Retention deletes the captures of a session because the history calls   *)
(* it CLEAN, long after that was written, so the argument has to follow    *)
(* what a receipt said into the history: what a CLEAN receipt answers for  *)
(* is MAIN (Accepted); a session the history calls CLEAN has nothing left  *)
(* to publish (OwnHistory); and its captures hold nothing that is not in   *)
(* MAIN, archived or reviewed (OldHistory).  A restore takes edits out of  *)
(* MAIN again: what it takes is in the backup made before it.              *)
(*                                                                         *)
(* The barrier of Finish compares two counts.  Its argument numbers the    *)
(* jobs that wait, and is at the end.                                      *)
(***************************************************************************)
EXTENDS RecoveryMirror, TLAPS

-----------------------------------------------------------------------------
(* The inductive invariant. *)

IsClean(s) == [session |-> s, status |-> "CLEAN"] \in history

(* What a receipt answers for is MAIN, or in the capture it names; what a    *)
(* restore replaces is in a backup.                                          *)
Accepted ==
    /\ restored = "NO" /\ journal.status \in {"CLEAN", "PUBLISHED"} => journal.accepted = main
    /\ restored = "NO" /\ journal.status = "CLEAN" => runtime = journal.accepted
    /\ restored # "NO" => journal.status = "CLEAN" /\ main \cup runtime \subseteq BackedUp
    /\ journal.status = "RECONCILED" =>
         ~running /\ \E c \in captures : c.number = journal.last /\ c.content = journal.accepted

(* The captures of this session are copies of what it had. *)
OwnCaptures ==
    \A c \in captures :
        c.session = journal.session =>
            c.content \subseteq runtime \cup main \cup reviewed \cup BackedUp

(* The history speaks of this session only when the journal was archived and *)
(* no new one was made.                                                      *)
OwnHistory ==
    IsClean(journal.session) =>
        journal.status \in {"CLEAN", "RECONCILED"} /\ runtime \subseteq main \cup BackedUp

(* The captures of a session the history calls CLEAN are not needed. *)
OldHistory ==
    \A c \in captures : c.session # journal.session /\ IsClean(c.session)
                            => c.content \subseteq main \cup reviewed \cup archived \cup BackedUp

RecordInv == TypeOK /\ Accepted /\ OwnCaptures /\ OwnHistory /\ OldHistory /\ WorkKept

-----------------------------------------------------------------------------
(* Types. *)

LEMMA TypeInit == Init => TypeOK
BY RecordAssumption DEF Init, TypeOK, Receipt, Journal, Status

(* Adding a capture keeps the captures numbered. *)
LEMMA PreserveType ==
    ASSUME TypeOK, Preserve
    PROVE  /\ captures' \subseteq Capture /\ taken' \in Nat
           /\ \A c \in captures' : c.number <= taken'
           /\ \A c, d \in captures' : c.number = d.number => c = d
<1>1. CaptureNow \in Capture /\ CaptureNow.number = taken + 1
  BY DEF TypeOK, CaptureNow, Capture, Journal
<1>2. \A c \in captures : c \in Capture /\ c.number \in Nat /\ c.number <= taken
  BY DEF TypeOK, Capture
<1>3. taken \in Nat /\ taken' = taken + 1 /\ captures' = captures \cup {CaptureNow}
  BY DEF TypeOK, Preserve
<1> QED BY <1>1, <1>2, <1>3 DEF TypeOK

LEMMA TypeStep == TypeOK /\ [Next]_record => TypeOK'
<1> SUFFICES ASSUME TypeOK, [Next]_record PROVE TypeOK'
  OBVIOUS
<1> USE DEF TypeOK, backup
<1>1. ASSUME NEW s \in Session, Begin(s) PROVE TypeOK'
  BY <1>1 DEF Begin, Archive, Journal, Status
<1>2. CASE ArchiveOnly
  BY <1>2 DEF ArchiveOnly, Archive, Journal
<1>3. CASE Open
  <2>1. CaptureNow \in Capture /\ CaptureNow.number = taken + 1
    BY DEF CaptureNow, Capture, Journal
  <2>2. \A c \in captures : c \in Capture /\ c.number \in Nat /\ c.number <= taken
    BY DEF Capture
  <2>3. taken \in Nat /\ taken' = taken + 1 /\ captures' \subseteq captures \cup {CaptureNow}
    BY <1>3 DEF Open
  <2>4. taken' \in Nat
    BY <2>3
  <2>5. journal' \in Journal
    BY <1>3, <2>4 DEF Open, UpdateCaptured, Journal, Status
  <2> QED BY <1>3, <2>1, <2>2, <2>3, <2>4, <2>5 DEF Open
<1>4. CASE LoseAuthority
  BY <1>4 DEF LoseAuthority, Journal
<1>5. CASE PushLands
  BY <1>5 DEF PushLands
<1>6. CASE Published
  <2>1. journal' \in Journal
    BY <1>6, PreserveType DEF Published, Journal, Status
  <2> QED BY <1>6, <2>1, PreserveType DEF Published, Keeps
<1>7. ASSUME NEW e \in Edit, SaveAfterPublish(e) PROVE TypeOK'
  BY <1>7 DEF SaveAfterPublish
<1>8. CASE PreservePostPublish
  <2>1. journal' \in Journal
    BY <1>8, PreserveType DEF PreservePostPublish, UpdateCaptured, Journal, Status
  <2> QED BY <1>8, <2>1, PreserveType DEF PreservePostPublish, Keeps
<1>9. CASE Released
  BY <1>9 DEF Released, Update, Keeps, Journal, Status
<1>10. CASE Cancel
  <2>1. journal' \in Journal
    BY <1>10, PreserveType DEF Cancel, UpdateCaptured, Journal, Status
  <2> QED BY <1>10, <2>1, PreserveType DEF Cancel, Keeps
<1>11. CASE Handoff
  BY <1>11 DEF Handoff, Journal
<1>12. CASE Reconcile
  <2>1. journal' \in Journal
    BY <1>12, PreserveType DEF Reconcile, Journal, Status
  <2> QED BY <1>12, <2>1, PreserveType DEF Reconcile, Keeps
<1>13. CASE Synchronize
  <2>1. reviewed' \subseteq Edit /\ runtime' \subseteq Edit /\ journal' \in Journal
    BY <1>13 DEF Synchronize, Journal, Status
  <2> QED BY <1>13, <2>1 DEF Synchronize
<1>14. ASSUME NEW s \in Session, ManualReset(s) PROVE TypeOK'
  BY <1>14 DEF ManualReset, Receipt, Journal, Status
<1>15. ASSUME NEW e \in Edit, Save(e) PROVE TypeOK'
  BY <1>15 DEF Save
<1>16. CASE Publish
  <2>1. journal' \in Journal
    BY <1>16, PreserveType DEF Publish, UpdateCaptured, Journal, Status
  <2> QED BY <1>16, <2>1, PreserveType DEF Publish, Keeps
<1>17. CASE Stop
  BY <1>17 DEF Stop
<1>18. CASE UNCHANGED record
  BY <1>18 DEF record, backup
<1>19. ASSUME CreateBackup \/ (\E b \in backups : Restore(b)) \/ RestoreTorn \/ RestorePublished
       PROVE  TypeOK'
  <2>1. CASE CreateBackup
    BY <2>1 DEF CreateBackup, BackUp
  <2>2. ASSUME NEW b \in backups, Restore(b) PROVE TypeOK'
    BY <2>2 DEF Restore, BackUp
  <2>3. CASE RestoreTorn
    <3>1. runtime' \in SUBSET Edit /\ backups' \subseteq SUBSET Edit
      BY <2>3 DEF RestoreTorn, BackUp
    <3>2. /\ running' = FALSE /\ restored' = "TORN"
          /\ UNCHANGED <<main, journal, history, captures, taken, archived, made,
                         reviewed>>
      BY <2>3 DEF RestoreTorn
    <3>3. {main', runtime', archived', made', reviewed'} \subseteq SUBSET Edit
      BY <3>1, <3>2
    <3> QED BY <3>1, <3>2, <3>3
  <2>4. CASE RestorePublished
    BY <2>4 DEF RestorePublished
  <2> QED BY <1>19, <2>1, <2>2, <2>3, <2>4
<1> QED BY <1>1, <1>2, <1>3, <1>4, <1>5, <1>6, <1>7, <1>8, <1>9, <1>10, <1>11, <1>12, <1>13,
           <1>14, <1>15, <1>16, <1>17, <1>18, <1>19 DEF Next, Other

-----------------------------------------------------------------------------
(* The other parts, step by step. *)

LEMMA RestInit == Init => RecordInv
<1> SUFFICES ASSUME Init PROVE RecordInv
  OBVIOUS
<1>1. /\ main = {} /\ runtime = {} /\ history = {} /\ captures = {} /\ made = {}
      /\ journal.status = "CLEAN" /\ journal.accepted = {}
  BY DEF Init, Receipt
<1> QED BY <1>1, TypeInit DEF RecordInv, Accepted, OwnCaptures, OwnHistory, OldHistory, IsClean,
                              WorkKept

(* Where the live database may be replaced, it holds nothing unpublished     *)
(* that was not reviewed.                                                    *)
LEMMA ReplaceablePublished ==
    ASSUME Accepted, Replaceable, journal.status # "RECONCILED"
    PROVE  runtime = main
BY DEF Accepted, Replaceable

(* A capture of the live database, under the same session and without a      *)
(* change of anything but the journal and of what a restore left, keeps the  *)
(* parts about captures.                                                     *)
LEMMA PreserveKeeps ==
    ASSUME RecordInv, Preserve, journal'.session = journal.session,
           UNCHANGED <<main, runtime, history, archived, backups, made, reviewed>>
    PROVE  OwnCaptures' /\ OldHistory' /\ WorkKept'
<1>1. /\ captures' = captures \cup {CaptureNow}
      /\ CaptureNow.session = journal.session /\ CaptureNow.content = runtime
  BY DEF Preserve, CaptureNow
<1> QED BY <1>1 DEF RecordInv, OwnCaptures, OldHistory, IsClean, WorkKept, Captured, BackedUp

LEMMA StepBegin ==
    ASSUME RecordInv, NEW s \in Session, Begin(s)
    PROVE  Accepted' /\ OwnCaptures' /\ OwnHistory' /\ OldHistory' /\ WorkKept'
<1> DEFINE archive == [session |-> journal.session, status |-> journal.status]
<1>1. /\ history' = history \cup {archive} /\ captures' = captures
      /\ main' = main /\ runtime' = runtime /\ reviewed' = reviewed /\ archived' = archived
      /\ made' = made /\ journal'.session = s /\ journal'.status = "PREPARING"
      /\ UNCHANGED backup /\ restored = "NO"
  BY DEF Begin, Archive, Replaceable
<1>2. /\ s # journal.session /\ \A h \in history : h.session # s
      /\ \A c \in captures : c.session # s
  BY DEF Begin, Fresh, Known
<1>3. ~IsClean(s)'
  BY <1>1, <1>2 DEF IsClean
<1>4. ASSUME NEW c \in captures, IsClean(c.session)'
      PROVE  c.content \subseteq main \cup reviewed \cup archived \cup BackedUp
  <2>1. CASE c.session # journal.session
    BY <1>1, <1>4, <2>1 DEF IsClean, RecordInv, OldHistory
  <2>2. CASE c.session = journal.session
    <3>1. journal.status = "CLEAN" \/ IsClean(journal.session)
      BY <1>1, <1>4, <2>2 DEF IsClean
    <3>2. runtime \subseteq main \cup BackedUp
      BY <3>1, <1>1 DEF RecordInv, OwnHistory, Accepted
    <3> QED BY <2>2, <3>2 DEF RecordInv, OwnCaptures
  <2> QED BY <2>1, <2>2
<1> QED BY <1>1, <1>2, <1>3, <1>4 DEF RecordInv, Accepted, OwnCaptures, OwnHistory, OldHistory,
                                      WorkKept, Captured, BackedUp, backup

LEMMA StepArchiveOnly ==
    ASSUME RecordInv, ArchiveOnly
    PROVE  Accepted' /\ OwnCaptures' /\ OwnHistory' /\ OldHistory' /\ WorkKept'
<1>1. /\ history' = history \cup {[session |-> journal.session, status |-> journal.status]}
      /\ UNCHANGED <<running, main, runtime, journal, captures, taken, archived,
                     made, reviewed, backup>>
  BY DEF ArchiveOnly, Archive
<1>2. \A t : t # journal.session => (IsClean(t)' <=> IsClean(t))
  BY <1>1 DEF IsClean
<1>3. IsClean(journal.session)' => journal.status = "CLEAN" \/ IsClean(journal.session)
  BY <1>1 DEF IsClean
<1> QED BY <1>1, <1>2, <1>3 DEF RecordInv, Accepted, OwnCaptures, OwnHistory, OldHistory,
                                WorkKept, Captured, BackedUp, backup

(* Retention: what it deletes is not needed. *)
LEMMA StepOpen ==
    ASSUME RecordInv, Open
    PROVE  Accepted' /\ OwnCaptures' /\ OwnHistory' /\ OldHistory' /\ WorkKept'
<1>1. PICK gone \in SUBSET Prunable(captures \cup {CaptureNow}) :
            captures' = (captures \cup {CaptureNow}) \ gone
  BY DEF Open
<1>2. CaptureNow.session = journal.session /\ CaptureNow.content = runtime
  BY DEF CaptureNow
<1>3. \A c \in gone : /\ c \in captures
                      /\ c.content \subseteq main \cup reviewed \cup archived \cup BackedUp
  BY <1>2 DEF Prunable, RecordInv, OldHistory, IsClean
<1>4. /\ journal'.status = "OPEN" /\ journal'.session = journal.session
      /\ UNCHANGED <<running, main, runtime, history, archived, made, reviewed, backup>>
  BY DEF Open, UpdateCaptured, RecordInv, TypeOK, Journal
<1>5. ~IsClean(journal.session)
  BY DEF Open, RecordInv, OwnHistory
<1>6. WorkKept'
  BY <1>1, <1>3, <1>4 DEF RecordInv, WorkKept, Captured, BackedUp, backup
<1>7. /\ \A c \in captures' : c \in captures \/ c = CaptureNow
      /\ BackedUp' = BackedUp /\ restored' = restored /\ restored = "NO"
      /\ \A t : IsClean(t)' <=> IsClean(t)
  BY <1>1, <1>4 DEF Open, BackedUp, backup, IsClean, RecordInv, Accepted
<1>8. Accepted' /\ OwnHistory'
  BY <1>4, <1>5, <1>7 DEF Accepted, OwnHistory
<1>9. OwnCaptures' /\ OldHistory'
  BY <1>2, <1>4, <1>5, <1>7 DEF RecordInv, OwnCaptures, OldHistory
<1> QED BY <1>6, <1>8, <1>9

(* A step that changes the live database or the journal only, under the same *)
(* session, while nothing is CLEAN.                                          *)
LEMMA StepEdit ==
    ASSUME RecordInv,
           \/ \E e \in Edit : Save(e) \/ SaveAfterPublish(e)
           \/ LoseAuthority
    PROVE  Accepted' /\ OwnCaptures' /\ OwnHistory' /\ OldHistory' /\ WorkKept'
<1>1. /\ UNCHANGED <<main, history, captures, archived, reviewed, backup>>
      /\ journal'.session = journal.session /\ journal'.status = journal.status
      /\ journal'.accepted = journal.accepted
      /\ journal.status \in {"OPEN", "PUBLISHING", "PUBLISHED"}
      /\ runtime \subseteq runtime' /\ made' \ made \subseteq runtime'
  BY DEF Save, SaveAfterPublish, LoseAuthority, RecordInv, TypeOK, Journal
<1> QED BY <1>1 DEF RecordInv, Accepted, OwnCaptures, OwnHistory, OldHistory, IsClean,
                    WorkKept, Captured, BackedUp, backup

LEMMA StepPushLands ==
    ASSUME RecordInv, PushLands
    PROVE  Accepted' /\ OwnCaptures' /\ OwnHistory' /\ OldHistory' /\ WorkKept'
BY DEF RecordInv, PushLands, Accepted, OwnCaptures, OwnHistory, OldHistory, IsClean,
       WorkKept, Captured, BackedUp, backup

(* Each of these takes a capture of the live database and says so in the     *)
(* journal.                                                                  *)
LEMMA StepCapture ==
    ASSUME RecordInv, Publish \/ Published \/ PreservePostPublish \/ Cancel
    PROVE  Accepted' /\ OwnCaptures' /\ OwnHistory' /\ OldHistory' /\ WorkKept'
<1>1. Preserve /\ Keeps /\ journal'.session = journal.session
  BY DEF Publish, Published, PreservePostPublish, Cancel, UpdateCaptured, RecordInv, TypeOK, Journal
<1>2. /\ journal.status \in {"OPEN", "PUBLISHING", "PUBLISHED"}
      /\ \/ journal'.status \in {"PUBLISHING", "POST_PUBLISH_PENDING", "CANCELLED"}
         \/ journal'.status = "PUBLISHED" /\ journal'.accepted = main
  BY DEF Publish, Published, PreservePostPublish, Cancel, UpdateCaptured, RecordInv, TypeOK, Journal
<1>3. OwnHistory' /\ Accepted'
  BY <1>1, <1>2 DEF RecordInv, OwnHistory, Accepted, Keeps, IsClean, BackedUp, backup
<1> QED BY <1>1, <1>3, PreserveKeeps DEF Keeps, backup

LEMMA StepReleased ==
    ASSUME RecordInv, Released
    PROVE  Accepted' /\ OwnCaptures' /\ OwnHistory' /\ OldHistory' /\ WorkKept'
<1>1. /\ journal'.session = journal.session /\ journal'.status = "CLEAN"
      /\ journal'.accepted = journal.accepted /\ journal.status = "PUBLISHED"
      /\ runtime = journal.accepted /\ UNCHANGED captures /\ Keeps
  BY DEF Released, Update, RecordInv, TypeOK, Journal
<1> QED BY <1>1 DEF RecordInv, Keeps, Accepted, OwnCaptures, OwnHistory, OldHistory, IsClean,
                    WorkKept, Captured, BackedUp, backup

(* MAIN replaces a live database that a receipt answers for. *)
LEMMA StepInstall ==
    ASSUME RecordInv, Handoff \/ Synchronize
    PROVE  Accepted' /\ OwnCaptures' /\ OwnHistory' /\ OldHistory' /\ WorkKept'
<1>1. /\ UNCHANGED <<main, history, captures, archived, made, backup>>
      /\ journal'.session = journal.session /\ journal'.status = "CLEAN"
      /\ journal'.accepted = main /\ runtime' = main
  BY DEF Handoff, Synchronize, RecordInv, TypeOK, Journal
<1>2. restored = "NO" /\ runtime \subseteq main \cup reviewed' /\ reviewed \subseteq reviewed'
  BY ReplaceablePublished DEF Handoff, Synchronize, RecordInv, Replaceable
<1> QED BY <1>1, <1>2 DEF RecordInv, Accepted, OwnCaptures, OwnHistory, OldHistory, IsClean,
                          WorkKept, Captured, BackedUp, backup

LEMMA StepReconcile ==
    ASSUME RecordInv, Reconcile
    PROVE  Accepted' /\ OwnCaptures' /\ OwnHistory' /\ OldHistory' /\ WorkKept'
<1>1. /\ Preserve /\ journal'.session = journal.session /\ restored' = "NO" /\ ~running'
      /\ UNCHANGED <<main, runtime, history, archived, backups, made, reviewed>>
      /\ journal'.status = "RECONCILED" /\ journal'.accepted = runtime /\ journal'.last = taken'
  BY DEF Reconcile, RecordInv, TypeOK, Journal
<1>2. CaptureNow \in captures' /\ CaptureNow.number = taken' /\ CaptureNow.content = runtime
  BY <1>1 DEF Preserve, CaptureNow
<1>3. OwnHistory' /\ Accepted'
  BY <1>1, <1>2 DEF RecordInv, OwnHistory, Accepted, IsClean, BackedUp
<1> QED BY <1>1, <1>3, PreserveKeeps

LEMMA StepManualReset ==
    ASSUME RecordInv, NEW s \in Session, ManualReset(s)
    PROVE  Accepted' /\ OwnCaptures' /\ OwnHistory' /\ OldHistory' /\ WorkKept'
<1>1. /\ UNCHANGED <<main, history, captures, backups, made, reviewed>> /\ restored' = "NO"
      /\ archived' = archived \cup runtime /\ runtime' = main
      /\ journal'.session = s /\ journal'.status = "CLEAN" /\ journal'.accepted = main
  BY DEF ManualReset, Receipt
<1>2. /\ s # journal.session /\ \A h \in history : h.session # s
      /\ \A c \in captures : c.session # s
  BY DEF ManualReset, Fresh, Known
<1>3. ~IsClean(s)' /\ \A t : IsClean(t)' <=> IsClean(t)
  BY <1>1, <1>2 DEF IsClean
<1>4. Accepted' /\ OwnCaptures' /\ OwnHistory'
  BY <1>1, <1>2, <1>3 DEF Accepted, OwnCaptures, OwnHistory
<1>5. OldHistory'
  <2>1. BackedUp' = BackedUp
    BY <1>1 DEF BackedUp
  <2>2. ASSUME NEW c \in captures, IsClean(c.session)
        PROVE  c.content \subseteq main \cup reviewed \cup archived' \cup BackedUp
    BY <1>1, <2>2 DEF RecordInv, OldHistory, OwnCaptures, OwnHistory
  <2> QED BY <1>1, <1>3, <2>1, <2>2 DEF OldHistory
<1> QED BY <1>1, <1>4, <1>5 DEF RecordInv, WorkKept, Captured, BackedUp, backup

(* The backup made before a restore holds all that MAIN has. *)
LEMMA StepRestore ==
    ASSUME RecordInv,
           CreateBackup \/ (\E b \in backups : Restore(b)) \/ RestoreTorn \/ RestorePublished
    PROVE  Accepted' /\ OwnCaptures' /\ OwnHistory' /\ OldHistory' /\ WorkKept'
<1>1. CASE CreateBackup
  <2>1. /\ backups' = backups \cup {runtime}
        /\ UNCHANGED <<running, main, runtime, journal, history, captures, archived, restored, made,
                       reviewed>>
    BY <1>1 DEF CreateBackup, BackUp
  <2>2. BackedUp' = BackedUp \cup runtime
    BY <2>1 DEF BackedUp
  <2> QED BY <2>1, <2>2 DEF RecordInv, Accepted, OwnCaptures, OwnHistory, OldHistory, IsClean,
                            WorkKept, Captured
<1>2. CASE (\E b \in backups : Restore(b)) \/ RestoreTorn
  <2>1. /\ backups' = backups \cup {runtime} /\ runtime' \in backups \cup {{}}
        /\ restored = "NO" /\ restored' # "NO" /\ Replaceable /\ running /\ ~Editing
        /\ UNCHANGED <<main, journal, history, captures, archived, made, reviewed>>
    BY <1>2 DEF Restore, RestoreTorn, BackUp, Replaceable
  <2>2. BackedUp' = BackedUp \cup runtime /\ runtime' \subseteq BackedUp
    BY <2>1 DEF BackedUp
  <2>3. journal.status = "CLEAN" /\ runtime = main
    BY <2>1, ReplaceablePublished DEF Editing, Replaceable, RecordInv, Accepted
  <2> QED BY <2>1, <2>2, <2>3 DEF RecordInv, Accepted, OwnCaptures, OwnHistory, OldHistory, IsClean,
                                  WorkKept, Captured
<1>3. CASE RestorePublished
  <2>1. /\ restored = "SWAPPED" /\ main' = runtime
        /\ UNCHANGED <<runtime, journal, history, captures, archived, backups,
                       restored, made, reviewed>>
    BY <1>3 DEF RestorePublished, backup
  <2>2. main \cup runtime \subseteq BackedUp /\ BackedUp' = BackedUp
    BY <2>1 DEF RecordInv, Accepted, BackedUp
  <2> QED BY <2>1, <2>2 DEF RecordInv, Accepted, OwnCaptures, OwnHistory, OldHistory, IsClean,
                            WorkKept, Captured
<1> QED BY <1>1, <1>2, <1>3

LEMMA RecordStep == RecordInv /\ [Next]_record => RecordInv'
<1> SUFFICES ASSUME RecordInv, [Next]_record PROVE RecordInv'
  OBVIOUS
<1>1. TypeOK'
  BY TypeStep DEF RecordInv
<1>2. Accepted' /\ OwnCaptures' /\ OwnHistory' /\ OldHistory' /\ WorkKept'
  <2>1. CASE UNCHANGED record
    BY <2>1 DEF RecordInv, record, Accepted, OwnCaptures, OwnHistory, OldHistory, IsClean,
                WorkKept, Captured, BackedUp, backup
  <2>2. CASE Stop
    BY <2>2 DEF RecordInv, Stop, Accepted, OwnCaptures, OwnHistory, OldHistory, IsClean,
                WorkKept, Captured, BackedUp, backup
  <2> QED BY <2>1, <2>2, StepBegin, StepArchiveOnly, StepOpen, StepEdit, StepPushLands, StepCapture,
             StepReleased, StepInstall, StepReconcile, StepManualReset, StepRestore DEF Next, Other
<1> QED BY <1>1, <1>2 DEF RecordInv

-----------------------------------------------------------------------------
(* The record. *)

(* RecordInv holds in every reachable state of the record. *)
THEOREM RecordCorrect == RecordSpec => []RecordInv
BY RestInit, RecordStep, PTL DEF RecordSpec

(* No edit is lost over any sequence of sessions, crashes, cancellations,    *)
(* reconciliations and retention, but for what an operator reviewed          *)
(* (begin, prune_captures, reconcile, record_synchronized).                  *)
THEOREM NoWorkLost == RecordSpec => []WorkKept
<1>1. RecordInv => WorkKept
  BY DEF RecordInv
<1> QED BY <1>1, RecordCorrect, PTL

(* assert_replaceable admits only what is in MAIN or in the capture the      *)
(* journal names.                                                            *)
THEOREM ReplaceableSafe == RecordSpec => []ReplaceableIsSafe
<1>1. RecordInv => ReplaceableIsSafe
  BY DEF RecordInv, Accepted, Replaceable, ReplaceableIsSafe
<1> QED BY <1>1, RecordCorrect, PTL

-----------------------------------------------------------------------------
(* The mirror. *)

(* What waits to be copied is committed. *)
MirrorInv ==
    /\ open \in Edit \cup {Nothing} /\ outbox \subseteq Edit
    /\ queue \in Seq(Edit) /\ \A i \in 1 .. Len(queue) : queue[i] \in outbox
    /\ job # Nothing => job \in Job /\ job.edit \in outbox

(* A step of the mirror is a step of the record, or leaves it alone. *)
LEMMA MirrorStepsRecord == open \in Edit \cup {Nothing} /\ [MirrorNext]_vars => [Next]_record
<1> SUFFICES ASSUME open \in Edit \cup {Nothing}, MirrorNext PROVE [Next]_record
  BY DEF vars, record
<1>0. Beside => Other
  BY DEF Beside, Other
<1>1. CASE Beside \/ Commit \/ DrainDone \/ DrainExpires \/ StopAll
  BY <1>0, <1>1 DEF Next, Commit, DrainDone, DrainExpires, Drain, StopAll
<1>2. ASSUME NEW e \in Edit, Note(e) \/ HandOver(e) PROVE UNCHANGED record
  BY <1>2 DEF Note, HandOver
<1>3. CASE Rollback \/ HandOverFails \/ Worker \/ DrainStart
  BY <1>3 DEF Rollback, HandOverFails, Worker, Take, Write, WriteFails, Complete, DrainStart
<1> QED BY <1>1, <1>2, <1>3 DEF MirrorNext

LEMMA MirrorInvInit == MirrorInit => MirrorInv
BY DEF MirrorInit, MirrorInv

LEMMA MirrorInvStep == MirrorInv /\ [MirrorNext]_vars => MirrorInv'
<1> SUFFICES ASSUME MirrorInv, [MirrorNext]_vars PROVE MirrorInv'
  OBVIOUS
<1> USE DEF MirrorInv
<1>1. CASE UNCHANGED mirror
  BY <1>1 DEF mirror, memory
<1>2. ASSUME NEW e \in Edit, Note(e) PROVE MirrorInv'
  BY <1>2 DEF Note
<1>3. ASSUME NEW e \in Edit, HandOver(e) PROVE MirrorInv'
  <2>1. UNCHANGED <<open, outbox, job>>
    BY <1>3 DEF HandOver
  <2>2. queue' = queue \/ (e \in outbox /\ queue' = Append(queue, e))
    BY <1>3 DEF HandOver, Enqueue
  <2> QED BY <2>1, <2>2
<1>4. CASE Commit
  BY <1>4 DEF Commit
<1>5. CASE Rollback \/ HandOverFails
  BY <1>5 DEF Rollback, HandOverFails
<1>6. CASE Take
  BY <1>6 DEF Take, Job
<1>7. CASE Write \/ WriteFails \/ Complete
  BY <1>7 DEF Write, WriteFails, Complete, Job
<1>8. CASE DrainStart \/ DrainDone \/ DrainExpires
  BY <1>8 DEF DrainStart, DrainDone, DrainExpires, Drain
<1>9. CASE StopAll
  BY <1>9 DEF StopAll
<1> QED BY <1>1, <1>2, <1>3, <1>4, <1>5, <1>6, <1>7, <1>8, <1>9 DEF MirrorNext, Worker, vars

(* With a mirror beside it, the record does what it does alone. *)
THEOREM MirrorImplementsRecord == MirrorSpec => RecordSpec
<1>1. MirrorInit => Init
  BY DEF MirrorInit
<1>2. MirrorInv => open \in Edit \cup {Nothing}
  BY DEF MirrorInv
<1> QED BY <1>1, <1>2, MirrorInvInit, MirrorInvStep, MirrorStepsRecord, PTL DEF MirrorSpec, RecordSpec

(* The mirror refines the log of committed operations: what is copied was    *)
(* committed before, whatever was rolled back, refused or interrupted        *)
(* (mirror_after_successful_commit, _run).                                   *)
THEOREM MirrorRefinesLog == MirrorSpec => MirrorIsLog
<1>1. MirrorInit => Log!Init
  BY DEF MirrorInit, Log!Init
<1>2. MirrorInv /\ [MirrorNext]_vars => [Log!Next]_<<outbox, copies>>
  <2> SUFFICES ASSUME MirrorInv, [MirrorNext]_vars PROVE [Log!Next]_<<outbox, copies>>
    OBVIOUS
  <2>1. CASE Commit
    BY <2>1 DEF Commit, MirrorInv, Log!Next, Log!Commit
  <2>2. CASE Write
    BY <2>2 DEF Write, MirrorInv, Log!Next, Log!Copy
  <2>3. CASE UNCHANGED mirror
    BY <2>3 DEF mirror
  <2>4. ASSUME NEW e \in Edit, Note(e) \/ HandOver(e) PROVE UNCHANGED <<outbox, copies>>
    BY <2>4 DEF Note, HandOver
  <2>5. CASE Rollback \/ HandOverFails \/ Take \/ WriteFails \/ Complete
    BY <2>5 DEF Rollback, HandOverFails, Take, WriteFails, Complete
  <2>6. CASE DrainStart \/ DrainDone \/ DrainExpires \/ StopAll
    BY <2>6 DEF DrainStart, DrainDone, DrainExpires, Drain, StopAll
  <2> QED BY <2>1, <2>2, <2>3, <2>4, <2>5, <2>6 DEF MirrorNext, Worker, vars
<1> QED BY <1>1, <1>2, MirrorInvInit, MirrorInvStep, PTL DEF MirrorSpec, MirrorIsLog, Log!Spec

-----------------------------------------------------------------------------
(* The barrier.  Every job that waits has a place: the number of jobs of its *)
(* session that were submitted when it was.                                  *)

Reached ==
    [s \in Session |-> count[s].completed + (IF job # Nothing /\ job.edit[1] = s THEN 1 ELSE 0)]

Places(place) ==
    /\ place \in [1 .. Len(queue) -> Nat]
    /\ \A i \in 1 .. Len(queue) :
          Reached[queue[i][1]] < place[i] /\ place[i] <= count[queue[i][1]].submitted
    /\ \A i, j \in 1 .. Len(queue) : i < j /\ queue[i][1] = queue[j][1] => place[i] < place[j]
    /\ barrier # Nothing =>
          \A i \in 1 .. Len(queue) : queue[i] \in barrier.rows => place[i] <= barrier.target

Unwritten(e) == job # Nothing /\ ~job.written /\ job.edit = e
Waits(e) == \E i \in 1 .. Len(queue) : queue[i] = e

(* What was handed over has its copy, or a chance of one, or was counted.    *)
HandedAccounted ==
    \A e \in handed : count[e[1]].failed > 0 \/ e \in copies \/ Unwritten(e) \/ Waits(e)

BarrierOfSession ==
    barrier # Nothing =>
        /\ barrier \in Barrier /\ barrier.rows \subseteq handed
        /\ running /\ journal.status \in {"OPEN", "PUBLISHING"}
        /\ \A e \in barrier.rows :
              /\ e[1] = journal.session
              /\ Unwritten(e) => Reached[e[1]] <= barrier.target

DrainTypes ==
    /\ {noted, handed} \subseteq SUBSET used /\ noted \cap handed = {} /\ used \subseteq Edit
    /\ queue \in Seq(Edit) /\ job \in Job \cup {Nothing} /\ count \in [Session -> Counters]

DrainInv ==
    /\ DrainTypes /\ HandedAccounted /\ BarrierOfSession /\ DrainIsHonest
    /\ \A s \in Session : Reached[s] <= count[s].submitted
    /\ \E place : Places(place)

LEMMA CountedSubmitted ==
    ASSUME count \in [Session -> Counters], NEW s \in Session, Counted(s, "submitted")
    PROVE  /\ count' \in [Session -> Counters]
           /\ count'[s].submitted = count[s].submitted + 1
           /\ \A t \in Session : /\ count'[t].completed = count[t].completed
                                 /\ count'[t].failed = count[t].failed
                                 /\ t # s => count'[t].submitted = count[t].submitted
BY DEF Counted, Counters

LEMMA CountedCompleted ==
    ASSUME count \in [Session -> Counters], NEW s \in Session, Counted(s, "completed")
    PROVE  /\ count' \in [Session -> Counters]
           /\ count'[s].completed = count[s].completed + 1
           /\ \A t \in Session : /\ count'[t].submitted = count[t].submitted
                                 /\ count'[t].failed = count[t].failed
                                 /\ t # s => count'[t].completed = count[t].completed
BY DEF Counted, Counters

LEMMA CountedFailed ==
    ASSUME count \in [Session -> Counters], NEW s \in Session, Counted(s, "failed")
    PROVE  /\ count' \in [Session -> Counters]
           /\ count'[s].failed = count[s].failed + 1
           /\ \A t \in Session : /\ count'[t].submitted = count[t].submitted
                                 /\ count'[t].completed = count[t].completed
                                 /\ t # s => count'[t].failed = count[t].failed
BY DEF Counted, Counters

LEMMA Numbers ==
    ASSUME count \in [Session -> Counters]
    PROVE  \A s \in Session :
              /\ count[s].submitted \in Nat /\ count[s].completed \in Nat /\ count[s].failed \in Nat
              /\ Reached[s] \in Nat
BY DEF Counters, Reached

LEMMA SessionOfEdit ==
    ASSUME NEW e \in Edit
    PROVE  e[1] \in Session
BY RecordAssumption

LEMMA DrainInit == MirrorInit => DrainInv
<1> SUFFICES ASSUME MirrorInit PROVE DrainInv
  OBVIOUS
<1>1. DrainTypes /\ HandedAccounted /\ BarrierOfSession /\ DrainIsHonest
  BY DEF MirrorInit, DrainTypes, HandedAccounted, BarrierOfSession, DrainIsHonest, NoJobs,
              Counters
<1>2. \A s \in Session : Reached[s] <= count[s].submitted
  BY DEF MirrorInit, NoJobs, Reached
<1>3. Places([i \in 1 .. Len(queue) |-> 0])
  BY DEF MirrorInit, Places
<1> QED BY <1>1, <1>2, <1>3 DEF DrainInv

(* A step that leaves the queue, the worker and the counters alone, and the  *)
(* barrier or what it is about.                                              *)
LEMMA DrainKept ==
    ASSUME DrainInv, UNCHANGED <<queue, job, count, copies, handed, vouched>>, DrainTypes',
           barrier' = Nothing \/ (/\ barrier' = barrier
                                  /\ running' = running /\ journal'.session = journal.session
                                  /\ journal'.status = journal.status)
    PROVE  DrainInv'
<1>1. HandedAccounted' /\ DrainIsHonest'
  BY DEF DrainInv, HandedAccounted, DrainIsHonest, Unwritten, Waits
<1>2. BarrierOfSession'
  BY DEF DrainInv, BarrierOfSession, Unwritten, Reached
<1>3. \A s \in Session : Reached'[s] <= count'[s].submitted
  BY DEF DrainInv, Reached
<1>4. ASSUME NEW place, Places(place) PROVE Places(place)'
  BY <1>4 DEF Places, Reached
<1> QED BY <1>1, <1>2, <1>3, <1>4 DEF DrainInv

LEMMA DrainBeside ==
    ASSUME DrainInv, TypeOK, Beside, UNCHANGED mirror
    PROVE  DrainInv'
<1>1. DrainTypes'
  BY DEF DrainInv, DrainTypes, mirror, memory
<1>2. CASE barrier = Nothing
  BY <1>1, <1>2, DrainKept DEF mirror, memory
<1>3. CASE barrier # Nothing
  <2>1. running' = running /\ journal'.session = journal.session /\ journal'.status = journal.status
    BY <1>3 DEF Beside, LoseAuthority, PushLands, TypeOK, Journal
  <2> QED BY <1>1, <2>1, DrainKept DEF mirror, memory
<1> QED BY <1>2, <1>3

LEMMA DrainNote ==
    ASSUME DrainInv, TypeOK,
           (\E e \in Edit : Note(e)) \/ Commit \/ Rollback \/ HandOverFails
    PROVE  DrainInv'
<1>1. DrainTypes'
  BY DEF DrainInv, DrainTypes, Note, Commit, Rollback, HandOverFails
<1>2. UNCHANGED <<queue, job, count, copies, handed, vouched, barrier, running, journal>>
  BY DEF Note, Commit, Rollback, HandOverFails, record, Save
<1> QED BY <1>1, <1>2, DrainKept

LEMMA DrainHandOver ==
    ASSUME DrainInv, NEW e \in Edit, HandOver(e)
    PROVE  DrainInv'
<1>1. UNCHANGED <<job, barrier, copies, vouched, used, running, journal>>
  BY DEF HandOver, record
<1>2. e \in noted /\ noted' = noted \ {e} /\ e \notin handed /\ e[1] \in Session
  BY SessionOfEdit DEF HandOver, DrainInv, DrainTypes
<1>3. CASE UNCHANGED <<queue, count, handed>>
  BY <1>1, <1>2, <1>3, DrainKept DEF DrainInv, DrainTypes
<1>4. CASE Enqueue(e) /\ Len(queue) < QueueSize
  <2>1. handed' = handed \cup {e} /\ queue' = Append(queue, e) /\ Counted(e[1], "submitted")
    BY <1>4 DEF Enqueue
  <2>2. DrainTypes'
    BY <1>1, <1>2, <2>1, CountedSubmitted DEF DrainInv, DrainTypes
  <2>3. /\ Len(queue') = Len(queue) + 1 /\ queue'[Len(queue) + 1] = e
        /\ \A i \in 1 .. Len(queue) : queue'[i] = queue[i]
        /\ Len(queue) \in Nat /\ \A i \in 1 .. Len(queue) : queue[i] \in Edit
    BY <2>1 DEF DrainInv, DrainTypes
  <2>4. \A s \in Session : /\ Reached'[s] = Reached[s] /\ count'[s].failed = count[s].failed
                           /\ Reached[s] \in Nat /\ count[s].submitted \in Nat
                           /\ count[s].submitted <= count'[s].submitted
    <3>1. count \in [Session -> Counters]
      BY DEF DrainInv, DrainTypes
    <3>2. \A s \in Session : /\ count'[s].completed = count[s].completed
                             /\ count'[s].failed = count[s].failed
                             /\ s # e[1] => count'[s].submitted = count[s].submitted
          /\ count'[e[1]].submitted = count[e[1]].submitted + 1
      BY <1>2, <2>1, <3>1, CountedSubmitted
    <3>3. \A s \in Session : Reached'[s] = Reached[s]
      BY <1>1, <3>2 DEF Reached
    <3> QED BY <3>1, <3>2, <3>3, Numbers
  <2>5. HandedAccounted' /\ DrainIsHonest'
    <3>1. \A f \in handed : f[1] \in Session
      BY SessionOfEdit DEF DrainInv, DrainTypes
    <3>2. \A f : Waits(f) => Waits(f)'
      BY <2>3 DEF Waits
    <3>3. Waits(e)'
      BY <2>3 DEF Waits
    <3> QED BY <1>1, <2>1, <2>4, <3>1, <3>2, <3>3 DEF DrainInv, HandedAccounted, DrainIsHonest, Unwritten
  <2>6. BarrierOfSession'
    <3>1. \A f \in handed : f[1] \in Session
      BY SessionOfEdit DEF DrainInv, DrainTypes
    <3> QED BY <1>1, <2>1, <2>4, <3>1 DEF DrainInv, BarrierOfSession, Unwritten
  <2>7. \A s \in Session : Reached'[s] <= count'[s].submitted
    <3>1. \A s \in Session : Reached[s] <= count[s].submitted /\ count'[s].submitted \in Nat
      BY <2>2 DEF DrainInv, DrainTypes, Counters
    <3> QED BY <2>4, <3>1
  <2>8. \E place : Places(place)'
    <3>1. PICK place : Places(place)
      BY DEF DrainInv
    <3> DEFINE next == [i \in 1 .. Len(queue) + 1 |->
                          IF i = Len(queue) + 1 THEN count[e[1]].submitted + 1 ELSE place[i]]
    <3>2. next \in [1 .. Len(queue') -> Nat]
      BY <1>2, <2>3, <2>4, <3>1 DEF Places
    <3>3. /\ next[Len(queue) + 1] = count[e[1]].submitted + 1
          /\ \A i \in 1 .. Len(queue) : next[i] = place[i] /\ place[i] \in Nat
      BY <2>3, <3>1 DEF Places
    <3> HIDE DEF next
    <3>4. \A i \in 1 .. Len(queue') :
             Reached'[queue'[i][1]] < next[i] /\ next[i] <= count'[queue'[i][1]].submitted
      <4>1. Reached'[e[1]] < next[Len(queue) + 1]
            /\ next[Len(queue) + 1] <= count'[e[1]].submitted
        <5>1. count'[e[1]].submitted = count[e[1]].submitted + 1
          BY <1>2, <2>1, CountedSubmitted DEF DrainInv, DrainTypes
        <5> QED BY <1>2, <2>4, <3>3, <5>1 DEF DrainInv
      <4>2. ASSUME NEW i \in 1 .. Len(queue)
            PROVE  Reached'[queue[i][1]] < next[i] /\ next[i] <= count'[queue[i][1]].submitted
        <5>1. queue[i][1] \in Session
          BY <2>3, SessionOfEdit
        <5>2. count'[queue[i][1]].submitted \in Nat
          BY <5>1, <2>2 DEF DrainTypes, Counters
        <5> QED BY <2>4, <3>1, <3>3, <5>1, <5>2 DEF Places
      <4> QED BY <2>3, <4>1, <4>2
    <3>5. \A i, j \in 1 .. Len(queue') :
             i < j /\ queue'[i][1] = queue'[j][1] => next[i] < next[j]
      <4> SUFFICES ASSUME NEW i \in 1 .. Len(queue'), NEW j \in 1 .. Len(queue'), i < j,
                          queue'[i][1] = queue'[j][1]
                   PROVE  next[i] < next[j]
        OBVIOUS
      <4>1. i \in 1 .. Len(queue)
        BY <2>3
      <4>2. CASE j = Len(queue) + 1
        <5>1. place[i] <= count[e[1]].submitted
          BY <2>3, <3>1, <4>1, <4>2 DEF Places
        <5> QED BY <1>2, <2>4, <3>3, <4>1, <4>2, <5>1
      <4>3. CASE j \in 1 .. Len(queue)
        BY <2>3, <3>1, <3>3, <4>1, <4>3 DEF Places
      <4> QED BY <2>3, <4>2, <4>3
    <3>6. barrier' # Nothing =>
             \A i \in 1 .. Len(queue') : queue'[i] \in barrier'.rows => next[i] <= barrier'.target
      BY <1>1, <1>2, <2>3, <3>1, <3>3 DEF Places, DrainInv, BarrierOfSession
    <3> QED BY <3>2, <3>4, <3>5, <3>6 DEF Places
  <2> QED BY <2>2, <2>5, <2>6, <2>7, <2>8 DEF DrainInv
<1>5. CASE Enqueue(e) /\ ~(Len(queue) < QueueSize)
  <2>1. handed' = handed \cup {e} /\ queue' = queue /\ Counted(e[1], "failed")
    BY <1>5 DEF Enqueue
  <2>2. DrainTypes'
    BY <1>1, <1>2, <2>1, CountedFailed DEF DrainInv, DrainTypes
  <2>3. \A s \in Session : /\ Reached'[s] = Reached[s] /\ count[s].failed \in Nat
                           /\ count'[s].submitted = count[s].submitted
                           /\ count[s].failed > 0 => count'[s].failed > 0
    BY <1>1, <1>2, <2>1, CountedFailed, Numbers DEF DrainInv, DrainTypes, Reached
  <2>4. count'[e[1]].failed > 0
    BY <1>2, <2>1, CountedFailed, Numbers DEF DrainInv, DrainTypes
  <2>5. /\ \A f \in handed : f[1] \in Session
        /\ \A i \in 1 .. Len(queue) : queue[i][1] \in Session
    BY SessionOfEdit DEF DrainInv, DrainTypes
  <2>6. HandedAccounted' /\ DrainIsHonest'
    BY <1>1, <2>1, <2>3, <2>4, <2>5
       DEF DrainInv, HandedAccounted, DrainIsHonest, Unwritten, Waits
  <2>7. BarrierOfSession'
    BY <1>1, <2>1, <2>3, <2>5 DEF DrainInv, BarrierOfSession, Unwritten
  <2>8. \A s \in Session : Reached'[s] <= count'[s].submitted
    BY <2>3 DEF DrainInv
  <2>9. ASSUME NEW place, Places(place) PROVE Places(place)'
    BY <1>1, <2>1, <2>3, <2>5, <2>9 DEF Places
  <2> QED BY <2>2, <2>6, <2>7, <2>8, <2>9 DEF DrainInv
<1> QED BY <1>3, <1>4, <1>5 DEF HandOver, Enqueue

LEMMA DrainTake ==
    ASSUME DrainInv, Take
    PROVE  DrainInv'
<1>1. /\ job = Nothing /\ queue # << >> /\ queue' = Tail(queue)
      /\ job' = [edit |-> queue[1], written |-> FALSE]
      /\ UNCHANGED <<noted, used, count, copies, handed, vouched, barrier, running, journal>>
  BY DEF Take, record, DrainInv, DrainTypes
<1>2. /\ Len(queue) \in Nat \ {0} /\ Len(queue') = Len(queue) - 1
      /\ \A i \in 1 .. Len(queue') : i + 1 \in 1 .. Len(queue) /\ queue'[i] = queue[i + 1]
      /\ \A i \in 1 .. Len(queue) : queue[i] \in Edit /\ queue[i][1] \in Session
  BY <1>1, SessionOfEdit DEF DrainInv, DrainTypes
<1>3. queue[1] \in Edit /\ queue[1][1] \in Session
  BY <1>2
<1>4. job' \in Job /\ job' # Nothing /\ job'.edit = queue[1] /\ ~job'.written
  <2>1. job' \in Job
    BY <1>1, <1>3 DEF Job
  <2> QED BY <1>1, <2>1, MirrorAssumption
<1>5. DrainTypes'
  BY <1>1, <1>4 DEF DrainInv, DrainTypes
<1>6. /\ \A s \in Session : Reached[s] \in Nat /\ count[s].submitted \in Nat
      /\ Reached'[queue[1][1]] = Reached[queue[1][1]] + 1
      /\ \A s \in Session : s # queue[1][1] => Reached'[s] = Reached[s]
  <2>1. count \in [Session -> Counters]
    BY DEF DrainInv, DrainTypes
  <2>2. \A s \in Session : Reached[s] = count[s].completed /\ count[s].completed \in Nat
    BY <1>1, <2>1 DEF Reached, Counters
  <2>3. \A s \in Session : Reached'[s] = count[s].completed + (IF queue[1][1] = s THEN 1 ELSE 0)
    BY <1>1, <1>4 DEF Reached
  <2> QED BY <1>3, <2>1, <2>2, <2>3, Numbers
<1>7. PICK place : Places(place)
  BY DEF DrainInv
<1>8. /\ Reached[queue[1][1]] < place[1] /\ place[1] <= count[queue[1][1]].submitted
      /\ place[1] \in Nat
  BY <1>2, <1>7 DEF Places
<1>9. HandedAccounted' /\ DrainIsHonest'
  <2>1. \A e : Waits(e) => e = queue[1] \/ Waits(e)'
    <3> SUFFICES ASSUME NEW e, NEW i \in 1 .. Len(queue), queue[i] = e, e # queue[1]
                 PROVE  Waits(e)'
      BY DEF Waits
    <3>1. i - 1 \in 1 .. Len(queue') /\ queue'[i - 1] = e
      BY <1>2
    <3> QED BY <3>1 DEF Waits
  <2>2. \A e : e = queue[1] => Unwritten(e)'
    BY <1>4 DEF Unwritten
  <2>3. \A e : ~Unwritten(e)
    BY <1>1 DEF Unwritten
  <2> QED BY <1>1, <2>1, <2>2, <2>3 DEF DrainInv, HandedAccounted, DrainIsHonest
<1>10. BarrierOfSession'
  <2> SUFFICES ASSUME barrier # Nothing, queue[1] \in barrier.rows
               PROVE  Reached'[queue[1][1]] <= barrier.target
    BY <1>1, <1>4 DEF DrainInv, BarrierOfSession, Unwritten
  <2>1. place[1] <= barrier.target
    BY <1>2, <1>7 DEF Places
  <2>2. barrier.target \in Nat
    BY DEF DrainInv, BarrierOfSession, Barrier
  <2> QED BY <1>3, <1>6, <1>8, <2>1, <2>2
<1>11. \A s \in Session : Reached'[s] <= count'[s].submitted
  <2>1. \A s \in Session : Reached[s] <= count[s].submitted
    BY DEF DrainInv
  <2> QED BY <1>1, <1>3, <1>6, <1>8, <2>1
<1>12. \E p : Places(p)'
  <2> DEFINE next == [i \in 1 .. Len(queue') |-> place[i + 1]]
  <2>1. next \in [1 .. Len(queue') -> Nat]
    BY <1>2, <1>7 DEF Places
  <2>2. \A i \in 1 .. Len(queue') : next[i] = place[i + 1] /\ place[i + 1] \in Nat
    BY <1>2, <1>7 DEF Places
  <2> HIDE DEF next
  <2>3. ASSUME NEW i \in 1 .. Len(queue')
        PROVE  Reached'[queue'[i][1]] < next[i] /\ next[i] <= count'[queue'[i][1]].submitted
    <3>1. Reached[queue[i + 1][1]] < place[i + 1] /\ place[i + 1] <= count[queue[i + 1][1]].submitted
      BY <1>2, <1>7 DEF Places
    <3>2. CASE queue[i + 1][1] = queue[1][1]
      <4>1. place[1] < place[i + 1]
        BY <1>2, <1>7, <3>2 DEF Places
      <4> QED BY <1>1, <1>2, <1>3, <1>6, <1>8, <2>2, <3>1, <3>2, <4>1
    <3>3. CASE queue[i + 1][1] # queue[1][1]
      BY <1>1, <1>2, <1>6, <2>2, <3>1, <3>3
    <3> QED BY <3>2, <3>3
  <2>4. ASSUME NEW i \in 1 .. Len(queue'), NEW j \in 1 .. Len(queue'), i < j,
               queue'[i][1] = queue'[j][1]
        PROVE  next[i] < next[j]
    <3>1. i + 1 \in 1 .. Len(queue) /\ j + 1 \in 1 .. Len(queue) /\ i + 1 < j + 1
      BY <1>2, <2>4
    <3>2. queue[i + 1][1] = queue[j + 1][1]
      BY <1>2, <2>4
    <3> QED BY <1>7, <2>2, <3>1, <3>2 DEF Places
  <2>5. barrier' # Nothing =>
           \A i \in 1 .. Len(queue') : queue'[i] \in barrier'.rows => next[i] <= barrier'.target
    BY <1>1, <1>2, <1>7, <2>2 DEF Places
  <2> QED BY <2>1, <2>3, <2>4, <2>5 DEF Places
<1> QED BY <1>5, <1>9, <1>10, <1>11, <1>12 DEF DrainInv

(* The worker has tried; the counters move only after it.                    *)
LEMMA DrainTried ==
    ASSUME DrainInv, Write \/ WriteFails
    PROVE  DrainInv'
<1>1. /\ job # Nothing /\ ~job.written /\ job \in Job /\ job' = [job EXCEPT !.written = TRUE]
      /\ UNCHANGED <<noted, used, queue, handed, vouched, barrier, running, journal>>
  BY DEF Write, WriteFails, record, DrainInv, DrainTypes
<1>2. job.edit \in Edit /\ job.edit[1] \in Session
  BY <1>1, SessionOfEdit DEF Job
<1>3. job' \in Job /\ job' # Nothing /\ job'.edit = job.edit /\ job'.written
  BY <1>1, MirrorAssumption DEF Job
<1>4. count \in [Session -> Counters]
  BY DEF DrainInv, DrainTypes
<1>5. /\ count' \in [Session -> Counters] /\ copies \subseteq copies'
      /\ \A s \in Session : /\ count'[s].submitted = count[s].submitted
                            /\ count'[s].completed = count[s].completed
                            /\ count[s].failed > 0 => count'[s].failed > 0
      /\ job.edit \in copies' \/ count'[job.edit[1]].failed > 0
  <2>1. CASE Write
    BY <1>4, <2>1 DEF Write
  <2>2. CASE WriteFails
    <3>1. Counted(job.edit[1], "failed") /\ copies' = copies
      BY <2>2 DEF WriteFails
    <3>2. \A s \in Session : count[s].failed \in Nat
      BY <1>4 DEF Counters
    <3> QED BY <1>2, <1>4, <3>1, <3>2, CountedFailed
  <2> QED BY <2>1, <2>2
<1>6. \A s \in Session : Reached'[s] = Reached[s]
  BY <1>1, <1>3, <1>5 DEF Reached
<1>7. DrainTypes'
  BY <1>1, <1>3, <1>5 DEF DrainInv, DrainTypes
<1>8. /\ \A e \in handed : e[1] \in Session
      /\ \A i \in 1 .. Len(queue) : queue[i][1] \in Session
  BY SessionOfEdit DEF DrainInv, DrainTypes
<1>9. HandedAccounted' /\ DrainIsHonest'
  <2>1. \A e : Unwritten(e) => e = job.edit
    BY DEF Unwritten
  <2>2. \A e : Waits(e)' <=> Waits(e)
    BY <1>1 DEF Waits
  <2> QED BY <1>1, <1>5, <1>8, <2>1, <2>2 DEF DrainInv, HandedAccounted, DrainIsHonest
<1>10. BarrierOfSession'
  BY <1>1, <1>3 DEF DrainInv, BarrierOfSession, Unwritten
<1>11. \A s \in Session : Reached'[s] <= count'[s].submitted
  BY <1>5, <1>6 DEF DrainInv
<1>12. ASSUME NEW place, Places(place) PROVE Places(place)'
  BY <1>1, <1>5, <1>6, <1>8, <1>12 DEF Places
<1> QED BY <1>7, <1>9, <1>10, <1>11, <1>12 DEF DrainInv

LEMMA DrainComplete ==
    ASSUME DrainInv, Complete
    PROVE  DrainInv'
<1>1. /\ job # Nothing /\ job.written /\ job \in Job /\ job' = Nothing
      /\ Counted(job.edit[1], "completed")
      /\ UNCHANGED <<noted, used, queue, copies, handed, vouched, barrier, running, journal>>
  BY DEF Complete, record, DrainInv, DrainTypes
<1>2. job.edit[1] \in Session
  BY <1>1, SessionOfEdit DEF Job
<1>3. count \in [Session -> Counters]
  BY DEF DrainInv, DrainTypes
<1>4. /\ count' \in [Session -> Counters]
      /\ \A s \in Session : /\ count'[s].submitted = count[s].submitted
                            /\ count'[s].failed = count[s].failed
                            /\ s # job.edit[1] => count'[s].completed = count[s].completed
      /\ count'[job.edit[1]].completed = count[job.edit[1]].completed + 1
  BY <1>1, <1>2, <1>3, CountedCompleted
<1>5. \A s \in Session : Reached'[s] = Reached[s]
  <2>1. \A s \in Session : count[s].completed \in Nat /\ count'[s].completed \in Nat
    BY <1>3, <1>4 DEF Counters
  <2> QED BY <1>1, <1>4, <2>1 DEF Reached
<1>6. DrainTypes'
  BY <1>1, <1>4 DEF DrainInv, DrainTypes
<1>7. /\ \A e \in handed : e[1] \in Session
      /\ \A i \in 1 .. Len(queue) : queue[i][1] \in Session
  BY SessionOfEdit DEF DrainInv, DrainTypes
<1>8. HandedAccounted' /\ DrainIsHonest'
  BY <1>1, <1>4, <1>7 DEF DrainInv, HandedAccounted, DrainIsHonest, Unwritten, Waits
<1>9. BarrierOfSession'
  BY <1>1 DEF DrainInv, BarrierOfSession, Unwritten
<1>10. \A s \in Session : Reached'[s] <= count'[s].submitted
  BY <1>4, <1>5 DEF DrainInv
<1>11. ASSUME NEW place, Places(place) PROVE Places(place)'
  BY <1>1, <1>4, <1>5, <1>7, <1>11 DEF Places
<1> QED BY <1>6, <1>8, <1>9, <1>10, <1>11 DEF DrainInv

(* The barrier counts what was submitted: no place is later. *)
LEMMA DrainStarts ==
    ASSUME DrainInv, TypeOK, DrainStart
    PROVE  DrainInv'
<1>1. /\ running /\ journal.status \in {"OPEN", "PUBLISHING"}
      /\ barrier' = [target |-> count[journal.session].submitted,
                     rows |-> {e \in handed : e[1] = journal.session}]
      /\ UNCHANGED <<noted, used, queue, job, count, copies, handed, vouched, running, journal>>
  BY DEF DrainStart, record
<1>2. DrainTypes' /\ HandedAccounted' /\ DrainIsHonest'
  BY <1>1 DEF DrainInv, DrainTypes, HandedAccounted, DrainIsHonest, Unwritten, Waits
<1>3. Reached' = Reached
  BY <1>1 DEF Reached
<1>4. \A s \in Session : Reached'[s] <= count'[s].submitted
  BY <1>1, <1>3 DEF DrainInv
<1>5. BarrierOfSession'
  <2> SUFFICES ASSUME barrier' # Nothing PROVE BarrierOfSession'
    BY DEF BarrierOfSession
  <2>1. handed \subseteq Edit /\ count \in [Session -> Counters]
    BY DEF DrainInv, DrainTypes
  <2>2. journal.session \in Session
    BY DEF TypeOK, Journal
  <2>3. barrier' \in Barrier
    BY <1>1, <2>1, <2>2 DEF Barrier, Counters
  <2>4. barrier'.rows \subseteq handed' /\ \A e \in barrier'.rows : e[1] = journal'.session
    BY <1>1
  <2>5. Reached'[journal.session] <= barrier'.target
    BY <1>1, <1>4, <2>2
  <2> QED BY <1>1, <2>3, <2>4, <2>5 DEF BarrierOfSession
<1>6. ASSUME NEW place, Places(place) PROVE Places(place)'
  BY <1>1, <1>3, <1>6 DEF Places
<1> QED BY <1>2, <1>4, <1>5, <1>6 DEF DrainInv

(* When as many jobs are completed as the barrier asks for, none of its rows *)
(* is in the queue or in the hands of the worker.                            *)
LEMMA DrainEnds ==
    ASSUME DrainInv, TypeOK, DrainDone \/ DrainExpires
    PROVE  DrainInv'
<1>1. /\ barrier # Nothing /\ barrier' = Nothing
      /\ UNCHANGED <<noted, used, queue, job, count, copies, handed>>
      /\ vouched' = vouched \/ vouched' = vouched \cup barrier.rows
  BY DEF DrainDone, DrainExpires, Drain
<1>2. DrainTypes' /\ HandedAccounted' /\ BarrierOfSession'
  BY <1>1 DEF DrainInv, DrainTypes, HandedAccounted, BarrierOfSession, Unwritten, Waits
<1>3. Reached' = Reached
  BY <1>1 DEF Reached
<1>4. \A s \in Session : Reached'[s] <= count'[s].submitted
  BY <1>1, <1>3 DEF DrainInv
<1>5. DrainIsHonest'
  <2>1. CASE vouched' = vouched
    BY <1>1, <2>1 DEF DrainInv, DrainIsHonest
  <2>2. CASE vouched' # vouched
    <3>1. count[journal.session].failed = 0
          /\ count[journal.session].completed >= barrier.target
      BY <1>1, <2>2 DEF DrainDone, DrainExpires, Drain
    <3>2. SUFFICES ASSUME NEW e \in barrier.rows PROVE e \in copies
      BY <1>1 DEF DrainInv, DrainIsHonest
    <3>3. /\ barrier \in Barrier /\ e \in handed /\ e[1] = journal.session
          /\ Unwritten(e) => Reached[e[1]] <= barrier.target
      BY <1>1 DEF DrainInv, BarrierOfSession
    <3>4. e[1] \in Session /\ barrier.target \in Nat /\ count \in [Session -> Counters]
      BY <3>3, SessionOfEdit DEF Barrier, DrainInv, DrainTypes
    <3>5. /\ count[e[1]].completed \in Nat /\ count[e[1]].failed = 0
          /\ count[e[1]].completed >= barrier.target
      BY <3>1, <3>3, <3>4 DEF Counters
    <3>6. ~Unwritten(e)
      <4> SUFFICES ASSUME Unwritten(e) PROVE FALSE
        OBVIOUS
      <4>1. Reached[e[1]] = count[e[1]].completed + 1
        BY <3>4 DEF Unwritten, Reached
      <4> QED BY <3>3, <3>4, <3>5, <4>1
    <3>7. ~Waits(e)
      <4> SUFFICES ASSUME NEW i \in 1 .. Len(queue), queue[i] = e PROVE FALSE
        BY DEF Waits
      <4>1. PICK place : Places(place)
        BY DEF DrainInv
      <4>2. /\ Reached[e[1]] < place[i] /\ place[i] <= barrier.target /\ place[i] \in Nat
        BY <1>1, <4>1 DEF Places
      <4>3. Reached[e[1]] >= count[e[1]].completed /\ Reached[e[1]] \in Nat
        BY <3>4, <3>5 DEF Reached
      <4> QED BY <3>4, <3>5, <4>2, <4>3
    <3> QED BY <3>3, <3>5, <3>6, <3>7 DEF DrainInv, HandedAccounted
  <2> QED BY <2>1, <2>2
<1>6. ASSUME NEW place, Places(place) PROVE Places(place)'
  BY <1>1, <1>3, <1>6 DEF Places
<1> QED BY <1>2, <1>4, <1>5, <1>6 DEF DrainInv

LEMMA DrainStopAll ==
    ASSUME DrainInv, StopAll
    PROVE  DrainInv'
<1>1. /\ noted' = {} /\ queue' = << >> /\ job' = Nothing /\ count' = NoJobs /\ barrier' = Nothing
      /\ used' = {} /\ handed' = {} /\ UNCHANGED <<copies, vouched>>
  BY DEF StopAll
<1>2. DrainTypes' /\ HandedAccounted' /\ BarrierOfSession' /\ DrainIsHonest'
  BY <1>1 DEF DrainInv, DrainTypes, HandedAccounted, BarrierOfSession, DrainIsHonest, NoJobs, Counters
<1>3. \A s \in Session : Reached'[s] <= count'[s].submitted
  BY <1>1 DEF NoJobs, Reached
<1>4. \E place : Places(place)'
  <2>1. Places([i \in 1 .. 0 |-> 0])'
    BY <1>1 DEF Places
  <2> QED BY <2>1
<1> QED BY <1>2, <1>3, <1>4 DEF DrainInv

LEMMA DrainStep == DrainInv /\ TypeOK /\ [MirrorNext]_vars => DrainInv'
<1> SUFFICES ASSUME DrainInv, TypeOK, [MirrorNext]_vars PROVE DrainInv'
  OBVIOUS
<1>1. CASE UNCHANGED vars
  <2>1. UNCHANGED <<queue, job, count, copies, handed, vouched, barrier, running, journal>>
    BY <1>1 DEF vars, mirror, memory, record
  <2>2. DrainTypes'
    BY <1>1 DEF vars, mirror, memory, DrainInv, DrainTypes
  <2> QED BY <2>1, <2>2, DrainKept
<1>2. CASE MirrorNext
  BY <1>2, DrainBeside, DrainNote, DrainHandOver, DrainTake, DrainTried, DrainComplete,
     DrainStarts, DrainEnds, DrainStopAll DEF MirrorNext, Worker
<1> QED BY <1>1, <1>2

(* When Finish notes that the mirror is drained, every row that was handed   *)
(* over before it looked has its copy, whatever was refused, has failed or   *)
(* arrived in between (enqueue, _run, drain).                                *)
THEOREM DrainHonest == MirrorSpec => []DrainIsHonest
<1>1. RecordInv => TypeOK
  BY DEF RecordInv
<1>2. DrainInv => DrainIsHonest
  BY DEF DrainInv
<1> QED BY <1>1, <1>2, MirrorImplementsRecord, RecordCorrect, DrainInit, DrainStep, PTL DEF MirrorSpec
=============================================================================
