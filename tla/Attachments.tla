---------------------------- MODULE Attachments ----------------------------
(***************************************************************************)
(* Files that belong to rows of the database: the documents of employees   *)
(* and the vouchers of finance.  The rows travel inside the database, the  *)
(* files beside it, and each kind by a rule of its own.  The documents of  *)
(* MAIN are replaced at every publication by those of the workstation that *)
(* publishes; a voucher is named by its content and only ever added.       *)
(*                                                                         *)
(* Who may write and when a push lands is the subject of WriteTransaction; *)
(* here at most one session holds the lease, any session may lose it, and  *)
(* a push lands only on the commit the session started from.               *)
(***************************************************************************)
EXTENDS Integers, Sequences, FiniteSets, SequencesExt

CONSTANTS
    Workstation,    \* workstations, each with one process at a time
    Document,       \* uploads of employee documents (each has a name of its own)
    Voucher,        \* contents of finance vouchers (a content is its name)
    MaxMainCommits  \* bound: commits of MAIN, the first one included

ASSUME MaxMainCommitsAssumption == MaxMainCommits \in Nat \ {0}

VARIABLES
    commits,    \* the commits of MAIN
    writer,     \* the session with the WRITE lease, or Nobody
    mode,       \* mode[s]: what the process on workstation s does
    head,       \* head[s]: the commit its local repository stands at
    data,       \* data[s]: the rows of its live database
    folder      \* folder[s]: the files under runtime/Attachment

attachmentVars == <<commits, writer, mode, head, data, folder>>

Nobody == "none"

ASSUME NobodyAssumption == Nobody \notin Workstation

Rows == [documents : SUBSET Document, vouchers : SUBSET Voucher]
NoRows == [documents |-> {}, vouchers |-> {}]

(* "stale": the lease is gone and the edits are kept; "failed": a            *)
(* publication ended in doubt, or the work was cancelled.                    *)
Mode == {"down", "reading", "editing", "stale", "finishing", "failed"}

AttachmentsTypeOK ==
    /\ commits \in Seq([rows : Rows, files : Rows]) /\ Len(commits) \in 1 .. MaxMainCommits
    /\ writer \in Workstation \cup {Nobody}
    /\ mode \in [Workstation -> Mode]
    /\ head \in [Workstation -> 1 .. Len(commits)]
    /\ data \in [Workstation -> Rows]
    /\ folder \in [Workstation -> Rows]
    /\ \A s \in Workstation : mode[s] \in {"editing", "finishing"} => writer = s

AttachmentsInit ==
    /\ commits = << [rows |-> NoRows, files |-> NoRows] >>
    /\ writer = Nobody
    /\ mode = [s \in Workstation |-> "down"]
    /\ head = [s \in Workstation |-> 1]
    /\ data = [s \in Workstation |-> NoRows]
    /\ folder = [s \in Workstation |-> NoRows]

Tip == Len(commits)
Enter(s, m) == mode' = [mode EXCEPT ![s] = m]
Leave(s) == writer' = IF writer = s THEN Nobody ELSE writer

-----------------------------------------------------------------------------
(* Following MAIN. *)

(* Startup: the local repository is reset to MAIN, the database and the      *)
(* documents are replaced; vouchers already on the disk stay.                *)
Startup(s) ==
    /\ mode[s] = "down"
    /\ head' = [head EXCEPT ![s] = Tip]
    /\ data' = [data EXCEPT ![s] = commits[Tip].rows]
    /\ folder' = [folder EXCEPT ![s].documents = commits[Tip].files.documents]
    /\ Enter(s, "reading")
    /\ UNCHANGED <<commits, writer>>

(* A background synchronization or a handoff resets the repository ... *)
Reset(s) ==
    /\ mode[s] = "reading"
    /\ head' = [head EXCEPT ![s] = Tip]
    /\ UNCHANGED <<commits, writer, mode, data, folder>>

(* ... and then installs the database of the repository, and only that. *)
InstallDatabase(s) ==
    /\ mode[s] = "reading"
    /\ data' = [data EXCEPT ![s] = commits[head[s]].rows]
    /\ UNCHANGED <<commits, writer, mode, head, folder>>

-----------------------------------------------------------------------------
(* Editing. *)

StartEditing(s) ==
    /\ mode[s] = "reading" /\ writer = Nobody
    /\ head[s] = Tip /\ data[s] = commits[Tip].rows
    /\ writer' = s
    /\ Enter(s, "editing")
    /\ UNCHANGED <<commits, head, data, folder>>

(* upload: the file first, then the row; the row may be refused, and the     *)
(* file stays.                                                               *)
Upload(s, d) ==
    /\ mode[s] = "editing"
    /\ \A t \in Workstation : d \notin folder[t].documents
    /\ \A c \in 1 .. Tip : d \notin commits[c].files.documents
    /\ folder' = [folder EXCEPT ![s].documents = @ \cup {d}]
    /\ \/ writer = s /\ data' = [data EXCEPT ![s].documents = @ \cup {d}]
       \/ UNCHANGED data
    /\ UNCHANGED <<commits, writer, mode, head>>

MutAttach(s, v) ==   \* the row is committed before the file is there
    /\ mode[s] = "editing" /\ v \notin data[s].vouchers
    /\ \/ writer = s /\ data' = [data EXCEPT ![s].vouchers = @ \cup {v}] /\ UNCHANGED folder
       \/ folder' = [folder EXCEPT ![s].vouchers = @ \cup {v}] /\ UNCHANGED data
    /\ UNCHANGED <<commits, writer, mode, head>>

(* add_attachment: the same order; a file that is there is not copied again. *)
Attach(s, v) ==
    /\ mode[s] = "editing" /\ v \notin data[s].vouchers
    /\ folder' = [folder EXCEPT ![s].vouchers = @ \cup {v}]
    /\ \/ writer = s /\ data' = [data EXCEPT ![s].vouchers = @ \cup {v}]
       \/ UNCHANGED data
    /\ UNCHANGED <<commits, writer, mode, head>>

(* remove_attachment hides the row and keeps the file. *)
Hide(s, v) ==
    /\ mode[s] = "editing" /\ writer = s
    /\ v \in data[s].vouchers
    /\ data' = [data EXCEPT ![s].vouchers = @ \ {v}]
    /\ UNCHANGED <<commits, writer, mode, head, folder>>

(* The lease ends; the edits stay in the runtime.                            *)
GoesStale(s) ==
    /\ mode[s] = "editing" /\ writer = s
    /\ writer' = Nobody
    /\ Enter(s, "stale")
    /\ UNCHANGED <<commits, head, data, folder>>

(* recover_stale_editing takes the lease again while MAIN has not moved.     *)
RecoverStaleEditing(s) ==
    /\ mode[s] = "stale" /\ writer = Nobody /\ head[s] = Tip
    /\ writer' = s
    /\ Enter(s, "editing")
    /\ UNCHANGED <<commits, head, data, folder>>

-----------------------------------------------------------------------------
(* Publishing. *)

FinishEditing(s) ==
    /\ mode[s] = "editing" /\ writer = s
    /\ Enter(s, "finishing")
    /\ UNCHANGED <<commits, writer, head, data, folder>>

(* The tree of the runtime replaces that of the repository, unless it is     *)
(* missing altogether.                                                       *)
MirroredDocuments(s) ==
    IF folder[s].documents = {} THEN commits[head[s]].files.documents ELSE folder[s].documents

MutStagedVouchers(s) ==   \* a mirror, as for the documents
    folder[s].vouchers

(* The vouchers the repository does not have are added to it. *)
StagedVouchers(s) ==
    commits[head[s]].files.vouchers \cup folder[s].vouchers

PublishedCommit(s) ==
    [rows |-> data[s],
     files |-> [documents |-> MirroredDocuments(s), vouchers |-> StagedVouchers(s)]]

(* The push is fenced on the commit the session started from.  It is seen to *)
(* land, or it lands unseen and the session fails.                           *)
Publish(s) ==
    /\ mode[s] = "finishing" /\ head[s] = Tip /\ Tip < MaxMainCommits
    /\ commits' = Append(commits, PublishedCommit(s))
    /\ \/ /\ head' = [head EXCEPT ![s] = Tip + 1]
          /\ Leave(s) /\ Enter(s, "reading")
       \/ /\ UNCHANGED <<head, writer>> /\ Enter(s, "failed")
    /\ UNCHANGED <<data, folder>>

(* A failed push may be tried again; a cancelled session is over until the   *)
(* next startup.  Either may lose its lease meanwhile.                       *)
GivesUp(s) ==
    /\ mode[s] \in {"editing", "stale", "finishing"}
    /\ Leave(s) /\ Enter(s, "failed")
    /\ UNCHANGED <<commits, head, data, folder>>

(* The process ends, in any way; its lease ends after it.  What it had not   *)
(* published is archived before the next startup replaces it.                *)
Stop(s) ==
    /\ mode[s] # "down"
    /\ Leave(s) /\ Enter(s, "down")
    /\ UNCHANGED <<commits, head, data, folder>>

-----------------------------------------------------------------------------

AttachmentsNext ==
    \E s \in Workstation :
        \/ Startup(s) \/ Reset(s) \/ InstallDatabase(s)
        \/ StartEditing(s) \/ GoesStale(s) \/ RecoverStaleEditing(s)
        \/ \E d \in Document : Upload(s, d)
        \/ \E v \in Voucher : Attach(s, v) \/ Hide(s, v)
        \/ FinishEditing(s) \/ Publish(s) \/ GivesUp(s) \/ Stop(s)

AttachmentsSpec == AttachmentsInit /\ [][AttachmentsNext]_attachmentVars

-----------------------------------------------------------------------------
(* Properties. *)

(* Whatever MAIN holds is complete: a voucher recorded in the database of a  *)
(* commit has its file in the same commit, though the rows of other sessions *)
(* come without files to the workstation that publishes them.                *)
VouchersTravel ==
    \A c \in 1 .. Tip : commits[c].rows.vouchers \subseteq commits[c].files.vouchers

(* resolve_path finds the file of every voucher a workstation shows, in its  *)
(* runtime or in its repository, at every moment between a reset, an         *)
(* installation and a publication.                                           *)
VouchersOpen ==
    \A s \in Workstation :
        mode[s] # "down" =>
            data[s].vouchers \subseteq folder[s].vouchers \cup commits[head[s]].files.vouchers

(* A voucher is kept for ever: no publication takes one out of MAIN.         *)
VouchersKept ==
    [][\A c \in 1 .. Tip : commits[c].files.vouchers \subseteq commits'[Len(commits')].files.vouchers]_attachmentVars

(* "Employee documents are business data and must travel with the database": *)
(* a document recorded in the database of MAIN has its file in MAIN.         *)
DocumentsTravel ==
    \A c \in 1 .. Tip : commits[c].rows.documents \subseteq commits[c].files.documents
=============================================================================
