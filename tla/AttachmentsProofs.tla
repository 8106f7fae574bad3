------------------------- MODULE AttachmentsProofs -------------------------
(***************************************************************************)
(* Vouchers stay complete and are kept, for any workstations, uploads and  *)
(* number of commits.  A commit takes its rows from one place and its      *)
(* files from two, so the invariant has to say that the files of MAIN only *)
(* grow: a workstation that is behind still finds what it shows after it   *)
(* has moved to a later commit.                                            *)
(***************************************************************************)
EXTENDS Attachments, TLAPS

(* No commit has fewer vouchers than one before it. *)
Growing ==
    \A a, b \in 1 .. Tip : a <= b => commits[a].files.vouchers \subseteq commits[b].files.vouchers

IInv == AttachmentsTypeOK /\ VouchersTravel /\ VouchersOpen /\ Growing

LEMMA InitIInv == AttachmentsInit => IInv
<1> SUFFICES ASSUME AttachmentsInit PROVE IInv
    OBVIOUS
<1>1. NoRows \in Rows
    BY DEF NoRows, Rows
<1>2. [rows |-> NoRows, files |-> NoRows] \in [rows : Rows, files : Rows]
    BY <1>1
<1>3. commits \in Seq([rows : Rows, files : Rows]) /\ Len(commits) = 1
      /\ commits[1] = [rows |-> NoRows, files |-> NoRows]
    BY <1>2 DEF AttachmentsInit
<1>4. AttachmentsTypeOK
    BY <1>1, <1>3, MaxMainCommitsAssumption DEF AttachmentsInit, AttachmentsTypeOK, Mode
<1> QED
    BY <1>3, <1>4 DEF IInv, AttachmentsInit, VouchersTravel, VouchersOpen, Growing, Tip, NoRows

LEMMA Commits ==
    ASSUME IInv
    PROVE  /\ Tip \in Nat \ {0}
           /\ \A c \in 1 .. Tip : commits[c].rows \in Rows /\ commits[c].files \in Rows
<1> DEFINE C == [rows : Rows, files : Rows]
<1>1. commits \in Seq(C) /\ Len(commits) \in 1 .. MaxMainCommits
    BY DEF IInv, AttachmentsTypeOK
<1>2. \A c \in C : c.rows \in Rows /\ c.files \in Rows
    OBVIOUS
<1> HIDE DEF C
<1>3. Tip \in Nat \ {0}
    BY <1>1 DEF Tip
<1>4. \A c \in 1 .. Tip : commits[c] \in C
    BY <1>1 DEF Tip
<1> QED
    BY <1>2, <1>3, <1>4

(* A step that leaves MAIN alone and changes the workstation s only keeps    *)
(* the invariant when s itself stays well formed and complete.               *)
Alone(s) ==
    /\ commits' = commits
    /\ head' \in [Workstation -> 1 .. Tip] /\ data' \in [Workstation -> Rows]
    /\ folder' \in [Workstation -> Rows] /\ mode' \in [Workstation -> Mode]
    /\ writer' \in Workstation \cup {Nobody}
    /\ \A t \in Workstation \ {s} :
          /\ head'[t] = head[t] /\ data'[t] = data[t] /\ folder'[t] = folder[t]
          /\ mode'[t] = mode[t] /\ (writer = t => writer' = t)
    /\ mode'[s] \in {"editing", "finishing"} => writer' = s
    /\ mode'[s] # "down" =>
          data'[s].vouchers \subseteq folder'[s].vouchers \cup commits[head'[s]].files.vouchers

LEMMA OneSession ==
    ASSUME IInv, NEW s \in Workstation, Alone(s)
    PROVE  IInv'
<1>1. AttachmentsTypeOK'
    BY DEF Alone, IInv, AttachmentsTypeOK, Tip
<1>2. VouchersTravel' /\ Growing'
    BY DEF Alone, IInv, VouchersTravel, Growing, Tip
<1>3. ASSUME NEW t \in Workstation, mode'[t] # "down"
      PROVE  data'[t].vouchers \subseteq folder'[t].vouchers \cup commits'[head'[t]].files.vouchers
    <2>1. CASE t = s
        BY <1>3, <2>1 DEF Alone
    <2>2. CASE t # s
        BY <1>3, <2>2 DEF Alone, IInv, VouchersOpen
    <2> QED
        BY <2>1, <2>2
<1> QED
    BY <1>1, <1>2, <1>3 DEF IInv, VouchersOpen

(* A step that only changes what the process on s does and who writes. *)
LEMMA OnlyMode ==
    ASSUME IInv, NEW s \in Workstation,
           UNCHANGED <<commits, head, data, folder>>,
           NEW m \in Mode, mode' = [mode EXCEPT ![s] = m],
           writer' \in Workstation \cup {Nobody},
           m \in {"editing", "finishing"} => writer' = s,
           \A t \in Workstation \ {s} : writer = t => writer' = t,
           mode[s] # "down" \/ m = "down"
    PROVE  IInv'
<1>1. Alone(s)
    BY DEF Alone, IInv, AttachmentsTypeOK, VouchersOpen, Tip
<1> QED
    BY <1>1, OneSession

(* A step of an editing session that changes its rows and its files. *)
LEMMA WhileEditing ==
    ASSUME IInv, NEW s \in Workstation, mode[s] = "editing",
           UNCHANGED <<commits, writer, mode, head>>,
           NEW r \in Rows, data' = [data EXCEPT ![s] = r],
           NEW f \in Rows, folder' = [folder EXCEPT ![s] = f],
           r.vouchers \subseteq f.vouchers \cup commits[head[s]].files.vouchers
    PROVE  IInv'
<1>1. Alone(s)
    BY DEF Alone, IInv, AttachmentsTypeOK, Tip
<1> QED
    BY <1>1, OneSession

LEMMA StepUpload ==
    ASSUME IInv, NEW s \in Workstation, NEW d \in Document, Upload(s, d) PROVE IInv'
<1> DEFINE r == [data[s] EXCEPT !.documents = @ \cup {d}]
           f == [folder[s] EXCEPT !.documents = @ \cup {d}]
<1>1. data[s] \in Rows /\ folder[s] \in Rows
    BY DEF IInv, AttachmentsTypeOK
<1>2. r \in Rows /\ r.vouchers = data[s].vouchers /\ f \in Rows /\ f.vouchers = folder[s].vouchers
    BY <1>1 DEF Rows
<1>3. data[s].vouchers \subseteq folder[s].vouchers \cup commits[head[s]].files.vouchers
    BY DEF Upload, IInv, VouchersOpen
<1>4. folder' = [folder EXCEPT ![s] = f] /\ mode[s] = "editing" /\ UNCHANGED <<commits, writer, mode, head>>
    BY DEF Upload
<1>5. data' = [data EXCEPT ![s] = r] \/ data' = [data EXCEPT ![s] = data[s]]
    BY DEF Upload, IInv, AttachmentsTypeOK
<1> HIDE DEF r, f
<1> QED
    BY <1>1, <1>2, <1>3, <1>4, <1>5, WhileEditing

LEMMA StepAttach ==
    ASSUME IInv, NEW s \in Workstation, NEW v \in Voucher, Attach(s, v) PROVE IInv'
<1> DEFINE r == [data[s] EXCEPT !.vouchers = @ \cup {v}]
           f == [folder[s] EXCEPT !.vouchers = @ \cup {v}]
<1>1. data[s] \in Rows /\ folder[s] \in Rows
    BY DEF IInv, AttachmentsTypeOK
<1>2. /\ r \in Rows /\ r.vouchers = data[s].vouchers \cup {v}
      /\ f \in Rows /\ f.vouchers = folder[s].vouchers \cup {v}
    BY <1>1 DEF Rows
<1>3. data[s].vouchers \subseteq folder[s].vouchers \cup commits[head[s]].files.vouchers
    BY DEF Attach, IInv, VouchersOpen
<1>4. folder' = [folder EXCEPT ![s] = f] /\ mode[s] = "editing" /\ UNCHANGED <<commits, writer, mode, head>>
    BY DEF Attach
<1>5. data' = [data EXCEPT ![s] = r] \/ data' = [data EXCEPT ![s] = data[s]]
    BY DEF Attach, IInv, AttachmentsTypeOK
<1>6. /\ r.vouchers \subseteq f.vouchers \cup commits[head[s]].files.vouchers
      /\ data[s].vouchers \subseteq f.vouchers \cup commits[head[s]].files.vouchers
    BY <1>2, <1>3
<1> HIDE DEF r, f
<1> QED
    BY <1>1, <1>2, <1>4, <1>5, <1>6, WhileEditing

LEMMA StepHide ==
    ASSUME IInv, NEW s \in Workstation, NEW v \in Voucher, Hide(s, v) PROVE IInv'
<1> DEFINE r == [data[s] EXCEPT !.vouchers = @ \ {v}]
<1>1. data[s] \in Rows /\ folder[s] \in Rows
    BY DEF IInv, AttachmentsTypeOK
<1>2. r \in Rows /\ r.vouchers = data[s].vouchers \ {v}
    BY <1>1 DEF Rows
<1>3. data[s].vouchers \subseteq folder[s].vouchers \cup commits[head[s]].files.vouchers
    BY DEF Hide, IInv, VouchersOpen
<1>4. /\ data' = [data EXCEPT ![s] = r] /\ folder' = [folder EXCEPT ![s] = folder[s]]
      /\ mode[s] = "editing" /\ UNCHANGED <<commits, writer, mode, head>>
    BY DEF Hide, IInv, AttachmentsTypeOK
<1> HIDE DEF r
<1> QED
    BY <1>1, <1>2, <1>3, <1>4, WhileEditing

LEMMA StepFollow ==
    ASSUME IInv, NEW s \in Workstation, Startup(s) \/ Reset(s) \/ InstallDatabase(s) PROVE IInv'
<1> DEFINE f == [folder[s] EXCEPT !.documents = commits[Tip].files.documents]
<1>1. /\ data[s] \in Rows /\ folder[s] \in Rows /\ head[s] \in 1 .. Tip
      /\ Tip \in 1 .. Tip
      /\ \A c \in 1 .. Tip : commits[c].rows \in Rows /\ commits[c].files \in Rows
    BY Commits DEF IInv, AttachmentsTypeOK, Tip
<1>2. f \in Rows /\ f.vouchers = folder[s].vouchers
    BY <1>1 DEF Rows
<1>3. \A c \in 1 .. Tip : commits[c].rows.vouchers \subseteq commits[c].files.vouchers
    BY DEF IInv, VouchersTravel
<1>4. ASSUME Startup(s) PROVE Alone(s)
    <2>1. /\ head' = [head EXCEPT ![s] = Tip] /\ data' = [data EXCEPT ![s] = commits[Tip].rows]
          /\ folder' = [folder EXCEPT ![s] = f] /\ mode' = [mode EXCEPT ![s] = "reading"]
          /\ commits' = commits /\ writer' = writer
        BY <1>4 DEF Startup, Enter
    <2>2. commits[Tip].rows \in Rows
          /\ commits[Tip].rows.vouchers \subseteq f.vouchers \cup commits[Tip].files.vouchers
        BY <1>1, <1>3
    <2> HIDE DEF f
    <2>3. /\ head' \in [Workstation -> 1 .. Tip] /\ head'[s] = Tip
          /\ data' \in [Workstation -> Rows] /\ data'[s] = commits[Tip].rows
          /\ folder' \in [Workstation -> Rows] /\ folder'[s] = f
          /\ mode' \in [Workstation -> Mode] /\ mode'[s] = "reading"
          /\ writer' \in Workstation \cup {Nobody}
        BY <1>1, <1>2, <2>1, <2>2 DEF IInv, AttachmentsTypeOK, Mode, Tip
    <2> QED
        BY <2>1, <2>2, <2>3 DEF Alone, IInv, AttachmentsTypeOK
<1>5. ASSUME Reset(s) PROVE Alone(s)
    <2>1. data[s].vouchers \subseteq folder[s].vouchers \cup commits[head[s]].files.vouchers
        BY <1>5 DEF Reset, IInv, VouchersOpen
    <2>2. commits[head[s]].files.vouchers \subseteq commits[Tip].files.vouchers
        BY <1>1 DEF IInv, Growing
    <2>3. data[s].vouchers \subseteq folder[s].vouchers \cup commits[Tip].files.vouchers
        BY <2>1, <2>2
    <2> QED
        BY <1>1, <1>5, <2>3 DEF Reset, Alone, IInv, AttachmentsTypeOK, Tip
<1>6. ASSUME InstallDatabase(s) PROVE Alone(s)
    BY <1>1, <1>3, <1>6 DEF InstallDatabase, Alone, IInv, AttachmentsTypeOK, Tip
<1> QED
    BY <1>4, <1>5, <1>6, OneSession

(* Publish: the new commit holds everything the previous one held. *)
LEMMA StepPublish ==
    ASSUME IInv, NEW s \in Workstation, Publish(s)
    PROVE  IInv' /\ \A c \in 1 .. Tip :
                        commits[c].files.vouchers \subseteq commits'[Len(commits')].files.vouchers
<1> DEFINE n == Tip
           new == PublishedCommit(s)
<1>1. /\ n \in Nat \ {0} /\ n < MaxMainCommits /\ n = Len(commits) /\ head[s] = n
      /\ commits \in Seq([rows : Rows, files : Rows])
      /\ data[s] \in Rows /\ folder[s] \in Rows
      /\ writer = s
    BY MaxMainCommitsAssumption DEF Publish, IInv, AttachmentsTypeOK, Tip
<1>2. new \in [rows : Rows, files : Rows]
    <2>1. commits[n].files \in Rows
        BY <1>1, Commits
    <2> HIDE DEF n
    <2>2. MirroredDocuments(s) \in SUBSET Document /\ StagedVouchers(s) \in SUBSET Voucher
        BY <1>1, <2>1 DEF MirroredDocuments, StagedVouchers, Rows
    <2> QED
        BY <1>1, <2>2 DEF PublishedCommit, Rows
<1>3. /\ new.rows.vouchers = data[s].vouchers
      /\ new.files.vouchers = commits[n].files.vouchers \cup folder[s].vouchers
    BY <1>1 DEF PublishedCommit, StagedVouchers
<1>4. /\ commits' = Append(commits, new) /\ commits' \in Seq([rows : Rows, files : Rows])
      /\ Len(commits') = n + 1 /\ commits'[n + 1] = new
      /\ \A c \in 1 .. n : commits'[c] = commits[c]
    <2>1. commits' = Append(commits, new)
        BY DEF Publish
    <2> HIDE DEF new
    <2> QED
        BY <1>1, <1>2, <2>1
<1> HIDE DEF n, new
<1>5. \A c \in 1 .. n : commits[c].files.vouchers \subseteq new.files.vouchers
    BY <1>1, <1>3 DEF IInv, Growing, n
<1>6. VouchersTravel'
    <2>1. new.rows.vouchers \subseteq new.files.vouchers
        BY <1>1, <1>3 DEF IInv, VouchersOpen, Publish
    <2>2. \A c \in 1 .. n : commits[c].rows.vouchers \subseteq commits[c].files.vouchers
        BY DEF IInv, VouchersTravel, n
    <2>3. \A c \in 1 .. n + 1 : c = n + 1 \/ c \in 1 .. n
        BY <1>1
    <2> QED
        BY <1>4, <2>1, <2>2, <2>3 DEF VouchersTravel, Tip
<1>7. Growing'
    <2>1. ASSUME NEW a \in 1 .. n + 1, NEW b \in 1 .. n + 1, a <= b
          PROVE  commits'[a].files.vouchers \subseteq commits'[b].files.vouchers
        <3>1. CASE b = n + 1
            BY <1>1, <1>4, <1>5, <2>1, <3>1
        <3>2. CASE b # n + 1
            <4>1. a \in 1 .. n /\ b \in 1 .. n
                BY <1>1, <2>1, <3>2
            <4> QED
                BY <1>4, <2>1, <4>1 DEF IInv, Growing, n
        <3> QED
            BY <3>1, <3>2
    <2> QED
        BY <1>4, <2>1 DEF Growing, Tip
<1>8. AttachmentsTypeOK' /\ VouchersOpen'
    <2>1. /\ \A t \in Workstation : head[t] \in 1 .. n /\ head[t] \in 1 .. n + 1
          /\ n + 1 \in 1 .. n + 1
          /\ n + 1 \in 1 .. MaxMainCommits
        BY <1>1, MaxMainCommitsAssumption DEF IInv, AttachmentsTypeOK, n, Tip
    <2>2. /\ \A t \in Workstation \ {s} : head'[t] = head[t] /\ mode'[t] = mode[t]
          /\ head' \in [Workstation -> 1 .. n + 1] /\ mode' \in [Workstation -> Mode]
          /\ mode'[s] \in {"reading", "failed"}
          /\ head'[s] \in {n, n + 1}
          /\ UNCHANGED <<data, folder>>
          /\ writer' \in Workstation \cup {Nobody}
          /\ \A t \in Workstation \ {s} : mode'[t] \notin {"editing", "finishing"}
        BY <1>1, <2>1 DEF Publish, Enter, Leave, Mode, IInv, AttachmentsTypeOK, Tip, n
    <2>3. AttachmentsTypeOK'
        BY <1>4, <2>1, <2>2 DEF IInv, AttachmentsTypeOK
    <2>4. ASSUME NEW t \in Workstation, mode'[t] # "down"
          PROVE  data'[t].vouchers \subseteq folder'[t].vouchers \cup commits'[head'[t]].files.vouchers
        <3>1. CASE t = s
            <4>1. data[s].vouchers \subseteq folder[s].vouchers \cup commits[n].files.vouchers
                BY <1>1 DEF IInv, VouchersOpen, Publish
            <4>2. commits'[head'[s]].files.vouchers \in {commits[n].files.vouchers, new.files.vouchers}
                BY <1>1, <1>4, <2>2
            <4> QED
                BY <1>3, <2>2, <3>1, <4>1, <4>2
        <3>2. CASE t # s
            BY <1>4, <2>1, <2>2, <2>4, <3>2 DEF IInv, VouchersOpen
        <3> QED
            BY <3>1, <3>2
    <2> QED
        BY <2>3, <2>4 DEF VouchersOpen
<1> QED
    BY <1>4, <1>5, <1>6, <1>7, <1>8 DEF IInv, n

(* The steps that change only what the process does and who writes. *)
LEMMA StepMode ==
    ASSUME IInv, NEW s \in Workstation,
           StartEditing(s) \/ GoesStale(s) \/ RecoverStaleEditing(s) \/ FinishEditing(s) \/ GivesUp(s) \/ Stop(s)
    PROVE  IInv'
<1>1. /\ writer \in Workstation \cup {Nobody} /\ mode \in [Workstation -> Mode]
      /\ mode[s] = "editing" => writer = s
    BY DEF IInv, AttachmentsTypeOK
<1>2. {"editing", "finishing", "stale", "failed", "down"} \subseteq Mode
    BY DEF Mode
<1>3. CASE StartEditing(s) \/ RecoverStaleEditing(s)
    <2>1. \A t \in Workstation \ {s} : writer = t => writer' = t
        BY <1>3, NobodyAssumption DEF StartEditing, RecoverStaleEditing
    <2> QED
        BY <1>1, <1>2, <1>3, <2>1, OnlyMode DEF StartEditing, RecoverStaleEditing, Enter
<1>4. CASE GoesStale(s) \/ FinishEditing(s)
    BY <1>1, <1>2, <1>4, OnlyMode DEF GoesStale, FinishEditing, Enter
<1>5. CASE GivesUp(s) \/ Stop(s)
    BY <1>1, <1>2, <1>5, OnlyMode DEF GivesUp, Stop, Leave, Enter
<1> QED
    BY <1>3, <1>4, <1>5

(* No step takes a voucher out of MAIN. *)
Kept == \A c \in 1 .. Tip : commits[c].files.vouchers \subseteq commits'[Len(commits')].files.vouchers

LEMMA StepUnchanged ==
    ASSUME IInv, UNCHANGED commits PROVE Kept
BY Commits DEF IInv, Growing, Kept, Tip

LEMMA StepIInv ==
    ASSUME IInv, [AttachmentsNext]_attachmentVars PROVE IInv' /\ Kept
<1>1. CASE UNCHANGED attachmentVars
    <2>1. IInv'
        BY <1>1 DEF attachmentVars, IInv, AttachmentsTypeOK, VouchersTravel, VouchersOpen, Growing, Tip
    <2> QED
        BY <1>1, <2>1, StepUnchanged DEF attachmentVars
<1>2. ASSUME NEW s \in Workstation, Startup(s) \/ Reset(s) \/ InstallDatabase(s) PROVE IInv' /\ Kept
    <2>1. commits' = commits
        BY <1>2 DEF Startup, Reset, InstallDatabase
    <2> QED
        BY <1>2, <2>1, StepFollow, StepUnchanged
<1>3. ASSUME NEW s \in Workstation, NEW d \in Document, Upload(s, d) PROVE IInv' /\ Kept
    BY <1>3, StepUpload, StepUnchanged DEF Upload
<1>4. ASSUME NEW s \in Workstation, NEW v \in Voucher, Attach(s, v) \/ Hide(s, v) PROVE IInv' /\ Kept
    <2>1. commits' = commits
        BY <1>4 DEF Attach, Hide
    <2> QED
        BY <1>4, <2>1, StepAttach, StepHide, StepUnchanged
<1>5. ASSUME NEW s \in Workstation,
             StartEditing(s) \/ GoesStale(s) \/ RecoverStaleEditing(s) \/ FinishEditing(s) \/ GivesUp(s) \/ Stop(s)
      PROVE  IInv' /\ Kept
    <2>1. commits' = commits
        BY <1>5 DEF StartEditing, GoesStale, RecoverStaleEditing, FinishEditing, GivesUp, Stop
    <2> QED
        BY <1>5, <2>1, StepMode, StepUnchanged
<1>6. ASSUME NEW s \in Workstation, Publish(s) PROVE IInv' /\ Kept
    BY <1>6, StepPublish DEF Kept
<1> QED
    BY <1>1, <1>2, <1>3, <1>4, <1>5, <1>6 DEF AttachmentsNext

LEMMA Invariance == AttachmentsSpec => []IInv
<1>1. IInv /\ [AttachmentsNext]_attachmentVars => IInv'
    BY StepIInv
<1> QED
    BY InitIInv, <1>1, PTL DEF AttachmentsSpec

(* The state stays well formed, and who edits or publishes has the lease. *)
THEOREM TypeCorrect == AttachmentsSpec => []AttachmentsTypeOK
<1>1. IInv => AttachmentsTypeOK
    BY DEF IInv
<1> QED
    BY Invariance, <1>1, PTL

(* Every commit of MAIN holds the files of the vouchers its database lists. *)
THEOREM VouchersAreInMain == AttachmentsSpec => []VouchersTravel
<1>1. IInv => VouchersTravel
    BY DEF IInv
<1> QED
    BY Invariance, <1>1, PTL

(* Every workstation that runs can open the vouchers it lists. *)
THEOREM VouchersCanBeOpened == AttachmentsSpec => []VouchersOpen
<1>1. IInv => VouchersOpen
    BY DEF IInv
<1> QED
    BY Invariance, <1>1, PTL

(* No publication takes a voucher out of MAIN. *)
THEOREM VouchersStay == AttachmentsSpec => VouchersKept
<1>1. IInv /\ [AttachmentsNext]_attachmentVars => [Kept]_attachmentVars
    BY StepIInv
<1>2. [Kept]_attachmentVars <=> [\A c \in 1 .. Tip : commits[c].files.vouchers \subseteq commits'[Len(commits')].files.vouchers]_attachmentVars
    BY DEF Kept
<1> QED
    BY Invariance, <1>1, <1>2, PTL DEF AttachmentsSpec, VouchersKept
=============================================================================
