------------------------ MODULE RuntimeInstallProofs ------------------------
(***************************************************************************)
(* Proofs about RuntimeInstall, for any work, any number of commits and of *)
(* faults.                                                                 *)
(*                                                                         *)
(* That no work is lost (WorkKept) does not follow from one step to the    *)
(* next: an installer overwrites files.  The invariant says that it begins *)
(* only when all that the live files hold is published or archived, that   *)
(* the copies it makes hold nothing else, and that a receipt names files   *)
(* without work.  That what is opened is whole (Whole) needs to know how   *)
(* far each installer has come.                                            *)
(***************************************************************************)
EXTENDS RuntimeInstall, TLAPS

USE BoundAssumption

-----------------------------------------------------------------------------
(* The inductive invariant. *)

Safe == published \cup review
Kept(files) == \A p \in DOMAIN files : files[p].work \subseteq Safe
NoWork(files) == \A p \in DOMAIN files : files[p].work = {}

(* A receipt names a generation without work; before the first one there is  *)
(* no work at all.                                                           *)
Receipts ==
    /\ receipt.status = "CLEAN" =>
         /\ receipt.files # None /\ NoWork(receipt.files)
         /\ receipt.files["database"] = Generation(receipt.oid)
    /\ receipt.status = "none" => NoWork(live) /\ NoWork(marker) /\ NoWork(aside)
    /\ pc \in {"replay", "fetch", "prepare"} /\ boot.kind = "fresh" => receipt.status = "none"
    /\ pc = "editing" => receipt.status = "OPEN"

(* Nobody works on the manifest, which no receipt covers; all the work the   *)
(* files hold was done here.                                                 *)
Contents ==
    /\ \A p \in Part : live[p].work \subseteq made
    /\ live["manifest"].work = {}
    /\ marker # None => marker["manifest"].work = {}
    /\ "manifest" \in DOMAIN aside => aside["manifest"].work = {}

(* Nothing that is copied, put aside or about to be overwritten is the only  *)
(* copy of a work.                                                           *)
Copies ==
    /\ Kept(marker) /\ Kept(aside)
    /\ pc = "replay" => marker # None
    /\ marker # None => Kept(live) /\ pc \in {"off", "replay", "install", "record", "undo", "refused"}
    /\ aside # None => pc \in {"capture", "install", "record", "undo", "handoff"}
    /\ pc \in {"reset", "capture", "install", "record", "undo", "attest", "handoff", "fenced"}
         => Kept(live)

(* How far a startup has come. *)
Installed ==
    /\ boot.offline => pc \in {"attest", "refused"}
    /\ pc = "reset" => boot.base > 0
    /\ pc \in {"capture", "install", "record"} => repo > 0
    /\ pc = "install" =>
         /\ step <= 7
         /\ step > 2 => live["wal"] = Missing
         /\ step > 3 => live["database"] = Generation(repo)
         /\ step > 5 => live["employees"] = Generation(repo)
         /\ step > 6 => live["manifest"] = Generation(repo)
    /\ pc = "record" =>
         /\ live["wal"] = Missing
         /\ \A p \in Part \ {"wal"} : live[p] = Generation(repo)
    /\ pc = "attest" =>
         /\ NoWork(live) /\ live["wal"] = Missing /\ live["database"] # Missing
         /\ IF boot.offline
            THEN /\ receipt.status = "CLEAN" /\ boot.kind = "clean"
                 /\ receipt.files = Fingerprint(live)
            ELSE \A p \in {"database", "employees", "manifest"} : live[p] = Generation(repo)

(* How far a handoff has come. *)
Handed ==
    pc = "handoff" =>
         /\ NoWork(live) /\ live["wal"] = Missing
         /\ "wal" \in DOMAIN aside => aside["wal"] = Missing
         /\ IF "database" \in DOMAIN aside THEN aside["database"] # Missing
                                           ELSE live["database"] # Missing
         /\ step > 1 => "database" \in DOMAIN aside
         /\ step > 3 => live["database"] = Generation(repo)

IInv == /\ TypeOK /\ WorkKept /\ Whole
        /\ Receipts /\ Contents /\ Copies /\ Installed /\ Handed

-----------------------------------------------------------------------------
(* Files. *)

LEMMA Generations ==
    ASSUME TypeOK
    PROVE  /\ Missing \in Content
           /\ \A g \in 0 .. main : Generation(g) \in Content /\ Generation(g).work = {}
           /\ \A g \in 0 .. main : g > 0 => Generation(g) # Missing
BY DEF TypeOK, Missing, Generation, Content

LEMMA Copied ==
    ASSUME NEW f \in [Part -> Content]
    PROVE  f # None /\ DOMAIN f = Part
<1>1. DOMAIN f = Part /\ "wal" \in DOMAIN f
    BY DEF Part
<1>2. DOMAIN None = {}
    BY DEF None
<1> QED BY <1>1, <1>2

LEMMA WorkIn ==
    ASSUME NEW f, NEW S
    PROVE  Works(f) \subseteq S <=> \A p \in DOMAIN f : f[p].work \subseteq S
BY DEF Works

LEMMA Nothing ==
    /\ DOMAIN None = {} /\ Kept(None) /\ NoWork(None)
    /\ \A p \in {"database", "wal", "manifest"} : p \notin DOMAIN None
<1>1. DOMAIN None = {}
    BY DEF None
<1> QED BY <1>1 DEF Kept, NoWork

(* What a receipt says. *)
LEMMA Receipted ==
    ASSUME NEW f \in [Part -> Content], NEW oid
    PROVE  /\ Clean(oid, f).status = "CLEAN" /\ Clean(oid, f).oid = oid
           /\ Clean(oid, f).files = Fingerprint(f) /\ Fingerprint(f) # None
           /\ Fingerprint(f) \in [{"database", "employees", "version"} -> Content]
           /\ DOMAIN Fingerprint(f) = {"database", "employees", "version"}
           /\ \A p \in {"database", "employees", "version"} : Fingerprint(f)[p] = f[p]
           /\ Clean(oid, f) = [status |-> "CLEAN", oid |-> oid, files |-> Fingerprint(f)]
<1>1. /\ DOMAIN Fingerprint(f) = {"database", "employees", "version"}
      /\ \A p \in {"database", "employees", "version"} : Fingerprint(f)[p] = f[p]
    BY DEF Fingerprint
<1>2. Fingerprint(f) # None
    <2>1. "database" \in DOMAIN Fingerprint(f)
        BY <1>1
    <2> QED BY <2>1, Nothing
<1>3. Fingerprint(f) \in [{"database", "employees", "version"} -> Content]
    BY DEF Fingerprint, Part
<1> QED BY <1>1, <1>2, <1>3 DEF Clean

LEMMA Unreceipted ==
    \A s : /\ Unaccepted(s).status = s /\ Unaccepted(s).oid = 0 /\ Unaccepted(s).files = None
          /\ Unaccepted(s) = [status |-> s, oid |-> 0, files |-> None]
BY DEF Unaccepted

(* Files that hold no work, or none that is not kept. *)
LEMMA Harmless ==
    \A files : NoWork(files) => Kept(files)
BY DEF NoWork, Kept

(* What is not in the live files alone is published or archived. *)
LEMMA LiveKept ==
    ASSUME IInv, Kept(live)
    PROVE  made \subseteq Safe
<1>1. Works(live) \subseteq Safe
    BY WorkIn DEF Kept
<1> QED BY <1>1 DEF IInv, WorkKept, Safe

(* An installer that accepts the receipt overwrites no work. *)
LEMMA Replacing ==
    ASSUME IInv, Replaceable
    PROVE  /\ receipt.status = "CLEAN" /\ receipt.files # None
           /\ receipt.files["database"] = live["database"]
           /\ live["wal"] = Missing /\ live["database"] # Missing
           /\ live["database"] = Generation(receipt.oid)
           /\ NoWork(live) /\ Kept(live)
<1>1. live \in [Part -> Content] /\ DOMAIN live = Part
    BY Copied DEF IInv, TypeOK
<1>2. /\ receipt.status = "CLEAN" /\ receipt.files # None
      /\ NoWork(receipt.files) /\ receipt.files["database"] = Generation(receipt.oid)
      /\ receipt.files = Fingerprint(live)
      /\ live["wal"] = Missing /\ live["database"] # Missing
    BY DEF IInv, Receipts, Replaceable
<1>3. \A p \in {"database", "employees", "version"} :
         receipt.files[p] = live[p] /\ receipt.files[p].work = {}
    BY <1>1, <1>2, Receipted DEF NoWork
<1>4. live["wal"].work = {} /\ live["manifest"].work = {}
    BY <1>2 DEF IInv, Contents, Missing
<1>5. NoWork(live)
    BY <1>1, <1>3, <1>4 DEF NoWork, Part
<1> QED BY <1>2, <1>3, <1>5, Harmless

(* What a startup has decided. *)
Boots(m) == [base : 0 .. m, prev : 0 .. m,
             kind : {"none", "clean", "reset", "fresh"}, offline : BOOLEAN]

LEMMA Booting ==
    ASSUME TypeOK
    PROVE  /\ NoBoot \in Boots(main) /\ ~NoBoot.offline
           /\ \A k \in {"none", "clean", "reset", "fresh"} :
                  /\ [NoBoot EXCEPT !.kind = k] \in Boots(main)
                  /\ [NoBoot EXCEPT !.kind = k, !.offline = TRUE] \in Boots(main)
<1>1. NoBoot \in Boots(main) /\ ~NoBoot.offline
    BY DEF TypeOK, NoBoot, Boots
<1>2. ASSUME NEW k \in {"none", "clean", "reset", "fresh"}
      PROVE  /\ [NoBoot EXCEPT !.kind = k] \in Boots(main)
             /\ [NoBoot EXCEPT !.kind = k, !.offline = TRUE] \in Boots(main)
    <2> DEFINE first == [NoBoot EXCEPT !.kind = k]
               second == [first EXCEPT !.offline = TRUE]
    <2>1. first \in Boots(main)
        BY <1>1 DEF Boots
    <2> HIDE DEF first
    <2>2. second \in Boots(main)
        BY <2>1 DEF Boots
    <2> QED BY <2>1, <2>2 DEF first
<1> QED BY <1>1, <1>2

-----------------------------------------------------------------------------
(* Steps that write no file. *)

LEMMA StepBoot ==
    ASSUME IInv, Boot
    PROVE  IInv'
<1>1. TypeOK'
    <2>1. boot' \in Boots(main)
        BY Booting DEF Boot, IInv, TypeOK
    <2>2. pc' \in PC /\ step' = 1 /\ pc' \notin {"install", "record"}
        BY DEF Boot, Goto, PC, Startup
    <2> QED BY <2>1, <2>2 DEF Boot, IInv, TypeOK, Boots
<1>2. WorkKept' /\ Whole' /\ Contents'
    BY Replacing DEF Boot, IInv, WorkKept, Whole, Contents, Installed, Goto
<1>3. Receipts' /\ Copies'
    BY Replacing, Nothing DEF Boot, IInv, TypeOK, Receipts, Copies, Kept, NoWork, Safe, Goto, NoBoot
<1>4. Installed' /\ Handed'
    BY Replacing, Nothing DEF Boot, IInv, TypeOK, Copies, Installed, Handed, NoWork, Goto, NoBoot, Observed
<1> QED BY <1>1, <1>2, <1>3, <1>4 DEF IInv

LEMMA StepFetch ==
    ASSUME IInv, Fetch
    PROVE  IInv'
<1>1. TypeOK'
    BY DEF Fetch, IInv, TypeOK, Goto, NoBoot, PC, Startup, Fault
<1>2. WorkKept' /\ Whole' /\ Contents'
    BY Replacing DEF Fetch, IInv, WorkKept, Whole, Contents, Installed, Goto
<1>3. Receipts' /\ Copies'
    BY Replacing, Nothing DEF Fetch, IInv, TypeOK, Receipts, Copies, Kept, NoWork, Safe, Goto, NoBoot
<1>4. Installed' /\ Handed'
    BY Replacing, Nothing DEF Fetch, IInv, TypeOK, Copies, Installed, Handed, NoWork, Goto, NoBoot, Observed
<1> QED BY <1>1, <1>2, <1>3, <1>4 DEF IInv

LEMMA StepFetchFails ==
    ASSUME IInv, FetchFails
    PROVE  IInv'
<1>1. TypeOK'
    <2>1. boot' \in Boots(main)
        BY Booting DEF FetchFails, IInv, TypeOK, Boots
    <2>2. pc' \in PC /\ step' = 1 /\ pc' \notin {"install", "record"}
        BY DEF FetchFails, Goto, PC, Startup
    <2> QED BY <2>1, <2>2 DEF FetchFails, IInv, TypeOK, Boots
<1>2. WorkKept' /\ Whole' /\ Contents'
    BY Replacing DEF FetchFails, IInv, WorkKept, Whole, Contents, Installed, Goto
<1>3. Receipts' /\ Copies'
    BY Replacing, Nothing DEF FetchFails, IInv, TypeOK, Receipts, Copies, Kept, NoWork, Safe, Goto, NoBoot
<1>4. Installed' /\ Handed'
    <2>1. CASE Replaceable
        <3>1. receipt' = receipt /\ receipt.files = Fingerprint(live) /\ live' = live
            BY <2>1 DEF FetchFails, Replaceable
        <3>2. receipt'.files = Fingerprint(live')
            BY <3>1
        <3>3. pc' = "attest" /\ boot' = [NoBoot EXCEPT !.kind = "clean", !.offline = TRUE]
            BY <2>1 DEF FetchFails, Goto
        <3>4. boot'.offline /\ boot'.kind = "clean"
            BY <3>3 DEF NoBoot
        <3>5. NoWork(live') /\ live'["wal"] = Missing /\ live'["database"] # Missing
            BY <2>1, <3>1, Replacing DEF NoWork
        <3>6. receipt'.status = "CLEAN"
            BY <2>1, <3>1, Replacing
        <3>7. Installed'
            BY <3>2, <3>3, <3>4, <3>5, <3>6 DEF Installed, Fingerprint
        <3> QED BY <3>3, <3>7 DEF Handed
    <2>2. CASE ~Replaceable
        BY <2>2 DEF FetchFails, IInv, Installed, Handed, Goto
    <2> QED BY <2>1, <2>2
<1> QED BY <1>1, <1>2, <1>3, <1>4 DEF IInv

LEMMA StepAttestFails ==
    ASSUME IInv, AttestFails
    PROVE  IInv'
<1>1. TypeOK'
    BY DEF AttestFails, IInv, TypeOK, Goto, NoBoot, PC, Startup, Fault
<1>2. WorkKept' /\ Whole' /\ Contents'
    BY Replacing DEF AttestFails, IInv, WorkKept, Whole, Contents, Installed, Goto
<1>3. Receipts' /\ Copies'
    BY Replacing, Nothing DEF AttestFails, IInv, TypeOK, Receipts, Copies, Kept, NoWork, Safe, Goto, NoBoot
<1>4. Installed' /\ Handed'
    BY Replacing, Nothing DEF AttestFails, IInv, TypeOK, Copies, Installed, Handed, NoWork, Goto, NoBoot, Observed
<1> QED BY <1>1, <1>2, <1>3, <1>4 DEF IInv

LEMMA StepRestart ==
    ASSUME IInv, Restart
    PROVE  IInv'
<1>1. TypeOK'
    BY DEF Restart, IInv, TypeOK, Goto, NoBoot, PC, Startup, Fault
<1>2. WorkKept' /\ Whole' /\ Contents'
    BY Replacing DEF Restart, IInv, WorkKept, Whole, Contents, Installed, Goto
<1>3. Receipts' /\ Copies'
    BY Replacing, Nothing DEF Restart, IInv, TypeOK, Receipts, Copies, Kept, NoWork, Safe, Goto, NoBoot
<1>4. Installed' /\ Handed'
    BY Replacing, Nothing DEF Restart, IInv, TypeOK, Copies, Installed, Handed, NoWork, Goto, NoBoot, Observed
<1> QED BY <1>1, <1>2, <1>3, <1>4 DEF IInv

LEMMA StepHandoffReset ==
    ASSUME IInv, HandoffReset
    PROVE  IInv'
<1>1. TypeOK'
    BY DEF HandoffReset, IInv, TypeOK, Goto, NoBoot, PC, Startup, Fault
<1>2. WorkKept' /\ Whole' /\ Contents'
    BY Replacing DEF HandoffReset, IInv, WorkKept, Whole, Contents, Installed, Goto
<1>3. Receipts' /\ Copies'
    BY Replacing, Nothing DEF HandoffReset, IInv, TypeOK, Receipts, Copies, Kept, NoWork, Safe, Goto, NoBoot
<1>4. Installed' /\ Handed'
    BY Replacing, Nothing DEF HandoffReset, IInv, TypeOK, Copies, Installed, Handed, NoWork, Goto, NoBoot, Observed
<1> QED BY <1>1, <1>2, <1>3, <1>4 DEF IInv

LEMMA StepHandoffBegin ==
    ASSUME IInv, HandoffBegin
    PROVE  IInv'
<1>1. TypeOK'
    BY DEF HandoffBegin, IInv, TypeOK, Goto, NoBoot, PC, Startup, Fault
<1>2. WorkKept' /\ Whole' /\ Contents'
    BY Replacing DEF HandoffBegin, IInv, WorkKept, Whole, Contents, Installed, Goto
<1>3. Receipts' /\ Copies'
    BY Replacing, Nothing DEF HandoffBegin, IInv, TypeOK, Receipts, Copies, Kept, NoWork, Safe, Goto, NoBoot
<1>4. Installed' /\ Handed'
    BY Replacing, Nothing DEF HandoffBegin, IInv, TypeOK, Copies, Installed, Handed, NoWork, Goto, NoBoot, Observed
<1> QED BY <1>1, <1>2, <1>3, <1>4 DEF IInv

LEMMA StepEndEditing ==
    ASSUME IInv, EndEditing
    PROVE  IInv'
<1>1. TypeOK'
    BY DEF EndEditing, IInv, TypeOK, Goto, NoBoot, PC, Startup, Fault
<1>2. WorkKept' /\ Whole' /\ Contents'
    BY Replacing DEF EndEditing, IInv, WorkKept, Whole, Contents, Installed, Goto
<1>3. Receipts' /\ Copies'
    BY Replacing, Nothing DEF EndEditing, IInv, TypeOK, Receipts, Copies, Kept, NoWork, Safe, Goto, NoBoot
<1>4. Installed' /\ Handed'
    BY Replacing, Nothing DEF EndEditing, IInv, TypeOK, Copies, Installed, Handed, NoWork, Goto, NoBoot, Observed
<1> QED BY <1>1, <1>2, <1>3, <1>4 DEF IInv

LEMMA StepClose ==
    ASSUME IInv, Close
    PROVE  IInv'
<1>1. TypeOK'
    BY DEF Close, IInv, TypeOK, Goto, NoBoot, PC, Startup, Fault
<1>2. WorkKept' /\ Whole' /\ Contents'
    BY Replacing DEF Close, IInv, WorkKept, Whole, Contents, Installed, Goto
<1>3. Receipts' /\ Copies'
    BY Replacing, Nothing DEF Close, IInv, TypeOK, Receipts, Copies, Kept, NoWork, Safe, Goto, NoBoot
<1>4. Installed' /\ Handed'
    BY Replacing, Nothing DEF Close, IInv, TypeOK, Copies, Installed, Handed, NoWork, Goto, NoBoot, Observed
<1> QED BY <1>1, <1>2, <1>3, <1>4 DEF IInv

LEMMA StepOtherPublishes ==
    ASSUME IInv, OtherPublishes
    PROVE  IInv'
<1>1. TypeOK'
    BY DEF OtherPublishes, IInv, TypeOK, Goto, NoBoot, PC, Startup, Fault
<1>2. WorkKept' /\ Whole' /\ Contents'
    BY Replacing DEF OtherPublishes, IInv, WorkKept, Whole, Contents, Installed, Goto
<1>3. Receipts' /\ Copies'
    BY Replacing, Nothing DEF OtherPublishes, IInv, TypeOK, Receipts, Copies, Kept, NoWork, Safe, Goto, NoBoot
<1>4. Installed' /\ Handed'
    BY Replacing, Nothing DEF OtherPublishes, IInv, TypeOK, Copies, Installed, Handed, NoWork, Goto, NoBoot, Observed
<1> QED BY <1>1, <1>2, <1>3, <1>4 DEF IInv

LEMMA StepNetworkLost ==
    ASSUME IInv, NetworkLost
    PROVE  IInv'
<1>1. TypeOK'
    <2>1. faults' \in 0 .. MaxFaults
        BY DEF NetworkLost, Fault, IInv, TypeOK
    <2>2. net' = FALSE
        BY DEF NetworkLost
    <2> QED BY <2>1, <2>2 DEF NetworkLost, IInv, TypeOK
<1>2. WorkKept' /\ Whole' /\ Contents'
    BY Replacing DEF NetworkLost, IInv, WorkKept, Whole, Contents, Installed, Goto
<1>3. Receipts' /\ Copies'
    BY Replacing, Nothing DEF NetworkLost, IInv, TypeOK, Receipts, Copies, Kept, NoWork, Safe, Goto, NoBoot
<1>4. Installed' /\ Handed'
    BY Replacing, Nothing DEF NetworkLost, IInv, TypeOK, Copies, Installed, Handed, NoWork, Goto, NoBoot, Observed
<1> QED BY <1>1, <1>2, <1>3, <1>4 DEF IInv

LEMMA StepNetworkBack ==
    ASSUME IInv, NetworkBack
    PROVE  IInv'
<1>1. TypeOK'
    BY DEF NetworkBack, IInv, TypeOK, Goto, NoBoot, PC, Startup, Fault
<1>2. WorkKept' /\ Whole' /\ Contents'
    BY Replacing DEF NetworkBack, IInv, WorkKept, Whole, Contents, Installed, Goto
<1>3. Receipts' /\ Copies'
    BY Replacing, Nothing DEF NetworkBack, IInv, TypeOK, Receipts, Copies, Kept, NoWork, Safe, Goto, NoBoot
<1>4. Installed' /\ Handed'
    BY Replacing, Nothing DEF NetworkBack, IInv, TypeOK, Copies, Installed, Handed, NoWork, Goto, NoBoot, Observed
<1> QED BY <1>1, <1>2, <1>3, <1>4 DEF IInv

LEMMA StepPrepareFails ==
    ASSUME IInv, PrepareFails
    PROVE  IInv'
<1>1. TypeOK'
    BY DEF PrepareFails, IInv, TypeOK, Goto, NoBoot, PC, Startup, Fault
<1>2. WorkKept' /\ Whole' /\ Contents'
    BY Replacing DEF PrepareFails, IInv, WorkKept, Whole, Contents, Installed, Goto
<1>3. Receipts' /\ Copies'
    BY Replacing, Nothing DEF PrepareFails, IInv, TypeOK, Receipts, Copies, Kept, NoWork, Safe, Goto, NoBoot
<1>4. Installed' /\ Handed'
    BY Replacing, Nothing DEF PrepareFails, IInv, TypeOK, Copies, Installed, Handed, NoWork, Goto, NoBoot, Observed
<1> QED BY <1>1, <1>2, <1>3, <1>4 DEF IInv

-----------------------------------------------------------------------------
(* Steps that replace files.  Whatever they write was live, copied, put      *)
(* aside or in MAIN.                                                         *)

Sources(p) ==
    {live[p], Missing, Generation(repo)}
        \cup (IF marker # None THEN {marker[p]} ELSE {})
        \cup (IF p \in DOMAIN aside THEN {aside[p]} ELSE {})

LEMMA SourcesKept ==
    ASSUME IInv, Kept(live), NEW p \in Part, NEW c \in Sources(p)
    PROVE  /\ c \in Content /\ c.work \subseteq Safe
           /\ p = "manifest" => c.work = {}
           /\ receipt.status = "none" => c.work = {}
<1>1. CASE c = live[p]
    BY <1>1, Copied DEF IInv, TypeOK, Kept, NoWork, Contents, Receipts
<1>2. CASE c = Missing
    BY <1>2, Generations DEF IInv, Missing
<1>3. CASE c = Generation(repo)
    BY <1>3, Generations DEF IInv, TypeOK
<1>4. CASE marker # None /\ c = marker[p]
    <2>1. marker \in [Part -> Content] /\ DOMAIN marker = Part
        BY <1>4, Copied DEF IInv, TypeOK
    <2> QED BY <1>4, <2>1 DEF IInv, Kept, NoWork, Contents, Receipts, Copies
<1>5. CASE p \in DOMAIN aside /\ c = aside[p]
    BY <1>5 DEF IInv, TypeOK, Kept, NoWork, Contents, Receipts, Copies
<1> QED BY <1>1, <1>2, <1>3, <1>4, <1>5 DEF Sources

LEMMA Overwriting ==
    ASSUME IInv, Kept(live), UNCHANGED <<review, published, made>>,
           live' = [p \in Part |-> live'[p]], \A p \in Part : live'[p] \in Sources(p)
    PROVE  /\ live' \in [Part -> Content] /\ WorkKept'
           /\ Kept(live)' /\ live'["manifest"].work = {}
           /\ \A p \in Part : live'[p].work \subseteq made
           /\ receipt.status = "none" => NoWork(live)'
<1>1. \A p \in Part : /\ live'[p] \in Content /\ live'[p].work \subseteq Safe
                      /\ p = "manifest" => live'[p].work = {}
                      /\ receipt.status = "none" => live'[p].work = {}
    BY SourcesKept
<1>2. live' \in [Part -> Content] /\ DOMAIN live' = Part
    BY <1>1
<1>3. Safe' = Safe
    BY DEF Safe
<1>4. Kept(live)' /\ live'["manifest"].work = {} /\ (receipt.status = "none" => NoWork(live)')
    BY <1>1, <1>2, <1>3 DEF Kept, NoWork, Part
<1>5. WorkKept'
    BY LiveKept DEF WorkKept, Safe
<1>6. \A p \in Part : live'[p].work \subseteq made
    BY <1>1 DEF IInv, TypeOK, Safe
<1> QED BY <1>2, <1>4, <1>5, <1>6

LEMMA PuttingAside ==
    ASSUME IInv, Kept(live), UNCHANGED <<review, published>>,
           \A p \in DOMAIN aside' : p \in Part /\ aside'[p] \in Sources(p)
    PROVE  /\ DOMAIN aside' \subseteq Part /\ \A p \in DOMAIN aside' : aside'[p] \in Content
           /\ Kept(aside)' /\ ("manifest" \in DOMAIN aside' => aside'["manifest"].work = {})
           /\ receipt.status = "none" => NoWork(aside)'
<1>1. \A p \in DOMAIN aside' : /\ aside'[p] \in Content /\ aside'[p].work \subseteq Safe
                               /\ p = "manifest" => aside'[p].work = {}
                               /\ receipt.status = "none" => aside'[p].work = {}
    BY SourcesKept
<1>2. Safe' = Safe
    BY DEF Safe
<1> QED BY <1>1, <1>2 DEF Kept, NoWork

LEMMA Moving ==
    ASSUME IInv, NEW part \in Part, NEW how, Move(part, how)
    PROVE  /\ live' = [p \in Part |-> live'[p]] /\ \A p \in Part : live'[p] \in Sources(p)
           /\ live'[part] = IF how = "new" THEN Generation(repo) ELSE Missing
           /\ \A p \in Part \ {part} : live'[p] = live[p]
           /\ \A p \in DOMAIN aside' : p \in Part /\ aside'[p] \in Sources(p)
           /\ \A p \in DOMAIN aside' : p \in DOMAIN aside \/ (p = part /\ how = "away")
           /\ \A p \in DOMAIN aside : p \in DOMAIN aside' /\ aside'[p] = aside[p]
           /\ how = "away" => /\ part \in DOMAIN aside'
                              /\ part \notin DOMAIN aside => aside'[part] = live[part]
<1>1. live \in [Part -> Content] /\ DOMAIN aside \subseteq Part
    BY DEF IInv, TypeOK
<1>2. /\ live' = [p \in Part |-> live'[p]]
      /\ live'[part] = IF how = "new" THEN Generation(repo) ELSE Missing
      /\ \A p \in Part \ {part} : live'[p] = live[p]
    BY <1>1 DEF Move
<1>3. \A p \in Part : live'[p] \in Sources(p)
    BY <1>2 DEF Sources
<1>4. CASE how = "away"
    <2>1. aside' = [p \in DOMAIN aside \cup {part} |->
                       IF p \in DOMAIN aside THEN aside[p] ELSE live[p]]
        BY <1>4 DEF Move
    <2>2. /\ DOMAIN aside' = {part} \cup DOMAIN aside
          /\ part \notin DOMAIN aside => aside'[part] = live[part]
          /\ \A p \in DOMAIN aside : aside'[p] = aside[p]
        BY <2>1
    <2> QED BY <1>1, <1>2, <1>3, <1>4, <2>2 DEF Sources
<1>5. CASE how # "away"
    <2>1. aside' = aside
        BY <1>5 DEF Move
    <2>2. \A p \in DOMAIN aside : p \in Part /\ aside[p] \in Sources(p)
        BY <1>1 DEF Sources
    <2>3. \A p \in DOMAIN aside' : p \in Part /\ aside'[p] \in Sources(p)
        BY <2>1, <2>2
    <2> QED BY <1>2, <1>3, <1>5, <2>1, <2>3
<1> QED BY <1>4, <1>5

LEMMA Restoring ==
    ASSUME IInv, NEW parts
    PROVE  /\ Restored(parts) = [p \in Part |-> Restored(parts)[p]]
           /\ \A p \in Part : /\ Restored(parts)[p] \in Sources(p)
                              /\ p \in parts /\ p \in DOMAIN aside => Restored(parts)[p] = aside[p]
                              /\ p \notin parts \/ p \notin DOMAIN aside => Restored(parts)[p] = live[p]
BY DEF Restored, Sources

LEMMA Orders ==
    /\ Len(ReplayOrder) = 5 /\ \A n \in 1 .. 5 : ReplayOrder[n] \in Part
    /\ Len(StartupMoves) = 7 /\ \A n \in 1 .. 7 : StartupMoves[n][1] \in Part
    /\ Len(HandoffMoves) = 6 /\ \A n \in 1 .. 6 : HandoffMoves[n][1] \in Part \ {"employees"}
<1>1. Len(ReplayOrder) = 5 /\ \A n \in 1 .. 5 : ReplayOrder[n] \in Part
    BY DEF ReplayOrder, Part
<1>2. Len(StartupMoves) = 7 /\ \A n \in 1 .. 7 : StartupMoves[n][1] \in Part
    BY DEF StartupMoves, Part
<1>3. Len(HandoffMoves) = 6 /\ \A n \in 1 .. 6 : HandoffMoves[n][1] \in Part \ {"employees"}
    BY DEF HandoffMoves, Part
<1> QED BY <1>1, <1>2, <1>3

-----------------------------------------------------------------------------
(* Startup, step by step. *)

LEMMA StepReplay ==
    ASSUME IInv, Replay
    PROVE  IInv'
<1>1. marker # None /\ Kept(live)
    BY DEF Replay, IInv, Copies
<1>2. marker \in [Part -> Content] /\ live \in [Part -> Content]
    BY <1>1 DEF IInv, TypeOK
<1>3. CASE step <= 5
    <2>1. ReplayOrder[step] \in Part
        BY <1>3, Orders DEF IInv, TypeOK
    <2>2. /\ live' = [live EXCEPT ![ReplayOrder[step]] = marker[ReplayOrder[step]]]
          /\ pc = "replay" /\ pc' = pc /\ step' = step + 1 /\ marker' = marker
        BY <1>3, Orders DEF Replay
    <2>3. live' = [p \in Part |-> live'[p]] /\ \A p \in Part : live'[p] \in Sources(p)
        BY <1>1, <1>2, <2>1, <2>2 DEF Sources
    <2>4. /\ live' \in [Part -> Content] /\ WorkKept' /\ Kept(live)'
          /\ \A p \in Part : live'[p].work \subseteq made
          /\ live'["manifest"].work = {} /\ (receipt.status = "none" => NoWork(live)')
        BY <1>1, <2>3, Overwriting DEF Replay
    <2>5. TypeOK'
        BY <1>3, <2>2, <2>4 DEF Replay, IInv, TypeOK
    <2>6. Receipts' /\ Contents' /\ Copies'
        BY <1>1, <2>2, <2>4 DEF Replay, IInv, Receipts, Contents, Copies, Kept, NoWork, Safe
    <2>7. Whole' /\ Installed' /\ Handed'
        BY <2>2 DEF Replay, IInv, Whole, Installed, Handed
    <2> QED BY <2>4, <2>5, <2>6, <2>7 DEF IInv
<1>4. CASE step > 5
    <2>1. marker' = None /\ pc' = "fetch" /\ step' = 1 /\ live' = live
        BY <1>4, Orders DEF Replay, Goto, IInv, TypeOK
    <2>2. TypeOK'
        BY <2>1 DEF Replay, IInv, TypeOK, PC, Startup
    <2>3. WorkKept' /\ Whole' /\ Installed' /\ Handed'
        BY <2>1 DEF Replay, IInv, WorkKept, Whole, Installed, Handed
    <2>4. Receipts' /\ Contents' /\ Copies'
        BY <2>1, Nothing DEF Replay, IInv, Receipts, Contents, Copies, Kept, NoWork, Safe
    <2> QED BY <2>2, <2>3, <2>4 DEF IInv
<1> QED BY <1>3, <1>4 DEF IInv, TypeOK

(* What is not accepted is archived before anything overwrites it. *)
LEMMA StepPrepare ==
    ASSUME IInv, Prepare
    PROVE  IInv'
<1>1. /\ marker = None /\ aside = None /\ main > 0 /\ pc' = "reset" /\ step' = 1
      /\ boot' \in Boots(main) /\ boot'.base = main /\ boot'.offline = boot.offline
    <2>1. marker = None /\ aside = None /\ main > 0 /\ pc' = "reset" /\ step' = 1
        BY DEF Prepare, IInv, TypeOK, Copies, Goto
    <2>2. PICK k \in {"none", "clean", "reset", "fresh"} :
             boot' = [boot EXCEPT !.kind = k, !.base = main]
                \/ boot' = [boot EXCEPT !.base = main]
        BY DEF Prepare
    <2>3. boot \in Boots(main) /\ main \in 0 .. main
        BY DEF IInv, TypeOK, Boots
    <2> DEFINE first == [boot EXCEPT !.kind = k]
               second == [first EXCEPT !.base = main]
    <2>4. first \in Boots(main) /\ first.offline = boot.offline
        BY <2>3 DEF Boots
    <2> HIDE DEF first
    <2>5. second \in Boots(main) /\ second.base = main /\ second.offline = boot.offline
        BY <2>3, <2>4 DEF Boots
    <2>6. /\ [boot EXCEPT !.base = main] \in Boots(main)
          /\ [boot EXCEPT !.base = main].base = main
          /\ [boot EXCEPT !.base = main].offline = boot.offline
        BY <2>3 DEF Boots
    <2>7. [boot EXCEPT !.kind = k, !.base = main] = second
        BY DEF first
    <2> QED BY <2>1, <2>2, <2>5, <2>6, <2>7
<1>2. /\ review \subseteq review' /\ review' \subseteq review \cup Works(live)
      /\ Kept(live)'
    <2>1. CASE Replaceable /\ UNCHANGED review
        BY <2>1, Replacing DEF Prepare, Kept, Safe
    <2>2. CASE boot.kind = "fresh" /\ UNCHANGED review
        <3>1. NoWork(live)
            BY <2>2 DEF Prepare, IInv, Receipts
        <3> QED BY <2>2, <3>1, Harmless DEF Prepare, Kept, Safe
    <2>3. CASE Archive
        <3>1. Works(live) \subseteq Safe'
            BY <2>3 DEF Archive, Safe
        <3> QED BY <2>3, <3>1, WorkIn DEF Archive, Prepare, Kept
    <2> QED BY <2>1, <2>2, <2>3 DEF Prepare
<1>3. Works(live) \subseteq made
    BY WorkIn, Copied DEF IInv, TypeOK, Contents
<1>4. TypeOK'
    BY <1>1, <1>2, <1>3 DEF Prepare, IInv, TypeOK, Boots, PC, Startup
<1>5. WorkKept' /\ Whole' /\ Contents'
    BY <1>1, <1>2 DEF Prepare, IInv, WorkKept, Whole, Contents
<1>6. Receipts' /\ Copies'
    BY <1>1, <1>2, Nothing DEF Prepare, IInv, Receipts, Copies, Kept, NoWork
<1>7. Installed' /\ Handed'
    BY <1>1 DEF Prepare, IInv, Installed, Handed
<1> QED BY <1>4, <1>5, <1>6, <1>7 DEF IInv

LEMMA StepReset ==
    ASSUME IInv, Reset
    PROVE  IInv'
<1>1. /\ marker = None /\ aside = None /\ Kept(live) /\ boot.base > 0
      /\ live \in [Part -> Content] /\ pc' \in {"capture", "undo"} /\ step' = 1
      /\ repo' = boot.base /\ repo' \in 0 .. main
    BY DEF Reset, IInv, TypeOK, Copies, Installed, Goto
<1>2. boot' \in Boots(main)
    BY DEF Reset, IInv, TypeOK, Boots
<1>3. \A p \in DOMAIN aside' : p \in Part /\ aside'[p] \in Sources(p)
    <2>1. CASE aside' = [p \in Asset |-> live[p]]
        BY <2>1 DEF Asset, Part, Sources
    <2>2. CASE aside' = None
        BY <2>2, Nothing
    <2> QED BY <1>1, <2>1, <2>2 DEF Reset
<1>4. /\ DOMAIN aside' \subseteq Part /\ \A p \in DOMAIN aside' : aside'[p] \in Content
      /\ Kept(aside)' /\ ("manifest" \in DOMAIN aside' => aside'["manifest"].work = {})
      /\ receipt.status = "none" => NoWork(aside)'
    BY <1>1, <1>3, PuttingAside DEF Reset
<1>5. TypeOK'
    BY <1>1, <1>2, <1>4 DEF Reset, IInv, TypeOK, Boots, PC, Startup
<1>6. WorkKept' /\ Whole' /\ Contents'
    BY <1>1, <1>4 DEF Reset, IInv, WorkKept, Whole, Contents
<1>7. Receipts' /\ Copies'
    BY <1>1, <1>4, Nothing DEF Reset, IInv, Receipts, Copies, Kept, NoWork, Safe
<1>8. Installed' /\ Handed'
    BY <1>1 DEF Reset, IInv, TypeOK, Installed, Handed
<1> QED BY <1>5, <1>6, <1>7, <1>8 DEF IInv

LEMMA StepCapture ==
    ASSUME IInv, Capture
    PROVE  IInv'
<1>1. /\ marker' = live /\ marker' # None /\ Kept(live) /\ pc' = "install" /\ step' = 1
      /\ live \in [Part -> Content]
    BY Copied DEF Capture, IInv, TypeOK, Copies, Goto
<1>2. TypeOK'
    BY <1>1 DEF Capture, IInv, TypeOK, PC, Startup
<1>3. WorkKept' /\ Whole' /\ Contents'
    BY <1>1 DEF Capture, IInv, WorkKept, Whole, Contents
<1>4. Receipts' /\ Copies'
    BY <1>1 DEF Capture, IInv, Receipts, Copies, Kept, NoWork, Safe
<1>5. Installed' /\ Handed'
    BY <1>1 DEF Capture, IInv, Installed, Handed
<1> QED BY <1>2, <1>3, <1>4, <1>5 DEF IInv

LEMMA StepInstall ==
    ASSUME IInv, Install
    PROVE  IInv'
<1>1. /\ marker # None /\ Kept(live) /\ repo > 0 /\ step \in 1 .. 7 /\ repo \in 0 .. main
      /\ StartupMoves[step][1] \in Part
    BY Orders DEF Install, IInv, TypeOK, Copies, Installed
<1>2. /\ live' = [p \in Part |-> live'[p]] /\ \A p \in Part : live'[p] \in Sources(p)
      /\ live'[StartupMoves[step][1]] = IF StartupMoves[step][2] = "new"
                                       THEN Generation(repo) ELSE Missing
      /\ \A p \in Part \ {StartupMoves[step][1]} : live'[p] = live[p]
      /\ \A p \in DOMAIN aside' : p \in Part /\ aside'[p] \in Sources(p)
    BY <1>1, Moving DEF Install
<1>3. /\ live' \in [Part -> Content] /\ WorkKept' /\ Kept(live)'
      /\ \A p \in Part : live'[p].work \subseteq made
      /\ live'["manifest"].work = {} /\ (receipt.status = "none" => NoWork(live)')
    BY <1>1, <1>2, Overwriting DEF Install
<1>4. /\ DOMAIN aside' \subseteq Part /\ \A p \in DOMAIN aside' : aside'[p] \in Content
      /\ Kept(aside)' /\ ("manifest" \in DOMAIN aside' => aside'["manifest"].work = {})
      /\ receipt.status = "none" => NoWork(aside)'
    BY <1>1, <1>2, PuttingAside DEF Install
<1>5. /\ step < 7 => pc' = "install" /\ step' = step + 1
      /\ step = 7 => pc' = "record" /\ step' = 1
    BY <1>1, Orders DEF Install, Goto
<1>6. TypeOK'
    BY <1>1, <1>3, <1>4, <1>5 DEF Install, IInv, TypeOK, PC, Startup
<1>7. Whole' /\ Handed'
    BY <1>1, <1>5 DEF Whole, Handed
<1>8. Contents' /\ Receipts' /\ Copies'
    BY <1>1, <1>3, <1>4, <1>5 DEF Install, IInv, Contents, Receipts, Copies, Kept, NoWork, Safe
<1>9. Installed'
    <2>1. /\ step > 2 => live["wal"] = Missing
          /\ step > 3 => live["database"] = Generation(repo)
          /\ step > 5 => live["employees"] = Generation(repo)
          /\ step > 6 => live["manifest"] = Generation(repo)
        BY DEF Install, IInv, Installed
    <2>2. repo' = repo /\ ~boot'.offline
        BY DEF Install, IInv, Installed
    <2>3. CASE step \in {1, 2, 3}
        <3>1. /\ step = 2 => live'["wal"] = Missing
              /\ step = 3 => live'["wal"] = Missing /\ live'["database"] = Generation(repo)
            BY <1>2, <2>1, <2>3 DEF StartupMoves, Part
        <3> QED BY <1>1, <1>5, <2>2, <2>3, <3>1 DEF Installed
    <2>4. CASE step \in {4, 5, 6}
        <3>1. /\ live'["wal"] = Missing /\ live'["database"] = Generation(repo)
              /\ step > 4 => live'["employees"] = Generation(repo)
              /\ step > 5 => live'["manifest"] = Generation(repo)
            BY <1>2, <2>1, <2>4 DEF StartupMoves, Part
        <3> QED BY <1>1, <1>5, <2>2, <2>4, <3>1 DEF Installed
    <2>5. CASE step = 7
        <3>1. /\ live'["wal"] = Missing /\ live'["database"] = Generation(repo)
              /\ live'["employees"] = Generation(repo) /\ live'["manifest"] = Generation(repo)
              /\ live'["version"] = Generation(repo)
            BY <1>2, <2>1, <2>5 DEF StartupMoves, Part
        <3> QED BY <1>1, <1>5, <2>2, <2>5, <3>1 DEF Installed, Part
    <2> QED BY <1>1, <2>3, <2>4, <2>5
<1> QED BY <1>3, <1>6, <1>7, <1>8, <1>9 DEF IInv

LEMMA StepInstallFails ==
    ASSUME IInv, InstallFails
    PROVE  IInv'
<1>1. /\ Kept(live) /\ pc' = "undo" /\ step' = 1 /\ faults' \in 0 .. MaxFaults
      /\ live \in [Part -> Content] /\ DOMAIN aside \subseteq Part
    BY DEF InstallFails, IInv, TypeOK, Copies, Goto, Fault
<1>2. /\ live' = [p \in Part |-> live'[p]] /\ \A p \in Part : live'[p] \in Sources(p)
      /\ \A p \in DOMAIN aside' : p \in Part /\ aside'[p] \in Sources(p)
    <2>1. /\ live = [p \in Part |-> live[p]] /\ \A p \in Part : live[p] \in Sources(p)
          /\ \A p \in DOMAIN aside : p \in Part /\ aside[p] \in Sources(p)
        BY <1>1 DEF Sources
    <2>2. live' \in {Restored({"database", "wal"}), live}
        BY DEF InstallFails
    <2>3. aside' \in {Without({"database", "wal"}), aside}
        BY DEF InstallFails
    <2>4. \A p \in DOMAIN aside' : p \in DOMAIN aside /\ aside'[p] = aside[p]
        BY <2>3 DEF Without
    <2> QED BY <2>1, <2>2, <2>4, Restoring
<1>3. /\ live' \in [Part -> Content] /\ WorkKept' /\ Kept(live)'
      /\ \A p \in Part : live'[p].work \subseteq made
      /\ live'["manifest"].work = {} /\ (receipt.status = "none" => NoWork(live)')
    BY <1>1, <1>2, Overwriting DEF InstallFails
<1>4. /\ DOMAIN aside' \subseteq Part /\ \A p \in DOMAIN aside' : aside'[p] \in Content
      /\ Kept(aside)' /\ ("manifest" \in DOMAIN aside' => aside'["manifest"].work = {})
      /\ receipt.status = "none" => NoWork(aside)'
    BY <1>1, <1>2, PuttingAside DEF InstallFails
<1>5. TypeOK'
    BY <1>1, <1>3, <1>4 DEF InstallFails, IInv, TypeOK, PC, Startup
<1>6. Whole' /\ Installed' /\ Handed'
    BY <1>1 DEF InstallFails, IInv, Whole, Installed, Handed
<1>7. Contents' /\ Receipts' /\ Copies'
    BY <1>1, <1>3, <1>4 DEF InstallFails, IInv, Contents, Receipts, Copies, Kept, NoWork, Safe
<1> QED BY <1>3, <1>5, <1>6, <1>7 DEF IInv

LEMMA StepRecord ==
    ASSUME IInv, Record
    PROVE  IInv'
<1>1. /\ live \in [Part -> Content] /\ DOMAIN live = Part /\ live["wal"] = Missing
      /\ repo > 0 /\ repo \in 0 .. main
      /\ \A p \in Part \ {"wal"} : live[p] = Generation(repo)
    BY Copied DEF Record, IInv, TypeOK, Installed
<1>2. NoWork(live) /\ live["database"] # Missing
    BY <1>1, Generations DEF IInv, NoWork, Part, Missing
<1>3. CASE boot.kind = "clean" /\ step = 1
    <2>1. /\ receipt' = Clean(repo, live) /\ pc' = pc /\ step' = 2
          /\ aside' = aside /\ marker' = marker /\ pc = "record"
        BY <1>3 DEF Record
    <2>2. /\ receipt'.status = "CLEAN" /\ receipt'.oid = repo /\ receipt'.files # None
          /\ receipt'.files["database"] = Generation(repo) /\ NoWork(receipt'.files)
          /\ receipt' \in [status : {"none", "OPEN", "CLEAN"}, oid : 0 .. main,
                           files : {None} \cup [{"database", "employees", "version"} -> Content]]
        BY <1>1, <1>2, <2>1, Receipted DEF NoWork, Part
    <2>3. TypeOK'
        BY <2>1, <2>2 DEF Record, IInv, TypeOK
    <2>4. Receipts' /\ Contents' /\ Copies'
        BY <2>1, <2>2 DEF Record, IInv, Receipts, Contents, Copies, Kept, Safe
    <2>5. WorkKept' /\ Whole' /\ Installed' /\ Handed'
        BY <2>1 DEF Record, IInv, WorkKept, Whole, Installed, Handed
    <2> QED BY <2>3, <2>4, <2>5 DEF IInv
<1>4. CASE ~(boot.kind = "clean" /\ step = 1)
    <2>1. aside' = None /\ marker' = None /\ pc' = "attest" /\ step' = 1 /\ receipt' = receipt
        BY <1>4 DEF Record, Goto
    <2>2. ~boot.offline
        BY DEF Record, IInv, Installed
    <2>3. TypeOK'
        BY <2>1, Nothing DEF Record, IInv, TypeOK, PC, Startup
    <2>4. Receipts' /\ Contents' /\ Copies'
        BY <2>1, Nothing DEF Record, IInv, Receipts, Contents, Copies, Kept, NoWork, Safe
    <2>5. WorkKept' /\ Whole' /\ Handed'
        BY <1>1, <1>2, <2>1 DEF Record, IInv, WorkKept, Whole, Handed
    <2>6. Installed'
        BY <1>1, <1>2, <2>1, <2>2 DEF Record, Installed, NoWork, Part
    <2> QED BY <2>3, <2>4, <2>5, <2>6 DEF IInv
<1> QED BY <1>3, <1>4

LEMMA StepUndo ==
    ASSUME IInv, Undo
    PROVE  IInv'
<1>1. /\ Kept(live) /\ pc' = "refused" /\ step' = 1 /\ aside' = None
      /\ boot' \in Boots(main) /\ marker' \in {None, marker}
    BY Booting DEF Undo, IInv, TypeOK, Copies, Goto
<1>2. faults' \in 0 .. MaxFaults
    BY DEF Undo, IInv, TypeOK, Fault
<1>3. repo' \in 0 .. main
    BY DEF Undo, IInv, TypeOK
<1>4. live' = [p \in Part |-> live'[p]] /\ \A p \in Part : live'[p] \in Sources(p)
    <2>1. PICK done : live' = Restored(done)
        BY DEF Undo
    <2> QED BY <2>1, Restoring
<1>5. /\ live' \in [Part -> Content] /\ WorkKept' /\ Kept(live)'
      /\ \A p \in Part : live'[p].work \subseteq made
      /\ live'["manifest"].work = {} /\ (receipt.status = "none" => NoWork(live)')
    BY <1>1, <1>4, Overwriting DEF Undo
<1>6. TypeOK'
    <2>1. marker' \in {None} \cup [Part -> Content]
        BY <1>1 DEF IInv, TypeOK
    <2>2. DOMAIN aside' = {}
        BY <1>1, Nothing
    <2>3. UNCHANGED <<main, net, seen, receipt, review, published, made>>
        BY DEF Undo
    <2>4. pc' \in PC /\ pc' \notin {"install", "record"} /\ step' \in 1 .. 8
        BY <1>1 DEF PC, Startup
    <2> QED BY <1>1, <1>2, <1>3, <1>5, <2>1, <2>2, <2>3, <2>4 DEF IInv, TypeOK, Boots
<1>7. Whole' /\ Installed' /\ Handed'
    BY <1>1 DEF Whole, Installed, Handed
<1>8. Contents' /\ Receipts' /\ Copies'
    BY <1>1, <1>5, Nothing DEF Undo, IInv, Contents, Receipts, Copies, Kept, NoWork, Safe
<1> QED BY <1>5, <1>6, <1>7, <1>8 DEF IInv

LEMMA StepAttest ==
    ASSUME IInv, Attest
    PROVE  IInv'
<1>1. /\ live \in [Part -> Content] /\ DOMAIN live = Part /\ repo \in 0 .. main
      /\ NoWork(live) /\ live["wal"] = Missing /\ live["database"] # Missing
      /\ live["database"] = Generation(repo)
      /\ marker = None /\ aside = None
    <2>1. /\ live \in [Part -> Content] /\ DOMAIN live = Part /\ repo \in 0 .. main
          /\ NoWork(live) /\ live["wal"] = Missing /\ live["database"] # Missing
          /\ marker = None /\ aside = None
        BY Copied DEF Attest, IInv, TypeOK, Installed, Copies
    <2>2. live["database"] = Generation(repo)
        <3>1. CASE boot.offline
            <4>1. /\ receipt.status = "CLEAN" /\ boot.kind = "clean"
                  /\ receipt.files = Fingerprint(live)
                BY <3>1 DEF Attest, IInv, Installed
            <4>2. Fingerprint(live)["database"] = live["database"]
                BY <2>1, Receipted
            <4>3. receipt.files["database"] = Generation(receipt.oid)
                BY <4>1 DEF IInv, Receipts
            <4>4. repo = receipt.oid
                BY <4>1 DEF Attest, Accepted, Stable
            <4> QED BY <4>1, <4>2, <4>3, <4>4
        <3>2. CASE ~boot.offline
            BY <3>2 DEF Attest, IInv, Installed
        <3> QED BY <3>1, <3>2
    <2> QED BY <2>1, <2>2
<1>2. receipt' = Clean(repo, live) /\ pc' = "open" /\ step' = 1 /\ boot' = NoBoot
    BY DEF Attest, Goto
<1>3. /\ receipt'.status = "CLEAN" /\ receipt'.oid = repo /\ receipt'.files # None
      /\ receipt'.files["database"] = Generation(repo) /\ NoWork(receipt'.files)
      /\ receipt' \in [status : {"none", "OPEN", "CLEAN"}, oid : 0 .. main,
                       files : {None} \cup [{"database", "employees", "version"} -> Content]]
    BY <1>1, <1>2, Receipted DEF NoWork, Part
<1>4. TypeOK'
    BY <1>2, <1>3, Booting DEF Attest, IInv, TypeOK, PC, Startup, Boots
<1>5. Receipts' /\ Contents' /\ Copies'
    BY <1>1, <1>2, <1>3, Nothing DEF Attest, IInv, Receipts, Contents, Copies, Kept, Safe
<1>6. WorkKept' /\ Whole' /\ Installed' /\ Handed'
    BY <1>1, <1>2, Booting DEF Attest, IInv, WorkKept, Whole, Installed, Handed
<1> QED BY <1>4, <1>5, <1>6 DEF IInv

-----------------------------------------------------------------------------
(* The handoff. *)

LEMMA StepHandoffInstall ==
    ASSUME IInv, HandoffInstall
    PROVE  IInv'
<1>1. /\ marker = None /\ Kept(live) /\ step \in 1 .. 6 /\ repo \in 0 .. main
      /\ HandoffMoves[step][1] \in Part \ {"employees"}
      /\ pc = "handoff" /\ pc' = pc /\ step' = step + 1
    BY Orders DEF HandoffInstall, IInv, TypeOK, Copies
<1>2. /\ live' = [p \in Part |-> live'[p]] /\ \A p \in Part : live'[p] \in Sources(p)
      /\ live'[HandoffMoves[step][1]] = IF HandoffMoves[step][2] = "new"
                                       THEN Generation(repo) ELSE Missing
      /\ \A p \in Part \ {HandoffMoves[step][1]} : live'[p] = live[p]
      /\ \A p \in DOMAIN aside' : p \in Part /\ aside'[p] \in Sources(p)
      /\ \A p \in DOMAIN aside' : \/ p \in DOMAIN aside
                                  \/ (p = HandoffMoves[step][1] /\ HandoffMoves[step][2] = "away")
      /\ \A p \in DOMAIN aside : p \in DOMAIN aside' /\ aside'[p] = aside[p]
      /\ HandoffMoves[step][2] = "away" =>
            /\ HandoffMoves[step][1] \in DOMAIN aside'
            /\ HandoffMoves[step][1] \notin DOMAIN aside
                  => aside'[HandoffMoves[step][1]] = live[HandoffMoves[step][1]]
    BY <1>1, Moving DEF HandoffInstall
<1>3. /\ live' \in [Part -> Content] /\ WorkKept' /\ Kept(live)'
      /\ \A p \in Part : live'[p].work \subseteq made
      /\ live'["manifest"].work = {} /\ (receipt.status = "none" => NoWork(live)')
    BY <1>1, <1>2, Overwriting DEF HandoffInstall
<1>4. /\ DOMAIN aside' \subseteq Part /\ \A p \in DOMAIN aside' : aside'[p] \in Content
      /\ Kept(aside)' /\ ("manifest" \in DOMAIN aside' => aside'["manifest"].work = {})
      /\ receipt.status = "none" => NoWork(aside)'
    BY <1>1, <1>2, PuttingAside DEF HandoffInstall
<1>5. TypeOK'
    BY <1>1, <1>3, <1>4 DEF HandoffInstall, IInv, TypeOK
<1>6. Whole' /\ Installed'
    BY <1>1 DEF HandoffInstall, IInv, Whole, Installed
<1>7. Contents' /\ Receipts' /\ Copies'
    BY <1>1, <1>3, <1>4 DEF HandoffInstall, IInv, Contents, Receipts, Copies, Kept, NoWork, Safe
<1>8. Handed'
    <2>1. /\ NoWork(live) /\ live["wal"] = Missing
          /\ "wal" \in DOMAIN aside => aside["wal"] = Missing
          /\ IF "database" \in DOMAIN aside THEN aside["database"] # Missing
                                            ELSE live["database"] # Missing
          /\ step > 1 => "database" \in DOMAIN aside
          /\ step > 3 => live["database"] = Generation(repo)
        BY <1>1 DEF IInv, Handed
    <2>2. \A p \in Part : live'[p].work = {}
        <3>1. Missing.work = {} /\ Generation(repo).work = {}
            BY <1>1, Generations DEF IInv, Missing
        <3> QED BY <1>1, <1>2, <2>1, <3>1, Copied DEF NoWork, IInv, TypeOK
    <2>3. live'["wal"] = Missing
        BY <1>1, <1>2, <2>1 DEF HandoffMoves, Part
    <2>4. "wal" \in DOMAIN aside' => aside'["wal"] = Missing
        BY <1>1, <1>2, <2>1 DEF Part
    <2>5. IF "database" \in DOMAIN aside' THEN aside'["database"] # Missing
                                          ELSE live'["database"] # Missing
        <3>1. CASE "database" \in DOMAIN aside
            BY <1>2, <2>1, <3>1
        <3>2. CASE "database" \notin DOMAIN aside
            <4>1. step = 1
                BY <1>1, <2>1, <3>2
            <4> QED BY <1>2, <2>1, <3>2, <4>1 DEF HandoffMoves
        <3> QED BY <3>1, <3>2
    <2>6. step' > 3 => live'["database"] = Generation(repo)
        BY <1>1, <1>2, <2>1 DEF HandoffMoves, Part
    <2>7. NoWork(live)'
        BY <1>3, <2>2 DEF NoWork
    <2>8. repo' = repo
        BY DEF HandoffInstall
    <2>9. "database" \in DOMAIN aside'
        BY <1>1, <1>2, <2>1 DEF HandoffMoves
    <2> QED BY <2>3, <2>4, <2>5, <2>6, <2>7, <2>8, <2>9 DEF Handed
<1> QED BY <1>3, <1>5, <1>6, <1>7, <1>8 DEF IInv

LEMMA StepHandoffSeals ==
    ASSUME IInv, HandoffSeals
    PROVE  IInv'
<1>1. /\ live \in [Part -> Content] /\ DOMAIN live = Part /\ repo \in 0 .. main
      /\ NoWork(live) /\ live["wal"] = Missing /\ live["database"] # Missing
      /\ live["database"] = Generation(repo) /\ marker = None
    BY Copied, Orders DEF HandoffSeals, MaySeal, Stable, IInv, TypeOK, Handed, Copies
<1>2. receipt' = Clean(repo, live) /\ pc' = "open" /\ step' = 1 /\ aside' = None
    BY DEF HandoffSeals, Goto
<1>3. /\ receipt'.status = "CLEAN" /\ receipt'.oid = repo /\ receipt'.files # None
      /\ receipt'.files["database"] = Generation(repo) /\ NoWork(receipt'.files)
      /\ receipt' \in [status : {"none", "OPEN", "CLEAN"}, oid : 0 .. main,
                       files : {None} \cup [{"database", "employees", "version"} -> Content]]
    BY <1>1, <1>2, Receipted DEF NoWork, Part
<1>4. TypeOK'
    BY <1>2, <1>3, Nothing DEF HandoffSeals, IInv, TypeOK, PC, Startup
<1>5. Receipts' /\ Contents' /\ Copies'
    BY <1>1, <1>2, <1>3, Nothing DEF HandoffSeals, IInv, Receipts, Contents, Copies, Kept, Safe
<1>6. WorkKept' /\ Whole' /\ Installed' /\ Handed'
    BY <1>1, <1>2 DEF HandoffSeals, IInv, WorkKept, Whole, Installed, Handed
<1> QED BY <1>4, <1>5, <1>6 DEF IInv

LEMMA StepHandoffFails ==
    ASSUME IInv, HandoffFails
    PROVE  IInv'
<1>1. /\ Kept(live) /\ marker = None /\ pc' \in {"open", "fenced"} /\ step' = 1
      /\ pc = "handoff" /\ aside' = None /\ faults' \in 0 .. MaxFaults
    BY DEF HandoffFails, IInv, TypeOK, Copies, Goto, Fault
<1>2. PICK parts : live' = Restored(parts) /\ (pc' = "open" => parts = Part)
    BY DEF HandoffFails, Goto
<1>3. live' = [p \in Part |-> live'[p]] /\ \A p \in Part : live'[p] \in Sources(p)
    BY <1>2, Restoring
<1>4. /\ live' \in [Part -> Content] /\ WorkKept' /\ Kept(live)'
      /\ \A p \in Part : live'[p].work \subseteq made
      /\ live'["manifest"].work = {} /\ (receipt.status = "none" => NoWork(live)')
    BY <1>1, <1>3, Overwriting DEF HandoffFails
<1>5. Whole'
    <2>1. pc' = "open" => live'["wal"] = Missing /\ live'["database"] # Missing
        BY <1>1, <1>2, Restoring DEF IInv, Handed, Part
    <2> QED BY <1>1, <2>1 DEF Whole
<1>6. TypeOK'
    <2>1. pc' \in PC /\ pc' \notin {"install", "record"}
        BY <1>1 DEF PC, Startup
    <2>2. UNCHANGED <<main, net, seen, repo, receipt, marker, review, published, made, boot>>
        BY DEF HandoffFails
    <2> QED BY <1>1, <1>4, <2>1, <2>2, Nothing DEF IInv, TypeOK
<1>7. Installed' /\ Handed'
    BY <1>1 DEF HandoffFails, IInv, Installed, Handed
<1>8. Contents' /\ Receipts' /\ Copies'
    BY <1>1, <1>4, Nothing DEF HandoffFails, IInv, Contents, Receipts, Copies, Kept, NoWork, Safe
<1> QED BY <1>4, <1>5, <1>6, <1>7, <1>8 DEF IInv

-----------------------------------------------------------------------------
(* Work. *)

LEMMA StepStartEditing ==
    ASSUME IInv, StartEditing
    PROVE  IInv'
<1>1. receipt' = Unaccepted("OPEN") /\ pc' = "editing" /\ step' = 1
    BY DEF StartEditing, Goto
<1>2. /\ receipt'.status = "OPEN"
      /\ receipt' \in [status : {"none", "OPEN", "CLEAN"}, oid : 0 .. main,
                       files : {None} \cup [{"database", "employees", "version"} -> Content]]
    BY <1>1 DEF Unaccepted, IInv, TypeOK
<1>3. TypeOK'
    BY <1>1, <1>2 DEF StartEditing, IInv, TypeOK, PC, Startup
<1>4. Receipts' /\ Contents' /\ Copies'
    BY <1>1, <1>2 DEF StartEditing, IInv, Receipts, Contents, Copies, Kept, Safe
<1>5. WorkKept' /\ Whole' /\ Installed' /\ Handed'
    BY <1>1 DEF StartEditing, IInv, WorkKept, Whole, Installed, Handed
<1> QED BY <1>3, <1>4, <1>5 DEF IInv

LEMMA StepEdit ==
    ASSUME IInv, NEW w \in Work, Edit(w)
    PROVE  IInv'
<1>1. /\ live \in [Part -> Content] /\ DOMAIN live = Part /\ pc = "editing"
      /\ receipt.status = "OPEN" /\ marker = None /\ made' = made \cup {w}
    BY Copied DEF Edit, IInv, TypeOK, Receipts, Copies
<1>2. /\ live' = [p \in Part |-> live'[p]] /\ live' \in [Part -> Content] /\ DOMAIN live' = Part
      /\ \A p \in Part : live[p].work \subseteq live'[p].work /\ live'[p].work \subseteq made'
      /\ \E p \in Part : w \in live'[p].work
      /\ live'["manifest"] = live["manifest"] /\ live'["database"] = live["database"]
      /\ \/ live'["wal"] = live["wal"]
         \/ /\ live'["wal"].gen = live["database"].gen
            /\ live["database"].work \subseteq live'["wal"].work
    <2>1. /\ \A p \in Part : live[p].work \subseteq made /\ live[p].work \subseteq Work
          /\ \A p \in Part : live[p].gen \in 0 .. MaxMain
        BY <1>1 DEF IInv, Contents, Content
    <2>2. CASE live' = [live EXCEPT !["wal"] =
                          [gen |-> live["database"].gen,
                           work |-> live["database"].work \cup live["wal"].work \cup {w}]]
        <3> DEFINE c == [gen |-> live["database"].gen,
                         work |-> live["database"].work \cup live["wal"].work \cup {w}]
        <3>1. "wal" \in Part /\ "database" \in Part /\ "manifest" \in Part
            BY DEF Part
        <3>2. /\ c \in Content /\ c.gen = live["database"].gen
              /\ c.work = live["database"].work \cup live["wal"].work \cup {w}
            BY <2>1, <3>1 DEF Content
        <3> HIDE DEF c
        <3>3. live'["wal"] = c /\ \A p \in Part \ {"wal"} : live'[p] = live[p]
            BY <1>1, <2>2, <3>1 DEF c
        <3>4. live' \in [Part -> Content]
            BY <1>1, <2>2, <3>2 DEF c
        <3> QED BY <1>1, <2>1, <3>1, <3>2, <3>3, <3>4
    <2>3. CASE live' = [live EXCEPT !["employees"].work = @ \cup {w}]
        <3> DEFINE c == [live["employees"] EXCEPT !.work = @ \cup {w}]
        <3>1. /\ "employees" \in Part /\ "database" \in Part /\ "manifest" \in Part /\ "wal" \in Part
              /\ "employees" \notin {"database", "manifest", "wal"}
            BY DEF Part
        <3>2. c \in Content /\ c.work = live["employees"].work \cup {w}
            BY <1>1, <2>1, <3>1 DEF Content
        <3>3. live' = [live EXCEPT !["employees"] = c]
            BY <2>3
        <3> HIDE DEF c
        <3>4. live'["employees"] = c /\ \A p \in Part \ {"employees"} : live'[p] = live[p]
            BY <1>1, <3>1, <3>3
        <3>5. live' \in [Part -> Content]
            BY <1>1, <3>2, <3>3
        <3> QED BY <1>1, <2>1, <3>1, <3>2, <3>4, <3>5
    <2> QED BY <2>2, <2>3 DEF Edit
<1>3. TypeOK'
    BY <1>1, <1>2 DEF Edit, IInv, TypeOK
<1>4. WorkKept'
    <2>1. Works(live) \subseteq Works(live)' /\ w \in Works(live)'
        BY <1>1, <1>2 DEF Works
    <2> QED BY <1>1, <2>1 DEF Edit, IInv, WorkKept
<1>5. Whole'
    BY <1>2 DEF Edit, IInv, Whole
<1>6. Receipts' /\ Contents' /\ Copies'
    BY <1>1, <1>2 DEF Edit, IInv, Receipts, Contents, Copies, Kept, Safe
<1>7. Installed' /\ Handed'
    BY <1>1 DEF Edit, IInv, Installed, Handed
<1> QED BY <1>3, <1>4, <1>5, <1>6, <1>7 DEF IInv

(* The WAL holds all its database held. *)
LEMMA StepCheckpoint ==
    ASSUME IInv, Checkpoint
    PROVE  IInv'
<1>1. /\ live \in [Part -> Content] /\ DOMAIN live = Part /\ marker = None /\ live["wal"] # Missing
      /\ live["database"].work \subseteq live["wal"].work
      /\ pc \in {"open", "editing"} /\ pc' = pc
    BY Copied DEF Checkpoint, IInv, TypeOK, Copies, Whole
<1>2. /\ live' \in [Part -> Content] /\ DOMAIN live' = Part
      /\ live'["database"] = live["wal"] /\ live'["wal"] = Missing
      /\ \A p \in Part \ {"database", "wal"} : live'[p] = live[p]
    <2> DEFINE first == [live EXCEPT !["database"] = live["wal"]]
               second == [first EXCEPT !["wal"] = Missing]
    <2>1. Missing \in Content /\ "wal" \in Part /\ "database" \in Part
        BY Generations DEF IInv, Part
    <2>2. /\ first \in [Part -> Content] /\ first["database"] = live["wal"]
          /\ \A p \in Part \ {"database"} : first[p] = live[p]
        BY <1>1, <2>1
    <2>3. live' = second
        BY DEF Checkpoint
    <2> HIDE DEF first
    <2>4. /\ second \in [Part -> Content] /\ second["wal"] = Missing
          /\ \A p \in Part \ {"wal"} : second[p] = first[p]
        BY <2>1, <2>2
    <2> QED BY <2>1, <2>2, <2>3, <2>4
<1>3. TypeOK'
    BY <1>1, <1>2 DEF Checkpoint, IInv, TypeOK
<1>4. WorkKept'
    <2>1. Works(live) \subseteq Works(live)'
        BY <1>1, <1>2 DEF Works, Part
    <2> QED BY <2>1 DEF Checkpoint, IInv, WorkKept
<1>5. Whole' /\ Installed' /\ Handed'
    BY <1>1, <1>2 DEF Checkpoint, IInv, Whole, Installed, Handed
<1>6. \A p \in Part : live'[p].work \subseteq live[p].work \cup live["wal"].work
    BY <1>1, <1>2 DEF Part, Missing
<1>7. Receipts' /\ Contents' /\ Copies'
    BY <1>1, <1>2, <1>6 DEF Checkpoint, IInv, Receipts, Contents, Copies, Kept, NoWork, Safe, Part
<1> QED BY <1>3, <1>4, <1>5, <1>7 DEF IInv

LEMMA StepPublish ==
    ASSUME IInv, Publish
    PROVE  IInv'
<1>1. /\ live \in [Part -> Content] /\ DOMAIN live = Part /\ marker = None
      /\ main' = main + 1 /\ main' \in 1 .. MaxMain /\ main \in 1 .. MaxMain
      /\ seen' = main' /\ repo' = main' /\ pc' = "open" /\ step' = 1
    BY Copied DEF Publish, IInv, TypeOK, Copies, Goto
<1>2. /\ Missing \in Content /\ Missing.work = {} /\ Generation(main') \in Content
      /\ Generation(main').work = {} /\ Generation(main') # Missing
    BY <1>1 DEF Missing, Generation, Content
<1>3. /\ live' \in [Part -> Content] /\ DOMAIN live' = Part
      /\ live'["wal"] = Missing /\ \A p \in Part \ {"wal"} : live'[p] = Generation(main')
    BY <1>1, <1>2 DEF Publish, Part
<1>4. NoWork(live)' /\ \A p \in Part : live'[p].work = {}
    BY <1>2, <1>3 DEF NoWork, Part
<1>5. receipt' = Clean(main', live')
    BY <1>1 DEF Publish
<1>6. /\ receipt'.status = "CLEAN" /\ receipt'.oid = main' /\ receipt'.files # None
      /\ receipt'.files["database"] = Generation(main') /\ NoWork(receipt'.files)
      /\ receipt' \in [status : {"none", "OPEN", "CLEAN"}, oid : 0 .. main',
                       files : {None} \cup [{"database", "employees", "version"} -> Content]]
    BY <1>1, <1>3, <1>4, <1>5, Receipted DEF NoWork, Part
<1>7. published' = published \cup Works(live) /\ Works(live) \subseteq made
    BY <1>1, WorkIn DEF Publish, IInv, Contents
<1>8. boot' \in Boots(main') /\ boot' = boot
    BY <1>1 DEF Publish, IInv, TypeOK, Boots
<1>9. TypeOK'
    <2>1. UNCHANGED <<net, marker, aside, review, made, faults>>
        BY DEF Publish
    <2> QED BY <1>1, <1>3, <1>6, <1>7, <1>8, <2>1 DEF IInv, TypeOK, Boots, PC, Startup
<1>10. WorkKept'
    BY <1>7 DEF Publish, IInv, WorkKept
<1>11. Whole' /\ Installed' /\ Handed'
    BY <1>1, <1>2, <1>3 DEF Publish, IInv, Whole, Installed, Handed, Part
<1>12. Receipts' /\ Contents' /\ Copies'
    <2>1. aside = None /\ aside' = None /\ marker' = None
        BY <1>1 DEF Publish, IInv, Copies
    <2> QED BY <1>1, <1>3, <1>4, <1>6, <2>1, Nothing DEF Receipts, Contents, Copies, Kept, Part
<1> QED BY <1>9, <1>10, <1>11, <1>12 DEF IInv

LEMMA StepCrash ==
    ASSUME IInv, Crash
    PROVE  IInv'
<1>1. /\ aside' = None /\ boot' = NoBoot /\ pc' = "off" /\ step' = 1
      /\ faults' \in 0 .. MaxFaults
      /\ UNCHANGED <<main, net, seen, repo, live, receipt, marker, review, published, made>>
    BY DEF Crash, Goto, Fault, IInv, TypeOK
<1>2. TypeOK'
    <2>1. boot' \in Boots(main) /\ DOMAIN aside' = {} /\ pc' \in PC
        BY <1>1, Booting, Nothing DEF IInv, PC
    <2> QED BY <1>1, <2>1 DEF IInv, TypeOK, Boots
<1>3. WorkKept' /\ Whole' /\ Contents'
    BY <1>1, Nothing DEF IInv, WorkKept, Whole, Contents
<1>4. Receipts' /\ Copies'
    BY <1>1, Nothing DEF IInv, Receipts, Copies, Kept, NoWork, Safe
<1>5. Installed' /\ Handed'
    BY <1>1, Booting DEF IInv, Installed, Handed
<1> QED BY <1>2, <1>3, <1>4, <1>5 DEF IInv

-----------------------------------------------------------------------------
(* The theorems. *)

LEMMA Start ==
    ASSUME Init
    PROVE  IInv
<1>1. live = [p \in Part |-> Missing] /\ DOMAIN live = Part
    BY DEF Init
<1>2. Missing \in Content /\ Missing.work = {}
    BY DEF Missing, Content
<1>3. /\ receipt.status = "none"
      /\ receipt \in [status : {"none", "OPEN", "CLEAN"}, oid : 0 .. main,
                      files : {None} \cup [{"database", "employees", "version"} -> Content]]
    BY DEF Init, Unaccepted
<1>4. boot \in Boots(main) /\ ~boot.offline
    BY DEF Init, NoBoot, Boots
<1>5. NoWork(live) /\ \A p \in Part : live[p].work = {}
    BY <1>1, <1>2 DEF NoWork
<1>6. TypeOK
    BY <1>1, <1>2, <1>3, <1>4, Nothing DEF Init, TypeOK, PC, Boots
<1>7. WorkKept /\ Whole /\ Contents
    BY <1>5, Nothing DEF Init, WorkKept, Whole, Contents, Part
<1>8. Receipts /\ Copies
    BY <1>3, <1>5, Nothing DEF Init, Receipts, Copies
<1>9. Installed /\ Handed
    BY <1>4 DEF Init, Installed, Handed
<1> QED BY <1>6, <1>7, <1>8, <1>9 DEF IInv

LEMMA Steps ==
    ASSUME IInv, [Next]_vars
    PROVE  IInv'
<1>1. CASE Progress
    BY <1>1, StepBoot, StepReplay, StepFetch, StepFetchFails, StepPrepare, StepPrepareFails,
       StepReset, StepCapture, StepInstall, StepInstallFails, StepRecord, StepUndo,
       StepAttest, StepAttestFails, StepRestart DEF Progress
<1>2. CASE HandoffReset \/ HandoffBegin \/ Handoff
    BY <1>2, StepHandoffReset, StepHandoffBegin, StepHandoffInstall, StepHandoffSeals,
       StepHandoffFails DEF Handoff
<1>3. CASE \/ StartEditing \/ (\E w \in Work : Edit(w)) \/ Checkpoint \/ Publish
           \/ EndEditing \/ Close
    BY <1>3, StepStartEditing, StepEdit, StepCheckpoint, StepPublish, StepEndEditing, StepClose
<1>4. CASE Crash \/ OtherPublishes \/ NetworkLost \/ NetworkBack
    BY <1>4, StepCrash, StepOtherPublishes, StepNetworkLost, StepNetworkBack
<1>5. CASE UNCHANGED vars
    BY <1>5 DEF vars, IInv, TypeOK, WorkKept, Whole, Receipts, Contents, Copies, Installed,
                Handed, Kept, NoWork, Safe
<1> QED BY <1>1, <1>2, <1>3, <1>4, <1>5 DEF Next

(* The inductive invariant holds in every state. *)
THEOREM Invariance == Spec => []IInv
<1> QED BY Start, Steps, PTL DEF Spec

(* Every variable has its type; in particular an installation that has begun *)
(* has its marker.                                                           *)
THEOREM TypeCorrect == Spec => []TypeOK
<1>1. IInv => TypeOK
    BY DEF IInv
<1> QED BY <1>1, Invariance, PTL

(* Work that was never published is in the live files or in an archive,      *)
(* whatever was interrupted: every installer begins when nothing would be    *)
(* lost, and what it writes back was kept.                                   *)
THEOREM WorkIsKept == Spec => []WorkKept
<1>1. IInv => WorkKept
    BY DEF IInv
<1> QED BY <1>1, Invariance, PTL

(* What is opened or edited is one whole database.                           *)
THEOREM OpenedWhole == Spec => []Whole
<1>1. IInv => Whole
    BY DEF IInv
<1> QED BY <1>1, Invariance, PTL

(* A startup that reached MAIN opens on the MAIN it has just observed, under *)
(* a receipt the next installer accepts; one that did not shows the files of *)
(* the receipt it was allowed by.                                            *)
THEOREM EndsOnMain == Spec => StartsOnMain
<1> DEFINE Shown ==
         IF boot.offline
         THEN receipt.files = Fingerprint(live)
         ELSE /\ \A p \in {"database", "employees", "manifest"} : live[p] = Generation(main)
              /\ Replaceable'
<1>1. ASSUME IInv, [Next]_vars, pc = "attest", pc' = "open"
      PROVE  Shown
    <2>1. CASE Attest
        <3>1. CASE boot.offline
            BY <1>1, <3>1 DEF IInv, Installed
        <3>2. CASE ~boot.offline
            <4>1. main = repo /\ repo \in 0 .. main
                BY <1>1, <2>1 DEF Attest, Observed, Stable, IInv, TypeOK
            <4>2. \A p \in {"database", "employees", "manifest"} : live[p] = Generation(main)
                BY <1>1, <3>2, <4>1 DEF IInv, Installed
            <4>3. receipt' = Clean(repo, live) /\ live' = live /\ repo' = repo /\ seen' = seen
                BY <2>1 DEF Attest
            <4>4. live["database"] # Missing /\ live["wal"] = Missing /\ live \in [Part -> Content]
                BY <1>1, <2>1 DEF Attest, Stable, IInv, TypeOK
            <4>5. Replaceable'
                BY <4>3, <4>4, Receipted DEF Replaceable, Fingerprint
            <4> QED BY <3>2, <4>2, <4>5
        <3> QED BY <3>1, <3>2
    <2>2. CASE Progress /\ ~Attest
        BY <1>1, <2>2 DEF Progress, Boot, Replay, Fetch, FetchFails, Prepare, PrepareFails, Reset,
           Capture, Install, InstallFails, Record, Undo, AttestFails, Restart, Goto
    <2>3. CASE HandoffReset \/ HandoffBegin \/ Handoff
        BY <1>1, <2>3 DEF HandoffReset, HandoffBegin, Handoff, HandoffInstall, HandoffSeals,
           HandoffFails, Goto
    <2>4. CASE \/ StartEditing \/ (\E w \in Work : Edit(w)) \/ Checkpoint \/ Publish
               \/ EndEditing \/ Close
        BY <1>1, <2>4 DEF StartEditing, Edit, Checkpoint, Publish, EndEditing, Close, Goto
    <2>5. CASE Crash \/ OtherPublishes \/ NetworkLost \/ NetworkBack
        BY <1>1, <2>5 DEF Crash, OtherPublishes, NetworkLost, NetworkBack, Goto
    <2>6. CASE UNCHANGED vars
        BY <1>1, <2>6 DEF vars
    <2> QED BY <1>1, <2>1, <2>2, <2>3, <2>4, <2>5, <2>6 DEF Next
<1>2. IInv /\ [Next]_vars => [pc = "attest" /\ pc' = "open" => Shown]_vars
    BY <1>1
<1> QED BY <1>2, Invariance, PTL DEF Spec, StartsOnMain

=============================================================================
