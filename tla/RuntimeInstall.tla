--------------------------- MODULE RuntimeInstall ---------------------------
(***************************************************************************)
(* The live files of one workstation (the database with its WAL, the       *)
(* documents of employees, the manifest, the version) and the two          *)
(* installers that replace them by a commit of MAIN, file by file:         *)
(*                                                                         *)
(*   - startup, in a process nobody uses yet.  It archives what is not     *)
(*     accepted, copies every file beside the runtime, writes a marker     *)
(*     last, replaces the files and removes the marker.  A boot that finds *)
(*     the marker restores the copies first.                               *)
(*   - the handoff and the background synchronization, in a process that   *)
(*     is open, under the maintenance fence.  They leave no marker: what   *)
(*     they keep aside is known to the process alone.                      *)
(*                                                                         *)
(* Any of their steps may fail, the process may die between any two, and   *)
(* the network and MAIN go on meanwhile.  The receipt of the recovery      *)
(* journal holds the fingerprint of the files that are accepted.           *)
(***************************************************************************)
EXTENDS Integers, Sequences

CONSTANTS
    Work,       \* pieces of local work
    MaxMain,    \* bound: commits of MAIN
    MaxFaults   \* bound: crashes, failed steps and losses of the network

ASSUME BoundAssumption == MaxMain \in Nat \ {0} /\ MaxFaults \in Nat

VARIABLES
    main,       \* the newest commit of MAIN
    net,        \* can the remote repository be reached
    seen,       \* the remote-tracking branch; 0: no clone
    repo,       \* HEAD of the local repository; 0: no clone
    live,       \* live[p]: what the file p of the runtime holds
    receipt,    \* the recovery journal
    marker,     \* startup-install.pending.json with its copies, or None
    aside,      \* what this process has moved or copied aside
    review,     \* work in the verified manual-review archives
    published,  \* work in MAIN
    made,       \* history: all work ever done here
    pc, step,   \* what the process does
    boot,       \* what this startup has decided
    faults

vars == <<main, net, seen, repo, live, receipt, marker, aside, review,
          published, made, pc, step, boot, faults>>

-----------------------------------------------------------------------------
(* Files. *)

Part == {"database", "wal", "employees", "manifest", "version"}
Asset == {"employees", "manifest", "version"}

(* The commit a file comes from and the work done on it since; a WAL holds   *)
(* all its database holds.                                                   *)
Content == [gen : 0 .. MaxMain, work : SUBSET Work]
Missing == [gen |-> 0, work |-> {}]
Generation(g) == [gen |-> g, work |-> {}]

None == << >>   \* no copies
Works(copies) == UNION {copies[p].work : p \in DOMAIN copies}

(* The receipt covers neither the WAL nor the manifest. *)
Fingerprint(files) == [p \in {"database", "employees", "version"} |-> files[p]]

Clean(oid, files) == [status |-> "CLEAN", oid |-> oid, files |-> Fingerprint(files)]
Unaccepted(status) == [status |-> status, oid |-> 0, files |-> None]

(* assert_replaceable, with a receipt *)
Replaceable ==
    /\ receipt.status = "CLEAN"
    /\ live["database"] # Missing /\ live["wal"] = Missing
    /\ receipt.files = Fingerprint(live)
    /\ repo \in {receipt.oid, seen}

-----------------------------------------------------------------------------

Startup == {"replay", "fetch", "prepare", "reset", "capture", "install", "record", "undo", "attest"}
PC == Startup \cup {"off", "refused", "open", "editing", "handoff", "fenced"}
NoBoot == [base |-> 0, prev |-> 0, kind |-> "none", offline |-> FALSE]

TypeOK ==
    /\ main \in 1 .. MaxMain /\ net \in BOOLEAN
    /\ seen \in 0 .. main /\ repo \in 0 .. main
    /\ live \in [Part -> Content]
    /\ receipt \in [status : {"none", "OPEN", "CLEAN"}, oid : 0 .. main,
                   files : {None} \cup [{"database", "employees", "version"} -> Content]]
    /\ marker \in {None} \cup [Part -> Content]
    /\ DOMAIN aside \subseteq Part /\ \A p \in DOMAIN aside : aside[p] \in Content
    /\ review \cup published \subseteq made /\ made \subseteq Work
    /\ pc \in PC /\ step \in 1 .. 8
    /\ boot \in [base : 0 .. main, prev : 0 .. main,
                 kind : {"none", "clean", "reset", "fresh"}, offline : BOOLEAN]
    /\ pc \in {"install", "record"} => marker # None
    /\ faults \in 0 .. MaxFaults

Init ==
    /\ main = 1 /\ net = TRUE
    /\ seen = 0 /\ repo = 0
    /\ live = [p \in Part |-> Missing]
    /\ receipt = Unaccepted("none")
    /\ marker = None /\ aside = None
    /\ review = {} /\ published = {} /\ made = {}
    /\ pc = "off" /\ step = 1 /\ boot = NoBoot
    /\ faults = 0

Goto(p) == pc' = p /\ step' = 1
Fault == faults < MaxFaults /\ faults' = faults + 1
Observed(oid) == net /\ main = oid

-----------------------------------------------------------------------------
(* Replacing files one by one. *)

MutStartupMoves ==   \* the WAL stays
    << <<"database", "away">>, <<"database", "new">>,
       <<"employees", "away">>, <<"employees", "new">>,
       <<"manifest", "new">>, <<"version", "new">> >>

StartupMoves ==
    << <<"database", "away">>, <<"wal", "away">>, <<"database", "new">>,
       <<"employees", "away">>, <<"employees", "new">>,
       <<"manifest", "new">>, <<"version", "new">> >>

HandoffMoves ==
    << <<"database", "away">>, <<"wal", "away">>, <<"database", "new">>,
       <<"manifest", "away">>, <<"manifest", "new">>, <<"version", "new">> >>

Move(part, how) ==
    /\ live' = [live EXCEPT ![part] = IF how = "new" THEN Generation(repo) ELSE Missing]
    /\ aside' = IF how = "away"
                THEN [p \in DOMAIN aside \cup {part} |->
                         IF p \in DOMAIN aside THEN aside[p] ELSE live[p]]
                ELSE aside

(* What was kept aside goes back. *)
Restored(parts) ==
    [p \in Part |-> IF p \in parts \cap DOMAIN aside THEN aside[p] ELSE live[p]]

(* What is kept aside when that of some files is forgotten. *)
Without(parts) == [p \in DOMAIN aside \ parts |-> aside[p]]

-----------------------------------------------------------------------------
(* Startup. *)

Boot ==
    /\ pc = "off"
    /\ Goto(IF marker # None THEN "replay" ELSE "fetch")
    /\ boot' = [NoBoot EXCEPT !.kind = IF receipt.status = "none" /\ repo = 0
                                          /\ live["database"] = Missing
                                       THEN "fresh" ELSE "none"]
    /\ UNCHANGED <<main, net, seen, repo, live, receipt, marker, aside, review, published, made, faults>>

(* recover_interrupted_install: every copy back in its place, the marker last. *)
ReplayOrder == <<"database", "wal", "employees", "manifest", "version">>

Replay ==
    /\ pc = "replay"
    /\ IF step <= Len(ReplayOrder)
       THEN /\ live' = [live EXCEPT ![ReplayOrder[step]] = marker[ReplayOrder[step]]]
            /\ step' = step + 1 /\ UNCHANGED <<pc, marker>>
       ELSE /\ marker' = None /\ Goto("fetch") /\ UNCHANGED live
    /\ UNCHANGED <<main, net, seen, repo, receipt, aside, review, published, made, boot, faults>>

Fetch ==
    /\ pc = "fetch" /\ net
    /\ seen' = main
    /\ repo' = IF repo = 0 THEN main ELSE repo
    /\ Goto("prepare")
    /\ UNCHANGED <<main, net, live, receipt, marker, aside, review, published, made, boot, faults>>

(* assess_offline_read: MAIN cannot be fetched, an accepted cache is shown. *)
FetchFails ==
    /\ pc = "fetch" /\ ~net
    /\ IF Replaceable
       THEN Goto("attest") /\ boot' = [NoBoot EXCEPT !.kind = "clean", !.offline = TRUE]
       ELSE Goto("refused") /\ UNCHANGED boot
    /\ UNCHANGED <<main, net, seen, repo, live, receipt, marker, aside, review, published, made, faults>>

MutArchive ==   \* the database without its WAL
    review' = review \cup live["database"].work \cup live["employees"].work

(* preserve_workspace_for_manual_review, verified *)
Archive == review' = review \cup Works(live)

MutPrepare ==   \* a runtime that is not accepted is refused
    /\ pc = "prepare" /\ Observed(seen)
    /\ IF Replaceable \/ boot.kind = "fresh"
       THEN /\ boot' = [boot EXCEPT !.kind = IF Replaceable THEN "clean" ELSE "fresh", !.base = main]
            /\ Goto("reset")
       ELSE boot' = NoBoot /\ Goto("refused")
    /\ UNCHANGED <<main, net, seen, repo, live, receipt, marker, aside, review, published, made, faults>>

(* _prepare_authoritative_startup_replacement: what is not accepted is       *)
(* archived; the journal that goes with it is replaced at the end.           *)
Prepare ==
    /\ pc = "prepare" /\ Observed(seen)
    /\ \/ /\ Replaceable
          /\ boot' = [boot EXCEPT !.kind = "clean", !.base = main] /\ UNCHANGED review
       \/ /\ ~Replaceable /\ boot.kind = "fresh"
          /\ boot' = [boot EXCEPT !.base = main] /\ UNCHANGED review
       \/ /\ ~Replaceable /\ boot.kind # "fresh"
          /\ Archive
          /\ boot' = [boot EXCEPT !.kind = IF receipt.status = "none" THEN "fresh" ELSE "reset",
                                  !.base = main]
    /\ Goto("reset")
    /\ UNCHANGED <<main, net, seen, repo, live, receipt, marker, aside, published, made, faults>>

(* The archive fails, or MAIN cannot be observed where it was fetched. *)
PrepareFails ==
    /\ pc = "prepare"
    /\ (~Observed(seen) /\ UNCHANGED faults) \/ Fault
    /\ boot' = NoBoot
    /\ Goto("refused")
    /\ UNCHANGED <<main, net, seen, repo, live, receipt, marker, aside, review, published, made>>

(* _reset_to_remote, then _prepare_startup_assets *)
Reset ==
    /\ pc = "reset"
    /\ boot' = [boot EXCEPT !.prev = repo]
    /\ repo' = boot.base
    /\ IF Observed(boot.base)
       THEN aside' = [p \in Asset |-> live[p]] /\ Goto("capture")
       ELSE UNCHANGED aside /\ Goto("undo")
    /\ UNCHANGED <<main, net, seen, live, receipt, marker, review, published, made, faults>>

(* capture_before_install *)
Capture ==
    /\ pc = "capture"
    /\ marker' = live
    /\ Goto("install")
    /\ UNCHANGED <<main, net, seen, repo, live, receipt, aside, review, published, made, boot, faults>>

Install ==
    /\ pc = "install"
    /\ Move(StartupMoves[step][1], StartupMoves[step][2])
    /\ IF step < Len(StartupMoves) THEN step' = step + 1 /\ UNCHANGED pc ELSE Goto("record")
    /\ UNCHANGED <<main, net, seen, repo, receipt, marker, review, published, made, boot, faults>>

(* _install_authoritative_database_atomically puts its own files back, or    *)
(* fails to and forgets them; later failures are undone from outside.        *)
InstallFails ==
    /\ pc \in {"capture", "install", "record"} /\ (pc = "record" => step = 1)
    /\ Fault
    /\ IF pc = "install" /\ step <= 3
       THEN /\ live' \in {Restored({"database", "wal"}), live}
            /\ aside' = Without({"database", "wal"})
       ELSE UNCHANGED <<live, aside>>
    /\ Goto("undo")
    /\ UNCHANGED <<main, net, seen, repo, receipt, marker, review, published, made, boot>>

(* Refresh of the sessions, record_synchronized, and the end of the marker.  *)
Record ==
    /\ pc = "record"
    /\ IF boot.kind = "clean" /\ step = 1
       THEN receipt' = Clean(repo, live) /\ step' = 2 /\ UNCHANGED <<pc, aside, marker>>
       ELSE aside' = None /\ marker' = None /\ Goto("attest") /\ UNCHANGED receipt
    /\ UNCHANGED <<main, net, seen, repo, live, review, published, made, boot, faults>>

(* _rollback_failed_install_all: the database, the assets, the repository,   *)
(* each of which may fail; then _complete_failed_startup_rollback.           *)
Undo ==
    /\ pc = "undo"
    /\ \E failed \in SUBSET {"database", "assets", "git"} :
         LET done == (IF "database" \in failed THEN {} ELSE {"database", "wal"})
                     \cup (IF "assets" \in failed THEN {} ELSE Asset)
         IN /\ IF failed = {} THEN UNCHANGED faults ELSE Fault
            /\ live' = Restored(done)
            /\ repo' = IF "git" \in failed THEN repo ELSE boot.prev
            /\ marker' = IF failed = {} THEN None ELSE marker
    /\ aside' = None /\ boot' = NoBoot
    /\ Goto("refused")
    /\ UNCHANGED <<main, net, seen, receipt, review, published, made>>

(* The commit this boot vouches for, and what its receipt needs. *)
Accepted == IF boot.kind = "clean" THEN receipt.oid ELSE boot.base
Stable(oid) ==
    /\ repo = oid /\ seen = oid
    /\ live["database"] # Missing /\ live["wal"] = Missing

MutAttest ==   \* MAIN is not observed again
    /\ pc = "attest"
    /\ Stable(Accepted)
    /\ receipt' = Clean(repo, live)
    /\ boot' = NoBoot
    /\ Goto("open")
    /\ UNCHANGED <<main, net, seen, repo, live, marker, aside, review, published, made, faults>>

(* main() after the migration of the schema: the receipt of this boot.       *)
Attest ==
    /\ pc = "attest"
    /\ Observed(Accepted) /\ Stable(Accepted)
    /\ receipt' = Clean(repo, live)
    /\ boot' = NoBoot
    /\ Goto("open")
    /\ UNCHANGED <<main, net, seen, repo, live, marker, aside, review, published, made, faults>>

AttestFails ==
    /\ pc = "attest"
    /\ Observed(Accepted) => ~Stable(Accepted)
    /\ Goto("refused")
    /\ UNCHANGED <<main, net, seen, repo, live, receipt, marker, aside, review, published, made, boot, faults>>

Restart ==
    /\ pc = "refused"
    /\ boot' = NoBoot
    /\ Goto("off")
    /\ UNCHANGED <<main, net, seen, repo, live, receipt, marker, aside, review, published, made, faults>>

-----------------------------------------------------------------------------
(* The handoff and the background synchronization. *)

HandoffReset ==
    /\ pc = "open" /\ net /\ Replaceable
    /\ seen' = main /\ repo' = main
    /\ UNCHANGED <<main, net, live, receipt, marker, aside, review, published, made, pc, step, boot, faults>>

HandoffBegin ==
    /\ pc = "open" /\ Replaceable
    /\ Goto("handoff")
    /\ UNCHANGED <<main, net, seen, repo, live, receipt, marker, aside, review, published, made, boot, faults>>

HandoffInstall ==
    /\ pc = "handoff" /\ step <= Len(HandoffMoves)
    /\ Move(HandoffMoves[step][1], HandoffMoves[step][2])
    /\ step' = step + 1
    /\ UNCHANGED <<main, net, seen, repo, receipt, marker, review, published, made, pc, boot, faults>>

(* record_verified_handoff_install *)
MaySeal == receipt.status = "CLEAN" /\ Observed(repo) /\ Stable(repo)

HandoffSeals ==
    /\ pc = "handoff" /\ step > Len(HandoffMoves)
    /\ MaySeal
    /\ receipt' = Clean(repo, live)
    /\ aside' = None
    /\ Goto("open")
    /\ UNCHANGED <<main, net, seen, repo, live, marker, review, published, made, boot, faults>>

(* A step fails, or MAIN is not what was installed: the database, the WAL    *)
(* and the manifest go back, the version does not.  If that fails half-way,  *)
(* the database stays fenced.                                                *)
HandoffFails ==
    /\ pc = "handoff"
    /\ \/ /\ step > Len(HandoffMoves) /\ ~MaySeal
          /\ UNCHANGED faults /\ live' = Restored(Part) /\ Goto("open")
       \/ Fault /\ live' = Restored(Part) /\ Goto("open")
       \/ Fault /\ Goto("fenced") /\ \E parts \in SUBSET DOMAIN aside : live' = Restored(parts)
    /\ aside' = None
    /\ UNCHANGED <<main, net, seen, repo, receipt, marker, review, published, made, boot>>

-----------------------------------------------------------------------------
(* Work.  Who may edit and how it is published is in WriteTransaction. *)

StartEditing ==
    /\ pc = "open" /\ Replaceable
    /\ Observed(repo) /\ live["database"] = Generation(repo)
    /\ receipt' = Unaccepted("OPEN")
    /\ Goto("editing")
    /\ UNCHANGED <<main, net, seen, repo, live, marker, aside, review, published, made, boot, faults>>

(* A commit goes to the WAL, a document to the tree of the employees. *)
Edit(w) ==
    /\ pc = "editing" /\ w \notin made
    /\ made' = made \cup {w}
    /\ \/ live' = [live EXCEPT !["wal"] =
                      [gen |-> live["database"].gen,
                       work |-> live["database"].work \cup live["wal"].work \cup {w}]]
       \/ live' = [live EXCEPT !["employees"].work = @ \cup {w}]
    /\ UNCHANGED <<main, net, seen, repo, receipt, marker, aside, review, published, pc, step, boot, faults>>

Checkpoint ==
    /\ pc \in {"open", "editing"} /\ live["wal"] # Missing
    /\ live' = [live EXCEPT !["database"] = live["wal"], !["wal"] = Missing]
    /\ UNCHANGED <<main, net, seen, repo, receipt, marker, aside, review, published, made, pc, step, boot, faults>>

Publish ==
    /\ pc = "editing" /\ Observed(repo) /\ main < MaxMain
    /\ main' = main + 1 /\ seen' = main + 1 /\ repo' = main + 1
    /\ live' = [p \in Part |-> IF p = "wal" THEN Missing ELSE Generation(main + 1)]
    /\ receipt' = Clean(main + 1, live')
    /\ published' = published \cup Works(live)
    /\ Goto("open")
    /\ UNCHANGED <<net, marker, aside, review, made, boot, faults>>

(* Cancelled, lost or failed: the files and the open journal stay. *)
EndEditing ==
    /\ pc = "editing"
    /\ Goto("open")
    /\ UNCHANGED <<main, net, seen, repo, live, receipt, marker, aside, review, published, made, boot, faults>>

(* The window is closed. *)
Close ==
    /\ pc \in {"open", "editing", "fenced"}
    /\ Goto("off")
    /\ UNCHANGED <<main, net, seen, repo, live, receipt, marker, aside, review, published, made, boot, faults>>

-----------------------------------------------------------------------------
(* The rest of the world. *)

Crash ==
    /\ pc \notin {"off", "refused"} /\ Fault
    /\ aside' = None /\ boot' = NoBoot
    /\ Goto("off")
    /\ UNCHANGED <<main, net, seen, repo, live, receipt, marker, review, published, made>>

OtherPublishes ==
    /\ main < MaxMain /\ main' = main + 1
    /\ UNCHANGED <<net, seen, repo, live, receipt, marker, aside, review, published, made, pc, step, boot, faults>>

NetworkLost ==
    /\ net /\ Fault /\ net' = FALSE
    /\ UNCHANGED <<main, seen, repo, live, receipt, marker, aside, review, published, made, pc, step, boot>>

NetworkBack ==
    /\ ~net /\ net' = TRUE
    /\ UNCHANGED <<main, seen, repo, live, receipt, marker, aside, review, published, made, pc, step, boot, faults>>

-----------------------------------------------------------------------------

(* What goes on by itself, or by a user who starts the program again. *)
Progress ==
    \/ Boot \/ Replay \/ Fetch \/ FetchFails \/ Prepare \/ PrepareFails \/ Reset
    \/ Capture \/ Install \/ InstallFails \/ Record \/ Undo \/ Attest \/ AttestFails
    \/ Restart

Handoff == HandoffInstall \/ HandoffSeals \/ HandoffFails

Next ==
    \/ Progress \/ HandoffReset \/ HandoffBegin \/ Handoff
    \/ StartEditing \/ (\E w \in Work : Edit(w)) \/ Checkpoint \/ Publish \/ EndEditing \/ Close
    \/ Crash \/ OtherPublishes \/ NetworkLost \/ NetworkBack

Spec == Init /\ [][Next]_vars

(* The program goes on, a fenced one is closed, the network comes back. *)
FairSpec ==
    Spec /\ WF_vars(Progress) /\ WF_vars(Handoff)
         /\ WF_vars(pc = "fenced" /\ Close) /\ WF_vars(NetworkBack)

-----------------------------------------------------------------------------
(* Properties. *)

(* Whatever is shown or edited is one whole database: no WAL of another      *)
(* generation beside it, whichever steps of which installer, replay or       *)
(* rollback went before (a WAL left beside a new database is replayed into   *)
(* it by SQLite).                                                            *)
Whole ==
    pc \in {"attest", "open", "editing"} =>
        /\ live["database"] # Missing
        /\ live["wal"] # Missing =>
              /\ live["wal"].gen = live["database"].gen
              /\ live["database"].work \subseteq live["wal"].work

(* Work that was never published is in the live files or in a verified       *)
(* archive: neither the copies of a marker nor what an installer has put     *)
(* aside is ever the only place it is in, so losing them loses nothing.      *)
WorkKept == made \subseteq published \cup review \cup Works(live)

(* A startup that reached MAIN opens on all of the MAIN it has just observed *)
(* (no handoff installs the documents, no receipt covers the manifest) under *)
(* a receipt that lets the next installer replace them; one that did not     *)
(* shows the files of the receipt it was allowed by and nothing else.        *)
StartsOnMain ==
    [][pc = "attest" /\ pc' = "open" =>
         IF boot.offline
         THEN receipt.files = Fingerprint(live)
         ELSE /\ \A p \in {"database", "employees", "manifest"} : live[p] = Generation(main)
              /\ Replaceable']_vars

(* However its startups and handoffs were interrupted, a workstation opens   *)
(* again.                                                                    *)
OpensAgain == []<>(pc \in {"open", "editing"})

(* An accepted cache is shown without a network (the acceptance test of the  *)
(* offline start; the code fails it, for its receipt is refreshed against an *)
(* observation of MAIN).                                                     *)
OfflineOpens ==
    [][pc = "attest" /\ boot.offline /\ ~net => pc' # "refused"]_vars
=============================================================================
