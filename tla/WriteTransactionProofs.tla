------------------------ MODULE WriteTransactionProofs ------------------------
(***************************************************************************)
(* Proofs about WriteTransaction, for any workstations and any number of   *)
(* commits, transactions, edits and faults.                                *)
(*                                                                         *)
(* A live database is replaced only when MAIN has all of it, because MAIN  *)
(* only grows; and MAIN only grows because what is pushed is the version   *)
(* it started from and one transaction (InHand), also when the push comes  *)
(* late (FlyingWhole).                                                     *)
(***************************************************************************)
EXTENDS WriteTransaction, FiniteSetTheorems, TLAPS

-----------------------------------------------------------------------------
(* The inductive invariant. *)

OfTx(t) == {e \in made : e[1] = t}

(* MAIN only grows, and holds nothing that was not saved. *)
MainGrows ==
    /\ \A i, j \in 1 .. Len(main) : i <= j => main[i] \subseteq main[j]
    /\ main[Newest] \subseteq made

(* The edits of a transaction are numbered without gaps; a transaction that  *)
(* has not begun has none.                                                   *)
Numbered ==
    /\ \A t \in 1 .. MaxTx : \E k \in 0 .. MaxEdits : OfTx(t) = {<<t, n>> : n \in 1 .. k}
    /\ \A e \in made : e[1] <= txs
    /\ \A s \in Session : current[s] <= txs

Unpublished(t) == \A e \in main[Newest] : e[1] # t

(* From the journal to the push. *)
Before == {"VERIFY", "EDITING", "EDITING_STALE", "REACQUIRE", "FINISHING",
           "FINISHING_WAITING_FOR_COLLABORATION", "PUBLISHING"}

(* A session that has begun and not yet pushed has, beside the version it    *)
(* started from, all of its transaction and nothing else, and none of that   *)
(* is in MAIN.                                                               *)
InHand ==
    \A s \in Session : tx[s] \in Before =>
        /\ base[s] # 0 /\ current[s] # 0
        /\ journal[s].status = IF tx[s] = "PUBLISHING" THEN "PUBLISHING" ELSE "OPEN"
        /\ runtime[s] = main[base[s]] \cup OfTx(current[s])
        /\ Unpublished(current[s])

(* A loss of the authority is never overtaken by Finish. *)
FinishSees ==
    \A s \in Session : finishing[s] =>
        tx[s] = "FINISHING" \/ (tx[s] = "RECOVERY_REQUIRED" /\ journal[s].lost)

(* A push that may still land carries one transaction, of which no more can  *)
(* be saved or pushed.                                                       *)
Carries(p, t) ==
    /\ p.content = main[Newest] \cup OfTx(t) /\ Unpublished(t)
    /\ \A s \in Session : current[s] = t => tx[s] \notin Before
FlyingWhole ==
    \A p \in flying : p.base <= Newest /\ (p.base = Newest => \E t \in 1 .. txs : Carries(p, t))

(* What startup is about to replace has been archived, or is in MAIN. *)
Prepared ==
    \A s \in Session : tx[s] = "STARTING" => runtime[s] \subseteq saved[s] \cup main[Newest]

IInv ==
    /\ TypeOK /\ MainGrows /\ Numbered /\ InHand /\ FinishSees /\ FlyingWhole /\ Prepared
    /\ WorkNeverLost /\ CleanIsPublished /\ LostIsNotPublished

-----------------------------------------------------------------------------
(* Helpers. *)

LEMMA CardinalityOfRun ==
    ASSUME NEW c, NEW k \in Nat
    PROVE  Cardinality({<<c, n>> : n \in 1 .. k}) = k
<1> DEFINE S == {<<c, n>> : n \in 1 .. k}
           f == [n \in 1 .. k |-> <<c, n>>]
<1>1. f \in Bijection(1 .. k, S)
  <2>1. f \in [1 .. k -> S] /\ \A x \in S : \E n \in 1 .. k : f[n] = x
    OBVIOUS
  <2>2. \A m, n \in 1 .. k : f[m] = f[n] => m = n
    OBVIOUS
  <2> QED BY <2>1, <2>2 DEF Bijection, Injection, Surjection, IsInjective
<1>2. ExistsBijection(1 .. k, S)
  BY <1>1 DEF ExistsBijection
<1> QED BY <1>2, FS_CountingElements

(* The edit that Save makes is the next of its transaction. *)
LEMMA SavedNext ==
    ASSUME IInv, NEW s \in Session, Save(s)
    PROVE  \E k \in 0 .. MaxEdits - 1 :
              /\ OfTx(current[s]) = {<<current[s], n>> : n \in 1 .. k}
              /\ runtime' = [runtime EXCEPT ![s] = @ \cup {<<current[s], k + 1>>}]
              /\ made' = made \cup {<<current[s], k + 1>>}
              /\ current[s] \in 1 .. MaxTx
<1> DEFINE mine == {e \in runtime[s] : e[1] = current[s]}
<1>1. /\ tx[s] = "EDITING"
      /\ runtime' = [runtime EXCEPT ![s] = @ \cup {<<current[s], Cardinality(mine) + 1>>}]
      /\ made' = made \cup {<<current[s], Cardinality(mine) + 1>>}
      /\ Cardinality(mine) < MaxEdits
  BY DEF Save
<1>2. /\ current[s] \in 1 .. MaxTx /\ base[s] \in 1 .. Newest
      /\ runtime[s] = main[base[s]] \cup OfTx(current[s])
      /\ Unpublished(current[s]) /\ main[base[s]] \subseteq main[Newest]
  <2>1. /\ base[s] # 0 /\ current[s] # 0 /\ Unpublished(current[s])
        /\ runtime[s] = main[base[s]] \cup OfTx(current[s])
    BY <1>1 DEF IInv, InHand, Before
  <2>2. base[s] \in 1 .. Newest /\ current[s] \in 1 .. MaxTx /\ Newest \in 1 .. Len(main)
    BY <2>1, BoundAssumption DEF IInv, TypeOK, Newest, Commit
  <2>3. main[base[s]] \subseteq main[Newest]
    BY <2>2 DEF IInv, MainGrows, Newest
  <2> QED BY <2>1, <2>2, <2>3
<1>3. mine = OfTx(current[s])
  BY <1>2 DEF OfTx, Unpublished
<1>4. PICK k \in 0 .. MaxEdits : OfTx(current[s]) = {<<current[s], n>> : n \in 1 .. k}
  BY <1>2 DEF IInv, Numbered
<1>5. Cardinality(mine) = k
  <2>1. k \in Nat
    BY <1>4, BoundAssumption
  <2>2. Cardinality({<<current[s], n>> : n \in 1 .. k}) = k
    BY <2>1, CardinalityOfRun
  <2> QED BY <1>3, <1>4, <2>2
<1>6. k \in 0 .. MaxEdits - 1
  BY <1>1, <1>5, BoundAssumption
<1> QED BY <1>1, <1>2, <1>4, <1>5, <1>6

-----------------------------------------------------------------------------
(* Types. *)

LEMMA TypeInit == Init => TypeOK
BY BoundAssumption DEF Init, TypeOK, Receipt, Status, State, Commit, Edit

(* TypeOK in three parts: one set for each variable, the bounds, and whose   *)
(* transaction it is.                                                        *)
Journals == [status : Status, published : Commit, lost : BOOLEAN]
Shapes ==
    /\ main \in Seq(SUBSET Edit) /\ Len(main) \in Commit
    /\ flying \subseteq [base : Commit, content : SUBSET Edit]
    /\ lock \in Session \cup {None, Ghost}
    /\ tx \in [Session -> State]
    /\ queued \in [Session -> BOOLEAN] /\ writing \in [Session -> BOOLEAN]
    /\ finishing \in [Session -> BOOLEAN] /\ pending \in [Session -> BOOLEAN]
    /\ dirty \in [Session -> BOOLEAN]
    /\ base \in [Session -> Commit \cup {0}]
    /\ current \in [Session -> 0 .. MaxTx]
    /\ runtime \in [Session -> SUBSET Edit]
    /\ journal \in [Session -> Journals]
    /\ saved \in [Session -> SUBSET Edit]
    /\ made \subseteq Edit /\ txs \in 0 .. MaxTx /\ faults \in 0 .. MaxFaults
Within == \A s \in Session : journal[s].published <= Len(main) /\ base[s] <= Len(main)
Owned == \A s, t \in Session : s # t /\ current[s] > 0 => current[s] # current[t]

LEMMA TypeParts == TypeOK <=> Shapes /\ Within /\ Owned
BY DEF TypeOK, Shapes, Within, Owned, Journals

LEMMA TypePartsNext == TypeOK' <=> Shapes' /\ Within' /\ Owned'
BY DEF TypeOK, Shapes, Within, Owned, Journals

LEMMA ReleaseShapes ==
    ASSUME Shapes, NEW s \in Session, Released(s) \/ ReleaseFails(s)
    PROVE  /\ lock' \in Session \cup {None, Ghost} /\ faults' \in 0 .. MaxFaults
           /\ writing' \in [Session -> BOOLEAN]
<1> USE DEF Shapes
<1>1. CASE Released(s)
  <2>1. lock' = None /\ faults' = faults /\ writing' = [writing EXCEPT ![s] = FALSE]
    BY <1>1 DEF Released, NoFault
  <2> QED BY <2>1
<1>2. CASE ReleaseFails(s)
  <2>1. writing' = writing /\ lock' \in {lock, None}
    BY <1>2 DEF ReleaseFails
  <2>2. faults' = faults \/ (faults < MaxFaults /\ faults' = faults + 1)
    BY <1>2 DEF ReleaseFails, Fault
  <2>3. faults' \in 0 .. MaxFaults
    BY <2>2, BoundAssumption
  <2> QED BY <2>1, <2>3
<1> QED BY <1>1, <1>2

LEMMA StatusShape ==
    ASSUME journal \in [Session -> Journals], NEW s \in Session, NEW status \in Status
    PROVE  [journal EXCEPT ![s].status = status] \in [Session -> Journals]
BY DEF Journals

LEMMA LostShape ==
    ASSUME journal \in [Session -> Journals], NEW s \in Session
    PROVE  [journal EXCEPT ![s].lost = TRUE] \in [Session -> Journals]
BY DEF Journals

LEMMA ReceiptShape ==
    ASSUME journal \in [Session -> Journals], NEW s \in Session, NEW c \in Commit
    PROVE  [journal EXCEPT ![s] = Receipt(c)] \in [Session -> Journals]
BY DEF Journals, Receipt, Status

LEMMA ConfirmShape ==
    ASSUME journal \in [Session -> Journals], NEW s \in Session, NEW status \in Status,
           NEW c \in Commit
    PROVE  [journal EXCEPT ![s].status = status, ![s].published = c] \in [Session -> Journals]
BY DEF Journals

LEMMA PreserveShape ==
    ASSUME Shapes, NEW s \in Session, Preserve(s)
    PROVE  saved' \in [Session -> SUBSET Edit]
BY DEF Shapes, Preserve

LEMMA ShapesStarting ==
    ASSUME Shapes, Within, NEW s \in Session, Starting(s)
    PROVE  Shapes'
<1> USE BoundAssumption DEF Goto, State, Commit
<1>1. CASE Request(s)
  BY <1>1 DEF Request, Shapes, disk, history
<1>2. CASE GrantQueued(s)
  BY <1>2 DEF GrantQueued, Shapes, disk, history
<1>3. CASE CancelWaiting(s)
  BY <1>3 DEF CancelWaiting, Shapes, shared, disk, history
<1>4. CASE PinMain(s)
  BY <1>4 DEF PinMain, Shapes, shared, disk, history, Newest
<1>5. CASE Install(s)
  <2>1. base[s] \in 1 .. Len(main) /\ base[s] \in Commit
    BY <1>5 DEF Install, Shapes, Newest
  <2>2. journal' \in [Session -> Journals]
    BY <1>5, <2>1, ReceiptShape DEF Install, Shapes
  <2>3. runtime' \in [Session -> SUBSET Edit]
    BY <1>5, <2>1 DEF Install, Shapes
  <2> QED BY <1>5, <2>2, <2>3 DEF Install, Shapes, history, shared
<1>6. CASE HandoffFails(s)
  <2>1. /\ lock' \in Session \cup {None, Ghost} /\ faults' \in 0 .. MaxFaults
        /\ writing' \in [Session -> BOOLEAN]
    BY <1>6, ReleaseShapes DEF HandoffFails, Releases
  <2>2. tx' \in [Session -> State]
    BY <1>6 DEF HandoffFails, Shapes
  <2> QED BY <1>6, <2>1, <2>2 DEF HandoffFails, Shapes, Forget, disk
<1>7. CASE BeginJournal(s)
  <2>1. journal' \in [Session -> Journals]
    BY <1>7, StatusShape DEF BeginJournal, Shapes, Status
  <2>2. saved' \in [Session -> SUBSET Edit]
    BY <1>7 DEF BeginJournal, Shapes, Preserve
  <2>3. current' \in [Session -> 0 .. MaxTx] /\ txs' \in 0 .. MaxTx
    BY <1>7 DEF BeginJournal, Shapes
  <2> QED BY <1>7, <2>1, <2>2, <2>3 DEF BeginJournal, Shapes, shared
<1>8. CASE BeginJournalFails(s)
  <2>1. /\ lock' \in Session \cup {None, Ghost} /\ faults' \in 0 .. MaxFaults
        /\ writing' \in [Session -> BOOLEAN]
    BY <1>8, ReleaseShapes DEF BeginJournalFails, Releases
  <2>2. journal' \in [Session -> Journals]
    <3>1. [journal EXCEPT ![s].status = "PREPARING"] \in [Session -> Journals]
      BY StatusShape DEF Shapes, Status
    <3> QED BY <1>8, <3>1 DEF BeginJournalFails, Shapes
  <2> QED BY <1>8, <2>1, <2>2 DEF BeginJournalFails, Shapes
<1> QED BY <1>1, <1>2, <1>3, <1>4, <1>5, <1>6, <1>7, <1>8 DEF Starting

LEMMA ShapesEditing ==
    ASSUME IInv, NEW s \in Session, Editing(s)
    PROVE  Shapes'
<1> USE BoundAssumption DEF Goto, State, Commit
<1>0. Shapes
  BY TypeParts DEF IInv
<1>1. CASE OpenEditing(s)
  BY <1>0, <1>1 DEF OpenEditing, Shapes, shared, disk, history
<1>2. CASE GrantLost(s)
  <2>1. /\ lock' \in Session \cup {None, Ghost} /\ faults' \in 0 .. MaxFaults
        /\ writing' \in [Session -> BOOLEAN]
    BY <1>0, <1>2, ReleaseShapes DEF GrantLost, Releases
  <2>2. journal' \in [Session -> Journals]
    BY <1>0, <1>2, LostShape DEF GrantLost, Shapes
  <2> QED BY <1>0, <1>2, <2>1, <2>2 DEF GrantLost, Shapes, Preserve
<1>3. CASE Save(s)
  <2>1. PICK k \in 0 .. MaxEdits - 1 :
              /\ runtime' = [runtime EXCEPT ![s] = @ \cup {<<current[s], k + 1>>}]
              /\ made' = made \cup {<<current[s], k + 1>>}
              /\ current[s] \in 1 .. MaxTx
    BY <1>3, SavedNext
  <2>2. <<current[s], k + 1>> \in Edit
    BY <2>1 DEF Edit
  <2>3. runtime' \in [Session -> SUBSET Edit] /\ made' \subseteq Edit
    BY <1>0, <2>1, <2>2 DEF Shapes
  <2>4. dirty' \in [Session -> BOOLEAN]
    BY <1>0, <1>3 DEF Save, Shapes
  <2> QED BY <1>0, <1>3, <2>3, <2>4 DEF Save, Shapes, shared
<1>4. CASE LoseAuthority(s)
  <2>1. journal' \in [Session -> Journals]
    BY <1>0, <1>4, LostShape DEF LoseAuthority, Shapes
  <2> QED BY <1>0, <1>4, <2>1 DEF LoseAuthority, Shapes, shared, history
<1>5. CASE PauseIdle(s)
  <2>1. /\ lock' \in Session \cup {None, Ghost} /\ faults' \in 0 .. MaxFaults
        /\ writing' \in [Session -> BOOLEAN]
    <3>1. CASE dirty[s]
      BY <1>0, <1>5, <3>1 DEF PauseIdle, Shapes
    <3>2. CASE ~dirty[s]
      BY <1>0, <1>5, <3>2, ReleaseShapes DEF PauseIdle, Releases
    <3> QED BY <3>1, <3>2
  <2> QED BY <1>0, <1>5, <2>1 DEF PauseIdle, Shapes, disk
<1>6. CASE Recover(s)
  BY <1>0, <1>6 DEF Recover, Shapes, shared, disk, history
<1>7. CASE Reacquire(s)
  BY <1>0, <1>7 DEF Reacquire, Shapes, disk, history
<1>8. CASE Cancel(s)
  <2>1. /\ lock' \in Session \cup {None, Ghost} /\ faults' \in 0 .. MaxFaults
        /\ writing' \in [Session -> BOOLEAN]
    <3>1. CASE Releases(s)
      BY <1>0, <3>1, ReleaseShapes DEF Releases
    <3>2. CASE UNCHANGED <<saved, journal, lock, writing, faults>>
      BY <1>0, <3>2 DEF Shapes
    <3> QED BY <1>8, <3>1, <3>2 DEF Cancel
  <2>2. journal' \in [Session -> Journals]
    <3>1. CASE Update(s, "CANCELLED")
      BY <1>0, <3>1, StatusShape DEF Update, Status, Shapes
    <3>2. CASE UNCHANGED <<saved, journal, lock, writing, faults>>
      BY <1>0, <3>2 DEF Shapes
    <3> QED BY <1>8, <3>1, <3>2 DEF Cancel
  <2>3. saved' \in [Session -> SUBSET Edit]
    BY <1>0, <1>8 DEF Cancel, Shapes, Preserve
  <2> QED BY <1>0, <1>8, <2>1, <2>2, <2>3 DEF Cancel, Shapes
<1> QED BY <1>1, <1>2, <1>3, <1>4, <1>5, <1>6, <1>7, <1>8 DEF Editing

LEMMA ShapesFinishing ==
    ASSUME Shapes, Within, NEW s \in Session, Finishing(s)
    PROVE  Shapes'
<1> USE BoundAssumption DEF Goto, State, Commit
<1>1. CASE EnterFinishing(s)
  <2>1. journal' \in [Session -> Journals]
    <3>1. [journal EXCEPT ![s].lost = TRUE] \in [Session -> Journals]
      BY LostShape DEF Shapes
    <3> QED BY <1>1, <3>1 DEF EnterFinishing, Shapes
  <2>2. tx' \in [Session -> State] /\ finishing' \in [Session -> BOOLEAN]
    BY <1>1 DEF EnterFinishing, Shapes
  <2> QED BY <1>1, <2>1, <2>2 DEF EnterFinishing, Shapes, shared, history
<1>2. CASE SaveLocal(s)
  <2>1. journal' \in [Session -> Journals]
    <3>1. [journal EXCEPT ![s].status = "PUBLISHING"] \in [Session -> Journals]
      BY StatusShape DEF Shapes, Status
    <3> QED BY <1>2, <3>1 DEF SaveLocal, Shapes, Update
  <2>2. tx' \in [Session -> State] /\ finishing' \in [Session -> BOOLEAN]
    BY <1>2 DEF SaveLocal, Shapes
  <2>3. saved' \in [Session -> SUBSET Edit] /\ pending' \in [Session -> BOOLEAN]
    BY <1>2, PreserveShape DEF SaveLocal, Shapes
  <2> QED BY <1>2, <2>1, <2>2, <2>3 DEF SaveLocal, Shapes, shared, history
<1>3. CASE SaveLocalLost(s)
  BY <1>3 DEF SaveLocalLost, Shapes, shared, disk, history
<1>4. CASE Push(s)
  <2>1. main' \in Seq(SUBSET Edit) /\ Len(main') \in Commit
    <3>1. CASE Land(runtime[s])
      <4>1. main' = Append(main, runtime[s]) /\ Len(main) < MaxCommits /\ runtime[s] \in SUBSET Edit
        BY <3>1 DEF Land, Shapes
      <4> QED BY <4>1 DEF Shapes
    <3>2. CASE UNCHANGED main
      BY <3>2 DEF Shapes
    <3> QED BY <1>4, <3>1, <3>2 DEF Push
  <2>2. flying' \subseteq [base : Commit, content : SUBSET Edit]
    <3>1. CASE Fenced(base[s]) /\ flying' = flying \cup {[base |-> base[s], content |-> runtime[s]]}
      BY <3>1 DEF Fenced, Newest, Shapes
    <3>2. CASE UNCHANGED flying
      BY <3>2 DEF Shapes
    <3> QED BY <1>4, <3>1, <3>2 DEF Push
  <2>3. faults' \in 0 .. MaxFaults
    <3>1. faults' = faults \/ (faults < MaxFaults /\ faults' = faults + 1)
      BY <1>4 DEF Push, Fault, NoFault
    <3> QED BY <3>1 DEF Shapes
  <2>4. tx' \in [Session -> State] /\ pending' \in [Session -> BOOLEAN]
    BY <1>4 DEF Push, Shapes
  <2> QED BY <1>4, <2>1, <2>2, <2>3, <2>4 DEF Push, Shapes, disk
<1>5. CASE ConfirmPublished(s)
  <2>1. base[s] + 1 \in Commit
    BY <1>5 DEF ConfirmPublished, Newest, Shapes
  <2>2. journal' \in [Session -> Journals]
    <3>1. PICK status \in {"PUBLISHED", "POST_PUBLISH_PENDING"} :
            journal' = [journal EXCEPT ![s].status = status, ![s].published = base[s] + 1]
      BY <1>5 DEF ConfirmPublished
    <3> QED BY <2>1, <3>1, ConfirmShape DEF Status, Shapes
  <2> QED BY <1>5, <2>2 DEF ConfirmPublished, Preserve, Shapes, shared, history
<1>6. CASE ConfirmFails(s)
  BY <1>6 DEF ConfirmFails, Shapes, shared, disk, history
<1>7. CASE ReleaseAfterPublish(s)
  <2>1. /\ lock' \in Session \cup {None, Ghost} /\ faults' \in 0 .. MaxFaults
        /\ writing' \in [Session -> BOOLEAN]
    BY <1>7, ReleaseShapes DEF ReleaseAfterPublish
  <2>2. journal' \in [Session -> Journals]
    <3>1. [journal EXCEPT ![s].status = "CLEAN"] \in [Session -> Journals]
      BY StatusShape DEF Shapes, Status
    <3> QED BY <1>7, <3>1 DEF ReleaseAfterPublish, Shapes, Update
  <2>3. tx' \in [Session -> State] /\ dirty' \in [Session -> BOOLEAN]
    BY <1>7 DEF ReleaseAfterPublish, Shapes
  <2>4. base' \in [Session -> Commit \cup {0}]
    BY <1>7 DEF ReleaseAfterPublish, Shapes, Forget
  <2> QED BY <1>7, <2>1, <2>2, <2>3, <2>4 DEF ReleaseAfterPublish, Shapes
<1>8. CASE ContinueOffline(s)
  BY <1>8 DEF ContinueOffline, Shapes, shared, disk, history
<1> QED BY <1>1, <1>2, <1>3, <1>4, <1>5, <1>6, <1>7, <1>8 DEF Finishing

LEMMA ShapesAround ==
    ASSUME Shapes, Within, NEW s \in Session, Around(s)
    PROVE  Shapes'
<1> USE BoundAssumption DEF Goto, State, Commit
<1>0. Newest \in 1 .. Len(main) /\ Newest \in Commit /\ main[Newest] \in SUBSET Edit
  BY DEF Shapes, Newest
<1>1. [journal EXCEPT ![s] = Receipt(Newest)] \in [Session -> Journals]
  BY <1>0, ReceiptShape DEF Shapes
<1>2. [runtime EXCEPT ![s] = main[Newest]] \in [Session -> SUBSET Edit]
  BY <1>0 DEF Shapes
<1>3. CASE BackgroundSync(s)
  BY <1>1, <1>2, <1>3 DEF BackgroundSync, Shapes, shared, memory, history
<1>4. CASE Crash(s) \/ CrashInInstall(s)
  <2>1. Dies(s)
    BY <1>4 DEF Crash, CrashInInstall
  <2>2. runtime' \in [Session -> SUBSET Edit]
    BY <1>2, <1>4 DEF Crash, CrashInInstall, Shapes
  <2>3. faults' \in 0 .. MaxFaults
    BY <2>1 DEF Dies, Fault, Shapes
  <2> QED BY <2>1, <2>2, <2>3 DEF Dies, Forget, Shapes
<1>5. CASE StartupPrepare(s)
  <2>1. saved' \in [Session -> SUBSET Edit]
    BY <1>5, PreserveShape DEF StartupPrepare, Shapes
  <2> QED BY <1>0, <1>5, <2>1 DEF StartupPrepare, Shapes, shared, history
<1>6. CASE StartupInstall(s)
  <2>1. journal' \in [Session -> Journals]
    BY <1>1, <1>6 DEF StartupInstall, Shapes
  <2>2. runtime' \in [Session -> SUBSET Edit]
    BY <1>2, <1>6 DEF StartupInstall, Shapes
  <2>3. tx' \in [Session -> State]
    <3>1. CASE Goto(s, "IDLE")
      BY <3>1 DEF Shapes
    <3>2. CASE Goto(s, "DOWN")
      BY <3>2 DEF Shapes
    <3> QED BY <1>6, <3>1, <3>2 DEF StartupInstall
  <2> QED BY <1>6, <2>1, <2>2, <2>3 DEF StartupInstall, Forget, Shapes, shared, history
<1>7. CASE OfflineStart(s)
  BY <1>7 DEF OfflineStart, Shapes, shared, disk, history
<1>8. CASE Reconnect(s)
  BY <1>1, <1>2, <1>8 DEF Reconnect, Shapes, shared, history
<1> QED BY <1>3, <1>4, <1>5, <1>6, <1>7, <1>8 DEF Around

LEMMA ShapesShared ==
    ASSUME Shapes, LeaseEnds \/ LatePush
    PROVE  Shapes'
<1>1. CASE LeaseEnds
  BY <1>1 DEF LeaseEnds, Shapes, memory, disk, history
<1>2. CASE LatePush
  <2>1. PICK p \in flying : Fenced(p.base) /\ Land(p.content) /\ flying' = flying \ {p}
    BY <1>2 DEF LatePush
  <2>2. main' = Append(main, p.content) /\ Len(main) < MaxCommits /\ p.content \in SUBSET Edit
    BY <2>1 DEF Land, Shapes
  <2>3. main' \in Seq(SUBSET Edit) /\ Len(main') \in Commit
    BY <2>2, BoundAssumption DEF Shapes, Commit
  <2> QED BY <1>2, <2>1, <2>3 DEF LatePush, Shapes, memory, disk, history
<1> QED BY <1>1, <1>2

-----------------------------------------------------------------------------
(* What an action leaves alone. *)

Effects(s) == Starting(s) \/ Editing(s) \/ Finishing(s) \/ Around(s)

(* An action of a session changes nothing of another one. *)
OthersKeep(s) ==
    \A r \in Session \ {s} :
        /\ tx'[r] = tx[r] /\ finishing'[r] = finishing[r] /\ base'[r] = base[r]
        /\ current'[r] = current[r] /\ runtime'[r] = runtime[r]
        /\ journal'[r] = journal[r] /\ saved'[r] = saved[r]

LEMMA OneSessionAtATime ==
    ASSUME Shapes, NEW s \in Session, Effects(s)
    PROVE  OthersKeep(s)
<1> USE DEF OthersKeep, Shapes, Goto, Update, Preserve, Forget, disk, memory
<1>1. CASE Starting(s)
  <2>1. CASE Request(s) \/ GrantQueued(s) \/ CancelWaiting(s) \/ PinMain(s) \/ Install(s)
    BY <2>1 DEF Request, GrantQueued, CancelWaiting, PinMain, Install
  <2>2. CASE HandoffFails(s) \/ BeginJournal(s)
    BY <2>2 DEF HandoffFails, BeginJournal
  <2>3. CASE BeginJournalFails(s)
    BY <2>3 DEF BeginJournalFails
  <2> QED BY <1>1, <2>1, <2>2, <2>3 DEF Starting
<1>2. CASE Editing(s)
  <2>1. CASE OpenEditing(s) \/ GrantLost(s) \/ LoseAuthority(s) \/ PauseIdle(s)
    BY <2>1 DEF OpenEditing, GrantLost, LoseAuthority, PauseIdle
  <2>2. CASE Save(s)
    BY <2>2 DEF Save
  <2>3. CASE Recover(s) \/ Reacquire(s)
    BY <2>3 DEF Recover, Reacquire
  <2>4. CASE Cancel(s)
    BY <2>4 DEF Cancel
  <2> QED BY <1>2, <2>1, <2>2, <2>3, <2>4 DEF Editing
<1>3. CASE Finishing(s)
  <2>1. CASE EnterFinishing(s)
    BY <2>1 DEF EnterFinishing
  <2>2. CASE SaveLocal(s)
    BY <2>2 DEF SaveLocal
  <2>3. CASE SaveLocalLost(s) \/ ConfirmFails(s) \/ ContinueOffline(s)
    BY <2>3 DEF SaveLocalLost, ConfirmFails, ContinueOffline
  <2>4. CASE Push(s)
    BY <2>4 DEF Push
  <2>5. CASE ConfirmPublished(s)
    BY <2>5 DEF ConfirmPublished
  <2>6. CASE ReleaseAfterPublish(s)
    BY <2>6 DEF ReleaseAfterPublish
  <2> QED BY <1>3, <2>1, <2>2, <2>3, <2>4, <2>5, <2>6 DEF Finishing
<1>4. CASE Around(s)
  <2>1. CASE BackgroundSync(s)
    BY <2>1 DEF BackgroundSync
  <2>2. CASE Crash(s) \/ CrashInInstall(s)
    BY <2>2 DEF Crash, CrashInInstall, Dies
  <2>3. CASE StartupPrepare(s)
    BY <2>3 DEF StartupPrepare
  <2>4. CASE StartupInstall(s)
    BY <2>4 DEF StartupInstall
  <2>5. CASE OfflineStart(s) \/ Reconnect(s)
    BY <2>5 DEF OfflineStart, Reconnect
  <2> QED BY <1>4, <2>1, <2>2, <2>3, <2>4, <2>5 DEF Around
<1> QED BY <1>1, <1>2, <1>3, <1>4 DEF Effects

(* MAIN and the pushes under way change in a push only, the edits in a save  *)
(* only, the transactions when a journal begins only.                        *)
LEMMA OnlyPush ==
    ASSUME NEW s \in Session, Effects(s)
    PROVE  Push(s) \/ UNCHANGED <<main, flying>>
<1> USE DEF Effects, shared
<1>1. CASE Starting(s)
  BY <1>1 DEF Starting, Request, GrantQueued, CancelWaiting, PinMain, Install, HandoffFails,
              BeginJournal, BeginJournalFails
<1>2. CASE Editing(s)
  BY <1>2 DEF Editing, OpenEditing, GrantLost, Save, LoseAuthority, PauseIdle, Recover,
              Reacquire, Cancel
<1>3. CASE Finishing(s)
  BY <1>3 DEF Finishing, EnterFinishing, SaveLocal, SaveLocalLost, ConfirmPublished,
              ConfirmFails, ReleaseAfterPublish, ContinueOffline
<1>4. CASE Around(s)
  BY <1>4 DEF Around, BackgroundSync, Crash, CrashInInstall, Dies, StartupPrepare,
              StartupInstall, OfflineStart, Reconnect
<1> QED BY <1>1, <1>2, <1>3, <1>4

LEMMA OnlySave ==
    ASSUME NEW s \in Session, Effects(s)
    PROVE  Save(s) \/ UNCHANGED made
<1> USE DEF Effects, history
<1>1. CASE Starting(s)
  BY <1>1 DEF Starting, Request, GrantQueued, CancelWaiting, PinMain, Install, HandoffFails,
              BeginJournal, BeginJournalFails
<1>2. CASE Editing(s)
  BY <1>2 DEF Editing, OpenEditing, GrantLost, LoseAuthority, PauseIdle, Recover,
              Reacquire, Cancel
<1>3. CASE Finishing(s)
  BY <1>3 DEF Finishing, EnterFinishing, SaveLocal, SaveLocalLost, Push, ConfirmPublished,
              ConfirmFails, ReleaseAfterPublish, ContinueOffline
<1>4. CASE Around(s)
  BY <1>4 DEF Around, BackgroundSync, Crash, CrashInInstall, Dies, StartupPrepare,
              StartupInstall, OfflineStart, Reconnect
<1> QED BY <1>1, <1>2, <1>3, <1>4

LEMMA OnlyBegin ==
    ASSUME NEW s \in Session, Effects(s)
    PROVE  BeginJournal(s) \/ UNCHANGED <<txs, current>>
<1> USE DEF Effects, history, memory
<1>1. CASE Starting(s)
  BY <1>1 DEF Starting, Request, GrantQueued, CancelWaiting, PinMain, Install, HandoffFails,
              BeginJournalFails
<1>2. CASE Editing(s)
  BY <1>2 DEF Editing, OpenEditing, GrantLost, Save, LoseAuthority, PauseIdle, Recover,
              Reacquire, Cancel
<1>3. CASE Finishing(s)
  BY <1>3 DEF Finishing, EnterFinishing, SaveLocal, SaveLocalLost, Push, ConfirmPublished,
              ConfirmFails, ReleaseAfterPublish, ContinueOffline
<1>4. CASE Around(s)
  BY <1>4 DEF Around, BackgroundSync, Crash, CrashInInstall, Dies, StartupPrepare,
              StartupInstall, OfflineStart, Reconnect
<1> QED BY <1>1, <1>2, <1>3, <1>4

-----------------------------------------------------------------------------
(* MAIN. *)

(* One more version, of a transaction that MAIN did not have. *)
Landing(t) ==
    /\ t \in 1 .. txs /\ Unpublished(t)
    /\ main' = Append(main, main[Newest] \cup OfTx(t))
    /\ UNCHANGED <<made, txs, current, base, runtime, journal, saved>>

LEMMA Numbers ==
    ASSUME Shapes
    PROVE  /\ Newest \in Nat /\ Newest \in 1 .. Len(main) /\ Newest = Len(main)
           /\ txs \in Nat /\ MaxTx \in Nat /\ txs <= MaxTx
           /\ \A s \in Session : base[s] \in Nat /\ current[s] \in 0 .. MaxTx
           /\ \A s \in Session : journal[s].published \in Nat \ {0}
BY BoundAssumption DEF Shapes, Commit, Newest, Journals

LEMMA PushLands ==
    ASSUME IInv, NEW s \in Session, Push(s)
    PROVE  \/ main' = main
           \/ flying' = flying /\ Landing(current[s])
<1>0. Shapes
  BY TypeParts DEF IInv
<1>1. /\ tx[s] = "PUBLISHING" /\ UNCHANGED <<made, txs, current, base, runtime, journal, saved>>
  BY DEF Push, disk
<1>2. /\ base[s] # 0 /\ current[s] # 0 /\ Unpublished(current[s])
      /\ runtime[s] = main[base[s]] \cup OfTx(current[s])
  BY <1>1 DEF IInv, InHand, Before
<1>3. current[s] \in 1 .. txs
  <2>1. current[s] <= txs
    BY DEF IInv, Numbered
  <2> QED BY <1>0, <1>2, <2>1, Numbers
<1>4. CASE Fenced(base[s]) /\ Land(runtime[s]) /\ flying' = flying
  <2>1. base[s] = Newest /\ main' = Append(main, runtime[s])
    BY <1>4 DEF Fenced, Land
  <2> QED BY <1>1, <1>2, <1>3, <1>4, <2>1 DEF Landing
<1> QED BY <1>4 DEF Push

LEMMA LateLands ==
    ASSUME IInv, LatePush
    PROVE  /\ flying' \subseteq flying /\ \E t \in 1 .. txs : Landing(t) /\ \A s \in Session :
                  current[s] = t => tx[s] \notin Before
           /\ UNCHANGED <<tx, finishing>>
<1>1. PICK p \in flying : Fenced(p.base) /\ Land(p.content) /\ flying' = flying \ {p}
  BY DEF LatePush
<1>2. p.base = Newest /\ main' = Append(main, p.content)
  BY <1>1 DEF Fenced, Land
<1>3. PICK t \in 1 .. txs : Carries(p, t)
  BY <1>1, <1>2 DEF IInv, FlyingWhole
<1>4. Landing(t) /\ \A s \in Session : current[s] = t => tx[s] \notin Before
  BY <1>2, <1>3 DEF Landing, Carries, LatePush, memory, disk, history
<1> QED BY <1>1, <1>4 DEF LatePush, memory

(* A version lands, or MAIN stays. *)
LEMMA MainStep ==
    ASSUME IInv, Next
    PROVE  main' = main \/ \E t \in 1 .. txs : Landing(t)
<1>1. ASSUME NEW s \in Session, Effects(s)
      PROVE  main' = main \/ \E t \in 1 .. txs : Landing(t)
  <2>1. CASE Push(s)
    BY <2>1, PushLands DEF Landing
  <2> QED BY <1>1, <2>1, OnlyPush
<1>2. CASE LeaseEnds
  BY <1>2 DEF LeaseEnds
<1>3. CASE LatePush
  BY <1>3, LateLands
<1> QED BY <1>1, <1>2, <1>3 DEF Next, Effects

(* What MAIN had, it keeps. *)
LEMMA MainKept ==
    ASSUME Shapes, main' = main \/ \E t \in 1 .. txs : Landing(t)
    PROVE  /\ Len(main') \in Nat /\ Len(main) <= Len(main')
           /\ \A i \in 1 .. Len(main) : main'[i] = main[i]
<1>1. CASE main' = main
  BY <1>1 DEF Shapes
<1>2. ASSUME NEW t \in 1 .. txs, Landing(t)
      PROVE  /\ Len(main') \in Nat /\ Len(main) <= Len(main')
             /\ \A i \in 1 .. Len(main) : main'[i] = main[i]
  <2> DEFINE c == main[Newest] \cup OfTx(t)
  <2>1. c \in SUBSET Edit
    BY Numbers DEF Shapes, OfTx
  <2>2. main' = Append(main, c)
    BY <1>2 DEF Landing
  <2> HIDE DEF c
  <2> QED BY <2>1, <2>2 DEF Shapes
<1> QED BY <1>1, <1>2

LEMMA Landed ==
    ASSUME Shapes, MainGrows, NEW t \in 1 .. txs, Landing(t)
    PROVE  /\ Newest' = Newest + 1
           /\ main'[Newest + 1] = main[Newest] \cup OfTx(t)
           /\ \A i \in 1 .. Newest : main'[i] = main[i]
<1> DEFINE c == main[Newest] \cup OfTx(t)
<1>1. c \in SUBSET Edit
  BY Numbers DEF Shapes, OfTx
<1>2. main' = Append(main, c)
  BY DEF Landing
<1> HIDE DEF c
<1>3. /\ Len(main') = Len(main) + 1 /\ main'[Len(main) + 1] = c
      /\ \A i \in 1 .. Len(main) : main'[i] = main[i]
  BY <1>1, <1>2 DEF Shapes
<1> QED BY <1>3 DEF Newest, c

LEMMA MadeGrows ==
    ASSUME Next
    PROVE  made \subseteq made'
<1>1. ASSUME NEW s \in Session, Effects(s) PROVE made \subseteq made'
  BY <1>1, OnlySave DEF Save
<1> QED BY <1>1 DEF Next, Effects, LeaseEnds, LatePush, history

LEMMA MainGrowsStep ==
    ASSUME IInv, Next
    PROVE  MainGrows'
<1>0. Shapes /\ MainGrows /\ made \subseteq made'
  BY TypeParts, MadeGrows DEF IInv
<1>1. CASE main' = main
  BY <1>0, <1>1 DEF MainGrows, Newest
<1>2. ASSUME NEW t \in 1 .. txs, Landing(t) PROVE MainGrows'
  <2>1. /\ Newest' = Newest + 1 /\ main'[Newest + 1] = main[Newest] \cup OfTx(t)
        /\ \A i \in 1 .. Newest : main'[i] = main[i]
    BY <1>0, <1>2, Landed
  <2>2. Newest \in Nat \ {0} /\ Newest = Len(main)
    BY <1>0, Numbers
  <2>3. ASSUME NEW i \in 1 .. Newest + 1, NEW j \in 1 .. Newest + 1, i <= j
        PROVE  main'[i] \subseteq main'[j]
    <3>1. CASE j \in 1 .. Newest
      <4>1. i \in 1 .. Newest
        BY <2>2, <2>3, <3>1
      <4> QED BY <1>0, <2>1, <2>2, <2>3, <3>1, <4>1 DEF MainGrows
    <3>2. CASE j = Newest + 1 /\ i \in 1 .. Newest
      <4>1. main[i] \subseteq main[Newest]
        BY <1>0, <2>2, <3>2 DEF MainGrows
      <4> QED BY <2>1, <3>2, <4>1
    <3>3. CASE j = Newest + 1 /\ i = Newest + 1
      BY <3>3
    <3> QED BY <2>2, <3>1, <3>2, <3>3
  <2>4. main'[Newest + 1] \subseteq made'
    BY <1>0, <2>1 DEF MainGrows, OfTx
  <2>5. Len(main') = Newest + 1
    BY <2>1 DEF Newest
  <2> QED BY <2>1, <2>3, <2>4, <2>5 DEF MainGrows
<1> QED BY <1>1, <1>2, MainStep

-----------------------------------------------------------------------------
(* Type correctness of a step. *)

(* A receipt and a base are set to a commit that MAIN has. *)
LEMMA CommitsOf ==
    ASSUME Shapes, NEW s \in Session, Effects(s)
    PROVE  /\ journal'[s].published \in {journal[s].published, base[s], Newest}
           /\ base'[s] \in {base[s], Newest, 0}
<1> USE DEF Shapes, Goto, Update, Forget, disk, memory, Receipt, Journals
<1>1. CASE Starting(s)
  <2>1. CASE Request(s) \/ GrantQueued(s) \/ CancelWaiting(s) \/ PinMain(s) \/ Install(s)
    BY <2>1 DEF Request, GrantQueued, CancelWaiting, PinMain, Install
  <2>2. CASE HandoffFails(s) \/ BeginJournal(s)
    BY <2>2 DEF HandoffFails, BeginJournal
  <2>3. CASE BeginJournalFails(s)
    BY <2>3 DEF BeginJournalFails
  <2> QED BY <1>1, <2>1, <2>2, <2>3 DEF Starting
<1>2. CASE Editing(s)
  <2>1. CASE OpenEditing(s) \/ GrantLost(s) \/ LoseAuthority(s) \/ PauseIdle(s)
    BY <2>1 DEF OpenEditing, GrantLost, LoseAuthority, PauseIdle
  <2>2. CASE Save(s) \/ Recover(s) \/ Reacquire(s)
    BY <2>2 DEF Save, Recover, Reacquire
  <2>4. CASE Cancel(s)
    BY <2>4 DEF Cancel
  <2> QED BY <1>2, <2>1, <2>2, <2>4 DEF Editing
<1>3. CASE Finishing(s)
  <2>1. CASE EnterFinishing(s)
    BY <2>1 DEF EnterFinishing
  <2>2. CASE SaveLocal(s)
    BY <2>2 DEF SaveLocal
  <2>3. CASE SaveLocalLost(s) \/ ConfirmFails(s) \/ ContinueOffline(s)
    BY <2>3 DEF SaveLocalLost, ConfirmFails, ContinueOffline
  <2>4. CASE Push(s)
    BY <2>4 DEF Push
  <2>5. CASE ConfirmPublished(s)
    BY <2>5 DEF ConfirmPublished
  <2>6. CASE ReleaseAfterPublish(s)
    BY <2>6 DEF ReleaseAfterPublish
  <2> QED BY <1>3, <2>1, <2>2, <2>3, <2>4, <2>5, <2>6 DEF Finishing
<1>4. CASE Around(s)
  <2>1. CASE BackgroundSync(s)
    BY <2>1 DEF BackgroundSync
  <2>2. CASE Crash(s) \/ CrashInInstall(s)
    BY <2>2 DEF Crash, CrashInInstall, Dies
  <2>3. CASE StartupPrepare(s)
    BY <2>3 DEF StartupPrepare
  <2>4. CASE StartupInstall(s)
    BY <2>4 DEF StartupInstall
  <2>5. CASE OfflineStart(s) \/ Reconnect(s)
    BY <2>5 DEF OfflineStart, Reconnect
  <2> QED BY <1>4, <2>1, <2>2, <2>3, <2>4, <2>5 DEF Around
<1> QED BY <1>1, <1>2, <1>3, <1>4 DEF Effects

LEMMA WithinStep ==
    ASSUME IInv, Next
    PROVE  Within'
<1>0. Shapes /\ Within
  BY TypeParts DEF IInv
<1>1. Len(main') \in Nat /\ Len(main) <= Len(main') /\ Newest = Len(main)
  BY <1>0, MainStep, MainKept, Numbers
<1>2. ASSUME NEW r \in Session, journal'[r] = journal[r], base'[r] = base[r]
      PROVE  journal'[r].published <= Len(main') /\ base'[r] <= Len(main')
  BY <1>0, <1>1, <1>2, Numbers DEF Within
<1>3. ASSUME NEW s \in Session, Effects(s), NEW r \in Session
      PROVE  journal'[r].published <= Len(main') /\ base'[r] <= Len(main')
  <2>1. CASE r # s
    BY <1>0, <1>2, <1>3, <2>1, OneSessionAtATime DEF OthersKeep
  <2>2. CASE r = s
    <3>1. /\ journal'[s].published \in {journal[s].published, base[s], Newest}
          /\ base'[s] \in {base[s], Newest, 0}
      BY <1>0, <1>3, CommitsOf
    <3>2. /\ journal[s].published \in Nat /\ base[s] \in Nat
          /\ journal[s].published <= Len(main) /\ base[s] <= Len(main)
      BY <1>0, Numbers DEF Within
    <3>3. \A c \in {journal[s].published, base[s], Newest, 0} : c <= Len(main')
      BY <1>0, <1>1, <3>2, Numbers
    <3> QED BY <2>2, <3>1, <3>3
  <2> QED BY <2>1, <2>2
<1>4. CASE LeaseEnds \/ LatePush
  <2>1. journal' = journal /\ base' = base
    BY <1>4 DEF LeaseEnds, LatePush, memory, disk
  <2> QED BY <1>2, <2>1 DEF Within
<1> QED BY <1>3, <1>4 DEF Next, Effects, Within

LEMMA OwnedStep ==
    ASSUME IInv, Next
    PROVE  Owned'
<1>0. Shapes /\ Owned /\ \A r \in Session : current[r] <= txs
  BY TypeParts DEF IInv, Numbered
<1>1. CASE UNCHANGED current
  BY <1>0, <1>1 DEF Owned
<1>2. ASSUME NEW s \in Session, BeginJournal(s) PROVE Owned'
  <2>1. current' = [current EXCEPT ![s] = txs + 1]
    BY <1>2 DEF BeginJournal
  <2>2. current'[s] = txs + 1 /\ \A r \in Session \ {s} : current'[r] = current[r]
    BY <1>0, <2>1 DEF Shapes
  <2>3. \A r \in Session : current[r] # txs + 1
    BY <1>0, Numbers
  <2> QED BY <1>0, <2>2, <2>3 DEF Owned
<1>3. ASSUME NEW s \in Session, Effects(s) PROVE Owned'
  BY <1>1, <1>2, <1>3, OnlyBegin
<1> QED BY <1>1, <1>3 DEF Next, Effects, LeaseEnds, LatePush, memory

LEMMA TypeStep ==
    ASSUME IInv, Next
    PROVE  TypeOK'
<1>0. Shapes /\ Within
  BY TypeParts DEF IInv
<1>1. Shapes'
  BY <1>0, ShapesStarting, ShapesEditing, ShapesFinishing, ShapesAround, ShapesShared DEF Next
<1> QED BY <1>1, WithinStep, OwnedStep, TypePartsNext

-----------------------------------------------------------------------------
(* Transactions and their numbers. *)

LEMMA OfTxSame ==
    ASSUME made' = made, NEW t
    PROVE  OfTx(t)' = OfTx(t)
BY DEF OfTx

LEMMA OfTxSave ==
    ASSUME IInv, NEW s \in Session, Save(s)
    PROVE  /\ UNCHANGED <<main, flying, txs, current, tx, base, journal, saved, finishing>>
           /\ \E k \in 0 .. MaxEdits - 1, c \in 1 .. MaxTx :
                /\ c = current[s] /\ <<c, k + 1>> \in Edit
                /\ OfTx(c) = {<<c, n>> : n \in 1 .. k}
                /\ runtime' = [runtime EXCEPT ![s] = @ \cup {<<c, k + 1>>}]
                /\ made' = made \cup {<<c, k + 1>>}
                /\ OfTx(c)' = OfTx(c) \cup {<<c, k + 1>>}
                /\ OfTx(c)' = {<<c, n>> : n \in 1 .. k + 1}
                /\ \A t : t # c => OfTx(t)' = OfTx(t)
<1>1. PICK k \in 0 .. MaxEdits - 1 :
              /\ OfTx(current[s]) = {<<current[s], n>> : n \in 1 .. k}
              /\ runtime' = [runtime EXCEPT ![s] = @ \cup {<<current[s], k + 1>>}]
              /\ made' = made \cup {<<current[s], k + 1>>}
              /\ current[s] \in 1 .. MaxTx
  BY SavedNext
<1>2. PICK c \in 1 .. MaxTx : c = current[s]
  BY <1>1
<1>3. made' = made \cup {<<c, k + 1>>} /\ OfTx(c) = {<<c, n>> : n \in 1 .. k}
  BY <1>1, <1>2
<1>4. OfTx(c)' = OfTx(c) \cup {<<c, k + 1>>}
  BY <1>3 DEF OfTx
<1>5. 1 .. k + 1 = (1 .. k) \cup {k + 1}
  BY <1>1, BoundAssumption
<1>6. OfTx(c)' = {<<c, n>> : n \in 1 .. k + 1}
  BY <1>3, <1>4, <1>5
<1>7. ASSUME NEW t, t # c PROVE OfTx(t)' = OfTx(t)
  BY <1>3, <1>7 DEF OfTx
<1>8. <<c, k + 1>> \in Edit
  BY <1>1, BoundAssumption DEF Edit
<1>9. UNCHANGED <<main, flying, txs, current, tx, base, journal, saved, finishing>>
  BY DEF Save, shared
<1>10. runtime' = [runtime EXCEPT ![s] = @ \cup {<<c, k + 1>>}]
  BY <1>1, <1>2
<1> QED BY <1>1, <1>2, <1>3, <1>4, <1>6, <1>7, <1>8, <1>9, <1>10

LEMMA NumberedStep ==
    ASSUME IInv, Next
    PROVE  Numbered'
<1>0. Shapes /\ Numbered
  BY TypeParts DEF IInv
<1>1. CASE UNCHANGED <<made, txs, current>>
  BY <1>0, <1>1, OfTxSame DEF Numbered
<1>2. ASSUME NEW s \in Session, BeginJournal(s) PROVE Numbered'
  <2>1. txs' = txs + 1 /\ current' = [current EXCEPT ![s] = txs + 1] /\ made' = made
    BY <1>2 DEF BeginJournal
  <2>2. \A r \in Session : current'[r] <= txs'
    BY <1>0, <2>1, Numbers DEF Numbered, Shapes
  <2>3. ASSUME NEW e \in made PROVE e[1] <= txs'
    <3>1. e[1] <= txs /\ e[1] \in 1 .. MaxTx
      BY <1>0 DEF Numbered, Shapes, Edit
    <3> QED BY <1>0, <2>1, <3>1, Numbers
  <2> QED BY <1>0, <2>1, <2>2, <2>3, OfTxSame DEF Numbered
<1>3. ASSUME NEW s \in Session, Save(s) PROVE Numbered'
  <2>1. PICK k \in 0 .. MaxEdits - 1, c \in 1 .. MaxTx :
                /\ c = current[s]
                /\ made' = made \cup {<<c, k + 1>>}
                /\ OfTx(c)' = {<<c, n>> : n \in 1 .. k + 1}
                /\ \A t : t # c => OfTx(t)' = OfTx(t)
    BY <1>3, OfTxSave
  <2>2. txs' = txs /\ current' = current
    BY <1>3, OfTxSave
  <2>3. k + 1 \in 0 .. MaxEdits
    BY BoundAssumption
  <2>4. ASSUME NEW t \in 1 .. MaxTx
        PROVE  \E n \in 0 .. MaxEdits : OfTx(t)' = {<<t, m>> : m \in 1 .. n}
    <3>1. CASE t = c
      BY <2>1, <2>3, <3>1
    <3>2. CASE t # c
      BY <1>0, <2>1, <3>2 DEF Numbered
    <3> QED BY <3>1, <3>2
  <2>5. \A e \in made' : e[1] <= txs
    BY <1>0, <2>1 DEF Numbered
  <2> QED BY <1>0, <2>2, <2>4, <2>5 DEF Numbered
<1>4. ASSUME NEW s \in Session, Effects(s) PROVE Numbered'
  <2>1. CASE UNCHANGED made /\ UNCHANGED <<txs, current>>
    BY <1>1, <2>1
  <2> QED BY <1>2, <1>3, <1>4, <2>1, OnlySave, OnlyBegin
<1> QED BY <1>1, <1>4 DEF Next, Effects, LeaseEnds, LatePush, memory, history

-----------------------------------------------------------------------------
(* The work in hand. *)

LEMMA BeginsEmpty ==
    ASSUME IInv, NEW s \in Session, BeginJournal(s)
    PROVE  /\ UNCHANGED <<main, made, runtime, base>>
           /\ base[s] # 0 /\ current'[s] = txs + 1 /\ tx'[s] = "VERIFY"
           /\ journal'[s].status = "OPEN" /\ OfTx(txs + 1) = {}
           /\ runtime[s] = main[base[s]] /\ txs' = txs + 1
<1>0. Shapes /\ Numbered
  BY TypeParts DEF IInv
<1>1. /\ UNCHANGED <<main, made, runtime, base>> /\ txs' = txs + 1
      /\ current' = [current EXCEPT ![s] = txs + 1]
      /\ journal' = [journal EXCEPT ![s].status = "OPEN"]
      /\ tx' = [tx EXCEPT ![s] = "VERIFY"]
  BY DEF BeginJournal, shared, Goto
<1>2. journal[s].published = base[s] /\ runtime[s] = main[base[s]]
  BY DEF BeginJournal, Receipt, Replaceable
<1>3. base[s] # 0
  BY <1>0, <1>2, Numbers
<1>4. OfTx(txs + 1) = {}
  <2>1. \A e \in made : e[1] <= txs /\ e[1] \in Nat
    BY <1>0, BoundAssumption DEF Numbered, Shapes, Edit
  <2> QED BY <1>0, <2>1, Numbers DEF OfTx
<1>5. current'[s] = txs + 1 /\ tx'[s] = "VERIFY" /\ journal'[s].status = "OPEN"
  BY <1>0, <1>1 DEF Shapes, Journals
<1> QED BY <1>1, <1>2, <1>3, <1>4, <1>5

(* A transaction in hand stays in hand unchanged, but for a save; none comes *)
(* into hand but by a journal.                                               *)
Expected(state) == IF state = "PUBLISHING" THEN "PUBLISHING" ELSE "OPEN"
HandKept(s) ==
    /\ tx[s] \in Before
    /\ UNCHANGED <<main, made, current>> /\ base'[s] = base[s] /\ runtime'[s] = runtime[s]
    /\ journal'[s].status = Expected(tx'[s])

LEMMA HandSteps ==
    ASSUME IInv, NEW s \in Session, Effects(s)
    PROVE  tx'[s] \notin Before \/ Save(s) \/ BeginJournal(s) \/ HandKept(s)
<1>0. /\ Shapes
      /\ tx[s] \in Before => journal[s].status = Expected(tx[s])
  BY TypeParts DEF IInv, InHand, Expected
<1> USE DEF Before, Expected, HandKept
<1>1. CASE Starting(s)
  <2>1. CASE Request(s) \/ GrantQueued(s) \/ CancelWaiting(s) \/ PinMain(s) \/ Install(s)
    BY <1>0, <2>1 DEF Request, GrantQueued, CancelWaiting, PinMain, Install, Goto, Shapes
  <2>2. CASE HandoffFails(s) \/ BeginJournalFails(s)
    BY <1>0, <2>2 DEF HandoffFails, BeginJournalFails, Goto, Shapes
  <2> QED BY <1>1, <2>1, <2>2 DEF Starting
<1>2. CASE Editing(s)
  <2>1. CASE OpenEditing(s) \/ PauseIdle(s) \/ Recover(s) \/ Reacquire(s)
    BY <1>0, <2>1 DEF OpenEditing, PauseIdle, Recover, Reacquire, Goto, Shapes, shared, disk, history
  <2>2. CASE GrantLost(s) \/ LoseAuthority(s) \/ Cancel(s)
    BY <1>0, <2>2 DEF GrantLost, LoseAuthority, Cancel, Goto, Shapes
  <2> QED BY <1>2, <2>1, <2>2 DEF Editing
<1>3. CASE Finishing(s)
  <2>1. CASE EnterFinishing(s)
    <3>1. UNCHANGED <<main, made, current, base, runtime>>
      BY <2>1 DEF EnterFinishing, shared, history
    <3>2. journal'[s].status = journal[s].status /\ tx[s] = "EDITING"
      BY <1>0, <2>1 DEF EnterFinishing, Shapes, Journals
    <3>3. tx'[s] # "PUBLISHING"
      BY <1>0, <2>1 DEF EnterFinishing, Goto, Shapes
    <3> QED BY <1>0, <3>1, <3>2, <3>3
  <2>2. CASE SaveLocal(s)
    <3>1. UNCHANGED <<main, made, current, base, runtime>>
      BY <2>2 DEF SaveLocal, shared, history
    <3>2. tx[s] = "FINISHING"
      BY <2>2 DEF SaveLocal, IInv, FinishSees
    <3>3. CASE Update(s, "PUBLISHING") /\ Goto(s, "PUBLISHING")
      BY <1>0, <3>1, <3>2, <3>3 DEF Update, Goto, Shapes, Journals
    <3>4. CASE Goto(s, "RECOVERY_REQUIRED") \/ Goto(s, "FAILED")
      BY <1>0, <3>4 DEF Goto, Shapes
    <3> QED BY <2>2, <3>3, <3>4 DEF SaveLocal
  <2>3. CASE SaveLocalLost(s)
    BY <1>0, <2>3 DEF SaveLocalLost, Goto, Shapes, shared, disk, history
  <2>4. CASE Push(s) \/ ConfirmPublished(s) \/ ConfirmFails(s)
    BY <1>0, <2>4 DEF Push, ConfirmPublished, ConfirmFails, Goto, Shapes
  <2>5. CASE ReleaseAfterPublish(s) \/ ContinueOffline(s)
    BY <1>0, <2>5 DEF ReleaseAfterPublish, ContinueOffline, Goto, Shapes
  <2> QED BY <1>3, <2>1, <2>2, <2>3, <2>4, <2>5 DEF Finishing
<1>4. CASE Around(s)
  <2>1. CASE BackgroundSync(s)
    BY <1>0, <2>1 DEF BackgroundSync, memory
  <2>2. CASE Crash(s) \/ CrashInInstall(s)
    BY <1>0, <2>2 DEF Crash, CrashInInstall, Dies, Goto, Shapes
  <2>3. CASE StartupPrepare(s) \/ OfflineStart(s) \/ Reconnect(s)
    BY <1>0, <2>3 DEF StartupPrepare, OfflineStart, Reconnect, Goto, Shapes
  <2>4. CASE StartupInstall(s)
    BY <1>0, <2>4 DEF StartupInstall, Goto, Shapes
  <2> QED BY <1>4, <2>1, <2>2, <2>3, <2>4 DEF Around
<1> QED BY <1>1, <1>2, <1>3, <1>4 DEF Effects

(* InHand for one session, its transaction and commit named. *)
Hand(s, t, b) ==
    /\ t = current[s] /\ b = base[s] /\ b # 0 /\ t # 0
    /\ journal[s].status = Expected(tx[s])
    /\ runtime[s] = main[b] \cup OfTx(t)
    /\ Unpublished(t)

LEMMA HandOfInHand ==
    ASSUME Shapes, InHand, NEW r \in Session, tx[r] \in Before
    PROVE  \E t \in 1 .. MaxTx, b \in 1 .. MaxCommits : Hand(r, t, b)
<1>1. PICK t, b : t = current[r] /\ b = base[r]
  OBVIOUS
<1>2. t \in 1 .. MaxTx /\ b \in 1 .. MaxCommits /\ t # 0 /\ b # 0
  BY <1>1, BoundAssumption DEF InHand, Shapes, Commit
<1> QED BY <1>1, <1>2 DEF InHand, Hand, Expected

LEMMA HandNext ==
    ASSUME NEW r \in Session, NEW t \in 1 .. MaxTx, NEW b \in 1 .. MaxCommits,
           t = current'[r], b = base'[r],
           journal'[r].status = Expected(tx'[r]),
           runtime'[r] = main'[b] \cup OfTx(t)', Unpublished(t)'
    PROVE  /\ base'[r] # 0 /\ current'[r] # 0
           /\ journal'[r].status = (IF tx'[r] = "PUBLISHING" THEN "PUBLISHING" ELSE "OPEN")
           /\ runtime'[r] = main'[base'[r]] \cup OfTx(current[r])'
           /\ Unpublished(current[r])'
<1>1. b # 0 /\ t # 0
  BY BoundAssumption
<1>2. OfTx(current[r])' = OfTx(t)' /\ Unpublished(current[r])'
  BY DEF OfTx, Unpublished
<1> QED BY <1>1, <1>2 DEF Expected

(* What lands is of a transaction that is no longer in hand. *)
LEMMA LandsOutOfHand ==
    ASSUME IInv, Next, main' # main
    PROVE  \E t \in 1 .. txs :
              /\ Landing(t) /\ flying' \subseteq flying
              /\ \A r \in Session : tx'[r] \in Before => tx'[r] = tx[r] /\ current[r] # t
<1>0. Shapes /\ Owned
  BY TypeParts DEF IInv
<1>1. ASSUME NEW s \in Session, Effects(s)
      PROVE  \E t \in 1 .. txs :
                /\ Landing(t) /\ flying' \subseteq flying
                /\ \A r \in Session : tx'[r] \in Before => tx'[r] = tx[r] /\ current[r] # t
  <2>1. Push(s)
    BY <1>1, OnlyPush
  <2>2. flying' = flying /\ Landing(current[s]) /\ current[s] \in 1 .. txs
    BY <2>1, PushLands DEF Landing
  <2>3. tx'[s] \notin Before
    BY <1>0, <2>1 DEF Push, Goto, Shapes, Before
  <2>4. ASSUME NEW r \in Session, tx'[r] \in Before
        PROVE  tx'[r] = tx[r] /\ current[r] # current[s]
    <3>1. r # s
      BY <2>3, <2>4
    <3>2. tx'[r] = tx[r]
      BY <1>0, <1>1, <3>1, OneSessionAtATime DEF OthersKeep
    <3>3. current[s] > 0 /\ current[s] \in Nat
      BY <1>0, <2>2, Numbers
    <3> QED BY <1>0, <2>4, <3>1, <3>2, <3>3 DEF Owned
  <2> QED BY <2>2, <2>4
<1>2. CASE LatePush
  BY <1>2, LateLands
<1>3. CASE LeaseEnds
  BY <1>3 DEF LeaseEnds
<1> QED BY <1>1, <1>2, <1>3 DEF Next, Effects

LEMMA UnpublishedStays ==
    ASSUME Shapes, MainGrows, NEW t \in 1 .. txs, Landing(t), NEW u, u # t, Unpublished(u)
    PROVE  Unpublished(u)'
<1>1. main'[Newest'] = main[Newest] \cup OfTx(t)
  BY Landed
<1> QED BY <1>1 DEF Unpublished, OfTx

LEMMA InHandStep ==
    ASSUME IInv, Next
    PROVE  InHand'
<1>0. Shapes /\ InHand /\ MainGrows /\ Numbered /\ Owned /\ Within
  BY TypeParts DEF IInv
<1> SUFFICES ASSUME NEW r \in Session, tx'[r] \in Before
             PROVE  /\ base'[r] # 0 /\ current'[r] # 0
                    /\ journal'[r].status = (IF tx'[r] = "PUBLISHING" THEN "PUBLISHING" ELSE "OPEN")
                    /\ runtime'[r] = main'[base'[r]] \cup OfTx(current[r])'
                    /\ Unpublished(current[r])'
  BY DEF InHand
<1> DEFINE Goal == /\ base'[r] # 0 /\ current'[r] # 0
                   /\ journal'[r].status = (IF tx'[r] = "PUBLISHING" THEN "PUBLISHING" ELSE "OPEN")
                   /\ runtime'[r] = main'[base'[r]] \cup OfTx(current[r])'
                   /\ Unpublished(current[r])'
\* nothing of r changes, and r's transaction neither grows nor lands
<1>1. ASSUME tx[r] \in Before, UNCHANGED <<main, made>>, current'[r] = current[r],
             base'[r] = base[r], runtime'[r] = runtime[r], journal'[r].status = Expected(tx'[r])
      PROVE  Goal
  <2>1. PICK t \in 1 .. MaxTx, b \in 1 .. MaxCommits : Hand(r, t, b)
    BY <1>0, <1>1, HandOfInHand
  <2>2. Unpublished(t)' /\ OfTx(t)' = OfTx(t)
    BY <1>1, <2>1 DEF Hand, Unpublished, OfTx, Newest
  <2>3. runtime'[r] = main'[b] \cup OfTx(t)'
    BY <1>1, <2>1, <2>2 DEF Hand
  <2>4. t = current'[r] /\ b = base'[r]
    BY <1>1, <2>1 DEF Hand
  <2> QED BY <1>1, <2>2, <2>3, <2>4, HandNext
\* MAIN moves
<1>2. CASE main' # main
  <2>1. PICK u \in 1 .. txs :
              /\ Landing(u)
              /\ \A q \in Session : tx'[q] \in Before => tx'[q] = tx[q] /\ current[q] # u
    BY <1>2, LandsOutOfHand
  <2>2. tx[r] \in Before /\ current[r] # u
    BY <2>1
  <2>3. PICK t \in 1 .. MaxTx, b \in 1 .. MaxCommits : Hand(r, t, b)
    BY <1>0, <2>2, HandOfInHand
  <2>4. Unpublished(t)'
    BY <1>0, <2>1, <2>2, <2>3, UnpublishedStays DEF Hand
  <2>5. UNCHANGED <<made, current, base, runtime, journal>>
    BY <2>1 DEF Landing
  <2>6. OfTx(t)' = OfTx(t)
    BY <2>5, OfTxSame
  <2>7. main'[b] = main[b]
    <3>1. b \in 1 .. Newest
      BY <1>0, <2>3, Numbers DEF Hand, Within
    <3> QED BY <1>0, <2>1, <3>1, Landed
  <2>8. tx'[r] = tx[r]
    BY <2>1
  <2>9. runtime'[r] = main'[b] \cup OfTx(t)' /\ t = current'[r] /\ b = base'[r]
    BY <2>3, <2>5, <2>6, <2>7 DEF Hand
  <2>10. journal'[r].status = Expected(tx'[r])
    BY <2>3, <2>5, <2>8 DEF Hand
  <2> QED BY <2>4, <2>9, <2>10, HandNext
\* MAIN stays
<1>3. ASSUME NEW s \in Session, Effects(s), main' = main
      PROVE  Goal
  <2>1. CASE Save(s)
    <3>1. PICK k \in 0 .. MaxEdits - 1, c \in 1 .. MaxTx :
                /\ c = current[s] /\ <<c, k + 1>> \in Edit
                /\ OfTx(c) = {<<c, n>> : n \in 1 .. k}
                /\ runtime' = [runtime EXCEPT ![s] = @ \cup {<<c, k + 1>>}]
                /\ made' = made \cup {<<c, k + 1>>}
                /\ OfTx(c)' = OfTx(c) \cup {<<c, k + 1>>}
                /\ OfTx(c)' = {<<c, n>> : n \in 1 .. k + 1}
                /\ \A t : t # c => OfTx(t)' = OfTx(t)
      BY <2>1, OfTxSave
    <3>2. UNCHANGED <<main, txs, current, tx, base, journal>>
      BY <2>1, OfTxSave
    <3>3. PICK t \in 1 .. MaxTx, b \in 1 .. MaxCommits : Hand(r, t, b)
      BY <1>0, <3>2, HandOfInHand
    <3>4. Unpublished(t)'
      BY <3>2, <3>3 DEF Hand, Unpublished, Newest
    <3>5. runtime'[r] = main'[b] \cup OfTx(t)'
      <4>1. CASE r = s
        BY <1>0, <3>1, <3>2, <3>3, <4>1 DEF Hand, Shapes
      <4>2. CASE r # s
        <5>1. t # c
          BY <1>0, <3>1, <3>3, <4>2 DEF Hand, Owned
        <5>2. OfTx(t)' = OfTx(t) /\ runtime'[r] = runtime[r]
          BY <1>0, <3>1, <4>2, <5>1 DEF Shapes
        <5> QED BY <3>2, <3>3, <5>2 DEF Hand
      <4> QED BY <4>1, <4>2
    <3>6. t = current'[r] /\ b = base'[r] /\ journal'[r].status = Expected(tx'[r])
      BY <3>2, <3>3 DEF Hand
    <3> QED BY <3>4, <3>5, <3>6, HandNext
  <2>2. CASE BeginJournal(s) /\ r = s
    <3>1. /\ UNCHANGED <<main, made, runtime, base>>
          /\ base[s] # 0 /\ current'[s] = txs + 1 /\ tx'[s] = "VERIFY"
          /\ journal'[s].status = "OPEN" /\ OfTx(txs + 1) = {}
          /\ runtime[s] = main[base[s]] /\ txs' = txs + 1
      BY <2>2, BeginsEmpty
    <3>2. PICK t, b : t = txs + 1 /\ b = base[s]
      OBVIOUS
    <3>3. t \in 1 .. MaxTx /\ b \in 1 .. MaxCommits
      <4>1. txs < MaxTx
        BY <2>2 DEF BeginJournal
      <4> QED BY <1>0, <3>1, <3>2, <4>1, Numbers DEF Shapes, Commit
    <3>4. OfTx(t)' = {} /\ runtime'[r] = main'[b] \cup OfTx(t)'
      BY <2>2, <3>1, <3>2 DEF OfTx
    <3>5. Unpublished(t)'
      <4>1. \A e \in main[Newest] : e[1] <= txs /\ e[1] \in Nat
        BY <1>0, BoundAssumption DEF MainGrows, Numbered, Shapes, Edit
      <4>2. \A e \in main[Newest] : e[1] # t
        BY <1>0, <3>2, <4>1, Numbers
      <4> QED BY <3>1, <4>2 DEF Unpublished, Newest
    <3>6. t = current'[r] /\ b = base'[r] /\ journal'[r].status = Expected(tx'[r])
      BY <2>2, <3>1, <3>2 DEF Expected
    <3> QED BY <3>3, <3>4, <3>5, <3>6, HandNext
  <2>3. CASE ~Save(s) /\ r # s
    <3>1. made' = made
      BY <1>3, <2>3, OnlySave
    <3>2. /\ tx'[r] = tx[r] /\ base'[r] = base[r] /\ current'[r] = current[r]
          /\ runtime'[r] = runtime[r] /\ journal'[r] = journal[r]
      BY <1>0, <1>3, <2>3, OneSessionAtATime DEF OthersKeep
    <3>3. journal[r].status = Expected(tx[r])
      BY <1>0, <3>2 DEF InHand, Expected
    <3> QED BY <1>1, <1>3, <3>1, <3>2, <3>3
  <2>4. CASE ~Save(s) /\ ~BeginJournal(s) /\ r = s
    <3>1. HandKept(s)
      BY <1>3, <2>4, HandSteps
    <3> QED BY <1>1, <2>4, <3>1 DEF HandKept
  <2> QED BY <2>1, <2>2, <2>3, <2>4
<1>4. CASE LeaseEnds \/ (LatePush /\ main' = main)
  <2>1. UNCHANGED <<main, made, current, base, runtime, journal, tx>>
    BY <1>4 DEF LeaseEnds, LatePush, memory, disk, history
  <2>2. journal[r].status = Expected(tx[r])
    BY <1>0, <2>1 DEF InHand, Expected
  <2> QED BY <1>1, <2>1, <2>2
<1> QED BY <1>2, <1>3, <1>4 DEF Next, Effects

-----------------------------------------------------------------------------
(* The loss of the authority. *)

LEMMA FinishSeesStep ==
    ASSUME IInv, Next
    PROVE  FinishSees'
<1>0. Shapes /\ FinishSees
  BY TypeParts DEF IInv
<1> DEFINE Sees(r) == finishing'[r] =>
                        tx'[r] = "FINISHING" \/ (tx'[r] = "RECOVERY_REQUIRED" /\ journal'[r].lost)
<1>1. ASSUME NEW r \in Session, finishing'[r] = finishing[r], tx'[r] = tx[r],
             journal'[r] = journal[r]
      PROVE  Sees(r)
  BY <1>0, <1>1 DEF FinishSees
<1>2. ASSUME NEW s \in Session, Effects(s) PROVE Sees(s)
  <2> USE <1>0 DEF FinishSees, Shapes, Journals, Goto
  <2>1. CASE Starting(s)
    <3>1. CASE Request(s) \/ GrantQueued(s) \/ CancelWaiting(s) \/ PinMain(s) \/ Install(s)
      BY <3>1 DEF Request, GrantQueued, CancelWaiting, PinMain, Install, disk
    <3>2. CASE HandoffFails(s) \/ BeginJournal(s) \/ BeginJournalFails(s)
      BY <3>2 DEF HandoffFails, BeginJournal, BeginJournalFails
    <3> QED BY <2>1, <3>1, <3>2 DEF Starting
  <2>2. CASE Editing(s)
    <3>1. CASE OpenEditing(s) \/ GrantLost(s) \/ PauseIdle(s) \/ Recover(s) \/ Reacquire(s)
      BY <3>1 DEF OpenEditing, GrantLost, PauseIdle, Recover, Reacquire, disk
    <3>2. CASE Save(s) \/ Cancel(s)
      BY <3>2 DEF Save, Cancel
    <3>3. CASE LoseAuthority(s)
      BY <3>3 DEF LoseAuthority
    <3> QED BY <2>2, <3>1, <3>2, <3>3 DEF Editing
  <2>3. CASE Finishing(s)
    <3>1. CASE EnterFinishing(s)
      BY <3>1 DEF EnterFinishing
    <3>2. CASE SaveLocal(s) \/ SaveLocalLost(s)
      BY <3>2 DEF SaveLocal, SaveLocalLost
    <3>3. CASE Push(s) \/ ConfirmPublished(s) \/ ConfirmFails(s) \/ ContinueOffline(s)
      BY <3>3 DEF Push, ConfirmPublished, ConfirmFails, ContinueOffline
    <3>4. CASE ReleaseAfterPublish(s)
      BY <3>4 DEF ReleaseAfterPublish
    <3> QED BY <2>3, <3>1, <3>2, <3>3, <3>4 DEF Finishing
  <2>4. CASE Around(s)
    <3>1. CASE BackgroundSync(s)
      BY <3>1 DEF BackgroundSync, memory, Replaceable
    <3>2. CASE Crash(s) \/ CrashInInstall(s)
      BY <3>2 DEF Crash, CrashInInstall, Dies
    <3>3. CASE StartupPrepare(s) \/ StartupInstall(s) \/ OfflineStart(s) \/ Reconnect(s)
      BY <3>3 DEF StartupPrepare, StartupInstall, OfflineStart, Reconnect
    <3> QED BY <2>4, <3>1, <3>2, <3>3 DEF Around
  <2> QED BY <1>2, <2>1, <2>2, <2>3, <2>4 DEF Effects
<1>3. ASSUME NEW s \in Session, Effects(s) PROVE FinishSees'
  <2>1. ASSUME NEW r \in Session, r # s PROVE Sees(r)
    BY <1>0, <1>1, <1>3, <2>1, OneSessionAtATime DEF OthersKeep
  <2> QED BY <1>2, <1>3, <2>1 DEF FinishSees
<1>4. CASE LeaseEnds \/ LatePush
  <2>1. UNCHANGED <<finishing, tx, journal>>
    BY <1>4 DEF LeaseEnds, LatePush, memory, disk
  <2> QED BY <1>0, <2>1 DEF FinishSees
<1> QED BY <1>3, <1>4 DEF Next, Effects

Publishing == {"PUBLISHING", "PUSHED", "PUBLISHED", "PUBLISHED_LOCK_RELEASE_PENDING"}

LEMMA LostStep ==
    ASSUME IInv, Next
    PROVE  LostIsNotPublished'
<1>0. Shapes /\ FinishSees /\ LostIsNotPublished
  BY TypeParts DEF IInv
<1> DEFINE Stopped(r) == journal'[r].lost => tx'[r] \notin Publishing
<1>1. ASSUME NEW r \in Session, tx'[r] = tx[r], journal'[r] = journal[r]
      PROVE  Stopped(r)
  BY <1>0, <1>1 DEF LostIsNotPublished, Publishing
<1>2. ASSUME NEW s \in Session, Effects(s) PROVE Stopped(s)
  <2>0. journal[s].lost => tx[s] \notin Publishing
    BY <1>0 DEF LostIsNotPublished, Publishing
  <2> USE <1>0, <2>0 DEF Shapes, Journals, Goto, Publishing, Update
  <2>1. CASE Starting(s)
    <3>1. CASE Request(s) \/ GrantQueued(s) \/ CancelWaiting(s) \/ PinMain(s) \/ Install(s)
      BY <3>1 DEF Request, GrantQueued, CancelWaiting, PinMain, Install
    <3>2. CASE HandoffFails(s) \/ BeginJournal(s) \/ BeginJournalFails(s)
      BY <3>2 DEF HandoffFails, BeginJournal, BeginJournalFails
    <3> QED BY <2>1, <3>1, <3>2 DEF Starting
  <2>2. CASE Editing(s)
    <3>1. CASE OpenEditing(s) \/ GrantLost(s) \/ PauseIdle(s) \/ Recover(s) \/ Reacquire(s)
      BY <3>1 DEF OpenEditing, GrantLost, PauseIdle, Recover, Reacquire
    <3>2. CASE Save(s) \/ Cancel(s)
      BY <3>2 DEF Save, Cancel
    <3>3. CASE LoseAuthority(s)
      BY <3>3 DEF LoseAuthority
    <3> QED BY <2>2, <3>1, <3>2, <3>3 DEF Editing
  <2>3. CASE Finishing(s)
    <3>1. CASE EnterFinishing(s)
      BY <3>1 DEF EnterFinishing
    <3>2. CASE SaveLocal(s)
      <4>1. ~journal[s].lost
        BY <3>2 DEF SaveLocal
      <4>2. CASE Update(s, "PUBLISHING")
        BY <4>1, <4>2
      <4>3. CASE UNCHANGED journal
        BY <4>1, <4>3
      <4> QED BY <3>2, <4>2, <4>3 DEF SaveLocal
    <3>3. CASE SaveLocalLost(s)
      BY <3>3 DEF SaveLocalLost, disk, FinishSees
    <3>4. CASE Push(s)
      BY <3>4 DEF Push, disk
    <3>5. CASE ConfirmPublished(s)
      <4>1. journal'[s].lost = journal[s].lost /\ tx[s] = "PUSHED"
        BY <3>5 DEF ConfirmPublished
      <4> QED BY <4>1
    <3>6. CASE ConfirmFails(s) \/ ContinueOffline(s)
      BY <3>6 DEF ConfirmFails, ContinueOffline
    <3>7. CASE ReleaseAfterPublish(s)
      <4>1. tx[s] \in {"PUBLISHED", "PUBLISHED_LOCK_RELEASE_PENDING"}
        BY <3>7 DEF ReleaseAfterPublish
      <4>2. journal'[s].lost = journal[s].lost
        BY <3>7 DEF ReleaseAfterPublish
      <4> QED BY <4>1, <4>2
    <3> QED BY <2>3, <3>1, <3>2, <3>3, <3>4, <3>5, <3>6, <3>7 DEF Finishing
  <2>4. CASE Around(s)
    <3>1. CASE BackgroundSync(s)
      BY <3>1 DEF BackgroundSync, Receipt
    <3>2. CASE Crash(s) \/ CrashInInstall(s)
      BY <3>2 DEF Crash, CrashInInstall, Dies
    <3>3. CASE StartupPrepare(s) \/ StartupInstall(s) \/ OfflineStart(s) \/ Reconnect(s)
      BY <3>3 DEF StartupPrepare, StartupInstall, OfflineStart, Reconnect
    <3> QED BY <2>4, <3>1, <3>2, <3>3 DEF Around
  <2> QED BY <1>2, <2>1, <2>2, <2>3, <2>4 DEF Effects
<1>3. ASSUME NEW s \in Session, Effects(s) PROVE LostIsNotPublished'
  <2>1. ASSUME NEW r \in Session, r # s PROVE Stopped(r)
    BY <1>0, <1>1, <1>3, <2>1, OneSessionAtATime DEF OthersKeep
  <2> QED BY <1>2, <1>3, <2>1 DEF LostIsNotPublished, Publishing
<1>4. CASE LeaseEnds \/ LatePush
  <2>1. UNCHANGED <<tx, journal>>
    BY <1>4 DEF LeaseEnds, LatePush, memory, disk
  <2> QED BY <1>0, <2>1 DEF LostIsNotPublished
<1> QED BY <1>3, <1>4 DEF Next, Effects

-----------------------------------------------------------------------------
(* Live databases and their copies. *)

LEMMA FlyingStep ==
    ASSUME IInv, Next
    PROVE  FlyingWhole'
<1>0. Shapes /\ FlyingWhole /\ MainGrows /\ Numbered /\ InHand /\ Owned /\ Within
  BY TypeParts DEF IInv
<1>a. Newest \in Nat /\ txs \in Nat /\ \A p \in flying : p.base \in Nat
  BY <1>0, Numbers DEF Shapes, Commit
<1>1. CASE main' # main
  <2>1. PICK u \in 1 .. txs : Landing(u) /\ flying' \subseteq flying
    BY <1>1, LandsOutOfHand
  <2>2. Newest' = Newest + 1
    BY <1>0, <2>1, Landed
  <2>3. \A p \in flying' : p.base <= Newest' /\ p.base # Newest'
    BY <1>0, <1>a, <2>1, <2>2 DEF FlyingWhole
  <2> QED BY <2>3 DEF FlyingWhole
\* a push that was under way still carries all of its transaction
<1>2. ASSUME NEW p \in flying, p.base = Newest, main' = main, txs' >= txs, txs' \in Nat,
             \A t \in 1 .. txs : (\A r \in Session : current[r] = t => tx[r] \notin Before) =>
                OfTx(t)' = OfTx(t) /\ \A r \in Session : current'[r] = t => tx'[r] \notin Before
      PROVE  \E t \in 1 .. txs' : Carries(p, t)'
  <2>1. PICK t \in 1 .. txs : Carries(p, t)
    BY <1>0, <1>2 DEF FlyingWhole
  <2>2. t \in 1 .. txs'
    BY <1>a, <1>2
  <2>3. Unpublished(t)' /\ main'[Newest'] = main[Newest]
    BY <1>2, <2>1 DEF Carries, Unpublished, Newest
  <2>4. OfTx(t)' = OfTx(t) /\ \A r \in Session : current'[r] = t => tx'[r] \notin Before
    BY <1>2, <2>1 DEF Carries
  <2> QED BY <2>1, <2>2, <2>3, <2>4 DEF Carries
<1>3. ASSUME NEW s \in Session, Effects(s), main' = main
      PROVE  \A p \in flying : p.base = Newest => \E t \in 1 .. txs' : Carries(p, t)'
  <2>1. txs' >= txs /\ txs' \in Nat
    BY <1>a, <1>3, OnlyBegin DEF BeginJournal
  <2>2. ASSUME NEW t \in 1 .. txs, \A r \in Session : current[r] = t => tx[r] \notin Before
        PROVE  OfTx(t)' = OfTx(t) /\ \A r \in Session : current'[r] = t => tx'[r] \notin Before
    <3>1. CASE Save(s)
      <4>1. PICK k \in 0 .. MaxEdits - 1, c \in 1 .. MaxTx :
                  /\ c = current[s] /\ <<c, k + 1>> \in Edit
                  /\ OfTx(c) = {<<c, n>> : n \in 1 .. k}
                  /\ runtime' = [runtime EXCEPT ![s] = @ \cup {<<c, k + 1>>}]
                  /\ made' = made \cup {<<c, k + 1>>}
                  /\ OfTx(c)' = OfTx(c) \cup {<<c, k + 1>>}
                  /\ OfTx(c)' = {<<c, n>> : n \in 1 .. k + 1}
                  /\ \A x : x # c => OfTx(x)' = OfTx(x)
        BY <3>1, OfTxSave
      <4>2. UNCHANGED <<current, tx>> /\ tx[s] = "EDITING"
        BY <3>1, OfTxSave DEF Save
      <4>3. t # c
        BY <2>2, <4>1, <4>2 DEF Before
      <4> QED BY <2>2, <4>1, <4>2, <4>3
    <3>2. CASE BeginJournal(s)
      <4>1. made' = made /\ current'[s] = txs + 1
        BY <3>2, BeginsEmpty
      <4>2. t # txs + 1
        BY <1>a
      <4>3. \A r \in Session \ {s} : current'[r] = current[r] /\ tx'[r] = tx[r]
        BY <1>0, <1>3, OneSessionAtATime DEF OthersKeep
      <4>4. \A r \in Session : current'[r] = t => tx'[r] \notin Before
        BY <2>2, <4>1, <4>2, <4>3
      <4> QED BY <4>1, <4>4, OfTxSame
    <3>3. CASE ~Save(s) /\ ~BeginJournal(s)
      <4>1. made' = made /\ current' = current
        BY <1>3, <3>3, OnlySave, OnlyBegin
      <4>2. \A r \in Session \ {s} : tx'[r] = tx[r]
        BY <1>0, <1>3, OneSessionAtATime DEF OthersKeep
      <4>3. tx'[s] \in Before => tx[s] \in Before
        BY <1>3, <3>3, HandSteps DEF HandKept
      <4>4. \A r \in Session : current'[r] = t => tx'[r] \notin Before
        BY <2>2, <4>1, <4>2, <4>3
      <4> QED BY <4>1, <4>4, OfTxSame
    <3> QED BY <3>1, <3>2, <3>3
  <2> QED BY <1>2, <1>3, <2>1, <2>2
\* a push that is left under way
<1>4. ASSUME NEW s \in Session, Push(s), main' = main, flying' # flying
      PROVE  \E q : /\ flying' = flying \cup {q} /\ q.base = Newest
                    /\ \E t \in 1 .. txs' : Carries(q, t)'
  <2>1. Fenced(base[s]) /\ flying' = flying \cup {[base |-> base[s], content |-> runtime[s]]}
    BY <1>4 DEF Push
  <2>2. base[s] = Newest
    BY <2>1 DEF Fenced
  <2>3. tx[s] = "PUBLISHING" /\ tx'[s] = "FAILED" /\ UNCHANGED <<current, txs, made>>
    <3>1. tx[s] = "PUBLISHING" /\ UNCHANGED <<current, txs, made>> /\ Goto(s, "FAILED")
      BY <1>4 DEF Push
    <3> QED BY <1>0, <3>1 DEF Goto, Shapes
  <2>4. PICK t \in 1 .. MaxTx, b \in 1 .. MaxCommits : Hand(s, t, b)
    BY <1>0, <2>3, HandOfInHand DEF Before
  <2>5. t \in 1 .. txs'
    BY <1>0, <1>a, <2>3, <2>4 DEF Hand, Numbered
  <2>6. \A r \in Session : current'[r] = t => tx'[r] \notin Before
    <3>1. \A r \in Session : current[r] = t => r = s
      BY <1>0, <2>4 DEF Hand, Owned
    <3> QED BY <2>3, <3>1 DEF Before
  <2>7. Unpublished(t)' /\ OfTx(t)' = OfTx(t) /\ main'[Newest'] = main[Newest]
    BY <1>4, <2>3, <2>4 DEF Hand, Unpublished, OfTx, Newest
  <2>8. runtime[s] = main[Newest] \cup OfTx(t)
    BY <2>2, <2>4 DEF Hand
  <2>9. PICK q : q = [base |-> base[s], content |-> runtime[s]]
    OBVIOUS
  <2>10. q.content = runtime[s] /\ q.base = Newest /\ flying' = flying \cup {q}
    BY <2>1, <2>2, <2>9
  <2>11. Carries(q, t)'
    BY <2>6, <2>7, <2>8, <2>10 DEF Carries
  <2> QED BY <2>5, <2>10, <2>11
<1>5. ASSUME NEW s \in Session, Effects(s), main' = main PROVE FlyingWhole'
  <2>1. Newest' = Newest
    BY <1>5 DEF Newest
  <2>2. CASE flying' = flying
    BY <1>0, <1>3, <1>5, <2>1, <2>2 DEF FlyingWhole
  <2>3. CASE flying' # flying
    <3>1. Push(s)
      BY <1>5, <2>3, OnlyPush
    <3>2. PICK q : /\ flying' = flying \cup {q} /\ q.base = Newest
                   /\ \E t \in 1 .. txs' : Carries(q, t)'
      BY <1>4, <1>5, <2>3, <3>1
    <3>3. \A p \in flying : p.base <= Newest' /\ (p.base = Newest' => \E t \in 1 .. txs' : Carries(p, t)')
      BY <1>0, <1>3, <1>5, <2>1 DEF FlyingWhole
    <3>4. q.base <= Newest' /\ \E t \in 1 .. txs' : Carries(q, t)'
      BY <1>a, <2>1, <3>2
    <3> QED BY <3>2, <3>3, <3>4 DEF FlyingWhole
  <2> QED BY <2>2, <2>3
<1>6. CASE main' = main /\ (LeaseEnds \/ LatePush)
  <2>1. flying' \subseteq flying /\ UNCHANGED <<main, made, txs, current, tx>>
    BY <1>6 DEF LeaseEnds, LatePush, memory, history
  <2>2. Newest' = Newest
    BY <2>1 DEF Newest
  <2>3. \A t \in 1 .. txs : OfTx(t)' = OfTx(t)
    BY <2>1, OfTxSame
  <2>4. \A p \in flying : p.base = Newest => \E t \in 1 .. txs' : Carries(p, t)'
    BY <1>2, <1>a, <2>1, <2>3
  <2> QED BY <1>0, <2>1, <2>2, <2>4 DEF FlyingWhole
<1> QED BY <1>1, <1>5, <1>6 DEF Next, Effects

(* The live database that a receipt accounts for is a version of MAIN. *)
LEMMA ReplaceableIsOld ==
    ASSUME Shapes, Within, MainGrows, NEW s \in Session, Replaceable(s)
    PROVE  runtime[s] \subseteq main[Newest] /\ runtime[s] \in ToSet(main)
<1>1. journal[s].published \in 1 .. Newest /\ Newest \in 1 .. Len(main) /\ Newest = Len(main)
  BY Numbers DEF Within
<1>2. runtime[s] = main[journal[s].published]
  BY DEF Replaceable
<1> QED BY <1>1, <1>2 DEF MainGrows, ToSet

(* A live database is left alone, or grows by a save, or is replaced by a    *)
(* version of MAIN after all of it went to an archive or to MAIN.            *)
Replaced(s) ==
    /\ runtime[s] \subseteq saved[s] \cup main[Newest]
    /\ runtime'[s] \in ToSet(main)

LEMMA LiveSteps ==
    ASSUME IInv, NEW s \in Session, Effects(s)
    PROVE  /\ saved[s] \subseteq saved'[s]
           /\ runtime'[s] = runtime[s] \/ Save(s) \/ Replaced(s)
<1>0. Shapes /\ Within /\ MainGrows /\ Prepared
  BY TypeParts DEF IInv
<1>1. main[Newest] \in ToSet(main)
  BY <1>0, Numbers DEF ToSet
<1>2. Replaceable(s) => runtime[s] \subseteq main[Newest]
  BY <1>0, ReplaceableIsOld
<1> USE DEF Shapes, Goto, Update, Preserve, disk, Replaced
<1>3. CASE Starting(s)
  <2>1. CASE Request(s) \/ GrantQueued(s) \/ CancelWaiting(s) \/ PinMain(s)
    BY <1>0, <2>1 DEF Request, GrantQueued, CancelWaiting, PinMain
  <2>2. CASE Install(s)
    <3>1. saved' = saved /\ Replaceable(s)
      BY <2>2 DEF Install
    <3>2. runtime'[s] = main[Newest]
      BY <1>0, <2>2 DEF Install
    <3> QED BY <1>1, <1>2, <3>1, <3>2
  <2>3. CASE HandoffFails(s) \/ BeginJournal(s) \/ BeginJournalFails(s)
    BY <1>0, <2>3 DEF HandoffFails, BeginJournal, BeginJournalFails
  <2> QED BY <1>3, <2>1, <2>2, <2>3 DEF Starting
<1>4. CASE Editing(s)
  <2>1. CASE OpenEditing(s) \/ LoseAuthority(s) \/ PauseIdle(s) \/ Recover(s) \/ Reacquire(s)
    BY <1>0, <2>1 DEF OpenEditing, LoseAuthority, PauseIdle, Recover, Reacquire
  <2>2. CASE Save(s)
    BY <1>0, <2>2 DEF Save
  <2>3. CASE GrantLost(s) \/ Cancel(s)
    <3>1. runtime' = runtime /\ (Preserve(s) \/ saved' = saved)
      BY <2>3 DEF GrantLost, Cancel
    <3> QED BY <1>0, <3>1
  <2> QED BY <1>4, <2>1, <2>2, <2>3 DEF Editing
<1>5. CASE Finishing(s)
  BY <1>0, <1>5 DEF Finishing, EnterFinishing, SaveLocal, SaveLocalLost, Push, ConfirmPublished,
                    ConfirmFails, ReleaseAfterPublish, ContinueOffline
<1>6. CASE Around(s)
  <2>1. CASE BackgroundSync(s)
    <3>1. saved' = saved /\ Replaceable(s)
      BY <2>1 DEF BackgroundSync
    <3>2. runtime'[s] = main[Newest]
      BY <1>0, <2>1 DEF BackgroundSync
    <3> QED BY <1>1, <1>2, <3>1, <3>2
  <2>2. CASE Crash(s)
    BY <1>0, <2>2 DEF Crash, Dies
  <2>3. CASE CrashInInstall(s)
    <3>1. saved' = saved /\ (tx[s] = "STARTING" \/ Replaceable(s))
      BY <2>3 DEF CrashInInstall, Dies
    <3>2. runtime'[s] = main[Newest]
      BY <1>0, <2>3 DEF CrashInInstall
    <3> QED BY <1>0, <1>1, <1>2, <3>1, <3>2 DEF Prepared
  <2>4. CASE StartupPrepare(s) \/ OfflineStart(s)
    BY <1>0, <2>4 DEF StartupPrepare, OfflineStart
  <2>5. CASE StartupInstall(s)
    <3>1. saved' = saved /\ tx[s] = "STARTING"
      BY <2>5 DEF StartupInstall
    <3>2. runtime'[s] = main[Newest] \/ runtime'[s] = runtime[s]
      BY <1>0, <2>5 DEF StartupInstall
    <3> QED BY <1>0, <1>1, <3>1, <3>2 DEF Prepared
  <2>6. CASE Reconnect(s)
    <3>1. saved' = saved /\ Replaceable(s)
      BY <2>6 DEF Reconnect
    <3>2. runtime'[s] = main[Newest]
      BY <1>0, <2>6 DEF Reconnect
    <3> QED BY <1>1, <1>2, <3>1, <3>2
  <2> QED BY <1>6, <2>1, <2>2, <2>3, <2>4, <2>5, <2>6 DEF Around
<1> QED BY <1>3, <1>4, <1>5, <1>6 DEF Effects

LEMMA NewestGrows ==
    ASSUME IInv, Next
    PROVE  main[Newest] \subseteq main'[Newest'] /\ ToSet(main) \subseteq ToSet(main')
<1>0. Shapes /\ MainGrows
  BY TypeParts DEF IInv
<1>1. /\ Len(main') \in Nat /\ Len(main) <= Len(main')
      /\ \A i \in 1 .. Len(main) : main'[i] = main[i]
  BY <1>0, MainStep, MainKept
<1>2. Newest \in 1 .. Len(main') /\ Newest' = Len(main') /\ main'[Newest] = main[Newest]
  BY <1>0, <1>1, Numbers DEF Newest
<1>3. main'[Newest] \subseteq main'[Newest']
  <2>1. Newest <= Newest' /\ Newest' \in 1 .. Len(main')
    BY <1>0, <1>1, <1>2, Numbers
  <2> QED BY <1>2, <2>1, MainGrowsStep DEF MainGrows
<1>4. ToSet(main) \subseteq ToSet(main')
  <2>1. \A i \in 1 .. Len(main) : i \in 1 .. Len(main') /\ main'[i] = main[i]
    BY <1>0, <1>1, Numbers
  <2> QED BY <2>1 DEF ToSet
<1> QED BY <1>2, <1>3, <1>4

LEMMA PreparedStep ==
    ASSUME IInv, Next
    PROVE  Prepared'
<1>0. Shapes /\ Within /\ MainGrows /\ Prepared /\ FinishSees
  BY TypeParts DEF IInv
<1>1. main[Newest] \subseteq main'[Newest']
  BY NewestGrows
<1>2. ASSUME NEW r \in Session, tx'[r] = tx[r], runtime'[r] = runtime[r], saved[r] \subseteq saved'[r]
      PROVE  tx'[r] = "STARTING" => runtime'[r] \subseteq saved'[r] \cup main'[Newest']
  BY <1>0, <1>1, <1>2 DEF Prepared
<1>3. ASSUME NEW s \in Session, Effects(s), tx'[s] = "STARTING" PROVE StartupPrepare(s)
  <2> USE <1>0 DEF Shapes, Goto
  <2>1. ~Starting(s)
    BY <1>3 DEF Starting, Request, GrantQueued, CancelWaiting, PinMain, Install, HandoffFails,
                BeginJournal, BeginJournalFails
  <2>2. ~Editing(s)
    BY <1>3 DEF Editing, OpenEditing, GrantLost, Save, LoseAuthority, PauseIdle, Recover,
                Reacquire, Cancel
  <2>3. ~Finishing(s)
    BY <1>3 DEF Finishing, EnterFinishing, SaveLocal, SaveLocalLost, Push, ConfirmPublished,
                ConfirmFails, ReleaseAfterPublish, ContinueOffline, FinishSees
  <2>4. ~BackgroundSync(s)
    BY <1>3 DEF BackgroundSync, memory
  <2>5. ~Crash(s) /\ ~CrashInInstall(s)
    BY <1>3 DEF Crash, CrashInInstall, Dies
  <2>6. ~StartupInstall(s) /\ ~OfflineStart(s) /\ ~Reconnect(s)
    BY <1>3 DEF StartupInstall, OfflineStart, Reconnect
  <2> QED BY <1>3, <2>1, <2>2, <2>3, <2>4, <2>5, <2>6 DEF Effects, Around
<1>4. ASSUME NEW s \in Session, StartupPrepare(s)
      PROVE  runtime'[s] \subseteq saved'[s] \cup main'[Newest']
  <2>1. runtime' = runtime
    BY <1>4 DEF StartupPrepare
  <2>2. CASE Replaceable(s)
    BY <1>0, <1>1, <2>1, <2>2, ReplaceableIsOld
  <2>3. CASE ~Replaceable(s)
    BY <1>0, <1>4, <2>1, <2>3 DEF StartupPrepare, Preserve, Shapes
  <2> QED BY <2>2, <2>3
<1>5. ASSUME NEW s \in Session, Effects(s) PROVE Prepared'
  <2>1. ASSUME NEW r \in Session, r # s
        PROVE  tx'[r] = "STARTING" => runtime'[r] \subseteq saved'[r] \cup main'[Newest']
    BY <1>0, <1>2, <1>5, <2>1, OneSessionAtATime DEF OthersKeep
  <2> QED BY <1>3, <1>4, <1>5, <2>1 DEF Prepared
<1>6. CASE LeaseEnds \/ LatePush
  <2>1. UNCHANGED <<tx, runtime, saved>>
    BY <1>6 DEF LeaseEnds, LatePush, memory, disk
  <2> QED BY <1>2, <2>1 DEF Prepared
<1> QED BY <1>5, <1>6 DEF Next, Effects

LEMMA WorkStep ==
    ASSUME IInv, Next
    PROVE  WorkNeverLost'
<1>0. Shapes /\ WorkNeverLost /\ main[Newest] \subseteq main'[Newest']
  BY TypeParts, NewestGrows DEF IInv
<1>1. Last(main) = main[Newest] /\ Last(main)' = main'[Newest']
  BY DEF Last, Newest
<1>2. ASSUME NEW s \in Session, Effects(s) PROVE WorkNeverLost'
  <2>1. \A r \in Session \ {s} : runtime'[r] = runtime[r] /\ saved'[r] = saved[r]
    BY <1>0, <1>2, OneSessionAtATime DEF OthersKeep
  <2>2. /\ saved[s] \subseteq saved'[s]
        /\ runtime'[s] = runtime[s] \/ Save(s) \/ Replaced(s)
    BY <1>2, LiveSteps
  <2>3. CASE Save(s)
    <3>1. PICK k \in 0 .. MaxEdits - 1, c \in 1 .. MaxTx :
                  /\ c = current[s] /\ <<c, k + 1>> \in Edit
                  /\ OfTx(c) = {<<c, n>> : n \in 1 .. k}
                  /\ runtime' = [runtime EXCEPT ![s] = @ \cup {<<c, k + 1>>}]
                  /\ made' = made \cup {<<c, k + 1>>}
                  /\ OfTx(c)' = OfTx(c) \cup {<<c, k + 1>>}
                  /\ OfTx(c)' = {<<c, n>> : n \in 1 .. k + 1}
                  /\ \A x : x # c => OfTx(x)' = OfTx(x)
      BY <2>3, OfTxSave
    <3>2. runtime'[s] = runtime[s] \cup {<<c, k + 1>>}
      BY <1>0, <3>1 DEF Shapes
    <3>3. ASSUME NEW e \in made'
          PROVE  e \in main'[Newest'] \/ \E r \in Session : e \in runtime'[r] \cup saved'[r]
      <4>1. CASE e \in made
        BY <1>0, <1>1, <2>1, <2>2, <3>2, <4>1 DEF WorkNeverLost
      <4>2. CASE e = <<c, k + 1>>
        BY <3>2, <4>2
      <4> QED BY <3>1, <4>1, <4>2
    <3> QED BY <1>1, <3>3 DEF WorkNeverLost
  <2>4. CASE ~Save(s)
    <3>1. made' = made
      BY <1>2, <2>4, OnlySave
    <3>2. runtime[s] \cup saved[s] \subseteq runtime'[s] \cup saved'[s] \cup main[Newest]
      BY <2>2, <2>4 DEF Replaced
    <3>3. ASSUME NEW e \in made
          PROVE  e \in main'[Newest'] \/ \E r \in Session : e \in runtime'[r] \cup saved'[r]
      <4>1. CASE e \in main[Newest]
        BY <1>0, <4>1
      <4>2. ASSUME NEW r \in Session, e \in runtime[r] \cup saved[r]
            PROVE  e \in main'[Newest'] \/ \E q \in Session : e \in runtime'[q] \cup saved'[q]
        BY <1>0, <2>1, <3>2, <4>2
      <4> QED BY <1>0, <1>1, <4>1, <4>2 DEF WorkNeverLost
    <3> QED BY <1>1, <3>1, <3>3 DEF WorkNeverLost
  <2> QED BY <2>3, <2>4
<1>3. CASE LeaseEnds \/ LatePush
  <2>1. UNCHANGED <<made, runtime, saved>>
    BY <1>3 DEF LeaseEnds, LatePush, disk, history
  <2> QED BY <1>0, <1>1, <2>1 DEF WorkNeverLost
<1> QED BY <1>2, <1>3 DEF Next, Effects

LEMMA CleanStep ==
    ASSUME IInv, Next
    PROVE  CleanIsPublished'
<1>0. /\ Shapes /\ Within /\ MainGrows /\ CleanIsPublished
      /\ ToSet(main) \subseteq ToSet(main')
  BY TypeParts, NewestGrows DEF IInv
<1> DEFINE Published(r) == journal'[r].status = "CLEAN" => runtime'[r] \in ToSet(main')
<1>1. ASSUME NEW r \in Session, runtime'[r] = runtime[r],
             journal'[r].status = "CLEAN" => journal[r].status = "CLEAN"
      PROVE  Published(r)
  BY <1>0, <1>1 DEF CleanIsPublished
<1>2. ASSUME NEW s \in Session, Effects(s) PROVE Published(s)
  <2>1. CASE Replaced(s)
    BY <1>0, <2>1 DEF Replaced
  <2>2. CASE Save(s)
    <3>1. journal' = journal /\ journal[s].status = "OPEN"
      <4>1. tx[s] = "EDITING" /\ journal' = journal
        BY <2>2 DEF Save
      <4> QED BY <4>1 DEF IInv, InHand, Before
    <3> QED BY <3>1
  <2>3. CASE runtime'[s] = runtime[s] /\ Replaceable(s)
    BY <1>0, <2>3, ReplaceableIsOld
  <2>4. CASE runtime'[s] = runtime[s] /\ ~Replaceable(s) /\ ~StartupInstall(s)
    <3>1. journal'[s].status = "CLEAN" => journal[s].status = "CLEAN"
      <4> USE <1>0, <2>4 DEF Shapes, Journals, Update
      <4>1. CASE Starting(s)
        <5>1. CASE Request(s) \/ GrantQueued(s) \/ CancelWaiting(s) \/ PinMain(s) \/ HandoffFails(s)
          BY <5>1 DEF Request, GrantQueued, CancelWaiting, PinMain, HandoffFails, disk
        <5>2. CASE Install(s)
          BY <5>2 DEF Install
        <5>3. CASE BeginJournal(s) \/ BeginJournalFails(s)
          BY <5>3 DEF BeginJournal, BeginJournalFails
        <5> QED BY <4>1, <5>1, <5>2, <5>3 DEF Starting
      <4>2. CASE Editing(s)
        <5>1. CASE OpenEditing(s) \/ GrantLost(s) \/ Save(s) \/ LoseAuthority(s)
          BY <5>1 DEF OpenEditing, GrantLost, Save, LoseAuthority, disk
        <5>2. CASE PauseIdle(s) \/ Recover(s) \/ Reacquire(s) \/ Cancel(s)
          BY <5>2 DEF PauseIdle, Recover, Reacquire, Cancel, disk
        <5> QED BY <4>2, <5>1, <5>2 DEF Editing
      <4>3. CASE Finishing(s)
        <5>1. CASE EnterFinishing(s)
          BY <5>1 DEF EnterFinishing
        <5>2. CASE SaveLocal(s)
          BY <5>2 DEF SaveLocal
        <5>3. CASE SaveLocalLost(s) \/ Push(s) \/ ConfirmFails(s) \/ ContinueOffline(s)
          BY <5>3 DEF SaveLocalLost, Push, ConfirmFails, ContinueOffline, disk
        <5>4. CASE ConfirmPublished(s)
          BY <5>4 DEF ConfirmPublished
        <5>5. CASE ReleaseAfterPublish(s)
          BY <5>5 DEF ReleaseAfterPublish
        <5> QED BY <4>3, <5>1, <5>2, <5>3, <5>4, <5>5 DEF Finishing
      <4>4. CASE Around(s)
        BY <4>4 DEF Around, BackgroundSync, Crash, CrashInInstall, Dies, StartupPrepare,
                    OfflineStart, Reconnect, disk
      <4> QED BY <1>2, <4>1, <4>2, <4>3, <4>4 DEF Effects
    <3> QED BY <1>1, <2>4, <3>1
  <2>5. CASE StartupInstall(s)
    <3>1. CASE base[s] = Newest
      <4>1. runtime'[s] = main[Newest] /\ main[Newest] \in ToSet(main)
        BY <1>0, <2>5, <3>1, Numbers DEF StartupInstall, Shapes, ToSet
      <4> QED BY <1>0, <4>1
    <3>2. CASE base[s] # Newest
      BY <1>1, <2>5, <3>2 DEF StartupInstall
    <3> QED BY <3>1, <3>2
  <2> QED BY <1>2, <2>1, <2>2, <2>3, <2>4, <2>5, LiveSteps
<1>3. ASSUME NEW s \in Session, Effects(s) PROVE CleanIsPublished'
  <2>1. ASSUME NEW r \in Session, r # s PROVE Published(r)
    BY <1>0, <1>1, <1>3, <2>1, OneSessionAtATime DEF OthersKeep
  <2> QED BY <1>2, <1>3, <2>1 DEF CleanIsPublished
<1>4. CASE LeaseEnds \/ LatePush
  <2>1. UNCHANGED <<runtime, journal>>
    BY <1>4 DEF LeaseEnds, LatePush, disk
  <2> QED BY <1>1, <2>1 DEF CleanIsPublished
<1> QED BY <1>3, <1>4 DEF Next, Effects

-----------------------------------------------------------------------------
(* The invariant. *)

LEMMA InitInvariant == Init => IInv
<1> SUFFICES ASSUME Init PROVE IInv
  OBVIOUS
<1>1. /\ main = << {} >> /\ Len(main) = 1 /\ main[1] = {} /\ Newest = 1 /\ made = {}
      /\ Last(main) = {} /\ ToSet(main) = {{}}
  <2>1. main = << {} >> /\ made = {}
    BY DEF Init
  <2>2. Len(main) = 1 /\ main[1] = {}
    BY <2>1
  <2> QED BY <2>1, <2>2 DEF Newest, Last, ToSet
<1>2. \A s \in Session : /\ tx[s] = "IDLE" /\ ~finishing[s] /\ current[s] = 0
                         /\ runtime[s] = {} /\ ~journal[s].lost
  BY DEF Init, Receipt
<1>3. MainGrows
  BY <1>1 DEF MainGrows
<1>4. Numbered
  <2>1. ASSUME NEW t \in 1 .. MaxTx
        PROVE  \E k \in 0 .. MaxEdits : OfTx(t) = {<<t, n>> : n \in 1 .. k}
    <3>1. OfTx(t) = {<<t, n>> : n \in 1 .. 0}
      BY <1>1 DEF OfTx
    <3> QED BY <3>1, BoundAssumption
  <2> QED BY <1>1, <1>2, <2>1 DEF Numbered, Init
<1>5. InHand /\ FinishSees /\ Prepared /\ LostIsNotPublished
  BY <1>2 DEF InHand, FinishSees, Prepared, LostIsNotPublished, Before
<1>6. FlyingWhole
  BY DEF FlyingWhole, Init
<1>7. WorkNeverLost /\ CleanIsPublished
  BY <1>1, <1>2 DEF WorkNeverLost, CleanIsPublished
<1> QED BY <1>3, <1>4, <1>5, <1>6, <1>7, TypeInit DEF IInv

LEMMA StutterInvariant == IInv /\ UNCHANGED vars => IInv'
<1> SUFFICES ASSUME IInv, UNCHANGED vars PROVE IInv'
  OBVIOUS
<1>1. /\ UNCHANGED <<main, flying, lock>> /\ UNCHANGED <<runtime, journal, saved>>
      /\ UNCHANGED <<tx, queued, writing, finishing, pending, dirty, base, current>>
      /\ UNCHANGED <<made, txs, faults>>
  BY DEF vars, shared, memory, disk, history
<1>2. TypeOK' /\ MainGrows' /\ Numbered'
  BY <1>1 DEF IInv, TypeOK, MainGrows, Numbered, OfTx, Newest
<1>3. InHand' /\ FinishSees' /\ Prepared'
  BY <1>1 DEF IInv, InHand, FinishSees, Prepared, OfTx, Unpublished, Newest
<1>4. FlyingWhole'
  BY <1>1 DEF IInv, FlyingWhole, Carries, OfTx, Unpublished, Newest
<1>5. WorkNeverLost' /\ CleanIsPublished' /\ LostIsNotPublished'
  BY <1>1 DEF IInv, WorkNeverLost, CleanIsPublished, LostIsNotPublished
<1> QED BY <1>2, <1>3, <1>4, <1>5 DEF IInv

LEMMA StepInvariant == IInv /\ [Next]_vars => IInv'
<1>1. ASSUME IInv, Next PROVE IInv'
  BY <1>1, TypeStep, MainGrowsStep, NumberedStep, InHandStep, FinishSeesStep, FlyingStep,
     PreparedStep, WorkStep, CleanStep, LostStep DEF IInv
<1> QED BY <1>1, StutterInvariant

(* The invariant holds in every behaviour. *)
THEOREM Invariance == Spec => []IInv
BY InitInvariant, StepInvariant, PTL DEF Spec

(* The variables keep their types: a receipt and a base name a commit that   *)
(* MAIN has, and no two sessions have the same transaction.                  *)
THEOREM TypeCorrect == Spec => []TypeOK
<1>1. IInv => TypeOK
  BY DEF IInv
<1> QED BY <1>1, Invariance, PTL

(* Whatever crashes, fails or comes late, no committed edit is without a     *)
(* copy: it is in MAIN, in a live database, or in a capture or an archive.   *)
THEOREM WorkSurvives == Spec => []WorkNeverLost
<1>1. IInv => WorkNeverLost
  BY DEF IInv
<1> QED BY <1>1, Invariance, PTL

(* A session whose receipt says CLEAN holds a version of MAIN and nothing of *)
(* its own.                                                                  *)
THEOREM CleanMeansPublished == Spec => []CleanIsPublished
<1>1. IInv => CleanIsPublished
  BY DEF IInv
<1> QED BY <1>1, Invariance, PTL

(* A transaction whose WRITE authority was lost is on no state on the way to *)
(* publication or after it.                                                  *)
THEOREM LostNeverPublished == Spec => []LostIsNotPublished
<1>1. IInv => LostIsNotPublished
  BY DEF IInv
<1> QED BY <1>1, Invariance, PTL

-----------------------------------------------------------------------------
(* The refinement: what the workstations do to MAIN is what SharedHistory    *)
(* promises.                                                                 *)

LEMMA SharedNames ==
    ASSUME NEW t
    PROVE  /\ Shared!OfTx(t) = OfTx(t) /\ Shared!Last(main) = main[Newest]
           /\ ~Shared!Published(t) <=> Unpublished(t)
BY DEF Shared!OfTx, Shared!Published, Shared!Last, OfTx, Unpublished, Newest

LEMMA LandingPublishes ==
    ASSUME Shapes, NEW t \in 1 .. txs, Landing(t)
    PROVE  Shared!Next
<1>1. t \in 1 .. MaxTx
  BY Numbers
<1>2. Shared!Publish(t)
  BY SharedNames DEF Landing, Shared!Publish
<1> QED BY <1>1, <1>2 DEF Shared!Next

LEMMA SaveSaves ==
    ASSUME IInv, NEW s \in Session, Save(s)
    PROVE  Shared!Next
<1>0. Shapes /\ InHand
  BY TypeParts DEF IInv
<1>1. PICK k \in 0 .. MaxEdits - 1, c \in 1 .. MaxTx :
                  /\ c = current[s] /\ <<c, k + 1>> \in Edit
                  /\ OfTx(c) = {<<c, n>> : n \in 1 .. k}
                  /\ runtime' = [runtime EXCEPT ![s] = @ \cup {<<c, k + 1>>}]
                  /\ made' = made \cup {<<c, k + 1>>}
                  /\ OfTx(c)' = OfTx(c) \cup {<<c, k + 1>>}
                  /\ OfTx(c)' = {<<c, n>> : n \in 1 .. k + 1}
                  /\ \A x : x # c => OfTx(x)' = OfTx(x)
  BY OfTxSave
<1>2. Unpublished(c) /\ main' = main
  BY <1>0, <1>1, OfTxSave DEF InHand, Before, Save
<1>3. <<c, k + 1>> \notin made
  <2>1. \A n \in 1 .. k : n # k + 1
    BY <1>1, BoundAssumption
  <2>2. <<c, k + 1>> \notin {<<c, n>> : n \in 1 .. k}
    BY <2>1
  <2> QED BY <1>1, <2>2 DEF OfTx
<1>4. k + 1 \in 1 .. MaxEdits
  BY <1>1, BoundAssumption
<1>5. Shared!Save(c)
  BY <1>1, <1>2, <1>3, <1>4, SharedNames DEF Shared!Save
<1> QED BY <1>5 DEF Shared!Next

LEMMA StepShared ==
    ASSUME IInv, [Next]_vars
    PROVE  [Shared!Next]_<<main, made>>
<1>0. Shapes
  BY TypeParts DEF IInv
<1>1. ASSUME NEW t \in 1 .. txs, Landing(t) PROVE Shared!Next
  BY <1>0, <1>1, LandingPublishes
<1>2. ASSUME Next, main' = main PROVE Shared!Next \/ UNCHANGED <<main, made>>
  <2>1. ASSUME NEW s \in Session, Effects(s) PROVE Shared!Next \/ UNCHANGED <<main, made>>
    BY <1>2, <2>1, OnlySave, SaveSaves
  <2>2. CASE LeaseEnds \/ LatePush
    BY <1>2, <2>2 DEF LeaseEnds, LatePush, history
  <2> QED BY <1>2, <2>1, <2>2 DEF Next, Effects
<1>3. CASE UNCHANGED vars
  BY <1>3 DEF vars, shared, history
<1> QED BY <1>1, <1>2, <1>3, MainStep

(* MAIN is one line of versions: every publication, also one that arrives    *)
(* after its session gave it up, adds one whole transaction to the newest    *)
(* version, once, and nothing is ever taken out.                             *)
THEOREM OneHistoryKept == Spec => OneHistory
<1>1. Init => Shared!Init
  BY DEF Init, Shared!Init
<1>2. IInv /\ [Next]_vars => [Shared!Next]_<<main, made>>
  BY StepShared
<1> QED BY <1>1, <1>2, Invariance, PTL DEF Spec, OneHistory, Shared!Spec
=============================================================================
