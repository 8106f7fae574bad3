-------------------------- MODULE MutationGateProofs --------------------------
(***************************************************************************)
(* Proofs about MutationGate, for any threads, connections and bounds.     *)
(***************************************************************************)
EXTENDS MutationGate, TLAPS

USE ThreadAssumption, BoundAssumption

-----------------------------------------------------------------------------
(* The inductive invariant.                                                 *)

(* Whatever was observed ends no later than the lease that is known now,    *)
(* and while the gate is open that lease is ours until it ends.             *)
Evidence ==
    /\ lease.ends <= now + Lease
    /\ gate.deadline <= lease.ends
    /\ gate.queued.ends <= lease.ends
    /\ \A o \in Observer : obs[o].ends <= lease.ends
    /\ IsOpen(gate) /\ leaving # "landed" /\ now < lease.ends => lease.ours

(* The lock of the gate is held by the connection that works. *)
Locking ==
    \A h \in Handle :
        /\ handle[h].stage # "free" => locker = h
        /\ handle[h].permits \in {0, handle[h].bound}

(* A session that was told of its loss is not open, or has it latched. *)
Told ==
    /\ \A i \in doomed : i <= gate.incarnation
    /\ gate.incarnation \in doomed /\ IsOpen(gate) => gate.failure

Sessions ==
    /\ tx = "IDLE" => gate.closed
    /\ gate.incarnation = 0 => gate.closed /\ ~gate.lost /\ ui # "opening"
    /\ ui = "leaving" => gate.closed

(* Once the interface thread finishes the other connections are idle. *)
Finishing ==
    ui \in {"checking", "assigning", "saving"} =>
        /\ gate.finisher
        /\ \A h \in Handle \ {Saver} : handle[h].stage = "free"

IInv ==
    /\ TypeOK /\ Evidence /\ Locking /\ Told /\ Sessions /\ Finishing
    /\ CommitsInItsSession /\ InstallIsAlone

-----------------------------------------------------------------------------
(* What the gate may become under its lock, without being opened anew.      *)

Narrows(g, f) ==
    /\ f \in Gate
    /\ f.closed = g.closed /\ f.incarnation = g.incarnation /\ f.finisher = g.finisher
    /\ g.lost => f.lost
    /\ f.lost /\ ~g.lost => IsOpen(g)
    /\ IsOpen(f) => f.failure = g.failure
    /\ f.deadline <= lease.ends
    /\ f.queued.ends <= lease.ends

Bounded(g) == g \in Gate /\ g.deadline <= lease.ends /\ g.queued.ends <= lease.ends

LEMMA NarrowsTransitive ==
    ASSUME NEW g, NEW f, NEW e, Narrows(g, f), Narrows(f, e)
    PROVE  Narrows(g, e)
BY DEF Narrows, IsOpen

LEMMA NarrowsBounded ==
    ASSUME NEW g, NEW f, Narrows(g, f)
    PROVE  Bounded(f)
BY DEF Narrows, Bounded

LEMMA DeadType ==
    ASSUME NEW g \in Gate, lease.ends \in Nat
    PROVE  /\ Dead(g) \in Gate
           /\ Dead(g).deadline = 0 /\ Dead(g).queued.ends = 0
           /\ Dead(g).closed = g.closed /\ Dead(g).lost = g.lost
           /\ Dead(g).incarnation = g.incarnation /\ Dead(g).finisher = g.finisher
           /\ Dead(g).failure = FALSE
<1>1. /\ 0 \in End /\ 0 \in Time
      /\ NoObservation \in [inc : Incarnation, started : Time, ends : End]
      /\ NoObservation.ends = 0
  BY DEF NoObservation, Incarnation, Time, End
<1> DEFINE a == [g EXCEPT !.deadline = 0]
           b == [a EXCEPT !.latest = 0]
           c == [b EXCEPT !.failure = FALSE]
           d == [c EXCEPT !.queued = NoObservation]
<1>2. /\ a \in Gate /\ a.deadline = 0
      /\ a.closed = g.closed /\ a.lost = g.lost
      /\ a.incarnation = g.incarnation /\ a.finisher = g.finisher
  BY <1>1 DEF Gate
<1> HIDE DEF a
<1>3. /\ b \in Gate /\ b.deadline = a.deadline
      /\ b.closed = a.closed /\ b.lost = a.lost
      /\ b.incarnation = a.incarnation /\ b.finisher = a.finisher
  BY <1>1, <1>2 DEF Gate
<1> HIDE DEF b
<1>4. /\ c \in Gate /\ c.deadline = b.deadline /\ c.failure = FALSE
      /\ c.closed = b.closed /\ c.lost = b.lost
      /\ c.incarnation = b.incarnation /\ c.finisher = b.finisher
  BY <1>3 DEF Gate
<1> HIDE DEF c
<1>5. /\ d \in Gate /\ d.deadline = c.deadline /\ d.failure = c.failure
      /\ d.queued = NoObservation
      /\ d.closed = c.closed /\ d.lost = c.lost
      /\ d.incarnation = c.incarnation /\ d.finisher = c.finisher
  BY <1>1, <1>4 DEF Gate
<1>6. Dead(g) = d  BY DEF Dead, a, b, c, d
<1> QED  BY <1>1, <1>2, <1>3, <1>4, <1>5, <1>6

LEMMA LostNarrows ==
    ASSUME NEW g, Bounded(g), lease.ends \in Nat
    PROVE  Narrows(g, Lost(g)) /\ ~IsOpen(Lost(g))
<1>1. g \in Gate  BY DEF Bounded
<1>2. CASE IsOpen(g)
  <2>1. Lost(g) = [Dead(g) EXCEPT !.lost = TRUE]  BY <1>2 DEF Lost
  <2>2. Dead(g) \in Gate  BY <1>1, DeadType
  <2> DEFINE e == Dead(g)
  <2> HIDE DEF e
  <2>3. /\ [e EXCEPT !.lost = TRUE] \in Gate
        /\ [e EXCEPT !.lost = TRUE].lost
        /\ [e EXCEPT !.lost = TRUE].deadline = e.deadline
        /\ [e EXCEPT !.lost = TRUE].queued = e.queued
        /\ [e EXCEPT !.lost = TRUE].closed = e.closed
        /\ [e EXCEPT !.lost = TRUE].incarnation = e.incarnation
        /\ [e EXCEPT !.lost = TRUE].finisher = e.finisher
    BY <2>2 DEF Gate, e
  <2>4. /\ Lost(g) \in Gate /\ Lost(g).lost
        /\ Lost(g).deadline = 0 /\ Lost(g).queued.ends = 0
        /\ Lost(g).closed = g.closed /\ Lost(g).incarnation = g.incarnation
        /\ Lost(g).finisher = g.finisher
    BY <1>1, <2>1, <2>3, DeadType DEF e
  <2> QED  BY <1>2, <2>4 DEF Narrows, IsOpen
<1>3. CASE ~IsOpen(g)
  <2>1. Lost(g) = g  BY <1>3 DEF Lost
  <2> QED  BY <1>1, <1>3, <2>1 DEF Narrows, Bounded, IsOpen
<1> QED  BY <1>2, <1>3

LEMMA AcceptNarrows ==
    ASSUME NEW g, Bounded(g), lease.ends \in Nat, now \in Time,
           NEW o, o.started \in Time, o.ends \in End, o.ends <= lease.ends
    PROVE  Narrows(g, Accept(g, o))
<1>1. CASE ~IsOpen(g) \/ o.started < g.latest
  BY <1>1 DEF Accept, Narrows, Bounded
<1>2. CASE IsOpen(g) /\ ~(o.started < g.latest) /\ now >= o.ends
  BY <1>2, LostNarrows DEF Accept
<1>3. CASE IsOpen(g) /\ ~(o.started < g.latest) /\ ~(now >= o.ends)
  <2> DEFINE d == IF o.started + Lease < o.ends THEN o.started + Lease ELSE o.ends
  <2>1. Accept(g, o) = [g EXCEPT !.latest = o.started, !.deadline = d]
    BY <1>3 DEF Accept
  <2>2. d \in End /\ d <= lease.ends  BY DEF End, Time
  <2> HIDE DEF d
  <2>3. g \in Gate  BY DEF Bounded
  <2> QED  BY <1>3, <2>1, <2>2, <2>3 DEF Narrows, Bounded, Gate, IsOpen
<1> QED  BY <1>1, <1>2, <1>3

LEMMA SettledNarrows ==
    ASSUME NEW g, Bounded(g), lease.ends \in Nat, now \in Time
    PROVE  Narrows(g, Settled(g)) /\ (g.failure => ~IsOpen(Settled(g)))
<1> DEFINE f == IF g.failure THEN Lost(g) ELSE g
           q == [f EXCEPT !.queued = NoObservation]
<1>1. Narrows(g, f) /\ (g.failure => ~IsOpen(f))
  <2>1. CASE g.failure  BY <2>1, LostNarrows
  <2>2. CASE ~g.failure  BY <2>2 DEF Narrows, Bounded
  <2> QED  BY <2>1, <2>2
<1>2. f \in Gate  BY <1>1 DEF Narrows
<1> HIDE DEF f
<1>3. Narrows(f, q) /\ (IsOpen(q) => IsOpen(f))
  <2>1. /\ q \in Gate /\ q.queued.ends = 0 /\ q.closed = f.closed /\ q.lost = f.lost
        /\ q.incarnation = f.incarnation /\ q.finisher = f.finisher
        /\ q.failure = f.failure /\ q.deadline = f.deadline
    BY <1>2 DEF Gate, NoObservation, Incarnation, Time, End
  <2> QED  BY <1>1, <2>1 DEF Narrows, IsOpen
<1>4. Bounded(q)  BY <1>3, NarrowsBounded
<1>5. Narrows(g, q) /\ (g.failure => ~IsOpen(q))  BY <1>1, <1>3, NarrowsTransitive
<1> HIDE DEF q
<1>6. Settled(g) = IF g.queued # NoObservation /\ g.queued.inc = g.incarnation
                   THEN Accept(q, g.queued) ELSE q
  BY DEF Settled, f, q
<1>7. Narrows(q, Accept(q, g.queued))
  <2>1. g.queued.started \in Time /\ g.queued.ends \in End /\ g.queued.ends <= lease.ends
    BY DEF Bounded, Gate
  <2> QED  BY <1>4, <2>1, AcceptNarrows
<1>8. ~IsOpen(q) => Accept(q, g.queued) = q  BY DEF Accept
<1> QED  BY <1>5, <1>6, <1>7, <1>8, NarrowsTransitive

(* What a statement or a commit leaves of the gate; if it is open the       *)
(* handle was admitted, in time, by a session that was not told of a loss.  *)
LEMMA RequiredNarrows ==
    ASSUME NEW h, Bounded(gate), lease.ends \in Nat, now \in Time
    PROVE  /\ Narrows(gate, Required(h))
           /\ IsOpen(Required(h)) => Allowed(h) /\ ~gate.failure /\ IsOpen(gate)
<1> DEFINE g == Settled(gate)
<1>1. Narrows(gate, g) /\ (gate.failure => ~IsOpen(g))  BY SettledNarrows
<1>2. Bounded(g)  BY <1>1, NarrowsBounded
<1>3. Narrows(g, Lost(g)) /\ ~IsOpen(Lost(g))  BY <1>2, LostNarrows
<1>4. Required(h) = IF Allowed(h) /\ now < g.deadline /\ ~marked THEN g ELSE Lost(g)
  BY DEF Required
<1>5. IsOpen(g) => IsOpen(gate)  BY <1>1 DEF Narrows, IsOpen
<1> QED  BY <1>1, <1>3, <1>4, <1>5, NarrowsTransitive

-----------------------------------------------------------------------------
(* The invariant is inductive.                                              *)

LEMMA NumberFacts ==
    ASSUME TypeOK
    PROVE  /\ lease.ends \in Nat /\ now \in Nat /\ now \in Time /\ lease.ends \in End
           /\ gate.incarnation \in Nat /\ gate.incarnation <= MaxOpen
BY DEF TypeOK, Time, End, Gate, Incarnation

LEMMA GateBounded ==
    ASSUME IInv
    PROVE  Bounded(gate)
BY DEF IInv, TypeOK, Evidence, Bounded

(* What holds after a step that leaves the gate narrower. *)
Kept ==
    /\ gate' \in Gate /\ tx' \in State /\ marked' \in BOOLEAN
    /\ doomed' \subseteq 1 .. MaxOpen
    /\ gate'.deadline <= lease.ends /\ gate'.queued.ends <= lease.ends
    /\ gate'.closed = gate.closed
    /\ gate'.incarnation = gate.incarnation
    /\ gate'.finisher = gate.finisher
    /\ IsOpen(gate') => IsOpen(gate)
    /\ Told' /\ Sessions'

LEMMA BecomeKeeps ==
    ASSUME IInv, NEW f, Narrows(gate, f), Become(f), ui' = ui
    PROVE  Kept
<1>1. gate' = f /\ f \in Gate /\ gate \in Gate  BY DEF Become, Narrows, IInv, TypeOK
<1>2. /\ f.closed = gate.closed /\ f.incarnation = gate.incarnation
      /\ f.finisher = gate.finisher
      /\ IsOpen(f) => IsOpen(gate) /\ f.failure = gate.failure
      /\ f.deadline <= lease.ends /\ f.queued.ends <= lease.ends
  BY DEF Narrows, IsOpen
<1>3. CASE f.lost /\ ~gate.lost
  <2>1. IsOpen(gate)  BY <1>3 DEF Narrows
  <2>2. gate.incarnation # 0  BY <2>1 DEF IInv, Sessions, IsOpen
  <2>3. gate.incarnation \in 1 .. MaxOpen  BY <2>2, NumberFacts DEF IInv
  <2>4. /\ tx' = "RECOVERY_REQUIRED" /\ marked' = TRUE
        /\ doomed' = doomed \cup {gate.incarnation}
    BY <1>2, <1>3 DEF Become
  <2>5. Told'  BY <1>1, <1>2, <1>3, <2>3, <2>4 DEF Told, IInv, IsOpen
  <2>6. Sessions'  BY <1>1, <1>2, <2>2, <2>4 DEF Sessions, IInv
  <2> QED  BY <1>1, <1>2, <2>3, <2>4, <2>5, <2>6 DEF Kept, IInv, TypeOK, State
<1>4. CASE ~(f.lost /\ ~gate.lost)
  <2>1. UNCHANGED <<tx, marked, doomed>>  BY <1>4 DEF Become
  <2>2. Told'  BY <1>1, <1>2, <2>1 DEF Told, IInv
  <2>3. Sessions'  BY <1>1, <1>2, <1>4, <2>1 DEF Sessions, IInv
  <2> QED  BY <1>1, <1>2, <2>1, <2>2, <2>3 DEF Kept, IInv, TypeOK
<1> QED  BY <1>3, <1>4

LEMMA InitIInv == Init => IInv
<1> SUFFICES ASSUME Init PROVE IInv  OBVIOUS
<1>1. /\ 0 \in End /\ 0 \in Time /\ 0 \in Incarnation /\ 0 <= Lease
  BY DEF End, Time, Incarnation
<1>2. gate \in Gate  BY <1>1 DEF Init, Gate, NoObservation
<1>3. obs \in [Observer -> Observation]  BY <1>1 DEF Init, Observation, Idle
<1>4. handle \in [Handle -> Connection]  BY <1>1 DEF Init, Connection, Fresh
<1>5. TypeOK  BY <1>1, <1>2, <1>3, <1>4 DEF Init, TypeOK, State
<1>6. Evidence  BY <1>1 DEF Init, Evidence, NoObservation, Idle, IsOpen
<1>7. Locking  BY DEF Init, Locking, Fresh
<1>8. CommitsInItsSession /\ InstallIsAlone
  BY DEF Init, CommitsInItsSession, InstallIsAlone, Fresh
<1>9. Told /\ Sessions /\ Finishing  BY DEF Init, Told, Sessions, Finishing
<1> QED  BY <1>5, <1>6, <1>7, <1>8, <1>9 DEF IInv

(* Steps of the remote lock and of the clock. *)
LEMMA RemoteStep ==
    ASSUME IInv, Tick \/ Grant \/ Renewed \/ TakenOver \/ HandoffFails \/ DeletionLands
    PROVE  IInv'
<1> USE DEF IInv
<1>1. gate' = gate /\ tx' = tx /\ marked' = marked /\ locker' = locker /\ obs' = obs
      /\ handle' = handle /\ ui' = ui /\ doomed' = doomed
  BY DEF Tick, Grant, Renewed, TakenOver, HandoffFails, DeletionLands
<1>2. /\ Locking' /\ Told' /\ Sessions' /\ Finishing'
      /\ CommitsInItsSession' /\ InstallIsAlone'
  BY <1>1 DEF Locking, Told, Sessions, Finishing, CommitsInItsSession, InstallIsAlone
<1>3. /\ lease \in [ours : BOOLEAN, ends : End] /\ now \in Time /\ lease.ends \in End
      /\ lease.ends <= now + Lease
  BY DEF TypeOK, Evidence
<1>4. tx = "IDLE" => ~IsOpen(gate)  BY DEF Sessions, IsOpen
<1>5. /\ gate.deadline \in Nat /\ gate.queued.ends \in Nat
      /\ \A o \in Observer : obs[o].ends \in Nat
  BY DEF TypeOK, Gate, Observation, End
<1>6. ASSUME lease' \in [ours : BOOLEAN, ends : End], now' \in Time,
             leaving' \in {"no", "flying", "landed"},
             lease'.ends <= now' + Lease, lease.ends <= lease'.ends,
             IsOpen(gate) /\ leaving' # "landed" /\ now' < lease'.ends => lease'.ours
      PROVE  TypeOK' /\ Evidence'
  <2>1. TypeOK'  BY <1>1, <1>6 DEF TypeOK
  <2>2. Evidence'  BY <1>1, <1>3, <1>5, <1>6 DEF Evidence, End
  <2> QED  BY <2>1, <2>2
<1> DEFINE given == [lease EXCEPT !.ours = FALSE]
<1>20. /\ given \in [ours : BOOLEAN, ends : End] /\ given.ours = FALSE
       /\ given.ends = lease.ends
       /\ lease.ends <= lease.ends /\ leaving \in {"no", "flying", "landed"}
  <2>1. given \in [ours : BOOLEAN, ends : End] /\ given.ours = FALSE
    BY <1>3
  <2>2. given.ends = lease.ends  BY <1>3
  <2>3. lease.ends <= lease.ends  BY <1>3 DEF End
  <2> QED  BY <2>1, <2>2, <2>3 DEF TypeOK
<1> HIDE DEF given
<1>7. CASE Tick
  <2>1. now' \in Time /\ now' = now + 1 /\ UNCHANGED <<lease, leaving>>
    BY <1>3, <1>7 DEF Tick, Time, remote
  <2> QED  BY <1>2, <1>3, <1>6, <2>1 DEF Evidence, TypeOK, Time, End
<1>8. CASE Grant
  BY <1>2, <1>3, <1>6, <1>8 DEF Grant, Time, End
<1>9. CASE Renewed
  <2>1. PICK e \in lease.ends .. now + Lease : lease' = [lease EXCEPT !.ends = e]
    BY <1>9 DEF Renewed
  <2> QED  BY <1>2, <1>3, <1>6, <1>9, <2>1 DEF Renewed, Time, End
<1>10. CASE TakenOver
  <2>1. /\ lease' = given /\ ~(now < lease.ends)
        /\ leaving' = leaving /\ now' = now
    BY <1>3, <1>10 DEF TakenOver, given, Time, End
  <2> QED  BY <1>2, <1>3, <1>6, <1>20, <2>1
<1>11. CASE HandoffFails
  <2>1. tx = "IDLE" /\ now' = now  BY <1>11 DEF HandoffFails
  <2>2. \/ lease' = given /\ leaving' = leaving
        \/ leaving' = "flying" /\ lease' = lease
    BY <1>11 DEF HandoffFails, given
  <2>3. CASE lease' = given /\ leaving' = leaving
    BY <1>2, <1>3, <1>4, <1>6, <1>20, <2>1, <2>3
  <2>4. CASE leaving' = "flying" /\ lease' = lease
    BY <1>2, <1>3, <1>4, <1>6, <1>20, <2>1, <2>4
  <2> QED  BY <2>2, <2>3, <2>4
<1>12. CASE DeletionLands
  <2>1. lease' = given /\ leaving' = "landed" /\ now' = now
    BY <1>12 DEF DeletionLands, given
  <2> QED  BY <1>2, <1>3, <1>6, <1>20, <2>1
<1> QED  BY <1>7, <1>8, <1>9, <1>10, <1>11, <1>12


LEMMA ObserverSteps ==
    ASSUME IInv, NEW o \in Observer, Observe(o)
    PROVE  IInv'
<1> USE DEF IInv
<1>1. /\ UNCHANGED <<now, lease, leaving, locker, handle, ui>>
  BY DEF Observe, Ask, Answer, DeliverLate, DeliverGood, DeliverBusy, DeliverBad, Latch,
         Lose, remote
<1>2. /\ 0 \in Time /\ 0 \in End /\ now \in Time /\ lease.ends \in End /\ 0 <= lease.ends
      /\ obs[o] \in Observation /\ obs[o].ends <= lease.ends /\ lease.ends <= lease.ends
      /\ gate \in Gate /\ lease.ours \in BOOLEAN /\ lease.ends \in Nat
  BY DEF TypeOK, Evidence, Time, End
<1>3. Locking'  BY <1>1 DEF Locking
(* An observation that stays typed and no better than the lease. *)
<1>4. ASSUME NEW e \in Observation, e.ends <= lease.ends, obs' = [obs EXCEPT ![o] = e]
      PROVE  /\ obs' \in [Observer -> Observation]
             /\ \A x \in Observer : obs'[x].ends <= lease.ends
  BY <1>4 DEF TypeOK, Evidence
<1>5. Idle \in Observation /\ Idle.ends <= lease.ends  BY <1>2 DEF Idle, Observation
<1>6. ASSUME obs' \in [Observer -> Observation],
             \A x \in Observer : obs'[x].ends <= lease.ends,
             UNCHANGED <<gate, tx, marked, doomed>>
      PROVE  IInv'
  <2>1. TypeOK'  BY <1>1, <1>6 DEF TypeOK
  <2>2. Evidence'  BY <1>1, <1>6 DEF Evidence
  <2>3. Told' /\ Sessions' /\ Finishing' /\ CommitsInItsSession' /\ InstallIsAlone'
    BY <1>1, <1>6 DEF Told, Sessions, Finishing, CommitsInItsSession, InstallIsAlone
  <2> QED  BY <1>3, <2>1, <2>2, <2>3
<1>7. ASSUME NEW f, Narrows(gate, f), Become(f), Done(o), Unlocked
      PROVE  IInv'
  <2>1. Kept  BY <1>1, <1>7, BecomeKeeps
  <2>2. /\ obs' \in [Observer -> Observation]
        /\ \A x \in Observer : obs'[x].ends <= lease.ends
    BY <1>4, <1>5, <1>7 DEF Done
  <2>3. TypeOK'  BY <1>1, <2>1, <2>2 DEF TypeOK, Kept
  <2>4. Evidence'  BY <1>1, <2>1, <2>2 DEF Evidence, Kept
  <2>5. CommitsInItsSession'
    BY <1>1, <1>7 DEF CommitsInItsSession, Locking, Unlocked
  <2>6. InstallIsAlone'  BY <1>1, <1>7 DEF InstallIsAlone, Unlocked, Install, None
  <2>7. Finishing'  BY <1>1, <2>1 DEF Finishing, Kept
  <2> QED  BY <1>3, <2>1, <2>3, <2>4, <2>5, <2>6, <2>7 DEF Kept
<1>8. CASE Ask(o)
  <2>1. PICK m \in {FALSE, Renews /\ MutexFree} :
          obs' = [obs EXCEPT ![o] = [Idle EXCEPT !.stage = "asked", !.started = now,
                                                 !.mutex = m]]
    BY <1>8 DEF Ask
  <2> DEFINE e == [Idle EXCEPT !.stage = "asked", !.started = now, !.mutex = m]
  <2>2. m \in BOOLEAN  OBVIOUS
  <2>3. e \in Observation /\ e.ends <= lease.ends
    BY <1>2, <2>2 DEF Idle, Observation
  <2>4. obs' = [obs EXCEPT ![o] = e]  BY <2>1
  <2> HIDE DEF e
  <2> QED  BY <1>4, <1>6, <1>8, <2>3, <2>4 DEF Ask
<1>9. CASE Answer(o)
  <2> DEFINE e == [obs[o] EXCEPT !.stage = "answered", !.ours = TRUE, !.ends = lease.ends]
             f == [Idle EXCEPT !.stage = "answered", !.mutex = obs[o].mutex]
  <2>1. obs' = [obs EXCEPT ![o] = e] \/ obs' = [obs EXCEPT ![o] = f]
    BY <1>2, <1>9 DEF Answer, TypeOK
  <2>2. e \in Observation /\ e.ends <= lease.ends  BY <1>2 DEF Observation
  <2>3. f \in Observation /\ f.ends <= lease.ends  BY <1>2 DEF Idle, Observation
  <2>4. UNCHANGED <<gate, tx, marked, doomed>>  BY <1>9 DEF Answer
  <2> HIDE DEF e, f
  <2> QED  BY <1>4, <1>6, <2>1, <2>2, <2>3, <2>4
<1>10. CASE DeliverLate(o)
  BY <1>4, <1>5, <1>6, <1>10 DEF DeliverLate, Done
<1>11. CASE DeliverGood(o)
  <2>1. Narrows(gate, Accept(gate, obs[o]))
    BY <1>2, GateBounded, AcceptNarrows DEF Observation
  <2> QED  BY <1>7, <1>11, <2>1 DEF DeliverGood
<1>12. CASE DeliverBusy(o)
  <2> DEFINE r == [inc |-> gate.incarnation, started |-> obs[o].started, ends |-> obs[o].ends]
             g == [gate EXCEPT !.queued = r]
  <2>1. r \in [inc : Incarnation, started : Time, ends : End] /\ r.ends <= lease.ends
    BY <1>2 DEF Observation, Gate
  <2> HIDE DEF r
  <2>2. /\ g \in Gate /\ g.queued = r /\ g.deadline = gate.deadline
        /\ g.closed = gate.closed /\ g.lost = gate.lost /\ g.failure = gate.failure
        /\ g.incarnation = gate.incarnation /\ g.finisher = gate.finisher
    BY <1>2, <2>1 DEF Gate
  <2> HIDE DEF g
  <2>3. gate' = g \/ gate' = gate  BY <1>12 DEF DeliverBusy, g, r
  <2>4. /\ gate' \in Gate /\ gate'.queued.ends <= lease.ends
        /\ gate'.deadline = gate.deadline
        /\ gate'.closed = gate.closed /\ gate'.lost = gate.lost
        /\ gate'.failure = gate.failure /\ gate'.incarnation = gate.incarnation
        /\ gate'.finisher = gate.finisher
    BY <1>2, <2>1, <2>2, <2>3 DEF Evidence
  <2>5. /\ obs' \in [Observer -> Observation]
        /\ \A x \in Observer : obs'[x].ends <= lease.ends
        /\ UNCHANGED <<tx, marked, doomed>>
    BY <1>4, <1>5, <1>12 DEF DeliverBusy, Done
  <2>6. TypeOK'  BY <1>1, <2>4, <2>5 DEF TypeOK
  <2>7. Evidence'  BY <1>1, <2>4, <2>5 DEF Evidence, IsOpen
  <2>8. Told' /\ Sessions' /\ Finishing' /\ CommitsInItsSession' /\ InstallIsAlone'
    BY <1>1, <2>4, <2>5
    DEF Told, Sessions, Finishing, CommitsInItsSession, InstallIsAlone, IsOpen
  <2> QED  BY <1>3, <2>6, <2>7, <2>8
<1>13. CASE DeliverBad(o)
  <2> DEFINE e == [Idle EXCEPT !.stage = "condemned", !.mutex = obs[o].mutex]
  <2>1. e \in Observation /\ e.ends <= lease.ends  BY <1>2 DEF Idle, Observation
  <2>2. obs' = [obs EXCEPT ![o] = e]  BY <1>13 DEF DeliverBad
  <2> HIDE DEF e
  <2> QED  BY <1>4, <1>6, <1>13, <2>1, <2>2 DEF DeliverBad
<1>14. CASE Latch(o)
  <2> DEFINE e == [obs[o] EXCEPT !.stage = "losing"]
             g == [gate EXCEPT !.failure = TRUE]
  <2>1. e \in Observation /\ e.ends <= lease.ends  BY <1>2 DEF Observation
  <2>2. /\ obs' \in [Observer -> Observation]
        /\ \A x \in Observer : obs'[x].ends <= lease.ends
    <3>1. obs' = [obs EXCEPT ![o] = e]  BY <1>14 DEF Latch
    <3> QED  BY <1>4, <2>1, <3>1
  <2>3. UNCHANGED <<tx, marked>>  BY <1>14 DEF Latch
  <2>4. CASE ~IsOpen(gate)
    BY <1>6, <1>14, <2>2, <2>3, <2>4 DEF Latch
  <2>5. CASE IsOpen(gate)
    <3>1. /\ g \in Gate /\ g.queued = gate.queued /\ g.deadline = gate.deadline
          /\ g.closed = gate.closed /\ g.lost = gate.lost /\ g.failure = TRUE
          /\ g.incarnation = gate.incarnation /\ g.finisher = gate.finisher
      BY <1>2 DEF Gate
    <3> HIDE DEF g
    <3>2. gate' = g /\ doomed' = doomed \cup {gate.incarnation}
      BY <1>14, <2>5 DEF Latch, g
    <3>3. gate.incarnation \in 1 .. MaxOpen
      BY <2>5, NumberFacts DEF Sessions, IsOpen
    <3>4. TypeOK'  BY <1>1, <2>2, <2>3, <3>1, <3>2, <3>3 DEF TypeOK
    <3>5. Evidence'  BY <1>1, <2>2, <3>1, <3>2 DEF Evidence, IsOpen
    <3>6. Told'  BY <3>1, <3>2, <3>3 DEF Told
    <3>7. Sessions' /\ Finishing' /\ CommitsInItsSession' /\ InstallIsAlone'
      BY <1>1, <2>3, <3>1, <3>2
      DEF Sessions, Finishing, CommitsInItsSession, InstallIsAlone, IsOpen
    <3> QED  BY <1>3, <3>4, <3>5, <3>6, <3>7
  <2> QED  BY <2>4, <2>5
<1>15. CASE Lose(o)
  <2>1. Narrows(gate, Lost(gate))  BY <1>2, GateBounded, LostNarrows
  <2> QED  BY <1>7, <1>15, <2>1 DEF Lose
<1> QED  BY <1>8, <1>9, <1>10, <1>11, <1>12, <1>13, <1>14, <1>15 DEF Observe

(* While nobody holds the lock no connection works. *)
LEMMA AllFree ==
    ASSUME IInv, Unlocked
    PROVE  \A h \in Handle : handle[h].stage = "free"
BY DEF IInv, Locking, Unlocked

LEMMA ConnectionSteps ==
    ASSUME IInv, NEW h \in Handle, Use(h)
    PROVE  IInv'
<1> USE DEF IInv
<1>1. UNCHANGED <<now, lease, leaving, obs, ui>>
  BY DEF Use, Execute, Executed, IntentFails, Fetch, Commit, Committed, Rollback, remote
<1>2. /\ handle \in [Handle -> Connection] /\ handle[h] \in Connection
      /\ handle[h].permits \in {0, handle[h].bound}
      /\ 0 \in Incarnation /\ gate.incarnation \in Incarnation
      /\ h # None /\ h # Install /\ None # Install
      /\ now \in Time /\ lease.ends \in Nat
  BY NumberFacts DEF TypeOK, Locking, Gate, Incarnation, None, Install
<1>3. Narrows(gate, Required(h)) /\ Narrows(gate, Lost(gate))
  BY <1>2, GateBounded, RequiredNarrows, LostNarrows
(* A step that leaves the gate narrower and the connections as they were,   *)
(* but for h.                                                               *)
<1>4. ASSUME Kept, handle' \in [Handle -> Connection],
             locker' \in Handle \cup {None, Install},
             locker' = Install => locker = Install,
             \/ handle'[h].stage = "free" \/ handle'[h].stage = handle[h].stage
             \/ IsOpen(Required(h)),
             \A x \in Handle : x # h => handle'[x].stage = handle[x].stage,
             Locking', CommitsInItsSession'
      PROVE  IInv'
  <2>1. TypeOK'  BY <1>1, <1>4 DEF TypeOK, Kept
  <2>2. Evidence'  BY <1>1, <1>4 DEF Evidence, Kept
  <2>3. InstallIsAlone'  BY <1>4 DEF InstallIsAlone, Kept
  <2>4. IsOpen(Required(h)) => Allowed(h)  BY <1>2, GateBounded, RequiredNarrows
  <2>5. gate.finisher /\ IsOpen(Required(h)) => h = Saver  BY <2>4 DEF Allowed
  <2>6. Finishing'  BY <1>1, <1>4, <2>5 DEF Finishing, Kept
  <2> QED  BY <1>4, <2>1, <2>2, <2>3, <2>6 DEF Kept
<1>5. ASSUME UNCHANGED <<gate, tx, marked, doomed>>
      PROVE  Kept
  BY <1>1, <1>5 DEF Kept, Told, Sessions, TypeOK, Evidence
<1>6. ASSUME NEW c \in Connection, handle' = [handle EXCEPT ![h] = c],
             c.permits \in {0, c.bound}, c.stage = "free",
             locker' = None, Unlocked \/ locker = h
      PROVE  /\ handle' \in [Handle -> Connection] /\ Locking' /\ CommitsInItsSession'
             /\ handle'[h].stage = "free"
             /\ \A x \in Handle : x # h => handle'[x].stage = handle[x].stage
  <2>1. \A x \in Handle : x # h => handle[x].stage = "free"
    BY <1>2, <1>6 DEF Locking, Unlocked
  <2>2. \A x \in Handle : handle'[x].stage = "free" /\ handle'[x].permits \in {0, handle'[x].bound}
    BY <1>2, <1>6, <2>1 DEF Locking
  <2> QED  BY <1>2, <1>6, <2>2 DEF Locking, CommitsInItsSession
<1>7. CASE Execute(h) /\ MayRun(h, Required(h))
  <2> DEFINE g == Required(h)
             c == [stage |-> "running", permits |-> g.incarnation, bound |-> g.incarnation]
  <2>1. /\ Unlocked /\ Become(g) /\ locker' = h
        /\ handle' = [handle EXCEPT ![h] = c]
    BY <1>7 DEF Execute
  <2>2. Kept  BY <1>1, <1>3, <2>1, BecomeKeeps
  <2>3. c \in Connection /\ c.permits = c.bound /\ c.stage = "running"
    BY <1>2, <1>3 DEF Narrows, Connection
  <2> HIDE DEF c, g
  <2>4. \A x \in Handle : handle[x].stage = "free"  BY <2>1, AllFree
  <2>5. handle' \in [Handle -> Connection] /\ Locking' /\ CommitsInItsSession'
    BY <1>2, <2>1, <2>3, <2>4 DEF Locking, CommitsInItsSession
  <2>6. IsOpen(Required(h))  BY <1>7 DEF MayRun
  <2>7. \A x \in Handle : x # h => handle'[x].stage = handle[x].stage  BY <2>1
  <2> QED  BY <1>2, <1>4, <2>1, <2>2, <2>5, <2>6, <2>7
<1>8. CASE Commit(h) /\ MayCommit(h, Required(h))
  <2> DEFINE g == Required(h)
             c == [handle[h] EXCEPT !.stage = "committing"]
  <2>1. /\ Unlocked /\ Become(g) /\ locker' = h /\ handle[h].permits # 0
        /\ handle' = [handle EXCEPT ![h] = c]
        /\ IsOpen(g) /\ handle[h].permits = g.incarnation /\ gate' = g
    BY <1>8 DEF Commit, MayCommit, Become
  <2>2. Kept  BY <1>1, <1>3, <2>1, BecomeKeeps
  <2>3. /\ c \in Connection /\ c.stage = "committing"
        /\ c.permits = handle[h].permits /\ c.bound = handle[h].bound
    BY <1>2 DEF Connection
  <2> HIDE DEF c, g
  <2>4. \A x \in Handle : handle[x].stage = "free"  BY <2>1, AllFree
  <2>5. c.permits = g.incarnation /\ c.bound = g.incarnation  BY <1>2, <2>1, <2>3
  <2>6. handle' \in [Handle -> Connection] /\ Locking'
    BY <1>2, <2>1, <2>3, <2>4, <2>5 DEF Locking
  <2>7. CommitsInItsSession'
    BY <1>2, <2>1, <2>4, <2>5 DEF CommitsInItsSession
  <2>8. IsOpen(Required(h))  BY <1>8 DEF MayCommit
  <2>9. \A x \in Handle : x # h => handle'[x].stage = handle[x].stage  BY <2>1
  <2> QED  BY <1>2, <1>4, <2>1, <2>2, <2>6, <2>7, <2>8, <2>9
<1>9. CASE /\ Execute(h) \/ Commit(h) \/ Fetch(h)
           /\ Unlocked /\ Become(Required(h)) /\ UNCHANGED <<handle, locker>>
  <2>1. Kept  BY <1>1, <1>3, <1>9, BecomeKeeps
  <2>2. \A x \in Handle : handle[x].stage = "free"  BY <1>9, AllFree
  <2>3. Locking' /\ CommitsInItsSession'
    BY <1>9, <2>2 DEF Locking, CommitsInItsSession
  <2> QED  BY <1>2, <1>4, <1>9, <2>1, <2>3 DEF TypeOK
<1>10. CASE Executed(h)
  <2> DEFINE c == [handle[h] EXCEPT !.stage = "free"]
  <2>1. /\ c \in Connection /\ c.stage = "free"
        /\ c.permits = handle[h].permits /\ c.bound = handle[h].bound
    BY <1>2 DEF Connection
  <2>2. handle' = [handle EXCEPT ![h] = c] /\ locker' = None /\ locker = h
    BY <1>10 DEF Executed, Locking
  <2> HIDE DEF c
  <2>3. /\ handle' \in [Handle -> Connection] /\ Locking' /\ CommitsInItsSession'
        /\ handle'[h].stage = "free"
        /\ \A x \in Handle : x # h => handle'[x].stage = handle[x].stage
    BY <1>2, <1>6, <2>1, <2>2
  <2>4. Kept  BY <1>5, <1>10 DEF Executed
  <2> QED  BY <1>2, <1>4, <2>2, <2>3, <2>4
<1>11. CASE IntentFails(h)
  <2> DEFINE c == [handle[h] EXCEPT !.stage = "free"]
  <2>1. /\ c \in Connection /\ c.stage = "free"
        /\ c.permits = handle[h].permits /\ c.bound = handle[h].bound
    BY <1>2 DEF Connection
  <2>2. handle' = [handle EXCEPT ![h] = c] /\ locker' = None /\ locker = h
    BY <1>11 DEF IntentFails, Locking
  <2> HIDE DEF c
  <2>3. /\ handle' \in [Handle -> Connection] /\ Locking' /\ CommitsInItsSession'
        /\ handle'[h].stage = "free"
        /\ \A x \in Handle : x # h => handle'[x].stage = handle[x].stage
    BY <1>2, <1>6, <2>1, <2>2
  <2>4. Kept  BY <1>1, <1>3, <1>11, BecomeKeeps DEF IntentFails
  <2> QED  BY <1>2, <1>4, <2>2, <2>3, <2>4
<1>12. CASE Committed(h)
  <2> DEFINE c == [handle[h] EXCEPT !.stage = "free", !.permits = 0]
  <2>1. c \in Connection /\ c.stage = "free" /\ c.permits = 0
    BY <1>2 DEF Connection
  <2>2. handle' = [handle EXCEPT ![h] = c] /\ locker' = None /\ locker = h
    BY <1>2, <1>12 DEF Committed, Locking
  <2> HIDE DEF c
  <2>3. /\ handle' \in [Handle -> Connection] /\ Locking' /\ CommitsInItsSession'
        /\ handle'[h].stage = "free"
        /\ \A x \in Handle : x # h => handle'[x].stage = handle[x].stage
    BY <1>2, <1>6, <2>1, <2>2
  <2>4. Kept  BY <1>5, <1>12 DEF Committed
  <2> QED  BY <1>2, <1>4, <2>2, <2>3, <2>4
<1>13. CASE Rollback(h)
  <2> DEFINE c == [handle[h] EXCEPT !.permits = 0]
  <2>1. /\ c \in Connection /\ c.stage = "free" /\ c.permits = 0
        /\ Fresh \in Connection /\ Fresh.stage = "free" /\ Fresh.permits = 0
    BY <1>2, <1>13 DEF Connection, Fresh, Rollback
  <2>2. /\ handle' = [handle EXCEPT ![h] = c] \/ handle' = [handle EXCEPT ![h] = Fresh]
        /\ locker' = None /\ Unlocked /\ locker' = locker
    BY <1>2, <1>13 DEF Rollback, Unlocked
  <2> HIDE DEF c
  <2>3. /\ handle' \in [Handle -> Connection] /\ Locking' /\ CommitsInItsSession'
        /\ handle'[h].stage = "free"
        /\ \A x \in Handle : x # h => handle'[x].stage = handle[x].stage
    BY <1>2, <1>6, <2>1, <2>2
  <2>4. Kept  BY <1>5, <1>13 DEF Rollback
  <2> QED  BY <1>2, <1>4, <2>2, <2>3, <2>4
<1> QED
  BY <1>7, <1>8, <1>9, <1>10, <1>11, <1>12, <1>13
  DEF Use, Execute, Commit, Fetch

(* The interface thread closes the gate. *)
LEMMA ClosedFacts ==
    ASSUME NEW g \in Gate, lease.ends \in Nat
    PROVE  /\ Closed(g) \in Gate /\ Closed(g).closed
           /\ Closed(g).deadline = 0 /\ Closed(g).queued.ends = 0
           /\ Closed(g).lost = g.lost /\ Closed(g).incarnation = g.incarnation
<1> DEFINE d == Dead(g)
           e == [d EXCEPT !.closed = TRUE]
           f == [e EXCEPT !.finisher = FALSE]
<1>1. /\ d \in Gate /\ d.deadline = 0 /\ d.queued.ends = 0
      /\ d.lost = g.lost /\ d.incarnation = g.incarnation
  BY DeadType
<1>2. Closed(g) = f  BY DEF Closed
<1> HIDE DEF d
<1>3. /\ e \in Gate /\ e.closed /\ e.deadline = d.deadline /\ e.queued = d.queued
      /\ e.lost = d.lost /\ e.incarnation = d.incarnation
  BY <1>1 DEF Gate
<1> HIDE DEF e
<1>4. /\ f \in Gate /\ f.closed = e.closed /\ f.deadline = e.deadline
      /\ f.queued = e.queued /\ f.lost = e.lost /\ f.incarnation = e.incarnation
  BY <1>3 DEF Gate
<1> QED  BY <1>1, <1>2, <1>3, <1>4

LEMMA OpenedFacts ==
    ASSUME NEW g \in Gate, lease.ends \in Nat, g.incarnation < MaxOpen
    PROVE  /\ Opened(g) \in Gate
           /\ Opened(g).deadline = 0 /\ Opened(g).queued.ends = 0
           /\ ~Opened(g).failure /\ Opened(g).incarnation = g.incarnation + 1
<1> DEFINE d == Dead(g)
           e == [d EXCEPT !.incarnation = @ + 1]
           f == [e EXCEPT !.lost = FALSE]
           k == [f EXCEPT !.closed = FALSE]
<1>1. /\ d \in Gate /\ d.deadline = 0 /\ d.queued.ends = 0 /\ ~d.failure
      /\ d.incarnation = g.incarnation
  BY DeadType
<1>2. Opened(g) = k  BY DEF Opened
<1>3. g.incarnation + 1 \in Incarnation  BY DEF Gate, Incarnation
<1> HIDE DEF d
<1>4. /\ e \in Gate /\ e.deadline = d.deadline /\ e.queued = d.queued
      /\ e.failure = d.failure /\ e.incarnation = g.incarnation + 1
  BY <1>1, <1>3 DEF Gate
<1> HIDE DEF e
<1>5. /\ f \in Gate /\ f.deadline = e.deadline /\ f.queued = e.queued
      /\ f.failure = e.failure /\ f.incarnation = e.incarnation
  BY <1>4 DEF Gate
<1> HIDE DEF f
<1>6. /\ k \in Gate /\ k.deadline = f.deadline /\ k.queued = f.queued
      /\ k.failure = f.failure /\ k.incarnation = f.incarnation
  BY <1>5 DEF Gate
<1> QED  BY <1>1, <1>2, <1>4, <1>5, <1>6

LEMMA InterfaceSteps ==
    ASSUME IInv, Interface
    PROVE  IInv'
<1> USE DEF IInv
<1>1. UNCHANGED <<now, locker, handle>>
  BY DEF Interface, Open, OpenVerified, Finish, FinishChecked, Assign, Saved, SaveFails,
         FailureCloses, Pause, PauseCloses, Cancel, Release, Leave, remote
<1>2. /\ 0 \in Time /\ 0 \in End /\ now \in Time /\ lease.ends \in End /\ 0 <= lease.ends
      /\ lease.ends \in Nat /\ lease \in [ours : BOOLEAN, ends : End] /\ gate \in Gate
      /\ gate.incarnation \in Nat /\ leaving \in {"no", "flying", "landed"}
      /\ \A i \in doomed : i <= gate.incarnation
      /\ doomed \subseteq 1 .. MaxOpen
  BY DEF TypeOK, Time, End, Gate, Incarnation, Told
<1>3. Locking'  BY <1>1 DEF Locking
<1>4. Bounded(gate)  BY GateBounded
(* The observation of the interface thread. *)
<1>5. ASSUME AskUI
      PROVE  /\ obs' \in [Observer -> Observation]
             /\ \A x \in Observer : obs'[x].ends <= lease.ends
  <2> DEFINE e == [Idle EXCEPT !.stage = "asked", !.started = now]
  <2>1. e \in Observation /\ e.ends <= lease.ends  BY <1>2 DEF Idle, Observation
  <2>2. obs' = [obs EXCEPT ![UI] = e]  BY <1>5 DEF AskUI
  <2> HIDE DEF e
  <2> QED  BY <2>1, <2>2 DEF TypeOK, Evidence
<1>6. ASSUME obs' = obs
      PROVE  /\ obs' \in [Observer -> Observation]
             /\ \A x \in Observer : obs'[x].ends <= lease.ends
  BY <1>6 DEF TypeOK, Evidence
(* A step of the interface thread in general. *)
<1>7. ASSUME lease' \in [ours : BOOLEAN, ends : End], lease'.ends = lease.ends,
             leaving' \in {"no", "flying", "landed"},
             gate' \in Gate, tx' \in State, marked' \in BOOLEAN,
             doomed' \subseteq 1 .. MaxOpen,
             ui' \in {"ready", "opening", "checking", "assigning", "saving", "failing",
                      "pausing", "leaving"},
             obs' \in [Observer -> Observation],
             \A x \in Observer : obs'[x].ends <= lease.ends,
             gate'.deadline <= lease.ends, gate'.queued.ends <= lease.ends,
             IsOpen(gate') /\ leaving' # "landed" /\ now < lease.ends => lease'.ours,
             Told', Sessions', Finishing', CommitsInItsSession', InstallIsAlone'
      PROVE  IInv'
  <2>1. TypeOK'  BY <1>1, <1>7 DEF TypeOK
  <2>2. lease'.ends <= now' + Lease  BY <1>1, <1>7 DEF Evidence
  <2>3. Evidence'  BY <1>1, <1>7, <2>2 DEF Evidence
  <2> QED  BY <1>3, <1>7, <2>1, <2>3
(* The gate, and what it protects, stay as they are. *)
<1>8. ASSUME UNCHANGED <<gate, remote, marked, doomed, obs>>, tx' \in State \ {"IDLE"},
             \/ ui' \in {"ready", "failing", "pausing"}
             \/ ui' \in {"assigning", "saving"} /\ ui \in {"checking", "assigning"}
      PROVE  IInv'
  <2>1. Told' /\ Sessions' /\ Finishing' /\ CommitsInItsSession' /\ InstallIsAlone'
    BY <1>1, <1>8 DEF Told, Sessions, Finishing, CommitsInItsSession, InstallIsAlone
  <2>2. gate.deadline <= lease.ends /\ gate.queued.ends <= lease.ends
        /\ (IsOpen(gate) /\ leaving # "landed" /\ now < lease.ends => lease.ours)
    BY DEF Evidence
  <2> QED  BY <1>2, <1>6, <1>7, <1>8, <2>1, <2>2 DEF TypeOK, remote
(* The gate is closed. *)
<1>9. ASSUME gate' = Closed(gate), Unlocked,
             UNCHANGED <<lease, leaving, marked, doomed, obs>>,
             tx' \in State, ui' \in {"ready", "leaving"}
      PROVE  IInv'
  <2>1. /\ gate' \in Gate /\ gate'.closed /\ gate'.deadline = 0 /\ gate'.queued.ends = 0
        /\ gate'.lost = gate.lost /\ gate'.incarnation = gate.incarnation
    BY <1>2, <1>9, ClosedFacts
  <2>2. Told'  BY <1>9, <2>1 DEF Told, IsOpen
  <2>3. Sessions'  BY <1>9, <2>1 DEF Sessions
  <2>4. CommitsInItsSession'  BY <1>1, <1>9, AllFree DEF CommitsInItsSession
  <2>5. InstallIsAlone' /\ Finishing'  BY <1>9, <2>1 DEF InstallIsAlone, Finishing
  <2> QED  BY <1>2, <1>6, <1>7, <1>9, <2>1, <2>2, <2>3, <2>4, <2>5 DEF TypeOK, IsOpen
<1> DEFINE given == [lease EXCEPT !.ours = FALSE]
<1>10. given \in [ours : BOOLEAN, ends : End] /\ given.ends = lease.ends  BY <1>2
<1> HIDE DEF given
<1>11. CASE Open
  <2>1. /\ gate' = Opened(gate) /\ tx' = "EDITING" /\ marked' = FALSE /\ ui' = "opening"
        /\ AskUI /\ doomed' = {} /\ UNCHANGED <<lease, leaving>>
        /\ lease.ours /\ Unlocked /\ gate.incarnation < MaxOpen
    BY <1>11 DEF Open, remote
  <2>2. /\ gate' \in Gate /\ gate'.deadline = 0 /\ gate'.queued.ends = 0 /\ ~gate'.failure
        /\ gate'.incarnation = gate.incarnation + 1
    BY <1>2, <2>1, OpenedFacts
  <2>3. Told' /\ Sessions'
    <3>1. gate'.incarnation # 0  BY <1>2, <2>2
    <3> QED  BY <2>1, <3>1 DEF Told, Sessions
  <2>4. CommitsInItsSession'  BY <1>1, <2>1, AllFree DEF CommitsInItsSession
  <2>5. InstallIsAlone' /\ Finishing'
    BY <1>1, <2>1 DEF InstallIsAlone, Finishing, Unlocked, None, Install
  <2> QED  BY <1>2, <1>5, <1>7, <2>1, <2>2, <2>3, <2>4, <2>5 DEF State
<1>12. CASE OpenVerified
  <2>1. /\ ui = "opening" /\ ui' = "ready" /\ Unlocked
        /\ UNCHANGED <<lease, leaving, obs>>
    BY <1>12 DEF OpenVerified, remote
  <2>2. gate.incarnation \in 1 .. MaxOpen  BY <2>1, NumberFacts DEF Sessions
  <2>3. CASE gate.lost \/ gate.deadline <= now
    <3>1. /\ gate' = Lost(gate) /\ tx' = "RECOVERY_REQUIRED"
          /\ marked' = (marked \/ IsOpen(gate)) /\ doomed' = doomed \cup {gate.incarnation}
      BY <1>12, <2>3 DEF OpenVerified
    <3>2. Narrows(gate, gate') /\ ~IsOpen(gate')  BY <1>2, <1>4, <3>1, LostNarrows
    <3>3. /\ gate' \in Gate /\ gate'.closed = gate.closed
          /\ gate'.incarnation = gate.incarnation
          /\ gate'.deadline <= lease.ends /\ gate'.queued.ends <= lease.ends
      BY <3>2 DEF Narrows
    <3>4. Told' /\ Sessions'
      <4>1. Told'  BY <1>2, <2>2, <3>1, <3>2, <3>3 DEF Told
      <4>2. gate'.incarnation # 0 /\ tx' # "IDLE" /\ ui' = "ready"
        BY <2>1, <2>2, <3>1, <3>3
      <4> QED  BY <4>1, <4>2 DEF Sessions
    <3>5. CommitsInItsSession'  BY <1>1, <2>1, AllFree DEF CommitsInItsSession
    <3>6. InstallIsAlone' /\ Finishing'
      BY <1>1, <2>1, <3>3 DEF InstallIsAlone, Finishing
    <3>7. marked' \in BOOLEAN  BY <3>1
    <3> QED
      BY <1>2, <1>6, <1>7, <2>1, <2>2, <3>1, <3>2, <3>3, <3>4, <3>5, <3>6, <3>7 DEF State
  <2>4. CASE ~(gate.lost \/ gate.deadline <= now)
    <3>1. UNCHANGED <<gate, tx, marked, doomed>>  BY <1>12, <2>4 DEF OpenVerified
    <3>2. Told' /\ Sessions' /\ Finishing' /\ CommitsInItsSession' /\ InstallIsAlone'
      BY <1>1, <2>1, <2>2, <3>1
      DEF Told, Sessions, Finishing, CommitsInItsSession, InstallIsAlone
    <3> QED  BY <1>2, <1>6, <1>7, <2>1, <3>1, <3>2 DEF TypeOK, Evidence
  <2> QED  BY <2>3, <2>4
<1>13. CASE Finish
  <2> DEFINE f == [gate EXCEPT !.finisher = TRUE]
  <2>1. /\ f \in Gate /\ f.deadline = gate.deadline /\ f.queued = gate.queued
        /\ f.closed = gate.closed /\ f.lost = gate.lost /\ f.failure = gate.failure
        /\ f.incarnation = gate.incarnation /\ f.finisher
    BY <1>2 DEF Gate
  <2>2. /\ gate' = f /\ UNCHANGED <<lease, leaving, marked, doomed>>
        /\ Unlocked /\ ui = "ready" /\ tx = "EDITING"
        /\ \/ ui' = "checking" /\ AskUI /\ tx' = tx
           \/ tx' = "FINISHING_WAITING_FOR_COLLABORATION" /\ ui' = ui /\ obs' = obs
    BY <1>13 DEF Finish, remote
  <2> HIDE DEF f
  <2>3. /\ tx' \in State \ {"IDLE"} /\ ui' \in {"ready", "checking"}
        /\ obs' \in [Observer -> Observation]
        /\ \A x \in Observer : obs'[x].ends <= lease.ends
    BY <1>5, <1>6, <2>2 DEF State
  <2>4. Told' /\ Sessions' /\ CommitsInItsSession' /\ InstallIsAlone'
    BY <1>1, <2>1, <2>2, <2>3 DEF Told, Sessions, CommitsInItsSession, InstallIsAlone, IsOpen
  <2>6. Finishing'  BY <1>1, <2>1, <2>2, AllFree DEF Finishing
  <2>5. gate'.deadline <= lease.ends /\ gate'.queued.ends <= lease.ends
        /\ (IsOpen(gate') /\ leaving # "landed" /\ now < lease.ends => lease.ours)
    BY <2>1, <2>2 DEF Evidence, IsOpen
  <2> QED  BY <1>2, <1>7, <2>1, <2>2, <2>3, <2>4, <2>5, <2>6 DEF TypeOK
<1>14. CASE FinishChecked \/ Assign \/ SaveFails \/ Pause
  <2>1. UNCHANGED <<gate, remote, marked, doomed, obs>>
    BY <1>14 DEF FinishChecked, Assign, SaveFails, Pause
  <2>2. CASE FinishChecked
    <3>1. CASE tx = "IDLE"
      <4>1. ui = "checking" /\ ui' \in {"ready", "assigning"} /\ tx' = tx
        BY <2>2 DEF FinishChecked
      <4>2. Told' /\ Sessions' /\ Finishing' /\ CommitsInItsSession' /\ InstallIsAlone'
        BY <1>1, <2>1, <4>1 DEF Told, Sessions, Finishing, CommitsInItsSession, InstallIsAlone
      <4> QED  BY <1>2, <1>6, <1>7, <2>1, <4>1, <4>2 DEF TypeOK, Evidence, remote
    <3>2. CASE tx # "IDLE"
      BY <1>8, <2>1, <2>2, <3>2 DEF FinishChecked, TypeOK
    <3> QED  BY <3>1, <3>2
  <2>3. CASE Assign  BY <1>8, <2>1, <2>3 DEF Assign, State
  <2>4. CASE SaveFails  BY <1>8, <2>1, <2>4 DEF SaveFails, State
  <2>5. CASE Pause  BY <1>8, <2>1, <2>5 DEF Pause, State
  <2> QED  BY <1>14, <2>2, <2>3, <2>4, <2>5
<1>15. CASE Saved
  <2>1. CASE gate.lost
    <3>1. /\ UNCHANGED <<gate, tx, lease, leaving, marked, doomed, obs>> /\ ui' = "ready"
      BY <1>15, <2>1 DEF Saved, remote
    <3>2. Told' /\ Sessions' /\ Finishing' /\ CommitsInItsSession' /\ InstallIsAlone'
      BY <1>1, <3>1 DEF Told, Sessions, Finishing, CommitsInItsSession, InstallIsAlone
    <3> QED  BY <1>2, <1>6, <1>7, <3>1, <3>2 DEF TypeOK, Evidence
  <2>2. CASE ~gate.lost
    BY <1>2, <1>9, <1>15, <2>2 DEF Saved, State, remote
  <2> QED  BY <2>1, <2>2
<1>16. CASE FailureCloses
  BY <1>2, <1>9, <1>16 DEF FailureCloses, TypeOK, remote
<1>17. CASE PauseCloses \/ Cancel \/ Release
  <2>1. /\ gate' = Closed(gate) /\ Unlocked
        /\ UNCHANGED <<lease, leaving, marked, doomed, obs>>
        /\ tx' \in State /\ ui' = "leaving"
    BY <1>17 DEF PauseCloses, Cancel, Release, State, TypeOK, remote
  <2> QED  BY <1>9, <2>1
<1>18. CASE Leave
  <2>1. /\ ui = "leaving" /\ ui' = "ready" /\ UNCHANGED <<gate, marked, doomed, obs>>
        /\ tx' = tx \/ tx' = "IDLE"
        /\ lease' = lease \/ lease' = given
        /\ leaving' = leaving \/ leaving' = "flying"
    BY <1>18 DEF Leave, GivesBack, given, remote
  <2>2. gate.closed  BY <2>1 DEF Sessions
  <2>3. /\ tx' \in State /\ lease' \in [ours : BOOLEAN, ends : End]
        /\ lease'.ends = lease.ends /\ leaving' \in {"no", "flying", "landed"}
    BY <1>2, <1>10, <2>1 DEF TypeOK, State
  <2>4. Told' /\ Sessions' /\ Finishing' /\ CommitsInItsSession' /\ InstallIsAlone'
    BY <1>1, <2>1, <2>2 DEF Told, Sessions, Finishing, CommitsInItsSession, InstallIsAlone
  <2>5. /\ gate.deadline <= lease.ends /\ gate.queued.ends <= lease.ends
        /\ marked \in BOOLEAN
    BY DEF Evidence, TypeOK
  <2> QED  BY <1>2, <1>6, <1>7, <2>1, <2>2, <2>3, <2>4, <2>5 DEF IsOpen
<1> QED
  BY <1>11, <1>12, <1>13, <1>14, <1>15, <1>16, <1>17, <1>18 DEF Interface

(* The process starts again; the background synchronization installs.       *)
LEMMA RestartStep ==
    ASSUME IInv, Restart
    PROVE  IInv'
<1> USE DEF IInv
<1> DEFINE given == [lease EXCEPT !.ours = FALSE]
           c == Closed(gate)
           g == [c EXCEPT !.lost = FALSE]
<1>1. /\ lease' = given /\ leaving' = "no" /\ gate' = g /\ tx' = "IDLE" /\ marked' = FALSE
      /\ locker' = None /\ obs' = [o \in Observer |-> Idle]
      /\ handle' = [h \in Handle |-> Fresh] /\ ui' = "ready" /\ doomed' = {} /\ UNCHANGED now
  BY DEF Restart
<1>2. /\ 0 \in Time /\ 0 \in End /\ 0 <= lease.ends /\ 0 \in Incarnation
      /\ lease.ends \in Nat /\ lease \in [ours : BOOLEAN, ends : End] /\ gate \in Gate
  BY DEF TypeOK, Time, End, Incarnation
<1>3. given \in [ours : BOOLEAN, ends : End] /\ given.ends = lease.ends  BY <1>2
<1> HIDE DEF given
<1>4. /\ c \in Gate /\ c.closed /\ c.deadline = 0 /\ c.queued.ends = 0
      /\ c.incarnation = gate.incarnation
  BY <1>2, ClosedFacts
<1> HIDE DEF c
<1>5. /\ g \in Gate /\ g.closed /\ ~g.lost /\ g.deadline = 0 /\ g.queued.ends = 0
      /\ g.incarnation = gate.incarnation
  BY <1>4 DEF Gate
<1> HIDE DEF g
<1>6. obs' \in [Observer -> Observation]  BY <1>1, <1>2 DEF Observation, Idle
<1>7. handle' \in [Handle -> Connection]  BY <1>1, <1>2 DEF Connection, Fresh
<1>8. TypeOK'  BY <1>1, <1>3, <1>5, <1>6, <1>7 DEF TypeOK, State
<1>9. lease'.ends <= now' + Lease  BY <1>1, <1>3 DEF Evidence
<1>10. Evidence'  BY <1>1, <1>2, <1>3, <1>5, <1>9 DEF Evidence, Idle, IsOpen
<1>11. Locking' /\ CommitsInItsSession'  BY <1>1 DEF Locking, CommitsInItsSession, Fresh
<1>12. Told' /\ Sessions' /\ Finishing' /\ InstallIsAlone'
  BY <1>1, <1>5 DEF Told, Sessions, Finishing, InstallIsAlone, IsOpen
<1> QED  BY <1>8, <1>10, <1>11, <1>12

LEMMA InstallSteps ==
    ASSUME IInv, InstallBegin \/ InstallEnd
    PROVE  IInv'
<1> USE DEF IInv
<1>1. UNCHANGED <<now, lease, leaving, tx, marked, gate, obs, handle, ui, doomed>>
  BY DEF InstallBegin, InstallEnd, remote
<1>2. TypeOK'  BY <1>1 DEF TypeOK, InstallBegin, InstallEnd
<1>3. Evidence'  BY <1>1 DEF Evidence
<1>4. Told' /\ Sessions' /\ Finishing' /\ CommitsInItsSession'
  BY <1>1 DEF Told, Sessions, Finishing, CommitsInItsSession
<1>5. Locking'
  <2>1. \A h \in Handle : h # Install  OBVIOUS
  <2>2. CASE InstallBegin  BY <1>1, <2>2, AllFree DEF InstallBegin, Locking
  <2>3. CASE InstallEnd  BY <1>1, <2>1, <2>3 DEF InstallEnd, Locking
  <2> QED  BY <2>2, <2>3
<1>6. InstallIsAlone'
  BY <1>1 DEF InstallIsAlone, InstallBegin, InstallEnd, Install, None
<1> QED  BY <1>2, <1>3, <1>4, <1>5, <1>6

LEMMA Inductive == IInv /\ [Next]_vars => IInv'
<1> SUFFICES ASSUME IInv, [Next]_vars PROVE IInv'  OBVIOUS
<1>1. CASE Tick \/ Grant \/ Renewed \/ TakenOver \/ HandoffFails \/ DeletionLands
  BY <1>1, RemoteStep
<1>2. CASE \E o \in Observer : Observe(o)  BY <1>2, ObserverSteps
<1>3. CASE \E h \in Handle : Use(h)  BY <1>3, ConnectionSteps
<1>4. CASE Interface  BY <1>4, InterfaceSteps
<1>5. CASE Restart  BY <1>5, RestartStep
<1>6. CASE InstallBegin \/ InstallEnd  BY <1>6, InstallSteps
<1>7. CASE UNCHANGED vars
  BY <1>7 DEF IInv, TypeOK, Evidence, Locking, Told, Sessions, Finishing,
              CommitsInItsSession, InstallIsAlone, IsOpen, vars, remote
<1> QED  BY <1>1, <1>2, <1>3, <1>4, <1>5, <1>6, <1>7 DEF Next

LEMMA Invariance == Spec => []IInv
BY InitIInv, Inductive, PTL DEF Spec

-----------------------------------------------------------------------------
(* The results.                                                             *)

(* Every field of the gate, of the observations and of the connections      *)
(* keeps its type, for any number of threads and any bounds.                *)
THEOREM TypeCorrect == Spec => []TypeOK
<1>1. IInv => TypeOK  BY DEF IInv
<1> QED  BY <1>1, Invariance, PTL

(* While the gate admits changes the lock is ours and its lease is not      *)
(* over: no order of late observations, from this session or an earlier     *)
(* one, makes the gate trust a lease longer than the remote store grants    *)
(* it.  (_accept_observation)                                               *)
THEOREM LeaseAlwaysCovers == Spec => []LeaseCovers
<1>1. IInv => LeaseCovers
  <2> SUFFICES ASSUME IInv, IsOpen(gate), now < gate.deadline, leaving # "landed"
               PROVE  lease.ours /\ now < lease.ends
    BY DEF LeaseCovers
  <2>1. gate.deadline \in Nat /\ lease.ends \in Nat /\ now \in Nat
    BY DEF IInv, TypeOK, Gate, Time, End
  <2>2. now < lease.ends  BY <2>1 DEF IInv, Evidence
  <2> QED  BY <2>2 DEF IInv, Evidence
<1> QED  BY <1>1, Invariance, PTL

(* A commit in progress belongs to the session that is open, and that       *)
(* session admitted the statements it commits.  (GuardedConnection.commit)  *)
THEOREM CommitsStayInSession == Spec => []CommitsInItsSession
<1>1. IInv => CommitsInItsSession  BY DEF IInv
<1> QED  BY <1>1, Invariance, PTL

(* The live database is replaced only while the gate is closed, and from    *)
(* the beginning of a finish to the end of its save every other connection  *)
(* is idle: the finisher is set under the lock, so that nobody was inside,  *)
(* and nobody else is admitted after.  (runtime_install_permit, require,    *)
(* finish_editing)                                                          *)
THEOREM NobodyInside == Spec => []NobodyElseInside
<1>1. IInv => NobodyElseInside
  BY DEF IInv, NobodyElseInside, SaveIsAlone, Finishing
<1> QED  BY <1>1, Invariance, PTL

(* The steps in which a connection begins to work.                          *)
LEMMA BeginsToWork ==
    ASSUME IInv, Next, NEW h \in Handle,
           handle[h].stage = "free", handle'[h].stage # "free"
    PROVE  gate' = Required(h) /\ IsOpen(gate')
<1>1. handle \in [Handle -> Connection]  BY DEF IInv, TypeOK
<1>2. CASE \E x \in Handle : Use(x)
  <2>1. PICK x \in Handle : Use(x)  BY <1>2
  <2>2. CASE Execute(x)
    <3>1. x = h /\ handle'[h].stage = "running"  BY <1>1, <2>2 DEF Execute
    <3> QED  BY <2>2, <3>1 DEF Execute, Become, MayRun
  <2>3. CASE Commit(x)
    <3>1. x = h  BY <1>1, <2>3 DEF Commit
    <3>2. MayCommit(h, Required(h))  BY <2>3, <3>1 DEF Commit
    <3> QED  BY <2>3, <3>1, <3>2 DEF Commit, Become, MayCommit
  <2>4. CASE Executed(x) \/ IntentFails(x) \/ Fetch(x) \/ Committed(x) \/ Rollback(x)
    <3>1. CASE Executed(x) \/ IntentFails(x)
      BY <1>1, <3>1 DEF Executed, IntentFails
    <3>2. CASE Fetch(x)  BY <3>2 DEF Fetch
    <3>3. CASE Committed(x)  BY <1>1, <3>3 DEF Committed, Connection
    <3>4. CASE Rollback(x)  BY <1>1, <3>4 DEF Rollback, Fresh, Connection
    <3> QED  BY <2>4, <3>1, <3>2, <3>3, <3>4
  <2> QED  BY <2>1, <2>2, <2>3, <2>4 DEF Use
<1>3. CASE Restart  BY <1>3 DEF Restart, Fresh
<1>4. CASE ~(\E x \in Handle : Use(x)) /\ ~Restart
  <2>1. handle' = handle
    BY <1>4 DEF Next, Tick, Grant, Renewed, TakenOver, HandoffFails, DeletionLands,
       Observe, Ask, Answer, DeliverLate, DeliverGood, DeliverBusy, DeliverBad, Latch, Lose,
       Interface, Open, OpenVerified, Finish, FinishChecked, Assign, Saved, SaveFails,
       FailureCloses, Pause, PauseCloses, Cancel, Release, Leave, InstallBegin, InstallEnd
  <2> QED  BY <2>1
<1> QED  BY <1>2, <1>3, <1>4

(* Only an opening, with another incarnation, undoes a loss. *)
LEMMA LossStays ==
    ASSUME IInv, Next, gate.lost, IsOpen(gate')
    PROVE  gate'.incarnation # gate.incarnation
<1>1. gate \in Gate /\ lease.ends \in Nat /\ now \in Time /\ gate.incarnation \in Nat
      /\ Bounded(gate)
  BY NumberFacts, GateBounded DEF IInv, TypeOK
<1>2. ~gate'.closed /\ ~gate'.lost /\ ~IsOpen(gate)  BY DEF IsOpen
<1>3. Lost(gate) = gate  BY <1>2 DEF Lost
<1>4. ASSUME NEW f, Become(f), Narrows(gate, f) PROVE FALSE
  BY <1>2, <1>4 DEF Become, Narrows
<1>5. gate' # gate  BY <1>2
<1>6. ~Tick /\ ~Grant /\ ~Renewed /\ ~TakenOver /\ ~HandoffFails /\ ~DeletionLands
  BY <1>5 DEF Tick, Grant, Renewed, TakenOver, HandoffFails, DeletionLands
<1>7. ASSUME NEW o \in Observer, Observe(o) PROVE FALSE
  <2>1. ~DeliverGood(o) /\ ~DeliverBusy(o)  BY <1>2 DEF DeliverGood, DeliverBusy
  <2>2. ~Latch(o)  BY <1>2, <1>5 DEF Latch
  <2>3. ~Lose(o)  BY <1>1, <1>4, LostNarrows DEF Lose
  <2>4. ~Ask(o) /\ ~Answer(o) /\ ~DeliverLate(o) /\ ~DeliverBad(o)
    BY <1>5 DEF Ask, Answer, DeliverLate, DeliverBad
  <2> QED  BY <1>7, <2>1, <2>2, <2>3, <2>4 DEF Observe
<1>8. ASSUME NEW h \in Handle, Use(h) PROVE FALSE
  <2>1. Narrows(gate, Required(h)) /\ Narrows(gate, Lost(gate))
    BY <1>1, RequiredNarrows, LostNarrows
  <2>2. ~Execute(h) /\ ~Commit(h) /\ ~Fetch(h)
    BY <1>4, <2>1 DEF Execute, Commit, Fetch
  <2>3. ~IntentFails(h)  BY <1>4, <2>1 DEF IntentFails
  <2>4. ~Executed(h) /\ ~Committed(h) /\ ~Rollback(h)
    BY <1>5 DEF Executed, Committed, Rollback
  <2> QED  BY <1>8, <2>2, <2>3, <2>4 DEF Use
<1>9. gate' # Closed(gate)  BY <1>1, <1>2, ClosedFacts
<1>10. ~Restart
  <2> DEFINE c == Closed(gate)
             g == [c EXCEPT !.lost = FALSE]
  <2>1. c \in Gate /\ c.closed  BY <1>1, ClosedFacts
  <2>2. SUFFICES ASSUME gate' = g PROVE FALSE  BY DEF Restart
  <2> HIDE DEF c
  <2>3. g.closed  BY <2>1 DEF Gate
  <2> QED  BY <1>2, <2>2, <2>3
<1>11. ~InstallBegin /\ ~InstallEnd  BY <1>5 DEF InstallBegin, InstallEnd
<1>12. Interface
  BY <1>6, <1>7, <1>8, <1>10, <1>11 DEF Next
<1>13. Open
  <2>1. ~OpenVerified  BY <1>3, <1>5 DEF OpenVerified
  <2>2. ~FinishChecked /\ ~Assign /\ ~SaveFails /\ ~Pause /\ ~Leave
    BY <1>5 DEF FinishChecked, Assign, SaveFails, Pause, Leave
  <2>4. ~Finish  BY <1>2 DEF Finish
  <2>3. ~Saved /\ ~FailureCloses /\ ~PauseCloses /\ ~Cancel /\ ~Release
    BY <1>5, <1>9 DEF Saved, FailureCloses, PauseCloses, Cancel, Release
  <2> QED  BY <1>12, <2>1, <2>2, <2>3, <2>4 DEF Interface
<1> QED  BY <1>1, <1>13, OpenedFacts DEF Open

(* A loss that was latched cannot be overtaken by a statement or a commit,  *)
(* and the session it ended stays lost.  (invalidate)                       *)
THEOREM LossFinal == Spec => LossIsFinal
<1> DEFINE A == /\ \A h \in Handle :
                     handle[h].stage = "free" /\ handle'[h].stage # "free"
                         => gate'.incarnation \notin doomed
                /\ gate.lost /\ IsOpen(gate') => gate'.incarnation # gate.incarnation
<1>1. IInv /\ [Next]_vars => [A]_vars
  <2> SUFFICES ASSUME IInv, Next PROVE A  OBVIOUS
  <2>1. ASSUME NEW h \in Handle, handle[h].stage = "free", handle'[h].stage # "free"
        PROVE  gate'.incarnation \notin doomed
    <3>1. gate' = Required(h) /\ IsOpen(gate')  BY <2>1, BeginsToWork
    <3>2. Narrows(gate, Required(h)) /\ ~gate.failure /\ IsOpen(gate)
      BY <3>1, NumberFacts, GateBounded, RequiredNarrows DEF IInv
    <3> QED  BY <3>1, <3>2 DEF Narrows, IInv, Told
  <2> QED  BY <2>1, LossStays
<1> QED  BY <1>1, Invariance, PTL DEF Spec, LossIsFinal
=============================================================================
