--------------------------- MODULE LockLeaseProofs ---------------------------
(***************************************************************************)
(* Proofs about LockLease, for any set of sessions, any lease, any number  *)
(* of lock commits and any clock offsets within the tolerance.             *)
(*                                                                         *)
(* LeaseExclusion is not inductive: it says nothing about the pushes still *)
(* on their way.  The inductive invariant adds what every push in flight   *)
(* was prepared against.  A takeover was prepared when the contender's     *)
(* clock had passed the expiry by the whole tolerance, so by then the      *)
(* owner's clock had passed it too; a deletion was prepared for a commit   *)
(* its own session asked to delete; a renewal replaces a commit by a later *)
(* one of the same session, whose expiry is not earlier.                   *)
(***************************************************************************)
EXTENDS LockLease, TLAPS

-----------------------------------------------------------------------------
(* The inductive invariant. *)

(* A session's clock bounds the leases it has granted itself so far. *)
ExpiryBound ==
    \A i \in Oid : objects[i].exp <= Clock(objects[i].session) + Lease

(* The commits of one session expire in the order they were created. *)
ExpiryOrder ==
    \A i, j \in Oid : i < j /\ objects[i].session = objects[j].session
                      => objects[i].exp <= objects[j].exp

(* What a push that would change or create the lock was prepared against. *)
ProposalSound(p) ==
    p.new # NoOid =>
        /\ objects[p.new].session = p.by
        /\ p.old < p.new
        /\ p.old # NoOid /\ objects[p.old].session # p.by
           => Clock(p.by) >= objects[p.old].exp + Grace

(* What a deletion was prepared against. *)
DeletionSound(p) ==
    p.new = NoOid =>
        /\ p.old # NoOid
        /\ objects[p.old].session = p.by
        /\ p.old <= asked[p.by]

PushesSound == \A p \in pushes : ProposalSound(p) /\ DeletionSound(p)

(* Every token and every call of a session is about a commit of its own. *)
TokensOwn ==
    \A s \in Holder :
        /\ \A i \in pendingTokens[s] : objects[i].session = s
        /\ owned[s] # NoOid => objects[owned[s]].session = s
        /\ op[s].oid # NoOid => objects[op[s].oid].session = s
        /\ op[s].kind \in {"acquire", "renew", "verify"} => op[s].oid # NoOid

(* The lock of a session that holds its lease is in place. *)
Protected(s) ==
    HoldsLease(s) => /\ ref # NoOid
                     /\ objects[ref].session = s
                     /\ owned[s] <= ref

HoldersProtected == \A s \in Holder : Protected(s)

IInv == /\ LockTypeOK
        /\ ExpiryBound
        /\ ExpiryOrder
        /\ PushesSound
        /\ TokensOwn
        /\ HoldersProtected

-----------------------------------------------------------------------------
(* A proposal only extends the sequence of commits. *)
LEMMA ProposeExtends ==
    ASSUME objects \in Seq(LockRecord), NEW r \in LockRecord,
           objects' = Append(objects, r)
    PROVE  /\ objects' \in Seq(LockRecord)
           /\ Len(objects') = Len(objects) + 1
           /\ \A i \in Oid : objects'[i] = objects[i]
           /\ objects'[Len(objects) + 1] = r
  BY DEF Oid

LEMMA InitInvariant == LockInit => IInv
  BY LeaseAssumption, LockBoundAssumption
  DEF LockInit, IInv, LockTypeOK, ExpiryBound, ExpiryOrder, PushesSound, TokensOwn,
      HoldersProtected, Protected, HoldsLease, Oid, NoOid, OpKind, Idle, Call,
      LockRecord

-----------------------------------------------------------------------------
(* Both ways to propose a commit: r is the record, k the call. *)
LEMMA ProposalStep ==
    ASSUME IInv, NEW s \in Holder, NEW r \in LockRecord,
           NEW k \in {"acquire", "renew"},
           r.session = s, r.exp = Clock(s) + Lease,
           ref # NoOid /\ objects[ref].session # s
              => Clock(s) >= objects[ref].exp + Grace,
           op[s] = Idle,
           Propose(s, r),
           op' = [op EXCEPT ![s] = Call(k, Len(objects) + 1)],
           UNCHANGED <<now, ref, owned, released, landed, asked>>
    PROVE  IInv'
<1> DEFINE new == Len(objects) + 1
<1>1. /\ objects' \in Seq(LockRecord)
      /\ Len(objects') = new
      /\ \A i \in Oid : objects'[i] = objects[i]
      /\ objects'[new] = r
  BY ProposeExtends DEF IInv, LockTypeOK, Propose
<1>2. /\ new \in Nat \ {0} /\ new <= MaxObjects
      /\ Oid' = Oid \cup {new} /\ new \notin Oid
      /\ \A i \in Oid : i < new
  BY <1>1, LockBoundAssumption DEF IInv, LockTypeOK, Oid, Propose
<1>3. /\ pendingTokens' = [pendingTokens EXCEPT ![s] = @ \cup {new}]
      /\ pushes' = pushes \cup {[by |-> s, old |-> ref, new |-> new]}
  BY DEF Propose
<1>4. LockTypeOK'
  BY <1>1, <1>2, <1>3 DEF IInv, LockTypeOK, OpKind, Call
<1>5. /\ \A i \in Oid : /\ objects[i].session \in Holder
                         /\ objects[i].exp \in Int
      /\ r.session \in Holder /\ r.exp \in Int
      /\ now \in Int /\ Lease \in Int /\ Clock(s) \in Int
      /\ ref \in {NoOid} \cup Oid
  <2>1. \A i \in Oid : objects[i] \in LockRecord
    BY DEF IInv, LockTypeOK, Oid
  <2>2. now \in Int /\ Clock(s) \in Int
    <3>1. now \in Int BY LockBoundAssumption DEF IInv, LockTypeOK
    <3>2. Offset[s] \in Int BY ClockAssumption
    <3> QED BY <3>1, <3>2 DEF Clock
  <2> QED BY <2>1, <2>2, LeaseAssumption DEF IInv, LockTypeOK, LockRecord
<1>6. \A t \in Holder : Clock(t)' = Clock(t)
  BY DEF Clock
<1>7. ExpiryBound'
  <2> SUFFICES ASSUME NEW i \in Oid'
               PROVE  objects'[i].exp <= Clock(objects'[i].session) + Lease
    BY <1>1, <1>2, <1>5, <1>6 DEF ExpiryBound
  <2>1. CASE i = new BY <2>1, <1>1, <1>5
  <2>2. CASE i \in Oid BY <2>2, <1>1, <1>5 DEF IInv, ExpiryBound
  <2> QED BY <2>1, <2>2, <1>2
<1>8. ExpiryOrder'
  <2> SUFFICES ASSUME NEW i \in Oid', NEW j \in Oid', i < j,
                      objects'[i].session = objects'[j].session
               PROVE  objects'[i].exp <= objects'[j].exp
    BY DEF ExpiryOrder
  <2>1. i \in Oid BY <1>1, <1>2 DEF Oid
  <2>2. CASE j = new
    BY <2>1, <2>2, <1>1, <1>5 DEF IInv, ExpiryBound
  <2>3. CASE j \in Oid BY <2>1, <2>3, <1>1 DEF IInv, ExpiryOrder
  <2> QED BY <2>2, <2>3, <1>2
<1>9. PushesSound'
  <2> SUFFICES ASSUME NEW p \in pushes'
               PROVE  ProposalSound(p)' /\ DeletionSound(p)'
    BY DEF PushesSound
  <2>1. CASE p \in pushes
    <3>1. p.by \in Holder /\ p.old \in {NoOid} \cup Oid /\ p.new \in {NoOid} \cup Oid
      BY <2>1 DEF IInv, LockTypeOK
    <3>2. ProposalSound(p) /\ DeletionSound(p)
      BY <2>1 DEF IInv, PushesSound
    <3> QED BY <3>1, <3>2, <1>1, <1>6 DEF ProposalSound, DeletionSound
  <2>2. CASE p = [by |-> s, old |-> ref, new |-> new]
    <3>1. p.by = s /\ p.old = ref /\ p.new = new
      BY <2>2
    <3>2. p.new # NoOid /\ p.old < p.new
      BY <3>1, <1>2, <1>5 DEF NoOid, Oid
    <3>3. ref # NoOid => objects'[ref] = objects[ref]
      BY <1>1, <1>5
    <3> QED BY <3>1, <3>2, <3>3, <1>1, <1>6 DEF ProposalSound, DeletionSound
  <2> QED BY <2>1, <2>2, <1>3
<1>10. TokensOwn'
  <2> SUFFICES ASSUME NEW t \in Holder
               PROVE  /\ \A i \in pendingTokens'[t] : objects'[i].session = t
                      /\ owned'[t] # NoOid => objects'[owned'[t]].session = t
                      /\ op'[t].oid # NoOid => objects'[op'[t].oid].session = t
                      /\ op'[t].kind \in {"acquire", "renew", "verify"}
                            => op'[t].oid # NoOid
    BY DEF TokensOwn
  <2>1. /\ pendingTokens[t] \subseteq Oid
        /\ owned[t] \in {NoOid} \cup Oid
        /\ op[t].oid \in {NoOid} \cup Oid
    BY DEF IInv, LockTypeOK
  <2>2. \A i \in pendingTokens'[t] : objects'[i].session = t
    <3>1. \A i \in pendingTokens'[t] : i \in pendingTokens[t] \/ (i = new /\ t = s)
      BY <1>3 DEF IInv, LockTypeOK
    <3> QED BY <3>1, <2>1, <1>1 DEF IInv, TokensOwn
  <2>3. owned'[t] # NoOid => objects'[owned'[t]].session = t
    BY <2>1, <1>1 DEF IInv, TokensOwn
  <2>4. op'[t].oid # NoOid => objects'[op'[t].oid].session = t
    <3>1. op'[t].oid = IF t = s THEN new ELSE op[t].oid
      BY DEF IInv, LockTypeOK, Call
    <3> QED BY <3>1, <2>1, <1>1 DEF IInv, TokensOwn
  <2>5. op'[t].kind \in {"acquire", "renew", "verify"} => op'[t].oid # NoOid
    BY <1>2 DEF IInv, LockTypeOK, TokensOwn, Call, NoOid
  <2> QED BY <2>2, <2>3, <2>4, <2>5
<1>11. HoldersProtected'
  BY <1>1, <1>2, <1>3
  DEF IInv, LockTypeOK, HoldersProtected, Protected, HoldsLease, LeaseValid, Clock, NoOid
<1> QED BY <1>4, <1>7, <1>8, <1>9, <1>10, <1>11 DEF IInv

(* No commit is created and no push is sent; a session may gain a token that *)
(* names the current lock, lose tokens, or change the call it is in.         *)
LEMMA LocalStep ==
    ASSUME IInv, LockTypeOK', NEW s \in Holder,
           UNCHANGED <<now, objects, ref, pushes, asked>>,
           \A t \in Holder \ {s} : /\ owned'[t] = owned[t]
                                    /\ pendingTokens'[t] = pendingTokens[t]
                                    /\ op'[t] = op[t],
           owned'[s] \in {owned[s], NoOid}
              \/ (owned'[s] = ref /\ ref # NoOid /\ objects[ref].session = s),
           pendingTokens'[s] \subseteq pendingTokens[s],
           op'[s] \in {op[s], Idle, Call("dead", NoOid)}
              \/ (op[s].kind = "renew" /\ op'[s] = Call("verify", op[s].oid))
    PROVE  IInv'
<1>1. Oid' = Oid BY DEF Oid
<1>2. \A t \in Holder : Clock(t)' = Clock(t) BY DEF Clock
<1>3. ExpiryBound' BY <1>1 DEF IInv, ExpiryBound, Clock
<1>4. ExpiryOrder' BY <1>1 DEF IInv, ExpiryOrder
<1>5. PushesSound'
  BY <1>2 DEF IInv, PushesSound, ProposalSound, DeletionSound, Clock
<1>6. TokensOwn' BY DEF IInv, TokensOwn, Idle, Call
<1>7. HoldersProtected'
  <2> SUFFICES ASSUME NEW t \in Holder PROVE Protected(t)'
    BY DEF HoldersProtected
  <2>1. Protected(t) BY DEF IInv, HoldersProtected
  <2>2. CASE owned'[t] \in {owned[t], NoOid}
    BY <2>1, <2>2 DEF Protected, HoldsLease, LeaseValid, Clock
  <2>3. CASE owned'[t] = ref /\ ref # NoOid /\ objects[ref].session = t
    BY <2>3 DEF Protected, IInv, LockTypeOK, Oid, NoOid
  <2> QED BY <2>2, <2>3
<1> QED BY <1>3, <1>4, <1>5, <1>6, <1>7 DEF IInv

(* The server processes a push: the heart of the argument. *)
LEMMA PushArrivesStep ==
    ASSUME IInv, NEW p \in pushes, PushArrives(p)
    PROVE  IInv'
<1>1. /\ UNCHANGED <<now, objects, owned, pendingTokens, released, op, asked>>
      /\ pushes' = pushes \ {p}
      /\ p.old = ref => ref' = p.new
      /\ p.old # ref => ref' = ref
  BY DEF PushArrives
<1>2. Oid' = Oid /\ \A t \in Holder : Clock(t)' = Clock(t)
  BY <1>1 DEF Oid, Clock
<1>3. p.by \in Holder /\ p.old \in {NoOid} \cup Oid /\ p.new \in {NoOid} \cup Oid
  BY DEF IInv, LockTypeOK
<1>4. LockTypeOK'
  BY <1>1, <1>2, <1>3 DEF IInv, LockTypeOK, PushArrives
<1>5. ExpiryBound' /\ ExpiryOrder'
  BY <1>1, <1>2 DEF IInv, ExpiryBound, ExpiryOrder, Clock
<1>6. PushesSound'
  BY <1>1, <1>2 DEF IInv, PushesSound, ProposalSound, DeletionSound, Clock
<1>7. TokensOwn'
  BY <1>1 DEF IInv, TokensOwn
<1>8. HoldersProtected'
  <2> SUFFICES ASSUME NEW s \in Holder, HoldsLease(s)
               PROVE  ref' # NoOid /\ objects[ref'].session = s /\ owned[s] <= ref'
    BY <1>1, <1>2 DEF HoldersProtected, Protected, HoldsLease, LeaseValid
  <2>1. ref # NoOid /\ objects[ref].session = s /\ owned[s] <= ref
    BY DEF IInv, HoldersProtected, Protected
  <2>2. CASE p.old # ref
    BY <2>1, <2>2, <1>1
  <2>3. CASE p.old = ref
    <3>1. ProposalSound(p) /\ DeletionSound(p)
      BY DEF IInv, PushesSound
    <3>2. /\ owned[s] \in Oid /\ ref \in Oid
          /\ asked[s] \in Nat /\ asked[s] < owned[s]
      BY <2>1 DEF HoldsLease, IInv, LockTypeOK, Oid, NoOid
    (* A deletion was asked for by s itself, which then holds no lease. *)
    <3>3. p.new # NoOid
      BY <3>1, <3>2, <2>1, <2>3 DEF DeletionSound, Oid
    (* A takeover was prepared after the lease had run out at its owner. *)
    <3>4. p.by = s
      <4> SUFFICES ASSUME p.by # s PROVE FALSE
        OBVIOUS
      <4>1. Clock(p.by) >= objects[ref].exp + Grace
        BY <3>1, <3>3, <2>1, <2>3 DEF ProposalSound
      <4>2. Clock(p.by) - Clock(s) <= Grace
        BY <1>3, ClockAssumption, LockBoundAssumption DEF IInv, LockTypeOK, Clock
      <4>3. /\ objects[ref].exp \in Int /\ objects[owned[s]].exp \in Int
            /\ Clock(p.by) \in Int /\ Clock(s) \in Int /\ Grace \in Int
        <5>1. objects[ref] \in LockRecord /\ objects[owned[s]] \in LockRecord
          BY <3>2 DEF IInv, LockTypeOK, Oid
        <5>2. now \in Int BY LockBoundAssumption DEF IInv, LockTypeOK
        <5> QED BY <5>1, <5>2, <1>3, ClockAssumption, LeaseAssumption
              DEF LockRecord, Clock
      <4>4. objects[owned[s]].exp <= objects[ref].exp
        <5>1. CASE owned[s] = ref
          BY <5>1, <4>3
        <5>2. CASE owned[s] < ref
          <6>1. objects[owned[s]].session = objects[ref].session
            BY <2>1 DEF IInv, TokensOwn, HoldsLease
          <6> QED BY <6>1, <5>2, <3>2 DEF IInv, ExpiryOrder
        <5> QED BY <5>1, <5>2, <3>2, <2>1 DEF Oid
      <4>5. Clock(s) < objects[owned[s]].exp
        BY DEF HoldsLease, LeaseValid
      <4> QED BY <4>1, <4>2, <4>3, <4>4, <4>5
    <3> QED BY <3>1, <3>2, <3>3, <3>4, <2>1, <2>3, <1>1, <1>3
          DEF ProposalSound, Oid, NoOid
  <2> QED BY <2>2, <2>3
<1> QED BY <1>4, <1>5, <1>6, <1>7, <1>8 DEF IInv

(* The deletion of the lock: the session then holds no lease any more. *)
LEMMA ReleaseBeginStep ==
    ASSUME IInv, NEW s \in Holder, ReleaseBegin(s)
    PROVE  IInv'
<1>1. /\ UNCHANGED <<now, objects, ref, owned, pendingTokens, released, landed>>
      /\ pushes' = pushes \cup {[by |-> s, old |-> ref, new |-> NoOid]}
      /\ asked' = [asked EXCEPT ![s] = IF ref > @ THEN ref ELSE @]
      /\ op' = [op EXCEPT ![s] = Call("release", ref)]
      /\ ref # NoOid /\ MatchesToken(s, ref)
  BY DEF ReleaseBegin
<1>2. Oid' = Oid /\ \A t \in Holder : Clock(t)' = Clock(t)
  BY <1>1 DEF Oid, Clock
<1>3. ref \in Oid /\ objects[ref].session = s
  BY <1>1 DEF IInv, LockTypeOK, TokensOwn, MatchesToken
<1>4. \A t \in Holder : asked[t] <= asked'[t] /\ (t = s => ref <= asked'[t])
  BY <1>1, <1>3 DEF IInv, LockTypeOK, Oid, NoOid
<1>5. LockTypeOK'
  BY <1>1, <1>2, <1>3 DEF IInv, LockTypeOK, OpKind, Call
<1>6. ExpiryBound' /\ ExpiryOrder'
  BY <1>1, <1>2 DEF IInv, ExpiryBound, ExpiryOrder, Clock
<1>7. PushesSound'
  <2> SUFFICES ASSUME NEW p \in pushes'
               PROVE  ProposalSound(p)' /\ DeletionSound(p)'
    BY DEF PushesSound
  <2>1. CASE p \in pushes
    <3>1. ProposalSound(p) /\ DeletionSound(p) /\ p.by \in Holder
          /\ p.old \in Nat /\ asked[p.by] \in Nat /\ asked'[p.by] \in Nat
      BY <2>1, <1>5, <1>2 DEF IInv, PushesSound, LockTypeOK, Oid, NoOid
    <3> QED BY <3>1, <1>1, <1>2, <1>4 DEF ProposalSound, DeletionSound
  <2>2. CASE p = [by |-> s, old |-> ref, new |-> NoOid]
    BY <2>2, <1>1, <1>3, <1>4 DEF ProposalSound, DeletionSound
  <2> QED BY <2>1, <2>2, <1>1
<1>8. TokensOwn'
  BY <1>1, <1>3 DEF IInv, LockTypeOK, TokensOwn, Call
<1>9. HoldersProtected'
  <2> SUFFICES ASSUME NEW t \in Holder, HoldsLease(t)' PROVE Protected(t)'
    BY DEF HoldersProtected, Protected
  <2>1. owned[t] \in Nat /\ asked[t] \in Nat /\ asked'[t] \in Nat
    BY <1>5, <1>2 DEF IInv, LockTypeOK, Oid, NoOid
  <2>2. HoldsLease(t)
    BY <2>1, <1>1, <1>4 DEF HoldsLease, LeaseValid, Clock
  <2> QED BY <2>2, <1>1 DEF IInv, HoldersProtected, Protected
<1> QED BY <1>5, <1>6, <1>7, <1>8, <1>9 DEF IInv

(* Time passes: leases may run out, clocks never move back. *)
LEMMA TickStep == IInv /\ Tick => IInv'
<1> SUFFICES ASSUME IInv, Tick PROVE IInv'
  OBVIOUS
<1>1. UNCHANGED <<objects, ref, pushes, owned, pendingTokens, released, op,
                  landed, asked>>
  BY DEF Tick
<1>2. now \in Int /\ now' = now + 1 /\ now' \in 0 .. MaxTime
  BY LockBoundAssumption DEF IInv, LockTypeOK, Tick
<1>3. Oid' = Oid BY <1>1 DEF Oid
<1>4. \A t \in Holder : /\ Clock(t) \in Int
                         /\ Clock(t)' = Clock(t) + 1
  BY <1>2, ClockAssumption DEF Clock
<1>5. \A i \in Oid : objects[i].session \in Holder /\ objects[i].exp \in Int
  <2>1. \A i \in Oid : objects[i] \in LockRecord BY DEF IInv, LockTypeOK, Oid
  <2> QED BY <2>1 DEF LockRecord
<1>6. LockTypeOK' BY <1>1, <1>2, <1>3 DEF IInv, LockTypeOK
<1>7. ExpiryBound'
  <2> SUFFICES ASSUME NEW i \in Oid
               PROVE  objects[i].exp <= Clock(objects[i].session)' + Lease
    BY <1>1, <1>3 DEF ExpiryBound, Clock
  <2>1. objects[i].exp <= Clock(objects[i].session) + Lease
    BY DEF IInv, ExpiryBound
  <2>2. objects[i].session \in Holder /\ objects[i].exp \in Int
    BY <1>5
  <2> DEFINE t == objects[i].session
  <2>3. Clock(t) \in Int /\ Clock(t)' = Clock(t) + 1
    <3>1. Offset[t] \in Int BY <2>2, ClockAssumption
    <3> QED BY <3>1, <1>1, <1>2 DEF Clock
  <2> QED BY <2>1, <2>2, <2>3, LeaseAssumption
<1>8. ExpiryOrder' BY <1>1, <1>3 DEF IInv, ExpiryOrder
<1>9. PushesSound'
  <2> SUFFICES ASSUME NEW p \in pushes
               PROVE  ProposalSound(p)' /\ DeletionSound(p)'
    BY <1>1 DEF PushesSound
  <2>1. ProposalSound(p) /\ DeletionSound(p) /\ p.by \in Holder
        /\ p.old \in {NoOid} \cup Oid
    BY DEF IInv, PushesSound, LockTypeOK
  <2>2. DeletionSound(p)' BY <2>1, <1>1 DEF DeletionSound
  <2>3. ProposalSound(p)'
    BY <2>1, <1>1, <1>4, <1>5, LeaseAssumption DEF ProposalSound
  <2> QED BY <2>2, <2>3
<1>10. TokensOwn' BY <1>1 DEF IInv, TokensOwn
<1>11. HoldersProtected'
  <2> SUFFICES ASSUME NEW t \in Holder, HoldsLease(t)' PROVE Protected(t)'
    BY DEF HoldersProtected, Protected
  <2>1. owned[t] \in Oid
    BY <1>1 DEF HoldsLease, IInv, LockTypeOK
  <2>2. HoldsLease(t)
    BY <2>1, <1>1, <1>4, <1>5 DEF HoldsLease, LeaseValid
  <2> QED BY <2>2, <1>1 DEF IInv, HoldersProtected, Protected
<1> QED BY <1>6, <1>7, <1>8, <1>9, <1>10, <1>11 DEF IInv

-----------------------------------------------------------------------------
(* Every step of the specification preserves the inductive invariant. *)
LEMMA StepInvariant == IInv /\ [LockNext]_lockVars => IInv'
<1> SUFFICES ASSUME IInv, [LockNext]_lockVars PROVE IInv'
  OBVIOUS
<1>0. /\ ref \in {NoOid} \cup Oid
      /\ \A s \in Holder : /\ op[s] \in [kind : OpKind, oid : {NoOid} \cup Oid]
                           /\ owned[s] \in {NoOid} \cup Oid
                           /\ pendingTokens[s] \subseteq Oid
  BY DEF IInv, LockTypeOK
<1>1. ASSUME NEW s \in Holder, AcquireBegin(s) PROVE IInv'
  <2>1. NewLock(s) \in LockRecord
    <3>1. Clock(s) \in Int
      BY LockBoundAssumption, ClockAssumption DEF IInv, LockTypeOK, Clock
    <3> QED BY <3>1, LeaseAssumption DEF NewLock, LockRecord
  <2>2. NewLock(s).session = s /\ NewLock(s).exp = Clock(s) + Lease
    BY DEF NewLock
  <2>3. ref # NoOid /\ objects[ref].session # s
           => Clock(s) >= objects[ref].exp + Grace
    BY <1>1 DEF AcquireBegin, MayAcquire, Reclaimable
  <2> QED BY <1>1, <2>1, <2>2, <2>3, ProposalStep DEF AcquireBegin
<1>2. ASSUME NEW s \in Holder, RenewBegin(s) PROVE IInv'
  <2>1. ref \in Oid /\ objects[ref].session = s /\ objects[ref] \in LockRecord
    BY <1>0, <1>2 DEF RenewBegin, MayRenew, IInv, LockTypeOK, Oid
  <2>2. Clock(s) + Lease \in Int
    BY LockBoundAssumption, ClockAssumption, LeaseAssumption DEF IInv, LockTypeOK, Clock
  <2>3. RenewedLock(s) \in LockRecord
    BY <2>1, <2>2 DEF RenewedLock, LockRecord
  <2>4. RenewedLock(s).session = s /\ RenewedLock(s).exp = Clock(s) + Lease
    BY <2>1 DEF RenewedLock, LockRecord
  <2> QED BY <1>2, <2>1, <2>3, <2>4, ProposalStep DEF RenewBegin
<1>3. ASSUME NEW s \in Holder, RenewAcknowledged(s) PROVE IInv'
  <2>1. LockTypeOK' BY <1>3, <1>0 DEF RenewAcknowledged, IInv, LockTypeOK, OpKind, Oid
  <2> QED BY <1>3, <1>0, <2>1, LocalStep DEF RenewAcknowledged, Call, IInv, LockTypeOK
<1>4. ASSUME NEW s \in Holder, RenewFails(s) PROVE IInv'
  <2>1. LockTypeOK' BY <1>4, <1>0 DEF RenewFails, IInv, LockTypeOK, OpKind, Oid, Idle, Call
  <2> QED BY <1>4, <1>0, <2>1, LocalStep DEF RenewFails, Idle, Call, IInv, LockTypeOK
<1>5. ASSUME NEW s \in Holder, VerifyConfirmed(s) PROVE IInv'
  <2>1. ref \in Oid /\ objects[ref].session = s
    BY <1>5, <1>0 DEF VerifyConfirmed, IInv, LockTypeOK, TokensOwn, Oid, NoOid,
                      MayRenew, LeaseValid
  <2>2. LockTypeOK'
    BY <1>5, <1>0, <2>1 DEF VerifyConfirmed, IInv, LockTypeOK, OpKind, Oid, Idle, Call
  <2> QED BY <1>5, <1>0, <2>1, <2>2, LocalStep
        DEF VerifyConfirmed, Idle, Call, IInv, LockTypeOK, NoOid, Oid
<1>6. ASSUME NEW s \in Holder, VerifyFails(s) PROVE IInv'
  <2>1. LockTypeOK' BY <1>6, <1>0 DEF VerifyFails, IInv, LockTypeOK, OpKind, Oid, Idle, Call
  <2> QED BY <1>6, <1>0, <2>1, LocalStep DEF VerifyFails, Idle, Call, IInv, LockTypeOK
<1>7. ASSUME NEW s \in Holder, ReleaseAbsent(s) PROVE IInv'
  <2>1. LockTypeOK'
    BY <1>7, <1>0 DEF ReleaseAbsent, ForgetTokens, KnownTokens, IInv, LockTypeOK, Oid
  <2> QED BY <1>7, <1>0, <2>1, LocalStep
        DEF ReleaseAbsent, ForgetTokens, IInv, LockTypeOK
<1>8. ASSUME NEW s \in Holder, ReleaseBegin(s) PROVE IInv'
  BY <1>8, ReleaseBeginStep
<1>9. ASSUME NEW s \in Holder, ReleaseConfirmed(s) PROVE IInv'
  <2>1. LockTypeOK'
    BY <1>9, <1>0
    DEF ReleaseConfirmed, ForgetTokens, IInv, LockTypeOK, OpKind, Oid, Idle, Call
  <2> QED BY <1>9, <1>0, <2>1, LocalStep
        DEF ReleaseConfirmed, ForgetTokens, Idle, Call, IInv, LockTypeOK
<1>10. ASSUME NEW s \in Holder, ReleaseUnconfirmed(s) PROVE IInv'
  <2>1. LockTypeOK'
    BY <1>10, <1>0 DEF ReleaseUnconfirmed, IInv, LockTypeOK, OpKind, Oid, Idle, Call
  <2> QED BY <1>10, <1>0, <2>1, LocalStep
        DEF ReleaseUnconfirmed, Idle, Call, IInv, LockTypeOK
<1>11. ASSUME NEW s \in Holder, LockCrash(s) PROVE IInv'
  <2>1. LockTypeOK' BY <1>11, <1>0 DEF LockCrash, IInv, LockTypeOK, OpKind, Oid, Idle, Call
  <2> QED BY <1>11, <1>0, <2>1, LocalStep DEF LockCrash, Call, IInv, LockTypeOK
<1>12. ASSUME NEW p \in pushes, PushArrives(p) PROVE IInv'
  BY <1>12, PushArrivesStep
<1>13. CASE Tick
  BY <1>13, TickStep
<1>14. CASE UNCHANGED lockVars
  BY <1>14
  DEF lockVars, IInv, LockTypeOK, ExpiryBound, ExpiryOrder, PushesSound, ProposalSound,
      DeletionSound, TokensOwn, HoldersProtected, Protected, HoldsLease,
      LeaseValid, Clock, Oid
<1> QED BY <1>1, <1>2, <1>3, <1>4, <1>5, <1>6, <1>7, <1>8, <1>9, <1>10, <1>11,
           <1>12, <1>13, <1>14
        DEF LockNext, Renew, Verify, Release, Network

THEOREM InductiveInvariant == LockSpec => []IInv
  BY InitInvariant, StepInvariant, PTL DEF LockSpec

(* The state of the lock, the tokens and the network stays well formed. *)
THEOREM TypeCorrect == LockSpec => []LockTypeOK
  BY InductiveInvariant, PTL DEF IInv

(* Two sessions never work under the lock at once, for any lease, any       *)
(* number of commits and any clocks that agree up to the tolerance.         *)
THEOREM Exclusion == LockSpec => []LeaseExclusion
<1>1. IInv => LeaseExclusion
  BY DEF IInv, HoldersProtected, Protected, LeaseExclusion
<1> QED BY <1>1, InductiveInvariant, PTL

-----------------------------------------------------------------------------
(* Only the arrival of a push moves the ref; no step rewrites a commit. *)
LEMMA RefMovesByPush ==
    ASSUME IInv, [LockNext]_lockVars, \A p \in pushes : ~PushArrives(p)
    PROVE  ref' = ref /\ \A i \in Oid : objects'[i] = objects[i]
<1>1. ASSUME NEW s \in Holder, NEW r, Propose(s, r)
      PROVE  \A i \in Oid : objects'[i] = objects[i]
  BY <1>1 DEF Propose, Oid, IInv, LockTypeOK
<1>2. CASE \E s \in Holder : AcquireBegin(s) \/ RenewBegin(s)
  BY <1>1, <1>2 DEF AcquireBegin, RenewBegin
<1>3. CASE UNCHANGED <<ref, objects>>
  BY <1>3
<1> QED BY <1>2, <1>3
        DEF LockNext, lockVars, Renew, Verify, Release, Network, RenewAcknowledged,
            RenewFails, VerifyConfirmed, VerifyFails, ReleaseAbsent,
            ReleaseBegin, ReleaseConfirmed, ReleaseUnconfirmed, LockCrash, Tick

(* What the arrival of a push may do to the lock of another session. *)
LEMMA PushEndsTenure ==
    ASSUME IInv, NEW p \in pushes, PushArrives(p), NEW s \in Holder,
           ref # NoOid, objects[ref].session = s,
           ref' # NoOid => objects[ref'].session # s
    PROVE  (ref' = NoOid /\ asked[s] >= ref) \/ Clock(s) >= objects[ref].exp
<1>1. p.by \in Holder /\ p.old \in {NoOid} \cup Oid /\ p.new \in {NoOid} \cup Oid
      /\ ref \in Oid /\ asked[s] \in Nat /\ objects[ref] \in LockRecord
  BY DEF IInv, LockTypeOK, Oid, NoOid
<1>2. p.old = ref /\ ref' = p.new
  BY DEF PushArrives
<1>3. ProposalSound(p) /\ DeletionSound(p)
  BY DEF IInv, PushesSound
<1>4. CASE p.new = NoOid
  BY <1>1, <1>2, <1>3, <1>4 DEF DeletionSound, Oid
<1>5. CASE p.new # NoOid
  <2>1. Clock(p.by) >= objects[ref].exp + Grace
    BY <1>2, <1>3, <1>5 DEF ProposalSound
  <2>2. now \in Int BY LockBoundAssumption DEF IInv, LockTypeOK
  <2>3. Offset[p.by] - Offset[s] <= Grace /\ Offset[p.by] \in Int /\ Offset[s] \in Int
    BY <1>1, ClockAssumption
  <2>4. objects[ref].exp \in Int BY <1>1 DEF LockRecord
  <2> QED BY <2>1, <2>2, <2>3, <2>4, LeaseAssumption DEF Clock
<1> QED BY <1>4, <1>5

(* No session loses its lock before it has asked for the deletion or its    *)
(* lease has run out by its own clock.                                      *)
THEOREM TenureEnds == LockSpec => TenuresEndProperly
<1>1. IInv /\ [LockNext]_lockVars => [TenureEnd]_lockVars
  <2> SUFFICES ASSUME IInv, [LockNext]_lockVars, NEW s \in Holder,
                      ref # NoOid, objects[ref].session = s,
                      ref' # NoOid => objects'[ref'].session # s
               PROVE  (ref' = NoOid /\ asked[s] >= ref)
                         \/ Clock(s) >= objects[ref].exp
    BY DEF TenureEnd
  <2>1. ref \in Oid BY DEF IInv, LockTypeOK
  <2>2. CASE \E p \in pushes : PushArrives(p)
    <3>1. PICK p \in pushes : PushArrives(p) BY <2>2
    <3>2. objects' = objects BY <3>1 DEF PushArrives
    <3> QED BY <3>1, <3>2, PushEndsTenure
  <2>3. CASE \A p \in pushes : ~PushArrives(p)
    BY <2>1, <2>3, RefMovesByPush
  <2> QED BY <2>2, <2>3
<1> QED BY <1>1, InductiveInvariant, PTL DEF TenuresEndProperly, LockSpec

(* While one session keeps the lock, each renewal that lands expires no     *)
(* earlier than what it replaces, and no late push of an earlier renewal    *)
(* lands on a later one.                                                    *)
THEOREM RenewalsExtend == LockSpec => LeasesOnlyExtend
<1>1. IInv /\ [LockNext]_lockVars => [LeaseExtends]_lockVars
  <2> SUFFICES ASSUME IInv, [LockNext]_lockVars, ref # NoOid, ref' # NoOid,
                      objects'[ref'].session = objects[ref].session
               PROVE  objects'[ref'].exp >= objects[ref].exp
    BY DEF LeaseExtends
  <2>1. ref \in Oid /\ \A i \in Oid : objects[i].exp \in Int
    <3>1. ref \in Oid BY DEF IInv, LockTypeOK
    <3>2. \A i \in Oid : objects[i] \in LockRecord BY DEF IInv, LockTypeOK, Oid
    <3> QED BY <3>1, <3>2 DEF LockRecord
  <2>2. CASE \E p \in pushes : PushArrives(p)
    <3>1. PICK p \in pushes : PushArrives(p) BY <2>2
    <3>2. objects' = objects BY <3>1 DEF PushArrives
    <3>3. CASE ref' = ref
      BY <2>1, <3>2, <3>3
    <3>4. CASE ref' # ref
      <4>1. p.old = ref /\ p.new = ref' BY <3>1, <3>4 DEF PushArrives
      <4>2. p.new \in Oid BY <4>1 DEF IInv, LockTypeOK
      <4>3. p.old < p.new BY <4>1 DEF IInv, PushesSound, ProposalSound
      <4>4. objects[ref].exp <= objects[ref'].exp
        BY <2>1, <3>2, <4>1, <4>2, <4>3 DEF IInv, ExpiryOrder
      <4> QED BY <2>1, <3>2, <4>1, <4>2, <4>4
    <3> QED BY <3>3, <3>4
  <2>3. CASE \A p \in pushes : ~PushArrives(p)
    BY <2>1, <2>3, RefMovesByPush
  <2> QED BY <2>2, <2>3
<1> QED BY <1>1, InductiveInvariant, PTL DEF LeasesOnlyExtend, LockSpec
=============================================================================
