-------------------------- MODULE WriteAccessProofs --------------------------
(***************************************************************************)
(* Proofs about the two components that decide who may write next: the     *)
(* remote queue first (WriteQueue), then the manager of a session that     *)
(* waits in it and takes the lock (Collaboration).                         *)
(***************************************************************************)
EXTENDS WriteQueue, Collaboration, FiniteSetTheorems, SequenceTheorems,
        WellFoundedInduction, TLAPS

-----------------------------------------------------------------------------
(***************************************************************************)
(* Proofs about WriteQueue, for any sessions, requests, clocks, numbers of *)
(* commits and of attempts.                                                *)
(*                                                                         *)
(* CancelIsFinal is not inductive: a push on its way could bring a request *)
(* back.  It cannot, once the ref has moved to the commit of the           *)
(* cancellation: a push lands only on the ref it was prepared against,     *)
(* every commit becomes the ref at most once, and whatever is prepared     *)
(* against the commit of the cancellation, or a later one, is made from a  *)
(* queue without the request.  Gone is that stronger fact.                 *)
(*                                                                         *)
(* Who is served first is decided when a push is prepared and happens when *)
(* it lands.  In between time passes, so that an entry may go stale, and a *)
(* cancellation may begin, but nothing that makes the decision wrong: the  *)
(* invariant InTurn says so of each push.  That a request which went stale *)
(* does not come back in an earlier place needs that an entry is never     *)
(* older than its request (Stamped).                                       *)
(***************************************************************************)

-----------------------------------------------------------------------------
(* The inductive invariant. *)

(* A commit adds at most one to the sequence numbers. *)
SeqBound == \A c \in Oid : \A e \in commits[c] : e.seq <= c

(* A push is prepared against a ref that was there, for a commit of its own  *)
(* that is not the ref before the push arrives.                              *)
PushesFresh ==
    /\ ref \in landed \cup {NoOid}
    /\ \A p \in pushes : p.old \in landed \cup {NoOid} /\ p.new \notin landed
    /\ \A p, q \in pushes : p.new = q.new => p = q

(* A session works on a request of its own, in the phase of that request. *)
InPhase(s) ==
    op[s] # Idle =>
        /\ op[s].kind # "idle"
        /\ op[s].req \in Request
        /\ op[s].cand \in Oid
        /\ Owner[op[s].req] = s
        /\ life[op[s].req] = IF op[s].kind = "cancel" THEN "cancelling" ELSE "asked"

OneEach(list) == \A e, f \in list : Owner[e.req] = Owner[f.req] => e = f
CommitsOneEach == \A c \in Oid : OneEach(commits[c])

Without(r, list) == \A e \in list : e.req # r

(* No push that can still land brings r into the queue. *)
Gone(r) ==
    /\ Without(r, Content(ref))
    /\ \A p \in pushes : p.old = ref => Without(r, commits[p.new])

CandidatesWithout ==
    \A s \in Session :
        op[s].kind = "cancel" => Without(op[s].req, commits[op[s].cand])

Settled(r) ==
    \/ life[r] = "cancelled"
    \/ \E s \in Session : /\ op[s].kind = "cancel"
                          /\ op[s].req = r
                          /\ op[s].cand \in landed

SettledGone == \A r \in Request : Settled(r) => Gone(r)

IInv == /\ TypeOK
        /\ SeqBound
        /\ PushesFresh
        /\ \A s \in Session : InPhase(s)
        /\ CommitsOneEach
        /\ CandidatesWithout
        /\ SettledGone

-----------------------------------------------------------------------------
(* A bounded, non-empty set of naturals has a maximum. *)
LEMMA BoundedMax ==
    ASSUME NEW S, S \subseteq Nat, S # {}, NEW b \in Nat, \A x \in S : x <= b
    PROVE  \E m \in S : \A y \in S : y <= m
<1> DEFINE T == {b - x : x \in S}
<1>1. T \subseteq Nat /\ T # {}
  <2>1. \A x \in S : x \in Nat /\ x <= b
    OBVIOUS
  <2>2. \A x \in S : b - x \in Nat
    BY <2>1
  <2> QED BY <2>2
<1>2. PICK m \in T : \A y \in T : ~(<<y, m>> \in OpToRel(<, Nat))
  <2> HIDE DEF T
  <2> QED BY <1>1, NatLessThanWellFounded, WFMin
<1>3. \A y \in T : ~(y < m)
  BY <1>1, <1>2 DEF OpToRel
<1>4. PICK x \in S : m = b - x
  OBVIOUS
<1>5. \A y \in S : x >= y
  <2> TAKE y \in S
  <2>1. b - y \in T
    OBVIOUS
  <2>2. ~(b - y < b - x)
    BY <2>1, <1>3, <1>4
  <2> QED BY <2>2
<1> QED BY <1>5

LEMMA MaxOfBounded ==
    ASSUME NEW S, S \subseteq Nat, S # {}, NEW b \in Nat, \A x \in S : x <= b
    PROVE  Max(S) \in S
<1>1. \E m \in S : \A y \in S : m >= y
  BY BoundedMax
<1> QED BY <1>1 DEF Max

LEMMA NextSeqBound ==
    ASSUME NEW list \in SUBSET Entry, NEW b \in Nat,
           \A e \in list : e.seq <= b
    PROVE  NextSeq(list) \in Nat /\ NextSeq(list) <= b + 1
<1>1. CASE list = {}
  BY <1>1 DEF NextSeq
<1>2. CASE list # {}
  <2> DEFINE S == {e.seq : e \in list}
  <2>1. \A e \in list : e.seq \in Nat
    BY DEF Entry
  <2>2. S \subseteq Nat /\ S # {} /\ \A x \in S : x <= b
    BY <1>2, <2>1
  <2>3. Max(S) \in S
    <3> HIDE DEF S
    <3> QED BY <2>2, MaxOfBounded
  <2>4. Max(S) \in Nat /\ Max(S) <= b
    BY <2>2, <2>3
  <2> QED BY <1>2, <2>4 DEF NextSeq
<1> QED BY <1>1, <1>2

-----------------------------------------------------------------------------
(* What an attempt writes. *)

NewContent(kind, s, r) == Live(s, Mutated(kind, s, r, Live(s, Content(ref))))

LEMMA ClockType == \A s \in Session : TypeOK => Clock(s) \in Int
  BY TimeAssumption, BoundAssumption DEF TypeOK, Clock

LEMMA ContentType ==
    ASSUME TypeOK, SeqBound
    PROVE  /\ Content(ref) \in SUBSET Entry
           /\ \A e \in Content(ref) : e.seq <= Len(commits)
<1>1. Len(commits) \in Nat
  BY DEF TypeOK
<1>2. CASE ref = NoOid
  BY <1>2 DEF Content
<1>3. CASE ref # NoOid
  <2>1. ref \in Oid /\ commits[ref] \in SUBSET Entry
    BY <1>3 DEF TypeOK, Oid, NoOid
  <2>2. \A e \in commits[ref] : e.seq <= ref
    BY <2>1 DEF SeqBound
  <2>3. \A e \in commits[ref] : e.seq \in Nat
    BY <2>1 DEF Entry
  <2> QED BY <1>1, <1>3, <2>1, <2>2, <2>3 DEF Content, Oid
<1> QED BY <1>2, <1>3

LEMMA NewContentType ==
    ASSUME TypeOK, SeqBound,
           NEW s \in Session, NEW r \in Request, NEW kind \in OpKind \ {"idle"}
    PROVE  /\ NewContent(kind, s, r) \in SUBSET Entry
           /\ \A e \in NewContent(kind, s, r) : e.seq <= Len(commits) + 1
<1> DEFINE list == Live(s, Content(ref))
<1> DEFINE mutated == Mutated(kind, s, r, list)
<1>1. Len(commits) \in Nat /\ Clock(s) \in Int /\ made[r] \in Int
  BY ClockType DEF TypeOK
<1>2. list \in SUBSET Entry /\ \A e \in list : e.seq <= Len(commits)
  BY ContentType DEF Live
<1>3. \A e \in list : e.seq \in Nat /\ e.seq <= Len(commits) + 1
  BY <1>1, <1>2 DEF Entry
<1>4. mutated \in SUBSET Entry /\ \A e \in mutated : e.seq <= Len(commits) + 1
  <2> HIDE DEF list
  <2>1. CASE kind = "enqueue"
    <3> DEFINE new == [req |-> r, seq |-> NextSeq(list), stamp |-> made[r]]
    <3>1. NextSeq(list) \in Nat /\ NextSeq(list) <= Len(commits) + 1
      BY <1>1, <1>2, NextSeqBound
    <3>2. new \in Entry /\ new.seq <= Len(commits) + 1
      BY <1>1, <3>1 DEF Entry
    <3>3. mutated = list \cup {new}
      BY <2>1 DEF Mutated
    <3> QED BY <1>2, <1>3, <3>2, <3>3
  <2>2. CASE kind = "refresh"
    <3>1. \A e \in list : Refresh(e, s) \in Entry
                           /\ Refresh(e, s).seq <= Len(commits) + 1
      BY <1>1, <1>2, <1>3 DEF Refresh, Entry
    <3>2. mutated = {IF e.req = r THEN Refresh(e, s) ELSE e : e \in list}
      BY <2>2 DEF Mutated
    <3> QED BY <1>2, <1>3, <3>1, <3>2
  <2>3. CASE kind \in {"cancel", "consume"}
    <3>1. mutated \subseteq list
      BY <2>3 DEF Mutated
    <3> QED BY <1>2, <1>3, <3>1
  <2> QED BY <2>1, <2>2, <2>3 DEF OpKind
<1> QED BY <1>4 DEF NewContent, Live

(* A request gets into a queue only by being enqueued. *)
LEMMA NewContentWithout ==
    ASSUME NEW kind \in OpKind \ {"idle"}, NEW s \in Session,
           NEW r \in Request, NEW q \in Request,
           Without(q, Content(ref)), kind = "enqueue" => r # q
    PROVE  Without(q, NewContent(kind, s, r))
<1> DEFINE list == Live(s, Content(ref))
<1>1. Without(q, list)
  BY DEF Without, Live
<1>2. Without(q, Mutated(kind, s, r, list))
  <2> HIDE DEF list
  <2>1. CASE kind = "enqueue"
    BY <1>1, <2>1 DEF Without, Mutated
  <2>2. CASE kind = "refresh"
    BY <1>1, <2>2 DEF Without, Mutated, Refresh
  <2>3. CASE kind \in {"cancel", "consume"}
    BY <1>1, <2>3 DEF Without, Mutated
  <2> QED BY <2>1, <2>2, <2>3 DEF OpKind
<1> QED BY <1>2 DEF NewContent, Live, Without

LEMMA CancelContentWithout ==
    ASSUME NEW s \in Session, NEW r \in Request
    PROVE  Without(r, NewContent("cancel", s, r))
  BY DEF NewContent, Mutated, Live, OfRequest, Without

(* A request is appended only when its session has none in the queue. *)
LEMMA NewContentOneEach ==
    ASSUME NEW kind \in OpKind \ {"idle"}, NEW s \in Session, NEW r \in Request,
           Owner[r] = s, OneEach(Content(ref)),
           WorthWriting(kind, s, r, Live(s, Content(ref)))
    PROVE  OneEach(NewContent(kind, s, r))
<1> DEFINE list == Live(s, Content(ref))
<1>1. OneEach(list)
  BY DEF OneEach, Live
<1>2. OneEach(Mutated(kind, s, r, list))
  <2> HIDE DEF list
  <2>1. CASE kind = "enqueue"
    <3>1. \A e \in list : Owner[e.req] # s
      BY <2>1 DEF WorthWriting, OfSession, list
    <3> QED BY <1>1, <2>1, <3>1 DEF OneEach, Mutated
  <2>2. CASE kind = "refresh"
    BY <1>1, <2>2 DEF OneEach, Mutated, Refresh
  <2>3. CASE kind \in {"cancel", "consume"}
    BY <1>1, <2>3 DEF OneEach, Mutated
  <2> QED BY <2>1, <2>2, <2>3 DEF OpKind
<1> QED BY <1>2 DEF NewContent, Live, OneEach

-----------------------------------------------------------------------------
(* An attempt preserves the invariant, whichever operation it belongs to. *)

(* How an operation of s on its request r stands when it makes an attempt. *)
Attempting(kind, s, r, tries) ==
    /\ s \in Session /\ r \in Request /\ Owner[r] = s
    /\ kind \in OpKind \ {"idle"} /\ tries \in 1 .. Retries
    /\ op[s] = Idle \/ (op[s].kind = kind /\ op[s].req = r)
    /\ Retained(r)
    /\ life' = [life EXCEPT ![r] = IF kind = "cancel" THEN "cancelling" ELSE @]
    /\ kind # "cancel" => life[r] = "asked"
    /\ Attempt(kind, s, r, tries)
    /\ UNCHANGED <<now, ref, made, landed>>

Writes(kind, s, r) == WorthWriting(kind, s, r, Live(s, Content(ref)))

(* The old commits stay what they are. *)
LEMMA CommitAppended ==
    ASSUME TypeOK, NEW c \in SUBSET Entry, commits' = Append(commits, c)
    PROVE  /\ commits' \in Seq(SUBSET Entry)
           /\ Len(commits) \in Nat
           /\ Len(commits') = Len(commits) + 1
           /\ \A i \in Oid : commits'[i] = commits[i]
           /\ commits'[Len(commits) + 1] = c
           /\ Oid' = Oid \cup {Len(commits) + 1}
           /\ Len(commits) + 1 \notin Oid
  BY DEF TypeOK, Oid

LEMMA AttemptWrites ==
    ASSUME TypeOK, SeqBound,
           NEW kind, NEW s, NEW r, NEW tries,
           Attempting(kind, s, r, tries), Writes(kind, s, r)
    PROVE  /\ Len(commits) < MaxCommits
           /\ commits' = Append(commits, NewContent(kind, s, r))
           /\ NewContent(kind, s, r) \in SUBSET Entry
           /\ \A e \in NewContent(kind, s, r) : e.seq <= Len(commits) + 1
           /\ pushes' = pushes \cup {[old |-> ref, new |-> Len(commits) + 1]}
           /\ op' = [op EXCEPT ![s] = Call(kind, r, Len(commits) + 1, tries)]
<1>1. /\ Len(commits) < MaxCommits
      /\ commits' = Append(commits, NewContent(kind, s, r))
      /\ pushes' = pushes \cup {[old |-> ref, new |-> Len(commits) + 1]}
      /\ op' = [op EXCEPT ![s] = Call(kind, r, Len(commits) + 1, tries)]
  BY DEF Attempting, Attempt, Writes, NewContent
<1> QED BY <1>1, NewContentType DEF Attempting

LEMMA AttemptPasses ==
    ASSUME NEW kind, NEW s, NEW r, NEW tries,
           Attempting(kind, s, r, tries), ~Writes(kind, s, r)
    PROVE  op' = [op EXCEPT ![s] = Idle] /\ UNCHANGED <<commits, pushes>>
  BY DEF Attempting, Attempt, Writes

LEMMA AttemptType ==
    ASSUME IInv, NEW kind, NEW s, NEW r, NEW tries,
           Attempting(kind, s, r, tries)
    PROVE  TypeOK'
<1>1. s \in Session /\ r \in Request /\ kind \in OpKind /\ tries \in 0 .. Retries
  BY BoundAssumption DEF Attempting
<1>2. life' \in [Request -> Life]
  BY DEF Attempting, IInv, TypeOK, Life
<1>3. now' = now /\ ref' = ref /\ made' = made /\ landed' = landed
  BY DEF Attempting
<1>4. CASE Writes(kind, s, r)
  <2> DEFINE new == Len(commits) + 1
  <2>1. /\ Len(commits) < MaxCommits
        /\ commits' = Append(commits, NewContent(kind, s, r))
        /\ NewContent(kind, s, r) \in SUBSET Entry
        /\ pushes' = pushes \cup {[old |-> ref, new |-> new]}
        /\ op' = [op EXCEPT ![s] = Call(kind, r, new, tries)]
    BY <1>4, AttemptWrites DEF IInv
  <2>2. /\ commits' \in Seq(SUBSET Entry)
        /\ Len(commits) \in Nat
        /\ Len(commits') = new
        /\ Oid' = Oid \cup {new}
    BY <2>1, CommitAppended DEF IInv
  <2>3. Len(commits') <= MaxCommits
    BY <2>1, <2>2, BoundAssumption
  <2>4. pushes' \subseteq [old : {NoOid} \cup Oid', new : Oid']
    BY <2>1, <2>2 DEF IInv, TypeOK
  <2>5. op' \in [Session -> [kind : OpKind, req : Request \cup {NoRequest},
                             cand : {NoOid} \cup Oid', tries : 0 .. Retries]]
    BY <1>1, <2>1, <2>2 DEF IInv, TypeOK, Call
  <2> QED BY <1>2, <1>3, <2>2, <2>3, <2>4, <2>5 DEF IInv, TypeOK
<1>5. CASE ~Writes(kind, s, r)
  <2>1. op' = [op EXCEPT ![s] = Idle] /\ UNCHANGED <<commits, pushes>>
    BY <1>5, AttemptPasses
  <2>2. op' \in [Session -> [kind : OpKind, req : Request \cup {NoRequest},
                             cand : {NoOid} \cup Oid, tries : 0 .. Retries]]
    BY <1>1, <2>1, BoundAssumption DEF IInv, TypeOK, Idle, Call, OpKind
  <2> QED BY <1>2, <1>3, <2>1, <2>2 DEF IInv, TypeOK, Oid
<1> QED BY <1>4, <1>5

LEMMA AttemptCommits ==
    ASSUME IInv, NEW kind, NEW s, NEW r, NEW tries,
           Attempting(kind, s, r, tries)
    PROVE  SeqBound' /\ CommitsOneEach'
<1>1. CASE Writes(kind, s, r)
  <2> DEFINE c == NewContent(kind, s, r)
  <2>1. /\ commits' = Append(commits, c)
        /\ c \in SUBSET Entry
        /\ \A e \in c : e.seq <= Len(commits) + 1
    BY <1>1, AttemptWrites DEF IInv
  <2>2. OneEach(Content(ref))
    BY DEF IInv, CommitsOneEach, Content, TypeOK, OneEach
  <2>3. OneEach(c)
    BY <1>1, <2>2, NewContentOneEach DEF Attempting, Writes
  <2> HIDE DEF c
  <2>4. /\ Len(commits) \in Nat
        /\ \A i \in Oid : commits'[i] = commits[i]
        /\ commits'[Len(commits) + 1] = c
        /\ Oid' = Oid \cup {Len(commits) + 1}
    BY <2>1, CommitAppended DEF IInv
  <2>5. SeqBound'
    BY <2>1, <2>4 DEF IInv, SeqBound
  <2>6. CommitsOneEach'
    BY <2>3, <2>4 DEF IInv, CommitsOneEach, OneEach
  <2> QED BY <2>5, <2>6
<1>2. CASE ~Writes(kind, s, r)
  BY <1>2, AttemptPasses DEF IInv, SeqBound, CommitsOneEach, OneEach, Oid
<1> QED BY <1>1, <1>2

LEMMA AttemptPushes ==
    ASSUME IInv, NEW kind, NEW s, NEW r, NEW tries,
           Attempting(kind, s, r, tries)
    PROVE  PushesFresh'
<1>1. ref' = ref /\ landed' = landed
  BY DEF Attempting
<1>2. CASE Writes(kind, s, r)
  <2>1. pushes' = pushes \cup {[old |-> ref, new |-> Len(commits) + 1]}
    BY <1>2, AttemptWrites DEF IInv
  <2>2. /\ Len(commits) \in Nat
        /\ Len(commits) + 1 \notin landed
        /\ \A p \in pushes : p.new # Len(commits) + 1
    BY DEF IInv, TypeOK, Oid
  <2> QED BY <1>1, <2>1, <2>2 DEF IInv, PushesFresh
<1>3. CASE ~Writes(kind, s, r)
  BY <1>1, <1>3, AttemptPasses DEF IInv, PushesFresh
<1> QED BY <1>2, <1>3

LEMMA AttemptPhase ==
    ASSUME IInv, NEW kind, NEW s, NEW r, NEW tries,
           Attempting(kind, s, r, tries)
    PROVE  \A t \in Session : InPhase(t)'
<1> SUFFICES ASSUME NEW t \in Session PROVE InPhase(t)'
  OBVIOUS
<1>1. /\ s \in Session /\ r \in Request /\ Owner[r] = s
      /\ kind \in OpKind \ {"idle"}
      /\ life' = [life EXCEPT ![r] = IF kind = "cancel" THEN "cancelling" ELSE @]
      /\ kind # "cancel" => life[r] = "asked"
      /\ life \in [Request -> Life]
  BY DEF Attempting, IInv, TypeOK
<1>2. InPhase(t)
  BY DEF IInv
<1>3. CASE t # s
  <2>1. op'[t] = op[t] /\ Oid \subseteq Oid'
    <3>1. CASE Writes(kind, s, r)
      <4>1. /\ op' = [op EXCEPT ![s] = Call(kind, r, Len(commits) + 1, tries)]
            /\ Oid' = Oid \cup {Len(commits) + 1}
        BY <3>1, AttemptWrites, CommitAppended DEF IInv
      <4> QED BY <1>3, <4>1 DEF IInv, TypeOK
    <3>2. CASE ~Writes(kind, s, r)
      BY <1>3, <3>2, AttemptPasses DEF IInv, TypeOK, Oid
    <3> QED BY <3>1, <3>2
  <2>2. op[t] # Idle => op[t].req # r /\ op[t].req \in Request
    BY <1>1, <1>2, <1>3 DEF InPhase
  <2>3. op[t] # Idle => life'[op[t].req] = life[op[t].req]
    BY <1>1, <2>2
  <2> QED BY <1>2, <2>1, <2>3 DEF InPhase, Idle
<1>4. CASE t = s
  <2>1. CASE Writes(kind, s, r)
    <3>1. /\ op' = [op EXCEPT ![s] = Call(kind, r, Len(commits) + 1, tries)]
          /\ Oid' = Oid \cup {Len(commits) + 1}
      BY <2>1, AttemptWrites, CommitAppended DEF IInv
    <3>2. op'[s] = Call(kind, r, Len(commits) + 1, tries)
      BY <1>1, <3>1 DEF IInv, TypeOK
    <3>3. life'[r] = IF kind = "cancel" THEN "cancelling" ELSE "asked"
      BY <1>1
    <3> QED BY <1>1, <1>4, <3>1, <3>2, <3>3 DEF InPhase, Call
  <2>2. CASE ~Writes(kind, s, r)
    <3>1. op'[s] = Idle
      BY <1>1, <2>2, AttemptPasses DEF IInv, TypeOK
    <3> QED BY <1>4, <3>1 DEF InPhase, Idle
  <2> QED BY <2>1, <2>2
<1> QED BY <1>3, <1>4

LEMMA AttemptCandidates ==
    ASSUME IInv, NEW kind, NEW s, NEW r, NEW tries,
           Attempting(kind, s, r, tries)
    PROVE  CandidatesWithout'
<1> SUFFICES ASSUME NEW t \in Session, op'[t].kind = "cancel"
             PROVE  Without(op'[t].req, commits'[op'[t].cand])
  BY DEF CandidatesWithout, Without
<1>1. s \in Session /\ r \in Request
  BY DEF Attempting
<1>2. CASE Writes(kind, s, r)
  <2>1. /\ commits' = Append(commits, NewContent(kind, s, r))
        /\ op' = [op EXCEPT ![s] = Call(kind, r, Len(commits) + 1, tries)]
        /\ \A i \in Oid : commits'[i] = commits[i]
        /\ commits'[Len(commits) + 1] = NewContent(kind, s, r)
    BY <1>2, AttemptWrites, CommitAppended DEF IInv
  <2>2. CASE t = s
    <3>1. op'[t] = Call(kind, r, Len(commits) + 1, tries)
      BY <2>1, <2>2 DEF IInv, TypeOK
    <3>2. /\ kind = "cancel" /\ op'[t].req = r /\ op'[t].cand = Len(commits) + 1
      BY <3>1 DEF Call
    <3> QED BY <1>1, <2>1, <3>2, CancelContentWithout
  <2>3. CASE t # s
    <3>1. op'[t] = op[t] /\ op[t] # Idle
      BY <2>1, <2>3 DEF IInv, TypeOK, Idle, Call
    <3>2. op[t].cand \in Oid /\ Without(op[t].req, commits[op[t].cand])
      BY <3>1 DEF IInv, InPhase, CandidatesWithout
    <3> QED BY <2>1, <3>1, <3>2
  <2> QED BY <2>2, <2>3
<1>3. CASE ~Writes(kind, s, r)
  <2>1. op'[t] = op[t] /\ commits' = commits
    BY <1>1, <1>3, AttemptPasses DEF IInv, TypeOK, Idle, Call
  <2> QED BY <2>1 DEF IInv, CandidatesWithout
<1> QED BY <1>2, <1>3

(* What is prepared against a queue without a request does not bring it in. *)
LEMMA GoneKept ==
    ASSUME IInv, NEW kind, NEW s, NEW r, NEW tries,
           Attempting(kind, s, r, tries),
           NEW q \in Request, Gone(q), kind = "enqueue" => r # q
    PROVE  Gone(q)'
<1>1. /\ s \in Session /\ r \in Request /\ ref' = ref
      /\ kind \in OpKind \ {"idle"}
  BY DEF Attempting
<1>2. CASE Writes(kind, s, r)
  <2> DEFINE c == NewContent(kind, s, r)
  <2>1. Without(q, c)
    BY <1>1, NewContentWithout DEF Gone
  <2>2. /\ commits' = Append(commits, c)
        /\ c \in SUBSET Entry
        /\ pushes' = pushes \cup {[old |-> ref, new |-> Len(commits) + 1]}
    BY <1>2, AttemptWrites DEF IInv
  <2> HIDE DEF c
  <2>3. /\ \A i \in Oid : commits'[i] = commits[i]
        /\ commits'[Len(commits) + 1] = c
    BY <2>2, CommitAppended DEF IInv
  <2>4. Content(ref)' = Content(ref)
    BY <1>1, <2>3 DEF Content, IInv, TypeOK
  <2>5. ASSUME NEW p \in pushes', p.old = ref'
        PROVE  Without(q, commits'[p.new])
    <3>1. CASE p \in pushes
      <4>1. p.new \in Oid
        BY <3>1 DEF IInv, TypeOK
      <4> QED BY <1>1, <2>3, <2>5, <3>1, <4>1 DEF Gone
    <3>2. CASE p = [old |-> ref, new |-> Len(commits) + 1]
      BY <2>1, <2>3, <3>2
    <3> QED BY <2>2, <3>1, <3>2
  <2> QED BY <2>4, <2>5 DEF Gone, Without
<1>3. CASE ~Writes(kind, s, r)
  BY <1>1, <1>3, AttemptPasses DEF Gone, Without, Content
<1> QED BY <1>2, <1>3

LEMMA AttemptSettled ==
    ASSUME IInv, NEW kind, NEW s, NEW r, NEW tries,
           Attempting(kind, s, r, tries)
    PROVE  SettledGone'
<1> SUFFICES ASSUME NEW q \in Request, Settled(q)' PROVE Gone(q)'
  BY DEF SettledGone
<1>1. /\ s \in Session /\ r \in Request /\ Owner[r] = s
      /\ kind \in OpKind \ {"idle"}
      /\ op[s] = Idle \/ (op[s].kind = kind /\ op[s].req = r)
      /\ Retained(r)
      /\ life' = [life EXCEPT ![r] = IF kind = "cancel" THEN "cancelling" ELSE @]
      /\ ref' = ref /\ landed' = landed
  BY DEF Attempting
<1>2. \A t \in Session : t # s => op'[t] = op[t]
  BY <1>1, AttemptWrites, AttemptPasses DEF IInv, TypeOK
<1>3. op'[s].cand \notin landed \/ op'[s].kind # "cancel"
  <2>1. CASE Writes(kind, s, r)
    <3>1. op'[s].cand = Len(commits) + 1
      BY <1>1, <2>1, AttemptWrites DEF IInv, TypeOK, Call
    <3> QED BY <3>1 DEF IInv, TypeOK, Oid
  <2>2. CASE ~Writes(kind, s, r)
    BY <1>1, <2>2, AttemptPasses DEF IInv, TypeOK, Idle, Call
  <2> QED BY <2>1, <2>2
<1>4. CASE life'[q] = "cancelled"
  <2>1. life[q] = "cancelled" /\ q # r
    BY <1>1, <1>4 DEF Retained, IInv, TypeOK
  <2>2. Gone(q) /\ (kind = "enqueue" => r # q)
    BY <2>1 DEF IInv, SettledGone, Settled
  <2> QED BY <2>2, GoneKept
<1>5. CASE life'[q] # "cancelled"
  <2>1. PICK t \in Session : /\ op'[t].kind = "cancel" /\ op'[t].req = q
                             /\ op'[t].cand \in landed
    BY <1>1, <1>5 DEF Settled
  <2>2. t # s /\ op[t] = op'[t]
    BY <1>2, <1>3, <2>1
  <2>3. Gone(q)
    BY <2>1, <2>2 DEF IInv, SettledGone, Settled
  <2>4. Owner[q] = t
    BY <2>1, <2>2 DEF IInv, InPhase, Idle, Call
  <2>5. q # r
    BY <1>1, <2>2, <2>4
  <2> QED BY <2>3, <2>5, GoneKept
<1> QED BY <1>4, <1>5

LEMMA AttemptInvariant ==
    ASSUME IInv, NEW kind, NEW s, NEW r, NEW tries,
           Attempting(kind, s, r, tries)
    PROVE  IInv'
  BY AttemptType, AttemptCommits, AttemptPushes, AttemptPhase,
     AttemptCandidates, AttemptSettled DEF IInv

-----------------------------------------------------------------------------
(* The other steps. *)

(* What depends on the commits, the ref and the pushes alone. *)
LEMMA QueueUntouched ==
    ASSUME IInv, UNCHANGED <<now, commits, ref, pushes, landed>>
    PROVE  /\ SeqBound' /\ PushesFresh' /\ CommitsOneEach'
           /\ \A r \in Request : Gone(r) => Gone(r)'
  BY DEF IInv, SeqBound, PushesFresh, CommitsOneEach, OneEach, Gone, Without,
         Content, Oid

LEMMA MakeRequestInvariant ==
    ASSUME IInv, NEW s \in Session, NEW r \in Request, MakeRequest(s, r)
    PROVE  IInv'
<1>1. /\ UNCHANGED <<now, commits, ref, pushes, op, landed>>
      /\ op[s] = Idle /\ Owner[r] = s
      /\ life' = [life EXCEPT ![r] = "asked"]
      /\ made' = [made EXCEPT ![r] = Clock(s)]
  BY DEF MakeRequest
<1>2. TypeOK'
  <2>1. life' \in [Request -> Life]
    BY <1>1 DEF IInv, TypeOK, Life
  <2>2. made' \in [Request -> Int]
    BY <1>1, ClockType DEF IInv, TypeOK
  <2> QED BY <1>1, <2>1, <2>2 DEF IInv, TypeOK, Oid
<1>3. ASSUME NEW t \in Session PROVE InPhase(t)'
  <2>1. InPhase(t)
    BY DEF IInv
  <2>2. op[t] # Idle => op[t].req # r
    BY <1>1, <2>1 DEF InPhase
  <2> QED BY <1>1, <2>1, <2>2 DEF InPhase, IInv, TypeOK, Oid
<1>4. CandidatesWithout'
  BY <1>1 DEF IInv, CandidatesWithout, Without
<1>5. \A q \in Request : Settled(q)' => Settled(q)
  BY <1>1 DEF IInv, TypeOK, Settled
<1> QED BY <1>1, <1>2, <1>3, <1>4, <1>5, QueueUntouched DEF IInv, SettledGone

LEMMA ConfirmedInvariant ==
    ASSUME IInv, NEW s \in Session, Confirmed(s)
    PROVE  IInv'
<1> DEFINE r == op[s].req
<1>1. /\ UNCHANGED <<now, commits, ref, pushes, made, landed>>
      /\ op[s].cand \in landed
      /\ op' = [op EXCEPT ![s] = Idle]
  BY DEF Confirmed
<1>2. op[s] # Idle
  BY <1>1 DEF IInv, TypeOK, Oid, NoOid, Idle, Call
<1>3. r \in Request /\ Owner[r] = s
  BY <1>2 DEF IInv, InPhase
<1>4. /\ life' \in [Request -> Life]
      /\ \A q \in Request : q # r => life'[q] = life[q]
      /\ op[s].kind # "cancel" => life'[r] # "cancelled"
  <2>1. life[r] = IF op[s].kind = "cancel" THEN "cancelling" ELSE "asked"
    BY <1>2 DEF IInv, InPhase
  <2>2. CASE op[s].kind = "cancel"
    BY <1>3, <2>2 DEF Confirmed, IInv, TypeOK, Life
  <2>3. CASE op[s].kind = "consume"
    BY <1>3, <2>1, <2>3 DEF Confirmed, IInv, TypeOK, Life
  <2>4. CASE op[s].kind \notin {"cancel", "consume"}
    BY <1>3, <2>1, <2>4 DEF Confirmed, IInv, TypeOK, Life
  <2> QED BY <2>2, <2>3, <2>4
<1>5. op'[s] = Idle /\ \A t \in Session : t # s => op'[t] = op[t]
  BY <1>1 DEF IInv, TypeOK
<1>6. TypeOK'
  <2>1. op' \in [Session -> [kind : OpKind, req : Request \cup {NoRequest},
                             cand : {NoOid} \cup Oid, tries : 0 .. Retries]]
    BY <1>1, BoundAssumption DEF IInv, TypeOK, Idle, Call, OpKind
  <2> QED BY <1>1, <1>4, <2>1 DEF IInv, TypeOK, Oid
<1>7. ASSUME NEW t \in Session PROVE InPhase(t)'
  <2>1. CASE t = s
    BY <1>5, <2>1 DEF InPhase, Idle
  <2>2. CASE t # s
    <3>1. InPhase(t) /\ op'[t] = op[t]
      BY <1>5, <2>2 DEF IInv
    <3>2. op[t] # Idle => op[t].req # r /\ op[t].req \in Request
      BY <1>3, <2>2, <3>1 DEF InPhase
    <3> QED BY <1>1, <1>4, <3>1, <3>2 DEF InPhase, Idle, Oid
  <2> QED BY <2>1, <2>2
<1>8. CandidatesWithout'
  BY <1>1, <1>5 DEF IInv, CandidatesWithout, Without, Idle, Call
<1>9. ASSUME NEW q \in Request, Settled(q)' PROVE Settled(q)
  <2>1. CASE life'[q] = "cancelled"
    BY <1>1, <1>4, <2>1 DEF Settled
  <2>2. CASE life'[q] # "cancelled"
    BY <1>1, <1>5, <1>9, <2>2 DEF Settled, Idle, Call
  <2> QED BY <2>1, <2>2
<1> QED BY <1>1, <1>6, <1>7, <1>8, <1>9, QueueUntouched DEF IInv, SettledGone

LEMMA GiveUpInvariant ==
    ASSUME IInv, NEW s \in Session, GiveUp(s)
    PROVE  IInv'
<1>1. /\ UNCHANGED <<now, commits, ref, pushes, made, life, landed>>
      /\ op' = [op EXCEPT ![s] = Idle]
  BY DEF GiveUp
<1>2. op'[s] = Idle /\ \A t \in Session : t # s => op'[t] = op[t]
  BY <1>1 DEF IInv, TypeOK
<1>3. TypeOK'
  <2>1. op' \in [Session -> [kind : OpKind, req : Request \cup {NoRequest},
                             cand : {NoOid} \cup Oid, tries : 0 .. Retries]]
    BY <1>1, BoundAssumption DEF IInv, TypeOK, Idle, Call, OpKind
  <2> QED BY <1>1, <2>1 DEF IInv, TypeOK, Oid
<1>4. \A t \in Session : InPhase(t)'
  BY <1>1, <1>2 DEF IInv, InPhase, Idle, Oid
<1>5. CandidatesWithout'
  BY <1>1, <1>2 DEF IInv, CandidatesWithout, Without, Idle, Call
<1>6. \A q \in Request : Settled(q)' => Settled(q)
  BY <1>1, <1>2 DEF Settled, Idle, Call
<1> QED BY <1>1, <1>3, <1>4, <1>5, <1>6, QueueUntouched DEF IInv, SettledGone

(* A push that lands moves the ref to a commit that has never been the ref,  *)
(* so that no other push on its way was prepared against it.                 *)
LEMMA PushArrivesInvariant ==
    ASSUME IInv, NEW p \in pushes, PushArrives(p)
    PROVE  IInv'
<1>1. /\ UNCHANGED <<now, commits, op, made, life>>
      /\ pushes' = pushes \ {p}
      /\ p.new \in Oid /\ p.new # NoOid
  BY DEF PushArrives, IInv, TypeOK, Oid, NoOid
<1>2. CASE p.old # ref
  <2>1. ref' = ref /\ landed' = landed
    BY <1>2 DEF PushArrives
  <2>2. TypeOK'
    BY <1>1, <2>1 DEF IInv, TypeOK, Oid
  <2>3. PushesFresh'
    BY <1>1, <2>1 DEF IInv, PushesFresh
  <2>4. SettledGone'
    BY <1>1, <2>1 DEF IInv, SettledGone, Settled, Gone, Without, Content
  <2> QED BY <1>1, <2>2, <2>3, <2>4
          DEF IInv, SeqBound, InPhase, CommitsOneEach, OneEach,
              CandidatesWithout, Without, Oid
<1>3. CASE p.old = ref
  <2>1. ref' = p.new /\ landed' = landed \cup {p.new}
    BY <1>3 DEF PushArrives
  <2>2. TypeOK'
    BY <1>1, <2>1 DEF IInv, TypeOK, Oid
  <2>3. PushesFresh'
    BY <1>1, <2>1 DEF IInv, PushesFresh
  <2>4. \A q \in pushes' : q.old # ref'
    BY <1>1, <2>1 DEF IInv, PushesFresh, NoOid
  <2>5. Content(ref)' = commits[p.new]
    BY <1>1, <2>1 DEF Content
  <2>6. ASSUME NEW r \in Request, Settled(r)' PROVE Without(r, commits[p.new])
    <3>1. CASE Settled(r)
      BY <1>3, <3>1 DEF IInv, SettledGone, Gone
    <3>2. CASE ~Settled(r)
      <4>1. PICK s \in Session : /\ op[s].kind = "cancel" /\ op[s].req = r
                                 /\ op[s].cand = p.new
        BY <1>1, <2>1, <2>6, <3>2 DEF Settled
      <4> QED BY <4>1 DEF IInv, CandidatesWithout
    <3> QED BY <3>1, <3>2
  <2>7. SettledGone'
    BY <2>4, <2>5, <2>6 DEF SettledGone, Gone, Without
  <2> QED BY <1>1, <2>2, <2>3, <2>7
          DEF IInv, SeqBound, InPhase, CommitsOneEach, OneEach,
              CandidatesWithout, Without, Oid
<1> QED BY <1>2, <1>3

LEMMA TickInvariant ==
    ASSUME IInv, Tick
    PROVE  IInv'
<1>1. UNCHANGED <<commits, ref, pushes, op, made, life, landed>>
  BY DEF Tick
<1>2. TypeOK'
  BY <1>1, BoundAssumption DEF Tick, IInv, TypeOK, Oid
<1> QED BY <1>1, <1>2 DEF IInv, SeqBound, PushesFresh, InPhase, CommitsOneEach,
            OneEach, CandidatesWithout, Without, SettledGone, Settled, Gone,
            Content, Oid

-----------------------------------------------------------------------------
(* The theorems. *)

LEMMA InitInvariant == Init => IInv
<1> SUFFICES ASSUME Init PROVE IInv
  OBVIOUS
<1>1. commits = << >> /\ Len(commits) = 0 /\ Oid = {}
  BY DEF Init, Oid
<1>2. TypeOK
  BY <1>1, BoundAssumption
     DEF Init, TypeOK, NoOid, Idle, Call, OpKind, Life
<1> QED BY <1>1, <1>2 DEF Init, IInv, SeqBound, PushesFresh, InPhase,
        CommitsOneEach, CandidatesWithout, SettledGone, Settled, Idle, Call, NoOid

(* What a session can do: an attempt, of a new or of a begun operation, or a *)
(* step that leaves the queue alone.                                         *)
LEMMA OperationKinds ==
    ASSUME IInv, NEW s \in Session, Operation(s)
    PROVE  \/ \E kind, r, tries : Attempting(kind, s, r, tries)
           \/ \E r \in Request : MakeRequest(s, r)
           \/ Confirmed(s) \/ GiveUp(s)
<1>1. ASSUME NEW r \in Request, NEW kind \in {"enqueue", "refresh", "consume"},
             Begin(kind, s, r)
      PROVE  Attempting(kind, s, r, 1)
  BY <1>1, BoundAssumption DEF Begin, Attempting, OpKind, Retained, IInv, TypeOK
<1>2. ASSUME NEW r \in Request, CancelBegin(s, r)
      PROVE  Attempting("cancel", s, r, 1)
  BY <1>2, BoundAssumption DEF CancelBegin, Attempting, OpKind
<1>3. ASSUME Retry(s)
      PROVE  Attempting(op[s].kind, s, op[s].req, op[s].tries + 1)
  <2> DEFINE r == op[s].req
             kind == op[s].kind
  <2>1. /\ r \in Request /\ Owner[r] = s /\ kind \in OpKind \ {"idle"}
        /\ life[r] = IF kind = "cancel" THEN "cancelling" ELSE "asked"
    BY <1>3 DEF Retry, IInv, InPhase, TypeOK
  <2>2. op[s].tries + 1 \in 1 .. Retries
    <3>1. op[s].tries \in 0 .. Retries /\ op[s].tries < Retries
      BY <1>3 DEF Retry, IInv, TypeOK
    <3> QED BY <3>1, BoundAssumption
  <2>3. life' = [life EXCEPT ![r] = IF kind = "cancel" THEN "cancelling" ELSE @]
    BY <1>3, <2>1 DEF Retry, IInv, TypeOK
  <2> QED BY <1>3, <2>1, <2>2, <2>3 DEF Retry, Attempting, Retained
<1> QED BY <1>1, <1>2, <1>3 DEF Operation

LEMMA StepInvariant == IInv /\ [Next]_vars => IInv'
<1> SUFFICES ASSUME IInv, [Next]_vars PROVE IInv'
  OBVIOUS
<1>1. ASSUME NEW s \in Session, Operation(s) PROVE IInv'
  BY <1>1, OperationKinds, AttemptInvariant, MakeRequestInvariant, ConfirmedInvariant,
     GiveUpInvariant
<1>2. CASE Network
  BY <1>2, PushArrivesInvariant DEF Network
<1>3. CASE Tick
  BY <1>3, TickInvariant
<1>4. CASE UNCHANGED vars
  BY <1>4 DEF vars, IInv, TypeOK, SeqBound, PushesFresh, InPhase,
     CommitsOneEach, OneEach, CandidatesWithout, Without, SettledGone,
     Settled, Gone, Content, Oid
<1> QED BY <1>1, <1>2, <1>3, <1>4 DEF Next

(* The inductive invariant holds throughout. *)
THEOREM InductiveInvariant == Spec => []IInv
<1> QED BY InitInvariant, StepInvariant, PTL DEF Spec

(* Commits, pushes, calls and requests stay well formed; in particular a     *)
(* sequence number is always a natural number.                               *)
THEOREM TypeCorrect == Spec => []TypeOK
<1>1. IInv => TypeOK
  BY DEF IInv
<1> QED BY <1>1, InductiveInvariant, PTL

(* A request whose cancellation was confirmed never stands in the queue.     *)
THEOREM CancellationFinal == Spec => []CancelIsFinal
<1>1. IInv => CancelIsFinal
  BY DEF IInv, SettledGone, Settled, Gone, Without, CancelIsFinal, InQueue
<1> QED BY <1>1, InductiveInvariant, PTL

(* A session has at most one request in the queue. *)
THEOREM WaitsOnce == Spec => []OnePerSession
<1>1. IInv => OnePerSession
  <2> SUFFICES ASSUME IInv PROVE OnePerSession
    OBVIOUS
  <2>1. CASE ref = NoOid
    BY <2>1 DEF OnePerSession, Content
  <2>2. CASE ref # NoOid
    BY <2>2 DEF OnePerSession, Content, IInv, CommitsOneEach, OneEach, TypeOK
  <2> QED BY <2>1, <2>2
<1> QED BY <1>1, InductiveInvariant, PTL

-----------------------------------------------------------------------------
(* The order in which requests are served.  Both properties compare the      *)
(* queue before and after a push lands, so the invariant says of each push   *)
(* on its way what they say of the step.                                     *)

(* An entry is never older than its request, by the clock of its session. *)
Stamped ==
    /\ \A r \in Request : life[r] # "new" => made[r] <= Clock(Owner[r])
    /\ \A c \in Oid : \A e \in commits[c] : life[e.req] # "new" /\ made[e.req] <= e.stamp

OrderKept(old, new) ==
    \A e \in old : \A f, g \in new :
        /\ f.req = e.req /\ g.req # f.req /\ Priority[f.req] = Priority[g.req]
        /\ \A h \in old : h.req = g.req => Before(e, h)
        => Before(f, g)

Cancelling(r) == life[r] \in {"cancelling", "cancelled"}

TurnsKept(old, new) ==
    \A e \in old :
        Fresh(e) /\ Without(e.req, new)
        => Cancelling(e.req) \/ \A f \in old \ {e} : Fresh(f) => ~Before(f, e)

LEMMA ContentEntries ==
    ASSUME TypeOK, NEW oid \in {NoOid} \cup Oid
    PROVE  Content(oid) \subseteq Entry /\ (oid # NoOid => Content(oid) = commits[oid])
BY DEF TypeOK, Content, Oid, NoOid

LEMMA EntryTypes ==
    ASSUME NEW e \in Entry
    PROVE  /\ e.req \in Request /\ e.seq \in Nat /\ e.stamp \in Int
           /\ Owner[e.req] \in Session /\ Offset[Owner[e.req]] \in Int
           /\ Priority[e.req] \in Nat
BY RequestAssumption, TimeAssumption DEF Entry

(* No clock filters out what was refreshed in time. *)
LEMMA FreshIsLive ==
    ASSUME TypeOK, NEW s \in Session, NEW e \in Entry, Fresh(e)
    PROVE  Clock(s) - e.stamp <= Ttl + Skew
<1>1. Offset[s] - Offset[Owner[e.req]] <= Skew /\ Offset[s] \in Int
  BY EntryTypes, TimeAssumption
<1>2. now \in Int /\ Ttl \in Int /\ Skew \in Int /\ e.stamp \in Int /\ Offset[Owner[e.req]] \in Int
  BY EntryTypes, TimeAssumption, BoundAssumption DEF TypeOK
<1> QED BY <1>1, <1>2 DEF Fresh, Clock

LEMMA NextSeqAbove ==
    ASSUME NEW list \in SUBSET Entry, NEW b \in Nat, \A e \in list : e.seq <= b,
           NEW e \in list
    PROVE  e.seq < NextSeq(list)
<1> DEFINE S == {x.seq : x \in list}
<1>1. \A x \in list : x.seq \in Nat
  BY DEF Entry
<1>2. S \subseteq Nat /\ S # {} /\ e.seq \in S /\ \A x \in S : x <= b
  BY <1>1
<1>3. Max(S) \in S /\ \A x \in S : x <= Max(S)
  <2> HIDE DEF S
  <2>1. PICK m \in S : \A x \in S : x <= m
    BY <1>2, BoundedMax
  <2>2. Max(S) \in S /\ \A x \in S : Max(S) >= x
    BY <2>1 DEF Max
  <2> QED BY <1>2, <2>2
<1>4. PICK m \in Nat : m = Max(S) /\ e.seq <= m
  <2> HIDE DEF S
  <2> QED BY <1>2, <1>3
<1>5. NextSeq(list) = m + 1
  BY <1>4 DEF NextSeq
<1> QED BY <1>1, <1>4, <1>5

(* Where an entry of what is written comes from. *)
LEMMA NewContentOrigin ==
    ASSUME NEW kind \in OpKind \ {"idle"}, NEW s, NEW r, NEW f \in NewContent(kind, s, r)
    PROVE  /\ Clock(s) - f.stamp <= Ttl + Skew
           /\ \/ \E x \in Live(s, Content(ref)) :
                    /\ x.req = f.req /\ x.seq = f.seq
                    /\ f.stamp = x.stamp \/ (f.req = r /\ f.stamp = Clock(s))
              \/ /\ kind = "enqueue" /\ f.req = r /\ f.stamp = made[r]
                 /\ f.seq = NextSeq(Live(s, Content(ref)))
<1> DEFINE list == Live(s, Content(ref))
<1>1. f \in Mutated(kind, s, r, list) /\ Clock(s) - f.stamp <= Ttl + Skew
  BY DEF NewContent, Live
<1> HIDE DEF list
<1>2. CASE kind = "enqueue"
  BY <1>1, <1>2 DEF Mutated, list
<1>3. CASE kind = "refresh"
  <2>1. PICK x \in list : f = IF x.req = r THEN Refresh(x, s) ELSE x
    BY <1>1, <1>3 DEF Mutated
  <2> QED BY <1>1, <2>1 DEF Refresh, list
<1>4. CASE kind \in {"cancel", "consume"}
  BY <1>1, <1>4 DEF Mutated, list
<1> QED BY <1>2, <1>3, <1>4 DEF OpKind

(* A live entry leaves only when its own request is cancelled or consumed. *)
LEMMA NewContentKeeps ==
    ASSUME TypeOK, NEW kind \in OpKind \ {"idle"}, NEW s \in Session, NEW r,
           NEW e \in Live(s, Content(ref)), Without(e.req, NewContent(kind, s, r))
    PROVE  kind \in {"cancel", "consume"} /\ e.req = r
<1> DEFINE list == Live(s, Content(ref))
<1>1. Clock(s) - e.stamp <= Ttl + Skew
  BY DEF Live
<1>2. ASSUME NEW f \in Mutated(kind, s, r, list), Clock(s) - f.stamp <= Ttl + Skew,
             f.req = e.req
      PROVE  FALSE
  BY <1>2 DEF NewContent, Live, Without
<1>3. e \notin Mutated(kind, s, r, list)
  BY <1>1, <1>2
<1> HIDE DEF list
<1>4. CASE kind = "enqueue"
  BY <1>3, <1>4 DEF Mutated, list
<1>5. CASE kind = "refresh"
  <2>1. e.req = r /\ Refresh(e, s) \in Mutated(kind, s, r, list)
    BY <1>3, <1>5 DEF Mutated, list
  <2>2. Clock(s) - Clock(s) <= Ttl + Skew
    BY ClockType, TimeAssumption
  <2> QED BY <1>2, <2>1, <2>2 DEF Refresh
<1>6. CASE kind \in {"cancel", "consume"}
  BY <1>3, <1>6 DEF Mutated, OfRequest, list
<1> QED BY <1>4, <1>5, <1>6 DEF OpKind

LEMMA ContentOneEach ==
    ASSUME IInv
    PROVE  /\ Content(ref) \in SUBSET Entry
           /\ \A e, f \in Content(ref) : e.req = f.req => e = f
<1>1. CASE ref = NoOid
  BY <1>1 DEF Content
<1>2. CASE ref # NoOid
  <2>1. ref \in Oid /\ Content(ref) = commits[ref] /\ Content(ref) \in SUBSET Entry
    BY <1>2 DEF IInv, TypeOK, Content, Oid
  <2> QED BY <2>1 DEF IInv, CommitsOneEach, OneEach
<1> QED BY <1>1, <1>2

LEMMA WrittenStamped ==
    ASSUME IInv, Stamped, NEW kind, NEW s, NEW r, NEW tries, Attempting(kind, s, r, tries),
           NEW f \in NewContent(kind, s, r)
    PROVE  life[f.req] # "new" /\ made[f.req] <= f.stamp
<1>1. /\ kind \in OpKind \ {"idle"} /\ s \in Session /\ r \in Request /\ Owner[r] = s
      /\ life[r] # "new"
  BY DEF Attempting, Retained
<1>2. made[r] \in Int /\ made[r] <= Clock(s)
  BY <1>1 DEF Stamped, IInv, TypeOK
<1>3. \A x \in Live(s, Content(ref)) : life[x.req] # "new" /\ made[x.req] <= x.stamp
  BY ContentEntries DEF Stamped, IInv, TypeOK, Live, Content
<1>4. CASE \E x \in Live(s, Content(ref)) :
             /\ x.req = f.req /\ x.seq = f.seq
             /\ f.stamp = x.stamp \/ (f.req = r /\ f.stamp = Clock(s))
  BY <1>1, <1>2, <1>3, <1>4
<1>5. CASE f.req = r /\ f.stamp = made[r]
  BY <1>1, <1>2, <1>5
<1> QED BY <1>1, <1>4, <1>5, NewContentOrigin

LEMMA WrittenInOrder ==
    ASSUME IInv, Stamped, NEW kind, NEW s, NEW r, NEW tries, Attempting(kind, s, r, tries),
           Writes(kind, s, r)
    PROVE  OrderKept(Content(ref), NewContent(kind, s, r))
<1> DEFINE old == Content(ref)
           list == Live(s, old)
           new == NewContent(kind, s, r)
<1>1. kind \in OpKind \ {"idle"} /\ s \in Session /\ r \in Request /\ Owner[r] = s
  BY DEF Attempting
<1>2. SUFFICES ASSUME NEW e \in old, NEW f \in new, NEW g \in new,
                      f.req = e.req, g.req # f.req, Priority[f.req] = Priority[g.req],
                      \A h \in old : h.req = g.req => Before(e, h)
               PROVE  f.seq < g.seq
  BY DEF OrderKept, Before
<1>3. list \subseteq old /\ old \in SUBSET Entry /\ \A x, y \in old : x.req = y.req => x = y
  BY ContentOneEach DEF Live
<1>4. /\ e.seq \in Nat /\ e.stamp \in Int /\ made[r] \in Int /\ Clock(s) \in Int
      /\ Priority[e.req] \in Nat /\ Ttl \in Int /\ Skew \in Int
  <2>1. e \in Entry
    BY <1>2, <1>3
  <2>2. TypeOK /\ made[r] \in Int
    BY <1>1 DEF IInv, TypeOK
  <2> QED BY <1>1, <2>1, <2>2, EntryTypes, ClockType, TimeAssumption
<1>5. ASSUME kind = "enqueue", f.req = r, f.stamp = made[r] PROVE FALSE
  <2>1. e \notin list
    <3>1. OfSession(s, list) = {}
      BY <1>5 DEF Writes, WorthWriting
    <3> QED BY <1>1, <1>2, <1>5, <3>1 DEF OfSession
  <2>2. ~(Clock(s) - e.stamp <= Ttl + Skew)
    BY <2>1 DEF Live
  <2>3. made[r] <= e.stamp
    BY <1>2, <1>5, ContentEntries DEF Stamped, IInv, TypeOK, Content
  <2>4. Clock(s) - made[r] <= Ttl + Skew
    BY <1>1, <1>5, NewContentOrigin
  <2> QED BY <1>4, <2>2, <2>3, <2>4
<1>6. e \in list /\ f.seq = e.seq
  <2>1. PICK x \in list : x.req = f.req /\ x.seq = f.seq
    BY <1>1, <1>5, NewContentOrigin
  <2> QED BY <1>2, <1>3, <2>1
<1>7. CASE \E x \in list : x.req = g.req /\ x.seq = g.seq
  <2>1. PICK x \in list : x.req = g.req /\ x.seq = g.seq
    BY <1>7
  <2>2. Before(e, x) /\ Priority[x.req] = Priority[e.req]
    BY <1>2, <1>3, <2>1
  <2>3. e.seq < x.seq
    BY <1>4, <2>2 DEF Before
  <2> QED BY <1>6, <2>1, <2>3
<1>8. CASE g.seq = NextSeq(list)
  <2>1. \A x \in old : x.seq <= Len(commits)
    BY ContentType DEF IInv
  <2>2. Len(commits) \in Nat
    BY DEF IInv, TypeOK
  <2>3. list \in SUBSET Entry /\ \A x \in list : x.seq <= Len(commits)
    BY <1>3, <2>1
  <2> HIDE DEF list
  <2>4. e.seq < NextSeq(list)
    BY <1>6, <2>2, <2>3, NextSeqAbove
  <2> QED BY <1>6, <1>8, <2>4
<1> QED BY <1>1, <1>7, <1>8, NewContentOrigin

LEMMA WrittenInTurn ==
    ASSUME IInv, NEW kind, NEW s, NEW r, NEW tries, Attempting(kind, s, r, tries),
           Writes(kind, s, r), NEW old, old = Content(ref), NEW new, new = NewContent(kind, s, r)
    PROVE  TurnsKept(old, new)'
<1>1. /\ kind \in OpKind \ {"idle"} /\ s \in Session /\ r \in Request
      /\ life' = [life EXCEPT ![r] = IF kind = "cancel" THEN "cancelling" ELSE @]
      /\ now' = now /\ life \in [Request -> Life] /\ TypeOK
  BY DEF Attempting, IInv, TypeOK
<1>2. old \in SUBSET Entry /\ \A x, y \in old : x.req = y.req => x = y
  BY ContentOneEach
<1>3. ASSUME NEW x \in old, Fresh(x) PROVE x \in Live(s, old)
  BY <1>1, <1>2, <1>3, FreshIsLive DEF Live
<1>4. ASSUME NEW e \in old, Fresh(e), Without(e.req, new)
      PROVE  Cancelling(e.req)' \/ \A f \in old \ {e} : Fresh(f) => ~Before(f, e)
  <2>1. e \in Live(s, Content(ref)) /\ kind \in {"cancel", "consume"} /\ e.req = r
    <3>1. e \in Live(s, Content(ref))
      BY <1>3, <1>4
    <3> QED BY <1>1, <1>4, <3>1, NewContentKeeps
  <2>2. CASE kind = "cancel"
    BY <1>1, <2>1, <2>2 DEF Cancelling
  <2>3. CASE kind = "consume"
    <3>1. PICK x \in OfRequest(r, Live(s, old)) : IsHead(x, Live(s, old))
      BY <2>3 DEF Writes, WorthWriting
    <3>2. x = e
      BY <1>2, <1>4, <2>1, <3>1 DEF OfRequest, Live
    <3> QED BY <1>3, <3>1, <3>2 DEF IsHead
  <2> QED BY <2>1, <2>2, <2>3
<1> QED BY <1>1, <1>4 DEF TurnsKept, Fresh, Cancelling, Without, Before

-----------------------------------------------------------------------------
(* Steps. *)

InTurn(p) == /\ OrderKept(Content(p.old), commits[p.new])
             /\ TurnsKept(Content(p.old), commits[p.new])

(* A push that stays on its way, while commits are only added, time only     *)
(* passes and no cancellation is taken back.                                 *)
LEMMA PushWaits ==
    ASSUME IInv, NEW p \in pushes, InTurn(p),
           \A i \in Oid : commits'[i] = commits[i], now' \in Int, now <= now',
           \A r \in Request : Cancelling(r) => Cancelling(r)'
    PROVE  InTurn(p)'
<1> DEFINE old == Content(p.old)
           new == commits[p.new]
<1>1. p.old \in {NoOid} \cup Oid /\ p.new \in Oid
  BY DEF IInv, TypeOK
<1>2. Content(p.old)' = old /\ commits'[p.new] = new
  BY <1>1 DEF Content
<1>3. \A e \in old : e \in Entry
  BY <1>1, ContentEntries DEF IInv
<1>4. OrderKept(old, new) /\ TurnsKept(old, new)
  BY DEF InTurn
<1>5. ASSUME NEW e \in old, Fresh(e)' PROVE Fresh(e)
  <2>1. /\ now \in Int /\ e.stamp \in Int /\ Offset[Owner[e.req]] \in Int
        /\ Ttl \in Int
    BY <1>3, EntryTypes, TimeAssumption DEF IInv, TypeOK
  <2> QED BY <1>5, <2>1 DEF Fresh
<1> HIDE DEF old, new
<1>6. \A e \in old : Cancelling(e.req) => Cancelling(e.req)'
  BY <1>3, EntryTypes
<1>7. OrderKept(Content(p.old)', commits'[p.new])
  BY <1>2, <1>4
<1>8. TurnsKept(Content(p.old), commits[p.new])'
  BY <1>2, <1>4, <1>5, <1>6 DEF TurnsKept, Without, Before
<1> QED BY <1>7, <1>8 DEF InTurn, OrderKept, Before

(* The queue itself stays stamped. *)
LEMMA StampsStay ==
    ASSUME IInv, Stamped, now' \in Int, now <= now', UNCHANGED <<commits, made>>,
           \A r \in Request : (life'[r] = "new") = (life[r] = "new")
    PROVE  Stamped'
<1>1. \A r \in Request : Clock(Owner[r])' >= Clock(Owner[r]) /\ Clock(Owner[r]) \in Int
                         /\ Clock(Owner[r])' \in Int /\ made[r] \in Int
  BY RequestAssumption, TimeAssumption, BoundAssumption DEF Clock, IInv, TypeOK
<1>2. \A r \in Request : life'[r] # "new" => made'[r] <= Clock(Owner[r])'
  BY <1>1 DEF Stamped
<1>3. \A c \in Oid : \A e \in commits[c] : e.req \in Request
  BY EntryTypes DEF IInv, TypeOK, Oid
<1>4. \A c \in Oid' : \A e \in commits'[c] : life'[e.req] # "new" /\ made'[e.req] <= e.stamp
  BY <1>3 DEF Stamped, Oid
<1> QED BY <1>2, <1>4 DEF Stamped

Turns == Stamped /\ \A p \in pushes : InTurn(p)

LEMMA AttemptTurns ==
    ASSUME IInv, Turns, NEW kind, NEW s, NEW r, NEW tries, Attempting(kind, s, r, tries)
    PROVE  Turns'
<1>1. /\ s \in Session /\ r \in Request /\ kind \in OpKind \ {"idle"}
      /\ life' = [life EXCEPT ![r] = IF kind = "cancel" THEN "cancelling" ELSE @]
      /\ life \in [Request -> Life] /\ Retained(r)
      /\ UNCHANGED <<now, ref, made>> /\ now \in Int
  BY DEF Attempting, IInv, TypeOK
<1>2. \A q \in Request : /\ (life'[q] = "new") = (life[q] = "new")
                         /\ Cancelling(q) => Cancelling(q)'
  BY <1>1 DEF Cancelling, Retained
<1>3. CASE Writes(kind, s, r)
  <2>1. PICK old, c : old = Content(ref) /\ c = NewContent(kind, s, r)
    OBVIOUS
  <2> DEFINE push == [old |-> ref, new |-> Len(commits) + 1]
  <2>2. /\ commits' = Append(commits, c) /\ c \in SUBSET Entry
        /\ pushes' = pushes \cup {push}
    BY <1>3, <2>1, AttemptWrites DEF IInv
  <2>3. OrderKept(old, c) /\ TurnsKept(old, c)'
    BY <1>3, <2>1, WrittenInOrder, WrittenInTurn DEF Turns
  <2>4. \A f \in c : life[f.req] # "new" /\ made[f.req] <= f.stamp /\ f.req \in Request
    BY <2>1, <2>2, WrittenStamped, EntryTypes DEF Turns
  <2>5. /\ \A i \in Oid : commits'[i] = commits[i]
        /\ commits'[Len(commits) + 1] = c
        /\ Oid' = Oid \cup {Len(commits) + 1}
    BY <2>2, CommitAppended DEF IInv
  <2>6. Content(ref)' = old
    BY <1>1, <2>1, <2>5 DEF Content, IInv, TypeOK
  <2>7. ASSUME NEW p \in pushes' PROVE InTurn(p)'
    <3>1. CASE p \in pushes
      BY <1>1, <1>2, <2>5, <3>1, PushWaits DEF Turns
    <3>2. CASE p = push
      <4>1. Content(p.old)' = old /\ commits'[p.new] = c
        BY <1>1, <2>5, <2>6, <3>2
      <4>2. OrderKept(Content(p.old)', commits'[p.new])
        BY <2>3, <4>1
      <4>3. TurnsKept(Content(p.old), commits[p.new])'
        BY <2>3, <4>1 DEF TurnsKept, Without, Before
      <4> QED BY <4>2, <4>3 DEF InTurn, OrderKept, Before
    <3> QED BY <2>2, <3>1, <3>2
  <2>8. Stamped'
    <3>1. \A q \in Request : life'[q] # "new" => made'[q] <= Clock(Owner[q])'
      BY <1>1, <1>2 DEF Turns, Stamped, Clock
    <3>2. \A i \in Oid : \A e \in commits[i] :
             e.req \in Request /\ life[e.req] # "new" /\ made[e.req] <= e.stamp
      BY EntryTypes DEF Turns, Stamped, IInv, TypeOK, Oid
    <3>3. \A i \in Oid' : \A e \in commits'[i] : life'[e.req] # "new" /\ made'[e.req] <= e.stamp
      BY <1>1, <1>2, <2>4, <2>5, <3>2
    <3> QED BY <3>1, <3>3 DEF Stamped
  <2> QED BY <2>7, <2>8 DEF Turns
<1>4. CASE ~Writes(kind, s, r)
  <2>1. UNCHANGED <<commits, pushes>>
    BY <1>4, AttemptPasses
  <2>2. Stamped'
    BY <1>1, <1>2, <2>1, StampsStay DEF Turns
  <2>3. \A p \in pushes' : InTurn(p)'
    BY <1>1, <1>2, <2>1, PushWaits DEF Turns
  <2> QED BY <2>2, <2>3 DEF Turns
<1> QED BY <1>3, <1>4

LEMMA MakeRequestTurns ==
    ASSUME IInv, Turns, NEW s \in Session, NEW r \in Request, MakeRequest(s, r)
    PROVE  Turns'
<1>1. /\ UNCHANGED <<now, commits, ref, pushes>> /\ Owner[r] = s /\ life[r] = "new"
      /\ life' = [life EXCEPT ![r] = "asked"]
      /\ made' = [made EXCEPT ![r] = Clock(s)]
      /\ life \in [Request -> Life] /\ made \in [Request -> Int] /\ now \in Int
  BY DEF MakeRequest, IInv, TypeOK
<1>2. \A q \in Request : q # r => life'[q] = life[q] /\ made'[q] = made[q]
  BY <1>1
<1>3. life'[r] = "asked" /\ made'[r] = Clock(s) /\ Clock(s) \in Int
  BY <1>1, ClockType DEF IInv
<1>4. \A q \in Request : Cancelling(q) => Cancelling(q)'
  BY <1>1, <1>2 DEF Cancelling
<1>5. \A p \in pushes' : InTurn(p)'
  BY <1>1, <1>4, PushWaits DEF Turns
<1>6. \A q \in Request : life'[q] # "new" => made'[q] <= Clock(Owner[q])'
  BY <1>1, <1>2, <1>3 DEF Turns, Stamped, Clock
<1>7. \A i \in Oid : \A e \in commits[i] :
         e.req \in Request /\ e.req # r /\ life[e.req] # "new" /\ made[e.req] <= e.stamp
  BY <1>1, EntryTypes DEF Turns, Stamped, IInv, TypeOK, Oid
<1>8. Stamped'
  BY <1>1, <1>2, <1>6, <1>7 DEF Stamped, Oid
<1> QED BY <1>5, <1>8 DEF Turns

(* Steps that leave the commits and add no push. *)
LEMMA QuietTurns ==
    ASSUME IInv, Turns, UNCHANGED <<commits, made>>, pushes' \subseteq pushes,
           now' \in Int, now <= now',
           \A r \in Request : /\ (life'[r] = "new") = (life[r] = "new")
                              /\ Cancelling(r) => Cancelling(r)'
    PROVE  Turns'
<1>1. Stamped'
  BY StampsStay DEF Turns
<1>2. \A p \in pushes' : InTurn(p)'
  BY PushWaits DEF Turns
<1> QED BY <1>1, <1>2 DEF Turns

LEMMA ConfirmedTurns ==
    ASSUME IInv, Turns, NEW s \in Session, Confirmed(s)
    PROVE  Turns'
<1> DEFINE r == op[s].req
<1>1. UNCHANGED <<now, commits, ref, pushes, made>> /\ now \in Int /\ op[s].cand \in landed
  BY DEF Confirmed, IInv, TypeOK
<1>2. op[s] # Idle
  BY <1>1 DEF IInv, TypeOK, Oid, NoOid, Idle, Call
<1>3. r \in Request /\ life[r] = IF op[s].kind = "cancel" THEN "cancelling" ELSE "asked"
  BY <1>2 DEF IInv, InPhase
<1>4. \/ UNCHANGED life
      \/ op[s].kind = "cancel" /\ life' = [life EXCEPT ![r] = "cancelled"]
      \/ op[s].kind = "consume" /\ life' = [life EXCEPT ![r] = "consumed"]
  BY DEF Confirmed
<1>5. \A q \in Request : /\ (life'[q] = "new") = (life[q] = "new")
                         /\ Cancelling(q) => Cancelling(q)'
  BY <1>3, <1>4 DEF Cancelling, IInv, TypeOK
<1> QED BY <1>1, <1>5, QuietTurns

LEMMA TurnsStep == IInv /\ Turns /\ [Next]_vars => Turns'
<1> SUFFICES ASSUME IInv, Turns, [Next]_vars PROVE Turns'
  OBVIOUS
<1>1. now \in Int /\ now <= now
  BY DEF IInv, TypeOK
<1>2. ASSUME UNCHANGED <<now, commits, made, life>>, pushes' \subseteq pushes
      PROVE  Turns'
  BY <1>1, <1>2, QuietTurns DEF Cancelling
<1>3. ASSUME NEW s \in Session, Operation(s) PROVE Turns'
  <2>1. CASE GiveUp(s)
    BY <1>2, <2>1 DEF GiveUp
  <2> QED BY <1>3, <2>1, OperationKinds, AttemptTurns, MakeRequestTurns, ConfirmedTurns
<1>4. CASE Network
  BY <1>2, <1>4 DEF Network, PushArrives
<1>5. CASE Tick
  <2>1. now' \in Int /\ now <= now'
    BY <1>1, <1>5 DEF Tick
  <2> QED BY <1>5, <2>1, QuietTurns DEF Tick, Cancelling
<1>6. CASE UNCHANGED vars
  BY <1>2, <1>6 DEF vars
<1> QED BY <1>3, <1>4, <1>5, <1>6 DEF Next

LEMMA TurnsInit == Init => Turns
<1>1. Init => Oid = {}
  BY DEF Init, Oid
<1> QED BY <1>1 DEF Init, Turns, Stamped

(* What a step does to the queue: nothing, or what a push in turn does. *)
LEMMA QueueStep ==
    ASSUME IInv, Turns, [Next]_vars
    PROVE  \/ Content(ref)' = Content(ref)
           \/ UNCHANGED <<now, life>> /\ OrderKept(Content(ref), Content(ref)')
              /\ TurnsKept(Content(ref), Content(ref)')
<1>1. ref \in {NoOid} \cup Oid
  BY DEF IInv, TypeOK
<1>2. ASSUME ref' = ref, \A i \in Oid : commits'[i] = commits[i]
      PROVE  Content(ref)' = Content(ref)
  BY <1>1, <1>2 DEF Content
<1>3. ASSUME NEW s \in Session, Operation(s) PROVE Content(ref)' = Content(ref)
  <2>1. ASSUME NEW kind, NEW r, NEW tries, Attempting(kind, s, r, tries)
        PROVE  Content(ref)' = Content(ref)
    <3>1. ref' = ref
      BY <2>1 DEF Attempting
    <3>2. CASE Writes(kind, s, r)
      BY <1>2, <2>1, <3>1, <3>2, AttemptWrites, CommitAppended DEF IInv
    <3>3. CASE ~Writes(kind, s, r)
      BY <1>2, <2>1, <3>1, <3>3, AttemptPasses
    <3> QED BY <3>2, <3>3
  <2>2. CASE (\E r \in Request : MakeRequest(s, r)) \/ Confirmed(s) \/ GiveUp(s)
    BY <1>2, <2>2 DEF MakeRequest, Confirmed, GiveUp
  <2> QED BY <1>3, <2>1, <2>2, OperationKinds
<1>4. ASSUME NEW p \in pushes, PushArrives(p), p.old = ref
      PROVE  /\ UNCHANGED <<now, life>>
             /\ OrderKept(Content(ref), Content(ref)') /\ TurnsKept(Content(ref), Content(ref)')
  <2>1. ref' = p.new /\ p.new \in Oid /\ UNCHANGED <<now, life, commits>>
    BY <1>4 DEF PushArrives, IInv, TypeOK
  <2>2. Content(ref)' = commits[p.new]
    BY <2>1 DEF Content, Oid, NoOid
  <2>3. OrderKept(Content(ref), commits[p.new]) /\ TurnsKept(Content(ref), commits[p.new])
    BY <1>4 DEF Turns, InTurn
  <2> QED BY <2>1, <2>2, <2>3
<1>5. ASSUME NEW p \in pushes, PushArrives(p), p.old # ref
      PROVE  Content(ref)' = Content(ref)
  BY <1>2, <1>5 DEF PushArrives
<1>6. CASE Tick \/ UNCHANGED vars
  BY <1>2, <1>6 DEF Tick, vars
<1> QED BY <1>3, <1>4, <1>5, <1>6 DEF Next, Network

THEOREM TurnsCorrect == Spec => []Turns
BY InductiveInvariant, TurnsInit, TurnsStep, PTL DEF Spec

(* Of two requests of the same priority the earlier one stays the earlier,   *)
(* in any history of refreshes, late pushes and other requests.              *)
THEOREM EarlierStaysEarlier == Spec => FirstComeFirstServed
<1>1. ASSUME IInv, Turns, [Next]_vars PROVE KeepsItsPlace
  <2>1. CASE Content(ref)' = Content(ref)
    BY <1>1, <2>1, ContentOneEach DEF KeepsItsPlace
  <2>2. CASE OrderKept(Content(ref), Content(ref)')
    BY <2>2 DEF OrderKept, KeepsItsPlace
  <2> QED BY <1>1, <2>1, <2>2, QueueStep
<1>2. IInv /\ Turns /\ [Next]_vars => [KeepsItsPlace]_vars
  BY <1>1
<1> QED BY <1>2, InductiveInvariant, TurnsCorrect, PTL DEF Spec, FirstComeFirstServed

(* A request that is refreshed in time leaves the queue because its session  *)
(* cancels it, or consumed while nobody who refreshes stands before it.      *)
THEOREM NobodyJumpsTheQueue == Spec => WaitersLeaveInTurn
<1>1. ASSUME IInv, Turns, [Next]_vars PROVE LeavesInTurn
  <2>1. CASE Content(ref)' = Content(ref)
    BY <2>1 DEF LeavesInTurn, InQueue
  <2>2. CASE TurnsKept(Content(ref), Content(ref)')
    BY <2>2 DEF TurnsKept, Without, Cancelling, LeavesInTurn, InQueue
  <2> QED BY <1>1, <2>1, <2>2, QueueStep
<1>2. IInv /\ Turns /\ [Next]_vars => [LeavesInTurn]_vars
  BY <1>1
<1> QED BY <1>2, InductiveInvariant, TurnsCorrect, PTL DEF Spec, WaitersLeaveInTurn

-----------------------------------------------------------------------------
(***************************************************************************)
(* Proofs about Collaboration, for any sessions, names of commits and      *)
(* numbers of unknown outcomes.                                            *)
(*                                                                         *)
(* None of the three properties is inductive, because of what is on its    *)
(* way.  A push of the queue may bring a request back: Cleared says that   *)
(* none does, from the moment a removal is confirmed (ClearedInTime).  A   *)
(* push of the lock may take a granted lock away: it was prepared against  *)
(* the lock that is there (PushSound), by the owner when the lease is      *)
(* valid, and the owner prepares a deletion only while it means to give    *)
(* the lock up (DeletionAsked), which every way into the grant excludes.   *)
(* Intent ties what a session wants to the stage it is in.                 *)
(***************************************************************************)

(* A session that waits at most once is gone when its first place is.       *)
LEMMA RemoveFirstIs ==
    ASSUME NEW S, NEW q \in Seq(S), NEW e, IsInjective(q)
    PROVE  /\ RemoveFirst(q, e) \in Seq(S)
           /\ IsInjective(RemoveFirst(q, e))
           /\ \A i \in DOMAIN RemoveFirst(q, e) :
                 RemoveFirst(q, e)[i] # e
                 /\ \E j \in DOMAIN q : q[j] = RemoveFirst(q, e)[i]
<1>1. CASE ~\E i \in 1 .. Len(q) : q[i] = e
  <2>1. RemoveFirst(q, e) = q
    BY <1>1 DEF RemoveFirst
  <2> QED BY <1>1, <2>1
<1>2. CASE \E i \in 1 .. Len(q) : q[i] = e
  <2>1. PICK k \in 1 .. Len(q) : q[k] = e
    BY <1>2
  <2>2. {i \in 1 .. Len(q) : q[i] = e} = {k}
    BY <2>1 DEF IsInjective
  <2>3. SelectInSeq(q, LAMBDA v : v = e) = k
    <3>1. Min({k}) = k
      BY DEF Min
    <3> QED BY <2>2, <3>1 DEF SelectInSeq
  <2>4. RemoveFirst(q, e) = SubSeq(q, 1, k - 1) \o SubSeq(q, k + 1, Len(q))
    BY <1>2, <2>3 DEF RemoveFirst, RemoveAt
  <2> DEFINE new == SubSeq(q, 1, k - 1) \o SubSeq(q, k + 1, Len(q))
  <2>5. Len(q) \in Nat /\ k \in 1 .. Len(q) /\ DOMAIN q = 1 .. Len(q)
    OBVIOUS
  <2>6. PICK left, right : left = SubSeq(q, 1, k - 1) /\ right = SubSeq(q, k + 1, Len(q))
    OBVIOUS
  <2>7. /\ left \in Seq(S) /\ Len(left) = k - 1
        /\ \A i \in 1 .. k - 1 : left[i] = q[i]
    <3>1. \A i \in 1 .. k - 1 : q[i] \in S
      BY <2>5
    <3>2. 1 \in Int /\ k - 1 \in Int /\ k \in Int /\ k >= 1
      BY <2>5
    <3>3. /\ left \in Seq(S) /\ Len(left) = IF 1 <= k - 1 THEN k - 1 - 1 + 1 ELSE 0
          /\ \A i \in 1 .. k - 1 - 1 + 1 : left[i] = q[1 + i - 1]
      BY ONLY <2>6, <3>1, <3>2, SubSeqProperties
    <3> QED BY <3>2, <3>3
  <2>8. /\ right \in Seq(S) /\ Len(right) = Len(q) - k
        /\ \A i \in 1 .. Len(q) - k : right[i] = q[i + k]
    <3>1. \A i \in k + 1 .. Len(q) : q[i] \in S
      BY <2>5
    <3>2. k + 1 \in Int /\ Len(q) \in Int /\ k \in Int /\ k <= Len(q)
      BY <2>5
    <3>3. /\ right \in Seq(S) /\ Len(right) = IF k + 1 <= Len(q) THEN Len(q) - (k + 1) + 1 ELSE 0
          /\ \A i \in 1 .. Len(q) - (k + 1) + 1 : right[i] = q[k + 1 + i - 1]
      BY ONLY <2>6, <3>1, <3>2, SubSeqProperties
    <3> QED BY <3>2, <3>3
  <2>9. /\ new \in Seq(S) /\ Len(new) = Len(q) - 1
        /\ \A i \in 1 .. Len(new) : new[i] = IF i < k THEN q[i] ELSE q[i + 1]
    <3>1. /\ left \o right \in Seq(S)
          /\ Len(left \o right) = Len(left) + Len(right)
          /\ \A i \in 1 .. Len(left) + Len(right) :
                (left \o right)[i] = IF i <= Len(left) THEN left[i] ELSE right[i - Len(left)]
      BY <2>7, <2>8, ConcatProperties, ZenonT(30)
    <3>2. new = left \o right
      BY <2>6
    <3> HIDE DEF new
    <3>3. Len(new) = Len(q) - 1
      <4>1. Len(new) = (k - 1) + (Len(q) - k)
        BY <2>7, <2>8, <3>1, <3>2, Zenon
      <4>2. k \in Int /\ Len(q) \in Int
        BY <2>5
      <4> QED BY ONLY <4>1, <4>2
    <3>4. ASSUME NEW i \in 1 .. Len(new)
          PROVE  new[i] = IF i < k THEN q[i] ELSE q[i + 1]
      <4>1. CASE i < k
        BY <2>5, <2>7, <2>8, <3>1, <3>2, <3>3, <4>1
      <4>2. CASE ~(i < k)
        BY <2>5, <2>7, <2>8, <3>1, <3>2, <3>3, <4>2
      <4> QED BY <4>1, <4>2
    <3> QED BY <3>1, <3>2, <3>3, <3>4
  <2> HIDE DEF new
  <2>10. DOMAIN new = 1 .. Len(new)
    BY <2>9
  <2>11. ASSUME NEW i \in DOMAIN new
         PROVE  \E j \in DOMAIN q : j # k /\ new[i] = q[j] /\ j = IF i < k THEN i ELSE i + 1
    BY <2>5, <2>9, <2>10
  <2>12. IsInjective(new)
    <3> SUFFICES ASSUME NEW a \in DOMAIN new, NEW b \in DOMAIN new, new[a] = new[b]
                 PROVE  a = b
      BY DEF IsInjective
    <3>1. PICK c \in DOMAIN q : new[a] = q[c] /\ c = IF a < k THEN a ELSE a + 1
      BY <2>11
    <3>2. PICK d \in DOMAIN q : new[b] = q[d] /\ d = IF b < k THEN b ELSE b + 1
      BY <2>11
    <3>3. c = d
      BY <3>1, <3>2 DEF IsInjective
    <3> QED BY <2>5, <2>9, <2>10, <3>1, <3>2, <3>3
  <2>13. \A j \in DOMAIN q : j # k => q[j] # e
    BY <2>1, <2>5 DEF IsInjective
  <2>14. RemoveFirst(q, e) = new
    BY <2>4 DEF new
  <2> QED BY <2>9, <2>11, <2>12, <2>13, <2>14
<1> QED BY <1>1, <1>2

-----------------------------------------------------------------------------
(* The inductive invariant. *)

(* A push on its way was prepared against the lock that is there, or against *)
(* no lock; it brings a name of its own; and against a valid lease only its  *)
(* owner prepares one.                                                       *)
PushSound(p) ==
    /\ p.old \in {0, lock.id}
    /\ p.new # 0 => p.new # lock.id
    /\ p.old = lock.id /\ lock.lease = "valid" => p.by = lock.owner

LocksSound ==
    /\ lock.id = 0 => lock = Absent
    /\ \A p \in lockPushes : PushSound(p)
    /\ \A p, r \in lockPushes : p.new = r.new /\ p.new # 0 => p = r

(* The stages from the rollback before a grant to the grant. *)
Committed == {"head", "take", "recheck", "guard", "consume", "verify"}
(* The stages a session with a cancellation at heart never reaches. *)
Uncancelled == {"enqueue", "readback", "undoFirst"} \cup (Committed \ {"guard"})

(* What a session wants, in each of its stages. *)
Intent(s) ==
    /\ run[s].at = "idle" => run[s] = Rest
    /\ run[s].at # "idle" => ~writing[s]
    /\ run[s].at \notin {"idle", "dead"} => wants[s]
    /\ run[s].at \in Uncancelled => ~cancelling[s]
    /\ cancelling[s] => wants[s]
    /\ writing[s] => ~ungranted[s]

(* s is in no queue and no push can bring it into one. *)
Named(s, q) == \E i \in DOMAIN q : q[i] = s
Cleared(s) == ~Named(s, queue) /\ \A q \in queuePushes : ~Named(s, q)

Done(s) == \/ run[s].at \in {"verify", "remaining", "undoCancel"}
           \/ ~wants[s] /\ run[s].at # "dead"
ClearedInTime(s) == Done(s) => Cleared(s)

(* The deletion of a live lock is on its way only when its session asked for *)
(* it and has not confirmed the lock since.                                  *)
DeletionPending == \E p \in lockPushes : p.new = 0 /\ p.old = lock.id
Gives(s) ==
    \/ writing[s] /\ s \in forfeited
    \/ ungranted[s] /\ run[s].at \notin Committed
    \/ run[s].at = "dead"
Doomed(s) == LiveFor(s) /\ DeletionPending
DeletionAsked(s) == Doomed(s) => Gives(s)

WriterLive(s) == writing[s] /\ s \notin forfeited => LiveFor(s)

Sound(s) == Intent(s) /\ ClearedInTime(s) /\ DeletionAsked(s) /\ WriterLive(s)

ManagerInv == ManagerTypeOK /\ LocksSound /\ \A s \in Client : Sound(s)

-----------------------------------------------------------------------------
(* What the steps of one session leave alone. *)

ClientStep(s) ==
    \/ Continue(s) \/ User(s) \/ Poller(s) \/ LoseWriting(s)
    \/ Crash(s) \/ RequestExpires(s)

LEMMA GotoIs ==
    ASSUME ManagerTypeOK, NEW s \in Client, NEW stage \in Stage, Goto(s, stage)
    PROVE  /\ run' \in [Client -> [at : Stage, by : Caller]]
           /\ run'[s].at = stage
           /\ stage = "idle" => run'[s] = Rest
           /\ \A t \in Client \ {s} : run'[t] = run[t]
<1>1. run \in [Client -> [at : Stage, by : Caller]]
  BY DEF ManagerTypeOK
<1>2. PICK by \in Caller : /\ run' = [run EXCEPT ![s] = At(stage, by)]
                           /\ stage = "idle" => by = "user"
  <2>1. CASE stage \in Granting
    BY <1>1, <2>1 DEF Goto, Granting, Caller
  <2>2. CASE stage \notin Granting
    BY <2>2 DEF Goto, Caller
  <2> QED BY <2>1, <2>2
<1>3. At(stage, by) \in [at : Stage, by : Caller] /\ At(stage, by).at = stage
  BY DEF At
<1> QED BY <1>1, <1>2, <1>3 DEF Rest

SameLocal(t) ==
    /\ run'[t] = run[t] /\ wants'[t] = wants[t] /\ cancelling'[t] = cancelling[t]
    /\ ungranted'[t] = ungranted[t] /\ writing'[t] = writing[t]
    /\ (t \in forfeited') <=> (t \in forfeited)

(* A step of s changes nothing of another session. *)
LEMMA OthersKeep ==
    ASSUME ManagerTypeOK, NEW s \in Client, ClientStep(s), NEW t \in Client \ {s}
    PROVE  SameLocal(t)
<1>1. \A stage \in Stage : Goto(s, stage) => run'[t] = run[t]
  BY GotoIs
<1>2. /\ wants \in [Client -> BOOLEAN] /\ cancelling \in [Client -> BOOLEAN]
      /\ ungranted \in [Client -> BOOLEAN] /\ writing \in [Client -> BOOLEAN]
      /\ run \in [Client -> [at : Stage, by : Caller]]
  BY DEF ManagerTypeOK
<1>3. CASE Continue(s)
  <2>1. CASE Enqueue(s) \/ Consume(s) \/ CancelInQueue(s)
    BY <1>1, <2>1 DEF Enqueue, Consume, CancelInQueue, WriteQueueTo, Stage, manager, SameLocal
  <2>2. CASE ReadBack(s) \/ FindHead(s) \/ Recheck(s) \/ GuardReturns(s) \/ Remaining(s)
    BY <1>1, <1>2, <2>2 DEF ReadBack, FindHead, Recheck, GuardReturns, Remaining, Finish, Stage,
       manager, SameLocal
  <2>3. CASE Undo(s)
    <3>1. run'[t] = run[t]
      BY <1>1, <2>3 DEF Undo, AfterUndo, Finish, Stage
    <3>2. wants'[t] = wants[t] /\ cancelling'[t] = cancelling[t]
      BY <1>2, <2>3 DEF Undo
    <3>3. ungranted'[t] = ungranted[t]
      BY <1>2, <2>3 DEF Undo, RollbackSucceeds, RollbackFails, NoUngranted
    <3> QED BY <2>3, <3>1, <3>2, <3>3 DEF Undo, SameLocal
  <2>4. CASE Take(s)
    <3>1. run'[t] = run[t]
      BY <1>1, <2>4 DEF Take, TakeUnseen, Finish, Stage
    <3>2. ungranted'[t] = ungranted[t]
      BY <1>2, <2>4 DEF Take, TakeUnseen
    <3> QED BY <2>4, <3>1, <3>2 DEF Take, SameLocal
  <2>5. CASE Verify(s)
    <3>1. run'[t] = run[t]
      BY <1>1, <2>5 DEF Verify, Finish, Stage
    <3> QED BY <1>2, <2>5, <3>1 DEF Verify, NoUngranted, SameLocal
  <2>6. CASE RefreshInQueue(s)
    BY <1>1, <1>2, <2>6 DEF RefreshInQueue, WriteQueueTo, Stage, SameLocal
  <2> QED BY <1>3, <2>1, <2>2, <2>3, <2>4, <2>5, <2>6 DEF Continue
<1>4. CASE User(s)
  BY <1>1, <1>2, <1>4 DEF User, RequestWrite, Cancel, CancelDuringGuard, Release, Stage, SameLocal
<1>5. CASE Poller(s)
  BY <1>1, <1>2, <1>5 DEF Poller, PollerGrants, RefreshBegin, Renew, Stage, manager, SameLocal
<1>6. CASE LoseWriting(s) \/ Crash(s) \/ RequestExpires(s)
  BY <1>2, <1>6 DEF LoseWriting, Crash, RequestExpires, manager, SameLocal
<1> QED BY <1>3, <1>4, <1>5, <1>6 DEF ClientStep

-----------------------------------------------------------------------------
(* What a step of s does to the lock. *)

Deletes(s) == Holds(s) /\ SetLock(Absent)
AsksDeletion(s) ==
    /\ Holds(s) /\ lock' = lock
    /\ lockPushes' = lockPushes \cup {[by |-> s, old |-> lock.id, new |-> 0]}
MayPut(s, id) == id \in FreeIds(s) /\ (Takeable(s) \/ LiveFor(s))
Puts(s, id) == MayPut(s, id) /\ SetLock(NewLock(s, id))
AsksPut(s, id) ==
    /\ MayPut(s, id) /\ lock' = lock
    /\ lockPushes' = lockPushes \cup {[by |-> s, old |-> lock.id, new |-> id]}
LockKept == lock' = lock /\ lockPushes' = lockPushes

LockEffect(s) ==
    \/ LockKept \/ Deletes(s) \/ AsksDeletion(s)
    \/ \E id \in Ids : Puts(s, id) \/ AsksPut(s, id)

LEMMA UndoLock ==
    ASSUME NEW s \in Client, RollbackSucceeds(s) \/ RollbackFails(s)
    PROVE  LockKept \/ Deletes(s) \/ AsksDeletion(s)
BY DEF RollbackSucceeds, RollbackFails, DeletionUnseen, LockKept, Deletes, AsksDeletion

LEMMA TakeLock ==
    ASSUME NEW s \in Client, Take(s)
    PROVE  LockKept \/ \E id \in Ids : Puts(s, id) \/ AsksPut(s, id)
<1>1. ASSUME NEW id \in FreeIds(s), Takeable(s),
             \/ SetLock(NewLock(s, id))
             \/ TakeUnseen(s, id)
      PROVE  Puts(s, id) \/ AsksPut(s, id)
  BY <1>1 DEF TakeUnseen, Puts, AsksPut, MayPut
<1>2. \A id \in FreeIds(s) : id \in Ids
  BY DEF FreeIds
<1>3. LockKept \/ \E id \in FreeIds(s) : Takeable(s) /\ (SetLock(NewLock(s, id)) \/ TakeUnseen(s, id))
  BY DEF Take, LockKept
<1> QED BY <1>1, <1>2, <1>3

LEMMA RenewLock ==
    ASSUME NEW s \in Client, Renew(s)
    PROVE  \E id \in Ids : Puts(s, id) \/ AsksPut(s, id)
<1>1. PICK id \in FreeIds(s) :
         \/ SetLock(NewLock(s, id))
         \/ /\ lockPushes' = lockPushes \cup {[by |-> s, old |-> lock.id, new |-> id]}
            /\ lock' = lock
  BY DEF Renew
<1>2. LiveFor(s) /\ id \in Ids
  BY DEF Renew, FreeIds
<1> QED BY <1>1, <1>2 DEF Puts, AsksPut, MayPut

LEMMA ReleaseLock ==
    ASSUME NEW s \in Client, Release(s)
    PROVE  LockKept \/ Deletes(s) \/ AsksDeletion(s)
BY DEF Release, DeletionUnseen, LockKept, Deletes, AsksDeletion

LEMMA ClientLock ==
    ASSUME NEW s \in Client, ClientStep(s)
    PROVE  LockEffect(s)
<1>1. CASE Undo(s)
  BY <1>1, UndoLock DEF Undo, LockEffect
<1>2. CASE Take(s)
  BY <1>2, TakeLock DEF LockEffect
<1>3. CASE Continue(s) /\ ~Undo(s) /\ ~Take(s)
  <2>1. LockKept
    BY <1>3 DEF Continue, Enqueue, ReadBack, FindHead, Recheck, GuardReturns, Consume, Verify,
       CancelInQueue, Remaining, RefreshInQueue, remote, LockKept
  <2> QED BY <2>1 DEF LockEffect
<1>4. CASE User(s)
  BY <1>4, ReleaseLock DEF User, RequestWrite, Cancel, CancelDuringGuard, remote, LockKept, LockEffect
<1>5. CASE Poller(s)
  BY <1>5, RenewLock DEF Poller, PollerGrants, RefreshBegin, remote, LockKept, LockEffect
<1>6. CASE LoseWriting(s) \/ Crash(s) \/ RequestExpires(s)
  BY <1>6 DEF LoseWriting, Crash, RequestExpires, remote, LockKept, LockEffect
<1> QED BY <1>1, <1>2, <1>3, <1>4, <1>5, <1>6 DEF ClientStep

-----------------------------------------------------------------------------
(* What a step of s does to the queue: only Enqueue brings s into it. *)

QueuesNow == {queue} \cup queuePushes
OnlyAdds(s) ==
    \A q \in QueuesNow' : \A t \in Client :
        Named(t, q) => t = s \/ \E r \in QueuesNow : Named(t, r)
NothingNew ==
    \A q \in QueuesNow' : \A t \in Client :
        Named(t, q) => \E r \in QueuesNow : Named(t, r)

LEMMA ClearedMeans == \A t : Cleared(t) <=> \A q \in QueuesNow : ~Named(t, q)
BY DEF Cleared, QueuesNow

LEMMA WriteQueueAdds ==
    ASSUME NEW s, NEW new, NEW done, NEW unknown, WriteQueueTo(s, new, done, unknown)
    PROVE  QueuesNow' \subseteq QueuesNow \cup {new}
BY DEF WriteQueueTo, SetQueue, QueuesNow

LEMMA TailNames ==
    ASSUME ManagerTypeOK, queue # << >>
    PROVE  Tail(queue) \in Seq(Client) /\ IsInjective(Tail(queue))
           /\ \A t : Named(t, Tail(queue)) => Named(t, queue) /\ t # Head(queue)
<1>1. queue \in Seq(Client) /\ IsInjective(queue)
  BY DEF ManagerTypeOK
<1>2. /\ Tail(queue) \in Seq(Client) /\ Len(Tail(queue)) = Len(queue) - 1
      /\ DOMAIN queue = 1 .. Len(queue) /\ Len(queue) \in Nat /\ Len(queue) > 0
      /\ DOMAIN Tail(queue) = 1 .. Len(queue) - 1
      /\ \A i \in 1 .. Len(queue) - 1 : Tail(queue)[i] = queue[i + 1]
      /\ Head(queue) = queue[1]
  BY <1>1
<1>3. \A i \in 1 .. Len(queue) - 1 : i + 1 \in DOMAIN queue /\ i + 1 # 1 /\ 1 \in DOMAIN queue
  BY <1>2
<1>4. IsInjective(Tail(queue))
  BY <1>1, <1>2, <1>3 DEF IsInjective
<1>5. ASSUME NEW t, Named(t, Tail(queue)) PROVE Named(t, queue) /\ t # Head(queue)
  BY <1>1, <1>2, <1>3, <1>5 DEF IsInjective, Named
<1> QED BY <1>2, <1>4, <1>5

LEMMA AppendNames ==
    ASSUME ManagerTypeOK, NEW s \in Client, ~Waits(s)
    PROVE  Append(queue, s) \in Seq(Client) /\ IsInjective(Append(queue, s))
           /\ \A t : Named(t, Append(queue, s)) => t = s \/ Named(t, queue)
<1>1. queue \in Seq(Client) /\ IsInjective(queue) /\ \A i \in DOMAIN queue : queue[i] # s
  BY DEF ManagerTypeOK, Waits
<1>2. PICK new : new = Append(queue, s)
  OBVIOUS
<1>3. /\ new \in Seq(Client) /\ DOMAIN queue = 1 .. Len(queue) /\ Len(queue) \in Nat
      /\ DOMAIN new = 1 .. Len(queue) + 1
      /\ \A i \in 1 .. Len(queue) : new[i] = queue[i]
      /\ new[Len(queue) + 1] = s
  BY <1>1, <1>2
<1>4. IsInjective(new)
  BY <1>1, <1>3 DEF IsInjective
<1>5. ASSUME NEW t, Named(t, new) PROVE t = s \/ Named(t, queue)
  BY <1>3, <1>5 DEF Named
<1> QED BY <1>2, <1>3, <1>4, <1>5

LEMMA RemoveNames ==
    ASSUME ManagerTypeOK, NEW s \in Client, NEW q \in QueuesNow
    PROVE  RemoveFirst(q, s) \in Seq(Client) /\ IsInjective(RemoveFirst(q, s))
           /\ \A t : Named(t, RemoveFirst(q, s)) => Named(t, q) /\ t # s
<1>1. q \in Seq(Client) /\ IsInjective(q)
  BY DEF ManagerTypeOK, QueuesNow
<1>2. PICK new : new = RemoveFirst(q, s)
  OBVIOUS
<1>3. /\ new \in Seq(Client) /\ IsInjective(new)
      /\ \A i \in DOMAIN new : new[i] # s /\ \E j \in DOMAIN q : q[j] = new[i]
  BY <1>1, <1>2, RemoveFirstIs
<1>4. ASSUME NEW t, Named(t, new) PROVE Named(t, q) /\ t # s
  BY <1>3, <1>4 DEF Named
<1> QED BY <1>2, <1>3, <1>4

LEMMA ClientQueue ==
    ASSUME ManagerTypeOK, NEW s \in Client, ClientStep(s)
    PROVE  OnlyAdds(s) /\ (~Enqueue(s) => NothingNew)
<1>1. QueuesNow' \subseteq QueuesNow => NothingNew
  BY DEF NothingNew
<1>2. NothingNew => OnlyAdds(s)
  BY DEF NothingNew, OnlyAdds
<1>3. ASSUME NEW new, QueuesNow' \subseteq QueuesNow \cup {new},
             \A t \in Client : Named(t, new) => Named(t, queue)
      PROVE  NothingNew
  BY <1>3 DEF NothingNew, QueuesNow
<1>4. queue' = queue /\ queuePushes' = queuePushes => NothingNew
  BY <1>1 DEF QueuesNow
<1>5. CASE Enqueue(s)
  <2>1. CASE Waits(s)
    BY <1>2, <1>4, <1>5, <2>1 DEF Enqueue
  <2>2. CASE ~Waits(s)
    <3>1. QueuesNow' \subseteq QueuesNow \cup {Append(queue, s)}
      BY <1>5, <2>2, WriteQueueAdds DEF Enqueue
    <3> QED BY <1>5, <2>2, <3>1, AppendNames DEF OnlyAdds, QueuesNow
  <2> QED BY <2>1, <2>2
<1>6. ASSUME Consume(s) PROVE NothingNew
  <2>1. CASE AtHead(s)
    <3>1. queue # << >> /\ QueuesNow' \subseteq QueuesNow \cup {Tail(queue)}
      BY <1>6, <2>1, WriteQueueAdds DEF Consume, AtHead
    <3> QED BY <1>3, <3>1, TailNames
  <2>2. CASE ~AtHead(s)
    BY <1>4, <1>6, <2>2 DEF Consume
  <2> QED BY <2>1, <2>2
<1>7. ASSUME CancelInQueue(s) PROVE NothingNew
  <2>1. QueuesNow' \subseteq QueuesNow \cup {RemoveFirst(queue, s)}
    BY <1>7, WriteQueueAdds DEF CancelInQueue
  <2> QED BY <1>3, <2>1, RemoveNames DEF QueuesNow
<1>8. ASSUME RefreshInQueue(s) PROVE NothingNew
  <2>1. QueuesNow' \subseteq QueuesNow \cup {queue} \/ NothingNew
    BY <1>4, <1>8, WriteQueueAdds DEF RefreshInQueue
  <2> QED BY <1>3, <2>1
<1>9. ASSUME RequestExpires(s) PROVE NothingNew
  <2>1. \A q \in QueuesNow' : \E r \in QueuesNow : q = RemoveFirst(r, s)
    BY <1>9 DEF RequestExpires, QueuesNow
  <2> QED BY <2>1, RemoveNames DEF NothingNew
<1>10. ASSUME \/ ReadBack(s) \/ Undo(s) \/ FindHead(s) \/ Take(s) \/ Recheck(s)
              \/ GuardReturns(s) \/ Verify(s) \/ Remaining(s)
       PROVE  NothingNew
  BY <1>4, <1>10 DEF ReadBack, Undo, FindHead, Take, Recheck, GuardReturns,
     Verify, Remaining, remote
<1>11. ASSUME User(s) \/ Poller(s) \/ LoseWriting(s) \/ Crash(s)
       PROVE  NothingNew
  BY <1>4, <1>11 DEF User, RequestWrite, Cancel, CancelDuringGuard, Release,
     Poller, PollerGrants, RefreshBegin, Renew, LoseWriting, Crash, remote
<1> QED BY <1>2, <1>5, <1>6, <1>7, <1>8, <1>9, <1>10, <1>11 DEF ClientStep, Continue

-----------------------------------------------------------------------------
(* Types. *)

LockTypes ==
    /\ lock \in [id : Ids \cup {0}, owner : Client \cup {None}, lease : Phase]
    /\ lockPushes \subseteq [by : Client, old : Ids \cup {0}, new : Ids \cup {0}]
    /\ lock.owner = None <=> lock = Absent

QueueTypes ==
    /\ \A q \in QueuesNow : q \in Seq(Client) /\ IsInjective(q)

LocalTypes ==
    /\ tokens \in [Client -> SUBSET Ids]
    /\ run \in [Client -> [at : Stage, by : Caller]]
    /\ wants \in [Client -> BOOLEAN]
    /\ cancelling \in [Client -> BOOLEAN]
    /\ ungranted \in [Client -> BOOLEAN]
    /\ writing \in [Client -> BOOLEAN]
    /\ forfeited \subseteq Client
    /\ faults \in 0 .. MaxFaults

LEMMA TypesSplit == ManagerTypeOK <=> LockTypes /\ QueueTypes /\ LocalTypes
BY DEF ManagerTypeOK, LockTypes, QueueTypes, LocalTypes, QueuesNow

LEMMA NewLockIs ==
    ASSUME NEW s \in Client, NEW id \in Ids
    PROVE  /\ NewLock(s, id) \in [id : Ids \cup {0}, owner : Client \cup {None}, lease : Phase]
           /\ NewLock(s, id).owner = s /\ NewLock(s, id).id = id
           /\ NewLock(s, id).lease = "valid"
           /\ s # None /\ id # 0 /\ NewLock(s, id) # Absent
BY NoneAssumption, IdsAssumption DEF NewLock, Phase, Absent

LEMMA AbsentIs ==
    /\ Absent \in [id : Ids \cup {0}, owner : Client \cup {None}, lease : Phase]
    /\ Absent.owner = None /\ Absent.id = 0 /\ Absent.lease = "over"
BY DEF Absent, Phase

LEMMA EffectTypes ==
    ASSUME LockTypes, NEW s \in Client, LockEffect(s)
    PROVE  LockTypes'
<1>1. CASE LockKept
  BY <1>1 DEF LockKept, LockTypes, Absent
<1>2. CASE Deletes(s)
  <2>1. lock' = Absent /\ lockPushes' \subseteq lockPushes
    BY <1>2 DEF Deletes, SetLock, StillPossible
  <2> QED BY <2>1, AbsentIs DEF LockTypes
<1>3. CASE AsksDeletion(s)
  BY <1>3 DEF AsksDeletion, LockTypes
<1>4. ASSUME NEW id \in Ids, Puts(s, id) PROVE LockTypes'
  <2>1. lock' = NewLock(s, id) /\ lockPushes' \subseteq lockPushes
    BY <1>4 DEF Puts, SetLock, StillPossible
  <2>2. lock'.owner # None /\ lock' # Absent
        /\ lock' \in [id : Ids \cup {0}, owner : Client \cup {None}, lease : Phase]
    BY <2>1, NewLockIs
  <2> QED BY <2>1, <2>2 DEF LockTypes
<1>5. ASSUME NEW id \in Ids, AsksPut(s, id) PROVE LockTypes'
  BY <1>5 DEF AsksPut, LockTypes
<1> QED BY <1>1, <1>2, <1>3, <1>4, <1>5 DEF LockEffect

LEMMA LandsTypes ==
    ASSUME LockTypes, NEW p \in lockPushes, LockPushLands(p)
    PROVE  LockTypes'
<1>1. lock' = (IF p.new = 0 THEN Absent ELSE NewLock(p.by, p.new)) /\ lockPushes' \subseteq lockPushes
  BY DEF LockPushLands, StillPossible
<1>2. p.by \in Client /\ (p.new # 0 => p.new \in Ids)
  BY DEF LockTypes
<1>3. CASE p.new = 0
  BY <1>1, <1>3, AbsentIs DEF LockTypes
<1>4. CASE p.new # 0
  <2>1. lock'.owner # None /\ lock' # Absent
        /\ lock' \in [id : Ids \cup {0}, owner : Client \cup {None}, lease : Phase]
    BY <1>1, <1>2, <1>4, NewLockIs
  <2> QED BY <1>1, <2>1 DEF LockTypes
<1> QED BY <1>3, <1>4

LEMMA LeaseEndsTypes ==
    ASSUME LockTypes, LeaseEnds
    PROVE  LockTypes'
<1>1. /\ lock # Absent /\ lockPushes' = lockPushes
      /\ lock' = [id |-> lock.id, owner |-> lock.owner,
                  lease |-> IF lock.lease = "valid" THEN "grace" ELSE "over"]
  BY DEF LeaseEnds
<1>2. /\ lock' \in [id : Ids \cup {0}, owner : Client \cup {None}, lease : Phase]
      /\ lock'.owner = lock.owner /\ lock.owner # None
  BY <1>1 DEF LockTypes, Phase
<1>3. lock' # Absent
  BY <1>2 DEF Absent
<1> QED BY <1>1, <1>2, <1>3 DEF LockTypes

LEMMA ClientQueueTypes ==
    ASSUME ManagerTypeOK, NEW s \in Client, ClientStep(s)
    PROVE  QueueTypes'
<1>1. QueueTypes
  BY TypesSplit
<1>2. ASSUME NEW new \in Seq(Client), IsInjective(new), QueuesNow' \subseteq QueuesNow \cup {new}
      PROVE  QueueTypes'
  BY <1>1, <1>2 DEF QueueTypes
<1>3. UNCHANGED <<queue, queuePushes>> => QueueTypes'
  BY <1>1 DEF QueueTypes, QueuesNow
<1>4. ASSUME Enqueue(s) PROVE QueueTypes'
  BY <1>2, <1>3, <1>4, WriteQueueAdds, AppendNames DEF Enqueue
<1>5. ASSUME Consume(s) PROVE QueueTypes'
  BY <1>2, <1>3, <1>5, WriteQueueAdds, TailNames DEF Consume, AtHead
<1>6. ASSUME CancelInQueue(s) PROVE QueueTypes'
  BY <1>2, <1>6, WriteQueueAdds, RemoveNames DEF CancelInQueue, QueuesNow
<1>7. ASSUME RefreshInQueue(s) PROVE QueueTypes'
  <2>1. queue \in Seq(Client) /\ IsInjective(queue)
    BY DEF ManagerTypeOK
  <2> QED BY <1>2, <1>3, <1>7, <2>1, WriteQueueAdds DEF RefreshInQueue
<1>8. ASSUME RequestExpires(s) PROVE QueueTypes'
  <2>1. \A q \in QueuesNow' : \E r \in QueuesNow : q = RemoveFirst(r, s)
    BY <1>8 DEF RequestExpires, QueuesNow
  <2> QED BY <2>1, RemoveNames DEF QueueTypes
<1>9. ASSUME \/ ReadBack(s) \/ Undo(s) \/ FindHead(s) \/ Take(s) \/ Recheck(s)
             \/ GuardReturns(s) \/ Verify(s) \/ Remaining(s)
      PROVE  QueueTypes'
  BY <1>3, <1>9 DEF ReadBack, Undo, FindHead, Take, Recheck, GuardReturns,
     Verify, Remaining, remote
<1>10. ASSUME User(s) \/ Poller(s) \/ LoseWriting(s) \/ Crash(s)
       PROVE  QueueTypes'
  BY <1>3, <1>10 DEF User, RequestWrite, Cancel, CancelDuringGuard, Release,
     Poller, PollerGrants, RefreshBegin, Renew, LoseWriting, Crash, remote
<1> QED BY <1>4, <1>5, <1>6, <1>7, <1>8, <1>9, <1>10 DEF ClientStep, Continue

LEMMA FaultCounts == faults \in 0 .. MaxFaults /\ (Fault \/ UNCHANGED faults) => faults' \in 0 .. MaxFaults
BY FaultAssumption DEF Fault

LEMMA ClientLocalTypes ==
    ASSUME LocalTypes, LockTypes, ManagerTypeOK, NEW s \in Client, ClientStep(s)
    PROVE  LocalTypes'
<1> DEFINE RunTyped == run' \in [Client -> [at : Stage, by : Caller]]
<1>1. \A stage \in Stage : Goto(s, stage) => RunTyped
  BY GotoIs
<1>2. /\ tokens \in [Client -> SUBSET Ids]
      /\ run \in [Client -> [at : Stage, by : Caller]]
      /\ wants \in [Client -> BOOLEAN] /\ cancelling \in [Client -> BOOLEAN]
      /\ ungranted \in [Client -> BOOLEAN] /\ writing \in [Client -> BOOLEAN]
      /\ forfeited \subseteq Client
  BY DEF LocalTypes
<1>3. Fault \/ UNCHANGED faults => faults' \in 0 .. MaxFaults
  BY FaultCounts DEF LocalTypes
<1>4. RunTyped
  <2>1. CASE Continue(s)
    <3>1. CASE Undo(s)
      BY <1>1, <3>1 DEF Undo, AfterUndo, Finish, Stage
    <3>2. CASE ~Undo(s)
      BY <1>1, <2>1, <3>2 DEF Continue, Enqueue, ReadBack, FindHead, Take, TakeUnseen, Recheck,
         GuardReturns, Consume, Verify, CancelInQueue, Remaining, RefreshInQueue,
         WriteQueueTo, Finish, Stage
    <3> QED BY <3>1, <3>2
  <2>2. CASE User(s)
    BY <1>1, <1>2, <2>2 DEF User, RequestWrite, Cancel, CancelDuringGuard, Release, At, Stage, Caller
  <2>3. CASE Poller(s)
    BY <1>1, <1>2, <2>3 DEF Poller, PollerGrants, RefreshBegin, Renew, At, Stage, Caller
  <2>4. CASE LoseWriting(s) \/ Crash(s) \/ RequestExpires(s)
    BY <1>2, <2>4 DEF LoseWriting, Crash, RequestExpires, At, Stage, Caller
  <2> QED BY <2>1, <2>2, <2>3, <2>4 DEF ClientStep
<1> HIDE DEF RunTyped
<1>5. faults' \in 0 .. MaxFaults
  <2>1. CASE Continue(s)
    BY <1>3, <2>1 DEF Continue, Enqueue, ReadBack, Undo, RollbackFails, FindHead, Take, TakeUnseen,
       Recheck, GuardReturns, Consume, Verify, CancelInQueue, Remaining, RefreshInQueue, WriteQueueTo
  <2>2. CASE User(s) \/ Poller(s)
    BY <1>3, <2>2 DEF User, RequestWrite, Cancel, CancelDuringGuard, Release,
       Poller, PollerGrants, RefreshBegin, Renew
  <2>3. CASE LoseWriting(s) \/ Crash(s) \/ RequestExpires(s)
    BY <1>3, <2>3 DEF LoseWriting, Crash, RequestExpires
  <2> QED BY <2>1, <2>2, <2>3 DEF ClientStep
<1>6. tokens' \in [Client -> SUBSET Ids]
  <2>1. FreeIds(s) \subseteq Ids
    BY DEF FreeIds
  <2>2. CASE Continue(s)
    <3>1. CASE Take(s)
      BY <1>2, <2>1, <3>1 DEF Take, TakeUnseen
    <3>2. CASE Undo(s)
      BY <1>2, <3>2 DEF Undo, RollbackSucceeds, RollbackFails, DeletionUnseen
    <3>3. CASE ~Take(s) /\ ~Undo(s)
      BY <1>2, <2>2, <3>3 DEF Continue, Enqueue, ReadBack, FindHead, Recheck,
         GuardReturns, Consume, Verify, CancelInQueue, Remaining, RefreshInQueue
    <3> QED BY <3>1, <3>2, <3>3
  <2>3. CASE User(s)
    BY <1>2, <2>3 DEF User, RequestWrite, Cancel, CancelDuringGuard, Release, DeletionUnseen
  <2>4. CASE Poller(s)
    BY <1>2, <2>1, <2>4 DEF Poller, PollerGrants, RefreshBegin, Renew
  <2>5. CASE LoseWriting(s) \/ Crash(s) \/ RequestExpires(s)
    BY <1>2, <2>5 DEF LoseWriting, Crash, RequestExpires
  <2> QED BY <2>2, <2>3, <2>4, <2>5 DEF ClientStep
<1>7. /\ wants' \in [Client -> BOOLEAN] /\ cancelling' \in [Client -> BOOLEAN]
      /\ ungranted' \in [Client -> BOOLEAN] /\ writing' \in [Client -> BOOLEAN]
      /\ forfeited' \subseteq Client
  <2>1. CASE Continue(s)
    <3>1. CASE Take(s)
      BY <1>2, <3>1 DEF Take, TakeUnseen
    <3>2. CASE Undo(s)
      BY <1>2, <3>2 DEF Undo, RollbackSucceeds, RollbackFails, NoUngranted
    <3>3. CASE ~Take(s) /\ ~Undo(s)
      BY <1>2, <2>1, <3>3 DEF Continue, Enqueue, ReadBack, FindHead, Recheck, manager, NoUngranted,
         GuardReturns, Consume, Verify, CancelInQueue, Remaining, RefreshInQueue
    <3> QED BY <3>1, <3>2, <3>3
  <2>2. CASE User(s)
    BY <1>2, <2>2 DEF User, RequestWrite, Cancel, CancelDuringGuard, Release
  <2>3. CASE Poller(s)
    BY <1>2, <2>3 DEF Poller, PollerGrants, RefreshBegin, Renew, manager
  <2>4. CASE LoseWriting(s) \/ Crash(s) \/ RequestExpires(s)
    BY <1>2, <2>4 DEF LoseWriting, Crash, RequestExpires, manager
  <2> QED BY <2>1, <2>2, <2>3, <2>4 DEF ClientStep
<1> QED BY <1>4, <1>5, <1>6, <1>7 DEF LocalTypes, RunTyped

LEMMA TypeInit == ManagerInit => ManagerTypeOK
<1> SUFFICES ASSUME ManagerInit PROVE ManagerTypeOK
  OBVIOUS
<1>1. LockTypes
  BY AbsentIs DEF ManagerInit, LockTypes
<1>2. QueueTypes
  BY DEF ManagerInit, QueueTypes, QueuesNow, IsInjective
<1>3. LocalTypes
  BY FaultAssumption DEF ManagerInit, LocalTypes, Rest, At, Stage, Caller
<1> QED BY <1>1, <1>2, <1>3, TypesSplit

LEMMA TypeStep == ManagerTypeOK /\ [ManagerNext]_managerVars => ManagerTypeOK'
<1> SUFFICES ASSUME ManagerTypeOK, [ManagerNext]_managerVars PROVE ManagerTypeOK'
  OBVIOUS
<1>1. LockTypes /\ QueueTypes /\ LocalTypes
  BY TypesSplit
<1>2. ASSUME UNCHANGED <<queue, queuePushes>> PROVE QueueTypes'
  BY <1>1, <1>2 DEF QueueTypes, QueuesNow
<1>3. ASSUME UNCHANGED <<tokens, run, manager>>, forfeited' \subseteq Client, Fault \/ UNCHANGED faults
      PROVE  LocalTypes'
  BY <1>1, <1>3, FaultCounts DEF LocalTypes, manager
<1>4. ASSUME NEW s \in Client, ClientStep(s) PROVE ManagerTypeOK'
  <2>1. LockTypes' /\ QueueTypes' /\ LocalTypes'
    BY <1>1, <1>4, ClientLock, EffectTypes, ClientQueueTypes, ClientLocalTypes
  <2> QED BY <2>1, TypesSplit, PTL
<1>5. ASSUME NEW p \in lockPushes, LockPushLands(p) PROVE ManagerTypeOK'
  <2>1. LockTypes'
    BY <1>1, <1>5, LandsTypes
  <2>2. QueueTypes' /\ LocalTypes'
    BY <1>1, <1>2, <1>3, <1>5 DEF LockPushLands, LocalTypes
  <2> QED BY <2>1, <2>2, TypesSplit, PTL
<1>6. ASSUME NEW q \in queuePushes, QueuePushLands(q) PROVE ManagerTypeOK'
  <2>1. LockTypes'
    BY <1>1, <1>6 DEF QueuePushLands, LockTypes, Absent
  <2>2. QueueTypes'
    BY <1>1, <1>6 DEF QueuePushLands, SetQueue, QueueTypes, QueuesNow
  <2>3. LocalTypes'
    BY <1>1, <1>3, <1>6 DEF QueuePushLands, LocalTypes
  <2> QED BY <2>1, <2>2, <2>3, TypesSplit, PTL
<1>7. CASE LeaseEnds
  <2>1. LockTypes'
    BY <1>1, <1>7, LeaseEndsTypes
  <2>2. lock.owner \in Client
    BY <1>1, <1>7 DEF LeaseEnds, LockTypes
  <2>3. QueueTypes' /\ LocalTypes'
    BY <1>1, <1>2, <1>3, <1>7, <2>2 DEF LeaseEnds, LocalTypes
  <2> QED BY <2>1, <2>3, TypesSplit, PTL
<1>8. CASE UNCHANGED managerVars
  BY <1>8 DEF managerVars, remote, manager, ManagerTypeOK, IsInjective, Absent
<1> QED BY <1>4, <1>5, <1>6, <1>7, <1>8 DEF ManagerNext, ClientStep

-----------------------------------------------------------------------------
(* The lock and the pushes on their way to it. *)

LEMMA FreeIs ==
    ASSUME NEW s, NEW id \in FreeIds(s)
    PROVE  id \in Ids /\ id # 0 /\ id # lock.id /\ \A p \in lockPushes : p.old # id /\ p.new # id
BY IdsAssumption DEF FreeIds

LEMMA TakeableIsNotLive ==
    ASSUME LockTypes, NEW s, Takeable(s)
    PROVE  lock.lease # "valid"
BY AbsentIs DEF Takeable

LEMMA EffectLocks ==
    ASSUME LockTypes, LocksSound, NEW s \in Client, LockEffect(s)
    PROVE  LocksSound'
<1>1. CASE LockKept
  BY <1>1 DEF LockKept, LocksSound, PushSound, Absent
<1>2. CASE Deletes(s)
  <2>1. lock' = Absent /\ \A p \in lockPushes' : p \in lockPushes /\ p.old \in {0, 0}
    BY <1>2, AbsentIs DEF Deletes, SetLock, StillPossible
  <2> QED BY <2>1, AbsentIs DEF LocksSound, PushSound
<1>3. CASE AsksDeletion(s)
  <2> DEFINE push == [by |-> s, old |-> lock.id, new |-> 0]
  <2>1. lock' = lock /\ lockPushes' = lockPushes \cup {push} /\ lock.owner = s
    BY <1>3 DEF AsksDeletion, Holds
  <2>2. PushSound(push)
    BY <2>1 DEF PushSound
  <2>3. \A p \in lockPushes' : PushSound(p)'
    BY <2>1, <2>2 DEF LocksSound, PushSound
  <2> QED BY <2>1, <2>3 DEF LocksSound, Absent
<1>4. ASSUME NEW id \in Ids, Puts(s, id) PROVE LocksSound'
  <2>1. /\ lock' = NewLock(s, id)
        /\ \A p \in lockPushes' : p \in lockPushes /\ p.old \in {0, id}
        /\ id \in FreeIds(s)
    BY <1>4, NewLockIs DEF Puts, MayPut, SetLock, StillPossible
  <2>2. id # 0 /\ lock'.id = id /\ \A p \in lockPushes' : p.old # id /\ p.new # id
    BY <2>1, FreeIs, NewLockIs
  <2> QED BY <2>1, <2>2 DEF LocksSound, PushSound
<1>5. ASSUME NEW id \in Ids, AsksPut(s, id) PROVE LocksSound'
  <2> DEFINE push == [by |-> s, old |-> lock.id, new |-> id]
  <2>1. lock' = lock /\ lockPushes' = lockPushes \cup {push} /\ id \in FreeIds(s)
        /\ (Takeable(s) \/ LiveFor(s))
    BY <1>5 DEF AsksPut, MayPut
  <2>2. id # 0 /\ id # lock.id /\ \A p \in lockPushes : p.new # id
    BY <2>1, FreeIs
  <2>3. PushSound(push)
    BY <2>1, <2>2, TakeableIsNotLive DEF PushSound, LiveFor
  <2>4. \A p \in lockPushes' : PushSound(p)'
    BY <2>1, <2>3 DEF LocksSound, PushSound
  <2>5. \A p, r \in lockPushes' : p.new = r.new /\ p.new # 0 => p = r
    BY <2>1, <2>2 DEF LocksSound
  <2> QED BY <2>1, <2>4, <2>5 DEF LocksSound, Absent
<1> QED BY <1>1, <1>2, <1>3, <1>4, <1>5 DEF LockEffect

(* What is left on the way when a push has landed was prepared against no    *)
(* lock: nothing knows the name that landed.                                 *)
LEMMA LandsIs ==
    ASSUME LockTypes, LocksSound, NEW p \in lockPushes, LockPushLands(p)
    PROVE  /\ lock' = IF p.new = 0 THEN Absent ELSE NewLock(p.by, p.new)
           /\ p.by \in Client /\ (p.new # 0 => p.new \in Ids)
           /\ lock'.id = p.new
           /\ \A r \in lockPushes' : /\ r \in lockPushes /\ r.old = 0
                                     /\ r.new # 0 => r.new # p.new
<1>1. /\ lock' = IF p.new = 0 THEN Absent ELSE NewLock(p.by, p.new)
      /\ p.by \in Client /\ (p.new # 0 => p.new \in Ids)
  BY DEF LockPushLands, LockTypes
<1>2. lock'.id = p.new
  BY <1>1, AbsentIs, NewLockIs
<1>3. \A r \in lockPushes' : r \in lockPushes /\ r # p /\ r.old \in {0, p.new}
  BY DEF LockPushLands, StillPossible
<1>4. \A r \in lockPushes' : r.old = 0
  BY <1>3 DEF LocksSound, PushSound
<1> QED BY <1>1, <1>2, <1>3, <1>4 DEF LocksSound

LEMMA LandsLocks ==
    ASSUME LockTypes, LocksSound, NEW p \in lockPushes, LockPushLands(p)
    PROVE  LocksSound'
<1>1. /\ lock'.id = p.new
      /\ lock' = IF p.new = 0 THEN Absent ELSE NewLock(p.by, p.new)
      /\ \A r \in lockPushes' : r \in lockPushes /\ r.old = 0 /\ (r.new # 0 => r.new # p.new)
  BY LandsIs
<1>2. \A r \in lockPushes' : r.old = p.new => lock' = Absent
  BY <1>1
<1>3. \A r \in lockPushes' : PushSound(r)'
  BY <1>1, <1>2, AbsentIs DEF PushSound
<1> QED BY <1>1, <1>3 DEF LocksSound

LEMMA LeaseEndsLocks ==
    ASSUME LockTypes, LocksSound, LeaseEnds
    PROVE  LocksSound'
<1>1. /\ lock # Absent /\ lockPushes' = lockPushes
      /\ lock'.id = lock.id /\ lock'.lease # "valid"
  BY DEF LeaseEnds
<1> QED BY <1>1 DEF LocksSound, PushSound

LEMMA LocksStep == ManagerTypeOK /\ LocksSound /\ [ManagerNext]_managerVars => LocksSound'
<1> SUFFICES ASSUME ManagerTypeOK, LocksSound, [ManagerNext]_managerVars PROVE LocksSound'
  OBVIOUS
<1>1. LockTypes
  BY TypesSplit
<1>2. LockKept => LocksSound'
  BY DEF LockKept, LocksSound, PushSound, Absent
<1>3. ASSUME NEW s \in Client, ClientStep(s) PROVE LocksSound'
  BY <1>1, <1>3, ClientLock, EffectLocks
<1>4. ASSUME NEW p \in lockPushes, LockPushLands(p) PROVE LocksSound'
  BY <1>1, <1>4, LandsLocks
<1>5. ASSUME NEW q \in queuePushes, QueuePushLands(q) PROVE LocksSound'
  BY <1>2, <1>5 DEF QueuePushLands, LockKept
<1>6. CASE LeaseEnds
  BY <1>1, <1>6, LeaseEndsLocks
<1>7. CASE UNCHANGED managerVars
  BY <1>2, <1>7 DEF managerVars, remote, LockKept
<1> QED BY <1>3, <1>4, <1>5, <1>6, <1>7 DEF ManagerNext, ClientStep

-----------------------------------------------------------------------------
(* Sessions. *)

(* A step of s leaves the live lock of another session alone. *)
LEMMA LiveStays ==
    ASSUME LockTypes, NEW s \in Client, LockEffect(s), NEW t \in Client, t # s, LiveFor(t)
    PROVE  LiveFor(t)'
<1>1. lock.owner = t /\ lock.lease = "valid" /\ ~Holds(s)
  BY DEF LiveFor, Holds
<1>2. ~Takeable(s) /\ ~LiveFor(s)
  BY <1>1, TakeableIsNotLive DEF LiveFor
<1>3. lock' = lock
  BY <1>1, <1>2 DEF LockEffect, LockKept, Deletes, AsksDeletion, Puts, AsksPut, MayPut
<1> QED BY <1>1, <1>3 DEF LiveFor

(* A lock is put under sentence of deletion by its own session only. *)
LEMMA DoomedBy ==
    ASSUME LockTypes, LocksSound, NEW s \in Client, LockEffect(s), NEW t \in Client, Doomed(t)'
    PROVE  Doomed(t) \/ (t = s /\ AsksDeletion(s))
<1>1. LiveFor(t)' /\ \E p \in lockPushes' : p.new = 0 /\ p.old = lock'.id
  BY DEF Doomed, DeletionPending
<1>2. CASE LockKept
  BY <1>1, <1>2 DEF LockKept, Doomed, LiveFor, DeletionPending
<1>3. CASE Deletes(s)
  BY <1>1, <1>3, AbsentIs, NoneAssumption DEF Deletes, SetLock, LiveFor
<1>4. CASE AsksDeletion(s)
  BY <1>1, <1>4 DEF AsksDeletion, LiveFor, Holds
<1>5. ASSUME NEW id \in Ids, Puts(s, id) PROVE FALSE
  <2>1. lock'.id = id /\ id \in FreeIds(s) /\ lockPushes' \subseteq lockPushes
    BY <1>5, NewLockIs DEF Puts, MayPut, SetLock, StillPossible
  <2> QED BY <1>1, <2>1, FreeIs
<1>6. ASSUME NEW id \in Ids, AsksPut(s, id) PROVE Doomed(t)
  <2>1. /\ lock' = lock /\ id # 0
        /\ lockPushes' = lockPushes \cup {[by |-> s, old |-> lock.id, new |-> id]}
    BY <1>6, NewLockIs DEF AsksPut
  <2> QED BY <1>1, <2>1 DEF Doomed, LiveFor, DeletionPending
<1> QED BY <1>2, <1>3, <1>4, <1>5, <1>6 DEF LockEffect

LEMMA OthersSound ==
    ASSUME ManagerInv, NEW s \in Client, ClientStep(s), NEW t \in Client, t # s
    PROVE  Sound(t)'
<1>1. /\ LockTypes /\ LocksSound /\ LockEffect(s) /\ SameLocal(t) /\ OnlyAdds(s) /\ Sound(t)
  BY TypesSplit, ClientLock, OthersKeep, ClientQueue DEF ManagerInv
<1>2. Intent(t)'
  BY <1>1 DEF Sound, Intent, SameLocal
<1>3. Cleared(t) => Cleared(t)'
  BY <1>1, ClearedMeans DEF OnlyAdds, Cleared, QueuesNow
<1>4. ClearedInTime(t)'
  BY <1>1, <1>3 DEF Sound, ClearedInTime, Done, SameLocal
<1>5. DeletionAsked(t)'
  <2>1. Doomed(t)' => Doomed(t)
    BY <1>1, DoomedBy
  <2> QED BY <1>1, <2>1 DEF Sound, DeletionAsked, Gives, SameLocal
<1>6. WriterLive(t)'
  BY <1>1, LiveStays DEF Sound, WriterLive, SameLocal
<1> QED BY <1>2, <1>4, <1>5, <1>6 DEF Sound

(* A session keeps to what it wants, in every step of its own. *)
LEMMA IntentKept ==
    ASSUME ManagerInv, NEW s \in Client, ClientStep(s)
    PROVE  Intent(s)'
<1>1. \A stage \in Stage : Goto(s, stage) =>
         run'[s].at = stage /\ (stage = "idle" => run'[s] = Rest)
  BY GotoIs DEF ManagerInv
<1>2. /\ wants \in [Client -> BOOLEAN] /\ cancelling \in [Client -> BOOLEAN]
      /\ ungranted \in [Client -> BOOLEAN] /\ writing \in [Client -> BOOLEAN]
      /\ run \in [Client -> [at : Stage, by : Caller]]
  BY DEF ManagerInv, ManagerTypeOK
<1>3. Intent(s) /\ ClearedInTime(s)
  BY DEF ManagerInv, Sound
<1>4. CASE Enqueue(s)
  <2>1. run'[s].at = "readback" /\ run[s].at = "enqueue" /\ UNCHANGED manager
    BY <1>1, <1>4 DEF Enqueue, WriteQueueTo, Stage
  <2> QED BY <1>3, <2>1 DEF Intent, Uncancelled, Committed, manager
<1>5. CASE ReadBack(s)
  <2>1. run[s].at = "readback" /\ UNCHANGED <<wants, ungranted, writing>>
    BY <1>5 DEF ReadBack
  <2>2. \/ run'[s] = Rest /\ run'[s].at = "idle" /\ UNCHANGED cancelling
        \/ run'[s].at = "undoFirst" /\ UNCHANGED cancelling
        \/ run'[s].at = "cancel" /\ cancelling'[s] = TRUE
    BY <1>1, <1>2, <1>5 DEF ReadBack, Finish, Stage
  <2> QED BY <1>3, <2>1, <2>2 DEF Intent, Uncancelled, Committed
<1>6. CASE Undo(s)
  <2>1. /\ run[s].at \in {"undoFirst", "undoLast", "undoCancel", "undoRefresh"}
        /\ UNCHANGED writing
    BY <1>6 DEF Undo, AfterUndo
  <2>2. CASE RollbackFails(s) /\ Finish(s) /\ UNCHANGED <<wants, cancelling>>
    <3>1. run'[s] = Rest /\ run'[s].at = "idle"
      BY <1>1, <2>2 DEF Finish, Stage
    <3> QED BY <1>3, <2>1, <2>2, <3>1 DEF Intent, Uncancelled, Committed
  <2>3. CASE /\ Goto(s, AfterUndo[run[s].at])
             /\ IF run[s].at = "undoCancel"
                THEN /\ wants' = [wants EXCEPT ![s] = FALSE]
                     /\ cancelling' = [cancelling EXCEPT ![s] = FALSE]
                ELSE UNCHANGED <<wants, cancelling>>
    <3>1. CASE run[s].at = "undoCancel"
      <4>1. run'[s] = Rest /\ run'[s].at = "idle"
        BY <1>1, <2>3, <3>1 DEF AfterUndo, Stage
      <4>2. wants'[s] = FALSE /\ cancelling'[s] = FALSE
        BY <1>2, <2>3, <3>1
      <4> QED BY <1>3, <2>1, <3>1, <4>1, <4>2 DEF Intent, Uncancelled, Committed
    <3>2. CASE run[s].at # "undoCancel"
      <4>1. UNCHANGED <<wants, cancelling>>
        BY <2>3, <3>2
      <4>2. \/ run[s].at = "undoFirst" /\ run'[s].at = "head"
            \/ run[s].at = "undoLast" /\ run'[s].at = "idle" /\ run'[s] = Rest
            \/ run[s].at = "undoRefresh" /\ run'[s].at = "refresh"
        BY <1>1, <2>1, <2>3, <3>2 DEF AfterUndo, Stage
      <4> QED BY <1>3, <2>1, <4>1, <4>2 DEF Intent, Uncancelled, Committed
    <3> QED BY <3>1, <3>2
  <2> QED BY <1>6, <2>2, <2>3 DEF Undo
<1>7. CASE FindHead(s) \/ Recheck(s) \/ Remaining(s)
  <2>1. UNCHANGED manager
    BY <1>7 DEF FindHead, Recheck, Remaining
  <2>2. \/ run[s].at \in {"head", "recheck", "remaining"} /\ run'[s].at = "idle" /\ run'[s] = Rest
        \/ run[s].at = "head" /\ run'[s].at = "take"
        \/ run[s].at = "recheck" /\ run'[s].at \in {"guard", "consume", "undoLast"}
        \/ run[s].at = "remaining" /\ run'[s].at = "undoCancel"
    BY <1>1, <1>7 DEF FindHead, Recheck, Remaining, Finish, Stage
  <2> QED BY <1>3, <2>1, <2>2 DEF Intent, Uncancelled, Committed, manager
<1>8. CASE Take(s)
  <2>1. UNCHANGED <<wants, cancelling, writing>> /\ run[s].at = "take"
    BY <1>8 DEF Take
  <2>2. run'[s].at = "recheck" \/ (run'[s].at = "idle" /\ run'[s] = Rest)
    BY <1>1, <1>8 DEF Take, TakeUnseen, Finish, Stage
  <2> QED BY <1>3, <2>1, <2>2 DEF Intent, Uncancelled, Committed
<1>9. CASE GuardReturns(s)
  <2>1. UNCHANGED manager /\ run[s].at = "guard"
    BY <1>9 DEF GuardReturns
  <2>2. (run'[s].at = "consume" /\ ~cancelling[s]) \/ run'[s].at = "undoLast"
    BY <1>1, <1>9 DEF GuardReturns, Stage
  <2> QED BY <1>3, <2>1, <2>2 DEF Intent, Uncancelled, Committed, manager
<1>10. CASE Consume(s) \/ CancelInQueue(s)
  <2>1. UNCHANGED manager
    BY <1>10 DEF Consume, CancelInQueue
  <2>2. \/ run[s].at = "consume" /\ run'[s].at \in {"verify", "undoLast"}
        \/ run[s].at = "cancel" /\ run'[s].at = "remaining"
        \/ run[s].at = "cancel" /\ run'[s].at = "idle" /\ run'[s] = Rest
    BY <1>1, <1>10 DEF Consume, CancelInQueue, WriteQueueTo, Stage
  <2> QED BY <1>3, <2>1, <2>2 DEF Intent, Uncancelled, Committed, manager
<1>11. CASE Verify(s)
  <2>1. run[s].at = "verify" /\ UNCHANGED cancelling
    BY <1>11 DEF Verify
  <2>2. \/ /\ run'[s].at = "idle" /\ run'[s] = Rest
           /\ writing'[s] = TRUE /\ ungranted'[s] = FALSE /\ wants'[s] = FALSE
        \/ run'[s].at = "undoLast" /\ UNCHANGED <<wants, ungranted, writing>>
    BY <1>1, <1>2, <1>11 DEF Verify, NoUngranted, Finish, Stage
  <2> QED BY <1>3, <2>1, <2>2 DEF Intent, Uncancelled, Committed
<1>12. CASE RefreshInQueue(s)
  <2>1. run[s].at = "refresh" /\ UNCHANGED <<wants, ungranted, writing>>
    BY <1>12 DEF RefreshInQueue
  <2>2. \/ run'[s].at = "idle" /\ run'[s] = Rest /\ UNCHANGED cancelling
        \/ run'[s].at = "cancel" /\ cancelling'[s] = TRUE
    BY <1>1, <1>2, <1>12 DEF RefreshInQueue, WriteQueueTo, Stage
  <2> QED BY <1>3, <2>1, <2>2 DEF Intent, Uncancelled, Committed
<1>13. CASE RequestWrite(s)
  <2>1. /\ wants'[s] = TRUE /\ run'[s].at = "enqueue" /\ run[s] = Rest
        /\ ~cancelling[s] /\ ~writing[s] /\ UNCHANGED <<cancelling, ungranted, writing>>
    BY <1>2, <1>13 DEF RequestWrite, At
  <2> QED BY <2>1 DEF Intent
<1>14. CASE Cancel(s)
  <2>1. /\ cancelling'[s] = TRUE /\ run'[s].at = "cancel" /\ ~writing[s]
        /\ wants[s] /\ UNCHANGED <<wants, ungranted, writing>>
    BY <1>1, <1>2, <1>3, <1>14 DEF Cancel, Intent, Stage
  <2> QED BY <2>1 DEF Intent, Uncancelled, Committed
<1>15. CASE CancelDuringGuard(s)
  BY <1>2, <1>3, <1>15 DEF CancelDuringGuard, Intent, Uncancelled
<1>16. CASE Release(s) \/ LoseWriting(s)
  <2>1. run[s] = Rest /\ UNCHANGED <<run, wants, cancelling, ungranted>> /\ writing[s]
    BY <1>16 DEF Release, LoseWriting
  <2> QED BY <1>3, <2>1 DEF Intent, Rest, At, Uncancelled, Committed
<1>17. CASE PollerGrants(s)
  <2>1. /\ run[s] = Rest /\ ~writing[s] /\ ~cancelling[s] /\ AtHead(s)
        /\ run'[s].at = "undoFirst" /\ UNCHANGED manager
    BY <1>2, <1>17 DEF PollerGrants, At
  <2>2. ~Cleared(s)
    <3>1. queue \in Seq(Client) /\ queue # << >> /\ Head(queue) = s
      BY <2>1 DEF AtHead, ManagerInv, ManagerTypeOK
    <3>2. 1 \in DOMAIN queue /\ queue[1] = s
      BY <3>1
    <3> QED BY <3>2 DEF Cleared, Named
  <2>3. wants[s]
    BY <1>3, <2>1, <2>2 DEF ClearedInTime, Done, Rest, At
  <2> QED BY <2>1, <2>3 DEF Intent, manager
<1>18. CASE RefreshBegin(s)
  <2>1. /\ ~writing[s] /\ wants[s] /\ UNCHANGED manager
        /\ run'[s].at \in {"cancel", "undoRefresh"}
    BY <1>1, <1>18 DEF RefreshBegin, Stage
  <2> QED BY <2>1 DEF Intent, Uncancelled, Committed, manager
<1>19. CASE Renew(s) \/ RequestExpires(s)
  BY <1>3, <1>19 DEF Renew, RequestExpires, Intent, manager
<1>20. CASE Crash(s)
  <2>1. run'[s].at = "dead" /\ ~cancelling'[s] /\ ~writing'[s]
    BY <1>2, <1>20 DEF Crash, At
  <2> QED BY <2>1 DEF Intent, Uncancelled, Committed
<1> QED BY <1>4, <1>5, <1>6, <1>7, <1>8, <1>9, <1>10, <1>11, <1>12, <1>13, <1>14, <1>15,
        <1>16, <1>17, <1>18, <1>19, <1>20 DEF ClientStep, Continue, User, Poller

(* What the session has taken out of the queue, or asked to be taken out,    *)
(* cannot come back: nothing that may still land has it.                     *)
LEMMA WriteQueueClears ==
    ASSUME ManagerInv, NEW s \in Client, NEW new, SetQueue(new), ~Named(s, new)
    PROVE  Cleared(s)'
BY DEF SetQueue, Cleared, Named

LEMMA ClearedKept ==
    ASSUME ManagerInv, NEW s \in Client, ClientStep(s)
    PROVE  ClearedInTime(s)'
<1>1. \A stage \in Stage : Goto(s, stage) => run'[s].at = stage
  BY GotoIs DEF ManagerInv
<1>2. wants \in [Client -> BOOLEAN] /\ run \in [Client -> [at : Stage, by : Caller]]
  BY DEF ManagerInv, ManagerTypeOK
<1>3. Intent(s) /\ ClearedInTime(s)
  BY DEF ManagerInv, Sound
<1>4. CASE Enqueue(s)
  <2>1. run'[s].at = "readback" /\ run[s].at = "enqueue" /\ UNCHANGED wants
    BY <1>1, <1>4 DEF Enqueue, WriteQueueTo, Stage, manager
  <2> QED BY <1>3, <2>1 DEF Intent, ClearedInTime, Done
<1>5. CASE Consume(s)
  <2>1. run[s].at = "consume" /\ wants[s] /\ wants'[s] = wants[s]
    BY <1>3, <1>5 DEF Consume, Intent, manager
  <2>2. \/ AtHead(s) /\ SetQueue(Tail(queue))
        \/ run'[s].at = "undoLast"
    BY <1>1, <1>5 DEF Consume, WriteQueueTo, Stage
  <2>3. AtHead(s) => ~Named(s, Tail(queue))
    BY TailNames DEF AtHead, ManagerInv
  <2>4. AtHead(s) /\ SetQueue(Tail(queue)) => Cleared(s)'
    BY <2>3, WriteQueueClears
  <2> QED BY <2>1, <2>2, <2>4 DEF ClearedInTime, Done
<1>6. CASE CancelInQueue(s)
  <2>1. run[s].at = "cancel" /\ wants[s] /\ wants'[s] = wants[s]
    BY <1>3, <1>6 DEF CancelInQueue, Intent, manager
  <2>2. SetQueue(RemoveFirst(queue, s)) \/ run'[s].at = "idle"
    BY <1>1, <1>6 DEF CancelInQueue, WriteQueueTo, Stage
  <2>3. ~Named(s, RemoveFirst(queue, s))
    BY RemoveNames DEF ManagerInv, QueuesNow
  <2>4. SetQueue(RemoveFirst(queue, s)) => Cleared(s)'
    BY <2>3, WriteQueueClears
  <2> QED BY <2>1, <2>2, <2>4 DEF ClearedInTime, Done
<1>7. ASSUME ~Enqueue(s), Done(s)' => Done(s) PROVE ClearedInTime(s)'
  <2>1. NothingNew
    BY <1>7, ClientQueue DEF ManagerInv
  <2>2. Cleared(s) => Cleared(s)'
    BY <2>1, ClearedMeans DEF NothingNew, Cleared, QueuesNow
  <2> QED BY <1>3, <1>7, <2>2 DEF ClearedInTime
<1>8. CASE Undo(s)
  <2>1. CASE run[s].at = "undoCancel"
    BY <1>7, <1>8, <2>1 DEF Undo, Done, Enqueue
  <2>2. CASE run[s].at # "undoCancel"
    <3>1. run'[s].at \in {"head", "idle", "refresh"} /\ UNCHANGED wants
      BY <1>1, <1>8, <2>2 DEF Undo, AfterUndo, Finish, Stage
    <3>2. run[s].at \in {"undoFirst", "undoLast", "undoRefresh"}
      BY <1>8, <2>2 DEF Undo, AfterUndo
    <3>3. wants'[s] = TRUE
      BY <1>2, <1>3, <3>1, <3>2 DEF Intent
    <3> QED BY <3>1, <3>3 DEF ClearedInTime, Done
  <2> QED BY <2>1, <2>2
<1>9. CASE Remaining(s) \/ Verify(s)
  BY <1>7, <1>9 DEF Remaining, Verify, Done, Enqueue
<1>10. CASE ReadBack(s) \/ FindHead(s) \/ Take(s) \/ Recheck(s) \/ GuardReturns(s) \/ RefreshInQueue(s)
  <2>1. UNCHANGED wants /\ run[s].at \notin {"idle", "dead"}
    BY <1>10 DEF ReadBack, FindHead, Take, Recheck, GuardReturns, RefreshInQueue, manager
  <2>2. run'[s].at \notin {"verify", "remaining", "undoCancel"}
    BY <1>1, <1>10 DEF ReadBack, FindHead, Take, TakeUnseen, Recheck, GuardReturns, RefreshInQueue,
       WriteQueueTo, Finish, Stage
  <2> QED BY <1>3, <2>1, <2>2 DEF Intent, ClearedInTime, Done
<1>11. CASE RequestWrite(s)
  <2>1. wants'[s] = TRUE /\ run'[s].at = "enqueue"
    BY <1>2, <1>11 DEF RequestWrite, At
  <2> QED BY <2>1 DEF ClearedInTime, Done
<1>12. CASE Cancel(s) \/ RefreshBegin(s)
  <2>1. UNCHANGED wants /\ wants[s]
    BY <1>3, <1>12 DEF Cancel, RefreshBegin, Intent, manager
  <2>2. run'[s].at \in {"cancel", "undoRefresh"}
    BY <1>1, <1>12 DEF Cancel, RefreshBegin, Stage
  <2> QED BY <2>1, <2>2 DEF ClearedInTime, Done
<1>13. CASE PollerGrants(s)
  <2>1. run[s].at = "idle" /\ run'[s].at = "undoFirst" /\ UNCHANGED wants
    BY <1>2, <1>13 DEF PollerGrants, At, Rest, manager
  <2> QED BY <1>7, <1>13, <2>1 DEF Done, Enqueue
<1>14. CASE CancelDuringGuard(s) \/ Release(s) \/ LoseWriting(s) \/ Renew(s) \/ RequestExpires(s)
  <2>1. UNCHANGED <<run, wants>> /\ run[s].at # "enqueue"
    BY <1>14 DEF CancelDuringGuard, Release, LoseWriting, Renew, RequestExpires, Rest, At, manager
  <2> QED BY <1>7, <2>1 DEF Done, Enqueue
<1>15. CASE Crash(s)
  <2>1. run'[s].at = "dead"
    BY <1>2, <1>15 DEF Crash, At
  <2> QED BY <2>1 DEF ClearedInTime, Done
<1> QED BY <1>4, <1>5, <1>6, <1>8, <1>9, <1>10, <1>11, <1>12, <1>13, <1>14, <1>15
        DEF ClientStep, Continue, User, Poller

LEMMA RollbackEnds ==
    ASSUME ManagerInv, NEW s \in Client, RollbackSucceeds(s), Doomed(s)'
    PROVE  Doomed(s) /\ ~ungranted[s]
<1>1. CASE ~ungranted[s]
  BY <1>1 DEF RollbackSucceeds, Doomed, LiveFor, DeletionPending
<1>2. CASE ungranted[s]
  <2>1. lock'.owner # s
    BY <1>2, AbsentIs, NoneAssumption DEF RollbackSucceeds, SetLock
  <2> QED BY <2>1 DEF Doomed, LiveFor
<1> QED BY <1>1, <1>2

LEMMA TakeNotDoomed ==
    ASSUME ManagerInv, NEW s \in Client, Take(s) \/ Renew(s), Doomed(s)'
    PROVE  Doomed(s)
<1>1. LockKept \/ \E id \in Ids : Puts(s, id) \/ AsksPut(s, id)
  BY TakeLock, RenewLock
<1>2. LockTypes /\ LocksSound /\ LockEffect(s)
  BY <1>1, TypesSplit DEF ManagerInv, LockEffect
<1>3. CASE AsksDeletion(s)
  <2> DEFINE push == [by |-> s, old |-> lock.id, new |-> 0]
  <2>1. lock' = lock /\ push \in lockPushes' /\ push.new = 0 /\ push.old = lock.id
    BY <1>3 DEF AsksDeletion
  <2>2. CASE LockKept
    BY <2>2 DEF LockKept, Doomed, LiveFor, DeletionPending
  <2>3. ASSUME NEW id \in Ids, Puts(s, id) PROVE FALSE
    BY <2>1, <2>3, FreeIs, NewLockIs DEF Puts, MayPut, SetLock
  <2>4. ASSUME NEW id \in Ids, AsksPut(s, id) PROVE Doomed(s)
    <3>1. id # 0 /\ lockPushes' = lockPushes \cup {[by |-> s, old |-> lock.id, new |-> id]}
      BY <2>4, NewLockIs DEF AsksPut
    <3> QED BY <2>1, <3>1 DEF Doomed, LiveFor, DeletionPending
  <2> QED BY <1>1, <2>2, <2>3, <2>4
<1>4. CASE ~AsksDeletion(s)
  BY <1>2, <1>4, DoomedBy
<1> QED BY <1>3, <1>4

LEMMA DeletionKept ==
    ASSUME ManagerInv, NEW s \in Client, ClientStep(s)
    PROVE  DeletionAsked(s)'
<1>1. \A stage \in Stage : Goto(s, stage) => run'[s].at = stage
  BY GotoIs DEF ManagerInv
<1>2. /\ ungranted \in [Client -> BOOLEAN] /\ writing \in [Client -> BOOLEAN]
      /\ run \in [Client -> [at : Stage, by : Caller]]
  BY DEF ManagerInv, ManagerTypeOK
<1>3. /\ Intent(s) /\ DeletionAsked(s) /\ LocksSound /\ LockTypes /\ LockEffect(s)
      /\ (WriterLive(s))
  BY TypesSplit, ClientLock DEF ManagerInv, Sound
<1>4. ASSUME Doomed(s)' => Doomed(s), run[s].at \in Committed PROVE DeletionAsked(s)'
  BY <1>3, <1>4 DEF DeletionAsked, Gives, Intent, Committed
<1>5. ASSUME Doomed(s)' => Doomed(s), UNCHANGED <<ungranted, writing, forfeited>>,
             run'[s].at \notin Committed, run[s].at # "dead"
      PROVE  DeletionAsked(s)'
  BY <1>3, <1>5 DEF DeletionAsked, Gives
<1>6. LockKept => (Doomed(s)' => Doomed(s))
  BY DEF LockKept, Doomed, LiveFor, DeletionPending
<1>7. CASE Undo(s)
  <2>1. run[s].at \notin {"idle", "dead"} /\ run[s].at \notin Committed /\ UNCHANGED <<writing, forfeited>>
    BY <1>7 DEF Undo, AfterUndo, Committed
  <2>2. CASE RollbackSucceeds(s)
    BY <1>3, <2>1, <2>2, RollbackEnds DEF DeletionAsked, Gives, Intent
  <2>3. CASE RollbackFails(s) /\ Finish(s)
    <3>1. run'[s].at = "idle" /\ ungranted'[s]
      BY <1>1, <1>2, <2>3 DEF RollbackFails, Finish, Stage
    <3> QED BY <3>1 DEF DeletionAsked, Gives, Committed
  <2> QED BY <1>7, <2>2, <2>3 DEF Undo
<1>8. CASE FindHead(s) \/ Recheck(s) \/ GuardReturns(s) \/ Consume(s) \/ Verify(s)
  <2>1. LockKept /\ run[s].at \in Committed
    BY <1>8 DEF FindHead, Recheck, GuardReturns, Consume, Verify, LockKept, remote, Committed
  <2> QED BY <1>4, <1>6, <2>1
<1>9. CASE Take(s)
  <2>1. run[s].at \in Committed
    BY <1>9 DEF Take, Committed
  <2> QED BY <1>4, <1>9, <2>1, TakeNotDoomed
<1>10. CASE Enqueue(s) \/ ReadBack(s) \/ CancelInQueue(s) \/ Remaining(s) \/ RefreshInQueue(s)
  <2>1. LockKept /\ UNCHANGED <<ungranted, writing, forfeited>> /\ run[s].at # "dead"
    BY <1>10 DEF Enqueue, ReadBack, CancelInQueue, Remaining, RefreshInQueue, LockKept, remote, manager
  <2>2. run'[s].at \notin Committed
    BY <1>1, <1>10 DEF Enqueue, ReadBack, CancelInQueue, Remaining, RefreshInQueue, WriteQueueTo,
       Finish, Stage, Committed
  <2> QED BY <1>5, <1>6, <2>1, <2>2
<1>11. CASE RequestWrite(s) \/ Cancel(s) \/ PollerGrants(s) \/ RefreshBegin(s)
  <2>1. LockKept /\ UNCHANGED <<ungranted, writing, forfeited>> /\ run[s].at # "dead"
    BY <1>11 DEF RequestWrite, Cancel, PollerGrants, RefreshBegin, LockKept, remote, manager, Rest, At
  <2>2. run'[s].at \notin Committed
    BY <1>1, <1>2, <1>11 DEF RequestWrite, Cancel, PollerGrants, RefreshBegin, Stage, Committed, At
  <2> QED BY <1>5, <1>6, <2>1, <2>2
<1>12. CASE CancelDuringGuard(s)
  <2>1. LockKept /\ run[s].at \in Committed
    BY <1>12 DEF CancelDuringGuard, LockKept, remote, Committed
  <2> QED BY <1>4, <1>6, <2>1
<1>13. CASE Renew(s)
  <2>1. UNCHANGED <<run, ungranted, writing, forfeited>>
    BY <1>13 DEF Renew, manager
  <2> QED BY <1>3, <1>13, <2>1, TakeNotDoomed DEF DeletionAsked, Gives
<1>14. CASE Release(s)
  <2>1. CASE writing'[s] /\ s \in forfeited'
    BY <2>1 DEF DeletionAsked, Gives
  <2>2. CASE ~(writing'[s] /\ s \in forfeited')
    <3>1. lock' = Absent
      BY <1>14, <2>2, AbsentIs DEF Release, SetLock
    <3> QED BY <3>1, AbsentIs, NoneAssumption DEF DeletionAsked, Doomed, LiveFor
  <2> QED BY <2>1, <2>2
<1>15. CASE LoseWriting(s)
  BY <1>15 DEF LoseWriting, remote, DeletionAsked, Doomed, LiveFor
<1>16. CASE Crash(s)
  <2>1. run'[s].at = "dead"
    BY <1>2, <1>16 DEF Crash, At
  <2> QED BY <2>1 DEF DeletionAsked, Gives
<1>17. CASE RequestExpires(s)
  BY <1>3, <1>6, <1>17 DEF RequestExpires, manager, LockKept, DeletionAsked, Gives
<1> QED BY <1>7, <1>8, <1>9, <1>10, <1>11, <1>12, <1>13, <1>14, <1>15, <1>16, <1>17
        DEF ClientStep, Continue, User, Poller

LEMMA WriterKept ==
    ASSUME ManagerInv, NEW s \in Client, ClientStep(s)
    PROVE  WriterLive(s)'
<1>1. /\ Intent(s) /\ WriterLive(s) /\ LockTypes /\ LockEffect(s)
      /\ writing \in [Client -> BOOLEAN]
  BY TypesSplit, ClientLock DEF ManagerInv, Sound, ManagerTypeOK
<1>2. CASE Verify(s)
  <2>1. UNCHANGED <<lock, forfeited>> /\ (LiveFor(s) \/ UNCHANGED writing)
    BY <1>2 DEF Verify, remote
  <2> QED BY <1>1, <2>1 DEF WriterLive, LiveFor
<1>3. CASE Continue(s) /\ ~Verify(s)
  <2>1. run[s].at # "idle" /\ writing' = writing
    BY <1>3 DEF Continue, Enqueue, ReadBack, Undo, AfterUndo, FindHead, Take, Recheck,
       GuardReturns, Consume, CancelInQueue, Remaining, RefreshInQueue, manager
  <2> QED BY <1>1, <2>1 DEF WriterLive, Intent
<1>4. CASE RequestWrite(s) \/ Cancel(s) \/ PollerGrants(s) \/ RefreshBegin(s) \/ CancelDuringGuard(s)
  BY <1>1, <1>4 DEF RequestWrite, Cancel, PollerGrants, RefreshBegin, CancelDuringGuard,
     remote, manager, WriterLive, LiveFor
<1>5. CASE Renew(s)
  <2>1. PICK id \in Ids : Puts(s, id) \/ AsksPut(s, id)
    BY <1>5, RenewLock
  <2>2. LiveFor(s)
    BY <1>5 DEF Renew
  <2>3. lock' = NewLock(s, id) \/ lock' = lock
    BY <2>1 DEF Puts, AsksPut, SetLock
  <2> QED BY <2>2, <2>3, NewLockIs DEF WriterLive, LiveFor
<1>6. CASE Release(s)
  <2>1. s \in forfeited' \/ writing' = [writing EXCEPT ![s] = FALSE]
    BY <1>6 DEF Release
  <2> QED BY <1>1, <2>1 DEF WriterLive
<1>7. CASE LoseWriting(s) \/ Crash(s)
  BY <1>1, <1>7 DEF LoseWriting, Crash, WriterLive
<1>8. CASE RequestExpires(s)
  BY <1>1, <1>8 DEF RequestExpires, manager, WriterLive, LiveFor
<1> QED BY <1>2, <1>3, <1>4, <1>5, <1>6, <1>7, <1>8 DEF ClientStep, User, Poller

LEMMA LandsSound ==
    ASSUME ManagerInv, NEW p \in lockPushes, LockPushLands(p), NEW s \in Client
    PROVE  Sound(s)'
<1>1. /\ UNCHANGED <<queue, queuePushes, run, wants, cancelling, ungranted, writing, forfeited>>
      /\ LocksSound /\ LockTypes /\ Sound(s) /\ lock.id = p.old
  BY TypesSplit DEF ManagerInv, LockPushLands, manager
<1>2. /\ lock' = IF p.new = 0 THEN Absent ELSE NewLock(p.by, p.new)
      /\ p.by \in Client /\ (p.new # 0 => p.new \in Ids) /\ lock'.id = p.new
      /\ \A r \in lockPushes' : r.old = 0
  BY <1>1, LandsIs
<1>3. Intent(s)' /\ ClearedInTime(s)'
  BY <1>1 DEF Sound, Intent, ClearedInTime, Done, Cleared
<1>4. ~Doomed(s)'
  BY <1>2, AbsentIs, NoneAssumption DEF Doomed, DeletionPending, LiveFor
<1>5. WriterLive(s)'
  <2> SUFFICES ASSUME writing[s], s \notin forfeited PROVE LiveFor(s)'
    BY <1>1 DEF WriterLive
  <2>1. LiveFor(s) /\ ~Gives(s)
    BY <1>1 DEF Sound, WriterLive, Gives, Intent
  <2>2. p.new # 0
    BY <1>1, <2>1 DEF Sound, DeletionAsked, Doomed, DeletionPending
  <2>3. p.by = s
    BY <1>1, <2>1 DEF LocksSound, PushSound, LiveFor
  <2> QED BY <1>2, <2>2, <2>3, NewLockIs DEF LiveFor
<1> QED BY <1>3, <1>4, <1>5 DEF Sound, DeletionAsked

LEMMA QueueLandsSound ==
    ASSUME ManagerInv, NEW q \in queuePushes, QueuePushLands(q), NEW s \in Client
    PROVE  Sound(s)'
<1>1. /\ UNCHANGED <<lock, lockPushes, run, wants, cancelling, ungranted, writing, forfeited>>
      /\ queue' = q /\ queuePushes' = {} /\ Sound(s)
  BY DEF ManagerInv, QueuePushLands, SetQueue, manager
<1>2. Cleared(s) => Cleared(s)'
  BY <1>1 DEF Cleared, Named
<1>3. Intent(s)' /\ ClearedInTime(s)'
  BY <1>1, <1>2 DEF Sound, Intent, ClearedInTime, Done
<1>4. DeletionAsked(s)' /\ WriterLive(s)'
  BY <1>1 DEF Sound, DeletionAsked, Doomed, DeletionPending, LiveFor, Gives, WriterLive
<1> QED BY <1>3, <1>4 DEF Sound

LEMMA LeaseEndsSound ==
    ASSUME ManagerInv, LeaseEnds, NEW s \in Client
    PROVE  Sound(s)'
<1>1. /\ UNCHANGED <<queue, queuePushes, lockPushes, run, wants, cancelling, ungranted, writing>>
      /\ forfeited' = forfeited \cup {t \in {lock.owner} : writing[t]}
      /\ lock'.lease # "valid" /\ Sound(s)
  BY DEF ManagerInv, LeaseEnds, manager
<1>2. Intent(s)' /\ ClearedInTime(s)'
  BY <1>1 DEF Sound, Intent, ClearedInTime, Done, Cleared
<1>3. DeletionAsked(s)'
  BY <1>1 DEF DeletionAsked, Doomed, LiveFor
<1>4. WriterLive(s)'
  BY <1>1 DEF Sound, WriterLive, LiveFor
<1> QED BY <1>2, <1>3, <1>4 DEF Sound

LEMMA InvariantInit == ManagerInit => ManagerInv
<1> SUFFICES ASSUME ManagerInit PROVE ManagerInv
  OBVIOUS
<1>1. LocksSound
  BY DEF ManagerInit, LocksSound
<1>2. ASSUME NEW s \in Client PROVE Sound(s)
  <2>1. /\ run[s] = Rest /\ ~wants[s] /\ ~cancelling[s] /\ ~writing[s]
        /\ queue = << >> /\ queuePushes = {} /\ lock = Absent
    BY DEF ManagerInit
  <2>2. ~LiveFor(s)
    BY <2>1, AbsentIs, NoneAssumption DEF LiveFor
  <2> QED BY <2>1, <2>2 DEF Sound, Intent, ClearedInTime, Cleared, Named, DeletionAsked, Doomed,
       WriterLive, Rest, At, Uncancelled, Committed
<1> QED BY <1>1, <1>2, TypeInit DEF ManagerInv

LEMMA InvariantStep == ManagerInv /\ [ManagerNext]_managerVars => ManagerInv'
<1> SUFFICES ASSUME ManagerInv, [ManagerNext]_managerVars PROVE ManagerInv'
  OBVIOUS
<1>1. ManagerTypeOK' /\ LocksSound'
  BY TypeStep, LocksStep DEF ManagerInv
<1>2. ASSUME NEW t \in Client PROVE Sound(t)'
  <2>1. ASSUME NEW s \in Client, ClientStep(s) PROVE Sound(t)'
    <3>1. CASE t = s
      BY <2>1, <3>1, IntentKept, ClearedKept, DeletionKept, WriterKept DEF Sound
    <3>2. CASE t # s
      BY <2>1, <3>2, OthersSound
    <3> QED BY <3>1, <3>2
  <2>2. ASSUME NEW p \in lockPushes, LockPushLands(p) PROVE Sound(t)'
    BY <2>2, LandsSound
  <2>3. ASSUME NEW q \in queuePushes, QueuePushLands(q) PROVE Sound(t)'
    BY <2>3, QueueLandsSound
  <2>4. CASE LeaseEnds
    BY <2>4, LeaseEndsSound
  <2>5. CASE UNCHANGED managerVars
    <3>1. /\ UNCHANGED <<lock, lockPushes, queue, queuePushes>>
          /\ UNCHANGED <<run, wants, cancelling, ungranted, writing, forfeited>>
      BY <2>5 DEF managerVars, remote, manager
    <3>2. Sound(t)
      BY DEF ManagerInv
    <3>3. Intent(t)' /\ ClearedInTime(t)'
      BY <3>1, <3>2 DEF Sound, Intent, ClearedInTime, Done, Cleared
    <3>4. DeletionAsked(t)' /\ WriterLive(t)'
      BY <3>1, <3>2 DEF Sound, DeletionAsked, Doomed, DeletionPending, LiveFor, Gives, WriterLive
    <3> QED BY <3>3, <3>4 DEF Sound
  <2> QED BY <2>1, <2>2, <2>3, <2>4, <2>5 DEF ManagerNext, ClientStep
<1> QED BY <1>1, <1>2 DEF ManagerInv

(* The invariant holds in every behaviour of the manager. *)
THEOREM ManagerInvariant == ManagerSpec => []ManagerInv
BY InvariantInit, InvariantStep, PTL DEF ManagerSpec

(* The manager keeps its types: no session waits twice, a lock has an owner. *)
THEOREM ManagerTypeCorrect == ManagerSpec => []ManagerTypeOK
<1>1. ManagerInv => ManagerTypeOK
  BY DEF ManagerInv
<1> QED BY <1>1, ManagerInvariant, PTL

(* A session that neither asks nor writes is in no queue, and nothing that is *)
(* on its way brings it back.                                                *)
THEOREM NothingLeftBehind == ManagerSpec => []NoGhostRequest
<1>1. ManagerInv => NoGhostRequest
  BY DEF ManagerInv, Sound, ClearedInTime, Done, Cleared, Named, NoGhostRequest, Resting, Waits, Rest, At
<1> QED BY <1>1, ManagerInvariant, PTL

(* Whoever writes has the lock, until its lease runs out or it asks for the  *)
(* deletion itself: no late push and no rollback takes it away.              *)
THEOREM LockStays == ManagerSpec => []WriterKeepsLock
<1>1. ManagerInv => WriterKeepsLock
  BY DEF ManagerInv, Sound, WriterLive, LiveFor, Holds, WriterKeepsLock
<1> QED BY <1>1, ManagerInvariant, PTL

(* A session that has asked for a cancellation is not granted any more. *)
THEOREM CancelPreventsGrant == ManagerSpec => NoGrantAfterCancel
<1> DEFINE Prevented == \A s \in Client : cancelling[s] => ~(~writing[s] /\ writing'[s])
<1>1. ASSUME ManagerInv, [ManagerNext]_managerVars PROVE Prevented
  <2> SUFFICES ASSUME NEW t \in Client, cancelling[t], ~writing[t] PROVE ~writing'[t]
    OBVIOUS
  <2>1. ManagerTypeOK /\ Sound(t)
    BY <1>1 DEF ManagerInv
  <2>2. Intent(t) /\ writing \in [Client -> BOOLEAN]
    BY <2>1 DEF Sound, ManagerTypeOK
  <2>3. ASSUME NEW s \in Client, ClientStep(s) PROVE ~writing'[t]
    <3>1. CASE t # s
      BY <2>1, <2>3, <3>1, OthersKeep DEF SameLocal
    <3>2. CASE t = s
      <4>1. ~Verify(s)
        BY <2>2, <3>2 DEF Verify, Intent, Uncancelled, Committed
      <4>2. CASE Continue(s)
        BY <3>2, <4>1, <4>2 DEF Continue, Enqueue, ReadBack, Undo, FindHead, Take, Recheck,
           GuardReturns, Consume, CancelInQueue, Remaining, RefreshInQueue, manager
      <4>3. CASE User(s) \/ Poller(s)
        BY <2>2, <3>2, <4>3 DEF User, Poller, RequestWrite, Cancel, PollerGrants, RefreshBegin,
           CancelDuringGuard, Release, Renew, manager
      <4>4. CASE LoseWriting(s) \/ Crash(s) \/ RequestExpires(s)
        BY <2>2, <3>2, <4>4 DEF LoseWriting, Crash, RequestExpires, manager
      <4> QED BY <2>3, <4>2, <4>3, <4>4 DEF ClientStep
    <3> QED BY <3>1, <3>2
  <2>4. ASSUME UNCHANGED manager PROVE ~writing'[t]
    BY <2>4 DEF manager
  <2>5. CASE ManagerNext
    BY <2>3, <2>4, <2>5 DEF ManagerNext, ClientStep, LockPushLands, QueuePushLands, LeaseEnds
  <2>6. CASE UNCHANGED managerVars
    BY <2>4, <2>6 DEF managerVars
  <2> QED BY <1>1, <2>5, <2>6
<1>2. ManagerInv /\ [ManagerNext]_managerVars => [Prevented]_managerVars
  BY <1>1
<1> QED BY <1>2, ManagerInvariant, PTL DEF ManagerSpec, NoGrantAfterCancel

-----------------------------------------------------------------------------
(* The refinement of ExclusiveWrite. *)

(* A lock is forfeited only by a writer, a writer asks for nothing, and a    *)
(* session that takes back its request means to.                             *)
Withdrawing == {"cancel", "remaining", "undoCancel"}
WriterAtEase(s) == (s \in forfeited => writing[s]) /\ (writing[s] => ~wants[s])
CancelMeant(s) == run[s].at \in Withdrawing => cancelling[s]
Bookkeeping == \A s \in Client : WriterAtEase(s) /\ CancelMeant(s)

LEMMA BookkeepingInit == ManagerInit => Bookkeeping
BY DEF ManagerInit, Bookkeeping, WriterAtEase, CancelMeant, Withdrawing, Rest, At

LEMMA WriterStaysAtEase ==
    ASSUME ManagerInv, Bookkeeping, NEW s \in Client, ClientStep(s)
    PROVE  WriterAtEase(s)'
<1> USE DEF WriterAtEase
<1>1. /\ wants \in [Client -> BOOLEAN] /\ writing \in [Client -> BOOLEAN]
      /\ Intent(s) /\ (s \in forfeited => writing[s]) /\ (writing[s] => ~wants[s])
  BY DEF ManagerInv, ManagerTypeOK, Sound, Bookkeeping
<1>2. CASE UNCHANGED <<wants, writing, forfeited>>
  BY <1>1, <1>2
<1>3. CASE Undo(s)
  BY <1>1, <1>3 DEF Undo
<1>4. CASE Verify(s)
  <2>1. ~writing[s] /\ UNCHANGED forfeited
    BY <1>1, <1>4 DEF Verify, Intent
  <2>2. CASE UNCHANGED <<wants, writing>>
    BY <1>2, <2>1, <2>2
  <2>3. CASE wants' = [wants EXCEPT ![s] = FALSE] /\ writing' = [writing EXCEPT ![s] = TRUE]
    BY <1>1, <2>1, <2>3
  <2> QED BY <1>4, <2>2, <2>3 DEF Verify
<1>5. CASE Continue(s) /\ ~Undo(s) /\ ~Verify(s)
  <2>1. UNCHANGED <<wants, writing, forfeited>>
    BY <1>5 DEF Continue, Enqueue, ReadBack, FindHead, Take, Recheck, GuardReturns, Consume,
       CancelInQueue, Remaining, RefreshInQueue, manager
  <2> QED BY <1>2, <2>1
<1>6. CASE RequestWrite(s)
  BY <1>1, <1>6 DEF RequestWrite
<1>7. CASE Release(s) \/ LoseWriting(s) \/ Crash(s)
  BY <1>1, <1>7 DEF Release, LoseWriting, Crash
<1>8. CASE \/ Cancel(s) \/ CancelDuringGuard(s) \/ PollerGrants(s) \/ RefreshBegin(s)
           \/ Renew(s) \/ RequestExpires(s)
  BY <1>2, <1>8 DEF Cancel, CancelDuringGuard, PollerGrants, RefreshBegin, Renew, RequestExpires,
     manager
<1> QED BY <1>3, <1>4, <1>5, <1>6, <1>7, <1>8 DEF ClientStep, Continue, User, Poller

LEMMA CancelStaysMeant ==
    ASSUME ManagerInv, Bookkeeping, NEW s \in Client, ClientStep(s)
    PROVE  CancelMeant(s)'
<1>1. \A stage \in Stage : Goto(s, stage) => run'[s].at = stage
  BY GotoIs DEF ManagerInv
<1>2. /\ cancelling \in [Client -> BOOLEAN] /\ run \in [Client -> [at : Stage, by : Caller]]
      /\ CancelMeant(s)
  BY DEF ManagerInv, ManagerTypeOK, Bookkeeping
<1>3. ASSUME run'[s].at \notin Withdrawing PROVE CancelMeant(s)'
  BY <1>3 DEF CancelMeant
<1>4. CASE Enqueue(s) \/ Consume(s) \/ FindHead(s) \/ Take(s) \/ Recheck(s) \/ GuardReturns(s) \/ Verify(s)
  <2>1. run'[s].at \notin Withdrawing
    BY <1>1, <1>4 DEF Enqueue, Consume, FindHead, Take, TakeUnseen, Recheck, GuardReturns, Verify,
       WriteQueueTo, Finish, Stage, Withdrawing
  <2> QED BY <1>3, <2>1
<1>5. CASE ReadBack(s) \/ RefreshInQueue(s)
  <2>1. run'[s].at \notin Withdrawing \/ cancelling' = [cancelling EXCEPT ![s] = TRUE]
    BY <1>1, <1>5 DEF ReadBack, RefreshInQueue, WriteQueueTo, Finish, Stage, Withdrawing
  <2> QED BY <1>2, <1>3, <2>1 DEF CancelMeant
<1>6. CASE Undo(s)
  <2>1. run'[s].at \notin Withdrawing
    BY <1>1, <1>6 DEF Undo, AfterUndo, Finish, Stage, Withdrawing
  <2> QED BY <1>3, <2>1
<1>7. CASE CancelInQueue(s) \/ Remaining(s)
  <2>1. run[s].at \in Withdrawing /\ UNCHANGED cancelling
    BY <1>7 DEF CancelInQueue, Remaining, manager, Withdrawing
  <2> QED BY <1>2, <2>1 DEF CancelMeant
<1>8. CASE RequestWrite(s) \/ PollerGrants(s) \/ Crash(s)
  <2>1. run'[s].at \notin Withdrawing
    BY <1>2, <1>8 DEF RequestWrite, PollerGrants, Crash, At, Withdrawing
  <2> QED BY <1>3, <2>1
<1>9. CASE Cancel(s) \/ CancelDuringGuard(s)
  <2>1. cancelling'[s]
    BY <1>2, <1>9 DEF Cancel, CancelDuringGuard
  <2> QED BY <2>1 DEF CancelMeant
<1>10. CASE RefreshBegin(s)
  <2>1. UNCHANGED cancelling /\ (cancelling[s] \/ run'[s].at = "undoRefresh")
    BY <1>1, <1>10 DEF RefreshBegin, manager, Stage
  <2> QED BY <2>1 DEF CancelMeant, Withdrawing
<1>11. CASE Release(s) \/ LoseWriting(s) \/ Renew(s) \/ RequestExpires(s)
  <2>1. UNCHANGED <<run, cancelling>>
    BY <1>11 DEF Release, LoseWriting, Renew, RequestExpires, manager
  <2> QED BY <1>2, <2>1 DEF CancelMeant
<1> QED BY <1>4, <1>5, <1>6, <1>7, <1>8, <1>9, <1>10, <1>11 DEF ClientStep, Continue, User, Poller

LEMMA BookkeepingStep == ManagerInv /\ Bookkeeping /\ [ManagerNext]_managerVars => Bookkeeping'
<1> SUFFICES ASSUME ManagerInv, Bookkeeping, [ManagerNext]_managerVars,
                    NEW t \in Client
             PROVE  WriterAtEase(t)' /\ CancelMeant(t)'
  BY DEF Bookkeeping
<1>1. WriterAtEase(t) /\ CancelMeant(t)
  BY DEF Bookkeeping
<1>2. ASSUME NEW s \in Client, ClientStep(s), t # s
      PROVE  WriterAtEase(t)' /\ CancelMeant(t)'
  BY <1>1, <1>2, OthersKeep DEF ManagerInv, SameLocal, WriterAtEase, CancelMeant
<1>3. CASE LeaseEnds
  BY <1>1, <1>3 DEF LeaseEnds, manager, WriterAtEase, CancelMeant
<1>4. CASE UNCHANGED <<run, manager, forfeited>>
  BY <1>1, <1>4 DEF manager, WriterAtEase, CancelMeant
<1> QED BY <1>2, <1>3, <1>4, WriterStaysAtEase, CancelStaysMeant
        DEF ManagerNext, ClientStep, LockPushLands, QueuePushLands, managerVars

(* Who writes has the live lock, so there is one writer at most. *)
LEMMA LockMeansAlone ==
    ASSUME ManagerInv, NEW s \in Client, LiveFor(s), ~writing[s]
    PROVE  \A t \in Client : PhaseOf(t) # "writing"
BY DEF ManagerInv, Sound, WriterLive, LiveFor, PhaseOf

(* Where a session may go in a step of its own. *)
PhaseMoves(s) ==
    <<PhaseOf(s), PhaseOf(s)'>> \in
        {<<"away", "asking">>, <<"asking", "writing">>, <<"writing", "away">>,
         <<"asking", "stopping">>, <<"stopping", "away">>, <<"away", "dead">>,
         <<"asking", "dead">>, <<"stopping", "dead">>, <<"writing", "dead">>}

LEMMA PhaseKept ==
    ASSUME NEW s, UNCHANGED <<wants, cancelling, writing, forfeited>>,
           run'[s].at = "dead" <=> run[s].at = "dead"
    PROVE  PhaseOf(s)' = PhaseOf(s)
BY DEF PhaseOf

(* A step of s leaves its phase or moves it, and into the phase of a writer  *)
(* only when nobody writes.                                                  *)
LEMMA ClientPhase ==
    ASSUME ManagerInv, Bookkeeping, NEW s \in Client, ClientStep(s)
    PROVE  \/ PhaseOf(s)' = PhaseOf(s)
           \/ /\ PhaseMoves(s)
              /\ PhaseOf(s)' = "writing" => \A t \in Client : PhaseOf(t) # "writing"
<1>1. \A stage \in Stage : Goto(s, stage) => run'[s].at = stage
  BY GotoIs DEF ManagerInv
<1>2. /\ wants \in [Client -> BOOLEAN] /\ cancelling \in [Client -> BOOLEAN]
      /\ writing \in [Client -> BOOLEAN] /\ run \in [Client -> [at : Stage, by : Caller]]
      /\ Intent(s) /\ (s \in forfeited => writing[s]) /\ (writing[s] => ~wants[s])
      /\ CancelMeant(s)
  BY DEF ManagerInv, ManagerTypeOK, Sound, Bookkeeping, WriterAtEase
<1>3. CASE Enqueue(s) \/ Consume(s) \/ CancelInQueue(s)
  <2>1. UNCHANGED <<wants, cancelling, writing, forfeited>> /\ run[s].at # "dead" /\ run'[s].at # "dead"
    BY <1>1, <1>3 DEF Enqueue, Consume, CancelInQueue, WriteQueueTo, Stage, manager
  <2> QED BY <2>1, PhaseKept
<1>4. CASE FindHead(s) \/ Take(s) \/ Recheck(s) \/ GuardReturns(s) \/ Remaining(s)
  <2>1. UNCHANGED <<wants, cancelling, writing, forfeited>> /\ run[s].at # "dead" /\ run'[s].at # "dead"
    BY <1>1, <1>4 DEF FindHead, Take, TakeUnseen, Recheck, GuardReturns, Remaining, Finish, Stage, manager
  <2> QED BY <2>1, PhaseKept
<1>5. CASE ReadBack(s) \/ RefreshInQueue(s)
  <2>1. /\ run[s].at \in {"readback", "refresh"} /\ run'[s].at # "dead"
        /\ UNCHANGED <<wants, writing, forfeited>>
    BY <1>1, <1>5 DEF ReadBack, RefreshInQueue, WriteQueueTo, Finish, Stage
  <2>2. wants[s] /\ ~writing[s]
    BY <1>2, <2>1 DEF Intent
  <2>3. CASE UNCHANGED cancelling
    BY <2>1, <2>3, PhaseKept
  <2>4. CASE cancelling' = [cancelling EXCEPT ![s] = TRUE]
    <3>1. cancelling'[s] /\ ~writing'[s]
      BY <1>2, <2>1, <2>2, <2>4
    <3>2. PhaseOf(s) \in {"asking", "stopping"}
      BY <2>1, <2>2 DEF PhaseOf
    <3>3. PhaseOf(s)' = "stopping"
      BY <2>1, <3>1 DEF PhaseOf
    <3> QED BY <3>2, <3>3 DEF PhaseMoves
  <2> QED BY <1>5, <2>3, <2>4 DEF ReadBack, RefreshInQueue
<1>6. CASE Undo(s)
  <2>1. /\ run[s].at \in {"undoFirst", "undoLast", "undoCancel", "undoRefresh"}
        /\ run'[s].at # "dead" /\ UNCHANGED <<writing, forfeited>>
    BY <1>1, <1>6 DEF Undo, AfterUndo, Finish, Stage
  <2>2. ~writing[s]
    BY <1>2, <2>1 DEF Intent
  <2>3. CASE UNCHANGED <<wants, cancelling>>
    BY <2>1, <2>3, PhaseKept
  <2>4. CASE wants' = [wants EXCEPT ![s] = FALSE] /\ cancelling' = [cancelling EXCEPT ![s] = FALSE]
             /\ run[s].at = "undoCancel"
    <3>1. ~wants'[s] /\ ~cancelling'[s] /\ ~writing'[s]
      BY <1>2, <2>1, <2>2, <2>4
    <3>2. PhaseOf(s)' = "away"
      BY <2>1, <3>1 DEF PhaseOf
    <3>3. PhaseOf(s) = "stopping"
      BY <1>2, <2>2, <2>4 DEF PhaseOf, CancelMeant, Withdrawing
    <3> QED BY <3>2, <3>3 DEF PhaseMoves
  <2> QED BY <1>6, <2>3, <2>4 DEF Undo
<1>7. CASE Verify(s)
  <2>1. /\ run[s].at = "verify" /\ run'[s].at # "dead" /\ UNCHANGED <<cancelling, forfeited>>
    BY <1>1, <1>7 DEF Verify, Finish, Stage
  <2>2. ~writing[s] /\ wants[s] /\ ~cancelling[s] /\ s \notin forfeited
    BY <1>2, <2>1 DEF Intent, Uncancelled, Committed
  <2>3. CASE UNCHANGED <<wants, writing>>
    BY <2>1, <2>3, PhaseKept
  <2>4. CASE LiveFor(s) /\ writing' = [writing EXCEPT ![s] = TRUE]
    <3>1. writing'[s] /\ s \notin forfeited'
      BY <1>2, <2>1, <2>2, <2>4
    <3>2. PhaseOf(s) = "asking" /\ PhaseOf(s)' = "writing"
      BY <2>1, <2>2, <3>1 DEF PhaseOf
    <3> QED BY <2>2, <2>4, <3>2, LockMeansAlone DEF PhaseMoves
  <2> QED BY <1>7, <2>3, <2>4 DEF Verify
<1>8. CASE RequestWrite(s)
  <2>1. /\ run[s] = Rest /\ run'[s].at = "enqueue" /\ wants'[s] = TRUE
        /\ ~writing[s] /\ ~cancelling[s] /\ UNCHANGED <<cancelling, writing, forfeited>>
    BY <1>2, <1>8 DEF RequestWrite, At
  <2>2. PhaseOf(s) \in {"away", "asking"} /\ PhaseOf(s)' = "asking"
    BY <2>1 DEF PhaseOf, Rest, At
  <2> QED BY <2>2 DEF PhaseMoves
<1>9. CASE Cancel(s) \/ CancelDuringGuard(s)
  <2>1. /\ run[s].at \in {"idle", "guard"} /\ run'[s].at # "dead"
        /\ cancelling'[s] = TRUE /\ UNCHANGED <<wants, writing, forfeited>>
    BY <1>1, <1>2, <1>9 DEF Cancel, CancelDuringGuard, Rest, At, Stage
  <2>2. wants[s] /\ ~writing[s]
    BY <1>2, <1>9 DEF Cancel, CancelDuringGuard, Intent
  <2>3. PhaseOf(s) \in {"asking", "stopping"} /\ PhaseOf(s)' = "stopping"
    BY <2>1, <2>2 DEF PhaseOf
  <2> QED BY <2>3 DEF PhaseMoves
<1>10. CASE Release(s) \/ LoseWriting(s)
  <2>1. /\ run[s] = Rest /\ writing[s] /\ UNCHANGED <<run, wants, cancelling>>
        /\ \/ s \notin forfeited' /\ ~writing'[s]
           \/ s \in forfeited' /\ writing'[s]
    BY <1>2, <1>10 DEF Release, LoseWriting
  <2>2. ~wants[s] /\ ~cancelling[s]
    BY <1>2, <2>1 DEF Intent
  <2>3. PhaseOf(s) \in {"writing", "away"} /\ PhaseOf(s)' = "away"
    BY <2>1, <2>2 DEF PhaseOf, Rest, At
  <2> QED BY <2>3 DEF PhaseMoves
<1>11. CASE PollerGrants(s) \/ RefreshBegin(s)
  <2>1. /\ UNCHANGED <<wants, cancelling, writing, forfeited>>
        /\ run[s].at # "dead" /\ run'[s].at # "dead"
    BY <1>1, <1>2, <1>11 DEF PollerGrants, RefreshBegin, Rest, At, Stage, manager
  <2> QED BY <2>1, PhaseKept
<1>12. CASE Renew(s) \/ RequestExpires(s)
  <2>1. UNCHANGED <<run, wants, cancelling, writing, forfeited>>
    BY <1>12 DEF Renew, RequestExpires, manager
  <2> QED BY <2>1, PhaseKept
<1>13. CASE Crash(s)
  <2>1. run[s].at # "dead" /\ run'[s].at = "dead"
    BY <1>2, <1>13 DEF Crash, At
  <2>2. PhaseOf(s) \in {"away", "asking", "stopping", "writing"} /\ PhaseOf(s)' = "dead"
    BY <2>1 DEF PhaseOf
  <2> QED BY <2>2 DEF PhaseMoves
<1> QED BY <1>3, <1>4, <1>5, <1>6, <1>7, <1>8, <1>9, <1>10, <1>11, <1>12, <1>13
        DEF ClientStep, Continue, User, Poller

(* The end of a lease sends the owner of the lock away, when it writes. *)
LEMMA LeaseEndPhase ==
    ASSUME ManagerInv, Bookkeeping, LeaseEnds, NEW t \in Client
    PROVE  \/ PhaseOf(t)' = PhaseOf(t)
           \/ t = lock.owner /\ PhaseOf(t) = "writing" /\ PhaseOf(t)' = "away"
<1>1. /\ UNCHANGED <<run, wants, cancelling, writing>>
      /\ forfeited' = forfeited \cup {s \in {lock.owner} : writing[s]}
      /\ Intent(t)
  BY DEF LeaseEnds, manager, ManagerInv, Sound
<1>2. CASE t \in forfeited \/ ~writing[t] \/ t # lock.owner
  BY <1>1, <1>2 DEF PhaseOf
<1>3. CASE t \notin forfeited /\ writing[t] /\ t = lock.owner
  <2>1. run[t].at # "dead" /\ t \in forfeited'
    BY <1>1, <1>3 DEF Intent
  <2> QED BY <1>1, <1>3, <2>1 DEF PhaseOf
<1> QED BY <1>2, <1>3

(* A move of one session is a step of ExclusiveWrite. *)
LEMMA MoveIsStep ==
    ASSUME NEW s \in Client, PhaseMoves(s),
           PhaseOf(s)' = "writing" => \A t \in Client : PhaseOf(t) # "writing",
           \A t \in Client \ {s} : PhaseOf(t)' = PhaseOf(t)
    PROVE  Exclusive!Next
<1> DEFINE phase == [t \in Client |-> PhaseOf(t)]
<1>1. phase' = [phase EXCEPT ![s] = PhaseOf(s)'] /\ phase[s] = PhaseOf(s)
  OBVIOUS
<1>2. \A from, to : PhaseOf(s) = from /\ PhaseOf(s)' = to => Exclusive!Move(s, from, to)
  BY <1>1 DEF Exclusive!Move
<1>3. PhaseOf(s)' = "writing" => Exclusive!NobodyWrites
  BY DEF Exclusive!NobodyWrites
<1>4. CASE PhaseOf(s)' = "dead"
  <2>1. PhaseOf(s) \in {"away", "asking", "stopping", "writing"}
    BY <1>4 DEF PhaseMoves
  <2> QED BY <1>2, <1>4, <2>1 DEF Exclusive!Next, Exclusive!Die
<1>5. CASE PhaseOf(s)' = "writing"
  <2>1. PhaseOf(s) = "asking"
    BY <1>5 DEF PhaseMoves
  <2> QED BY <1>2, <1>3, <1>5, <2>1 DEF Exclusive!Next, Exclusive!Enter
<1>6. CASE PhaseOf(s)' \notin {"dead", "writing"}
  <2>1. \/ PhaseOf(s) = "away" /\ PhaseOf(s)' = "asking"
        \/ PhaseOf(s) = "writing" /\ PhaseOf(s)' = "away"
        \/ PhaseOf(s) = "asking" /\ PhaseOf(s)' = "stopping"
        \/ PhaseOf(s) = "stopping" /\ PhaseOf(s)' = "away"
    BY <1>6 DEF PhaseMoves
  <2> QED BY <1>2, <2>1 DEF Exclusive!Next, Exclusive!Ask, Exclusive!Leave, Exclusive!CallOff,
             Exclusive!CalledOff
<1> QED BY <1>4, <1>5, <1>6

LEMMA ExclusiveStep ==
    ManagerInv /\ Bookkeeping /\ [ManagerNext]_managerVars
      => [Exclusive!Next]_[s \in Client |-> PhaseOf(s)]
<1> SUFFICES ASSUME ManagerInv, Bookkeeping, [ManagerNext]_managerVars
             PROVE  Exclusive!Next \/ \A t \in Client : PhaseOf(t)' = PhaseOf(t)
  OBVIOUS
<1>1. ASSUME NEW s \in Client, ClientStep(s)
      PROVE  Exclusive!Next \/ \A t \in Client : PhaseOf(t)' = PhaseOf(t)
  <2>1. ASSUME NEW t \in Client \ {s} PROVE PhaseOf(t)' = PhaseOf(t)
    BY <1>1, <2>1, OthersKeep DEF ManagerInv, SameLocal, PhaseOf
  <2> QED BY <1>1, <2>1, ClientPhase, MoveIsStep
<1>2. CASE LeaseEnds
  <2>1. ASSUME NEW s \in Client, s = lock.owner, PhaseOf(s) = "writing", PhaseOf(s)' = "away"
        PROVE  Exclusive!Next
    <3>1. \A t \in Client \ {s} : PhaseOf(t)' = PhaseOf(t)
      BY <1>2, <2>1, LeaseEndPhase
    <3> QED BY <2>1, <3>1, MoveIsStep DEF PhaseMoves
  <2> QED BY <1>2, <2>1, LeaseEndPhase
<1>3. CASE UNCHANGED <<run, manager, forfeited>>
  BY <1>3, PhaseKept DEF manager
<1> QED BY <1>1, <1>2, <1>3 DEF ManagerNext, ClientStep, LockPushLands, QueuePushLands, managerVars

(* The manager implements ExclusiveWrite, for any number of sessions and of  *)
(* unknown outcomes: one session writes at a time, and a request ends only   *)
(* by being granted or by being called off.                                  *)
THEOREM OneWriter == ManagerSpec => OneWritesAtATime
<1>1. ManagerInit => Exclusive!Init
  <2> SUFFICES ASSUME ManagerInit, NEW s \in Client PROVE PhaseOf(s) = "away"
    BY DEF Exclusive!Init
  <2> QED BY DEF ManagerInit, PhaseOf, Rest, At
<1> QED BY <1>1, ManagerInvariant, BookkeepingInit, BookkeepingStep, ExclusiveStep, PTL
        DEF ManagerSpec, OneWritesAtATime, Exclusive!Spec
=============================================================================
