------------------------------ MODULE WriteQueue ------------------------------
(***************************************************************************)
(* The remote WRITE queue: one ref (branch queue-main) to an immutable     *)
(* commit whose queue.json lists the pending editing requests.  Every      *)
(* operation reads the commit the ref points to, drops the requests that   *)
(* have gone stale by the reader's clock, changes the list and pushes a    *)
(* new commit with the OID it read as the expected one; it starts over     *)
(* when somebody else was faster and gives up when the outcome of its push *)
(* cannot be observed.  A push whose answer is lost or which times out may *)
(* still land later.                                                       *)
(*                                                                         *)
(* A queue is a set of entries; its order is the one the code sorts by,    *)
(* the higher priority first and then the smaller sequence number.         *)
(***************************************************************************)
EXTENDS Integers, Sequences, FiniteSets, FiniteSetsExt

CONSTANTS
    Session,     \* runtime sessions
    Request,     \* request identities
    Owner,       \* Owner[r]: the session that makes request r
    Priority,    \* Priority[r]: arbitration priority of its role
    Ttl,         \* seconds a request lives without a refresh (120 s)
    Skew,        \* tolerated clock difference (60 s)
    Offset,      \* Offset[s]: how far the clock of s's machine is ahead
    Retries,     \* bound: attempts of one operation (5 in the code)
    MaxCommits,  \* bound: queue commits ever created
    MaxTime      \* bound: last instant of the run

ASSUME RequestAssumption ==
    Owner \in [Request -> Session] /\ Priority \in [Request -> Nat]
ASSUME TimeAssumption ==
    /\ Ttl \in Nat /\ Skew \in Nat
    /\ Offset \in [Session -> Int]
    /\ \A a, b \in Session : Offset[a] - Offset[b] <= Skew
ASSUME BoundAssumption ==
    Retries \in Nat \ {0} /\ MaxCommits \in Nat /\ MaxTime \in Nat

VARIABLES
    now,      \* true time
    commits,  \* the queue commits, in the order they were created
    ref,      \* the queue ref: 0 when absent, else an index of commits
    pushes,   \* pushes the server has not processed yet
    op,       \* the queue operation a session is in
    made,     \* made[r]: timestamp put into r when it was made
    life,     \* what the manager of its session knows about a request
    landed    \* history: OIDs the ref has pointed to

vars == <<now, commits, ref, pushes, op, made, life, landed>>

NoOid == 0
Oid == 1 .. Len(commits)
NoRequest == "none"

Entry == [req : Request, seq : Nat, stamp : Int]
OpKind == {"idle", "enqueue", "refresh", "cancel", "consume"}
Life == {"new", "asked", "cancelling", "cancelled", "consumed"}

Call(kind, r, cand, tries) ==
    [kind |-> kind, req |-> r, cand |-> cand, tries |-> tries]
Idle == Call("idle", NoRequest, NoOid, 0)

TypeOK ==
    /\ now \in 0 .. MaxTime
    /\ commits \in Seq(SUBSET Entry)
    /\ Len(commits) <= MaxCommits
    /\ ref \in {NoOid} \cup Oid
    /\ pushes \subseteq [old : {NoOid} \cup Oid, new : Oid]
    /\ op \in [Session -> [kind : OpKind, req : Request \cup {NoRequest},
                           cand : {NoOid} \cup Oid, tries : 0 .. Retries]]
    /\ made \in [Request -> Int]
    /\ life \in [Request -> Life]
    /\ landed \subseteq Oid

Init ==
    /\ now = 0
    /\ commits = << >>
    /\ ref = NoOid
    /\ pushes = {}
    /\ op = [s \in Session |-> Idle]
    /\ made = [r \in Request |-> 0]
    /\ life = [r \in Request |-> "new"]
    /\ landed = {}

-----------------------------------------------------------------------------
(* Reading the queue. *)

Clock(s) == now + Offset[s]
Content(oid) == IF oid = NoOid THEN {} ELSE commits[oid]

(* Mutant: the clock-skew tolerance is left out of the threshold. *)
MutLive(s, queue) == {e \in queue : Clock(s) - e.stamp <= Ttl}

(* _filter_live_queue_requests, by the clock of the reader s. *)
Live(s, queue) == {e \in queue : Clock(s) - e.stamp <= Ttl + Skew}

Before(a, b) ==
    \/ Priority[a.req] > Priority[b.req]
    \/ Priority[a.req] = Priority[b.req] /\ a.seq < b.seq

IsHead(e, queue) == \A f \in queue \ {e} : ~Before(f, e)

OfSession(s, queue) == {e \in queue : Owner[e.req] = s}
OfRequest(r, queue) == {e \in queue : e.req = r}

(* Mutant: the last sequence number is given out again. *)
MutNextSeq(queue) == IF queue = {} THEN 1 ELSE Max({e.seq : e \in queue})

NextSeq(queue) == IF queue = {} THEN 1 ELSE Max({e.seq : e \in queue}) + 1

-----------------------------------------------------------------------------
(* The four mutations of _mutate_remote_queue, applied by s to a live queue. *)

(* Mutant: the session is not looked up before its request is appended. *)
MutWorthWriting(kind, s, r, queue) ==
    CASE kind = "enqueue" -> TRUE
      [] kind = "refresh" -> OfRequest(r, queue) # {}
      [] kind = "cancel" -> TRUE
      [] kind = "consume" -> \E e \in OfRequest(r, queue) : IsHead(e, queue)

(* Whether the mutation changes the queue.  A cancellation always does, even *)
(* when it finds nothing: its commit is a barrier that a delayed enqueue     *)
(* cannot pass.                                                              *)
WorthWriting(kind, s, r, queue) ==
    CASE kind = "enqueue" -> OfSession(s, queue) = {}
      [] kind = "refresh" -> OfRequest(r, queue) # {}
      [] kind = "cancel" -> TRUE
      [] kind = "consume" -> \E e \in OfRequest(r, queue) : IsHead(e, queue)

Refresh(e, s) == [req |-> e.req, seq |-> e.seq, stamp |-> Clock(s)]

Mutated(kind, s, r, queue) ==
    CASE kind = "enqueue" ->
            queue \cup {[req |-> r, seq |-> NextSeq(queue), stamp |-> made[r]]}
      [] kind = "refresh" ->
            {IF e.req = r THEN Refresh(e, s) ELSE e : e \in queue}
      [] kind \in {"cancel", "consume"} -> queue \ OfRequest(r, queue)

(* One attempt of an operation: read, mutate, commit, push.  The list is     *)
(* filtered again after the mutation.  Nothing to change ends the operation. *)
Attempt(kind, s, r, tries) ==
    LET queue == Live(s, Content(ref))
        new == Len(commits) + 1
    IN  IF WorthWriting(kind, s, r, queue)
        THEN /\ Len(commits) < MaxCommits
             /\ commits' = Append(commits, Live(s, Mutated(kind, s, r, queue)))
             /\ pushes' = pushes \cup {[old |-> ref, new |-> new]}
             /\ op' = [op EXCEPT ![s] = Call(kind, r, new, tries)]
        ELSE /\ op' = [op EXCEPT ![s] = Idle]
             /\ UNCHANGED <<commits, pushes>>

-----------------------------------------------------------------------------
(* The operations, as the manager of a session calls them: one at a time,    *)
(* and for the one request it retains.                                       *)

Retained(r) == life[r] \in {"asked", "cancelling"}

MakeRequest(s, r) ==
    /\ op[s] = Idle
    /\ Owner[r] = s /\ life[r] = "new"
    /\ \A q \in Request : Owner[q] = s => ~Retained(q)
    /\ made' = [made EXCEPT ![r] = Clock(s)]
    /\ life' = [life EXCEPT ![r] = "asked"]
    /\ UNCHANGED <<now, commits, ref, pushes, op, landed>>

(* A request whose enqueueing was not confirmed is enqueued again, with the  *)
(* timestamp it was made with.                                               *)
Begin(kind, s, r) ==
    /\ op[s] = Idle
    /\ Owner[r] = s /\ life[r] = "asked"
    /\ Attempt(kind, s, r, 1)
    /\ UNCHANGED <<now, ref, made, life, landed>>

(* Mutant: a cancellation that finds no request is done, without a commit. *)
MutCancelBegin(s, r) ==
    /\ op[s] = Idle
    /\ Owner[r] = s /\ Retained(r)
    /\ OfRequest(r, Live(s, Content(ref))) = {}
    /\ life' = [life EXCEPT ![r] = "cancelled"]
    /\ UNCHANGED <<now, commits, ref, pushes, op, made, landed>>

(* cancel_waiting_request sets _cancel_pending first: from now on the request *)
(* can only be cancelled.                                                    *)
CancelBegin(s, r) ==
    /\ op[s] = Idle
    /\ Owner[r] = s /\ Retained(r)
    /\ life' = [life EXCEPT ![r] = "cancelling"]
    /\ Attempt("cancel", s, r, 1)
    /\ UNCHANGED <<now, ref, made, landed>>

(* The push is answered, or it is not and the ref is seen to be our commit.  *)
(* A consumed request is kept when the grant fails after all.                *)
Confirmed(s) ==
    /\ op[s].cand \in landed
    /\ CASE op[s].kind = "cancel" -> life' = [life EXCEPT ![op[s].req] = "cancelled"]
         [] op[s].kind = "consume" ->
               \E granted \in BOOLEAN :
                  life' = IF granted THEN [life EXCEPT ![op[s].req] = "consumed"]
                          ELSE life
         [] OTHER -> UNCHANGED life
    /\ op' = [op EXCEPT ![s] = Idle]
    /\ UNCHANGED <<now, commits, ref, pushes, made, landed>>

(* The push fails and the ref is seen to be another commit, or still the     *)
(* expected one; by now it may be anything.                                  *)
Retry(s) ==
    /\ op[s] # Idle
    /\ op[s].tries < Retries
    /\ Attempt(op[s].kind, s, op[s].req, op[s].tries + 1)
    /\ UNCHANGED <<now, ref, made, life, landed>>

(* The outcome is unknown, or the attempts are used up. *)
GiveUp(s) ==
    /\ op[s] # Idle
    /\ op' = [op EXCEPT ![s] = Idle]
    /\ UNCHANGED <<now, commits, ref, pushes, made, life, landed>>

-----------------------------------------------------------------------------
(* The server, the network, time. *)

(* Mutant: the push is forced without the expected OID. *)
MutPushArrives(p) ==
    /\ pushes' = pushes \ {p}
    /\ ref' = p.new
    /\ landed' = landed \cup {p.new}
    /\ UNCHANGED <<now, commits, op, made, life>>

(* Compare-and-swap.  A first commit has no parent, so its plain push is      *)
(* refused by any existing ref.  A push that is lost never arrives.          *)
PushArrives(p) ==
    /\ pushes' = pushes \ {p}
    /\ IF p.old = ref
       THEN ref' = p.new /\ landed' = landed \cup {p.new}
       ELSE UNCHANGED <<ref, landed>>
    /\ UNCHANGED <<now, commits, op, made, life>>

Tick ==
    /\ now < MaxTime
    /\ now' = now + 1
    /\ UNCHANGED <<commits, ref, pushes, op, made, life, landed>>

Operation(s) ==
    \/ \E r \in Request :
          \/ MakeRequest(s, r)
          \/ \E kind \in {"enqueue", "refresh", "consume"} : Begin(kind, s, r)
          \/ CancelBegin(s, r)
    \/ Confirmed(s) \/ Retry(s) \/ GiveUp(s)
Network == \E p \in pushes : PushArrives(p)

Next == (\E s \in Session : Operation(s)) \/ Network \/ Tick

Spec == Init /\ [][Next]_vars

-----------------------------------------------------------------------------
(* Properties *)

InQueue(r) == \E e \in Content(ref) : e.req = r

(* A cancellation that was confirmed is final: no push of an earlier enqueue *)
(* or refresh of that request, however late, brings it back into the queue   *)
(* (E1A: the UI may leave WAITING only after this).                          *)
CancelIsFinal == \A r \in Request : life[r] = "cancelled" => ~InQueue(r)

(* A session never waits twice, whatever it repeats after a lost answer.     *)
OnePerSession ==
    \A e, f \in Content(ref) : Owner[e.req] = Owner[f.req] => e = f

(* Equal priorities are served first come, first served: a request keeps its *)
(* place before the later one, refreshed or not, whoever joins or leaves.    *)
KeepsItsPlace ==
    \A e \in Content(ref) : \A f, g \in Content(ref)' :
        /\ f.req = e.req /\ g.req # f.req /\ Priority[f.req] = Priority[g.req]
        /\ \A h \in Content(ref) : h.req = g.req => Before(e, h)
        => Before(f, g)

FirstComeFirstServed == [][KeepsItsPlace]_vars

(* Refreshed within the time to live, by true time. *)
Fresh(e) == now - (e.stamp - Offset[Owner[e.req]]) <= Ttl

(* A waiter that refreshes in time leaves the queue only by its own doing:   *)
(* nobody whose clock is ahead filters it out, and it is consumed only with  *)
(* no other such waiter before it.                                           *)
LeavesInTurn ==
    \A e \in Content(ref) :
        Fresh(e) /\ ~InQueue(e.req)'
        => \/ life[e.req] \in {"cancelling", "cancelled"}
           \/ \A f \in Content(ref) \ {e} : Fresh(f) => ~Before(f, e)

WaitersLeaveInTurn == [][LeavesInTurn]_vars
=============================================================================
