------------------------------ MODULE LockLease ------------------------------
(***************************************************************************)
(* The remote WRITE lock.  The lock is one ref (branch lock-main) of a Git *)
(* repository every workstation can push to.  It is absent, or it points   *)
(* to an immutable commit whose lock.json names the session that holds the *)
(* lock and the instant its lease expires.  A workstation takes, renews    *)
(* and gives up the lock by pushing with the OID it read as the expected   *)
(* one (--force-with-lease; a plain push when it read no ref), so the ref  *)
(* is a compare-and-swap register.                                         *)
(*                                                                         *)
(* Nothing else about the network is reliable.  A push may be refused, may *)
(* land while its answer is lost, and may still land after the client has  *)
(* given up on it.  The provider remembers, in memory only, the last token *)
(* it has read back (owned), every commit it has pushed without seeing it  *)
(* land (pendingTokens) and the last token it released.  Each workstation  *)
(* measures leases with its own clock.                                     *)
(***************************************************************************)
EXTENDS Integers, Sequences, FiniteSets

CONSTANTS
    Holder,     \* runtime sessions; a restarted program is another session
    Lease,       \* length of a lease (60 s in the code)
    Grace,       \* clock-skew tolerance before a takeover (600 s in the code)
    Offset,      \* Offset[s]: how far the clock of s's machine is ahead
    MaxObjects,  \* bound: lock commits ever created
    MaxTime      \* bound: last instant of the run

ASSUME LeaseAssumption == Lease \in Nat \ {0} /\ Grace \in Nat
ASSUME LockBoundAssumption == MaxObjects \in Nat /\ MaxTime \in Nat

(* The clocks of two machines differ by no more than the tolerance. *)
ASSUME ClockAssumption ==
    /\ Offset \in [Holder -> Int]
    /\ \A a, b \in Holder : Offset[a] - Offset[b] <= Grace

VARIABLES
    now,        \* true time; machine clocks are offsets of it
    objects,    \* the lock commits, in the order they were created
    ref,        \* the remote lock ref: 0 when absent, else an index of objects
    pushes,     \* pushes the server has not processed yet
    owned,      \* _owned_lock_token: the OID last read back as ours, or 0
    pendingTokens, \* _pending_lock_tokens: OIDs pushed and not confirmed
    released,   \* _released_lock_token, or 0
    op,         \* the provider call a session is in
    landed,     \* history: OIDs the ref has pointed to
    asked       \* history: the newest OID whose deletion a session requested

lockVars == <<now, objects, ref, pushes, owned, pendingTokens, released, op,
          landed, asked>>

Oid == 1 .. Len(objects)
NoOid == 0

OpKind == {"idle", "acquire", "renew", "verify", "release", "dead"}
Call(kind, oid) == [kind |-> kind, oid |-> oid]
Idle == Call("idle", NoOid)

LockRecord == [session : Holder, exp : Int, rev : Nat]
LockPush == [by : Holder, old : Nat, new : Nat]

LockTypeOK ==
    /\ now \in 0 .. MaxTime
    /\ objects \in Seq(LockRecord)
    /\ Len(objects) <= MaxObjects
    /\ ref \in {NoOid} \cup Oid
    /\ pushes \subseteq [by : Holder, old : {NoOid} \cup Oid,
                                        new : {NoOid} \cup Oid]
    /\ owned \in [Holder -> {NoOid} \cup Oid]
    /\ pendingTokens \in [Holder -> SUBSET Oid]
    /\ released \in [Holder -> {NoOid} \cup Oid]
    /\ op \in [Holder -> [kind : OpKind, oid : {NoOid} \cup Oid]]
    /\ landed \subseteq Oid
    /\ asked \in [Holder -> {NoOid} \cup Oid]

LockInit ==
    /\ now = 0
    /\ objects = << >>
    /\ ref = NoOid
    /\ pushes = {}
    /\ owned = [s \in Holder |-> NoOid]
    /\ pendingTokens = [s \in Holder |-> {}]
    /\ released = [s \in Holder |-> NoOid]
    /\ op = [s \in Holder |-> Idle]
    /\ landed = {}
    /\ asked = [s \in Holder |-> NoOid]

-----------------------------------------------------------------------------
(* What a workstation decides from the record it has read. *)

Clock(s) == now + Offset[s]

(* _is_lock_valid: strict, by the reader's own clock. *)
LeaseValid(s, oid) == Clock(s) < objects[oid].exp

(* Mutant: an expired lease is free at once for everybody. *)
MutReclaimable(s, oid) ==
    \/ objects[oid].session = s
    \/ Clock(s) >= objects[oid].exp

(* is_remote_write_lock_reclaimable: a session may take back its own expired *)
(* lock at once; another session waits for the tolerance to pass as well.    *)
Reclaimable(s, oid) ==
    \/ objects[oid].session = s
    \/ Clock(s) >= objects[oid].exp + Grace

MayAcquire(s) == ref # NoOid => ~LeaseValid(s, ref) /\ Reclaimable(s, ref)

MayRenew(s) == ref # NoOid /\ objects[ref].session = s /\ LeaseValid(s, ref)

KnownTokens(s) == (pendingTokens[s] \cup {owned[s], released[s]}) \ {NoOid}

(* Mutant: having any capability is enough to delete the newest commit. *)
MutMatchesToken(s, oid) == KnownTokens(s) # {}

(* _matching_lock_token: the released token is no capability any more. *)
MatchesToken(s, oid) == oid \in pendingTokens[s] \cup {owned[s]}

(* The commit with its parent, the pending token and the push of it. *)
Propose(s, record) ==
    LET new == Len(objects) + 1 IN
    /\ Len(objects) < MaxObjects
    /\ objects' = Append(objects, record)
    /\ pendingTokens' = [pendingTokens EXCEPT ![s] = @ \cup {new}]
    /\ pushes' = pushes \cup {[by |-> s, old |-> ref, new |-> new]}

NewLock(s) == [session |-> s, exp |-> Clock(s) + Lease, rev |-> 0]

RenewedLock(s) == [session |-> objects[ref].session, exp |-> Clock(s) + Lease,
                   rev |-> objects[ref].rev + 1]

-----------------------------------------------------------------------------
(* Provider calls.  One session runs one call at a time (_authority_mutex). *)

AcquireBegin(s) ==
    /\ op[s] = Idle
    /\ MayAcquire(s)
    /\ Propose(s, NewLock(s))
    /\ op' = [op EXCEPT ![s] = Call("acquire", Len(objects) + 1)]
    /\ UNCHANGED <<now, ref, owned, released, landed, asked>>

RenewBegin(s) ==
    /\ op[s] = Idle
    /\ MayRenew(s)
    /\ Propose(s, RenewedLock(s))
    /\ op' = [op EXCEPT ![s] = Call("renew", Len(objects) + 1)]
    /\ UNCHANGED <<now, ref, owned, released, landed, asked>>

(* A renewal is read back only when the push itself reports success. *)
RenewAcknowledged(s) ==
    /\ op[s].kind = "renew"
    /\ op[s].oid \in landed
    /\ op' = [op EXCEPT ![s].kind = "verify"]
    /\ UNCHANGED <<now, objects, ref, pushes, owned, pendingTokens, released,
                   landed, asked>>

RenewFails(s) ==
    /\ op[s].kind = "renew"
    /\ op' = [op EXCEPT ![s] = Idle]
    /\ UNCHANGED <<now, objects, ref, pushes, owned, pendingTokens, released,
                   landed, asked>>

(* The ref is read back and is exactly our commit.  An acquisition reads it *)
(* back whether its push was answered, refused or timed out.                *)
VerifyConfirmed(s) ==
    /\ op[s].kind \in {"acquire", "verify"}
    /\ ref = op[s].oid
    /\ LeaseValid(s, ref)
    /\ owned' = [owned EXCEPT ![s] = ref]
    /\ pendingTokens' = [pendingTokens EXCEPT ![s] = {}]
    /\ op' = [op EXCEPT ![s] = Idle]
    /\ UNCHANGED <<now, objects, ref, pushes, released, landed, asked>>

(* The ref is something else, the lease has run out or the read fails. *)
VerifyFails(s) ==
    /\ op[s].kind \in {"acquire", "verify"}
    /\ op' = [op EXCEPT ![s] = Idle]
    /\ UNCHANGED <<now, objects, ref, pushes, owned, pendingTokens, released,
                   landed, asked>>

(* End of a successful release_lock with the capability that was used. *)
ForgetTokens(s, token) ==
    /\ released' = [released EXCEPT ![s] = token]
    /\ owned' = [owned EXCEPT ![s] = NoOid]
    /\ pendingTokens' = [pendingTokens EXCEPT ![s] = {}]

(* release_lock finds no ref: any known token is acknowledged as released. *)
(* known[0] is the owned token when there is one.                          *)
ReleaseAbsent(s) ==
    /\ op[s] = Idle
    /\ ref = NoOid
    /\ \E token \in KnownTokens(s) :
          /\ owned[s] # NoOid => token = owned[s]
          /\ owned[s] = NoOid /\ pendingTokens[s] # {} => token \in pendingTokens[s]
          /\ ForgetTokens(s, token)
    /\ UNCHANGED <<now, objects, ref, pushes, op, landed, asked>>

ReleaseBegin(s) ==
    /\ op[s] = Idle
    /\ ref # NoOid
    /\ MatchesToken(s, ref)
    /\ pushes' = pushes \cup {[by |-> s, old |-> ref, new |-> NoOid]}
    /\ asked' = [asked EXCEPT ![s] = IF ref > @ THEN ref ELSE @]
    /\ op' = [op EXCEPT ![s] = Call("release", ref)]
    /\ UNCHANGED <<now, objects, ref, owned, pendingTokens, released,
                   landed>>

(* The answer to the deletion is ignored; only the read-back counts. *)
ReleaseConfirmed(s) ==
    /\ op[s].kind = "release"
    /\ ref = NoOid
    /\ ForgetTokens(s, op[s].oid)
    /\ op' = [op EXCEPT ![s] = Idle]
    /\ UNCHANGED <<now, objects, ref, pushes, landed, asked>>

ReleaseUnconfirmed(s) ==
    /\ op[s].kind = "release"
    /\ op' = [op EXCEPT ![s] = Idle]
    /\ UNCHANGED <<now, objects, ref, pushes, owned, pendingTokens, released,
                   landed, asked>>

-----------------------------------------------------------------------------
(* The server, the network, the machines. *)

(* Mutant: the push is forced without the expected OID. *)
MutPushArrives(p) ==
    /\ pushes' = pushes \ {p}
    /\ ref' = p.new
    /\ landed' = landed \cup ({p.new} \ {NoOid})
    /\ UNCHANGED <<now, objects, owned, pendingTokens, released, op, asked>>

(* Compare-and-swap; a deletion is a push of no object.  A push that is lost *)
(* is one that never arrives.                                               *)
PushArrives(p) ==
    /\ pushes' = pushes \ {p}
    /\ IF p.old = ref
       THEN /\ ref' = p.new
            /\ landed' = landed \cup ({p.new} \ {NoOid})
       ELSE UNCHANGED <<ref, landed>>
    /\ UNCHANGED <<now, objects, owned, pendingTokens, released, op, asked>>

(* The process dies; what it has sent stays on the network. *)
LockCrash(s) ==
    /\ op[s].kind # "dead"
    /\ op' = [op EXCEPT ![s] = Call("dead", NoOid)]
    /\ owned' = [owned EXCEPT ![s] = NoOid]
    /\ pendingTokens' = [pendingTokens EXCEPT ![s] = {}]
    /\ released' = [released EXCEPT ![s] = NoOid]
    /\ UNCHANGED <<now, objects, ref, pushes, landed, asked>>

Tick ==
    /\ now < MaxTime
    /\ now' = now + 1
    /\ UNCHANGED <<objects, ref, pushes, owned, pendingTokens, released, op,
                   landed, asked>>

Renew(s) == RenewBegin(s) \/ RenewAcknowledged(s) \/ RenewFails(s)
Verify(s) == VerifyConfirmed(s) \/ VerifyFails(s)
Release(s) == ReleaseAbsent(s) \/ ReleaseBegin(s)
              \/ ReleaseConfirmed(s) \/ ReleaseUnconfirmed(s)
Network == \E p \in pushes : PushArrives(p)

LockNext ==
    \/ \E s \in Holder : AcquireBegin(s) \/ Renew(s) \/ Verify(s) \/ Release(s)
                          \/ LockCrash(s)
    \/ Network
    \/ Tick

LockSpec == LockInit /\ [][LockNext]_lockVars

-----------------------------------------------------------------------------
(* Properties *)

(* s has read its lock back, its lease runs by its own clock and it has not *)
(* asked for the lock to be deleted since: s may work under the lock.       *)
HoldsLease(s) ==
    /\ owned[s] # NoOid
    /\ asked[s] < owned[s]
    /\ LeaseValid(s, owned[s])

(* Two sessions never work under the lock at once, although acquisition     *)
(* reads the ref and pushes in two steps, answers get lost and machine      *)
(* clocks disagree by up to the tolerance.                                  *)
LeaseExclusion == \A a, b \in Holder : HoldsLease(a) /\ HoldsLease(b) => a = b

(* The tenure of a session ends only when that session has asked for the    *)
(* deletion of the very commit that is removed, or when its lease has run   *)
(* out by the owner's own clock: a late push, a late deletion or the        *)
(* release of an older session of the same user never removes a live lock.  *)
TenureEnd ==
    \A s \in Holder :
        (ref # NoOid /\ objects[ref].session = s
           /\ (ref' # NoOid => objects'[ref'].session # s))
        => (ref' = NoOid /\ asked[s] >= ref) \/ Clock(s) >= objects[ref].exp

TenuresEndProperly == [][TenureEnd]_lockVars

(* A lease revision is never lost: while one session keeps the lock, the    *)
(* expiry other sessions see never moves back.                              *)
LeaseExtends ==
    (ref # NoOid /\ ref' # NoOid
       /\ objects'[ref'].session = objects[ref].session)
    => objects'[ref'].exp >= objects[ref].exp

LeasesOnlyExtend == [][LeaseExtends]_lockVars
=============================================================================
