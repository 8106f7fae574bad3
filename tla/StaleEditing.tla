----------------------------- MODULE StaleEditing -----------------------------
(***************************************************************************)
(* An edit that is paused and taken up again.  A session that was idle too *)
(* long, or cannot trust its lease any more, keeps its unpublished work    *)
(* and stops renewing the lock; "Recover editing" makes sure of the lock   *)
(* and goes on where the user was.                                         *)
(*                                                                         *)
(* Of the transaction only the pause is here (WriteTransaction has the     *)
(* work and the comparison with MAIN); the manager is Collaboration's.     *)
(***************************************************************************)
EXTENDS Collaboration

VARIABLE paused   \* sessions whose transaction is EDITING_STALE

staleVars == <<managerVars, paused>>

StaleInit == ManagerInit /\ paused = {}

-----------------------------------------------------------------------------
(* A session without unpublished work tries to give up the lock at once;     *)
(* any other keeps it until the lease is over.                               *)
Pause(s) ==
    /\ run[s] = Rest
    /\ writing[s] /\ s \notin paused
    /\ paused' = paused \cup {s}
    /\ Release(s) \/ UNCHANGED managerVars

(* A recovery that was left waiting has asked for the cancellation before it *)
(* came to an end: the next one begins after that.                           *)
MayRecover(s) ==
    /\ s \in paused /\ run[s] = Rest
    /\ wants[s] => cancelling[s]

(* The lock is this session's and valid.  It is renewed, which a manager     *)
(* that is not in WRITE mode takes for done; then the gate opens and the     *)
(* check of the lock it makes projects WRITE from what the remote shows.     *)
RecoverLive(s) ==
    /\ MayRecover(s)
    /\ LiveFor(s)
    /\ \/ writing[s] /\ Renew(s)
       \/ /\ ~writing[s]
          /\ writing' = [writing EXCEPT ![s] = TRUE]
          /\ UNCHANGED <<remote, tokens, run, wants, cancelling, ungranted,
                         forfeited, faults>>
    /\ paused' = IF faults' = faults THEN paused \ {s} ELSE paused

(* Nobody's lease is valid: the session forgets that it was writing and asks *)
(* again, after a cancellation that is still pending.                        *)
RecoverLapsed(s) ==
    /\ MayRecover(s)
    /\ lock.lease # "valid"
    /\ LoseWriting(s) \/ RequestWrite(s) \/ (cancelling[s] /\ Cancel(s))
    /\ UNCHANGED paused

(* A recovery that is left waiting calls its request off. *)
RecoveryWaits(s) == s \in paused /\ Cancel(s) /\ UNCHANGED paused

-----------------------------------------------------------------------------
(* The rest of the manager.  A paused session renews nothing, and offers its *)
(* user nothing but the recovery.  A grant ends the pause, unless it is the  *)
(* poller that makes it between the request and its cancellation.            *)
ManagerGoesOn ==
    /\ \/ \E s \in Client :
             \/ Continue(s) \/ CancelDuringGuard(s) \/ PollerGrants(s)
             \/ RefreshBegin(s) \/ LoseWriting(s) \/ Crash(s) \/ RequestExpires(s)
       \/ \E s \in Client \ paused :
             RequestWrite(s) \/ Cancel(s) \/ Release(s) \/ Renew(s)
       \/ \E p \in lockPushes : LockPushLands(p)
       \/ \E q \in queuePushes : QueuePushLands(q)
       \/ LeaseEnds
    /\ paused' \in {paused, {s \in paused : writing'[s] => writing[s]}}

StaleNext ==
    \/ \E s \in Client : Pause(s) \/ RecoverLive(s) \/ RecoverLapsed(s) \/ RecoveryWaits(s)
    \/ ManagerGoesOn

StaleSpec == StaleInit /\ [][StaleNext]_staleVars

-----------------------------------------------------------------------------
(* Properties *)

(* A lock that was taken for a grant and is still to be given back never     *)
(* shows as WRITE (E1A: provisional ownership remains cleanup-pending; never *)
(* advertise WRITE).                                                         *)
CleanupIsNotWrite == \A s \in Client : ungranted[s] => ~writing[s]
=============================================================================
