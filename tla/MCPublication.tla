---------------------------- MODULE MCPublication ----------------------------
(* How edits reach MAIN: the lock two machines take, the first one ahead,    *)
(* the transactions two workstations run under it, and the files that travel *)
(* with what they publish.  The three components share no variable, so a     *)
(* behaviour works on one of them and leaves the others as they began.       *)
EXTENDS LockLease, WriteTransaction, MCAttachments

CONSTANTS h1, h2

VARIABLE part

(* The machines of the lock are no workstations of the other components:     *)
(* their clocks differ, workstations are interchangeable.                    *)
MCHolder == {h1, h2}
MCOffset == h1 :> 1 @@ h2 :> 0

OneDocument == {d1}
OneVoucher == {v1}
SwapWorkstations == Permutations(MCWorkstation)

MCInit ==
    /\ LockInit /\ Init /\ AttachmentsInit
    /\ part \in {"lock", "transaction", "files"}

MCNext ==
    /\ UNCHANGED part
    /\ \/ part = "lock" /\ LockNext /\ UNCHANGED <<vars, attachmentVars>>
       \/ part = "transaction" /\ Next /\ UNCHANGED <<lockVars, attachmentVars>>
       \/ part = "files" /\ AttachmentsNext /\ UNCHANGED <<lockVars, vars>>

MCSpec == MCInit /\ [][MCNext]_<<lockVars, vars, attachmentVars, part>>
=============================================================================
