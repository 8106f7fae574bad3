---------------------------- MODULE MCMutationGate ----------------------------
(* An instance of MutationGate for TLC: the interface thread and a poller,  *)
(* the connection of the interface thread and that of a background thread.  *)
EXTENDS MutationGate, TLC

CONSTANTS saver, worker, interface, poller

MCHandle == {saver, worker}
MCObserver == {interface, poller}
=============================================================================
