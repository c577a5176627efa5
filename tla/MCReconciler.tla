---------------------------- MODULE MCReconciler ----------------------------
(* Small instances of Reconciler for TLC: one namespace.                   *)
EXTENDS Reconciler

CONSTANT ns1

OneNamespace == [a \in Auths |-> ns1]

AllRecFaults == {"api", "restart"}
NoRecFaults == {}
=============================================================================
