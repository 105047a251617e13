----------------------------- MODULE MCReconcile ----------------------------
(* Small instances of Reconcile for TLC. *)
EXTENDS Reconcile
=============================================================================
