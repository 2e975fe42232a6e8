---------------------------- MODULE MCReconcile ----------------------------
(* Finite instances of Reconcile. *)
EXTENDS Reconcile

SplitLayout == <<"fullchain", "cert", "chain", "privkey">>

=============================================================================
