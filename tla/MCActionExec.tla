---------------------------- MODULE MCActionExec ----------------------------
(* Instances of ActionExec.                                                *)
EXTENDS ActionExec

WriteOnly == {[kind |-> "write", io |-> FALSE]}
AllKinds == [kind : {"read", "write"}, io : BOOLEAN]
=============================================================================
