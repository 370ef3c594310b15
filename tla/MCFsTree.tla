------------------------------ MODULE MCFsTree ------------------------------
(* Instances of FsTree: the paths /a, /a/b and /a/b/c. *)
EXTENDS FsTree, TLC

CONSTANTS a, b, c

Chain == (a :> <<>>) @@ (b :> <<a>>) @@ (c :> <<a, b>>)
=============================================================================
