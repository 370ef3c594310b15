----------------------------- MODULE MCPathLock -----------------------------
(* PathLock on four calls over two paths.  No symmetry: the run checks     *)
(* liveness as well.                                                       *)
EXTENDS PathLock
=============================================================================
