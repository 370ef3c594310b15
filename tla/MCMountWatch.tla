---------------------------- MODULE MCMountWatch ----------------------------
(* Instances of MountWatch: two users and two nodes under the mount.       *)
EXTENDS MountWatch, TLC

CONSTANTS u1, u2, n1, n2

Sym == Permutations({u1, u2}) \cup Permutations({n1, n2})
=============================================================================
