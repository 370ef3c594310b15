----------------------------- MODULE MCWatchTabs ----------------------------
(* Instances of WatchTabs: tabs of u1, other connections of u2, a listing  *)
(* "d" with the node "a" in it, and a query mount "q".                     *)
EXTENDS WatchTabs, TLC

CONSTANTS d, a, q, u1, u2, t1, t2, c1, c2

Owners == (t1 :> u1) @@ (c1 :> u2) @@ (c2 :> u2)
TwoTabs == (t1 :> u1) @@ (t2 :> u1)
ListingAndNode == (d :> d) @@ (a :> d)
WithQuery == (d :> d) @@ (a :> d) @@ (q :> q)
=============================================================================
