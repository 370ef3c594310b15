----------------------------- MODULE MCRealtime -----------------------------
(* Instances of Realtime: actions of the client and a foreign writer on    *)
(* two fields; the query lists the node while it shows an odd number of    *)
(* operations.  Each behaviour allows one of the races, or none.           *)
EXTENDS Realtime, TLC

CONSTANTS a1, a2, w1, w2, x, y

Targets == (a1 :> x) @@ (a2 :> y) @@ (w1 :> x) @@ (w2 :> y)
Odd(val) == Cardinality(val[x] \cup val[y]) % 2 = 1

OneRace ==
    {{}, {"writers"}, {"filters"}, {"late"}, {"gap"}, {"away"}, {"resync"}}
=============================================================================
