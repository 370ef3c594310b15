-------------------------- MODULE WatchManagerProofs ------------------------
(***************************************************************************)
(* For any number of users, connections and paths: the two indexes agree   *)
(* with the users' own lists, a forgotten user leaves nothing behind, and  *)
(* a grace timer never runs for a connected user.  The three are inductive *)
(* together: removeUser empties the indexes from the user's own list, so   *)
(* it needs their agreement, and it may drop the entry because the timer   *)
(* that calls it runs for a user without connections.                      *)
(*                                                                         *)
(* Then, over finitely many users and paths: totalWatches counts the       *)
(* watches, and the limits hold.  Every change of subs is one user's, or a *)
(* set of users' gain of the same watch, and the cardinality of all the    *)
(* watches is taken apart accordingly (MinusPart, OfOneUser, NotifyCounts).*)
(*                                                                         *)
(* Last, the tabs: what they do to the manager it allows, what they show   *)
(* stays watched, and they are told of its changes.                        *)
(***************************************************************************)
EXTENDS WatchTabs, FiniteSetTheorems, TLAPS

USE WatchAssumption

Agree == \A u \in Users, s \in Subs : s \in subs[u] <=> u \in watchers[s]

NothingLeft ==
    \A u \in Users \ users :
        pushes[u] = {} /\ subs[u] = {} /\ queries[u] = {} /\ auto[u] = {}

AutoWatched == \A u \in Users : \A p \in auto[u] : <<"children", p>> \in subs[u]

WatchInv == TypeOK /\ Agree /\ NothingLeft /\ AutoWatched /\ TimerInv

LEMMA InitWatchInv == Init => WatchInv
BY DEF Init, WatchInv, TypeOK, Agree, NothingLeft, AutoWatched, TimerInv

LEMMA NodesAreSubs == \A P \in SUBSET Paths : Nodes(P) \subseteq Subs
BY DEF Nodes, Subs

LEMMA ListingsAreSubs == \A p \in Paths : <<"children", p>> \in Subs
BY DEF Subs

LEMMA NoPathIsNone == NoPath \notin Subs
OBVIOUS

LEMMA ConnectWatchInv ==
    ASSUME WatchInv, NEW c \in Conns, Connect(c) \/ Disconnect(c)
    PROVE  WatchInv'
<1> USE DEF WatchInv, watchVars
<1>1. TypeOK'
    BY DEF TypeOK, Connect, Disconnect
<1>2. Agree' /\ AutoWatched'
    BY DEF Agree, AutoWatched, Connect, Disconnect
<1>3. NothingLeft' /\ TimerInv'
    BY DEF NothingLeft, TimerInv, TypeOK, Connect, Disconnect
<1> QED
    BY <1>1, <1>2, <1>3

LEMMA ExpireWatchInv ==
    ASSUME WatchInv, NEW u \in Users, GraceExpires(u)
    PROVE  WatchInv'
<1> USE DEF WatchInv, TypeOK, GraceExpires, RemoveUser
<1>1. RemoveUser(u)
    BY DEF TimerInv
<1>2. TypeOK'
    BY <1>1
<1>3. Agree'
    BY <1>1 DEF Agree
<1>4. NothingLeft' /\ TimerInv'
    BY <1>1 DEF NothingLeft, TimerInv
<1>5. AutoWatched'
    BY <1>1 DEF AutoWatched
<1> QED
    BY <1>2, <1>3, <1>4, <1>5

(* The requests' common part.                                              *)
LEMMA AddKeepsAgreement ==
    ASSUME TypeOK, Agree, NEW u \in Users, NEW S \in SUBSET Subs, NEW n, AddWatches(u, S, n)
    PROVE  /\ subs' \in [Users -> SUBSET Subs]
           /\ watchers' \in [Subs -> SUBSET Users]
           /\ Agree'
           /\ \A x \in Users : subs[x] \subseteq subs'[x]
           /\ \A x \in Users \ {u} : subs'[x] = subs[x]
           /\ S \subseteq subs'[u]
BY DEF TypeOK, Agree, AddWatches

(* ... and what the invariant says after it.                               *)
LEMMA AddWatchInv ==
    ASSUME WatchInv, NEW u \in Users, NEW S \in SUBSET Subs, NEW n, AddWatches(u, S, n),
           users' = users \cup {u},
           auto' \in [Users -> SUBSET Paths],
           \A x \in Users \ {u} : auto'[x] = auto[x],
           \A p \in auto'[u] : p \in auto[u] \/ <<"children", p>> \in S,
           queries' \in [Users -> SUBSET QueryMounts],
           \A x \in Users \ {u} : queries'[x] = queries[x],
           UNCHANGED <<pushes, timers>>
    PROVE  WatchInv'
<1> USE DEF WatchInv
<1>1. /\ subs' \in [Users -> SUBSET Subs] /\ watchers' \in [Subs -> SUBSET Users]
      /\ Agree'
      /\ \A x \in Users : subs[x] \subseteq subs'[x]
      /\ \A x \in Users \ {u} : subs'[x] = subs[x]
      /\ S \subseteq subs'[u]
    BY AddKeepsAgreement
<1>2. TypeOK'
    BY <1>1 DEF TypeOK
<1>3. NothingLeft' /\ TimerInv'
    BY <1>1 DEF NothingLeft, TimerInv
<1>4. AutoWatched'
    BY <1>1 DEF AutoWatched
<1> QED
    BY <1>1, <1>2, <1>3, <1>4

(* A request over a limit only makes the entry, and maybe the query.       *)
LEMMA RefusedWatchInv ==
    ASSUME WatchInv, NEW u \in Users,
           users' = users \cup {u},
           queries' \in [Users -> SUBSET QueryMounts],
           \A x \in Users \ {u} : queries'[x] = queries[x],
           UNCHANGED <<watchVars, auto, pushes, timers>>
    PROVE  WatchInv'
BY DEF WatchInv, watchVars, TypeOK, Agree, NothingLeft, AutoWatched, TimerInv

LEMMA WatchNodesWatchInv ==
    ASSUME WatchInv, NEW u \in Users, NEW P \in SUBSET Paths, NEW again, WatchNodes(u, P, again)
    PROVE  WatchInv'
<1> DEFINE n == NewCount(u, Nodes(P), again)
<1>1. /\ auto' = auto /\ queries' = queries /\ users' = users \cup {u}
      /\ UNCHANGED <<pushes, timers>>
      /\ auto \in [Users -> SUBSET Paths] /\ queries \in [Users -> SUBSET QueryMounts]
    BY DEF WatchNodes, WatchInv, TypeOK
<1>2. CASE UNCHANGED watchVars
    BY <1>1, <1>2, RefusedWatchInv
<1>3. CASE AddWatches(u, Nodes(P), n)
    <2>1. Nodes(P) \in SUBSET Subs
        BY NodesAreSubs
    <2> HIDE DEF n
    <2> QED
        BY <1>1, <1>3, <2>1, AddWatchInv
<1> QED
    BY <1>2, <1>3 DEF WatchNodes

LEMMA WatchListingWatchInv ==
    ASSUME WatchInv, NEW u \in Users, NEW p \in Paths, NEW a, WatchListing(u, p, a)
    PROVE  WatchInv'
<1> DEFINE S == {<<"children", p>>}
           n == NewCount(u, S, NoPath)
<1>1. /\ queries' = [queries EXCEPT ![u] = @ \cup ({p} \cap QueryMounts)]
      /\ users' = users \cup {u} /\ UNCHANGED <<pushes, timers>>
      /\ auto \in [Users -> SUBSET Paths] /\ queries \in [Users -> SUBSET QueryMounts]
    BY DEF WatchListing, WatchInv, TypeOK
<1>2. /\ queries' \in [Users -> SUBSET QueryMounts]
      /\ \A x \in Users \ {u} : queries'[x] = queries[x]
    BY <1>1
<1>3. CASE UNCHANGED <<watchVars, auto>>
    BY <1>1, <1>2, <1>3, RefusedWatchInv
<1>4. CASE /\ AddWatches(u, S, n)
           /\ auto' = [auto EXCEPT ![u] = IF a THEN @ \cup {p} ELSE @ \ {p}]
    <2>1. S \in SUBSET Subs
        BY ListingsAreSubs
    <2>2. /\ auto' \in [Users -> SUBSET Paths]
          /\ \A x \in Users \ {u} : auto'[x] = auto[x]
          /\ \A y \in auto'[u] : y \in auto[u] \/ <<"children", y>> \in S
        BY <1>1, <1>4
    <2> HIDE DEF n, S
    <2> QED
        BY <1>1, <1>2, <1>4, <2>1, <2>2, AddWatchInv
<1> QED
    BY <1>3, <1>4 DEF WatchListing

LEMMA UnwatchWatchInv ==
    ASSUME WatchInv, NEW u \in Users, NEW s \in Subs, Unwatch(u, s)
    PROVE  WatchInv'
<1> USE DEF WatchInv, TypeOK, Unwatch, watchVars
<1>1. s[1] \in {"exact", "children"} /\ s[2] \in Paths /\ s = <<s[1], s[2]>>
    BY DEF Subs
<1>2. TypeOK'
    <2>1. subs' \in [Users -> SUBSET Subs] /\ watchers' \in [Subs -> SUBSET Users]
        BY <1>1
    <2>2. auto' \in [Users -> SUBSET Paths] /\ queries' \in [Users -> SUBSET QueryMounts]
        BY <1>1
    <2> QED
        BY <2>1, <2>2
<1>3. Agree'
    BY DEF Agree
<1>4. NothingLeft' /\ TimerInv'
    BY DEF NothingLeft, TimerInv
<1>5. AutoWatched'
    <2>1. \A x \in Users : auto'[x] \subseteq auto[x] /\ subs[x] \ {s} \subseteq subs'[x]
        BY <1>1
    <2>2. \A x \in Users \ {u} : auto'[x] = auto[x] /\ subs'[x] = subs[x]
        BY <1>1
    <2>3. \A p \in auto'[u] : <<"children", p>> # s
        BY <1>1 DEF NothingLeft
    <2> QED
        BY <2>1, <2>2, <2>3 DEF AutoWatched
<1> QED
    BY <1>2, <1>3, <1>4, <1>5

LEMMA NotifyWatchInv ==
    ASSUME WatchInv, NEW p \in Paths, NEW routed, Notify(p, routed)
    PROVE  WatchInv'
<1> USE DEF WatchInv, TypeOK, Notify
<1> DEFINE s == <<"exact", p>>
<1>1. PICK A \in SUBSET Users : AutoWatch(p, ToWatch(p, routed), A)
    BY DEF Notify
<1>2. s \in Subs /\ Nodes({p}) = {s}
    BY DEF Subs, Nodes
<1>3. A \subseteq users
    BY <1>1, <1>2, ListingsAreSubs
        DEF AutoWatch, Room, ToWatch, ByListing, ByQuery, ByNode, NothingLeft, Agree, Subs
<1>4. /\ subs' = [u \in Users |-> IF u \in A THEN subs[u] \cup {s} ELSE subs[u]]
      /\ watchers' = [watchers EXCEPT ![s] = @ \cup A]
    BY <1>1, <1>2 DEF AutoWatch
<1>5. TypeOK'
    BY <1>2, <1>4
<1>6. Agree'
    BY <1>2, <1>4 DEF Agree
<1>7. NothingLeft' /\ AutoWatched' /\ TimerInv'
    BY <1>3, <1>4 DEF NothingLeft, AutoWatched, TimerInv
<1> QED
    BY <1>5, <1>6, <1>7

LEMMA NextWatchInv == WatchInv /\ [Next]_vars => WatchInv'
<1> SUFFICES ASSUME WatchInv, [Next]_vars PROVE WatchInv'
    OBVIOUS
<1>1. CASE UNCHANGED vars
    BY <1>1 DEF vars, watchVars, WatchInv, TypeOK, Agree, NothingLeft, AutoWatched, TimerInv
<1>2. CASE Next
    BY <1>2, ConnectWatchInv, ExpireWatchInv, WatchNodesWatchInv, WatchListingWatchInv,
       UnwatchWatchInv, NotifyWatchInv DEF Next, Request
<1> QED
    BY <1>1, <1>2

LEMMA WatchInvariance == Spec => []WatchInv
BY InitWatchInv, NextWatchInv, PTL DEF Spec

(* watch.ts: the watch manager's sets and maps keep their shapes.          *)
THEOREM Typing == Spec => []TypeOK
BY WatchInvariance, PTL DEF WatchInv

(* watch.ts addTo, removeFrom, removeUser: the indexes by path and the     *)
(* watches by user never disagree, and a removed user leaves no trace.     *)
THEOREM Indexes == Spec => []IndexInv
<1>1. WatchInv => IndexInv
    BY DEF WatchInv, IndexInv, Agree, NothingLeft, AutoWatched
<1> QED
    BY <1>1, WatchInvariance, PTL

(* watch.ts connect, disconnect: a grace timer runs for users without a    *)
(* connection only, so a connected user's watches are never dropped.       *)
THEOREM Timers == Spec => []TimerInv
BY WatchInvariance, PTL DEF WatchInv

(* watch.ts:149 disconnect: whichever connection goes last, in any order   *)
(* of connects and disconnects, starts the grace period; only then can the *)
(* user be forgotten, as removeUser itself never takes a connection away.  *)
THEOREM GracePeriods == Spec => GraceStarts
<1>1. ASSUME WatchInv, [Next]_vars
      PROVE  \A u \in Users : pushes[u] # {} /\ pushes'[u] = {} => u \in timers'
    <2> SUFFICES ASSUME NEW u \in Users, pushes[u] # {}, pushes'[u] = {} PROVE u \in timers'
        OBVIOUS
    <2>1. CASE pushes' = pushes
        BY <2>1
    <2>2. ASSUME NEW c \in Conns, Connect(c) PROVE u \in timers'
        BY <1>1, <2>2 DEF Connect, WatchInv, TypeOK
    <2>3. ASSUME NEW c \in Conns, Disconnect(c) PROVE u \in timers'
        <3>1. pushes[u] = {c} /\ Owner[c] = u
            BY <1>1, <2>3 DEF Disconnect, WatchInv, TypeOK
        <3> QED
            BY <2>3, <3>1 DEF Disconnect
    <2> QED
        BY <1>1, <2>1, <2>2, <2>3
        DEF Next, Request, GraceExpires, WatchNodes, WatchListing, Unwatch, Notify, vars
<1> QED
    BY <1>1, WatchInvariance, PTL DEF Spec, GraceStarts

-----------------------------------------------------------------------------
\* The counter and the limits

LEMMA SubsFinite == IsFiniteSet(Subs) /\ IsFiniteSet(Users \X Subs)
<1>1. IsFiniteSet({"exact"}) /\ IsFiniteSet({"exact"} \cup {"children"})
    BY FS_Singleton, FS_AddElement
<1>2. {"exact"} \cup {"children"} = {"exact", "children"}
    OBVIOUS
<1>3. IsFiniteSet(Subs)
    BY <1>1, <1>2, FS_Product DEF Subs
<1> QED
    BY <1>3, FS_Product

LEMMA WatchesFinite ==
    ASSUME TypeOK
    PROVE  /\ IsFiniteSet(AllWatches) /\ Cardinality(AllWatches) \in Nat
           /\ \A u \in Users : IsFiniteSet(subs[u]) /\ Cardinality(subs[u]) \in Nat
<1>1. AllWatches \in SUBSET (Users \X Subs)
    BY DEF AllWatches
<1>2. \A u \in Users : subs[u] \in SUBSET Subs
    BY DEF TypeOK
<1>3. IsFiniteSet(AllWatches) /\ \A u \in Users : IsFiniteSet(subs[u])
    BY <1>1, <1>2, SubsFinite, FS_Subset
<1> QED
    BY <1>3, FS_CardinalityType

(* Disjoint sets add up, and what is taken away counts once.               *)
LEMMA PlusDisjoint ==
    ASSUME NEW S, IsFiniteSet(S), NEW T, IsFiniteSet(T), S \cap T = {}
    PROVE  Cardinality(S \cup T) = Cardinality(S) + Cardinality(T)
<1>1. /\ Cardinality(S \cup T) = Cardinality(S) + Cardinality(T) - Cardinality(S \cap T)
      /\ Cardinality(S \cap T) = 0
    BY FS_Union, FS_EmptySet
<1>2. Cardinality(S) \in Nat /\ Cardinality(T) \in Nat
    BY FS_CardinalityType
<1> QED
    BY <1>1, <1>2

LEMMA MinusPart ==
    ASSUME NEW S, IsFiniteSet(S), NEW T, T \subseteq S
    PROVE  Cardinality(S \ T) = Cardinality(S) - Cardinality(T)
<1>1. S \cap T = T
    OBVIOUS
<1> QED
    BY <1>1, FS_Difference

(* The watches of one user, or of one path, are as many as its paths, or   *)
(* users.                                                                  *)
LEMMA OfOneUser ==
    ASSUME NEW u, NEW S, IsFiniteSet(S)
    PROVE  /\ IsFiniteSet({u} \X S) /\ Cardinality({u} \X S) = Cardinality(S)
           /\ IsFiniteSet(S \X {u}) /\ Cardinality(S \X {u}) = Cardinality(S)
<1>1. IsFiniteSet({u}) /\ Cardinality({u}) = 1
    BY FS_Singleton
<1>2. Cardinality(S) \in Nat
    BY FS_CardinalityType
<1>3. /\ IsFiniteSet({u} \X S) /\ Cardinality({u} \X S) = 1 * Cardinality(S)
      /\ IsFiniteSet(S \X {u}) /\ Cardinality(S \X {u}) = Cardinality(S) * 1
    BY <1>1, FS_Product
<1> QED
    BY <1>2, <1>3

(* The counter is never too low, and only a path that is named twice in a  *)
(* request makes it too high.                                              *)
Counted ==
    /\ total \in Nat
    /\ Cardinality(AllWatches) <= total
    /\ ~RepeatedPaths => TotalInv

(* What a request adds to the counter.                                     *)
LEMMA NewCountType ==
    ASSUME TypeOK, NEW u \in Users, NEW S \in SUBSET Subs, NEW again
    PROVE  /\ Cardinality(S \ subs[u]) \in Nat
           /\ NewCount(u, S, again) \in Nat
           /\ NewCount(u, S, again) >= Cardinality(S \ subs[u])
           /\ again \notin S => NewCount(u, S, again) = Cardinality(S \ subs[u])
<1>1. IsFiniteSet(S \ subs[u])
    BY SubsFinite, FS_Subset
<1>2. Cardinality(S \ subs[u]) \in Nat
    BY <1>1, FS_CardinalityType
<1> QED
    BY <1>2 DEF NewCount

LEMMA AddCounts ==
    ASSUME TypeOK, NEW u \in Users, NEW S \in SUBSET Subs, NEW n, AddWatches(u, S, n)
    PROVE  Cardinality(AllWatches') = Cardinality(AllWatches) + Cardinality(S \ subs[u])
<1> DEFINE T == S \ subs[u]
<1>1. subs' = [subs EXCEPT ![u] = @ \cup S]
    BY DEF AddWatches
<1>2. AllWatches' = AllWatches \cup ({u} \X T)
    BY <1>1 DEF AllWatches, TypeOK
<1>3. AllWatches \cap ({u} \X T) = {}
    BY DEF AllWatches
<1>4. IsFiniteSet(T)
    BY SubsFinite, FS_Subset
<1> HIDE DEF T
<1>5. IsFiniteSet({u} \X T) /\ Cardinality({u} \X T) = Cardinality(T)
    BY <1>4, OfOneUser
<1>6. Cardinality(AllWatches \cup ({u} \X T)) = Cardinality(AllWatches) + Cardinality({u} \X T)
    BY <1>3, <1>5, WatchesFinite, PlusDisjoint
<1> QED
    BY <1>2, <1>5, <1>6 DEF T

(* Watches of one user go, from the indexes and from the counter.          *)
LEMMA TakeCounts ==
    ASSUME TypeOK, Counted, NEW u \in Users, NEW S \in SUBSET subs[u],
           subs' = [subs EXCEPT ![u] = @ \ S], total' = total - Cardinality(S)
    PROVE  Counted'
<1>1. AllWatches' = AllWatches \ ({u} \X S)
    BY DEF AllWatches, TypeOK
<1>2. {u} \X S \subseteq AllWatches
    BY DEF AllWatches, TypeOK
<1>3. IsFiniteSet(S) /\ IsFiniteSet(AllWatches) /\ IsFiniteSet(AllWatches \ ({u} \X S))
    <2>1. S \in SUBSET Subs /\ AllWatches \ ({u} \X S) \in SUBSET AllWatches
        BY DEF TypeOK
    <2> QED
        BY <2>1, SubsFinite, WatchesFinite, FS_Subset
<1>4. Cardinality({u} \X S) = Cardinality(S) /\ Cardinality(S) \in Nat
    BY <1>3, OfOneUser, FS_CardinalityType
<1>5. Cardinality(AllWatches') = Cardinality(AllWatches) - Cardinality(S)
    BY <1>1, <1>2, <1>3, <1>4, MinusPart
<1>6. Cardinality(AllWatches) \in Nat /\ Cardinality(AllWatches') \in Nat
    BY <1>1, <1>3, FS_CardinalityType
<1> QED
    BY <1>4, <1>5, <1>6 DEF Counted, TotalInv

(* Watches of one user are added, within both limits.                      *)
LEMMA AddKeepsCount ==
    ASSUME TypeOK, Counted, LimitInv, NEW u \in Users, NEW S \in SUBSET Subs, NEW again,
           again \in S => RepeatedPaths,
           Within(u, NewCount(u, S, again)), AddWatches(u, S, NewCount(u, S, again))
    PROVE  Counted' /\ LimitInv'
<1> DEFINE n == NewCount(u, S, again)
           m == Cardinality(S \ subs[u])
<1>1. m \in Nat /\ n \in Nat /\ n >= m /\ (again \notin S => n = m)
    BY NewCountType
<1>2. Cardinality(AllWatches') = Cardinality(AllWatches) + m
    BY AddCounts
<1>3. subs' = [subs EXCEPT ![u] = @ \cup S] /\ total' = total + n
    BY DEF AddWatches
<1>4. Cardinality(subs[u] \cup S) = Cardinality(subs[u]) + m
    <2>1. IsFiniteSet(S \ subs[u]) /\ IsFiniteSet(subs[u])
        BY SubsFinite, WatchesFinite, FS_Subset
    <2>2. subs[u] \cap (S \ subs[u]) = {} /\ subs[u] \cup S = subs[u] \cup (S \ subs[u])
        OBVIOUS
    <2> QED
        BY <2>1, <2>2, PlusDisjoint
<1>5. n > 0 => Cardinality(subs[u]) + n <= MaxPerUser /\ total + n <= MaxTotal
    BY DEF Within
<1>6. Cardinality(AllWatches) \in Nat /\ Cardinality(subs[u]) \in Nat
    BY WatchesFinite
<1> HIDE DEF n, m
<1>7. Counted'
    BY <1>1, <1>2, <1>3, <1>6 DEF Counted, TotalInv
<1>8. Cardinality(subs[u] \cup S) <= MaxPerUser
    BY <1>1, <1>4, <1>5, <1>6 DEF LimitInv
<1>9. total' <= MaxTotal
    BY <1>1, <1>3, <1>5 DEF LimitInv, Counted
<1> QED
    BY <1>3, <1>7, <1>8, <1>9 DEF LimitInv, TypeOK

CountInv == WatchInv /\ Counted /\ LimitInv

(* Whoever loses watches stays within the limit.                           *)
LEMMA FewerWithin ==
    ASSUME TypeOK, LimitInv, Counted,
           \A u \in Users : subs'[u] \subseteq subs[u], total' \in Nat, total' <= total
    PROVE  LimitInv'
<1>1. ASSUME NEW u \in Users
      PROVE  Cardinality(subs'[u]) <= MaxPerUser
    <2>1. /\ IsFiniteSet(subs[u]) /\ subs'[u] \in SUBSET subs[u] /\ Cardinality(subs[u]) \in Nat
          /\ Cardinality(subs[u]) <= MaxPerUser
        BY WatchesFinite DEF LimitInv
    <2>2. IsFiniteSet(subs'[u]) /\ Cardinality(subs'[u]) <= Cardinality(subs[u])
        BY <2>1, FS_Subset
    <2>3. Cardinality(subs'[u]) \in Nat
        BY <2>2, FS_CardinalityType
    <2> QED
        BY <2>1, <2>2, <2>3
<1> QED
    BY <1>1 DEF LimitInv, Counted

(* notify: every user it watches for is within its own limit, and all of   *)
(* them together within the server's.                                      *)
LEMMA NotifyCounts ==
    ASSUME CountInv, NEW p \in Paths, NEW routed, Notify(p, routed)
    PROVE  Counted' /\ LimitInv'
<1> DEFINE s == <<"exact", p>>
<1>1. PICK A \in SUBSET Users : AutoWatch(p, ToWatch(p, routed), A)
    BY DEF Notify
<1>2. s \in Subs /\ Nodes({p}) = {s}
    BY DEF Subs, Nodes
<1>3. /\ subs' = [u \in Users |-> IF u \in A THEN subs[u] \cup {s} ELSE subs[u]]
      /\ total' = total + Cardinality(A) /\ total + Cardinality(A) <= MaxTotal
    BY <1>1, <1>2 DEF AutoWatch
<1>4. \A u \in A : s \notin subs[u] /\ Cardinality(subs[u]) < MaxPerUser
    BY <1>1 DEF AutoWatch, Room
<1>5. TypeOK
    BY DEF CountInv, WatchInv
<1>6. IsFiniteSet(A) /\ Cardinality(A) \in Nat
    BY FS_Subset, FS_CardinalityType
<1>7. AllWatches' = AllWatches \cup (A \X {s}) /\ AllWatches \cap (A \X {s}) = {}
    <2>1. \A u \in Users : subs'[u] = subs[u] \cup (IF u \in A THEN {s} ELSE {})
        BY <1>3
    <2> HIDE DEF s
    <2>2. ASSUME NEW u \in Users, NEW x \in Subs
          PROVE  <<u, x>> \in AllWatches' <=> <<u, x>> \in AllWatches \cup (A \X {s})
        BY <2>1 DEF AllWatches
    <2>3. AllWatches' \subseteq Users \X Subs /\ AllWatches \cup (A \X {s}) \subseteq Users \X Subs
        BY <1>2 DEF AllWatches
    <2>4. AllWatches' = AllWatches \cup (A \X {s})
        BY <2>2, <2>3
    <2>5. AllWatches \cap (A \X {s}) = {}
        BY <1>4 DEF AllWatches
    <2> QED
        BY <2>4, <2>5
<1>8. Cardinality(AllWatches') = Cardinality(AllWatches) + Cardinality(A)
    <2>1. IsFiniteSet(A \X {s}) /\ Cardinality(A \X {s}) = Cardinality(A)
        BY <1>6, OfOneUser
    <2>2. IsFiniteSet(AllWatches)
        BY <1>5, WatchesFinite
    <2> QED
        BY <1>7, <2>1, <2>2, PlusDisjoint
<1>9. Counted'
    BY <1>3, <1>5, <1>6, <1>8, WatchesFinite DEF Counted, CountInv, TotalInv
<1>10. ASSUME NEW u \in Users
       PROVE  Cardinality(subs'[u]) <= MaxPerUser
    <2>1. CASE u \in A
        <3>1. /\ IsFiniteSet(subs[u]) /\ Cardinality(subs[u]) \in Nat
              /\ subs'[u] = subs[u] \cup {s} /\ s \notin subs[u]
            BY <1>3, <1>4, <1>5, <2>1, WatchesFinite
        <3>2. Cardinality(subs'[u]) = Cardinality(subs[u]) + 1
            BY <3>1, FS_AddElement
        <3> QED
            BY <1>4, <2>1, <3>1, <3>2
    <2>2. CASE u \notin A
        BY <1>3, <2>2 DEF CountInv, LimitInv
    <2> QED
        BY <2>1, <2>2
<1> QED
    BY <1>3, <1>9, <1>10 DEF LimitInv

LEMMA NextCountInv == CountInv /\ [Next]_vars => CountInv'
<1> SUFFICES ASSUME CountInv, [Next]_vars PROVE CountInv'
    OBVIOUS
<1> USE DEF watchVars
<1>1. WatchInv' /\ WatchInv /\ TypeOK /\ Counted /\ LimitInv
    BY NextWatchInv DEF CountInv, WatchInv
<1>2. CASE UNCHANGED watchVars
    BY <1>1, <1>2 DEF CountInv, Counted, LimitInv, TotalInv, AllWatches
<1>3. ASSUME NEW c \in Conns, Connect(c) \/ Disconnect(c)
      PROVE  CountInv'
    BY <1>2, <1>3 DEF Connect, Disconnect
<1>4. ASSUME NEW u \in Users, GraceExpires(u)
      PROVE  CountInv'
    <2>1. CASE RemoveUser(u)
        <3>1. subs' = [subs EXCEPT ![u] = @ \ subs[u]] /\ total' = total - Cardinality(subs[u])
            BY <2>1 DEF RemoveUser
        <3>2. Counted'
            BY <1>1, <3>1, TakeCounts
        <3>3. /\ \A x \in Users : subs'[x] \subseteq subs[x]
              /\ total' <= total /\ total' \in Nat
            BY <1>1, <3>1, <3>2, WatchesFinite DEF TypeOK, Counted
        <3> QED
            BY <1>1, <3>2, <3>3, FewerWithin DEF CountInv
    <2> QED
        BY <1>2, <1>4, <2>1 DEF GraceExpires
<1>5. ASSUME NEW u \in Users, NEW P \in SUBSET Paths, NEW again \in Repeats(P),
             WatchNodes(u, P, again)
      PROVE  CountInv'
    <2>1. Nodes(P) \in SUBSET Subs
        BY NodesAreSubs
    <2>2. again \in Nodes(P) => RepeatedPaths
        BY <2>1, NoPathIsNone DEF Repeats
    <2>3. CASE UNCHANGED watchVars
        BY <1>2, <2>3
    <2>4. CASE /\ Within(u, NewCount(u, Nodes(P), again))
               /\ AddWatches(u, Nodes(P), NewCount(u, Nodes(P), again))
        <3>1. Counted' /\ LimitInv'
            BY <1>1, <2>1, <2>2, <2>4, AddKeepsCount
        <3> QED
            BY <1>1, <3>1 DEF CountInv
    <2> QED
        BY <1>5, <2>3, <2>4 DEF WatchNodes
<1>6. ASSUME NEW u \in Users, NEW p \in Paths, NEW a, WatchListing(u, p, a)
      PROVE  CountInv'
    <2> DEFINE S == {<<"children", p>>}
    <2>1. S \in SUBSET Subs /\ NoPath \notin S
        BY ListingsAreSubs, NoPathIsNone
    <2>2. CASE UNCHANGED watchVars
        BY <1>2, <2>2
    <2>3. CASE /\ Within(u, NewCount(u, S, NoPath))
               /\ AddWatches(u, S, NewCount(u, S, NoPath))
        <3> HIDE DEF S
        <3>1. Counted' /\ LimitInv'
            BY <1>1, <2>1, <2>3, AddKeepsCount
        <3> QED
            BY <1>1, <3>1 DEF CountInv
    <2> QED
        BY <1>6, <2>2, <2>3 DEF WatchListing
<1>7. ASSUME NEW u \in Users, NEW s \in Subs, Unwatch(u, s)
      PROVE  CountInv'
    <2>1. CASE UNCHANGED watchVars
        BY <1>2, <2>1
    <2>2. CASE /\ subs' = [subs EXCEPT ![u] = @ \ {s}]
               /\ total' = total - Cardinality(subs[u] \cap {s})
        <3> DEFINE S == subs[u] \cap {s}
        <3>1. subs' = [subs EXCEPT ![u] = @ \ S] /\ S \in SUBSET subs[u]
            BY <2>2
        <3>2. Counted'
            BY <1>1, <2>2, <3>1, TakeCounts
        <3>3. Cardinality(S) \in Nat
            BY <1>1, WatchesFinite, FS_Subset, FS_CardinalityType
        <3>4. /\ \A x \in Users : subs'[x] \subseteq subs[x]
              /\ total' <= total /\ total' \in Nat
            BY <1>1, <2>2, <3>1, <3>2, <3>3 DEF TypeOK, Counted
        <3> QED
            BY <1>1, <3>2, <3>4, FewerWithin DEF CountInv
    <2> QED
        BY <1>7, <2>1, <2>2 DEF Unwatch
<1>8. ASSUME NEW p \in Paths, NEW routed, Notify(p, routed)
      PROVE  CountInv'
    BY <1>1, <1>8, NotifyCounts DEF CountInv
<1>9. CASE UNCHANGED vars
    BY <1>2, <1>9 DEF vars
<1> QED
    BY <1>3, <1>4, <1>5, <1>6, <1>7, <1>8, <1>9 DEF Next, Request

LEMMA InitCountInv == Init => CountInv
<1> SUFFICES ASSUME Init PROVE CountInv
    OBVIOUS
<1>1. AllWatches = {} /\ \A u \in Users : subs[u] = {}
    BY DEF Init, AllWatches
<1>2. Cardinality(AllWatches) = 0 /\ \A u \in Users : Cardinality(subs[u]) = 0
    BY <1>1, FS_EmptySet
<1>3. Counted /\ LimitInv
    BY <1>2 DEF Init, Counted, TotalInv, LimitInv
<1> QED
    BY <1>3, InitWatchInv DEF CountInv

LEMMA CountInvariance == Spec => []CountInv
BY InitCountInv, NextCountInv, PTL DEF Spec

(* watch.ts:72 checkLimits, and the autowatch of notify: no user and not   *)
(* all of them together ever have more watches than they may, even when    *)
(* requests name paths twice.                                              *)
THEOREM Limits == Spec => []LimitInv
BY CountInvariance, PTL DEF CountInv

(* watch.ts:170: the counter is the number of watches, if no request names *)
(* a path twice; if one does, the counter is too high and never too low,   *)
(* so that the limits are kept all the same.                               *)
THEOREM Counting == Spec => [](Cardinality(AllWatches) <= total /\ (~RepeatedPaths => TotalInv))
<1>1. CountInv => Cardinality(AllWatches) <= total /\ (~RepeatedPaths => TotalInv)
    BY DEF CountInv, Counted
<1> QED
    BY <1>1, CountInvariance, PTL

-----------------------------------------------------------------------------
\* The tabs

(* What tabs do to the watch manager its own specification allows.         *)
THEOREM TabsUseTheManager == TabSpec => Spec
<1>1. TabInit => Init
    BY DEF TabInit
<1>2. ASSUME [TabNext]_tabVars PROVE [Next]_vars
    <2>1. ASSUME NEW t \in Tabs, NEW p \in Paths, ShowNode(t, p)
          PROVE  Next
        <3>1. Owner[t] \in Users
            BY TabsAssumption
        <3>2. {p} \in (SUBSET Paths) \ {{}}
            OBVIOUS
        <3>3. NoPath \in Repeats({p})
            BY DEF Repeats
        <3>4. WatchNodes(Owner[t], {p}, NoPath)
            BY <2>1 DEF ShowNode
        <3>5. Request(Owner[t])
            BY <3>2, <3>3, <3>4 DEF Request
        <3> QED
            BY <3>1, <3>5 DEF Next
    <2>2. ASSUME NEW t \in Tabs, NEW p \in Paths, NEW a \in BOOLEAN, ShowListing(t, p, a)
          PROVE  Next
        BY <2>2, WatchAssumption, TabsAssumption DEF ShowListing, Next, Request
    <2>3. ASSUME NEW t \in Tabs, NEW s \in Subs, Hide(t, s)
          PROVE  Next
        BY <2>3, WatchAssumption, TabsAssumption DEF Hide, Next, Request
    <2>4. ASSUME NEW t \in Tabs, Open(t) \/ Close(t)
          PROVE  Next
        BY <2>4, TabsAssumption DEF Open, Close, Next
    <2>5. CASE OtherNext
        BY <2>5 DEF OtherNext, Next
    <2>6. CASE SourceReconnects
        BY <2>6 DEF SourceReconnects
    <2>7. CASE UNCHANGED tabVars
        BY <2>7 DEF tabVars
    <2> QED
        BY <1>2, <2>1, <2>2, <2>3, <2>4, <2>5, <2>6, <2>7 DEF TabNext
<1> QED
    BY <1>1, <1>2, PTL DEF TabSpec, Spec

(* A request of one user adds watches of that user, and may make its entry.*)
LEMMA RequestsAdd ==
    ASSUME TypeOK, NEW u \in Users,
           \/ \E P \in SUBSET Paths : \E again : WatchNodes(u, P, again)
           \/ \E p \in Paths : \E a : WatchListing(u, p, a)
    PROVE  /\ users' = users \cup {u} /\ pushes' = pushes
           /\ subs[u] \subseteq subs'[u]
           /\ \A x \in Users \ {u} : subs'[x] = subs[x]
<1>1. ASSUME NEW P \in SUBSET Paths, NEW again, WatchNodes(u, P, again)
      PROVE  /\ users' = users \cup {u} /\ pushes' = pushes
             /\ subs[u] \subseteq subs'[u]
             /\ \A x \in Users \ {u} : subs'[x] = subs[x]
    BY <1>1 DEF WatchNodes, AddWatches, watchVars, TypeOK
<1>2. ASSUME NEW p \in Paths, NEW a, WatchListing(u, p, a)
      PROVE  /\ users' = users \cup {u} /\ pushes' = pushes
             /\ subs[u] \subseteq subs'[u]
             /\ \A x \in Users \ {u} : subs'[x] = subs[x]
    BY <1>2 DEF WatchListing, AddWatches, watchVars, TypeOK
<1> QED
    BY <1>1, <1>2

(* What holds the tabs of different users apart, and makes a tab's views   *)
(* the only reason of its user's watches.                                  *)
OneTabEach == \A s, t \in Tabs : Owner[s] = Owner[t] => s = t

(* What a tab was told is watched stays watched while its user has an      *)
(* entry, connected or not: that is what connect() answers about.          *)
ViewsWatched == \A t \in Tabs : Owner[t] \in users => views[t] \subseteq subs[Owner[t]]

TabInv == WatchInv /\ views \in [Tabs -> SUBSET Subs] /\ ViewsWatched

LEMMA NextTabInv ==
    ASSUME OneTabEach, ~LateRequests, TabInv, [TabNext]_tabVars, WatchInv'
    PROVE  TabInv'
<1> USE DEF TabInv
<1>1. TypeOK /\ \A t \in Tabs : Owner[t] \in Users
    BY WatchAssumption, TabsAssumption DEF WatchInv
(* A tab's own request.                                                    *)
<1>2. ASSUME NEW t \in Tabs, NEW S \in SUBSET Subs, Owner[t] \in users,
             users' = users \cup {Owner[t]},
             subs[Owner[t]] \subseteq subs'[Owner[t]],
             \A x \in Users \ {Owner[t]} : subs'[x] = subs[x],
             views' = IF S \subseteq subs'[Owner[t]]
                      THEN [views EXCEPT ![t] = @ \cup S] ELSE views
      PROVE  TabInv'
    <2>1. views' \in [Tabs -> SUBSET Subs]
        BY <1>2
    <2>2. ASSUME NEW x \in Tabs, Owner[x] \in users'
          PROVE  views'[x] \subseteq subs'[Owner[x]]
        <3>1. views[x] \subseteq subs[Owner[x]] /\ subs[Owner[x]] \subseteq subs'[Owner[x]]
            BY <1>1, <1>2, <2>2 DEF ViewsWatched
        <3>2. views'[x] \subseteq views[x] \cup (IF x = t /\ S \subseteq subs'[Owner[t]] THEN S ELSE {})
            BY <1>2
        <3> QED
            BY <3>1, <3>2
    <2> QED
        BY <2>1, <2>2 DEF ViewsWatched
<1>3. ASSUME NEW t \in Tabs, NEW p \in Paths, ShowNode(t, p)
      PROVE  TabInv'
    <2>1. Nodes({p}) \in SUBSET Subs /\ Owner[t] \in users
        BY <1>3, NodesAreSubs DEF ShowNode, Served
    <2>2. WatchNodes(Owner[t], {p}, NoPath)
        BY <1>3 DEF ShowNode
    <2>3. /\ users' = users \cup {Owner[t]}
          /\ subs[Owner[t]] \subseteq subs'[Owner[t]]
          /\ \A x \in Users \ {Owner[t]} : subs'[x] = subs[x]
        BY <1>1, <2>2, RequestsAdd
    <2>4. views' = IF Nodes({p}) \subseteq subs'[Owner[t]]
                   THEN [views EXCEPT ![t] = @ \cup Nodes({p})] ELSE views
        BY <1>3 DEF ShowNode
    <2> QED
        BY <1>2, <2>1, <2>3, <2>4
<1>4. ASSUME NEW t \in Tabs, NEW p \in Paths, NEW a, ShowListing(t, p, a)
      PROVE  TabInv'
    <2> DEFINE S == {<<"children", p>>}
    <2>1. S \in SUBSET Subs /\ Owner[t] \in users
        BY <1>4, ListingsAreSubs DEF ShowListing, Served
    <2>2. WatchListing(Owner[t], p, a)
        BY <1>4 DEF ShowListing
    <2>3. /\ users' = users \cup {Owner[t]}
          /\ subs[Owner[t]] \subseteq subs'[Owner[t]]
          /\ \A x \in Users \ {Owner[t]} : subs'[x] = subs[x]
        BY <1>1, <2>2, RequestsAdd
    <2>4. views' = IF S \subseteq subs'[Owner[t]]
                   THEN [views EXCEPT ![t] = @ \cup S] ELSE views
        BY <1>4 DEF ShowListing
    <2> HIDE DEF S
    <2> QED
        BY <1>2, <2>1, <2>3, <2>4
<1>5. ASSUME NEW t \in Tabs, NEW s \in Subs, Hide(t, s)
      PROVE  TabInv'
    <2>1. views' = [views EXCEPT ![t] = @ \ {s}] /\ users' = users
        BY <1>5 DEF Hide, Unwatch
    <2>2. Owner[t] \in users => subs' = [subs EXCEPT ![Owner[t]] = @ \ {s}]
        BY <1>5 DEF Hide, Unwatch
    <2>3. Owner[t] \notin users => subs' = subs
        BY <1>5 DEF Hide, Unwatch, watchVars
    <2>4. ViewsWatched'
        BY <1>1, <2>1, <2>2, <2>3 DEF ViewsWatched, OneTabEach, TypeOK
    <2> QED
        BY <2>1, <2>4
<1>6. ASSUME NEW t \in Tabs, Open(t)
      PROVE  TabInv'
    <2>1. users' = users \cup {Owner[t]} /\ subs' = subs
        BY <1>6 DEF Open, Connect, watchVars
    <2>2. views' = IF Owner[t] \in users THEN views ELSE [views EXCEPT ![t] = {}]
        BY <1>6 DEF Open, Preserved
    <2>3. ViewsWatched'
        BY <1>1, <2>1, <2>2 DEF ViewsWatched, OneTabEach
    <2> QED
        BY <2>2, <2>3
<1>7. ASSUME NEW t \in Tabs, Close(t)
      PROVE  TabInv'
    BY <1>7 DEF Close, Disconnect, watchVars, ViewsWatched
<1>8. CASE OtherNext
    <2>1. views' = views
        BY <1>8 DEF OtherNext
    <2>2. ASSUME NEW c \in Conns \ Tabs, Connect(c) \/ Disconnect(c)
          PROVE  ViewsWatched'
        <3>1. subs' = subs /\ users' \subseteq users \cup {Owner[c]}
            BY <2>2 DEF Connect, Disconnect, watchVars
        <3>2. \A t \in Tabs : Owner[t] # Owner[c]
            BY TabsAssumption
        <3> QED
            BY <2>1, <3>1, <3>2 DEF ViewsWatched
    <2>3. ASSUME NEW u \in Users \ {Owner[t] : t \in Tabs}, Request(u)
          PROVE  ViewsWatched'
        <3>1. CASE \E s \in Subs : Unwatch(u, s)
            <4>1. users' = users /\ \A x \in Users \ {u} : subs'[x] = subs[x]
                BY <1>1, <3>1 DEF Unwatch, watchVars, TypeOK
            <4> QED
                BY <1>1, <2>1, <4>1 DEF ViewsWatched
        <3>2. CASE \/ \E P \in SUBSET Paths : \E again : WatchNodes(u, P, again)
                   \/ \E p \in Paths : \E a : WatchListing(u, p, a)
            <4>1. users' = users \cup {u} /\ \A x \in Users \ {u} : subs'[x] = subs[x]
                BY <1>1, <3>2, RequestsAdd
            <4> QED
                BY <1>1, <2>1, <4>1 DEF ViewsWatched
        <3> QED
            BY <2>3, <3>1, <3>2 DEF Request
    <2>4. ASSUME NEW u \in Users, GraceExpires(u)
          PROVE  ViewsWatched'
        BY <1>1, <2>1, <2>4 DEF ViewsWatched, GraceExpires, RemoveUser, watchVars, TypeOK
    <2>5. ASSUME NEW p \in Paths, NEW routed, Notify(p, routed)
          PROVE  ViewsWatched'
        <3>1. users' = users /\ \A x \in Users : subs[x] \subseteq subs'[x]
            BY <2>5 DEF Notify, AutoWatch
        <3> QED
            BY <1>1, <2>1, <3>1 DEF ViewsWatched
    <2> QED
        BY <1>8, <2>1, <2>2, <2>3, <2>4, <2>5 DEF OtherNext
<1>9. CASE SourceReconnects
    BY <1>9 DEF SourceReconnects, vars, watchVars, ViewsWatched
<1>10. CASE UNCHANGED tabVars
    BY <1>10 DEF tabVars, vars, watchVars, ViewsWatched
<1> QED
    BY <1>3, <1>4, <1>5, <1>6, <1>7, <1>8, <1>9, <1>10 DEF TabNext

LEMMA TabInvariance == ASSUME OneTabEach, ~LateRequests PROVE TabSpec => []TabInv
<1>1. TabInit => TabInv
    BY InitWatchInv DEF TabInit, TabInv, ViewsWatched, Init
<1>2. TabInv /\ WatchInv' /\ [TabNext]_tabVars => TabInv'
    BY NextTabInv
<1>3. TabSpec => []WatchInv
    BY TabsUseTheManager, WatchInvariance, PTL
<1> QED
    BY <1>1, <1>2, <1>3, PTL DEF TabSpec

(* watch.ts:26, client-tree-source.ts: a connected tab's views are watched *)
(* if no other tab of the user can take them away (unwatch does not count) *)
(* and none of its requests is served while the user has no entry.         *)
THEOREM ViewsStayWatched ==
    ASSUME OneTabEach, ~LateRequests PROVE TabSpec => []TabsInSync
<1>1. TabInv => TabsInSync
    BY WatchAssumption, TabsAssumption DEF TabInv, WatchInv, ViewsWatched, TabsInSync, NothingLeft
<1> QED
    BY <1>1, TabInvariance, PTL

(* The three stages of notify pass over whom an earlier one has told.      *)
Stages(p, routed) == <<ByNode(p), ByListing(p), ByQuery(p, routed)>>

LEMMA StagesAreDisjoint ==
    ASSUME NEW p, NEW routed, NEW u, NEW i \in 1..3, NEW j \in 1..3,
           u \in Stages(p, routed)[i], u \in Stages(p, routed)[j]
    PROVE  i = j
<1>1. \A k \in 1..3 : Stages(p, routed)[k] = IF k = 1 THEN ByNode(p)
                                             ELSE IF k = 2 THEN ByListing(p)
                                             ELSE ByQuery(p, routed)
    BY DEF Stages
<1>2. /\ ByNode(p) \cap ByListing(p) = {}
      /\ ByNode(p) \cap ByQuery(p, routed) = {}
      /\ ByListing(p) \cap ByQuery(p, routed) = {}
    BY DEF ByListing, ByQuery
<1>3. ASSUME NEW m \in 1..3, NEW n \in 1..3, m < n
      PROVE  Stages(p, routed)[m] \cap Stages(p, routed)[n] = {}
    BY <1>1, <1>2, <1>3
<1> QED
    BY <1>3

LEMMA DeliveriesOf ==
    ASSUME NEW p \in Paths, NEW routed, NEW c \in Conns
    PROVE  /\ Deliveries(p, routed)[c] \in {0, 1}
           /\ Owner[c] \in users /\ c \in pushes[Owner[c]]
                  /\ (Owner[c] \in ByNode(p) \/ Owner[c] \in ByListing(p))
              => Deliveries(p, routed)[c] = 1
<1> DEFINE Told == {stage \in 1..3 : Owner[c] \in Stages(p, routed)[stage]}
<1>1. Deliveries(p, routed)[c] = IF Owner[c] \in users /\ c \in pushes[Owner[c]]
                                 THEN Cardinality(Told) ELSE 0
    BY DEF Deliveries, Stages
<1>2. CASE Told = {}
    <2>1. Cardinality(Told) = 0
        BY <1>2, FS_EmptySet
    <2>2. Stages(p, routed)[1] = ByNode(p) /\ Stages(p, routed)[2] = ByListing(p)
        BY DEF Stages
    <2>3. Owner[c] \notin ByNode(p) /\ Owner[c] \notin ByListing(p)
        BY <1>2, <2>2
    <2> QED
        BY <1>1, <2>1, <2>3
<1>3. CASE Told # {}
    <2>1. PICK i \in Told : TRUE
        BY <1>3
    <2>2. Told = {i}
        BY <2>1, StagesAreDisjoint
    <2>3. Cardinality(Told) = 1
        BY <2>2, FS_Singleton
    <2> HIDE DEF Told
    <2> QED
        BY <1>1, <2>3
<1> QED
    BY <1>2, <1>3

(* watch.ts:165 notify: no connection gets an event twice, however its     *)
(* user is watching and the event is routed, and every connected tab gets  *)
(* the event of every node that it shows or whose listing it shows, if no  *)
(* request of it comes late and no other tab of the user can take its      *)
(* watches away.                                                           *)
THEOREM ViewsAreTold ==
    ASSUME OneTabEach, ~LateRequests PROVE TabSpec => []EveryViewIsToldOnce
<1>1. ASSUME TabInv PROVE EveryViewIsToldOnce
    <2> SUFFICES ASSUME NEW p \in Paths, NEW routed \in Routes, NEW t \in Tabs,
                        t \in pushes[Owner[t]], Shows(t, p)
                 PROVE  Deliveries(p, routed)[t] = 1
        BY DeliveriesOf DEF EveryViewIsToldOnce
    <2>1. t \in Conns /\ Owner[t] \in Users /\ Parent[p] \in Paths
        BY TabsAssumption
    <2>2. WatchInv /\ ViewsWatched
        BY <1>1 DEF TabInv
    <2>3. Owner[t] \in users
        BY <2>1, <2>2 DEF WatchInv, NothingLeft
    <2>4. views[t] \subseteq subs[Owner[t]]
        BY <2>2, <2>3 DEF ViewsWatched
    <2>5. <<"exact", p>> \in Subs /\ <<"children", Parent[p]>> \in Subs
        BY <2>1 DEF Subs
    <2>6. \/ Owner[t] \in watchers[<<"exact", p>>]
          \/ Owner[t] \in watchers[<<"children", Parent[p]>>]
        BY <2>1, <2>2, <2>4, <2>5 DEF WatchInv, Agree, Shows
    <2>7. Owner[t] \in ByNode(p) \/ Owner[t] \in ByListing(p)
        BY <2>6 DEF ByNode, ByListing
    <2> QED
        BY <2>1, <2>3, <2>7, DeliveriesOf
<1> QED
    BY <1>1, TabInvariance, PTL
=============================================================================
