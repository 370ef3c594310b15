---------------------------- MODULE WatchManager ----------------------------
(***************************************************************************)
(* The watch manager of core/src/sub/watch.ts and the registry of active   *)
(* queries that follows it (watchQuery, unwatchQuery, unwatchAllQueries of *)
(* core/src/sub/index.ts), as the requests of core/src/server/trpc.ts      *)
(* drive them.                                                             *)
(*                                                                         *)
(* A user watches nodes ("exact") and listings ("children"); the events of *)
(* a node go to every open connection of every user that watches it, its   *)
(* parent's listing, or a query the node is routed to.  When a user's last *)
(* connection goes, its watches survive a grace period.                    *)
(***************************************************************************)
EXTENDS Naturals, FiniteSets

CONSTANTS
    Users, Conns,
    Owner,          \* Owner[c]: the user that opens connection c
    Paths,
    Parent,         \* Parent[p]: the path whose listing p is in
    QueryMounts,    \* the paths whose listing is a query's result
    NoPath,
    MaxPerUser, MaxTotal,
    RepeatedPaths   \* TRUE: a request may name a path twice

Subs == {"exact", "children"} \X Paths

ASSUME WatchAssumption ==
    /\ Owner \in [Conns -> Users]
    /\ Parent \in [Paths -> Paths]
    /\ QueryMounts \subseteq Paths /\ NoPath \notin Paths \cup Subs
    /\ IsFiniteSet(Users) /\ IsFiniteSet(Paths)
    /\ MaxPerUser \in Nat /\ MaxTotal \in Nat
    /\ RepeatedPaths \in BOOLEAN

VARIABLES
    users,          \* the users with an entry
    pushes,         \* pushes[u]: the open connections of u
    subs,           \* subs[u]: what u watches, <<kind, path>> pairs
    auto,           \* auto[u]: the listings of u that watch what they show
    watchers,       \* watchers[s]: pathToUsers and prefixToUsers
    total,          \* totalWatches
    timers,         \* the users whose grace timer runs
    queries         \* queries[u]: the active queries that list u

watchVars == <<subs, watchers, total>>
vars == <<users, pushes, watchVars, auto, timers, queries>>

Init ==
    /\ users = {}
    /\ pushes = [u \in Users |-> {}]
    /\ subs = [u \in Users |-> {}]
    /\ auto = [u \in Users |-> {}]
    /\ watchers = [s \in Subs |-> {}]
    /\ total = 0
    /\ timers = {}
    /\ queries = [u \in Users |-> {}]

-----------------------------------------------------------------------------
(* connect answers whether the user's watches were preserved.              *)
Preserved(u) == u \in users

(* Slip: the grace timer goes on after a reconnect.                        *)
ConnectKeepsTimer(c) ==
    LET u == Owner[c] IN
    /\ c \notin pushes[u]
    /\ users' = users \cup {u}
    /\ pushes' = [pushes EXCEPT ![u] = @ \cup {c}]
    /\ UNCHANGED <<watchVars, auto, timers, queries>>

Connect(c) ==
    LET u == Owner[c] IN
    /\ c \notin pushes[u]
    /\ timers' = timers \ {u}
    /\ users' = users \cup {u}
    /\ pushes' = [pushes EXCEPT ![u] = @ \cup {c}]
    /\ UNCHANGED <<watchVars, auto, queries>>

(* Slip: the grace period starts when one connection is left.              *)
DisconnectMiscounts(c) ==
    LET u == Owner[c] IN
    /\ c \in pushes[u]
    /\ pushes' = [pushes EXCEPT ![u] = @ \ {c}]
    /\ timers' = IF Cardinality(pushes[u]) = 2 THEN timers \cup {u} ELSE timers
    /\ UNCHANGED <<users, watchVars, auto, queries>>

(* After the last connection the grace period starts.                      *)
Disconnect(c) ==
    LET u == Owner[c] IN
    /\ c \in pushes[u]
    /\ pushes' = [pushes EXCEPT ![u] = @ \ {c}]
    /\ timers' = IF pushes[u] = {c} THEN timers \cup {u} ELSE timers
    /\ UNCHANGED <<users, watchVars, auto, queries>>

(* Slip: the user's active queries outlive it.                             *)
RemoveUserOnly(u) ==
    /\ users' = users \ {u}
    /\ subs' = [subs EXCEPT ![u] = {}]
    /\ auto' = [auto EXCEPT ![u] = {}]
    /\ watchers' = [s \in Subs |-> IF s \in subs[u] THEN watchers[s] \ {u} ELSE watchers[s]]
    /\ total' = total - Cardinality(subs[u])
    /\ UNCHANGED queries

(* removeUser, with its onUserRemoved callback.                            *)
RemoveUser(u) ==
    /\ users' = users \ {u}
    /\ subs' = [subs EXCEPT ![u] = {}]
    /\ auto' = [auto EXCEPT ![u] = {}]
    /\ watchers' = [s \in Subs |-> IF s \in subs[u] THEN watchers[s] \ {u} ELSE watchers[s]]
    /\ total' = total - Cardinality(subs[u])
    /\ queries' = [queries EXCEPT ![u] = {}]

GraceExpires(u) ==
    /\ u \in timers
    /\ timers' = timers \ {u}
    /\ IF u \in users /\ pushes[u] = {}
       THEN RemoveUser(u)
       ELSE UNCHANGED <<users, watchVars, auto, queries>>
    /\ UNCHANGED pushes

-----------------------------------------------------------------------------
(* checkLimits, which a request that adds nothing skips.                   *)
Within(u, adding) ==
    adding > 0 => /\ Cardinality(subs[u]) + adding <= MaxPerUser
                  /\ total + adding <= MaxTotal

AddWatches(u, S, adding) ==
    /\ subs' = [subs EXCEPT ![u] = @ \cup S]
    /\ watchers' = [s \in Subs |-> IF s \in S THEN watchers[s] \cup {u} ELSE watchers[s]]
    /\ total' = total + adding

(* Slip: what is watched already is counted again.                         *)
CountAll(u, S, again) == Cardinality(S)

(* What watch() counts before it adds: every item of the list that is not  *)
(* watched yet, one that is named again counts again.                      *)
NewCount(u, S, again) ==
    Cardinality(S \ subs[u]) + (IF again \in S \ subs[u] THEN 1 ELSE 0)

Nodes(P) == {"exact"} \X P

(* get, resolve, getChildren and execute watch the nodes they answer with, *)
(* whether or not the user has, or ever had, a connection; over a limit    *)
(* the request fails, with an entry for the user made.                     *)
WatchNodes(u, P, again) ==
    LET adding == NewCount(u, Nodes(P), again) IN
    /\ users' = users \cup {u}
    /\ IF Within(u, adding) THEN AddWatches(u, Nodes(P), adding) ELSE UNCHANGED watchVars
    /\ UNCHANGED <<pushes, auto, timers, queries>>

(* getChildren with watchNew: a query mount's query is registered first.   *)
WatchListing(u, p, a) ==
    LET s == <<"children", p>>
        adding == NewCount(u, {s}, NoPath)
    IN
    /\ queries' = [queries EXCEPT ![u] = @ \cup ({p} \cap QueryMounts)]
    /\ users' = users \cup {u}
    /\ IF Within(u, adding)
       THEN /\ AddWatches(u, {s}, adding)
            /\ auto' = [auto EXCEPT ![u] = IF a THEN @ \cup {p} ELSE @ \ {p}]
       ELSE UNCHANGED <<watchVars, auto>>
    /\ UNCHANGED <<pushes, timers>>

(* unwatch, which does nothing for a user without an entry, and            *)
(* unwatchChildren, which drops the query in any case.                     *)
Unwatch(u, s) ==
    /\ IF u \in users
       THEN /\ subs' = [subs EXCEPT ![u] = @ \ {s}]
            /\ watchers' = [watchers EXCEPT ![s] = @ \ {u}]
            /\ total' = total - Cardinality(subs[u] \cap {s})
       ELSE UNCHANGED watchVars
    /\ IF s[1] = "children"
       THEN /\ auto' = [auto EXCEPT ![u] = @ \ {s[2]}]
            /\ queries' = [queries EXCEPT ![u] = @ \ {s[2]}]
       ELSE UNCHANGED <<auto, queries>>
    /\ UNCHANGED <<users, pushes, timers>>

-----------------------------------------------------------------------------
(* Slip: the users notified as watchers of the node are notified again.    *)
ByListingAgain(p) == watchers[<<"children", Parent[p]>>]

(* notify: the watchers of the node, then those of the listing it is in,   *)
(* then the users it is routed to by an active query that they watch; a    *)
(* user already notified is passed over.  routed[u] is the first query of  *)
(* the user's routes whose listing it watches.                             *)
ByNode(p) == watchers[<<"exact", p>>]
ByListing(p) == watchers[<<"children", Parent[p]>>] \ ByNode(p)
ByQuery(p, routed) ==
    {u \in users : routed[u] # NoPath /\ u \in watchers[<<"children", routed[u]>>]}
        \ (ByNode(p) \cup ByListing(p))

(* How often a connection gets the event.                                  *)
Deliveries(p, routed) ==
    [c \in Conns |->
        IF Owner[c] \in users /\ c \in pushes[Owner[c]]
        THEN Cardinality({stage \in 1..3 :
                Owner[c] \in <<ByNode(p), ByListing(p), ByQuery(p, routed)>>[stage]})
        ELSE 0]

(* The users whose listing is to watch the node from now on, and can.      *)
ToWatch(p, routed) ==
    {u \in ByListing(p) : Parent[p] \in auto[u]}
        \cup {u \in ByQuery(p, routed) : routed[u] \in auto[u]}

(* Slip: automatic watches are not counted against the user's limit.       *)
RoomUnlimited(p, U) == {u \in U : <<"exact", p>> \notin subs[u]}

Room(p, U) ==
    {u \in U : <<"exact", p>> \notin subs[u] /\ Cardinality(subs[u]) < MaxPerUser}

(* Users are taken in turn until the server's limit is reached; A is who   *)
(* came in time.                                                           *)
AutoWatch(p, U, A) ==
    /\ A \subseteq Room(p, U)
    /\ total + Cardinality(A) <= MaxTotal
    /\ A # Room(p, U) => total + Cardinality(A) = MaxTotal
    /\ subs' = [u \in Users |-> IF u \in A THEN subs[u] \cup Nodes({p}) ELSE subs[u]]
    /\ watchers' = [watchers EXCEPT ![<<"exact", p>>] = @ \cup A]
    /\ total' = total + Cardinality(A)

(* matchCdc routes to the users of an active query.                        *)
Routed(routed) == \A u \in Users : routed[u] # NoPath => routed[u] \in queries[u]

Notify(p, routed) ==
    /\ Routed(routed)
    /\ \E A \in SUBSET Users : AutoWatch(p, ToWatch(p, routed), A)
    /\ UNCHANGED <<users, pushes, auto, timers, queries>>

-----------------------------------------------------------------------------
Routes == [Users -> QueryMounts \cup {NoPath}]
Repeats(P) == {NoPath} \cup (IF RepeatedPaths THEN Nodes(P) ELSE {})

Request(u) ==
    \/ \E P \in (SUBSET Paths) \ {{}} : \E again \in Repeats(P) : WatchNodes(u, P, again)
    \/ \E p \in Paths, a \in BOOLEAN : WatchListing(u, p, a)
    \/ \E s \in Subs : Unwatch(u, s)

Next ==
    \/ \E c \in Conns : Connect(c) \/ Disconnect(c)
    \/ \E u \in Users : GraceExpires(u) \/ Request(u)
    \/ \E p \in Paths, routed \in Routes : Notify(p, routed)

Spec == Init /\ [][Next]_vars

-----------------------------------------------------------------------------
TypeOK ==
    /\ users \subseteq Users
    /\ pushes \in [Users -> SUBSET Conns]
    /\ subs \in [Users -> SUBSET Subs]
    /\ auto \in [Users -> SUBSET Paths]
    /\ watchers \in [Subs -> SUBSET Users]
    /\ timers \subseteq Users
    /\ queries \in [Users -> SUBSET QueryMounts]

(* The two indexes list exactly the watches of the users' entries, and a   *)
(* user without an entry has left nothing behind: no connection, no watch, *)
(* no active query.                                                        *)
IndexInv ==
    /\ \A u \in Users, s \in Subs : s \in subs[u] <=> u \in watchers[s]
    /\ \A u \in Users \ users :
        pushes[u] = {} /\ subs[u] = {} /\ queries[u] = {} /\ auto[u] = {}
    /\ \A u \in Users : \A p \in auto[u] : <<"children", p>> \in subs[u]

(* Grace timers run for users without a connection only, so no user is     *)
(* removed while one of its connections is open.                           *)
TimerInv == \A u \in timers : u \in users /\ pushes[u] = {}

(* watch.ts:170: the server-wide counter is the number of watches, whoever *)
(* subscribes, unsubscribes, is forgotten or is subscribed automatically.  *)
AllWatches == {w \in Users \X Subs : w[2] \in subs[w[1]]}
TotalInv == total = Cardinality(AllWatches)

(* watch.ts:72: neither limit is ever exceeded, by requests or by notify.  *)
LimitInv ==
    /\ \A u \in Users : Cardinality(subs[u]) <= MaxPerUser
    /\ total <= MaxTotal

(* A user whose last connection goes is forgotten after the grace period,  *)
(* unless one comes back: the period starts with that disconnect, however  *)
(* many connections there were, and it ends.                               *)
GraceStarts ==
    [][\A u \in Users : pushes[u] # {} /\ pushes'[u] = {} => u \in timers']_vars
IdleUsersForgotten ==
    /\ GraceStarts
    /\ \A u \in Users : u \in timers ~> u \notin users \/ pushes[u] # {}
=============================================================================
