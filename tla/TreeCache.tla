----------------------------- MODULE TreeCache ------------------------------
(***************************************************************************)
(* withCache of core/src/tree/cache.ts: a bounded FIFO cache of nodes in   *)
(* front of a tree, filled on reads and writes, with de-duplicated reads   *)
(* and an epoch that every invalidation advances.                          *)
(*                                                                         *)
(* An operation is a request in progress; each await of the code separates *)
(* two of its steps.  The tree behind the cache is also written by others  *)
(* (an external process behind a mount), whose writes reach the cache as   *)
(* invalidations, later.  A node is reduced to a version number, which     *)
(* stands for its content and its $rev.                                    *)
(***************************************************************************)
EXTENDS Naturals, FiniteSets, Sequences, SequencesExt

CONSTANTS
    Ops,            \* requests; each is made at most once
    OpKinds,        \* the operations in use, of the five below
    Paths,
    Capacity,       \* capacity of the cache
    MaxExternal,    \* bound: how often the tree is written from outside
    NoOp

AllKinds == {"get", "list", "set", "patch", "remove"}

ASSUME CacheAssumption ==
    /\ Capacity \in Nat \ {0} /\ MaxExternal \in Nat
    /\ OpKinds \subseteq AllKinds
    /\ NoOp \notin Ops

VARIABLES
    store,      \* store[p]: [ver, live], the tree behind the cache
    cache,      \* cache[p]: the cached version, or Missing
    order,      \* the cached paths, oldest entry first
    epoch,      \* invalidateEpoch
    req,        \* req[o]: what request o asked for, and its answer
    at,         \* at[o]: the await at which request o is
    since,      \* since[o]: the epoch request o started in
    read,       \* read[o]: what the inner tree answered request o
    todo,       \* todo[o]: the entries a list has still to put into the cache
    changed,    \* paths written from outside and not yet invalidated
    external,   \* how often the tree was written from outside
    fresh,      \* fresh[p]: what the tree held when p was last invalidated
    acked       \* acked[p]: what the last set of p to finish left in the cache

cacheVars == <<cache, order, epoch>>
treeVars == <<store, changed, external>>
seenVars == <<fresh, acked>>
vars == <<store, cache, order, epoch, req, at, since, read, todo,
          changed, external, fresh, acked>>

Missing == 0
Node == [ver : Nat, live : BOOLEAN]
Snapshot == [Paths -> Node]
At == {"idle", "reading", "filling", "joined", "writing", "rereading",
       "caching", "removing", "invalidating", "done"}

NoRev == 0      \* set() of a node that carries no $rev
Idle == [kind |-> "get", path |-> NoOp, rev |-> NoRev, leader |-> NoOp,
         freshAtStart |-> 0, ackedAtStart |-> 0, result |-> 0, found |-> FALSE]

Init ==
    /\ store = [p \in Paths |-> [ver |-> 1, live |-> TRUE]]
    /\ cache = [p \in Paths |-> Missing]
    /\ order = <<>>
    /\ epoch = 0
    /\ req = [o \in Ops |-> Idle]
    /\ at = [o \in Ops |-> "idle"]
    /\ since = [o \in Ops |-> 0]
    /\ read = [o \in Ops |-> store]
    /\ todo = [o \in Ops |-> {}]
    /\ changed = {}
    /\ external = 0
    /\ fresh = [p \in Paths |-> 0]
    /\ acked = [p \in Paths |-> 0]

-----------------------------------------------------------------------------
(* The bounded cache: replacing an entry makes it the newest, a new entry  *)
(* in a full cache evicts the oldest one.  No path is listed twice.        *)
Without(p) == RemoveFirst(order, p)

(* Slip: eviction starts one entry too late.                               *)
CacheSetOffByOne(p, v) ==
    LET evict == cache[p] = Missing /\ Len(order) > Capacity IN
    /\ order' = Append(IF evict THEN Tail(order) ELSE Without(p), p)
    /\ cache' = [q \in Paths |-> IF q = p THEN v
                                 ELSE IF evict /\ q = Head(order) THEN Missing
                                 ELSE cache[q]]

CacheSet(p, v) ==
    LET evict == cache[p] = Missing /\ Len(order) >= Capacity IN
    /\ order' = Append(IF evict THEN Tail(order) ELSE Without(p), p)
    /\ cache' = [q \in Paths |-> IF q = p THEN v
                                 ELSE IF evict /\ q = Head(order) THEN Missing
                                 ELSE cache[q]]

CacheDelete(p) ==
    /\ cache' = [q \in Paths |-> IF q = p THEN Missing ELSE cache[q]]
    /\ order' = Without(p)

CacheClear ==
    /\ cache' = [q \in Paths |-> Missing]
    /\ order' = <<>>

(* Slip: the entry goes, but reads in flight are not told.                 *)
EpochKept(S) ==
    /\ UNCHANGED epoch
    /\ fresh' = [q \in Paths |-> IF q \in S THEN store[q].ver ELSE fresh[q]]

(* The epoch advances; fresh only records the moment for these paths.      *)
NextEpoch(S) ==
    /\ epoch' = epoch + 1
    /\ fresh' = [q \in Paths |-> IF q \in S THEN store[q].ver ELSE fresh[q]]

Invalidate(p) == CacheDelete(p) /\ NextEpoch({p})
InvalidateAll == CacheClear /\ NextEpoch(Paths)

Goto(o, await) == at' = [at EXCEPT ![o] = await]

-----------------------------------------------------------------------------
(* Slip: reads in flight are keyed by the path without the epoch.          *)
InFlightAnyEpoch(p) ==
    {l \in Ops : /\ req[l].kind \in {"get", "patch"} /\ req[l].path = p
                 /\ at[l] \in {"reading", "filling"}}

(* get(path): a hit answers at once; a miss joins the read in flight for   *)
(* the same path and epoch, or starts one.  patch(path) begins with a get. *)
InFlight(p) ==
    {l \in Ops : /\ req[l].kind \in {"get", "patch"} /\ req[l].path = p
                 /\ at[l] \in {"reading", "filling"} /\ since[l] = epoch}

(* What a request does with the node its get returned: get() returns it,   *)
(* patch() applies its ops to it and sets the result, which carries the    *)
(* node's revision.                                                        *)
Return(o, r, ver, live) ==
    IF r.kind = "patch" /\ live
    THEN /\ req' = [req EXCEPT ![o] = [r EXCEPT !.result = ver, !.found = live, !.rev = ver]]
         /\ Goto(o, "writing")
    ELSE /\ req' = [req EXCEPT ![o] = [r EXCEPT !.result = ver, !.found = live]]
         /\ Goto(o, "done")

GetRequest(k, p) ==
    [Idle EXCEPT !.kind = k, !.path = p,
                 !.freshAtStart = fresh[p], !.ackedAtStart = acked[p]]

GetHit(o, k, p) ==
    /\ at[o] = "idle" /\ cache[p] # Missing
    /\ Return(o, GetRequest(k, p), cache[p], TRUE)
    /\ UNCHANGED <<cacheVars, since, read, todo, treeVars, seenVars>>

GetJoin(o, k, p) ==
    /\ at[o] = "idle" /\ cache[p] = Missing
    /\ \E l \in InFlight(p) :
        req' = [req EXCEPT ![o] = [GetRequest(k, p) EXCEPT !.leader = l]]
    /\ Goto(o, "joined")
    /\ UNCHANGED <<cacheVars, since, read, todo, treeVars, seenVars>>

(* Slip: a miss reads although the same read is in flight.                 *)
GetMissAlways(o, k, p) ==
    /\ at[o] = "idle" /\ cache[p] = Missing
    /\ req' = [req EXCEPT ![o] = GetRequest(k, p)]
    /\ Goto(o, "reading")
    /\ since' = [since EXCEPT ![o] = epoch]
    /\ UNCHANGED <<cacheVars, read, todo, treeVars, seenVars>>

GetMiss(o, k, p) ==
    /\ at[o] = "idle" /\ cache[p] = Missing
    /\ InFlight(p) = {}
    /\ req' = [req EXCEPT ![o] = GetRequest(k, p)]
    /\ Goto(o, "reading")
    /\ since' = [since EXCEPT ![o] = epoch]
    /\ UNCHANGED <<cacheVars, read, todo, treeVars, seenVars>>

(* The inner tree answers a read.                                          *)
InnerRead(o) ==
    /\ at[o] = "reading"
    /\ read' = [read EXCEPT ![o] = store]
    /\ Goto(o, "filling")
    /\ UNCHANGED <<cacheVars, req, since, todo, treeVars, seenVars>>

(* Slip: the answer is cached whatever was invalidated meanwhile.          *)
FillAlways(o, p) ==
    IF read[o][p].live THEN CacheSet(p, read[o][p].ver) ELSE UNCHANGED <<cache, order>>

(* An answer enters the cache unless something was invalidated since the   *)
(* request started.                                                        *)
Fill(o, p) ==
    IF read[o][p].live /\ since[o] = epoch
    THEN CacheSet(p, read[o][p].ver)
    ELSE UNCHANGED <<cache, order>>

GetFill(o, p) ==
    /\ at[o] = "filling" /\ req[o].kind \in {"get", "patch"} /\ req[o].path = p
    /\ Fill(o, p)
    /\ Return(o, req[o], read[o][p].ver, read[o][p].live)
    /\ UNCHANGED <<epoch, since, read, todo, treeVars, seenVars>>

(* A joined request gets the leader's answer.                              *)
JoinReturn(o, l) ==
    /\ at[o] = "joined" /\ req[o].leader = l
    /\ at[l] \notin {"reading", "filling"}
    /\ Return(o, req[o], req[l].result, req[l].found)
    /\ UNCHANGED <<cacheVars, since, read, todo, treeVars, seenVars>>

(* getChildren and scanChildren of the parent of all paths: no lookup, no  *)
(* de-duplication, and the entries fill the cache under the epoch of the   *)
(* start.  Fills are single steps, as in a scan; getChildren is the case   *)
(* in which nothing comes between them.                                    *)
ListStart(o) ==
    /\ "list" \in OpKinds /\ at[o] = "idle"
    /\ req' = [req EXCEPT ![o].kind = "list"]
    /\ Goto(o, "reading")
    /\ since' = [since EXCEPT ![o] = epoch]
    /\ todo' = [todo EXCEPT ![o] = Paths]
    /\ UNCHANGED <<cacheVars, read, treeVars, seenVars>>

ListFill(o, p) ==
    /\ at[o] = "filling" /\ req[o].kind = "list" /\ p \in todo[o]
    /\ Fill(o, p)
    /\ todo' = [todo EXCEPT ![o] = @ \ {p}]
    /\ Goto(o, IF todo[o] = {p} THEN "done" ELSE "filling")
    /\ UNCHANGED <<epoch, req, since, read, treeVars, seenVars>>

(* set(node), here of a node without $rev: the inner set, a read back, and *)
(* the cache takes what was read.  The epoch is neither checked nor        *)
(* advanced.                                                               *)
SetStart(o, p) ==
    /\ "set" \in OpKinds /\ at[o] = "idle"
    /\ req' = [req EXCEPT ![o].kind = "set", ![o].path = p]
    /\ Goto(o, "writing")
    /\ UNCHANGED <<cacheVars, since, read, todo, treeVars, seenVars>>

(* A carried revision must be the stored one (CONFLICT otherwise).         *)
RevAccepted(rev, n) == rev = NoRev \/ (n.live /\ rev = n.ver)

WriteNode(p) == store' = [store EXCEPT ![p] = [ver |-> @.ver + 1, live |-> TRUE]]

InnerSet(o, p) ==
    /\ at[o] = "writing" /\ req[o].path = p
    /\ IF RevAccepted(req[o].rev, store[p])
       THEN WriteNode(p) /\ Goto(o, "rereading")
       ELSE UNCHANGED store /\ Goto(o, "done")
    /\ UNCHANGED <<cacheVars, req, since, read, todo, changed, external, seenVars>>

ReRead(o) ==
    /\ at[o] = "rereading"
    /\ read' = [read EXCEPT ![o] = store]
    /\ Goto(o, "caching")
    /\ UNCHANGED <<cacheVars, req, since, todo, treeVars, seenVars>>

CachePut(o, p) ==
    /\ at[o] = "caching" /\ req[o].path = p
    /\ IF read[o][p].live
       THEN /\ CacheSet(p, read[o][p].ver)
            /\ acked' = [acked EXCEPT ![p] = read[o][p].ver]
       ELSE UNCHANGED <<cache, order, acked>>
    /\ Goto(o, "done")
    /\ UNCHANGED <<epoch, req, since, read, todo, treeVars, fresh>>

(* remove(path): the inner remove, then an invalidation.                   *)
RemoveStart(o, p) ==
    /\ "remove" \in OpKinds /\ at[o] = "idle"
    /\ req' = [req EXCEPT ![o].kind = "remove", ![o].path = p]
    /\ Goto(o, "removing")
    /\ UNCHANGED <<cacheVars, since, read, todo, treeVars, seenVars>>

RemoveNode(p) ==
    store' = [store EXCEPT ![p] =
                IF @.live THEN [ver |-> @.ver + 1, live |-> FALSE] ELSE @]

InnerRemove(o, p) ==
    /\ at[o] = "removing" /\ req[o].path = p
    /\ RemoveNode(p)
    /\ Goto(o, "invalidating")
    /\ UNCHANGED <<cacheVars, req, since, read, todo, changed, external, seenVars>>

RemoveInvalidate(o, p) ==
    /\ at[o] = "invalidating" /\ req[o].path = p
    /\ Invalidate(p)
    /\ Goto(o, "done")
    /\ UNCHANGED <<req, since, read, todo, treeVars, acked>>

-----------------------------------------------------------------------------
(* Somebody else writes or removes a node of the inner tree ...            *)
ExternalWrite(p) ==
    /\ external < MaxExternal
    /\ external' = external + 1
    /\ RemoveNode(p) \/ WriteNode(p)
    /\ changed' = changed \cup {p}
    /\ UNCHANGED <<cacheVars, req, at, since, read, todo, seenVars>>

(* ... whose watch event invalidates the path before it is passed on, ...  *)
WatchEvent(p) ==
    /\ p \in changed
    /\ Invalidate(p)
    /\ changed' = changed \ {p}
    /\ UNCHANGED <<req, at, since, read, todo, store, external, acked>>

(* ... or, when the stream had a gap, its reconnect invalidates everything.*)
WatchReconnect ==
    /\ changed # {}
    /\ InvalidateAll
    /\ changed' = {}
    /\ UNCHANGED <<req, at, since, read, todo, store, external, acked>>

-----------------------------------------------------------------------------
StartGet(o, p) ==
    \E k \in OpKinds \cap {"get", "patch"} :
        GetHit(o, k, p) \/ GetJoin(o, k, p) \/ GetMiss(o, k, p)

PathNext(o, p) ==
    \/ StartGet(o, p) \/ SetStart(o, p) \/ RemoveStart(o, p)
    \/ GetFill(o, p) \/ ListFill(o, p)
    \/ InnerSet(o, p) \/ CachePut(o, p)
    \/ InnerRemove(o, p) \/ RemoveInvalidate(o, p)

Next ==
    \/ \E o \in Ops, p \in Paths : PathNext(o, p)
    \/ \E o \in Ops : ListStart(o) \/ InnerRead(o) \/ ReRead(o)
    \/ \E o, l \in Ops : JoinReturn(o, l)
    \/ \E p \in Paths : ExternalWrite(p) \/ WatchEvent(p)
    \/ WatchReconnect

Spec == Init /\ [][Next]_vars

-----------------------------------------------------------------------------
(* bounded-cache.ts: the cache holds at most Capacity entries, and the   *)
(* FIFO list and the entries are the same set without repetitions.         *)
CacheShape ==
    /\ Len(order) <= Capacity
    /\ IsInjective(order)
    /\ ToSet(order) = {p \in Paths : cache[p] # Missing}

(* cache.ts:25: a read that was in flight when its path was invalidated    *)
(* does not bring the old node back: what a get or a list puts into the    *)
(* cache is never older than the last invalidation of that path.           *)
FillsRespectInvalidation ==
    [][\A o \in Ops, p \in Paths :
        /\ at[o] = "filling" /\ <<at'[o], todo'[o]>> # <<at[o], todo[o]>>
        /\ cache'[p] \notin {cache[p], Missing}
        => cache'[p] >= fresh[p]]_vars

(* cache.ts:37: requests that miss share one inner read, per path and      *)
(* epoch; one that starts after an invalidation never joins an older read. *)
OneInnerRead ==
    \A p \in Paths : Cardinality(InFlight(p)) <= 1

(* A get answers with nothing older than the last invalidation of the path *)
(* before it was asked, whether it hits, joins or reads - of a path that   *)
(* nobody sets through the cache: a set takes no notice of invalidations.  *)
NeverSet(p) == \A o \in Ops : req[o].path = p => req[o].kind \notin {"set", "patch"}
Answered(o) == req[o].kind = "get" /\ at[o] = "done"
GetsAreFresh ==
    \A o \in Ops :
        Answered(o) /\ NeverSet(req[o].path) => req[o].result >= req[o].freshAtStart

(* cache.test.ts:72, "set populates cache - next get returns fresh": a get *)
(* answers with nothing older than what a set of the path that had         *)
(* finished before left in the cache.                                      *)
SetsAreVisible ==
    \A o \in Ops : Answered(o) => req[o].result >= req[o].ackedAtStart

(* When nothing is in progress and every outside write was announced, what *)
(* is cached is what is stored, again of paths that nobody sets.           *)
Settled == changed = {} /\ \A o \in Ops : at[o] \in {"idle", "done"}
CacheAgrees ==
    Settled => \A p \in Paths :
        cache[p] # Missing /\ NeverSet(p) => store[p].live /\ cache[p] = store[p].ver
=============================================================================
