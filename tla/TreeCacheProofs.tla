--------------------------- MODULE TreeCacheProofs --------------------------
(***************************************************************************)
(* The epoch of withCache does its work, for any number of requests and    *)
(* paths: what a get or a list puts into the cache is never older than the *)
(* last invalidation of the path.  From it follow, in the second half,     *)
(* what gets answer, that reads are shared, and that the cache agrees with *)
(* the tree at rest.  At the end, the bound and the eviction order.        *)
(*                                                                         *)
(* A request that holds an answer of the current epoch read it after the   *)
(* last invalidation (HeldFresh).  That is inductive with two facts: no    *)
(* request is ahead of the epoch (Behind), so an invalidation makes every  *)
(* answer held stale at once; and the tree only moves forward (StoreAhead).*)
(***************************************************************************)
EXTENDS TreeCache, FiniteSetTheorems, SequenceTheorems, TLAPS

USE CacheAssumption

Types ==
    /\ store \in Snapshot
    /\ epoch \in Nat
    /\ at \in [Ops -> At]
    /\ since \in [Ops -> Nat]
    /\ read \in [Ops -> Snapshot]
    /\ todo \in [Ops -> SUBSET Paths]
    /\ fresh \in [Paths -> Nat]

Behind == \A o \in Ops : since[o] <= epoch

StoreAhead == \A p \in Paths : fresh[p] <= store[p].ver

HeldFresh ==
    \A o \in Ops : at[o] = "filling" /\ since[o] = epoch
        => \A p \in Paths : fresh[p] <= read[o][p].ver

EpochInv == Types /\ Behind /\ StoreAhead /\ HeldFresh

LEMMA InitEpochInv == Init => EpochInv
BY DEF Init, EpochInv, Types, Behind, StoreAhead, HeldFresh, Snapshot, Node, At

(* Steps of one request that neither answer it nor touch tree and epoch.   *)
LEMMA QuietStep ==
    ASSUME EpochInv, NEW o \in Ops, NEW a \in At \ {"filling"}, Goto(o, a),
           UNCHANGED <<store, epoch, fresh, since, read, todo>>
    PROVE  EpochInv'
BY DEF EpochInv, Types, Behind, StoreAhead, HeldFresh, Goto

(* A request starts to read in the current epoch.                          *)
LEMMA StartStep ==
    ASSUME EpochInv, NEW o \in Ops, Goto(o, "reading"),
           since' = [since EXCEPT ![o] = epoch],
           UNCHANGED <<store, epoch, fresh, read>>,
           todo' \in [Ops -> SUBSET Paths]
    PROVE  EpochInv'
<1> USE DEF EpochInv, Types, Goto
<1>1. Types'
    BY DEF At
<1>2. Behind' /\ StoreAhead'
    BY DEF Behind, StoreAhead
<1>3. HeldFresh'
    BY DEF HeldFresh
<1> QED
    BY <1>1, <1>2, <1>3

(* The inner tree answers: the answer is the tree of this moment.          *)
LEMMA AnswerStep ==
    ASSUME EpochInv, NEW o \in Ops, NEW a \in At, Goto(o, a),
           read' = [read EXCEPT ![o] = store],
           UNCHANGED <<store, epoch, fresh, since, todo>>
    PROVE  EpochInv'
BY DEF EpochInv, Types, Behind, StoreAhead, HeldFresh, Goto, At

(* The tree is written: it moves forward, and no request gains an answer.  *)
LEMMA StoreStep ==
    ASSUME EpochInv,
           store' \in Snapshot, \A p \in Paths : store[p].ver <= store'[p].ver,
           UNCHANGED <<epoch, fresh, since, read, todo>>,
           at' \in [Ops -> At],
           \A o \in Ops : at'[o] = "filling" => at[o] = "filling"
    PROVE  EpochInv'
<1> USE DEF EpochInv, Types
<1>1. Types' /\ Behind' /\ HeldFresh'
    BY DEF Behind, HeldFresh
<1>2. StoreAhead'
    BY DEF StoreAhead, Snapshot, Node
<1> QED
    BY <1>1, <1>2

(* An invalidation leaves every answer in flight behind the epoch.         *)
LEMMA InvalidateStep ==
    ASSUME EpochInv, NEW S, NextEpoch(S),
           UNCHANGED <<store, since, read, todo>>,
           at' \in [Ops -> At]
    PROVE  EpochInv'
<1> USE DEF EpochInv, Types, NextEpoch
<1>1. Types' /\ StoreAhead'
    BY DEF StoreAhead, Snapshot, Node
<1>2. Behind' /\ HeldFresh'
    BY DEF Behind, HeldFresh
<1> QED
    BY <1>1, <1>2

(* Both ways of writing a node move it forward.                            *)
LEMMA WritesMoveForward ==
    ASSUME store \in Snapshot, NEW p \in Paths, WriteNode(p) \/ RemoveNode(p)
    PROVE  store' \in Snapshot /\ \A q \in Paths : store[q].ver <= store'[q].ver
<1>1. CASE WriteNode(p)
    BY <1>1 DEF WriteNode, Snapshot, Node
<1>2. CASE RemoveNode(p)
    <2>1. CASE store[p].live
        BY <1>2, <2>1 DEF RemoveNode, Snapshot, Node
    <2>2. CASE ~store[p].live
        BY <1>2, <2>2 DEF RemoveNode, Snapshot, Node
    <2> QED
        BY <2>1, <2>2
<1> QED
    BY <1>1, <1>2

(* A request that got its node goes on to write or is done.                *)
LEMMA ReturnGoes ==
    ASSUME NEW o \in Ops, NEW r, NEW v, NEW found, Return(o, r, v, found)
    PROVE  \E a \in At \ {"filling"} : Goto(o, a)
BY DEF Return, At

LEMMA NextEpochInv == EpochInv /\ [Next]_vars => EpochInv'
<1> SUFFICES ASSUME EpochInv, [Next]_vars PROVE EpochInv'
    OBVIOUS
<1> USE DEF cacheVars, treeVars, seenVars
<1>1. ASSUME NEW o \in Ops, NEW p \in Paths, NEW k,
             GetHit(o, k, p) \/ GetJoin(o, k, p) \/ GetMiss(o, k, p)
      PROVE  EpochInv'
    <2>1. CASE GetHit(o, k, p)
        BY <2>1, ReturnGoes, QuietStep DEF GetHit
    <2>2. CASE GetJoin(o, k, p)
        BY <2>2, QuietStep DEF GetJoin, At
    <2>3. CASE GetMiss(o, k, p)
        BY <2>3, StartStep DEF GetMiss, EpochInv, Types
    <2> QED
        BY <1>1, <2>1, <2>2, <2>3
<1>2. ASSUME NEW o \in Ops, NEW p \in Paths, SetStart(o, p) \/ RemoveStart(o, p)
      PROVE  EpochInv'
    BY <1>2, QuietStep DEF SetStart, RemoveStart, At
<1>3. ASSUME NEW o \in Ops, NEW p \in Paths, GetFill(o, p)
      PROVE  EpochInv'
    BY <1>3, ReturnGoes, QuietStep DEF GetFill
<1>4. ASSUME NEW o \in Ops, NEW p \in Paths, ListFill(o, p)
      PROVE  EpochInv'
    BY <1>4 DEF ListFill, EpochInv, Types, Behind, StoreAhead, HeldFresh, Goto, At
<1>5. ASSUME NEW o \in Ops, NEW p \in Paths, InnerSet(o, p)
      PROVE  EpochInv'
    <2>1. CASE WriteNode(p)
        BY <1>5, <2>1, WritesMoveForward, StoreStep DEF InnerSet, Goto, EpochInv, Types, At
    <2>2. CASE UNCHANGED store
        BY <1>5, <2>2, QuietStep DEF InnerSet, At
    <2> QED
        BY <1>5, <2>1, <2>2 DEF InnerSet
<1>6. ASSUME NEW o \in Ops, NEW p \in Paths, CachePut(o, p)
      PROVE  EpochInv'
    BY <1>6, QuietStep DEF CachePut, At
<1>7. ASSUME NEW o \in Ops, NEW p \in Paths, InnerRemove(o, p)
      PROVE  EpochInv'
    BY <1>7, WritesMoveForward, StoreStep DEF InnerRemove, Goto, EpochInv, Types, At
<1>8. ASSUME NEW o \in Ops, NEW p \in Paths, RemoveInvalidate(o, p)
      PROVE  EpochInv'
    <2>1. NextEpoch({p}) /\ at' \in [Ops -> At]
        BY <1>8 DEF RemoveInvalidate, Invalidate, Goto, EpochInv, Types, At
    <2> QED
        BY <1>8, <2>1, InvalidateStep DEF RemoveInvalidate
<1>9. ASSUME NEW o \in Ops, ListStart(o)
      PROVE  EpochInv'
    BY <1>9, StartStep DEF ListStart, EpochInv, Types
<1>10. ASSUME NEW o \in Ops, InnerRead(o) \/ ReRead(o)
       PROVE  EpochInv'
    BY <1>10, AnswerStep DEF InnerRead, ReRead, At
<1>11. ASSUME NEW o \in Ops, NEW l \in Ops, JoinReturn(o, l)
       PROVE  EpochInv'
    BY <1>11, ReturnGoes, QuietStep DEF JoinReturn
<1>12. ASSUME NEW p \in Paths, ExternalWrite(p)
       PROVE  EpochInv'
    BY <1>12, WritesMoveForward, StoreStep DEF ExternalWrite, EpochInv, Types
<1>13. ASSUME NEW S, NextEpoch(S), UNCHANGED <<store, since, read, todo, at>>
       PROVE  EpochInv'
    BY <1>13, InvalidateStep DEF EpochInv, Types
<1>14. CASE UNCHANGED vars
    BY <1>14 DEF vars, EpochInv, Types, Behind, StoreAhead, HeldFresh
<1> QED
    BY <1>1, <1>2, <1>3, <1>4, <1>5, <1>6, <1>7, <1>8, <1>9, <1>10, <1>11, <1>12,
       <1>13, <1>14
    DEF Next, PathNext, StartGet, WatchEvent, WatchReconnect, Invalidate, InvalidateAll

(* One fill changes the entry of its own path only, to what was read, and  *)
(* at most drops another.                                                  *)
LEMMA FillSetsOne ==
    ASSUME NEW o \in Ops, NEW p \in Paths, Fill(o, p), NEW q \in Paths,
           cache'[q] \notin {cache[q], Missing}
    PROVE  /\ q = p /\ cache'[q] = read[o][p].ver
           /\ since[o] = epoch
BY DEF Fill, CacheSet

LEMMA StepFillsFresh ==
    ASSUME EpochInv, Next, NEW o \in Ops, NEW p \in Paths,
           at[o] = "filling", <<at'[o], todo'[o]>> # <<at[o], todo[o]>>,
           cache'[p] \notin {cache[p], Missing}
    PROVE  cache'[p] >= fresh[p]
<1> USE DEF cacheVars, treeVars, seenVars, Goto
<1>1. \E q \in Paths : GetFill(o, q) \/ ListFill(o, q)
    <2>1. ASSUME NEW x \in Ops, NEW q \in Paths, PathNext(x, q),
                 ~(GetFill(o, q) \/ ListFill(o, q))
          PROVE  FALSE
        <3>1. ASSUME NEW k, GetHit(x, k, q) \/ GetJoin(x, k, q) \/ GetMiss(x, k, q)
              PROVE  FALSE
            BY <3>1 DEF GetHit, GetJoin, GetMiss, Return, EpochInv, Types
        <3>2. CASE SetStart(x, q) \/ RemoveStart(x, q)
            BY <3>2 DEF SetStart, RemoveStart, EpochInv, Types
        <3>3. CASE GetFill(x, q) \/ ListFill(x, q)
            BY <3>3, <2>1 DEF GetFill, ListFill, Return, EpochInv, Types
        <3>4. CASE InnerSet(x, q) \/ CachePut(x, q)
            BY <3>4 DEF InnerSet, CachePut, EpochInv, Types
        <3>5. CASE InnerRemove(x, q) \/ RemoveInvalidate(x, q)
            BY <3>5 DEF InnerRemove, RemoveInvalidate, EpochInv, Types
        <3> QED
            BY <2>1, <3>1, <3>2, <3>3, <3>4, <3>5 DEF PathNext, StartGet
    <2>2. ASSUME NEW x \in Ops, ListStart(x) \/ InnerRead(x) \/ ReRead(x)
          PROVE  FALSE
        BY <2>2 DEF ListStart, InnerRead, ReRead
    <2>3. ASSUME NEW x \in Ops, NEW l \in Ops, JoinReturn(x, l)
          PROVE  FALSE
        BY <2>3 DEF JoinReturn
    <2>4. ASSUME NEW q \in Paths, ExternalWrite(q)
          PROVE  FALSE
        BY <2>4 DEF ExternalWrite
    <2>5. CASE WatchReconnect \/ \E q \in Paths : WatchEvent(q)
        BY <2>5 DEF WatchEvent, WatchReconnect
    <2> QED
        BY <2>1, <2>2, <2>3, <2>4, <2>5 DEF Next
<1>2. PICK q \in Paths : GetFill(o, q) \/ ListFill(o, q)
    BY <1>1
<1>3. Fill(o, q)
    BY <1>2 DEF GetFill, ListFill
<1>4. q = p /\ cache'[p] = read[o][p].ver /\ since[o] = epoch
    BY <1>3, FillSetsOne
<1>5. fresh[p] <= read[o][p].ver
    BY <1>4 DEF EpochInv, HeldFresh
<1>6. fresh[p] \in Nat /\ read[o][p].ver \in Nat
    BY DEF EpochInv, Types, Snapshot, Node
<1> QED
    BY <1>4, <1>5, <1>6

(* cache.ts:25: in every behaviour, an answer held under the current epoch *)
(* was read after the last invalidation.                                   *)
THEOREM EpochInvariance == Spec => []EpochInv
BY InitEpochInv, NextEpochInv, PTL DEF Spec

(* cache.ts:33-63: no get and no list brings back a node that was          *)
(* invalidated while it was in flight.                                     *)
THEOREM NoStaleFill == Spec => FillsRespectInvalidation
<1> DEFINE FreshFill ==
        \A o \in Ops, p \in Paths :
            /\ at[o] = "filling" /\ <<at'[o], todo'[o]>> # <<at[o], todo[o]>>
            /\ cache'[p] \notin {cache[p], Missing}
            => cache'[p] >= fresh[p]
<1>1. EpochInv /\ [Next]_vars => [FreshFill]_vars
    BY StepFillsFresh
<1> QED
    BY <1>1, EpochInvariance, PTL DEF Spec, FillsRespectInvalidation

-----------------------------------------------------------------------------
\* What gets answer, and what is cached at rest

Requests ==
    [kind : AllKinds, path : Paths \cup {NoOp}, rev : Nat, leader : Ops \cup {NoOp},
     freshAtStart : Nat, ackedAtStart : Nat, result : Nat, found : BOOLEAN]

Asks(o) == req[o].kind \in {"get", "patch"}

(* Where a request is tells what it is.                                    *)
RequestTypes ==
    /\ req \in [Ops -> Requests] /\ cache \in [Paths -> Nat] /\ acked \in [Paths -> Nat]
    /\ \A o \in Ops :
        /\ at[o] = "idle" => req[o] = Idle
        /\ at[o] \in {"writing", "rereading", "caching"} => req[o].kind \in {"set", "patch"}
        /\ at[o] \in {"removing", "invalidating"} => req[o].kind = "remove"
        /\ at[o] = "joined" => Asks(o)
        /\ Asks(o) /\ at[o] # "idle" => req[o].path \in Paths

(* Invalidations only move fresh on, so what was fresh when a get started  *)
(* is no newer than what it reads; nor is it for those who joined it.      *)
ReadsFresh ==
    \A o \in Ops : Asks(o) /\ at[o] # "idle" =>
        /\ req[o].freshAtStart <= fresh[req[o].path]
        /\ at[o] = "filling" => req[o].freshAtStart <= read[o][req[o].path].ver

JoinsFresh ==
    \A o \in Ops : at[o] = "joined" =>
        \E l \in Ops :
            /\ l = req[o].leader /\ Asks(l) /\ req[l].path = req[o].path
            /\ at[l] \notin {"idle", "joined"}
            /\ at[l] = "filling" => req[o].freshAtStart <= read[l][req[l].path].ver
            /\ at[l] \notin {"reading", "filling"} => req[o].freshAtStart <= req[l].result

CacheFresh == \A p \in Paths : cache[p] # Missing /\ NeverSet(p) => fresh[p] <= cache[p]

OneReader == \A p \in Paths : \A l, m \in InFlight(p) : l = m

(* The path is neither set nor about to be invalidated: what is cached, or *)
(* held for the cache, is what is stored.                                  *)
Sure(p) ==
    /\ NeverSet(p) /\ p \notin changed
    /\ \A o \in Ops : at[o] = "invalidating" => req[o].path # p

Current ==
    \A p \in Paths : Sure(p) =>
        /\ cache[p] # Missing => store[p].live /\ cache[p] = store[p].ver
        /\ \A o \in Ops : at[o] = "filling" /\ since[o] = epoch /\ read[o][p].live
                            => read[o][p] = store[p]

CacheInv ==
    /\ EpochInv /\ RequestTypes /\ ReadsFresh /\ JoinsFresh /\ CacheFresh
    /\ OneReader /\ Current /\ GetsAreFresh

(* No request changes what it asks for once it has begun.                  *)
SameAsks ==
    \A o \in Ops : at[o] # "idle" => req'[o].kind = req[o].kind /\ req'[o].path = req[o].path

LEMMA NeverSetBefore ==
    ASSUME RequestTypes, SameAsks, NEW p \in Paths, NeverSet(p)'
    PROVE  NeverSet(p)
BY DEF RequestTypes, SameAsks, NeverSet, Idle

(* What the conjuncts about requests say of those that do not move.        *)
Keeps(o, r, a) ==
    /\ req' = [req EXCEPT ![o] = r]
    /\ at' = [at EXCEPT ![o] = a]

LEMMA Moved ==
    ASSUME CacheInv, NEW o \in Ops, NEW r \in Requests, NEW a \in At, Keeps(o, r, a)
    PROVE  /\ req'[o] = r /\ at'[o] = a
           /\ \A x \in Ops \ {o} : req'[x] = req[x] /\ at'[x] = at[x]
           /\ req' \in [Ops -> Requests] /\ at' \in [Ops -> At]
BY DEF CacheInv, EpochInv, Types, RequestTypes, Keeps

(* A request begins.                                                       *)
LEMMA BeginKeeps ==
    ASSUME CacheInv, EpochInv', NEW o \in Ops, NEW r \in Requests, NEW a \in At, Keeps(o, r, a),
           at[o] = "idle", a \in {"reading", "joined", "writing", "removing", "done"},
           UNCHANGED <<cacheVars, read, treeVars, seenVars>>,
           \A x \in Ops \ {o} : since'[x] = since[x],
           a = "writing" => r.kind \in {"set", "patch"},
           a = "removing" => r.kind = "remove",
           r.kind \in {"get", "patch"} => r.path \in Paths /\ r.freshAtStart = fresh[r.path],
           a = "joined" => r.kind \in {"get", "patch"} /\ r.leader \in InFlight(r.path),
           r.kind \in {"get", "patch"} /\ a = "reading" => InFlight(r.path) = {},
           r.kind = "get" /\ a = "done" => /\ cache[r.path] # Missing
                                           /\ r.result = cache[r.path]
    PROVE  CacheInv'
<1> USE DEF CacheInv, cacheVars, treeVars, seenVars
<1>1. /\ req'[o] = r /\ at'[o] = a
      /\ \A x \in Ops \ {o} : req'[x] = req[x] /\ at'[x] = at[x]
      /\ req' \in [Ops -> Requests] /\ at' \in [Ops -> At]
    BY Moved
<1>2. req[o] = Idle /\ Idle.kind = "get"
    BY DEF RequestTypes, Idle
<1>3. RequestTypes'
    BY <1>1 DEF RequestTypes, Asks
<1>4. \A p \in Paths : NeverSet(p)' => NeverSet(p)
    <2>1. SameAsks
        BY <1>1 DEF SameAsks
    <2> QED
        BY <2>1, NeverSetBefore
<1>5. ReadsFresh'
    <2>1. ASSUME NEW x \in Ops, Asks(x)', at'[x] # "idle"
          PROVE  /\ req'[x].freshAtStart <= fresh[req'[x].path]
                 /\ at'[x] = "filling" => req'[x].freshAtStart <= read[x][req'[x].path].ver
        <3>1. CASE x = o
            BY <1>1, <2>1, <3>1 DEF Asks, EpochInv, Types
        <3>2. CASE x # o
            BY <1>1, <2>1, <3>2 DEF Asks, ReadsFresh
        <3> QED
            BY <3>1, <3>2
    <2> QED
        BY <2>1 DEF ReadsFresh
<1>6. JoinsFresh'
    <2>1. ASSUME NEW x \in Ops, at'[x] = "joined"
          PROVE  \E l \in Ops :
                    /\ l # o
                    /\ l = req'[x].leader /\ Asks(l) /\ req[l].path = req'[x].path
                    /\ at[l] \notin {"idle", "joined"}
                    /\ at[l] = "filling" => req'[x].freshAtStart <= read[l][req[l].path].ver
                    /\ at[l] \notin {"reading", "filling"} => req'[x].freshAtStart <= req[l].result
        <3>1. CASE x = o
            <4>1. a = "joined" /\ r.leader \in Ops /\ r.leader \in InFlight(r.path)
                BY <1>1, <2>1, <3>1 DEF InFlight
            <4> DEFINE l == r.leader
            <4>2. /\ l \in Ops /\ Asks(l) /\ req[l].path = r.path /\ at[l] \in {"reading", "filling"}
                  /\ since[l] = epoch /\ l # o /\ r.path \in Paths /\ r.freshAtStart = fresh[r.path]
                BY <4>1 DEF InFlight, Asks
            <4>3. at[l] = "filling" => fresh[r.path] <= read[l][r.path].ver
                BY <4>2 DEF EpochInv, HeldFresh
            <4> QED
                BY <1>1, <3>1, <4>2, <4>3
        <3>2. CASE x # o
            <4>1. req'[x] = req[x] /\ at[x] = "joined"
                BY <1>1, <2>1, <3>2
            <4>2. PICK l \in Ops :
                    /\ l = req[x].leader /\ Asks(l) /\ req[l].path = req[x].path
                    /\ at[l] \notin {"idle", "joined"}
                    /\ at[l] = "filling" => req[x].freshAtStart <= read[l][req[l].path].ver
                    /\ at[l] \notin {"reading", "filling"} => req[x].freshAtStart <= req[l].result
                BY <4>1 DEF JoinsFresh
            <4> QED
                BY <4>1, <4>2
        <3> QED
            BY <3>1, <3>2
    <2> QED
        BY <1>1, <2>1 DEF JoinsFresh, Asks
<1>7. CacheFresh'
    BY <1>4 DEF CacheFresh
<1>8. OneReader'
    <2>1. ASSUME NEW p \in Paths, NEW l \in InFlight(p)', NEW m \in InFlight(p)'
          PROVE  l = m
        <3>1. \A x \in Ops \ {o} : x \in InFlight(p)' => x \in InFlight(p)
            BY <1>1 DEF InFlight
        <3>2. o \in InFlight(p)' => InFlight(p) = {}
            BY <1>1 DEF InFlight
        <3>3. l \in Ops /\ m \in Ops
            BY DEF InFlight
        <3> QED
            BY <2>1, <3>1, <3>2, <3>3 DEF OneReader
    <2> QED
        BY <2>1 DEF OneReader
<1>9. Current'
    <2>1. ASSUME NEW p \in Paths, Sure(p)'
          PROVE  Sure(p)
        BY <1>1, <1>4, <2>1 DEF Sure
    <2>2. \A x \in Ops : at'[x] = "filling" => at[x] = "filling" /\ since'[x] = since[x]
        BY <1>1
    <2> QED
        BY <2>1, <2>2 DEF Current
<1>10. GetsAreFresh'
    <2>1. ASSUME NEW x \in Ops, Answered(x)', NeverSet(req[x].path)'
          PROVE  req'[x].result >= req'[x].freshAtStart
        <3>1. CASE x = o
            <4>1. /\ r.kind = "get" /\ a = "done" /\ r.path \in Paths
                  /\ r.freshAtStart = fresh[r.path] /\ r.result = cache[r.path]
                  /\ cache[r.path] # Missing /\ NeverSet(r.path)
                BY <1>1, <1>4, <2>1, <3>1 DEF Answered
            <4>2. fresh[r.path] <= cache[r.path]
                BY <4>1 DEF CacheFresh
            <4>3. fresh[r.path] \in Nat /\ cache[r.path] \in Nat
                BY <4>1 DEF EpochInv, Types, RequestTypes
            <4> QED
                BY <1>1, <3>1, <4>1, <4>2, <4>3
        <3>2. CASE x # o
            <4>1. req'[x] = req[x] /\ Answered(x) /\ req[x].path \in Paths
                BY <1>1, <2>1, <3>2 DEF Answered, RequestTypes, Asks
            <4> QED
                BY <1>4, <2>1, <4>1 DEF GetsAreFresh
        <3> QED
            BY <3>1, <3>2
    <2> QED
        BY <2>1 DEF GetsAreFresh
<1> QED
    BY <1>3, <1>5, <1>6, <1>7, <1>8, <1>9, <1>10

(* A request gets on, and the tree stays as it is.                         *)
LEMMA MoveKeeps ==
    ASSUME CacheInv, EpochInv', NEW o \in Ops, NEW r \in Requests, NEW a \in At, Keeps(o, r, a),
           at[o] \in {"reading", "filling", "joined", "writing", "rereading", "caching"},
           a \in {"filling", "writing", "rereading", "caching", "done"},
           UNCHANGED <<treeVars, epoch, fresh, since>>,
           \A x \in Ops \ {o} : read'[x] = read[x],
           r.kind = req[o].kind, r.path = req[o].path, r.freshAtStart = req[o].freshAtStart,
           a \in {"writing", "rereading", "caching"} => r.kind \in {"set", "patch"},
           a = "filling" => \/ at[o] = "reading" /\ read'[o] = store
                            \/ at[o] = "filling" /\ read'[o] = read[o] /\ ~Asks(o),
           at[o] = "reading" => a = "filling",
           Asks(o) /\ at[o] = "filling" => r.result = read[o][r.path].ver,
           at[o] \notin {"reading", "filling", "joined"} => r.result = req[o].result,
           at[o] = "joined" => /\ r.result = req[req[o].leader].result
                               /\ at[req[o].leader] \notin {"reading", "filling"},
           cache' \in [Paths -> Nat], acked' \in [Paths -> Nat],
           \A p \in Paths :
                \/ cache'[p] \in {cache[p], Missing}
                \/ at[o] = "filling" /\ since[o] = epoch /\ read[o][p].live
                        /\ cache'[p] = read[o][p].ver
                \/ req[o].kind \in {"set", "patch"} /\ at[o] = "caching" /\ req[o].path = p
    PROVE  CacheInv'
<1> USE DEF CacheInv, treeVars
<1>1. /\ req'[o] = r /\ at'[o] = a
      /\ \A x \in Ops \ {o} : req'[x] = req[x] /\ at'[x] = at[x]
      /\ req' \in [Ops -> Requests] /\ at' \in [Ops -> At]
    BY Moved
<1>2. RequestTypes'
    BY <1>1 DEF RequestTypes, Asks
<1>3. \A p \in Paths : NeverSet(p)' => NeverSet(p)
    <2>1. SameAsks
        BY <1>1 DEF SameAsks
    <2> QED
        BY <2>1, NeverSetBefore DEF RequestTypes
<1>4. ReadsFresh'
    <2>1. ASSUME NEW x \in Ops, Asks(x)', at'[x] # "idle"
          PROVE  /\ req'[x].freshAtStart <= fresh[req'[x].path]
                 /\ at'[x] = "filling" => req'[x].freshAtStart <= read'[x][req'[x].path].ver
        <3>1. CASE x = o
            <4>1. /\ Asks(o) /\ req[o].path \in Paths
                  /\ req[o].freshAtStart <= fresh[req[o].path]
                  /\ req[o].freshAtStart \in Nat
                BY <1>1, <2>1, <3>1 DEF Asks, ReadsFresh, RequestTypes, Requests
            <4>2. /\ fresh[req[o].path] <= store[req[o].path].ver
                  /\ fresh[req[o].path] \in Nat /\ store[req[o].path].ver \in Nat
                BY <4>1 DEF EpochInv, Types, StoreAhead, Snapshot, Node
            <4>3. a = "filling" => read'[o] = store
                BY <4>1
            <4> QED
                BY <1>1, <3>1, <4>1, <4>2, <4>3
        <3>2. CASE x # o
            BY <1>1, <2>1, <3>2 DEF Asks, ReadsFresh
        <3> QED
            BY <3>1, <3>2
    <2> QED
        BY <2>1 DEF ReadsFresh
<1>5. JoinsFresh'
    <2>1. ASSUME NEW x \in Ops, at'[x] = "joined"
          PROVE  \E l \in Ops :
                    /\ l = req'[x].leader /\ Asks(l)' /\ req'[l].path = req'[x].path
                    /\ at'[l] \notin {"idle", "joined"}
                    /\ at'[l] = "filling" => req'[x].freshAtStart <= read'[l][req'[l].path].ver
                    /\ at'[l] \notin {"reading", "filling"} => req'[x].freshAtStart <= req'[l].result
        <3>1. x # o /\ at[x] = "joined" /\ req'[x] = req[x]
            BY <1>1, <2>1
        <3>2. PICK l \in Ops :
                    /\ l = req[x].leader /\ Asks(l) /\ req[l].path = req[x].path
                    /\ at[l] \notin {"idle", "joined"}
                    /\ at[l] = "filling" => req[x].freshAtStart <= read[l][req[l].path].ver
                    /\ at[l] \notin {"reading", "filling"} => req[x].freshAtStart <= req[l].result
            BY <3>1 DEF JoinsFresh
        <3>3. CASE l # o
            BY <1>1, <3>1, <3>2, <3>3 DEF Asks
        <3>4. CASE l = o
            <4>1. /\ req[o].path \in Paths /\ r.path = req[x].path /\ Asks(o)
                  /\ req[x].freshAtStart <= fresh[req[o].path] /\ req[x].freshAtStart \in Nat
                BY <3>1, <3>2, <3>4 DEF RequestTypes, ReadsFresh, Requests, Asks
            <4>2. /\ fresh[req[o].path] <= store[req[o].path].ver
                  /\ fresh[req[o].path] \in Nat /\ store[req[o].path].ver \in Nat
                BY <4>1 DEF EpochInv, Types, StoreAhead, Snapshot, Node
            <4>3. a = "filling" => req[x].freshAtStart <= read'[o][r.path].ver
                BY <4>1, <4>2
            <4>4. a # "filling" => req[x].freshAtStart <= r.result
                <5>1. CASE at[o] = "filling"
                    BY <3>2, <3>4, <4>1, <5>1
                <5>2. CASE at[o] \notin {"reading", "filling", "joined"}
                    BY <3>2, <3>4, <5>2
                <5> QED
                    BY <3>2, <3>4, <5>1, <5>2
            <4>5. /\ l = req'[x].leader /\ Asks(l)' /\ req'[l].path = req'[x].path
                  /\ at'[l] \notin {"idle", "joined"}
                BY <1>1, <3>1, <3>2, <3>4, <4>1 DEF Asks
            <4> QED
                BY <1>1, <3>1, <3>4, <4>3, <4>4, <4>5
        <3> QED
            BY <3>3, <3>4
    <2> QED
        BY <2>1 DEF JoinsFresh
<1>6. CacheFresh'
    <2>1. ASSUME NEW p \in Paths, cache'[p] # Missing, NeverSet(p)'
          PROVE  fresh[p] <= cache'[p]
        <3>1. NeverSet(p) /\ ~(req[o].kind \in {"set", "patch"} /\ req[o].path = p)
            BY <1>3, <2>1 DEF NeverSet
        <3>2. CASE cache'[p] = cache[p]
            BY <2>1, <3>1, <3>2 DEF CacheFresh
        <3>3. CASE at[o] = "filling" /\ since[o] = epoch /\ cache'[p] = read[o][p].ver
            BY <3>3 DEF EpochInv, HeldFresh
        <3> QED
            BY <2>1, <3>1, <3>2, <3>3
    <2> QED
        BY <2>1 DEF CacheFresh
<1>7. OneReader'
    <2>1. ASSUME NEW p \in Paths, NEW l \in InFlight(p)'
          PROVE  l \in InFlight(p)
        <3>1. l \in Ops
            BY DEF InFlight
        <3>2. CASE l = o
            <4>1. a = "filling" /\ r.kind \in {"get", "patch"} /\ r.path = p /\ since[o] = epoch
                BY <1>1, <3>2 DEF InFlight
            <4> QED
                BY <3>2, <4>1 DEF InFlight, Asks
        <3>3. CASE l # o
            BY <1>1, <3>1, <3>3 DEF InFlight
        <3> QED
            BY <3>2, <3>3
    <2> QED
        BY <2>1 DEF OneReader
<1>8. Current'
    <2>1. ASSUME NEW p \in Paths, Sure(p)'
          PROVE  /\ Sure(p) /\ ~(req[o].kind \in {"set", "patch"} /\ req[o].path = p)
        <3>1. NeverSet(p) /\ p \notin changed
            BY <1>3, <2>1 DEF Sure
        <3>2. \A x \in Ops : at[x] = "invalidating" => req[x].path # p
            BY <1>1, <2>1 DEF Sure
        <3> QED
            BY <3>1, <3>2 DEF Sure, NeverSet
    <2>2. ASSUME NEW p \in Paths, Sure(p)', cache'[p] # Missing
          PROVE  store[p].live /\ cache'[p] = store[p].ver
        <3>1. Sure(p) /\ ~(req[o].kind \in {"set", "patch"} /\ req[o].path = p)
            BY <2>1, <2>2
        <3>2. CASE cache'[p] = cache[p]
            BY <2>2, <3>1, <3>2 DEF Current
        <3>3. CASE /\ at[o] = "filling" /\ since[o] = epoch /\ read[o][p].live
                   /\ cache'[p] = read[o][p].ver
            <4>1. read[o][p] = store[p]
                BY <3>1, <3>3 DEF Current
            <4> QED
                BY <3>3, <4>1
        <3> QED
            BY <2>2, <3>1, <3>2, <3>3
    <2>3. ASSUME NEW p \in Paths, Sure(p)', NEW x \in Ops, at'[x] = "filling",
                 since[x] = epoch, read'[x][p].live
          PROVE  read'[x][p] = store[p]
        <3>1. CASE x = o
            BY <1>1, <2>1, <2>3, <3>1 DEF Current
        <3>2. CASE x # o
            BY <1>1, <2>1, <2>3, <3>2 DEF Current
        <3> QED
            BY <3>1, <3>2
    <2> QED
        BY <2>2, <2>3 DEF Current
<1>9. GetsAreFresh'
    <2>1. ASSUME NEW x \in Ops, Answered(x)', NeverSet(req[x].path)'
          PROVE  req'[x].result >= req'[x].freshAtStart
        <3>1. CASE x = o
            <4>1. /\ r.kind = "get" /\ a = "done" /\ Asks(o) /\ req[o].path \in Paths
                  /\ req[o].freshAtStart \in Nat /\ r.result \in Nat
                BY <1>1, <2>1, <3>1 DEF Answered, Asks, RequestTypes, Requests
            <4>2. at[o] \in {"filling", "joined"}
                BY <4>1 DEF RequestTypes
            <4>3. CASE at[o] = "filling"
                <5>1. req[o].freshAtStart <= r.result
                    BY <4>1, <4>3 DEF ReadsFresh
                <5> QED
                    BY <1>1, <3>1, <4>1, <5>1
            <4>4. CASE at[o] = "joined"
                <5>1. req[o].freshAtStart <= r.result
                    BY <4>1, <4>4 DEF JoinsFresh
                <5> QED
                    BY <1>1, <3>1, <4>1, <5>1
            <4> QED
                BY <4>2, <4>3, <4>4
        <3>2. CASE x # o
            <4>1. req'[x] = req[x] /\ Answered(x) /\ req[x].path \in Paths
                BY <1>1, <2>1, <3>2 DEF Answered, RequestTypes, Asks
            <4> QED
                BY <1>3, <2>1, <4>1 DEF GetsAreFresh
        <3> QED
            BY <3>1, <3>2
    <2> QED
        BY <2>1 DEF GetsAreFresh
<1> QED
    BY <1>2, <1>4, <1>5, <1>6, <1>7, <1>8, <1>9

(* The tree is written, by a request or by somebody else.                  *)
LEMMA WriteKeeps ==
    ASSUME CacheInv, EpochInv', UNCHANGED <<cacheVars, req, since, read, seenVars>>,
           \A x \in Ops : \/ at'[x] = at[x]
                          \/ at[x] = "writing" /\ at'[x] = "rereading"
                          \/ at[x] = "removing" /\ at'[x] = "invalidating",
           \A p \in Paths : Sure(p)' => Sure(p) /\ store'[p] = store[p]
    PROVE  CacheInv'
<1> USE DEF CacheInv, cacheVars, seenVars
<1>1. RequestTypes'
    BY DEF RequestTypes, Asks
<1>2. ReadsFresh' /\ CacheFresh'
    BY DEF ReadsFresh, CacheFresh, Asks, NeverSet
<1>3. JoinsFresh'
    <2>1. ASSUME NEW x \in Ops, at'[x] = "joined"
          PROVE  \E l \in Ops :
                    /\ l = req[x].leader /\ Asks(l) /\ req[l].path = req[x].path
                    /\ at'[l] \notin {"idle", "joined"}
                    /\ at'[l] = "filling" => req[x].freshAtStart <= read[l][req[l].path].ver
                    /\ at'[l] \notin {"reading", "filling"} => req[x].freshAtStart <= req[l].result
        <3>1. at[x] = "joined"
            BY <2>1
        <3>2. PICK l \in Ops :
                    /\ l = req[x].leader /\ Asks(l) /\ req[l].path = req[x].path
                    /\ at[l] \notin {"idle", "joined"}
                    /\ at[l] = "filling" => req[x].freshAtStart <= read[l][req[l].path].ver
                    /\ at[l] \notin {"reading", "filling"} => req[x].freshAtStart <= req[l].result
            BY <3>1 DEF JoinsFresh
        <3> QED
            BY <3>2
    <2> QED
        BY <2>1 DEF JoinsFresh, Asks
<1>4. OneReader'
    <2>1. ASSUME NEW p \in Paths
          PROVE  InFlight(p)' = InFlight(p)
        BY DEF InFlight
    <2> QED
        BY <2>1 DEF OneReader
<1>5. Current'
    <2>1. \A x \in Ops : at'[x] = "filling" => at[x] = "filling"
        OBVIOUS
    <2> QED
        BY <2>1 DEF Current
<1>6. GetsAreFresh'
    BY DEF GetsAreFresh, Answered, NeverSet
<1> QED
    BY <1>1, <1>2, <1>3, <1>4, <1>5, <1>6

(* Paths are invalidated: their entries go, and nothing that is under way  *)
(* will be cached.                                                         *)
LEMMA ForgetKeeps ==
    ASSUME CacheInv, EpochInv', NEW S \in SUBSET Paths, NextEpoch(S),
           cache' = [q \in Paths |-> IF q \in S THEN Missing ELSE cache[q]],
           UNCHANGED <<req, since, read, store, acked>>,
           \A x \in Ops : \/ at'[x] = at[x]
                          \/ at[x] = "invalidating" /\ at'[x] = "done" /\ req[x].path \in S,
           changed \cap Paths \subseteq changed' \cup S
    PROVE  CacheInv'
<1> USE DEF CacheInv
<1>1. /\ \A p \in Paths : cache'[p] = IF p \in S THEN Missing ELSE cache[p]
      /\ cache' \in [Paths -> Nat]
      /\ epoch' = epoch + 1 /\ epoch \in Nat
      /\ \A p \in Paths : fresh'[p] = IF p \in S THEN store[p].ver ELSE fresh[p]
    <2>1. \A p \in Paths : cache'[p] = IF p \in S THEN Missing ELSE cache[p]
        OBVIOUS
    <2>3. cache' \in [Paths -> Nat]
        BY DEF RequestTypes, Missing
    <2>4. epoch' = epoch + 1 /\ epoch \in Nat
        BY DEF NextEpoch, EpochInv, Types
    <2>5. \A p \in Paths : fresh'[p] = IF p \in S THEN store[p].ver ELSE fresh[p]
        BY DEF NextEpoch
    <2> QED
        BY <2>1, <2>3, <2>4, <2>5
<1>2. \A p \in Paths : /\ fresh[p] \in Nat /\ fresh'[p] \in Nat /\ fresh[p] <= fresh'[p]
    <2>1. \A p \in Paths : fresh[p] \in Nat /\ store[p].ver \in Nat /\ fresh[p] <= store[p].ver
        BY DEF EpochInv, Types, StoreAhead, Snapshot, Node
    <2> QED
        BY <1>1, <2>1
<1>3. \A x \in Ops : since[x] \in Nat /\ since[x] # epoch'
    BY <1>1 DEF EpochInv, Types, Behind
<1>4. RequestTypes'
    BY <1>1 DEF RequestTypes, Asks
<1>5. ReadsFresh'
    <2>1. ASSUME NEW x \in Ops, Asks(x), at'[x] # "idle"
          PROVE  /\ req[x].freshAtStart <= fresh'[req[x].path]
                 /\ at'[x] = "filling" => req[x].freshAtStart <= read[x][req[x].path].ver
        <3>1. at[x] # "idle" /\ req[x].path \in Paths /\ req[x].freshAtStart \in Nat
            BY <2>1 DEF RequestTypes, Requests
        <3> QED
            BY <2>1, <3>1, <1>2 DEF ReadsFresh
    <2> QED
        BY <2>1 DEF ReadsFresh, Asks
<1>6. JoinsFresh'
    <2>1. ASSUME NEW x \in Ops, at'[x] = "joined"
          PROVE  \E l \in Ops :
                    /\ l = req[x].leader /\ Asks(l) /\ req[l].path = req[x].path
                    /\ at'[l] \notin {"idle", "joined"}
                    /\ at'[l] = "filling" => req[x].freshAtStart <= read[l][req[l].path].ver
                    /\ at'[l] \notin {"reading", "filling"} => req[x].freshAtStart <= req[l].result
        <3>1. at[x] = "joined"
            BY <2>1
        <3>2. PICK l \in Ops :
                    /\ l = req[x].leader /\ Asks(l) /\ req[l].path = req[x].path
                    /\ at[l] \notin {"idle", "joined"}
                    /\ at[l] = "filling" => req[x].freshAtStart <= read[l][req[l].path].ver
                    /\ at[l] \notin {"reading", "filling"} => req[x].freshAtStart <= req[l].result
            BY <3>1 DEF JoinsFresh
        <3> QED
            BY <3>2
    <2> QED
        BY <2>1 DEF JoinsFresh, Asks
<1>7. CacheFresh'
    BY <1>1 DEF CacheFresh, NeverSet
<1>8. OneReader'
    BY <1>3 DEF OneReader, InFlight
<1>9. Current'
    <2>1. ASSUME NEW p \in Paths, Sure(p)', p \notin S
          PROVE  Sure(p)
        <3>1. NeverSet(p) /\ p \notin changed
            BY <2>1 DEF Sure, NeverSet
        <3>2. \A x \in Ops : at[x] = "invalidating" => req[x].path # p
            BY <2>1 DEF Sure
        <3> QED
            BY <3>1, <3>2 DEF Sure
    <2>2. ASSUME NEW p \in Paths, Sure(p)', cache'[p] # Missing
          PROVE  store[p].live /\ cache'[p] = store[p].ver
        BY <1>1, <2>1, <2>2 DEF Current
    <2> QED
        BY <1>3, <2>2 DEF Current
<1>10. GetsAreFresh'
    <2>1. \A x \in Ops : req[x].kind = "get" /\ at'[x] = "done" => at[x] = "done"
        BY DEF RequestTypes
    <2> QED
        BY <2>1 DEF GetsAreFresh, Answered, NeverSet
<1> QED
    BY <1>4, <1>5, <1>6, <1>7, <1>8, <1>9, <1>10

LEMMA InvalidateForgets ==
    ASSUME NEW p \in Paths, Invalidate(p)
    PROVE  /\ NextEpoch({p})
           /\ cache' = [q \in Paths |-> IF q \in {p} THEN Missing ELSE cache[q]]
BY DEF Invalidate, CacheDelete

LEMMA ClearForgets ==
    ASSUME InvalidateAll
    PROVE  /\ NextEpoch(Paths)
           /\ cache' = [q \in Paths |-> IF q \in Paths THEN Missing ELSE cache[q]]
BY DEF InvalidateAll, CacheClear

LEMMA InitCacheInv == Init => CacheInv
<1> SUFFICES ASSUME Init PROVE CacheInv
    OBVIOUS
<1>1. EpochInv
    BY InitEpochInv
<1>2. Idle \in Requests
    BY DEF Idle, Requests, AllKinds, NoRev
<1> QED
    BY <1>1, <1>2 DEF Init, CacheInv, RequestTypes, ReadsFresh, JoinsFresh, CacheFresh, OneReader,
        Current, GetsAreFresh, Answered, InFlight, Missing, Asks

-----------------------------------------------------------------------------
(* A fill changes no entry but the one it is for, and may drop one.        *)
LEMMA CacheSetKeeps ==
    ASSUME RequestTypes, NEW p \in Paths, NEW v \in Nat, CacheSet(p, v)
    PROVE  /\ cache' \in [Paths -> Nat] /\ cache'[p] = v
           /\ \A q \in Paths \ {p} : cache'[q] \in {cache[q], Missing}
BY DEF RequestTypes, CacheSet, Missing

LEMMA FillKeepsCache ==
    ASSUME CacheInv, NEW o \in Ops, NEW p \in Paths, Fill(o, p)
    PROVE  /\ cache' \in [Paths -> Nat]
           /\ \A q \in Paths :
                \/ cache'[q] \in {cache[q], Missing}
                \/ since[o] = epoch /\ read[o][q].live /\ cache'[q] = read[o][q].ver
<1>1. read[o][p].ver \in Nat
    BY DEF CacheInv, EpochInv, Types, Snapshot, Node
<1> QED
    BY <1>1, CacheSetKeeps DEF Fill, CacheInv, RequestTypes

LEMMA ReturnMoves ==
    ASSUME CacheInv, NEW o \in Ops, NEW r \in Requests, NEW v \in Nat, NEW found \in BOOLEAN,
           Return(o, r, v, found)
    PROVE  \E s \in Requests, a \in {"writing", "done"} :
                /\ Keeps(o, s, a)
                /\ s.kind = r.kind /\ s.path = r.path /\ s.freshAtStart = r.freshAtStart
                /\ s.result = v
                /\ a = "writing" => r.kind = "patch"
<1>1. CASE r.kind = "patch" /\ found
    <2> DEFINE s == [r EXCEPT !.result = v, !.found = found, !.rev = v]
    <2>1. /\ s \in Requests /\ s.kind = r.kind /\ s.path = r.path
          /\ s.freshAtStart = r.freshAtStart /\ s.result = v
        BY DEF Requests
    <2>2. Keeps(o, s, "writing")
        BY <1>1 DEF Return, Keeps, Goto
    <2> HIDE DEF s
    <2> QED
        BY <1>1, <2>1, <2>2
<1>2. CASE ~(r.kind = "patch" /\ found)
    <2> DEFINE s == [r EXCEPT !.result = v, !.found = found]
    <2>1. /\ s \in Requests /\ s.kind = r.kind /\ s.path = r.path
          /\ s.freshAtStart = r.freshAtStart /\ s.result = v
        BY DEF Requests
    <2>2. Keeps(o, s, "done")
        BY <1>2 DEF Return, Keeps, Goto
    <2> HIDE DEF s
    <2> QED
        BY <2>1, <2>2
<1> QED
    BY <1>1, <1>2

(* Neither does a request that goes on and leaves what it asks for.        *)
LEMMA GoOnKeeps ==
    ASSUME CacheInv, EpochInv', NEW o \in Ops, NEW a \in At, Goto(o, a),
           at[o] \in {"reading", "filling", "writing", "rereading", "caching"},
           a \in {"filling", "rereading", "caching", "done"},
           UNCHANGED <<treeVars, epoch, fresh, since, req>>,
           \A x \in Ops \ {o} : read'[x] = read[x],
           a \in {"rereading", "caching"} => req[o].kind \in {"set", "patch"},
           a = "filling" => \/ at[o] = "reading" /\ read'[o] = store
                            \/ at[o] = "filling" /\ read'[o] = read[o] /\ ~Asks(o),
           at[o] = "reading" => a = "filling",
           at[o] = "filling" => ~Asks(o),
           cache' \in [Paths -> Nat], acked' \in [Paths -> Nat],
           \A p \in Paths :
                \/ cache'[p] \in {cache[p], Missing}
                \/ at[o] = "filling" /\ since[o] = epoch /\ read[o][p].live
                        /\ cache'[p] = read[o][p].ver
                \/ req[o].kind \in {"set", "patch"} /\ at[o] = "caching" /\ req[o].path = p
    PROVE  CacheInv'
<1> DEFINE r == req[o]
<1>1. r \in Requests
    BY DEF CacheInv, RequestTypes
<1>2. Keeps(o, r, a)
    BY DEF Keeps, Goto, CacheInv, RequestTypes
<1>3. /\ r.kind = req[o].kind /\ r.path = req[o].path /\ r.freshAtStart = req[o].freshAtStart
      /\ r.result = req[o].result
    OBVIOUS
<1> HIDE DEF r
<1> QED
    BY <1>1, <1>2, <1>3, MoveKeeps

(* A request that got its node.                                            *)
LEMMA AnsweredKeeps ==
    ASSUME CacheInv, EpochInv', NEW o \in Ops, NEW v \in Nat, NEW found \in BOOLEAN,
           Return(o, req[o], v, found), Asks(o),
           UNCHANGED <<treeVars, epoch, fresh, acked, since, read>>,
           \/ at[o] = "filling" /\ v = read[o][req[o].path].ver
           \/ at[o] = "joined" /\ v = req[req[o].leader].result
                              /\ at[req[o].leader] \notin {"reading", "filling"},
           cache' \in [Paths -> Nat],
           \A p \in Paths :
                \/ cache'[p] \in {cache[p], Missing}
                \/ at[o] = "filling" /\ since[o] = epoch /\ read[o][p].live
                        /\ cache'[p] = read[o][p].ver
    PROVE  CacheInv'
<1>1. req[o] \in Requests /\ acked' \in [Paths -> Nat]
    BY DEF CacheInv, RequestTypes
<1>2. PICK s \in Requests, a \in {"writing", "done"} :
        /\ Keeps(o, s, a)
        /\ s.kind = req[o].kind /\ s.path = req[o].path
        /\ s.freshAtStart = req[o].freshAtStart
        /\ s.result = v
        /\ a = "writing" => req[o].kind = "patch"
    BY <1>1, ReturnMoves
<1>3. a \in At
    BY DEF At
<1> QED
    BY <1>1, <1>2, <1>3, MoveKeeps

-----------------------------------------------------------------------------
LEMMA StartKeeps ==
    ASSUME CacheInv, EpochInv', NEW o \in Ops, NEW p \in Paths,
           StartGet(o, p) \/ SetStart(o, p) \/ RemoveStart(o, p)
    PROVE  CacheInv'
<1> USE DEF cacheVars, treeVars, seenVars
<1>1. req \in [Ops -> Requests] /\ fresh[p] \in Nat /\ acked[p] \in Nat /\ cache[p] \in Nat
    BY DEF CacheInv, EpochInv, Types, RequestTypes
<1>2. ASSUME NEW k \in {"get", "patch"}
      PROVE  /\ GetRequest(k, p) \in Requests
             /\ GetRequest(k, p).kind = k /\ GetRequest(k, p).path = p
             /\ GetRequest(k, p).freshAtStart = fresh[p]
    BY <1>1 DEF GetRequest, Idle, Requests, AllKinds, NoRev
<1>3. ASSUME NEW k \in {"get", "patch"}, GetHit(o, k, p)
      PROVE  CacheInv'
    <2> DEFINE r == GetRequest(k, p)
               found == TRUE
    <2>1. Return(o, r, cache[p], found) /\ found \in BOOLEAN
        BY <1>3 DEF GetHit
    <2>0. r \in Requests /\ r.kind = k /\ r.path = p /\ r.freshAtStart = fresh[p]
        BY <1>2
    <2> HIDE DEF r, found
    <2>2. PICK s \in Requests, a \in {"writing", "done"} :
            /\ Keeps(o, s, a)
            /\ s.kind = k /\ s.path = p /\ s.freshAtStart = fresh[p]
            /\ s.result = cache[p]
            /\ a = "writing" => k = "patch"
        BY <1>1, <2>0, <2>1, ReturnMoves
    <2>3. a \in At
        BY DEF At
    <2> QED
        BY <1>3, <2>2, <2>3, BeginKeeps DEF GetHit
<1>4. ASSUME NEW k \in {"get", "patch"}, GetJoin(o, k, p)
      PROVE  CacheInv'
    <2>1. PICK l \in InFlight(p) : req' = [req EXCEPT ![o] = [GetRequest(k, p) EXCEPT !.leader = l]]
        BY <1>4 DEF GetJoin
    <2> DEFINE s == [GetRequest(k, p) EXCEPT !.leader = l]
    <2>2. l \in Ops
        BY DEF InFlight
    <2>3. /\ s \in Requests /\ s.kind = k /\ s.path = p /\ s.freshAtStart = fresh[p]
          /\ s.leader = l
        BY <1>2, <2>2 DEF Requests
    <2>4. Keeps(o, s, "joined")
        BY <1>4, <2>1 DEF GetJoin, Keeps, Goto
    <2> HIDE DEF s
    <2> QED
        BY <1>4, <2>1, <2>3, <2>4, BeginKeeps DEF GetJoin, At
<1>5. ASSUME NEW k \in {"get", "patch"}, GetMiss(o, k, p)
      PROVE  CacheInv'
    <2>1. Keeps(o, GetRequest(k, p), "reading")
        BY <1>5 DEF GetMiss, Keeps, Goto
    <2>2. \A x \in Ops \ {o} : since'[x] = since[x]
        BY <1>5 DEF GetMiss, CacheInv, EpochInv, Types
    <2> QED
        BY <1>2, <1>5, <2>1, <2>2, BeginKeeps DEF GetMiss, At
<1>6. ASSUME NEW k \in {"set", "remove"}, NEW a \in At, at[o] = "idle",
             req' = [req EXCEPT ![o].kind = k, ![o].path = p], Goto(o, a),
             UNCHANGED <<cacheVars, since, read, todo, treeVars, seenVars>>,
             <<k, a>> \in {<<"set", "writing">>, <<"remove", "removing">>}
      PROVE  CacheInv'
    <2> DEFINE s == [req[o] EXCEPT !.kind = k, !.path = p]
    <2>1. s \in Requests /\ s.kind = k
        BY <1>1 DEF Requests, AllKinds
    <2>2. Keeps(o, s, a)
        BY <1>1, <1>6 DEF Keeps, Goto
    <2> HIDE DEF s
    <2> QED
        BY <1>6, <2>1, <2>2, BeginKeeps
<1>7. CASE SetStart(o, p)
    BY <1>6, <1>7 DEF SetStart, At
<1>8. CASE RemoveStart(o, p)
    BY <1>6, <1>8 DEF RemoveStart, At
<1> QED
    BY <1>3, <1>4, <1>5, <1>7, <1>8 DEF StartGet

LEMMA ListStartKeeps ==
    ASSUME CacheInv, EpochInv', NEW o \in Ops, ListStart(o)
    PROVE  CacheInv'
<1> DEFINE s == [req[o] EXCEPT !.kind = "list"]
<1>1. s \in Requests /\ s.kind = "list"
    BY DEF CacheInv, RequestTypes, Requests, AllKinds
<1>2. Keeps(o, s, "reading")
    BY DEF ListStart, Keeps, Goto, CacheInv, RequestTypes
<1>3. \A x \in Ops \ {o} : since'[x] = since[x]
    BY DEF ListStart, CacheInv, EpochInv, Types
<1> HIDE DEF s
<1> QED
    BY <1>1, <1>2, <1>3, BeginKeeps DEF ListStart, At, cacheVars, treeVars, seenVars

LEMMA NextCacheInv == CacheInv /\ [Next]_vars => CacheInv'
<1> SUFFICES ASSUME CacheInv, [Next]_vars PROVE CacheInv'
    OBVIOUS
<1> USE DEF cacheVars, treeVars, seenVars
<1>0. EpochInv /\ EpochInv'
    BY NextEpochInv DEF CacheInv
<1>1. ASSUME NEW o \in Ops, NEW p \in Paths,
             StartGet(o, p) \/ SetStart(o, p) \/ RemoveStart(o, p)
      PROVE  CacheInv'
    BY <1>0, <1>1, StartKeeps
<1>2. ASSUME NEW o \in Ops, ListStart(o)
      PROVE  CacheInv'
    BY <1>0, <1>2, ListStartKeeps
<1>3. ASSUME NEW o \in Ops, NEW p \in Paths, GetFill(o, p)
      PROVE  CacheInv'
    <2>1. /\ at[o] = "filling" /\ Asks(o) /\ req[o].path = p
          /\ Fill(o, p) /\ Return(o, req[o], read[o][p].ver, read[o][p].live)
          /\ UNCHANGED <<epoch, since, read, todo, treeVars, seenVars>>
        BY <1>3 DEF GetFill, Asks
    <2>2. read[o][p].ver \in Nat /\ read[o][p].live \in BOOLEAN
        BY <1>0 DEF EpochInv, Types, Snapshot, Node
    <2>3. /\ cache' \in [Paths -> Nat]
          /\ \A q \in Paths :
                \/ cache'[q] \in {cache[q], Missing}
                \/ since[o] = epoch /\ read[o][q].live /\ cache'[q] = read[o][q].ver
        BY <2>1, FillKeepsCache
    <2> QED
        BY <1>0, <2>1, <2>2, <2>3, AnsweredKeeps
<1>4. ASSUME NEW o \in Ops, NEW p \in Paths, ListFill(o, p)
      PROVE  CacheInv'
    <2>1. PICK a \in {"filling", "done"} : Goto(o, a)
        BY <1>4 DEF ListFill
    <2>2. /\ cache' \in [Paths -> Nat]
          /\ \A q \in Paths :
                \/ cache'[q] \in {cache[q], Missing}
                \/ since[o] = epoch /\ read[o][q].live /\ cache'[q] = read[o][q].ver
        BY <1>4, FillKeepsCache DEF ListFill
    <2>3. acked' \in [Paths -> Nat] /\ a \in At /\ ~Asks(o)
        BY <1>4 DEF ListFill, CacheInv, RequestTypes, At, Asks
    <2> QED
        BY <1>0, <1>4, <2>1, <2>2, <2>3, GoOnKeeps DEF ListFill
<1>5. ASSUME NEW o \in Ops, NEW p \in Paths, InnerSet(o, p)
      PROVE  CacheInv'
    <2>1. req[o].kind \in {"set", "patch"} /\ req[o].path = p
        BY <1>5 DEF InnerSet, CacheInv, RequestTypes
    <2>2. CASE WriteNode(p) /\ Goto(o, "rereading")
        <3>1. \A x \in Ops : at'[x] = at[x] \/ (at[x] = "writing" /\ at'[x] = "rereading")
            <4>1. at[o] = "writing" /\ at \in [Ops -> At]
                BY <1>0, <1>5 DEF InnerSet, EpochInv, Types
            <4> QED
                BY <2>2, <4>1 DEF Goto
        <3>2. ASSUME NEW q \in Paths, Sure(q)' PROVE Sure(q) /\ store'[q] = store[q]
            <4>1. NeverSet(q) /\ q \notin changed /\ q # p
                BY <1>5, <2>1, <3>2 DEF Sure, NeverSet, InnerSet
            <4>2. \A x \in Ops : at[x] = "invalidating" => req[x].path # q
                BY <1>5, <3>1, <3>2 DEF Sure, InnerSet
            <4>3. store'[q] = store[q]
                BY <1>0, <2>2, <4>1 DEF WriteNode, EpochInv, Types, Snapshot
            <4> QED
                BY <4>1, <4>2, <4>3 DEF Sure
        <3> QED
            BY <1>0, <1>5, <3>1, <3>2, WriteKeeps DEF InnerSet
    <2>3. CASE UNCHANGED store /\ Goto(o, "done")
        <3>1. acked' \in [Paths -> Nat] /\ cache' \in [Paths -> Nat] /\ "done" \in At
            BY <1>5 DEF InnerSet, CacheInv, RequestTypes, At
        <3> QED
            BY <1>0, <1>5, <2>3, <3>1, GoOnKeeps DEF InnerSet
    <2> QED
        BY <1>5, <2>2, <2>3 DEF InnerSet
<1>6. ASSUME NEW o \in Ops, NEW p \in Paths, CachePut(o, p)
      PROVE  CacheInv'
    <2>1. req[o].kind \in {"set", "patch"} /\ req[o].path = p /\ "done" \in At
        BY <1>6 DEF CachePut, CacheInv, RequestTypes, At
    <2>2. read[o][p].ver \in Nat
        BY <1>0 DEF EpochInv, Types, Snapshot, Node
    <2>3. /\ cache' \in [Paths -> Nat] /\ acked' \in [Paths -> Nat]
          /\ \A q \in Paths \ {p} : cache'[q] \in {cache[q], Missing}
        <3>1. CASE read[o][p].live
            <4>1. CacheSet(p, read[o][p].ver) /\ RequestTypes
                BY <1>6, <3>1 DEF CachePut, CacheInv
            <4>2. acked' = [acked EXCEPT ![p] = read[o][p].ver]
                BY <1>6, <3>1 DEF CachePut
            <4> QED
                BY <2>2, <4>1, <4>2, CacheSetKeeps DEF RequestTypes
        <3>2. CASE ~read[o][p].live
            BY <1>6, <3>2 DEF CachePut, CacheInv, RequestTypes
        <3> QED
            BY <3>1, <3>2
    <2> QED
        BY <1>0, <1>6, <2>1, <2>3, GoOnKeeps DEF CachePut
<1>7. ASSUME NEW o \in Ops, NEW p \in Paths, InnerRemove(o, p)
      PROVE  CacheInv'
    <2>1. \A x \in Ops : IF x = o THEN at'[x] = "invalidating" ELSE at'[x] = at[x]
        BY <1>0, <1>7 DEF InnerRemove, Goto, EpochInv, Types
    <2>2. ASSUME NEW q \in Paths, Sure(q)' PROVE Sure(q) /\ store'[q] = store[q]
        <3>1. q # p
            BY <1>7, <2>1, <2>2 DEF Sure, InnerRemove
        <3>2. store'[q] = store[q]
            BY <1>0, <1>7, <3>1 DEF InnerRemove, RemoveNode, EpochInv, Types, Snapshot
        <3>3. NeverSet(q) /\ q \notin changed
            BY <1>7, <2>2 DEF Sure, NeverSet, InnerRemove
        <3>4. \A x \in Ops : at[x] = "invalidating" => req[x].path # q
            BY <1>7, <2>1, <2>2 DEF Sure, InnerRemove
        <3> QED
            BY <3>2, <3>3, <3>4 DEF Sure
    <2> QED
        BY <1>0, <1>7, <2>1, <2>2, WriteKeeps DEF InnerRemove
<1>8. ASSUME NEW o \in Ops, NEW p \in Paths, RemoveInvalidate(o, p)
      PROVE  CacheInv'
    <2>1. \A x \in Ops : IF x = o THEN at'[x] = "done" ELSE at'[x] = at[x]
        BY <1>0, <1>8 DEF RemoveInvalidate, Goto, EpochInv, Types
    <2> QED
        BY <1>0, <1>8, <2>1, InvalidateForgets, ForgetKeeps DEF RemoveInvalidate
<1>9. ASSUME NEW o \in Ops, InnerRead(o) \/ ReRead(o)
      PROVE  CacheInv'
    <2>1. /\ acked' \in [Paths -> Nat] /\ cache' \in [Paths -> Nat]
          /\ \A x \in Ops \ {o} : read'[x] = read[x]
          /\ read'[o] = store
        BY <1>0, <1>9 DEF InnerRead, ReRead, CacheInv, RequestTypes, EpochInv, Types
    <2>2. CASE InnerRead(o)
        BY <1>0, <2>1, <2>2, GoOnKeeps DEF InnerRead, At
    <2>3. CASE ReRead(o)
        <3>1. req[o].kind \in {"set", "patch"}
            BY <2>3 DEF ReRead, CacheInv, RequestTypes
        <3> QED
            BY <1>0, <2>1, <2>3, <3>1, GoOnKeeps DEF ReRead, At
    <2> QED
        BY <1>9, <2>2, <2>3
<1>10. ASSUME NEW o \in Ops, NEW l \in Ops, JoinReturn(o, l)
       PROVE  CacheInv'
    <2>1. Asks(o) /\ cache' \in [Paths -> Nat]
        BY <1>10 DEF JoinReturn, CacheInv, RequestTypes
    <2>2. req[l].result \in Nat /\ req[l].found \in BOOLEAN
        BY DEF CacheInv, RequestTypes, Requests
    <2> QED
        BY <1>0, <1>10, <2>1, <2>2, AnsweredKeeps DEF JoinReturn
<1>11. ASSUME NEW p \in Paths, ExternalWrite(p)
       PROVE  CacheInv'
    <2>1. ASSUME NEW q \in Paths, Sure(q)' PROVE Sure(q) /\ store'[q] = store[q]
        <3>1. q # p /\ Sure(q)
            BY <1>11, <2>1 DEF Sure, NeverSet, ExternalWrite
        <3>2. store'[q] = store[q]
            BY <1>0, <1>11, <3>1 DEF ExternalWrite, RemoveNode, WriteNode, EpochInv, Types, Snapshot
        <3> QED
            BY <3>1, <3>2
    <2> QED
        BY <1>0, <1>11, <2>1, WriteKeeps DEF ExternalWrite
<1>12. CASE WatchReconnect \/ \E p \in Paths : WatchEvent(p)
    <2>1. CASE WatchReconnect
        BY <1>0, <2>1, ClearForgets, ForgetKeeps DEF WatchReconnect
    <2>2. ASSUME NEW p \in Paths, WatchEvent(p) PROVE CacheInv'
        BY <1>0, <2>2, InvalidateForgets, ForgetKeeps DEF WatchEvent
    <2> QED
        BY <1>12, <2>1, <2>2
<1>13. CASE UNCHANGED vars
    BY <1>0, <1>13 DEF vars, CacheInv, RequestTypes, ReadsFresh, JoinsFresh, CacheFresh, OneReader,
       Current, GetsAreFresh, Answered, NeverSet, Sure, InFlight, Asks
<1> QED
    BY <1>1, <1>2, <1>3, <1>4, <1>5, <1>6, <1>7, <1>8, <1>9, <1>10, <1>11, <1>12, <1>13
       DEF Next, PathNext

LEMMA CacheInvariance == Spec => []CacheInv
BY InitCacheInv, NextCacheInv, PTL DEF Spec

(* cache.ts:33-47: a get - a hit, a read or one that joined a read - never *)
(* answers with a node older than the last invalidation before it was      *)
(* asked, if the path is not set through the cache.                        *)
THEOREM GetsNotStale == Spec => []GetsAreFresh
<1>1. CacheInv => GetsAreFresh
    BY DEF CacheInv
<1> QED
    BY <1>1, CacheInvariance, PTL

(* cache.ts:37-47: of the gets of a path that miss in one epoch, one reads.*)
THEOREM OneReadInFlight == Spec => []OneInnerRead
<1>1. CacheInv => OneInnerRead
    <2>1. ASSUME OneReader, NEW p \in Paths
          PROVE  Cardinality(InFlight(p)) <= 1
        <3>1. CASE InFlight(p) = {}
            BY <3>1, FS_EmptySet
        <3>2. CASE InFlight(p) # {}
            <4>1. PICK l \in InFlight(p) : TRUE
                BY <3>2
            <4>2. InFlight(p) = {l}
                BY <2>1, <4>1 DEF OneReader
            <4> QED
                BY <4>2, FS_Singleton
        <3> QED
            BY <3>1, <3>2
    <2> QED
        BY <2>1 DEF CacheInv, OneInnerRead
<1> QED
    BY <1>1, CacheInvariance, PTL

(* cache.ts:88-100: once every outside write was announced and no request  *)
(* is in progress, the cache holds what is stored, if the path is not set  *)
(* through it.                                                             *)
THEOREM CacheAgreesAtRest == Spec => []CacheAgrees
<1>1. CacheInv => CacheAgrees
    <2>1. ASSUME Settled, NEW p \in Paths, NeverSet(p)
          PROVE  Sure(p)
        <3>1. \A o \in Ops : at[o] # "invalidating"
            BY <2>1 DEF Settled
        <3> QED
            BY <2>1, <3>1 DEF Sure, Settled
    <2> QED
        BY <2>1 DEF CacheAgrees, CacheInv, Current
<1> QED
    BY <1>1, CacheInvariance, PTL

-----------------------------------------------------------------------------
\* The bound and the order of the cache

(* From a list without repetitions, one element is taken.                  *)
LEMMA TakesOneAt ==
    ASSUME NEW s \in Seq(Paths), IsInjective(s), NEW k \in 1 .. Len(s)
    PROVE  /\ RemoveAt(s, k) \in Seq(Paths) /\ IsInjective(RemoveAt(s, k))
           /\ Len(RemoveAt(s, k)) = Len(s) - 1
           /\ ToSet(RemoveAt(s, k)) = ToSet(s) \ {s[k]}
<1> DEFINE head == SubSeq(s, 1, k - 1)
           tail == SubSeq(s, k + 1, Len(s))
           n == Len(s)
<1>1. n \in Nat /\ DOMAIN s = 1 .. n /\ (\A i \in 1 .. n : s[i] \in Paths) /\ k \in 1 .. n
    BY LenProperties
<1>2. /\ head \in Seq(Paths) /\ Len(head) = k - 1
      /\ \A i \in 1 .. k - 1 : head[i] = s[i]
    BY <1>1, SubSeqProperties
<1>3. /\ tail \in Seq(Paths)
      /\ Len(tail) = IF k + 1 <= n THEN n - (k + 1) + 1 ELSE 0
      /\ \A i \in 1 .. n - (k + 1) + 1 : tail[i] = s[(k + 1) + i - 1]
    BY <1>1, SubSeqProperties
<1> HIDE DEF head, tail, n
<1>4. Len(tail) = n - k
    <2>1. CASE k + 1 <= n
        BY <1>1, <1>3, <2>1
    <2>2. CASE ~(k + 1 <= n)
        BY <1>1, <1>3, <2>2
    <2> QED
        BY <2>1, <2>2
<1>5. \A i \in 1 .. n - k : tail[i] = s[k + i]
    <2> SUFFICES ASSUME NEW i \in 1 .. n - k PROVE tail[i] = s[k + i]
        OBVIOUS
    <2>1. i \in 1 .. n - (k + 1) + 1 /\ (k + 1) + i - 1 = k + i
        BY <1>1
    <2> QED
        BY <1>3, <2>1
<1> DEFINE r == head \o tail
<1>6. /\ r \in Seq(Paths) /\ Len(r) = Len(head) + Len(tail)
      /\ \A i \in 1 .. Len(head) + Len(tail) :
            r[i] = IF i <= Len(head) THEN head[i] ELSE tail[i - Len(head)]
    BY <1>2, <1>3, ConcatProperties
<1> HIDE DEF r
<1>7. Len(r) = n - 1 /\ DOMAIN r = 1 .. n - 1
    <2>1. Len(r) = n - 1
        BY <1>1, <1>2, <1>4, <1>6
    <2> QED
        BY <1>6, <2>1, LenProperties
<1>8. \A i \in 1 .. n - 1 : r[i] = IF i < k THEN s[i] ELSE s[i + 1]
    <2> SUFFICES ASSUME NEW i \in 1 .. n - 1 PROVE r[i] = IF i < k THEN s[i] ELSE s[i + 1]
        OBVIOUS
    <2>1. i \in 1 .. Len(head) + Len(tail)
        BY <1>1, <1>2, <1>4
    <2>2. CASE i < k
        BY <1>1, <1>2, <1>6, <2>1, <2>2
    <2>3. CASE ~(i < k)
        <3>1. i - Len(head) \in 1 .. n - k /\ k + (i - Len(head)) = i + 1 /\ ~(i <= Len(head))
            BY <1>1, <1>2, <2>3
        <3>2. r[i] = tail[i - Len(head)]
            BY <1>6, <2>1, <3>1
        <3> QED
            BY <1>5, <2>3, <3>1, <3>2
    <2> QED
        BY <2>2, <2>3
<1>9. IsInjective(r)
    <2> SUFFICES ASSUME NEW i \in 1 .. n - 1, NEW j \in 1 .. n - 1, r[i] = r[j] PROVE i = j
        BY <1>7 DEF IsInjective
    <2> DEFINE place(x) == IF x < k THEN x ELSE x + 1
    <2>1. r[i] = s[place(i)] /\ r[j] = s[place(j)] /\ place(i) \in 1 .. n /\ place(j) \in 1 .. n
        BY <1>1, <1>8
    <2>2. \A a, b \in 1 .. n : s[a] = s[b] => a = b
        BY <1>1 DEF IsInjective
    <2>3. place(i) = place(j)
        BY <2>1, <2>2
    <2> QED
        BY <1>1, <2>3
<1>10. ToSet(r) = ToSet(s) \ {s[k]}
    <2>1. ASSUME NEW i \in 1 .. n - 1 PROVE r[i] \in ToSet(s) /\ r[i] # s[k]
        <3>1. ASSUME NEW j \in 1 .. n, j # k PROVE s[j] \in ToSet(s) /\ s[j] # s[k]
            BY <1>1, <3>1 DEF ToSet, IsInjective
        <3>2. CASE i < k
            <4>1. i \in 1 .. n /\ i # k /\ r[i] = s[i]
                BY <1>1, <1>8, <3>2
            <4> QED
                BY <3>1, <4>1
        <3>3. CASE ~(i < k)
            <4>1. i + 1 \in 1 .. n /\ i + 1 # k /\ r[i] = s[i + 1]
                BY <1>1, <1>8, <3>3
            <4> QED
                BY <3>1, <4>1
        <3> QED
            BY <3>2, <3>3
    <2>2. ASSUME NEW j \in 1 .. n, j # k PROVE s[j] \in ToSet(r)
        <3>1. CASE j < k
            <4>1. j \in 1 .. n - 1 /\ r[j] = s[j]
                BY <1>1, <1>8, <3>1
            <4> QED
                BY <1>7, <4>1 DEF ToSet
        <3>2. CASE j > k
            <4>1. j - 1 \in 1 .. n - 1 /\ ~(j - 1 < k) /\ (j - 1) + 1 = j
                BY <1>1, <3>2
            <4>2. r[j - 1] = s[j]
                BY <1>8, <4>1
            <4> QED
                BY <1>7, <4>1, <4>2 DEF ToSet
        <3> QED
            BY <1>1, <2>2, <3>1, <3>2
    <2> QED
        BY <1>1, <1>7, <2>1, <2>2 DEF ToSet
<1> QED
    BY <1>6, <1>7, <1>9, <1>10 DEF RemoveAt, r, head, tail, n

LEMMA WithoutTakesOne ==
    ASSUME order \in Seq(Paths), IsInjective(order), NEW p
    PROVE  /\ Without(p) \in Seq(Paths) /\ IsInjective(Without(p))
           /\ ToSet(Without(p)) = ToSet(order) \ {p}
           /\ Len(Without(p)) = IF p \in ToSet(order) THEN Len(order) - 1 ELSE Len(order)
<1>0. DOMAIN order = 1 .. Len(order) /\ Len(order) \in Nat
    BY LenProperties
<1>1. CASE p \notin ToSet(order)
    <2>1. ~\E i \in 1 .. Len(order) : order[i] = p
        BY <1>0, <1>1 DEF ToSet
    <2> QED
        BY <1>1, <2>1 DEF Without, RemoveFirst
<1>2. CASE p \in ToSet(order)
    <2>1. PICK k \in 1 .. Len(order) : order[k] = p
        BY <1>0, <1>2 DEF ToSet
    <2>2. {i \in 1 .. Len(order) : order[i] = p} = {k}
        BY <1>0, <2>1 DEF IsInjective
    <2>3. Min({k}) = k
        BY <1>0 DEF Min
    <2>4. SelectInSeq(order, LAMBDA v : v = p) = k
        BY <2>2, <2>3 DEF SelectInSeq
    <2>5. Without(p) = RemoveAt(order, k)
        BY <2>1, <2>4 DEF Without, RemoveFirst
    <2> QED
        BY <1>2, <2>1, <2>5, TakesOneAt
<1> QED
    BY <1>1, <1>2

LEMMA TailTakesHead ==
    ASSUME order \in Seq(Paths), IsInjective(order), order # <<>>
    PROVE  /\ Tail(order) \in Seq(Paths) /\ IsInjective(Tail(order))
           /\ ToSet(Tail(order)) = ToSet(order) \ {Head(order)}
           /\ Len(Tail(order)) = Len(order) - 1 /\ Head(order) \in ToSet(order)
<1>1. /\ Len(order) \in Nat \ {0} /\ DOMAIN order = 1 .. Len(order) /\ Head(order) = order[1]
      /\ Tail(order) \in Seq(Paths) /\ Len(Tail(order)) = Len(order) - 1
      /\ \A i \in 1 .. Len(Tail(order)) : Tail(order)[i] = order[i + 1]
    BY HeadTailProperties, LenProperties, EmptySeq
<1> DEFINE t == Tail(order)
           n == Len(order)
<1>2. /\ n \in Nat \ {0} /\ DOMAIN order = 1 .. n /\ DOMAIN t = 1 .. n - 1
      /\ \A i \in 1 .. n - 1 : t[i] = order[i + 1]
    BY <1>1, LenProperties
<1> HIDE DEF t, n
<1>3. IsInjective(t)
    <2> SUFFICES ASSUME NEW i \in 1 .. n - 1, NEW j \in 1 .. n - 1, t[i] = t[j] PROVE i = j
        BY <1>2 DEF IsInjective
    <2>1. i + 1 \in 1 .. n /\ j + 1 \in 1 .. n /\ order[i + 1] = order[j + 1]
        BY <1>2
    <2>2. \A a, b \in 1 .. n : order[a] = order[b] => a = b
        BY <1>2 DEF IsInjective
    <2>3. i + 1 = j + 1
        BY <2>1, <2>2
    <2> QED
        BY <1>2, <2>3
<1>4. ToSet(t) = ToSet(order) \ {order[1]}
    <2>1. ASSUME NEW i \in 1 .. n - 1 PROVE t[i] \in ToSet(order) /\ t[i] # order[1]
        <3>1. i + 1 \in 1 .. n /\ i + 1 # 1 /\ 1 \in 1 .. n /\ t[i] = order[i + 1]
            BY <1>2
        <3> QED
            BY <1>2, <3>1 DEF ToSet, IsInjective
    <2>2. ASSUME NEW j \in 1 .. n, j # 1 PROVE order[j] \in ToSet(t)
        <3>1. j - 1 \in 1 .. n - 1 /\ (j - 1) + 1 = j
            BY <1>2, <2>2
        <3>2. t[j - 1] = order[j]
            BY <1>2, <3>1
        <3> QED
            BY <1>2, <3>1, <3>2 DEF ToSet
    <2>3. /\ ToSet(t) = {t[i] : i \in 1 .. n - 1}
          /\ ToSet(order) = {order[j] : j \in 1 .. n}
        BY <1>2 DEF ToSet
    <2> QED
        BY <2>1, <2>2, <2>3
<1>5. order[1] \in ToSet(order)
    BY <1>2 DEF ToSet
<1> QED
    BY <1>1, <1>3, <1>4, <1>5 DEF t

LEMMA AppendsOne ==
    ASSUME NEW s \in Seq(Paths), IsInjective(s), NEW p \in Paths, p \notin ToSet(s)
    PROVE  /\ Append(s, p) \in Seq(Paths) /\ IsInjective(Append(s, p))
           /\ ToSet(Append(s, p)) = ToSet(s) \cup {p}
           /\ Len(Append(s, p)) = Len(s) + 1
<1> DEFINE t == Append(s, p)
           n == Len(s)
<1>1. /\ t \in Seq(Paths) /\ Len(t) = n + 1
      /\ (\A i \in 1 .. n : t[i] = s[i]) /\ t[n + 1] = p
    BY AppendProperties
<1>2. n \in Nat /\ DOMAIN s = 1 .. n /\ DOMAIN t = 1 .. n + 1
    BY <1>1, LenProperties
<1> HIDE DEF t, n
<1>3. \A i \in 1 .. n : t[i] \in ToSet(s) /\ t[i] # p
    BY <1>1, <1>2 DEF ToSet
<1>4. IsInjective(t)
    <2> SUFFICES ASSUME NEW i \in 1 .. n + 1, NEW j \in 1 .. n + 1, t[i] = t[j] PROVE i = j
        BY <1>2 DEF IsInjective
    <2>1. CASE i \in 1 .. n /\ j \in 1 .. n
        BY <1>1, <1>2, <2>1 DEF IsInjective
    <2>2. CASE ~(i \in 1 .. n /\ j \in 1 .. n)
        BY <1>1, <1>2, <1>3, <2>2
    <2> QED
        BY <2>1, <2>2
<1>5. ToSet(t) = ToSet(s) \cup {p}
    <2>1. ToSet(t) = {t[i] : i \in 1 .. n + 1} /\ ToSet(s) = {s[i] : i \in 1 .. n}
        BY <1>2 DEF ToSet
    <2>2. \A i \in 1 .. n + 1 : i \in 1 .. n \/ i = n + 1
        BY <1>2
    <2>3. \A i \in 1 .. n : i \in 1 .. n + 1
        BY <1>2
    <2>4. n + 1 \in 1 .. n + 1
        BY <1>2
    <2> QED
        BY <1>1, <2>1, <2>2, <2>3, <2>4
<1> QED
    BY <1>1, <1>4, <1>5 DEF t, n

(* The version 0 stands for no entry: nothing that is stored has it.       *)
Versioned ==
    /\ \A p \in Paths : store[p].ver # Missing
    /\ \A o \in Ops, p \in Paths : read[o][p].ver # Missing

Shape == order \in Seq(Paths) /\ CacheShape

LEMMA CacheSetShape ==
    ASSUME RequestTypes, Shape, NEW p \in Paths, NEW v \in Nat, v # Missing, CacheSet(p, v)
    PROVE  Shape'
<1>0. /\ order \in Seq(Paths) /\ IsInjective(order) /\ Len(order) \in Nat /\ Len(order) <= Capacity
      /\ \A q \in Paths : q \in ToSet(order) <=> cache[q] # Missing
      /\ ToSet(order) \subseteq Paths
    BY LenProperties DEF Shape, CacheShape
<1>1. CASE cache[p] = Missing /\ Len(order) >= Capacity
    <2>1. order' = Append(Tail(order), p)
        BY <1>1 DEF CacheSet
    <2>2. \A q \in Paths : cache'[q] = IF q = p THEN v ELSE IF q = Head(order) THEN Missing ELSE cache[q]
        BY <1>1 DEF CacheSet
    <2>3. order # <<>>
        BY <1>0, <1>1, EmptySeq
    <2>4. /\ Tail(order) \in Seq(Paths) /\ IsInjective(Tail(order))
          /\ ToSet(Tail(order)) = ToSet(order) \ {Head(order)}
          /\ Len(Tail(order)) = Len(order) - 1
        BY <1>0, <2>3, TailTakesHead
    <2>5. p \notin ToSet(Tail(order))
        BY <1>0, <1>1, <2>4
    <2>6. /\ order' \in Seq(Paths) /\ IsInjective(order')
          /\ ToSet(order') = (ToSet(order) \ {Head(order)}) \cup {p}
          /\ Len(order') = Len(order) - 1 + 1
        BY <2>1, <2>4, <2>5, AppendsOne
    <2>7. ToSet(order') = {q \in Paths : cache'[q] # Missing}
        BY <1>0, <1>1, <2>2, <2>6
    <2> QED
        BY <1>0, <2>6, <2>7 DEF Shape, CacheShape
<1>2. CASE ~(cache[p] = Missing /\ Len(order) >= Capacity)
    <2>1. order' = Append(Without(p), p)
        BY <1>2 DEF CacheSet
    <2>2. \A q \in Paths : cache'[q] = IF q = p THEN v ELSE cache[q]
        BY <1>2 DEF CacheSet
    <2>3. /\ Without(p) \in Seq(Paths) /\ IsInjective(Without(p))
          /\ ToSet(Without(p)) = ToSet(order) \ {p}
          /\ Len(Without(p)) = IF p \in ToSet(order) THEN Len(order) - 1 ELSE Len(order)
        BY <1>0, WithoutTakesOne
    <2>4. /\ order' \in Seq(Paths) /\ IsInjective(order')
          /\ ToSet(order') = ToSet(order) \cup {p}
          /\ Len(order') = Len(Without(p)) + 1
        BY <2>1, <2>3, AppendsOne
    <2>5. Len(order') <= Capacity
        BY <1>0, <1>2, <2>3, <2>4
    <2>6. ToSet(order') = {q \in Paths : cache'[q] # Missing}
        BY <1>0, <2>2, <2>4
    <2> QED
        BY <2>4, <2>5, <2>6 DEF Shape, CacheShape
<1> QED
    BY <1>1, <1>2

LEMMA FillShape ==
    ASSUME CacheInv, Versioned, Shape, NEW o \in Ops, NEW p \in Paths, Fill(o, p)
    PROVE  Shape'
<1>1. read[o][p].ver \in Nat /\ read[o][p].ver # Missing
    BY DEF CacheInv, EpochInv, Types, Snapshot, Node, Versioned
<1>2. CASE UNCHANGED <<cache, order>>
    BY <1>2 DEF Shape, CacheShape
<1> QED
    BY <1>1, <1>2, CacheSetShape DEF Fill, CacheInv

LEMMA InvalidateShape ==
    ASSUME Shape, NEW p \in Paths, Invalidate(p)
    PROVE  Shape'
<1>1. /\ order' = Without(p)
      /\ \A q \in Paths : cache'[q] = IF q = p THEN Missing ELSE cache[q]
    BY DEF Invalidate, CacheDelete
<1>2. /\ order' \in Seq(Paths) /\ IsInjective(order') /\ ToSet(order') = ToSet(order) \ {p}
      /\ Len(order') = IF p \in ToSet(order) THEN Len(order) - 1 ELSE Len(order)
    BY <1>1, WithoutTakesOne DEF Shape, CacheShape
<1>3. Len(order) \in Nat
    BY LenProperties DEF Shape
<1> QED
    BY <1>1, <1>2, <1>3 DEF Shape, CacheShape

LEMMA ClearShape == InvalidateAll => Shape'
<1> SUFFICES ASSUME InvalidateAll PROVE Shape'
    OBVIOUS
<1>1. order' = <<>> /\ \A q \in Paths : cache'[q] = Missing
    BY DEF InvalidateAll, CacheClear
<1>2. order' \in Seq(Paths) /\ Len(order') = 0 /\ DOMAIN order' = {}
    BY <1>1, EmptySeq
<1>3. ToSet(order') = {} /\ IsInjective(order')
    BY <1>2 DEF ToSet, IsInjective
<1> QED
    BY <1>1, <1>2, <1>3 DEF Shape, CacheShape

LEMMA VersionedStep == CacheInv /\ Versioned /\ [Next]_vars => Versioned'
<1> SUFFICES ASSUME CacheInv, Versioned, [Next]_vars PROVE Versioned'
    OBVIOUS
<1>0. store \in Snapshot /\ read \in [Ops -> Snapshot]
    BY DEF CacheInv, EpochInv, Types
<1>1. ASSUME NEW p \in Paths, WriteNode(p) \/ RemoveNode(p)
      PROVE  \A q \in Paths : store'[q].ver # Missing
    <2>1. CASE WriteNode(p)
        BY <1>0, <2>1 DEF WriteNode, Versioned, Snapshot, Node, Missing
    <2>2. CASE RemoveNode(p) /\ store[p].live
        BY <1>0, <2>2 DEF RemoveNode, Versioned, Snapshot, Node, Missing
    <2>3. CASE RemoveNode(p) /\ ~store[p].live
        BY <1>0, <2>3 DEF RemoveNode, Versioned, Snapshot, Node, Missing
    <2> QED
        BY <1>1, <2>1, <2>2, <2>3
<1>2. CASE read' = read /\ (store' = store \/ \E p \in Paths : WriteNode(p) \/ RemoveNode(p))
    BY <1>1, <1>2 DEF Versioned
<1>3. CASE store' = store /\ \E o \in Ops : read' = [read EXCEPT ![o] = store]
    BY <1>0, <1>3 DEF Versioned
<1>4. ASSUME NEW o \in Ops, NEW p \in Paths, PathNext(o, p) PROVE Versioned'
    <2>1. read' = read /\ (store' = store \/ WriteNode(p) \/ RemoveNode(p))
        BY <1>4 DEF PathNext, StartGet, GetHit, GetJoin, GetMiss, SetStart, RemoveStart, GetFill,
            ListFill, InnerSet, CachePut, InnerRemove, RemoveInvalidate, treeVars
    <2> QED
        BY <1>2, <2>1
<1>5. CASE UNCHANGED vars
    BY <1>2, <1>5 DEF vars
<1> QED
    BY <1>2, <1>3, <1>4, <1>5
    DEF Next, ListStart, InnerRead, ReRead, JoinReturn, ExternalWrite, WatchEvent, WatchReconnect,
        treeVars

LEMMA ShapeStep == CacheInv /\ Versioned /\ Shape /\ [Next]_vars => Shape'
<1> SUFFICES ASSUME CacheInv, Versioned, Shape, [Next]_vars PROVE Shape'
    OBVIOUS
<1>1. CASE UNCHANGED <<cache, order>>
    BY <1>1 DEF Shape, CacheShape
<1>2. ASSUME NEW o \in Ops, NEW p \in Paths, PathNext(o, p) PROVE Shape'
    <2>1. CASE Fill(o, p)
        BY <2>1, FillShape
    <2>2. CASE CachePut(o, p)
        <3>1. read[o][p].ver \in Nat /\ read[o][p].ver # Missing
            BY DEF CacheInv, EpochInv, Types, Snapshot, Node, Versioned
        <3> QED
            BY <1>1, <2>2, <3>1, CacheSetShape DEF CachePut, CacheInv
    <2>3. CASE RemoveInvalidate(o, p)
        BY <2>3, InvalidateShape DEF RemoveInvalidate
    <2> QED
        BY <1>1, <1>2, <2>1, <2>2, <2>3
        DEF PathNext, StartGet, GetHit, GetJoin, GetMiss, SetStart, RemoveStart, GetFill, ListFill,
            InnerSet, InnerRemove, cacheVars
<1>3. CASE WatchReconnect \/ \E p \in Paths : WatchEvent(p)
    BY <1>3, InvalidateShape, ClearShape DEF WatchReconnect, WatchEvent
<1>4. CASE UNCHANGED vars
    BY <1>1, <1>4 DEF vars
<1> QED
    BY <1>1, <1>2, <1>3, <1>4
    DEF Next, ListStart, InnerRead, ReRead, JoinReturn, ExternalWrite, cacheVars

(* bounded-cache.ts: for any capacity, paths and requests, the cache holds *)
(* no more than its capacity, and what it evicts in order is what it holds.*)
THEOREM BoundedInOrder == Spec => []CacheShape
<1>1. Init => Versioned /\ Shape
    <2> SUFFICES ASSUME Init PROVE Versioned /\ Shape
        OBVIOUS
    <2>1. Versioned
        BY DEF Init, Versioned, Missing
    <2>2. order \in Seq(Paths) /\ Len(order) = 0 /\ DOMAIN order = {}
        BY EmptySeq DEF Init
    <2>3. ToSet(order) = {} /\ IsInjective(order)
        BY <2>2 DEF ToSet, IsInjective
    <2>4. {p \in Paths : cache[p] # Missing} = {}
        BY DEF Init
    <2> QED
        BY <2>1, <2>2, <2>3, <2>4 DEF Shape, CacheShape
<1>2. Shape => CacheShape
    BY DEF Shape
<1> QED
    BY <1>1, <1>2, InitCacheInv, NextCacheInv, VersionedStep, ShapeStep, PTL DEF Spec
=============================================================================
