----------------------------- MODULE MountWatch -----------------------------
(***************************************************************************)
(* A mount of an external store: how core/src/mount/index.ts resolves it   *)
(* lazily and caches the adapter with its external watch, how              *)
(* sub/external-watch.ts consumes the watch (without the optional dedup),  *)
(* and how server/server.ts ties both to the outer cache (tree/cache.ts).  *)
(*                                                                         *)
(* Adapters are cached per user, the nodes under the mount for everyone,   *)
(* and reads of one node join the one in flight.  The mount's config is a  *)
(* number that names the external store it points to.                      *)
(***************************************************************************)
EXTENDS Naturals, Sequences, FiniteSets, SequencesExt

CONSTANTS
    Users, Nodes,
    Nothing,        \* the cache holds no node
    CacheMax,       \* capacity of the mount cache
    MaxChanges, MaxConfigs, MaxWatches, MaxOpens    \* bounds

ASSUME MountAssumption ==
    /\ CacheMax \in Nat \ {0}
    /\ MaxChanges \in Nat /\ MaxConfigs \in Nat \ {0}
    /\ MaxWatches \in Nat /\ MaxOpens \in Nat

VARIABLES
    config,         \* the stored config of the mount
    writing,        \* a write of the config is past its invalidation
    ext,            \* ext[c][n]: version of node n in store c
    lookup,         \* lookup[n]: where the read of n is
    mounts,         \* the mount cache, oldest entry first
    watches,        \* the external watches in the order they were started
    cached,         \* cached[n]: the outer cache's node
    told            \* told[c][n]: newest version an event was forwarded of

vars == <<config, writing, ext, lookup, mounts, watches, cached, told>>

Configs == 1..MaxConfigs
Idle == [at |-> "idle", user |-> Nothing, ok |-> FALSE,
         config |-> 1, watch |-> 0, opened |-> 0, ver |-> 0]

Init ==
    /\ config = 1 /\ writing = FALSE
    /\ ext = [c \in Configs |-> [n \in Nodes |-> 0]]
    /\ told = ext
    /\ lookup = [n \in Nodes |-> Idle]
    /\ mounts = <<>> /\ watches = <<>>
    /\ cached = [n \in Nodes |-> Nothing]

-----------------------------------------------------------------------------
Entry(u) == {e \in ToSet(mounts) : e.user = u}

(* Slip: eviction leaves the watch running.                                *)
AbortNothing(E, W) == W

Stopped == [config |-> 1, st |-> "stopped", queue |-> <<>>, opened |-> 0]

(* onEvict: the watch that came with an entry is aborted.                  *)
Abort(E, W) ==
    [w \in DOMAIN W |-> IF \E e \in E : e.watch = w
                        THEN Stopped ELSE W[w]]

(* get past the outer cache, for user u: the user's adapter is used, or    *)
(* the config is read and its adapter called.                              *)
Lookup(n, u) ==
    /\ lookup[n].at = "idle" /\ cached[n] = Nothing
    /\ lookup' = [lookup EXCEPT ![n] =
        IF Entry(u) # {}
        THEN LET e == CHOOSE e \in Entry(u) : TRUE
             IN [Idle EXCEPT !.at = "read", !.user = u, !.ok = TRUE,
                             !.config = e.config, !.watch = e.watch]
        ELSE [Idle EXCEPT !.at = "connect", !.user = u, !.ok = TRUE, !.config = config]]
    /\ UNCHANGED <<config, writing, ext, mounts, watches, cached, told>>

(* The adapter is connected and starts an external watch ...               *)
Connected(n) ==
    /\ lookup[n].at = "connect" /\ Len(watches) < MaxWatches
    /\ watches' = Append(watches, [config |-> lookup[n].config, st |-> "open",
                                   queue |-> <<>>, opened |-> 1])
    /\ lookup' = [lookup EXCEPT ![n].at = "mount", ![n].watch = Len(watches')]
    /\ UNCHANGED <<config, writing, ext, mounts, cached, told>>

(* ... or cannot connect, and the read fails.                              *)
ConnectFails(n) ==
    /\ lookup[n].at = "connect"
    /\ lookup' = [lookup EXCEPT ![n] = Idle]
    /\ UNCHANGED <<config, writing, ext, mounts, watches, cached, told>>

Own(u) == {i \in DOMAIN mounts : mounts[i].user = u}

(* Slip: only the user's own entry goes.                                   *)
GoneOwn(u) == Own(u)

(* cacheMount replaces the user's entry, or the oldest of a full cache:    *)
(* where the entry is that goes, if one does.                              *)
Gone(u) ==
    IF Own(u) # {} THEN Own(u)
    ELSE IF Len(mounts) >= CacheMax THEN {1} ELSE {}

Without(gone) ==
    IF gone = {} THEN mounts ELSE RemoveAt(mounts, CHOOSE i \in gone : TRUE)

Mount(n) ==
    LET gone == Gone(lookup[n].user)
        entry == [user |-> lookup[n].user, config |-> lookup[n].config,
                  watch |-> lookup[n].watch]
    IN
    /\ lookup[n].at = "mount"
    /\ mounts' = Append(Without(gone), entry)
    /\ watches' = Abort({mounts[i] : i \in gone}, watches)
    /\ lookup' = [lookup EXCEPT ![n].at = "read"]
    /\ UNCHANGED <<config, writing, ext, cached, told>>

Read(n) ==
    /\ lookup[n].at = "read"
    /\ lookup' = [lookup EXCEPT ![n].at = "fill",
                                ![n].ver = ext[lookup[n].config][n],
                                ![n].opened = watches[lookup[n].watch].opened]
    /\ UNCHANGED <<config, writing, ext, mounts, watches, cached, told>>

Value(n) == [config |-> lookup[n].config, ver |-> lookup[n].ver,
             watch |-> lookup[n].watch, opened |-> lookup[n].opened]

(* Slip: a read fills the cache whatever was invalidated since.            *)
FillAlways(n) ==
    /\ lookup[n].at = "fill"
    /\ cached' = [cached EXCEPT ![n] = Value(n)]
    /\ lookup' = [lookup EXCEPT ![n] = Idle]
    /\ UNCHANGED <<config, writing, ext, mounts, watches, told>>

(* The outer cache takes the node, unless something was invalidated since  *)
(* the read began.                                                         *)
Fill(n) ==
    /\ lookup[n].at = "fill"
    /\ cached' = [cached EXCEPT ![n] = IF lookup[n].ok THEN Value(n) ELSE @]
    /\ lookup' = [lookup EXCEPT ![n] = Idle]
    /\ UNCHANGED <<config, writing, ext, mounts, watches, told>>

-----------------------------------------------------------------------------
(* set or patch of the mount's config: invalidateMount, and then the write.*)
Invalidate ==
    /\ ~writing /\ config < MaxConfigs
    /\ writing' = TRUE
    /\ mounts' = <<>>
    /\ watches' = Abort(ToSet(mounts), watches)
    /\ UNCHANGED <<config, ext, lookup, cached, told>>

Store ==
    /\ writing
    /\ writing' = FALSE /\ config' = config + 1
    /\ UNCHANGED <<ext, lookup, mounts, watches, cached, told>>

-----------------------------------------------------------------------------
\* External changes and the watches

Open(w) == watches[w].st = "open" /\ \A i \in DOMAIN watches[w].queue : watches[w].queue[i] # Nothing

Changes == {x \in Configs \X Nodes \X (1..MaxChanges) : x[3] <= ext[x[1]][x[2]]}

(* Someone else changes the store; the sources of its watches report it.   *)
ExternalChange(c, n) ==
    /\ Cardinality(Changes) < MaxChanges
    /\ ext' = [ext EXCEPT ![c][n] = @ + 1]
    /\ watches' = [w \in DOMAIN watches |->
        IF watches[w].config = c /\ Open(w)
        THEN [watches[w] EXCEPT !.queue = Append(@, [node |-> n, ver |-> ext'[c][n]])]
        ELSE watches[w]]
    /\ UNCHANGED <<config, writing, lookup, mounts, cached, told>>

(* The source fails, behind the events it has reported.                    *)
SourceFails(w) ==
    /\ Open(w)
    /\ watches' = [watches EXCEPT ![w].queue = Append(@, Nothing)]
    /\ UNCHANGED <<config, writing, ext, lookup, mounts, cached, told>>

Refused == [n \in Nodes |-> [lookup[n] EXCEPT !.ok = FALSE]]

(* Slip: reads under way are stopped, the cached node is forgotten about.  *)
ForwardKeepsNode(w) ==
    LET event == Head(watches[w].queue) IN
    /\ watches[w].st = "open" /\ watches[w].queue # <<>> /\ event # Nothing
    /\ watches' = [watches EXCEPT ![w].queue = Tail(@)]
    /\ lookup' = Refused
    /\ told' = [told EXCEPT ![watches[w].config][event.node] = event.ver]
    /\ UNCHANGED <<config, writing, ext, mounts, cached>>

(* An event: the outer cache drops the node, and reads under way will not  *)
(* fill it; then the event is forwarded.                                   *)
Forward(w) ==
    LET event == Head(watches[w].queue) IN
    /\ watches[w].st = "open" /\ watches[w].queue # <<>> /\ event # Nothing
    /\ watches' = [watches EXCEPT ![w].queue = Tail(@)]
    /\ cached' = [cached EXCEPT ![event.node] = Nothing]
    /\ lookup' = Refused
    /\ told' = [told EXCEPT ![watches[w].config][event.node] = event.ver]
    /\ UNCHANGED <<config, writing, ext, mounts>>

(* The stream's error, or its reconnect: invalidateCacheAll empties the    *)
(* outer cache and the mount cache, with the failed watch's own entry, so  *)
(* that the watch waits for its retry only while it has no entry yet.      *)
Fail(w) ==
    /\ watches[w].st = "open" /\ watches[w].queue # <<>> /\ Head(watches[w].queue) = Nothing
    /\ cached' = [n \in Nodes |-> Nothing]
    /\ lookup' = Refused
    /\ mounts' = <<>>
    /\ watches' = Abort(ToSet(mounts),
                        [watches EXCEPT ![w].st = "waiting", ![w].queue = <<>>])
    /\ UNCHANGED <<config, writing, ext, told>>

(* The backoff is over.                                                    *)
Retry(w) ==
    /\ watches[w].st = "waiting" /\ watches[w].opened < MaxOpens
    /\ watches' = [watches EXCEPT ![w].st = "open", ![w].opened = @ + 1]
    /\ UNCHANGED <<config, writing, ext, lookup, mounts, cached, told>>

Next ==
    \/ \E n \in Nodes :
        \/ \E u \in Users : Lookup(n, u)
        \/ Connected(n) \/ ConnectFails(n) \/ Mount(n) \/ Read(n) \/ Fill(n)
    \/ Invalidate \/ Store
    \/ \E c \in Configs, n \in Nodes : ExternalChange(c, n)
    \/ \E w \in DOMAIN watches : SourceFails(w) \/ Forward(w) \/ Fail(w) \/ Retry(w)

Spec == Init /\ [][Next]_vars

-----------------------------------------------------------------------------
TypeOK ==
    /\ config \in Configs
    /\ Len(mounts) <= CacheMax
    /\ \A i, j \in DOMAIN mounts : mounts[i].user = mounts[j].user => i = j
    /\ \A i \in DOMAIN mounts : mounts[i].watch \in DOMAIN watches
    /\ \A n \in Nodes : lookup[n].at \in {"mount", "read", "fill"}
                            => lookup[n].watch \in DOMAIN watches

(* mount/index.ts:70: no watch outlives its cache entry, and no cached     *)
(* adapter is left without its watch: however lookups of the same mount,   *)
(* evictions, config writes and failures of the source interleave.         *)
WatchIffMounted ==
    \A w \in DOMAIN watches :
        watches[w].st # "stopped" <=>
            \/ \E i \in DOMAIN mounts : mounts[i].watch = w
            \/ \E n \in Nodes : lookup[n].at = "mount" /\ lookup[n].watch = w

(* external-watch.ts:128: what the outer cache holds is never older than   *)
(* what an event has told the clients.                                     *)
CacheIsAsNewAsEvents ==
    \A n \in Nodes : cached[n] # Nothing => cached[n].ver >= told[cached[n].config][n]

(* While the watch that a node was read under is open without a break, a   *)
(* stale node is about to be dropped: an event for it is on its way.       *)
StaleIsReported ==
    \A n \in Nodes : cached[n] # Nothing =>
        LET w == cached[n].watch
            q == watches[w].queue
        IN  Open(w) /\ watches[w].opened = cached[n].opened
            /\ cached[n].ver < ext[cached[n].config][n]
                => \E i \in DOMAIN q : q[i].node = n
=============================================================================
