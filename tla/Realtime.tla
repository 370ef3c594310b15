------------------------------ MODULE Realtime ------------------------------
(***************************************************************************)
(* One node from its writers to a browser that shows it: the write path    *)
(* with change events (core/src/sub/index.ts), their filtering and         *)
(* delivery (sub/watch-filter.ts), and the client's cache with optimistic  *)
(* actions (packages/react/src/tree/events.ts, rebase.ts, cache.ts).       *)
(*                                                                         *)
(* A field holds the set of operations its value takes into account, so    *)
(* that a lost or repeated change shows.  Own operations are optimistic    *)
(* actions of the client, foreign ones come from elsewhere.  races names   *)
(* what the code leaves to luck and a behaviour allows:                     *)
(*   "writers"  operations on the node overlap (no lock around tree.patch) *)
(*   "filters"  events overtake one another in their filters               *)
(*   "late"     the answer to a fetch is overtaken by newer events         *)
(*   "gap"      changes come between a fetch's read and its watch          *)
(*   "away"     a client is away for less than the grace period            *)
(*   "resync"   actions are under way while a client resynchronises        *)
(***************************************************************************)
EXTENDS Naturals, Sequences, SequencesExt, FiniteSets

CONSTANTS
    Own, Foreign,   \* the operations: of this client, of others
    Fields,
    Target,         \* Target[o]: the field that operation o changes
    Listed(_),      \* whether a node with these fields is in the query
    NoNode,
    MaxAway,        \* bound: how often the connection is lost
    Races           \* the sets of races that behaviours may allow

Ops == Own \cup Foreign

ASSUME RealtimeAssumption ==
    /\ Own \cap Foreign = {} /\ IsFiniteSet(Own)
    /\ Target \in [Ops -> Fields]
    /\ Races \subseteq SUBSET {"writers", "filters", "late", "gap", "away", "resync"}
    /\ MaxAway \in Nat
    /\ \A val \in [Fields -> SUBSET Ops] : Listed(val) \in BOOLEAN
    /\ NoNode \notin [rev : Nat, val : [Fields -> SUBSET Ops]]

VARIABLES
    races,          \* the races this behaviour allows
    log,            \* log[r]: the fields of the stored node at revision r
    stage,          \* stage[o]: where the request of operation o is
    before,         \* before[o]: the node as o read it before its write
    watching,       \* the server has the client's watch
    online,         \* the connection is open
    stream,         \* events and answers on their way, each with its number
    sent,           \* how many were sent
    asked,          \* fetches that are not yet served
    read,           \* the node a fetch has read while its watch is not made
    shown,          \* the client's cache
    confirmed,      \* rebase.ts: the node without optimistic changes
    pending,        \* rebase.ts: the optimistic actions, in order
    listing,        \* the client lists the node under the query
    away            \* how often the connection was lost

serverVars == <<races, log, stage, before>>
netVars == <<watching, online, stream, sent, asked, read, away>>
clientVars == <<shown, confirmed, pending, listing>>
vars == <<serverVars, netVars, clientVars>>

Node(r) == [rev |-> r, val |-> log[r]]
Stored == Node(Len(log))

Init ==
    /\ races \in Races
    /\ log = <<[f \in Fields |-> {}]>>
    /\ stage = [o \in Ops |-> "new"]
    /\ before = [o \in Ops |-> log[1]]
    /\ watching = FALSE /\ online = TRUE
    /\ stream = {} /\ sent = 0 /\ asked = 1 /\ read = NoNode /\ away = 0
    /\ shown = NoNode /\ confirmed = NoNode /\ pending = <<>>
    /\ listing = FALSE

-----------------------------------------------------------------------------
\* The write path

Under(o) == stage[o] \in {"read", "written"}

(* patch: the node is read ...                                             *)
Read(o) ==
    /\ stage[o] = "called"
    /\ "writers" \notin races => \A p \in Ops : ~Under(p)
    /\ stage' = [stage EXCEPT ![o] = "read"]
    /\ before' = [before EXCEPT ![o] = Stored.val]
    /\ UNCHANGED <<races, log, netVars, clientVars>>

Value(o) == before[o][Target[o]] \cup {o}

(* ... the field is replaced ...                                           *)
Write(o) ==
    /\ stage[o] = "read"
    /\ "gap" \notin races => read = NoNode
    /\ stage' = [stage EXCEPT ![o] = "written"]
    /\ log' = Append(log, [Stored.val EXCEPT ![Target[o]] = Value(o)])
    /\ UNCHANGED <<races, before, netVars, clientVars>>

(* cdcEval: how the write moves the node in or out of the query.           *)
Delta(old, new) ==
    CASE ~Listed(old) /\ Listed(new) -> "add"
      [] Listed(old) /\ ~Listed(new) -> "rm"
      [] OTHER -> "none"

(* Slip: the event carries the revision from before the write.             *)
EventOldRev(o) ==
    [no |-> sent, kind |-> "patch", field |-> Target[o], value |-> Value(o),
     rev |-> Stored.rev - 1, delta |-> Delta(before[o], Stored.val)]

Event(o) ==
    [no |-> sent, kind |-> "patch", field |-> Target[o], value |-> Value(o),
     rev |-> Stored.rev, delta |-> Delta(before[o], Stored.val)]

(* ... and read again, and the event is sent with the revision found.      *)
Emit(o) ==
    /\ stage[o] = "written"
    /\ stage' = [stage EXCEPT ![o] = "done"]
    /\ IF watching /\ online
       THEN stream' = stream \cup {Event(o)} /\ sent' = sent + 1
       ELSE UNCHANGED <<stream, sent>>
    /\ UNCHANGED <<races, log, before, watching, online, asked, read, away, clientVars>>

(* The action fails before it changes anything.                            *)
Reject(o) ==
    /\ stage[o] = "called"
    /\ stage' = [stage EXCEPT ![o] = "rejected"]
    /\ UNCHANGED <<races, log, before, netVars, clientVars>>

-----------------------------------------------------------------------------
\* The client

(* replayAndPut: the actions applied to the confirmed node.                *)
Replay(node, actions) ==
    [rev |-> node.rev, val |-> [f \in Fields |->
        node.val[f] \cup {o \in ToSet(actions) : Target[o] = f}]]

(* What the client takes for the stored node.                              *)
Base == IF pending = <<>> THEN shown ELSE confirmed

Synced ==
    online /\ asked = 0 /\ read = NoNode /\ \A m \in stream : m.kind = "patch"

(* execute: pushOptimistic, for a cached node, and the request.            *)
Call(o) ==
    /\ stage[o] = "new"
    /\ stage' = [stage EXCEPT ![o] = "called"]
    /\ IF o \in Own
       THEN /\ shown # NoNode
            /\ "resync" \notin races => Synced
            /\ confirmed' = Base
            /\ pending' = Append(pending, o)
            /\ shown' = Replay(confirmed', pending')
       ELSE UNCHANGED <<confirmed, pending, shown>>
    /\ UNCHANGED <<races, log, before, netVars, listing>>

(* Slip: the confirmed node is dropped with actions still pending.         *)
SettleForgets(node, rest) ==
    /\ confirmed' = NoNode /\ pending' = rest
    /\ shown' = Replay(node, rest)

(* What follows a change of the confirmed node or of the pending actions:  *)
(* replay, or clean up after the last one.                                 *)
SettleTo(node, rest) ==
    /\ confirmed' = node /\ pending' = rest
    /\ shown' = Replay(node, rest)

(* rollback, when the rejection arrives: the last action goes.             *)
Rollback(o) ==
    /\ stage[o] = "rejected" /\ o \in Own
    /\ stage' = [stage EXCEPT ![o] = "done"]
    /\ IF pending = <<>> THEN UNCHANGED <<confirmed, pending, shown>>
       ELSE SettleTo(confirmed, Front(pending))
    /\ UNCHANGED <<races, log, before, netVars, listing>>

(* Slip: the patch leaves the revision as it was.                          *)
PatchNoRev(node, e) == [node EXCEPT !.val[e.field] = e.value]

(* applyOps, and the event's revision.                                     *)
Patch(node, e) == [rev |-> e.rev, val |-> [node.val EXCEPT ![e.field] = e.value]]

(* onData of a patch: rebase's business, a patch of the cached node, or,   *)
(* without one, a fetch.  Any event takes the first pending action away.   *)
ApplyPatch(e) ==
    /\ IF pending # <<>> THEN SettleTo(Patch(confirmed, e), Tail(pending))
       ELSE /\ shown' = IF shown = NoNode THEN NoNode ELSE Patch(shown, e)
            /\ UNCHANGED <<confirmed, pending>>
    /\ asked' = IF pending = <<>> /\ shown = NoNode THEN asked + 1 ELSE asked
    /\ listing' = (e.delta = "add" \/ (listing /\ e.delta # "rm"))

(* mountPath and mountChildren: what a fetch brings replaces the cached    *)
(* node and the listing (the two requests are one here).                   *)
ApplyNode(answer) ==
    /\ shown' = answer.node
    /\ listing' = Listed(answer.node.val)
    /\ UNCHANGED <<confirmed, pending, asked>>

(* Events overtake one another in their filters, and answers take another  *)
(* way than events.                                                        *)
MayOvertake(m, n) ==
    IF m.kind = "patch" /\ n.kind = "patch" THEN "filters" \in races ELSE "late" \in races

Deliver(m) ==
    /\ \A n \in stream : n.no < m.no => MayOvertake(m, n)
    /\ stream' = stream \ {m}
    /\ IF m.kind = "patch" THEN ApplyPatch(m) ELSE ApplyNode(m)
    /\ UNCHANGED <<serverVars, watching, online, sent, read, away>>

-----------------------------------------------------------------------------
\* Fetches and the connection

(* get with watch: the node is read, and a moment later it is watched.     *)
FetchRead ==
    /\ asked > 0 /\ read = NoNode
    /\ asked' = asked - 1 /\ read' = Stored
    /\ UNCHANGED <<serverVars, watching, online, stream, sent, away, clientVars>>

FetchAnswer ==
    /\ read # NoNode
    /\ read' = NoNode
    /\ watching' = TRUE
    /\ stream' = stream \cup {[no |-> sent, kind |-> "node", node |-> read]}
    /\ sent' = sent + 1
    /\ UNCHANGED <<serverVars, online, asked, away, clientVars>>

Lose ==
    /\ online /\ away < MaxAway
    /\ "resync" \notin races => Synced /\ pending = <<>>
    /\ online' = FALSE /\ away' = away + 1
    /\ stream' = {m \in stream : m.kind = "node"}  \* events are lost
    /\ UNCHANGED <<serverVars, watching, sent, asked, read, clientVars>>

(* Slip: the client trusts its cache after every reconnect.                *)
ReconnectTrusting ==
    /\ ~online
    /\ online' = TRUE
    /\ UNCHANGED <<serverVars, stream, sent, read, away, clientVars, watching, asked>>

(* The first event of a new connection says whether the watches were kept; *)
(* if not, signalReconnect makes what is mounted fetch again.              *)
Reconnect ==
    /\ ~online
    /\ online' = TRUE
    /\ \E kept \in {k \in BOOLEAN : k => "away" \in races} :
          /\ watching' = (kept /\ watching)
          /\ asked' = IF kept THEN asked ELSE asked + 1
    /\ UNCHANGED <<serverVars, stream, sent, read, away, clientVars>>

Next ==
    \/ \E o \in Ops : Call(o) \/ Read(o) \/ Write(o) \/ Emit(o) \/ Reject(o) \/ Rollback(o)
    \/ \E m \in stream : Deliver(m)
    \/ FetchRead \/ FetchAnswer \/ Lose \/ Reconnect

Spec == Init /\ [][Next]_vars

-----------------------------------------------------------------------------
Nodes == [rev : Nat \ {0}, val : [Fields -> SUBSET Ops]]
TypeOK ==
    /\ \A r \in DOMAIN log : log[r] \in [Fields -> SUBSET Ops]
    /\ {shown, confirmed, read} \subseteq Nodes \cup {NoNode}
    /\ ToSet(pending) \subseteq Own
    /\ pending # <<>> => shown # NoNode /\ confirmed # NoNode
    /\ asked \in Nat

(* Once nothing is under way no prediction is left, unless the client      *)
(* resynchronised with actions under way; and without any of the races the *)
(* client shows the node as it is stored, whatever was predicted,          *)
(* rejected, shifted out of the queue or missed while it was away, and     *)
(* lists it under the query exactly if it belongs there.                   *)
Quiet ==
    /\ online /\ stream = {} /\ asked = 0 /\ read = NoNode
    /\ \A o \in Ops : stage[o] \in {"new", "done"} \/ (o \in Foreign /\ stage[o] = "rejected")
Convergence ==
    Quiet => /\ "resync" \notin races => pending = <<>>
             /\ races = {} => shown = Stored /\ listing = Listed(Stored.val)

(* Without the races, a client's revision tells the truth: what it holds   *)
(* under a revision is what was stored under it, so a write that passes    *)
(* the revision check was made from what it replaces (tree/index.ts).      *)
RevMatchesContent == races = {} /\ Base # NoNode => Base.val = log[Base.rev]

(* docs/concepts/reactivity.md:34: patches are "ordered": what a client    *)
(* takes for the stored node never goes back to an earlier revision.  Not  *)
(* so when events overtake one another or an answer, or when changes fall  *)
(* into the gap of a fetch that is made with actions or other answers      *)
(* under way: its answer, read before them, then follows their events.     *)
(* Overlapping writers, a short absence, the gap of a fetch of a settled   *)
(* client or a fetch without a gap leave the order as it is.               *)
InOrder == races \cap {"filters", "late"} = {} /\ ~({"gap", "resync"} \subseteq races)
RevNeverFalls ==
    [][InOrder /\ Base # NoNode /\ Base' # NoNode => Base'.rev >= Base.rev]_vars
=============================================================================
