------------------------------ MODULE WatchTabs -----------------------------
(***************************************************************************)
(* The watch manager and its clients: browser tabs that show nodes and     *)
(* listings (packages/react/src/tree/client-tree-source.ts, events.ts).    *)
(*                                                                         *)
(* A tab has at most one connection, opened again after a failure, so tabs *)
(* take the place of some of WatchManager's connections; users without a   *)
(* tab are other clients of the same server.  A tab remembers what it      *)
(* shows and was told is watched (views); on a reconnect that preserved    *)
(* nothing it asks for everything again, by new requests.                  *)
(***************************************************************************)
EXTENDS WatchManager

CONSTANTS
    Tabs,           \* the connections that are tabs
    LateRequests    \* FALSE: a tab's requests are served while its user has an
                    \*   entry; TRUE: before the stream is open, or after the
                    \*   grace period, too

ASSUME TabsAssumption ==
    /\ \A c \in Conns : (\E t \in Tabs : Owner[t] = Owner[c]) => c \in Tabs
    /\ Tabs \subseteq Conns /\ LateRequests \in BOOLEAN

VARIABLES
    views           \* views[t]: what tab t shows and was told is watched

tabVars == <<vars, views>>

TabInit == Init /\ views = [t \in Tabs |-> {}]

(* Slip: a client that reconnects does not ask again.                      *)
OpenKeepsViews(t) == Connect(t) /\ UNCHANGED views

(* events.ts: the first event of a connection says whether the server kept *)
(* the watches; if not, the client's reset makes every view fetch again.   *)
Open(t) ==
    /\ Connect(t)
    /\ views' = IF Preserved(Owner[t]) THEN views ELSE [views EXCEPT ![t] = {}]

Close(t) == Disconnect(t) /\ UNCHANGED views

Served(t) == LateRequests \/ Owner[t] \in users

(* mountPath and mountChildren: the request of a new view, or of one that  *)
(* fetches again, is served; one over a limit fails.                       *)
ShowNode(t, p) ==
    /\ Served(t)
    /\ WatchNodes(Owner[t], {p}, NoPath)
    /\ views' = IF Nodes({p}) \subseteq subs'[Owner[t]]
                THEN [views EXCEPT ![t] = @ \cup Nodes({p})] ELSE views

ShowListing(t, p, a) ==
    /\ Served(t)
    /\ WatchListing(Owner[t], p, a)
    /\ views' = IF <<"children", p>> \in subs'[Owner[t]]
                THEN [views EXCEPT ![t] = @ \cup {<<"children", p>>}] ELSE views

(* dispose: the last view of s in the tab closes.                          *)
Hide(t, s) ==
    /\ s \in views[t]
    /\ views' = [views EXCEPT ![t] = @ \ {s}]
    /\ Unwatch(Owner[t], s)

(* notify of a reconnect, from an external source: it goes to every        *)
(* connection, and what the tab shows is fetched again.                    *)
SourceReconnects ==
    /\ views' = [t \in Tabs |-> IF t \in pushes[Owner[t]] THEN {} ELSE views[t]]
    /\ UNCHANGED vars

(* What the other clients do, time and the writers of nodes.               *)
OtherNext ==
    /\ \/ \E c \in Conns \ Tabs : Connect(c) \/ Disconnect(c)
       \/ \E u \in Users \ {Owner[t] : t \in Tabs} : Request(u)
       \/ \E u \in Users : GraceExpires(u)
       \/ \E p \in Paths, routed \in Routes : Notify(p, routed)
    /\ UNCHANGED views

TabNext ==
    \/ \E t \in Tabs :
        \/ Open(t) \/ Close(t)
        \/ \E p \in Paths : ShowNode(t, p)
        \/ \E p \in Paths, a \in BOOLEAN : ShowListing(t, p, a)
        \/ \E s \in Subs : Hide(t, s)
    \/ OtherNext
    \/ SourceReconnects

TabSpec == TabInit /\ [][TabNext]_tabVars

(* setTimeout fires.                                                       *)
FairTabSpec == TabSpec /\ \A u \in Users : WF_vars(GraceExpires(u))

-----------------------------------------------------------------------------
(* What a connected tab has on screen, and was told is watched, is watched *)
(* (watch.ts:26: connect returns true if watches were preserved).          *)
TabsInSync ==
    \A t \in Tabs : t \in pushes[Owner[t]] => views[t] \subseteq subs[Owner[t]]

(* A change of any node, however it is routed, would reach every connected *)
(* tab that shows the node or the listing it is in, and no connection      *)
(* would get the event twice.                                              *)
Shows(t, p) == <<"exact", p>> \in views[t] \/ <<"children", Parent[p]>> \in views[t]
EveryViewIsToldOnce ==
    \A p \in Paths, routed \in Routes : Routed(routed) =>
        /\ \A c \in Conns : Deliveries(p, routed)[c] <= 1
        /\ \A t \in Tabs :
            t \in pushes[Owner[t]] /\ Shows(t, p) => Deliveries(p, routed)[t] = 1
=============================================================================
