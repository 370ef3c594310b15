----------------------------- MODULE ActionExec -----------------------------
(***************************************************************************)
(* Mutating actions: executeAction of core/src/server/actions.ts, with the *)
(* kind rules of kind-stack.ts, run under the per-path lock, against the   *)
(* writers that do not take that lock (setComponent).                      *)
(*                                                                         *)
(* A call queues on its path, reads the node, runs its handler on a draft  *)
(* of what it read, and sends the draft's changes to tree.patch, which     *)
(* reads the node again and writes it back under its revision.  A handler  *)
(* may await nested calls; one that outlives the action timeout has its    *)
(* call settled and the lock released, and goes on running ("late").       *)
(*                                                                         *)
(* Data: a field holds the set of the writers whose change its value takes *)
(* into account, so a change is lost when its writer is missing from it.   *)
(***************************************************************************)
EXTENDS Naturals, FiniteSets

CONSTANTS
    Calls,      \* action invocations, nested ones included
    Writers,    \* setComponent requests, which take no lock
    Paths, Fields,
    Kinds,      \* the registered kinds in use: records [kind, io]
    NoCall

ASSUME KindsAssumption ==
    /\ Kinds # {} /\ Kinds \subseteq [kind : {"read", "write"}, io : BOOLEAN]
    /\ NoCall \notin Calls \cup Paths
    /\ Calls \cap Writers = {}

VARIABLES
    phase,      \* phase[c]: where executeAction is in call c
    target, prev, tail, ticket, clock,      \* the lock: see PathLock
    meta,       \* meta[c]: [kind, io] and the field the handler changes
    stack,      \* stack[c]: the calls whose handlers c runs beneath
    caller,     \* caller[c]: the call whose handler made c, or NoCall
    awaits,     \* awaits[c]: the nested call c's handler waits for
    late,       \* calls settled by the timeout whose handler still runs
    snap,       \* snap[c]: the node the draft was made from
    base,       \* base[c]: the node tree.patch read back
    outcome,    \* outcome[c]: "none" | "ok" | "pure" | "failed"
    store,      \* store[p]: the stored node, [rev, val]
    writer      \* writer[w]: a setComponent request

lockVars == <<target, prev, tail, ticket, clock>>
callVars == <<meta, stack, caller>>
vars == <<phase, target, prev, tail, ticket, clock, meta, stack, caller,
          awaits, late, snap, base, outcome, store, writer>>

Node == [rev : Nat, val : [Fields -> SUBSET (Calls \cup Writers)]]
FirstNode == [rev |-> 1, val |-> [f \in Fields |-> {}]]
NoMeta == [kind |-> "write", io |-> FALSE, field |-> NoCall]

(* The lock as PathLock sees it.                                           *)
LockPhase(c) ==
    CASE phase[c] = "idle" -> "idle"
      [] phase[c] = "queued" -> "waiting"
      [] phase[c] = "settled" -> "done"
      [] OTHER -> "running"

Lock == INSTANCE PathLock WITH pc <- [c \in Calls |-> LockPhase(c)]

Init ==
    /\ phase = [c \in Calls |-> "idle"]
    /\ target = [c \in Calls |-> NoCall]
    /\ prev = [c \in Calls |-> NoCall]
    /\ tail = [p \in Paths |-> NoCall]
    /\ ticket = [c \in Calls |-> 0]
    /\ clock = 0
    /\ meta = [c \in Calls |-> NoMeta]
    /\ stack = [c \in Calls |-> {}]
    /\ caller = [c \in Calls |-> NoCall]
    /\ awaits = [c \in Calls |-> NoCall]
    /\ late = {}
    /\ snap = [c \in Calls |-> FirstNode]
    /\ base = [c \in Calls |-> FirstNode]
    /\ outcome = [c \in Calls |-> "none"]
    /\ store = [p \in Paths |-> FirstNode]
    /\ writer = [w \in Writers |-> [at |-> "idle", path |-> NoCall, node |-> FirstNode]]

-----------------------------------------------------------------------------
(* executeAction(tree, p, ...) is called: the kind and the changed field   *)
(* are those of the action it names.                                       *)
Invoke(c, p, k, f) ==
    /\ phase[c] = "idle"
    /\ phase' = [phase EXCEPT ![c] = "queued"]
    /\ target' = [target EXCEPT ![c] = p]
    /\ prev' = [prev EXCEPT ![c] = tail[p]]
    /\ tail' = [tail EXCEPT ![p] = c]
    /\ ticket' = [ticket EXCEPT ![c] = clock]
    /\ clock' = clock + 1
    /\ meta' = [meta EXCEPT ![c] = [kind |-> k.kind, io |-> k.io, field |-> f]]
    /\ UNCHANGED <<late, snap, base, outcome, store, writer>>

(* A client, a service or the workflow engine makes the call.              *)
InvokeFromClient(c, p, k, f) ==
    /\ Invoke(c, p, k, f)
    /\ UNCHANGED <<stack, caller, awaits>>

(* A handler makes the call and awaits it; a late handler still can.       *)
InvokeFromHandler(h, c, p, k, f) ==
    /\ phase[h] = "handling" \/ h \in late
    /\ awaits[h] = NoCall
    /\ Invoke(c, p, k, f)
    /\ awaits' = [awaits EXCEPT ![h] = c]
    /\ caller' = [caller EXCEPT ![c] = h]
    /\ stack' = [stack EXCEPT ![c] = stack[h] \cup {h}]

(* The nested call has settled: the handler goes on.                       *)
NestedSettled(h) ==
    /\ awaits[h] # NoCall
    /\ phase[awaits[h]] = "settled"
    /\ awaits' = [awaits EXCEPT ![h] = NoCall]
    /\ UNCHANGED <<phase, lockVars, callVars, late, snap, base, outcome, store, writer>>

(* Slip: the action does not wait for the one before it on its path.       *)
GateIgnored(c) == TRUE

GateOpen(c) == prev[c] # NoCall => phase[prev[c]] = "settled"

Enter(c) ==
    /\ phase[c] = "queued"
    /\ GateOpen(c)
    /\ phase' = [phase EXCEPT ![c] = "resolving"]
    /\ UNCHANGED <<lockVars, callVars, awaits, late, snap, base, outcome, store, writer>>

(* Slip: the entry of the lock's map is never dropped.                     *)
SettleKeepsEntry(c, o) ==
    /\ phase' = [phase EXCEPT ![c] = "settled"]
    /\ outcome' = [outcome EXCEPT ![c] = o]
    /\ UNCHANGED lockVars

(* The call returns or throws, and the lock's finally block runs.          *)
Settle(c, o) ==
    /\ phase' = [phase EXCEPT ![c] = "settled"]
    /\ outcome' = [outcome EXCEPT ![c] = o]
    /\ tail' = IF tail[target[c]] = c THEN [tail EXCEPT ![target[c]] = NoCall] ELSE tail
    /\ UNCHANGED <<target, prev, ticket, clock>>

(* Slip: the rule about io is forgotten.                                   *)
CanCallIgnoringIo(c) ==
    caller[c] # NoCall /\ meta[caller[c]].kind = "read" => meta[c].kind = "read"

(* assertCanCall, against the innermost frame only.                        *)
CanCall(c) ==
    caller[c] # NoCall =>
        LET h == meta[caller[c]] IN
        h.kind = "read" => /\ meta[c].kind = "read"
                           /\ meta[c].io => h.io

(* The node is read, then the kind rules are applied; the handler starts   *)
(* on a draft of the node or the call fails.                               *)
Resolve(c) ==
    /\ phase[c] = "resolving"
    /\ snap' = [snap EXCEPT ![c] = store[target[c]]]
    /\ IF CanCall(c)
       THEN /\ phase' = [phase EXCEPT ![c] = "handling"]
            /\ UNCHANGED <<lockVars, outcome>>
       ELSE Settle(c, "failed")
    /\ UNCHANGED <<callVars, awaits, late, base, store, writer>>

(* The handler finishes in time with changes in its draft, which only a    *)
(* write action has: they go to tree.patch.                                *)
HandlerReturns(c) ==
    /\ phase[c] = "handling" /\ awaits[c] = NoCall
    /\ meta[c].kind = "write"
    /\ phase' = [phase EXCEPT ![c] = "patching"]
    /\ UNCHANGED <<lockVars, callVars, awaits, late, snap, base, outcome, store, writer>>

(* A read action, or a write action that changed nothing, persists nothing.*)
PureHandlerReturns(c) ==
    /\ phase[c] = "handling" /\ awaits[c] = NoCall
    /\ Settle(c, "pure")
    /\ UNCHANGED <<callVars, awaits, late, snap, base, store, writer>>

(* The node, its component, the handler or the arguments are not found or  *)
(* not valid, or the handler throws: the call fails and nothing is stored. *)
HandlerThrows(c) ==
    /\ phase[c] \in {"resolving", "handling"} /\ awaits[c] = NoCall
    /\ Settle(c, "failed")
    /\ UNCHANGED <<callVars, awaits, late, snap, base, store, writer>>

(* Slip: the timer stands still while the handler awaits a nested call.    *)
TimeoutUnlessAwaiting(c) ==
    /\ phase[c] = "handling" /\ awaits[c] = NoCall
    /\ Settle(c, "failed")
    /\ late' = late \cup {c}
    /\ UNCHANGED <<callVars, awaits, snap, base, store, writer>>

(* withActionTimeout rejects; nothing stops the handler.                   *)
Timeout(c) ==
    /\ phase[c] = "handling"
    /\ Settle(c, "failed")
    /\ late' = late \cup {c}
    /\ UNCHANGED <<callVars, awaits, snap, base, store, writer>>

(* A late handler ends; its draft is finished by nobody.                   *)
LateHandlerEnds(c) ==
    /\ c \in late /\ awaits[c] = NoCall
    /\ late' = late \ {c}
    /\ UNCHANGED <<phase, lockVars, callVars, awaits, snap, base, outcome, store, writer>>

(* tree.patch reads the node again ...                                     *)
PatchRead(c) ==
    /\ phase[c] = "patching"
    /\ base' = [base EXCEPT ![c] = store[target[c]]]
    /\ phase' = [phase EXCEPT ![c] = "writing"]
    /\ UNCHANGED <<lockVars, callVars, awaits, late, snap, outcome, store, writer>>

(* Slip: set does not compare revisions.                                   *)
RevIgnored(node, p) == TRUE

(* A set that carries the revision it was read at.                         *)
RevMatches(node, p) == node.rev = store[p].rev
StoreNode(node, p) == store' = [store EXCEPT ![p] = [node EXCEPT !.rev = @ + 1]]

(* The value the handler's draft computed, from the node as it was read    *)
(* when the action started.                                                *)
DraftValue(c) == snap[c].val[meta[c].field] \cup {c}

(* ... and sets it with the draft's change applied, or is refused.  Layers *)
(* above the store still work after the write and may throw: the call then *)
(* fails although its change is stored.                                    *)
PatchWrite(c) ==
    /\ phase[c] = "writing"
    /\ IF RevMatches(base[c], target[c])
       THEN /\ StoreNode([base[c] EXCEPT !.val[meta[c].field] = DraftValue(c)], target[c])
            /\ \E o \in {"ok", "failed"} : Settle(c, o)
       ELSE /\ Settle(c, "failed")
            /\ UNCHANGED store
    /\ UNCHANGED <<callVars, awaits, late, snap, base, writer>>

-----------------------------------------------------------------------------
(* setComponent reads the node ...                                         *)
WriterGet(w, p) ==
    /\ writer[w].at = "idle"
    /\ writer' = [writer EXCEPT ![w] = [at |-> "got", path |-> p, node |-> store[p]]]
    /\ UNCHANGED <<phase, lockVars, callVars, awaits, late, snap, base, outcome, store>>

(* ... and writes the whole node back with one component replaced.         *)
WriterSet(w, f) ==
    /\ writer[w].at = "got"
    /\ IF RevMatches(writer[w].node, writer[w].path)
       THEN /\ StoreNode([writer[w].node EXCEPT !.val[f] = @ \cup {w}], writer[w].path)
            /\ writer' = [writer EXCEPT ![w].at = "ok"]
       ELSE /\ writer' = [writer EXCEPT ![w].at = "failed"]
            /\ UNCHANGED store
    /\ UNCHANGED <<phase, lockVars, callVars, awaits, late, snap, base, outcome>>

-----------------------------------------------------------------------------
CallNext(c) ==
    \/ Enter(c) \/ Resolve(c)
    \/ HandlerReturns(c) \/ PureHandlerReturns(c) \/ HandlerThrows(c) \/ Timeout(c)
    \/ NestedSettled(c) \/ LateHandlerEnds(c)
    \/ PatchRead(c) \/ PatchWrite(c)

Next ==
    \/ \E c \in Calls, p \in Paths, k \in Kinds, f \in Fields :
        \/ InvokeFromClient(c, p, k, f)
        \/ \E h \in Calls \ {c} : InvokeFromHandler(h, c, p, k, f)
    \/ \E c \in Calls : CallNext(c)
    \/ \E w \in Writers :
        \/ \E p \in Paths : WriterGet(w, p)
        \/ \E f \in Fields : WriterSet(w, f)

Spec == Init /\ [][Next]_vars

(* Promise callbacks run, tree operations complete, timers fire.  Nothing  *)
(* is assumed of a handler: it may run, or wait for another call, for ever.*)
FairSpec ==
    /\ Spec
    /\ \A c \in Calls :
        /\ WF_vars(Enter(c)) /\ WF_vars(Resolve(c)) /\ WF_vars(Timeout(c))
        /\ WF_vars(PatchRead(c)) /\ WF_vars(PatchWrite(c))

-----------------------------------------------------------------------------
TypeOK ==
    /\ phase \in [Calls -> {"idle", "queued", "resolving", "handling",
                            "patching", "writing", "settled"}]
    /\ target \in [Calls -> Paths \cup {NoCall}]
    /\ prev \in [Calls -> Calls \cup {NoCall}]
    /\ tail \in [Paths -> Calls \cup {NoCall}]
    /\ ticket \in [Calls -> Nat] /\ clock \in Nat
    /\ meta \in [Calls -> [kind : {"read", "write"}, io : BOOLEAN,
                           field : Fields \cup {NoCall}]]
    /\ stack \in [Calls -> SUBSET Calls]
    /\ caller \in [Calls -> Calls \cup {NoCall}]
    /\ awaits \in [Calls -> Calls \cup {NoCall}]
    /\ late \subseteq Calls
    /\ snap \in [Calls -> Node] /\ base \in [Calls -> Node]
    /\ outcome \in [Calls -> {"none", "ok", "pure", "failed"}]
    /\ store \in [Paths -> Node]
    /\ writer \in [Writers -> [at : {"idle", "got", "ok", "failed"},
                               path : Paths \cup {NoCall}, node : Node]]

(* executeAction serialises the actions of one path, first come first      *)
(* served: its steps are steps of the lock.                                *)
LockSpec == Lock!Spec

(* actions.ts:369: a write action that reported success is not undone by   *)
(* another action or by a setComponent, however they interleave.           *)
ActionEffectsKept ==
    \A c \in Calls :
        outcome[c] = "ok" => c \in store[target[c]].val[meta[c].field]

(* A setComponent never undoes an action, and the fields an action does    *)
(* not touch are left to their other writers: a setComponent's change is   *)
(* only ever lost to an action on the same field.                          *)
WriterLostOnlyToSameField ==
    [][\A w \in Writers, p \in Paths, f \in Fields :
        w \in store[p].val[f] /\ w \notin store'[p].val[f]
            => \E c \in Calls : /\ outcome'[c] # outcome[c]
                                /\ target[c] = p /\ meta[c].field = f
      ]_vars

(* kind-stack.ts rules, which the code checks against the innermost frame  *)
(* only: at any depth, nothing beneath a read handler writes, and nothing  *)
(* beneath a read handler without io does io.                              *)
KindPropagation ==
    \A c \in Calls : phase[c] \in {"handling", "patching", "writing"} =>
        \A a \in stack[c] : meta[a].kind = "read" =>
            /\ meta[c].kind = "read"
            /\ meta[c].io => meta[a].io

(* No call stays queued for ever, even behind a handler that waits for it: *)
(* the action timeout breaks every cycle of calls that await one another.  *)
EveryCallSettles == \A c \in Calls : phase[c] = "queued" ~> phase[c] = "settled"
=============================================================================
