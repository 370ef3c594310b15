--------------------------- MODULE ActionExecProofs -------------------------
(***************************************************************************)
(* For any number of calls, writers, paths and fields:                     *)
(*                                                                         *)
(* executeAction implements the per-path lock: whatever a call does        *)
(* between entering and settling, nested calls and timeouts included, is a *)
(* step of PathLock or leaves it unchanged.                                *)
(*                                                                         *)
(* No successful action is undone.  The lock lets one call of a path       *)
(* inside at a time; a draft made under the lock has seen every action     *)
(* that succeeded before it; and a write that passes the revision check    *)
(* replaces the very node it was made from.                                *)
(*                                                                         *)
(* The kind rules, checked against the innermost frame only, hold against  *)
(* every frame: a frame that runs has passed them itself.                  *)
(***************************************************************************)
EXTENDS ActionExec, TLAPS

USE KindsAssumption

Phases == {"idle", "queued", "resolving", "handling", "patching", "writing", "settled"}

Types ==
    /\ phase \in [Calls -> Phases]
    /\ prev \in [Calls -> Calls \cup {NoCall}]
    /\ tail \in [Paths -> Calls \cup {NoCall}]
    /\ target \in [Calls -> Paths \cup {NoCall}]
    /\ ticket \in [Calls -> Nat] /\ clock \in Nat

USE DEF Phases

LEMMA InitTypes == Init => Types
BY DEF Init, Types

LEMMA NextTypes == Types /\ [Next]_vars => Types'
<1> SUFFICES ASSUME Types, [Next]_vars PROVE Types'
    OBVIOUS
<1> USE DEF Types, lockVars, callVars
<1>1. CASE UNCHANGED vars
    BY <1>1 DEF vars
<1>2. ASSUME NEW c \in Calls, NEW p \in Paths, NEW k \in Kinds, NEW f \in Fields, Invoke(c, p, k, f)
      PROVE  Types'
    BY <1>2 DEF Invoke
<1>3. ASSUME NEW c \in Calls, NEW o, Settle(c, o)
      PROVE  Types'
    BY <1>3 DEF Settle
<1>4. ASSUME NEW c \in Calls, CallNext(c)
      PROVE  Types'
    <2>1. CASE Enter(c) \/ HandlerReturns(c) \/ PatchRead(c) \/ NestedSettled(c) \/ LateHandlerEnds(c)
        BY <2>1 DEF Enter, HandlerReturns, PatchRead, NestedSettled, LateHandlerEnds
    <2>2. CASE Resolve(c)
        <3>1. CASE Settle(c, "failed")
            BY <3>1, <1>3
        <3>2. CASE /\ phase' = [phase EXCEPT ![c] = "handling"]
                   /\ UNCHANGED <<lockVars, outcome>>
            BY <3>2
        <3> QED
            BY <2>2, <3>1, <3>2 DEF Resolve
    <2>3. CASE PureHandlerReturns(c) \/ HandlerThrows(c) \/ Timeout(c) \/ PatchWrite(c)
        BY <2>3, <1>3 DEF PureHandlerReturns, HandlerThrows, Timeout, PatchWrite
    <2> QED
        BY <1>4, <2>1, <2>2, <2>3 DEF CallNext
<1>5. ASSUME NEW w \in Writers, NEW p, NEW f, WriterGet(w, p) \/ WriterSet(w, f)
      PROVE  Types'
    BY <1>5 DEF WriterGet, WriterSet
<1> QED
    BY <1>1, <1>2, <1>4, <1>5 DEF Next, InvokeFromClient, InvokeFromHandler

-----------------------------------------------------------------------------
(* The lock's view of a step that moves one call.                          *)
LockPc == [c \in Calls |-> LockPhase(c)]

LEMMA LockStutter ==
    ASSUME Types, UNCHANGED lockVars, \A c \in Calls : LockPhase(c)' = LockPhase(c)
    PROVE  UNCHANGED Lock!vars
BY DEF lockVars, Lock!vars

LEMMA InvokeIsAcquire ==
    ASSUME Types, NEW c \in Calls, NEW p \in Paths, NEW k, NEW f, Invoke(c, p, k, f)
    PROVE  Lock!Next
<1>1. LockPc' = [LockPc EXCEPT ![c] = "waiting"] /\ LockPc[c] = "idle"
    BY DEF Invoke, Types, LockPc, LockPhase
<1>2. Lock!Acquire(c, p)
    BY <1>1 DEF Invoke, Lock!Acquire, LockPc
<1> QED
    BY <1>2 DEF Lock!Next

LEMMA EnterIsEnter ==
    ASSUME Types, NEW c \in Calls, Enter(c)
    PROVE  Lock!Next
<1>1. LockPc' = [LockPc EXCEPT ![c] = "running"] /\ LockPc[c] = "waiting"
    BY DEF Enter, Types, LockPc, LockPhase
<1>2. prev[c] # NoCall => LockPc[prev[c]] = "done"
    BY DEF Enter, GateOpen, Types, LockPc, LockPhase
<1>3. Lock!Enter(c)
    BY <1>1, <1>2 DEF Enter, lockVars, Lock!Enter, LockPc
<1> QED
    BY <1>3 DEF Lock!Next

LEMMA SettleIsRelease ==
    ASSUME Types, NEW c \in Calls, NEW o,
           phase[c] \in {"resolving", "handling", "patching", "writing"}, Settle(c, o)
    PROVE  Lock!Next
<1>1. LockPc' = [LockPc EXCEPT ![c] = "done"] /\ LockPc[c] = "running"
    BY DEF Settle, Types, LockPc, LockPhase
<1>2. Lock!Release(c)
    BY <1>1 DEF Settle, Lock!Release, Lock!TailAfter, LockPc
<1> QED
    BY <1>2 DEF Lock!Next

(* Moving on inside the critical section is nothing to the lock.           *)
LEMMA InsideStutters ==
    ASSUME Types, NEW c \in Calls, NEW ph \in {"handling", "patching", "writing"},
           phase[c] \in {"resolving", "handling", "patching"},
           phase' = [phase EXCEPT ![c] = ph], UNCHANGED lockVars
    PROVE  UNCHANGED Lock!vars
<1>1. \A x \in Calls : LockPhase(x)' = LockPhase(x)
    BY DEF Types, LockPhase
<1> QED
    BY <1>1, LockStutter

LEMMA StepIsLockStep ==
    ASSUME Types, [Next]_vars
    PROVE  [Lock!Next]_(Lock!vars)
<1>1. ASSUME UNCHANGED <<phase, lockVars>>
      PROVE  UNCHANGED Lock!vars
    BY <1>1, LockStutter DEF LockPhase
<1>2. ASSUME NEW c \in Calls, NEW p \in Paths, NEW k \in Kinds, NEW f \in Fields, Invoke(c, p, k, f)
      PROVE  Lock!Next
    BY <1>2, InvokeIsAcquire
<1>3. ASSUME NEW c \in Calls, CallNext(c)
      PROVE  Lock!Next \/ UNCHANGED Lock!vars
    <2>1. CASE Enter(c)
        BY <2>1, EnterIsEnter
    <2>2. CASE Resolve(c)
        <3>1. CASE Settle(c, "failed")
            BY <2>2, <3>1, SettleIsRelease DEF Resolve
        <3>2. CASE phase' = [phase EXCEPT ![c] = "handling"] /\ UNCHANGED lockVars
            BY <2>2, <3>2, InsideStutters DEF Resolve
        <3> QED
            BY <2>2, <3>1, <3>2 DEF Resolve
    <2>3. CASE HandlerReturns(c) \/ PatchRead(c)
        BY <2>3, InsideStutters DEF HandlerReturns, PatchRead
    <2>4. CASE PureHandlerReturns(c) \/ HandlerThrows(c) \/ Timeout(c) \/ PatchWrite(c)
        BY <2>4, SettleIsRelease DEF PureHandlerReturns, HandlerThrows, Timeout, PatchWrite
    <2>5. CASE NestedSettled(c) \/ LateHandlerEnds(c)
        BY <2>5, <1>1 DEF NestedSettled, LateHandlerEnds
    <2> QED
        BY <1>3, <2>1, <2>2, <2>3, <2>4, <2>5 DEF CallNext
<1>4. ASSUME NEW w \in Writers, NEW p, NEW f, WriterGet(w, p) \/ WriterSet(w, f)
      PROVE  UNCHANGED Lock!vars
    BY <1>4, <1>1 DEF WriterGet, WriterSet
<1>5. CASE UNCHANGED vars
    BY <1>5, <1>1 DEF vars, lockVars
<1> QED
    BY <1>2, <1>3, <1>4, <1>5 DEF Next, InvokeFromClient, InvokeFromHandler

LEMMA InitIsLockInit == Init => Lock!Init
BY DEF Init, Lock!Init, LockPhase

(* actions.ts:370: every behaviour of executeAction is one of the lock.    *)
THEOREM ImplementsLock == Spec => LockSpec
<1>1. Types /\ [Next]_vars => [Lock!Next]_(Lock!vars)
    BY StepIsLockStep
<1> QED
    BY <1>1, InitTypes, NextTypes, InitIsLockInit, PTL DEF Spec, LockSpec, Lock!Spec

-----------------------------------------------------------------------------
(* All of the types: a call that has begun has a target, and a writer that *)
(* has read has one.                                                       *)
Typed ==
    /\ TypeOK
    /\ \A c \in Calls : phase[c] # "idle" => target[c] \in Paths
    /\ \A w \in Writers : writer[w].at = "got" => writer[w].path \in Paths

LEMMA StoredTypes ==
    ASSUME store \in [Paths -> Node], NEW n \in Node, NEW p \in Paths, NEW f,
           NEW V \in SUBSET (Calls \cup Writers),
           StoreNode([n EXCEPT !.val[f] = V], p)
    PROVE  store' \in [Paths -> Node]
<1>1. [n.val EXCEPT ![f] = V] \in [Fields -> SUBSET (Calls \cup Writers)]
    BY DEF Node
<1>2. [n EXCEPT !.val[f] = V] \in Node
    BY <1>1 DEF Node
<1>3. \A m \in Node : [m EXCEPT !.rev = @ + 1] \in Node
    BY DEF Node
<1> QED
    BY <1>2, <1>3 DEF StoreNode

LEMMA TypingInit == Init => Typed
<1>1. FirstNode \in Node
    BY DEF FirstNode, Node
<1> QED
    BY <1>1 DEF Init, Typed, TypeOK, NoMeta

LEMMA InvokeTyped ==
    ASSUME Typed, NEW c \in Calls, NEW p \in Paths, NEW k \in Kinds, NEW f \in Fields,
           InvokeFromClient(c, p, k, f) \/ \E h \in Calls : InvokeFromHandler(h, c, p, k, f)
    PROVE  Typed'
<1> USE DEF Typed, TypeOK
<1>1. Invoke(c, p, k, f)
    BY DEF InvokeFromClient, InvokeFromHandler
<1>2. [kind |-> k.kind, io |-> k.io, field |-> f]
        \in [kind : {"read", "write"}, io : BOOLEAN, field : Fields \cup {NoCall}]
    OBVIOUS
<1>3. meta' \in [Calls -> [kind : {"read", "write"}, io : BOOLEAN, field : Fields \cup {NoCall}]]
    BY <1>1, <1>2 DEF Invoke
<1>4. /\ stack' \in [Calls -> SUBSET Calls]
      /\ caller' \in [Calls -> Calls \cup {NoCall}]
      /\ awaits' \in [Calls -> Calls \cup {NoCall}]
    <2>1. CASE InvokeFromClient(c, p, k, f)
        BY <2>1 DEF InvokeFromClient
    <2>2. ASSUME NEW h \in Calls, InvokeFromHandler(h, c, p, k, f)
          PROVE  /\ stack' \in [Calls -> SUBSET Calls]
                 /\ caller' \in [Calls -> Calls \cup {NoCall}]
                 /\ awaits' \in [Calls -> Calls \cup {NoCall}]
        <3>1. stack[h] \cup {h} \in SUBSET Calls
            OBVIOUS
        <3> QED
            BY <2>2, <3>1 DEF InvokeFromHandler
    <2> QED
        BY <2>1, <2>2
<1> QED
    BY <1>1, <1>3, <1>4 DEF Invoke

LEMMA SettleTyped ==
    ASSUME Typed, NEW c \in Calls, NEW o \in {"ok", "pure", "failed"}, Settle(c, o),
           phase[c] # "idle",
           UNCHANGED <<callVars, awaits, snap, base, writer>>,
           late' \in SUBSET Calls, store' \in [Paths -> Node]
    PROVE  Typed'
BY DEF Typed, TypeOK, Settle, callVars

LEMMA CallTyped ==
    ASSUME Typed, NEW c \in Calls, CallNext(c)
    PROVE  Typed'
<1> USE DEF Typed
<1>1. CASE Enter(c) \/ HandlerReturns(c) \/ NestedSettled(c) \/ LateHandlerEnds(c)
    BY <1>1 DEF TypeOK, Enter, HandlerReturns, NestedSettled, LateHandlerEnds, lockVars, callVars
<1>2. CASE PureHandlerReturns(c) \/ HandlerThrows(c) \/ Timeout(c)
    BY <1>2, SettleTyped DEF TypeOK, PureHandlerReturns, HandlerThrows, Timeout
<1>3. CASE Resolve(c)
    <2>1. snap' \in [Calls -> Node]
        BY <1>3 DEF TypeOK, Resolve
    <2>2. CASE Settle(c, "failed")
        BY <1>3, <2>1, <2>2 DEF TypeOK, Resolve, Settle, callVars
    <2>3. CASE phase' = [phase EXCEPT ![c] = "handling"] /\ UNCHANGED <<lockVars, outcome>>
        BY <1>3, <2>1, <2>3 DEF TypeOK, Resolve, callVars, lockVars
    <2> QED
        BY <1>3, <2>2, <2>3 DEF Resolve
<1>4. CASE PatchRead(c)
    BY <1>4 DEF TypeOK, PatchRead, callVars, lockVars
<1>5. CASE PatchWrite(c)
    <2>1. target[c] \in Paths /\ base[c] \in Node /\ phase[c] # "idle"
        BY <1>5 DEF TypeOK, PatchWrite
    <2>2. CASE RevMatches(base[c], target[c])
        <3>1. StoreNode([base[c] EXCEPT !.val[meta[c].field] = DraftValue(c)], target[c])
            BY <1>5, <2>2 DEF PatchWrite
        <3>2. DraftValue(c) \in SUBSET (Calls \cup Writers) \/ meta[c].field \notin Fields
            BY DEF TypeOK, DraftValue, Node
        <3>3. store' \in [Paths -> Node]
            <4>1. CASE DraftValue(c) \in SUBSET (Calls \cup Writers)
                BY <2>1, <3>1, <4>1, StoredTypes DEF TypeOK
            <4>2. CASE meta[c].field \notin Fields
                <5>1. [base[c] EXCEPT !.val[meta[c].field] = DraftValue(c)] = base[c]
                    BY <2>1, <4>2 DEF Node
                <5>2. store' = [store EXCEPT ![target[c]] = [base[c] EXCEPT !.rev = @ + 1]]
                    BY <3>1, <5>1 DEF StoreNode
                <5>3. [base[c] EXCEPT !.rev = @ + 1] \in Node
                    BY <2>1 DEF Node
                <5> QED
                    BY <5>2, <5>3 DEF TypeOK
            <4> QED
                BY <3>2, <4>1, <4>2
        <3>4. PICK o \in {"ok", "failed"} : Settle(c, o)
            BY <1>5, <2>2 DEF PatchWrite
        <3>5. UNCHANGED <<callVars, awaits, late, snap, base, writer>>
            BY <1>5 DEF PatchWrite
        <3> QED
            BY <2>1, <3>3, <3>4, <3>5, SettleTyped DEF TypeOK, callVars
    <2>3. CASE ~RevMatches(base[c], target[c])
        BY <1>5, <2>1, <2>3, SettleTyped DEF TypeOK, PatchWrite
    <2> QED
        BY <2>2, <2>3
<1> QED
    BY <1>1, <1>2, <1>3, <1>4, <1>5 DEF CallNext

LEMMA WriterTyped ==
    ASSUME Typed, NEW w \in Writers,
           \/ \E p \in Paths : WriterGet(w, p)
           \/ \E f \in Fields : WriterSet(w, f)
    PROVE  Typed'
<1> USE DEF Typed
<1>1. ASSUME NEW p \in Paths, WriterGet(w, p)
      PROVE  Typed'
    BY <1>1 DEF TypeOK, WriterGet, lockVars, callVars
<1>2. ASSUME NEW f \in Fields, WriterSet(w, f)
      PROVE  Typed'
    <2>1. store' \in [Paths -> Node]
        <3>1. writer[w].path \in Paths /\ writer[w].node \in Node
            BY <1>2 DEF TypeOK, WriterSet
        <3>2. writer[w].node.val[f] \cup {w} \in SUBSET (Calls \cup Writers)
            BY <3>1 DEF Node
        <3>3. CASE StoreNode([writer[w].node EXCEPT !.val[f] = writer[w].node.val[f] \cup {w}],
                             writer[w].path)
            BY <3>1, <3>2, <3>3, StoredTypes DEF TypeOK
        <3> QED
            BY <1>2, <3>3 DEF TypeOK, WriterSet
    <2>2. \E at \in {"ok", "failed"} : writer' = [writer EXCEPT ![w].at = at]
        BY <1>2 DEF WriterSet
    <2>3. /\ writer' \in [Writers -> [at : {"idle", "got", "ok", "failed"},
                                       path : Paths \cup {NoCall}, node : Node]]
          /\ \A v \in Writers : writer'[v].at = "got" => writer'[v].path \in Paths
        <3>1. PICK at \in {"ok", "failed"} : writer' = [writer EXCEPT ![w].at = at]
            BY <2>2
        <3>2. [writer[w] EXCEPT !.at = at]
                \in [at : {"idle", "got", "ok", "failed"}, path : Paths \cup {NoCall}, node : Node]
            <4>1. writer[w] \in [at : {"idle", "got", "ok", "failed"},
                                 path : Paths \cup {NoCall}, node : Node]
                BY DEF TypeOK
            <4> QED
                BY <4>1
        <3>3. /\ writer'[w] = [writer[w] EXCEPT !.at = at]
              /\ \A v \in Writers : v # w => writer'[v] = writer[v]
            BY <3>1 DEF TypeOK
        <3>4. [writer[w] EXCEPT !.at = at].at # "got"
            BY DEF TypeOK
        <3> QED
            BY <3>1, <3>2, <3>3, <3>4 DEF TypeOK
    <2>4. UNCHANGED <<phase, target, prev, tail, ticket, clock, meta, stack, caller,
                      awaits, late, snap, base, outcome>>
        BY <1>2 DEF WriterSet, lockVars, callVars
    <2>5. TypeOK'
        BY <2>1, <2>3, <2>4 DEF TypeOK
    <2>6. \A v \in Writers : writer[v]'.at = "got" => writer[v]'.path \in Paths
        BY <2>3
    <2> QED
        BY <2>4, <2>5, <2>6
<1> QED
    BY <1>1, <1>2

LEMMA TypingStep == Typed /\ [Next]_vars => Typed'
<1> SUFFICES ASSUME Typed, [Next]_vars PROVE Typed'
    OBVIOUS
<1>1. CASE UNCHANGED vars
    BY <1>1 DEF vars, Typed, TypeOK
<1>2. CASE Next
    BY <1>2, InvokeTyped, CallTyped, WriterTyped DEF Next
<1> QED
    BY <1>1, <1>2

(* actions.ts: calls, drafts, the store and the writers keep their shapes. *)
THEOREM Typing == Spec => []TypeOK
<1>1. Typed => TypeOK
    BY DEF Typed
<1> QED
    BY <1>1, TypingInit, TypingStep, PTL DEF Spec

-----------------------------------------------------------------------------
\* Effects

LockP == INSTANCE PathLockProofs WITH pc <- LockPc

Inside(c) == phase[c] \in {"handling", "patching", "writing"}

(* What the lock gives: a path has one call inside at most.                *)
Excluded ==
    \A c, d \in Calls :
        /\ phase[c] \in {"resolving", "handling", "patching", "writing"}
        /\ phase[d] \in {"resolving", "handling", "patching", "writing"}
        /\ target[c] = target[d]
        => c = d

LEMMA LockExcludes == LockP!IInv => Excluded
<1> SUFFICES ASSUME LockP!IInv,
                    NEW c \in Calls, NEW d \in Calls,
                    phase[c] \in {"resolving", "handling", "patching", "writing"},
                    phase[d] \in {"resolving", "handling", "patching", "writing"},
                    target[c] = target[d], c # d
             PROVE  FALSE
    BY DEF Excluded
<1>1. LockPc[c] = "running" /\ LockPc[d] = "running"
    BY DEF LockPc, LockPhase
<1>2. ~LockP!Before(c, d) /\ ~LockP!Before(d, c)
    BY <1>1 DEF LockP!IInv, LockP!FifoMutex
<1>3. ticket[c] \in Nat /\ ticket[d] \in Nat
    BY DEF LockP!IInv, LockP!TypeOK
<1>4. ticket[c] # ticket[d]
    BY <1>1 DEF LockP!IInv, LockP!TicketInv
<1> QED
    BY <1>1, <1>2, <1>3, <1>4 DEF LockP!Before, LockP!Active

LEMMA ExcludedAlways == Spec => []Excluded
<1>1. Init => LockP!Init
    BY InitIsLockInit DEF Lock!Init, LockP!Init, LockPc
<1>2. Types /\ [Next]_vars => [LockP!Next]_(LockP!vars)
    <2> SUFFICES ASSUME Types, [Next]_vars PROVE [LockP!Next]_(LockP!vars)
        OBVIOUS
    <2>1. [Lock!Next]_(Lock!vars)
        BY StepIsLockStep
    <2> QED
        BY <2>1 DEF LockPc, Lock!Next, LockP!Next, Lock!vars, LockP!vars, Lock!Acquire, LockP!Acquire,
           Lock!Enter, LockP!Enter, Lock!Release, LockP!Release, Lock!TailAfter, LockP!TailAfter
<1>3. LockP!Spec => []LockP!IInv
    <2>1. NoCall \notin Calls \cup Paths
        BY KindsAssumption
    <2> QED
        BY <2>1, LockP!Invariance DEF LockP!NoCallAssumption
<1> QED
    BY <1>1, <1>2, <1>3, InitTypes, NextTypes, LockExcludes, PTL DEF Spec, LockP!Spec

-----------------------------------------------------------------------------
Fielded == \A c \in Calls : phase[c] # "idle" => meta[c].field \in Fields

OpenHasNoOutcome == \A c \in Calls : phase[c] # "settled" => outcome[c] = "none"

(* A draft made under the lock has seen what succeeded on its path.        *)
DraftsSeeSuccesses ==
    \A c, d \in Calls :
        Inside(c) /\ outcome[d] = "ok" /\ target[d] = target[c]
            => d \in snap[c].val[meta[d].field]

(* A node that was read is the stored one as long as the revision is.      *)
RevTells(node, p) ==
    /\ node.rev <= store[p].rev
    /\ node.rev = store[p].rev => node.val = store[p].val

CopiesTell ==
    /\ \A c \in Calls : phase[c] = "writing" => RevTells(base[c], target[c])
    /\ \A w \in Writers : writer[w].at = "got" => RevTells(writer[w].node, writer[w].path)

EInv == Fielded /\ OpenHasNoOutcome /\ ActionEffectsKept /\ DraftsSeeSuccesses /\ CopiesTell

LEMMA InitEInv == Init => EInv
BY DEF Init, EInv, Fielded, OpenHasNoOutcome, ActionEffectsKept, DraftsSeeSuccesses,
       CopiesTell, Inside

(* A write that passes the revision check changes one field of the stored  *)
(* node, and its revision, and no copy is mistaken for it.                 *)
LEMMA StoreStep ==
    ASSUME store \in [Paths -> Node], NEW n \in Node, NEW p \in Paths, NEW f \in Fields, NEW V,
           RevTells(n, p), RevMatches(n, p), StoreNode([n EXCEPT !.val[f] = V], p)
    PROVE  /\ store'[p].val[f] = V
           /\ \A g \in Fields \ {f} : store'[p].val[g] = store[p].val[g]
           /\ \A q \in Paths \ {p} : store'[q] = store[q]
           /\ \A m \in Node, q \in Paths : RevTells(m, q) => RevTells(m, q)'
<1>1. n.val = store[p].val /\ n.rev = store[p].rev
    BY DEF RevTells, RevMatches
<1>2. n.val \in [Fields -> SUBSET (Calls \cup Writers)] /\ n.rev \in Nat
    BY DEF Node
<1>3. store'[p] = [[n EXCEPT !.val[f] = V] EXCEPT !.rev = @ + 1]
    BY DEF StoreNode
<1>4. store'[p].val = [n.val EXCEPT ![f] = V] /\ store'[p].rev = n.rev + 1
    BY <1>3 DEF Node
<1>5. \A q \in Paths \ {p} : store'[q] = store[q]
    BY DEF StoreNode
<1>6. ASSUME NEW m \in Node, NEW q \in Paths, RevTells(m, q)
      PROVE  RevTells(m, q)'
    <2>1. CASE q = p
        BY <1>1, <1>2, <1>4, <1>6, <2>1 DEF RevTells, Node
    <2>2. CASE q # p
        BY <1>5, <1>6, <2>2 DEF RevTells
    <2> QED
        BY <2>1, <2>2
<1> QED
    BY <1>1, <1>2, <1>4, <1>5, <1>6

LEMMA InvokeEInv ==
    ASSUME Typed, EInv, NEW c \in Calls, NEW p \in Paths, NEW k \in Kinds, NEW f \in Fields,
           Invoke(c, p, k, f)
    PROVE  EInv'
<1> USE DEF EInv, Invoke
<1>1. /\ \A d \in Calls : d # c => /\ phase'[d] = phase[d] /\ target'[d] = target[d]
                                  /\ meta'[d] = meta[d]
      /\ phase'[c] = "queued" /\ meta'[c].field = f /\ outcome[c] = "none"
      /\ UNCHANGED <<snap, base, outcome, store, writer>>
    BY DEF Typed, TypeOK, OpenHasNoOutcome
<1>2. Fielded' /\ OpenHasNoOutcome' /\ ActionEffectsKept'
    BY <1>1 DEF Fielded, OpenHasNoOutcome, ActionEffectsKept
<1>3. DraftsSeeSuccesses'
    BY <1>1 DEF DraftsSeeSuccesses, Inside
<1>4. CopiesTell'
    BY <1>1 DEF CopiesTell, RevTells
<1> QED
    BY <1>2, <1>3, <1>4

(* The steps of a call that leave the stored node alone.                   *)
LEMMA SettleEInv ==
    ASSUME Typed, EInv, NEW c \in Calls, NEW o \in {"pure", "failed"}, Settle(c, o),
           phase[c] # "idle", UNCHANGED <<meta, base, store, writer>>,
           \A d \in Calls : d # c => snap'[d] = snap[d]
    PROVE  EInv'
<1> USE DEF EInv, Settle
<1>1. /\ \A d \in Calls : d # c => phase'[d] = phase[d] /\ outcome'[d] = outcome[d]
      /\ phase'[c] = "settled" /\ outcome'[c] = o
    BY DEF Typed, TypeOK
<1>2. Fielded' /\ OpenHasNoOutcome' /\ ActionEffectsKept'
    BY <1>1 DEF Fielded, OpenHasNoOutcome, ActionEffectsKept
<1>3. DraftsSeeSuccesses'
    BY <1>1 DEF DraftsSeeSuccesses, Inside
<1>4. CopiesTell'
    BY <1>1 DEF CopiesTell, RevTells
<1> QED
    BY <1>2, <1>3, <1>4

LEMMA MoveEInv ==
    ASSUME Typed, EInv, NEW c \in Calls,
           \/ Enter(c) \/ HandlerReturns(c) \/ NestedSettled(c) \/ LateHandlerEnds(c)
           \/ PatchRead(c) \/ (Resolve(c) /\ phase' = [phase EXCEPT ![c] = "handling"]
                                            /\ UNCHANGED <<lockVars, outcome>>)
    PROVE  EInv'
<1> USE DEF EInv
<1>1. UNCHANGED <<target, meta, outcome, store, writer>>
    BY DEF Enter, HandlerReturns, NestedSettled, LateHandlerEnds, PatchRead, Resolve, lockVars, callVars
<1>2. \A d \in Calls : /\ phase[d] # "idle" /\ phase[d] # "settled" => phase'[d] # "settled"
                       /\ phase'[d] # "idle" <=> phase[d] # "idle"
                       /\ phase'[d] = "settled" <=> phase[d] = "settled"
    BY DEF Typed, TypeOK, Enter, HandlerReturns, NestedSettled, LateHandlerEnds, PatchRead, Resolve
<1>3. Fielded' /\ OpenHasNoOutcome' /\ ActionEffectsKept'
    BY <1>1, <1>2 DEF Fielded, OpenHasNoOutcome, ActionEffectsKept
<1>4. DraftsSeeSuccesses'
    <2>1. ASSUME NEW d \in Calls, Inside(d)'
          PROVE  (Inside(d) /\ snap'[d] = snap[d]) \/ snap'[d] = store[target[d]]
        BY <2>1 DEF Inside, Typed, TypeOK, Enter, HandlerReturns, NestedSettled, LateHandlerEnds,
                    PatchRead, Resolve
    <2> QED
        BY <1>1, <2>1 DEF DraftsSeeSuccesses, ActionEffectsKept
<1>5. CopiesTell'
    <2>1. ASSUME NEW d \in Calls, phase'[d] = "writing"
          PROVE  (phase[d] = "writing" /\ base'[d] = base[d]) \/ base'[d] = store[target[d]]
        BY <2>1 DEF Typed, TypeOK, Enter, HandlerReturns, NestedSettled, LateHandlerEnds,
                    PatchRead, Resolve
    <2>2. \A d \in Calls : phase[d] # "idle" => store[target[d]].rev \in Nat
        BY DEF Typed, TypeOK, Node
    <2>3. \A d \in Calls : phase'[d] = "writing" => phase[d] # "idle"
        BY <1>2
    <2>4. \A d \in Calls : phase'[d] = "writing" => RevTells(base'[d], target[d])
        BY <2>1, <2>2, <2>3 DEF CopiesTell, RevTells
    <2> QED
        BY <1>1, <2>4 DEF CopiesTell, RevTells
<1> QED
    BY <1>3, <1>4, <1>5

LEMMA PatchWriteEInv ==
    ASSUME Typed, EInv, Excluded, NEW c \in Calls, PatchWrite(c)
    PROVE  EInv'
<1> USE DEF EInv
<1> DEFINE p == target[c]
           f == meta[c].field
<1>1. phase[c] = "writing" /\ p \in Paths /\ f \in Fields /\ base[c] \in Node
    BY DEF PatchWrite, Typed, TypeOK, Fielded
<1>2. CASE ~RevMatches(base[c], p)
    BY <1>2, SettleEInv DEF PatchWrite, callVars
<1>3. CASE RevMatches(base[c], p)
    <2>1. PICK o \in {"ok", "failed"} : Settle(c, o)
        BY <1>3 DEF PatchWrite
    <2>2. UNCHANGED <<meta, target, snap, base, writer>>
        BY <2>1 DEF PatchWrite, callVars, Settle
    <2>3. /\ \A d \in Calls : d # c => phase'[d] = phase[d] /\ outcome'[d] = outcome[d]
          /\ phase'[c] = "settled" /\ outcome'[c] = o
        BY <2>1 DEF Settle, Typed, TypeOK
    <2>4. /\ store'[p].val[f] = DraftValue(c)
          /\ \A g \in Fields \ {f} : store'[p].val[g] = store[p].val[g]
          /\ \A q \in Paths \ {p} : store'[q] = store[q]
          /\ \A m \in Node, q \in Paths : RevTells(m, q) => RevTells(m, q)'
        <3>1. RevTells(base[c], p)
            BY <1>1 DEF CopiesTell
        <3>2. StoreNode([base[c] EXCEPT !.val[f] = DraftValue(c)], p)
            BY <1>3 DEF PatchWrite
        <3> QED
            BY <1>1, <1>3, <3>1, <3>2, StoreStep DEF Typed, TypeOK
    <2>5. ActionEffectsKept'
        <3> SUFFICES ASSUME NEW d \in Calls, outcome'[d] = "ok"
                     PROVE  d \in store'[target[d]].val[meta[d].field]
            BY <2>2 DEF ActionEffectsKept
        <3>1. CASE d = c
            BY <2>4, <3>1 DEF DraftValue
        <3>2. CASE d # c
            <4>1. outcome[d] = "ok" /\ d \in store[target[d]].val[meta[d].field]
                BY <2>3, <3>2 DEF ActionEffectsKept
            <4>2. meta[d].field \in Fields /\ target[d] \in Paths
                BY <4>1 DEF OpenHasNoOutcome, Fielded, Typed
            <4>3. CASE target[d] = p /\ meta[d].field = f
                BY <1>1, <2>4, <4>1, <4>3 DEF DraftsSeeSuccesses, Inside, DraftValue
            <4>4. CASE target[d] # p \/ meta[d].field # f
                BY <2>4, <4>1, <4>2, <4>4
            <4> QED
                BY <4>3, <4>4
        <3> QED
            BY <3>1, <3>2
    <2>6. DraftsSeeSuccesses'
        <3>1. ASSUME NEW d \in Calls, Inside(d)'
              PROVE  Inside(d) /\ d # c /\ target[d] # p
            BY <1>1, <2>3, <3>1 DEF Inside, Excluded
        <3> QED
            BY <2>2, <2>3, <3>1 DEF DraftsSeeSuccesses
    <2>7. Fielded' /\ OpenHasNoOutcome'
        BY <1>1, <2>2, <2>3 DEF Fielded, OpenHasNoOutcome
    <2>8. CopiesTell'
        <3>1. \A d \in Calls : phase'[d] = "writing" => RevTells(base[d], target[d])'
            BY <2>2, <2>3, <2>4 DEF CopiesTell, Typed, TypeOK
        <3>2. \A w \in Writers : writer'[w].at = "got" => RevTells(writer[w].node, writer[w].path)'
            BY <2>2, <2>4 DEF CopiesTell, Typed, TypeOK
        <3> QED
            BY <3>1, <3>2 DEF CopiesTell
    <2> QED
        BY <2>5, <2>6, <2>7, <2>8
<1> QED
    BY <1>2, <1>3

LEMMA CallEInv ==
    ASSUME Typed, EInv, Excluded, NEW c \in Calls, CallNext(c)
    PROVE  EInv'
<1>1. CASE Enter(c) \/ HandlerReturns(c) \/ NestedSettled(c) \/ LateHandlerEnds(c) \/ PatchRead(c)
    BY <1>1, MoveEInv
<1>2. CASE Resolve(c)
    <2>1. CASE CanCall(c)
        BY <1>2, <2>1, MoveEInv DEF Resolve
    <2>2. CASE ~CanCall(c)
        BY <1>2, <2>2, SettleEInv DEF Resolve, callVars, Typed, TypeOK
    <2> QED
        BY <2>1, <2>2
<1>3. CASE PureHandlerReturns(c) \/ HandlerThrows(c) \/ Timeout(c)
    BY <1>3, SettleEInv DEF PureHandlerReturns, HandlerThrows, Timeout, callVars
<1>4. CASE PatchWrite(c)
    BY <1>4, PatchWriteEInv
<1> QED
    BY <1>1, <1>2, <1>3, <1>4 DEF CallNext

LEMMA WriterEInv ==
    ASSUME Typed, EInv, NEW w \in Writers,
           \/ \E p \in Paths : WriterGet(w, p)
           \/ \E f \in Fields : WriterSet(w, f)
    PROVE  EInv'
<1> USE DEF EInv
<1>1. UNCHANGED <<phase, target, meta, snap, base, outcome>>
    BY DEF WriterGet, WriterSet, lockVars, callVars
<1>2. Fielded' /\ OpenHasNoOutcome' /\ DraftsSeeSuccesses'
    BY <1>1 DEF Fielded, OpenHasNoOutcome, DraftsSeeSuccesses, Inside
<1>3. ASSUME NEW p \in Paths, WriterGet(w, p)
      PROVE  ActionEffectsKept' /\ CopiesTell'
    <2>1. store[p].rev \in Nat /\ store' = store
        BY <1>3 DEF Typed, TypeOK, Node, WriterGet
    <2>2. \A v \in Writers : writer'[v].at = "got" =>
            writer'[v] = writer[v] \/ (writer'[v].node = store[p] /\ writer'[v].path = p)
        BY <1>3 DEF Typed, TypeOK, WriterGet
    <2> QED
        BY <1>1, <2>1, <2>2 DEF ActionEffectsKept, CopiesTell, RevTells
<1>4. ASSUME NEW f \in Fields, WriterSet(w, f)
      PROVE  ActionEffectsKept' /\ CopiesTell'
    <2> DEFINE p == writer[w].path
               n == writer[w].node
    <2>1. p \in Paths /\ n \in Node /\ RevTells(n, p)
        BY <1>4 DEF Typed, TypeOK, CopiesTell, WriterSet
    <2>2. \A v \in Writers : writer'[v].at = "got" => writer'[v] = writer[v]
        <3>1. PICK at \in {"ok", "failed"} : writer' = [writer EXCEPT ![w].at = at]
            BY <1>4 DEF WriterSet
        <3>2. [writer[w] EXCEPT !.at = at].at # "got"
            BY DEF Typed, TypeOK
        <3> QED
            BY <3>1, <3>2 DEF Typed, TypeOK
    <2>3. CASE ~RevMatches(n, p)
        <3>1. store' = store
            BY <1>4, <2>3 DEF WriterSet
        <3> QED
            BY <1>1, <2>2, <3>1 DEF ActionEffectsKept, CopiesTell, RevTells
    <2>4. CASE RevMatches(n, p)
        <3>1. StoreNode([n EXCEPT !.val[f] = n.val[f] \cup {w}], p)
            BY <1>4, <2>4 DEF WriterSet
        <3>2. /\ store'[p].val[f] = n.val[f] \cup {w}
              /\ \A g \in Fields \ {f} : store'[p].val[g] = store[p].val[g]
              /\ \A q \in Paths \ {p} : store'[q] = store[q]
              /\ \A m \in Node, q \in Paths : RevTells(m, q) => RevTells(m, q)'
            BY <2>1, <2>4, <3>1, StoreStep DEF Typed, TypeOK
        <3>3. n.val = store[p].val
            BY <2>1, <2>4 DEF RevTells, RevMatches
        <3>4. ActionEffectsKept'
            <4> SUFFICES ASSUME NEW d \in Calls, outcome[d] = "ok"
                         PROVE  d \in store'[target[d]].val[meta[d].field]
                BY <1>1 DEF ActionEffectsKept
            <4>1. d \in store[target[d]].val[meta[d].field]
                BY DEF ActionEffectsKept
            <4>2. meta[d].field \in Fields /\ target[d] \in Paths
                BY DEF OpenHasNoOutcome, Fielded, Typed
            <4> QED
                BY <3>2, <3>3, <4>1, <4>2
        <3>5. CopiesTell'
            <4>1. \A d \in Calls : phase'[d] = "writing" => RevTells(base[d], target[d])'
                BY <1>1, <3>2 DEF CopiesTell, Typed, TypeOK
            <4>2. \A v \in Writers : writer'[v].at = "got" => RevTells(writer[v].node, writer[v].path)'
                BY <2>2, <3>2 DEF CopiesTell, Typed, TypeOK
            <4> QED
                BY <4>1, <4>2 DEF CopiesTell
        <3> QED
            BY <3>4, <3>5
    <2> QED
        BY <2>3, <2>4
<1> QED
    BY <1>2, <1>3, <1>4

LEMMA EStep == Typed /\ Excluded /\ EInv /\ [Next]_vars => EInv'
<1> SUFFICES ASSUME Typed, Excluded, EInv, [Next]_vars PROVE EInv'
    OBVIOUS
<1>1. CASE UNCHANGED vars
    BY <1>1 DEF vars, EInv, Fielded, OpenHasNoOutcome, ActionEffectsKept, DraftsSeeSuccesses,
                CopiesTell, RevTells, Inside
<1>2. CASE Next
    BY <1>2, InvokeEInv, CallEInv, WriterEInv DEF Next, InvokeFromClient, InvokeFromHandler
<1> QED
    BY <1>1, <1>2

LEMMA EAlways == Spec => [](Typed /\ EInv)
BY TypingInit, TypingStep, ExcludedAlways, InitEInv, EStep, PTL DEF Spec

(* executeAction, actions.ts:381: what an action reported as done is never *)
(* undone, by another action on the node or by a setComponent.             *)
THEOREM Effects == Spec => []ActionEffectsKept
<1>1. EInv => ActionEffectsKept
    BY DEF EInv
<1> QED
    BY <1>1, EAlways, PTL

(* setComponent, actions.ts:511: what one wrote to a field is only ever    *)
(* lost to an action that changes the same field and settles.              *)
THEOREM WriterLosses == Spec => WriterLostOnlyToSameField
<1> DEFINE Loss(w, p, f) == w \in store[p].val[f] /\ w \notin store'[p].val[f]
           ByAction(p, f) == \E c \in Calls : /\ outcome'[c] # outcome[c]
                                             /\ target[c] = p /\ meta[c].field = f
<1>1. ASSUME Typed, EInv, [Next]_vars, NEW w \in Writers, NEW p \in Paths, NEW f \in Fields,
             Loss(w, p, f)
      PROVE  ByAction(p, f)
    <2>0. /\ store \in [Paths -> Node]
          /\ w \in store[p].val[f] /\ w \notin store'[p].val[f]
        BY <1>1 DEF Typed, TypeOK
    <2>1. CASE store' = store
        BY <2>0, <2>1
    <2>2. ASSUME NEW c \in Calls, PatchWrite(c), RevMatches(base[c], target[c])
          PROVE  ByAction(p, f)
        <3> DEFINE q == target[c]
                   g == meta[c].field
        <3>1. phase[c] = "writing" /\ q \in Paths /\ base[c] \in Node /\ g \in Fields
            BY <1>1, <2>2 DEF EInv, PatchWrite, Typed, TypeOK, Fielded
        <3>2. RevTells(base[c], q) /\ RevMatches(base[c], q)
            BY <1>1, <2>2, <3>1 DEF EInv, CopiesTell
        <3>3. StoreNode([base[c] EXCEPT !.val[g] = DraftValue(c)], q)
            BY <2>2 DEF PatchWrite
        <3>4. outcome[c] = "none" /\ outcome'[c] # "none"
            BY <1>1, <2>2, <3>1 DEF EInv, OpenHasNoOutcome, PatchWrite, Settle, Typed, TypeOK
        <3>5. /\ store'[q].val[g] = DraftValue(c)
              /\ \A k \in Fields \ {g} : store'[q].val[k] = store[q].val[k]
              /\ \A r \in Paths \ {q} : store'[r] = store[r]
              /\ \A m \in Node, r \in Paths : RevTells(m, r) => RevTells(m, r)'
            BY <1>1, <3>1, <3>2, <3>3, StoreStep DEF Typed, TypeOK
        <3>6. q = p /\ g = f
            BY <2>0, <3>5
        <3> QED
            BY <3>4, <3>6
    <2>3. ASSUME NEW v \in Writers, NEW g \in Fields, WriterSet(v, g),
                 RevMatches(writer[v].node, writer[v].path)
          PROVE  FALSE
        <3> DEFINE n == writer[v].node
                   q == writer[v].path
        <3>1. q \in Paths /\ n \in Node /\ RevTells(n, q) /\ RevMatches(n, q)
            BY <1>1, <2>3 DEF EInv, Typed, TypeOK, CopiesTell, WriterSet
        <3>2. StoreNode([n EXCEPT !.val[g] = n.val[g] \cup {v}], q)
            BY <2>3 DEF WriterSet
        <3>3. n.val[g] = store[q].val[g]
            BY <3>1 DEF RevTells, RevMatches
        <3>4. /\ store'[q].val[g] = n.val[g] \cup {v}
              /\ \A k \in Fields \ {g} : store'[q].val[k] = store[q].val[k]
              /\ \A r \in Paths \ {q} : store'[r] = store[r]
              /\ \A m \in Node, r \in Paths : RevTells(m, r) => RevTells(m, r)'
            BY <1>1, <3>1, <3>2, StoreStep DEF Typed, TypeOK
        <3> QED
            BY <2>0, <3>3, <3>4
    <2>4. ASSUME NEW c \in Calls, CallNext(c)
          PROVE  store' = store \/ (PatchWrite(c) /\ RevMatches(base[c], target[c]))
        BY <2>4 DEF CallNext, Enter, Resolve, HandlerReturns, PureHandlerReturns, HandlerThrows,
                    Timeout, NestedSettled, LateHandlerEnds, PatchRead, PatchWrite
    <2>5. CASE UNCHANGED vars
        BY <2>1, <2>5 DEF vars
    <2>6. ASSUME NEW v \in Writers, NEW g \in Fields, WriterSet(v, g)
          PROVE  ByAction(p, f)
        BY <2>1, <2>3, <2>6 DEF WriterSet
    <2>7. ASSUME NEW c \in Calls, CallNext(c)
          PROVE  ByAction(p, f)
        BY <2>1, <2>2, <2>4, <2>7
    <2>8. ASSUME NEW c \in Calls, NEW q \in Paths, NEW k \in Kinds, NEW g \in Fields,
                 Invoke(c, q, k, g)
          PROVE  ByAction(p, f)
        BY <2>1, <2>8 DEF Invoke
    <2>9. ASSUME NEW v \in Writers, NEW q \in Paths, WriterGet(v, q)
          PROVE  ByAction(p, f)
        BY <2>1, <2>9 DEF WriterGet
    <2> QED
        BY <1>1, <2>5, <2>6, <2>7, <2>8, <2>9 DEF Next, InvokeFromClient, InvokeFromHandler
<1>2. Typed /\ EInv /\ [Next]_vars =>
        [\A w \in Writers, p \in Paths, f \in Fields :
            w \in store[p].val[f] /\ w \notin store'[p].val[f]
                => \E c \in Calls : /\ outcome'[c] # outcome[c]
                                    /\ target[c] = p /\ meta[c].field = f
          ]_vars
    BY <1>1
<1> QED
    BY <1>2, EAlways, PTL DEF Spec, WriterLostOnlyToSameField

-----------------------------------------------------------------------------
\* Kinds

(* What KindPropagation says of one call.                                  *)
Allowed(c) ==
    \A a \in stack[c] : meta[a].kind = "read" =>
        /\ meta[c].kind = "read"
        /\ meta[c].io => meta[a].io

(* The stack of a call is that of the handler that made it, and that       *)
(* handler; a handler that runs, in time or late, has passed the rules.    *)
StackInv ==
    /\ \A c \in Calls : /\ phase[c] = "idle" => caller[c] = NoCall
                        /\ caller[c] = NoCall => stack[c] = {}
                        /\ \A a \in stack[c] : phase[a] # "idle"
    /\ \A c \in Calls : caller[c] # NoCall =>
        /\ phase[caller[c]] # "idle"
        /\ stack[c] = stack[caller[c]] \cup {caller[c]}
        /\ Allowed(caller[c])

RunsAllowed ==
    \A c \in Calls : Inside(c) \/ c \in late => Allowed(c) /\ phase[c] # "idle"

KindInv == StackInv /\ RunsAllowed

LEMMA InvokeKindInv ==
    ASSUME Typed, KindInv, NEW c \in Calls, NEW p \in Paths, NEW k \in Kinds, NEW f \in Fields,
           InvokeFromClient(c, p, k, f) \/ \E h \in Calls \ {c} : InvokeFromHandler(h, c, p, k, f)
    PROVE  KindInv'
<1> USE DEF KindInv, Typed, TypeOK
<1>1. /\ phase[c] = "idle" /\ phase' = [phase EXCEPT ![c] = "queued"] /\ late' = late
      /\ \A d \in Calls \ {c} : meta'[d] = meta[d]
    BY DEF InvokeFromClient, InvokeFromHandler, Invoke
<1>2. /\ \A d \in Calls \ {c} : stack'[d] = stack[d] /\ caller'[d] = caller[d]
      /\ \/ stack'[c] = stack[c] /\ caller'[c] = caller[c]
         \/ \E h \in Calls \ {c} : /\ Inside(h) \/ h \in late
                                   /\ caller'[c] = h /\ stack'[c] = stack[h] \cup {h}
    BY DEF InvokeFromClient, InvokeFromHandler, Inside
<1>3. \A d \in Calls : c \notin stack[d] /\ caller[d] # c
    BY <1>1 DEF StackInv
<1>4. ASSUME NEW d \in Calls \ {c}, Allowed(d)
      PROVE  Allowed(d)'
    <2>1. stack'[d] = stack[d] /\ meta'[d] = meta[d]
        BY <1>1, <1>2
    <2>2. \A a \in stack[d] : meta'[a] = meta[a]
        <3>1. stack[d] \subseteq Calls /\ c \notin stack[d]
            BY <1>3
        <3> QED
            BY <1>1, <3>1
    <2> QED
        BY <1>4, <2>1, <2>2 DEF Allowed
<1>5. \A d \in Calls : phase[d] # "idle" => phase'[d] # "idle"
    BY <1>1
<1>6. caller[c] = NoCall /\ stack[c] = {}
    BY <1>1 DEF StackInv
<1>7. ASSUME NEW d \in Calls \ {c}
      PROVE  /\ phase'[d] = "idle" => caller'[d] = NoCall
             /\ caller'[d] = NoCall => stack'[d] = {}
             /\ \A a \in stack'[d] : phase'[a] # "idle"
             /\ caller'[d] # NoCall => /\ phase'[caller'[d]] # "idle"
                                      /\ stack'[d] = stack'[caller'[d]] \cup {caller'[d]}
                                      /\ Allowed(caller[d])'
    BY <1>1, <1>2, <1>3, <1>4, <1>5 DEF StackInv
<1>8. /\ phase'[c] # "idle"
      /\ caller'[c] = NoCall => stack'[c] = {}
      /\ \A a \in stack'[c] : phase'[a] # "idle"
      /\ caller'[c] # NoCall => /\ phase'[caller'[c]] # "idle"
                               /\ stack'[c] = stack'[caller'[c]] \cup {caller'[c]}
                               /\ Allowed(caller[c])'
    <2>1. CASE stack'[c] = stack[c] /\ caller'[c] = caller[c]
        BY <1>1, <1>6, <2>1
    <2>2. ASSUME NEW h \in Calls \ {c}, Inside(h) \/ h \in late,
                 caller'[c] = h, stack'[c] = stack[h] \cup {h}
          PROVE  /\ \A a \in stack'[c] : phase'[a] # "idle"
                 /\ phase'[h] # "idle" /\ stack'[c] = stack'[h] \cup {h} /\ Allowed(h)'
        <3>1. Allowed(h) /\ phase[h] # "idle"
            BY <2>2 DEF RunsAllowed
        <3>2. Allowed(h)'
            BY <1>4, <3>1
        <3> QED
            BY <1>1, <1>2, <1>5, <2>2, <3>1, <3>2 DEF StackInv
    <2>3. phase'[c] = "queued"
        BY <1>1
    <2>4. CASE \E h \in Calls \ {c} : /\ Inside(h) \/ h \in late
                                     /\ caller'[c] = h /\ stack'[c] = stack[h] \cup {h}
        <3>1. PICK h \in Calls \ {c} : /\ Inside(h) \/ h \in late
                                     /\ caller'[c] = h /\ stack'[c] = stack[h] \cup {h}
            BY <2>4
        <3>2. /\ \A a \in stack'[c] : phase'[a] # "idle"
              /\ phase'[h] # "idle" /\ stack'[c] = stack'[h] \cup {h} /\ Allowed(h)'
            BY <2>2, <3>1
        <3>3. Allowed(caller[c])'
            BY <3>1, <3>2 DEF Allowed
        <3> QED
            BY <2>3, <3>1, <3>2, <3>3
    <2> QED
        BY <1>2, <2>1, <2>4
<1>9. StackInv'
    BY <1>7, <1>8 DEF StackInv
<1>10. RunsAllowed'
    <2>1. ASSUME NEW d \in Calls, Inside(d)' \/ d \in late'
          PROVE  d # c /\ (Inside(d) \/ d \in late)
        BY <1>1, <2>1 DEF Inside, RunsAllowed
    <2> QED
        BY <1>4, <1>5, <2>1 DEF RunsAllowed
<1> QED
    BY <1>9, <1>10

(* The rules against the innermost frame are those against every frame.    *)
LEMMA ResolvedIsAllowed ==
    ASSUME StackInv, NEW c \in Calls, CanCall(c)
    PROVE  Allowed(c)
<1>1. CASE caller[c] = NoCall
    BY <1>1 DEF StackInv, Allowed
<1>2. CASE caller[c] # NoCall
    BY <1>2 DEF StackInv, Allowed, CanCall
<1> QED
    BY <1>1, <1>2

LEMMA MovesKindInv ==
    ASSUME KindInv, UNCHANGED callVars,
           \A c \in Calls : phase'[c] = "idle" <=> phase[c] = "idle",
           \A c \in Calls : \A a \in stack[c] : a \in Calls,
           \A c \in Calls : caller[c] \in Calls \cup {NoCall},
           \A c \in Calls : Inside(c)' \/ c \in late' =>
                Inside(c) \/ c \in late \/ (Allowed(c) /\ phase[c] # "idle")
    PROVE  KindInv'
<1> USE DEF KindInv, callVars
<1>1. \A c : Allowed(c)' <=> Allowed(c)
    BY DEF Allowed
<1>2. StackInv'
    BY <1>1 DEF StackInv
<1>3. RunsAllowed'
    BY <1>1 DEF RunsAllowed
<1> QED
    BY <1>2, <1>3

LEMMA NextKindInv ==
    ASSUME Typed, KindInv, [Next]_vars
    PROVE  KindInv'
<1>1. /\ \A c \in Calls : \A a \in stack[c] : a \in Calls
      /\ \A c \in Calls : caller[c] \in Calls \cup {NoCall}
    BY DEF Typed, TypeOK
<1>2. ASSUME UNCHANGED <<phase, callVars, late>>
      PROVE  KindInv'
    BY <1>1, <1>2, MovesKindInv DEF Inside
<1>3. ASSUME NEW c \in Calls, CallNext(c)
      PROVE  KindInv'
    <2> USE DEF Typed, TypeOK
    <2>1. UNCHANGED callVars
        BY <1>3 DEF CallNext, Enter, Resolve, HandlerReturns, PureHandlerReturns, HandlerThrows,
            Timeout, NestedSettled, LateHandlerEnds, PatchRead, PatchWrite
    <2>2. /\ \A d \in Calls \ {c} : phase'[d] = phase[d] /\ (d \in late' => d \in late)
          /\ phase'[c] = "idle" <=> phase[c] = "idle"
        BY <1>3 DEF CallNext, Enter, Resolve, HandlerReturns, PureHandlerReturns, HandlerThrows,
            Timeout, NestedSettled, LateHandlerEnds, PatchRead, PatchWrite, Settle
    <2>3. Inside(c)' \/ c \in late' =>
            Inside(c) \/ c \in late \/ (Allowed(c) /\ phase[c] # "idle")
        <3>1. CASE Resolve(c)
            <4>1. CASE CanCall(c)
                BY <3>1, <4>1, ResolvedIsAllowed DEF Resolve, KindInv
            <4>2. CASE ~CanCall(c)
                BY <3>1, <4>2 DEF Resolve, Settle, Inside
            <4> QED
                BY <4>1, <4>2
        <3>2. CASE ~Resolve(c)
            BY <1>3, <3>2 DEF CallNext, Enter, HandlerReturns, PureHandlerReturns, HandlerThrows,
                Timeout, NestedSettled, LateHandlerEnds, PatchRead, PatchWrite, Settle, Inside
        <3> QED
            BY <3>1, <3>2
    <2>4. \A d \in Calls : phase'[d] = "idle" <=> phase[d] = "idle"
        BY <2>2
    <2>5. \A d \in Calls : Inside(d)' \/ d \in late' =>
            Inside(d) \/ d \in late \/ (Allowed(d) /\ phase[d] # "idle")
        BY <2>2, <2>3 DEF Inside
    <2> QED
        BY <1>1, <2>1, <2>4, <2>5, MovesKindInv
<1>4. ASSUME NEW w \in Writers, NEW p, NEW f, WriterGet(w, p) \/ WriterSet(w, f)
      PROVE  KindInv'
    BY <1>2, <1>4 DEF WriterGet, WriterSet
<1>5. CASE UNCHANGED vars
    BY <1>2, <1>5 DEF vars, callVars
<1>6. ASSUME NEW c \in Calls, NEW p \in Paths, NEW k \in Kinds, NEW f \in Fields,
             InvokeFromClient(c, p, k, f) \/ \E h \in Calls \ {c} : InvokeFromHandler(h, c, p, k, f)
      PROVE  KindInv'
    BY <1>6, InvokeKindInv
<1> QED
    BY <1>3, <1>4, <1>5, <1>6 DEF Next

(* kind-stack.ts: the check against the innermost frame is enough, at any  *)
(* depth, and even for what a handler calls after its timeout.             *)
THEOREM Kinded == Spec => []KindPropagation
<1>1. Init => KindInv
    BY DEF Init, KindInv, StackInv, RunsAllowed, Inside
<1>2. KindInv => KindPropagation
    BY DEF KindInv, RunsAllowed, Allowed, Inside, KindPropagation
<1> QED
    BY <1>1, <1>2, TypingInit, TypingStep, NextKindInv, PTL DEF Spec
=============================================================================
