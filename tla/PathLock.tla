------------------------------ MODULE PathLock ------------------------------
(***************************************************************************)
(* The per-path asynchronous mutex of core/src/util/path-lock.ts.          *)
(*                                                                         *)
(* Every invocation lock(path, fn) makes a gate of its own, remembers the  *)
(* gate that is last in the path's chain, becomes the last one, runs fn    *)
(* once the remembered gate is open, and opens its own gate when fn has    *)
(* settled.  An invocation and its gate are one model value, a "call".     *)
(***************************************************************************)
EXTENDS Naturals, FiniteSets

CONSTANTS
    Calls,      \* the invocations of the lock; each is made at most once
    Paths,      \* the keys
    NoCall      \* no gate (the map has no entry), no path yet

ASSUME NoCallAssumption == NoCall \notin Calls \cup Paths

VARIABLES
    pc,         \* pc[c]: "idle" | "waiting" | "running" | "done" (gate open)
    target,     \* target[c]: the path c was invoked on
    prev,       \* prev[c]: the gate c waits for
    tail,       \* tail[p]: locks.get(p), the last gate of the chain
    ticket,     \* ticket[c]: the position of c in the order of invocation
    clock       \* the number of invocations so far

vars == <<pc, target, prev, tail, ticket, clock>>

Init ==
    /\ pc = [c \in Calls |-> "idle"]
    /\ target = [c \in Calls |-> NoCall]
    /\ prev = [c \in Calls |-> NoCall]
    /\ tail = [p \in Paths |-> NoCall]
    /\ ticket = [c \in Calls |-> 0]
    /\ clock = 0

(* Slip: the entry holds the key instead of the gate.                      *)
AcquireStoresKey(c, p) ==
    /\ pc[c] = "idle"
    /\ pc' = [pc EXCEPT ![c] = "waiting"]
    /\ target' = [target EXCEPT ![c] = p]
    /\ prev' = [prev EXCEPT ![c] = tail[p]]
    /\ tail' = [tail EXCEPT ![p] = p]
    /\ ticket' = [ticket EXCEPT ![c] = clock]
    /\ clock' = clock + 1

(* The synchronous part of lock(path, fn): queue behind the current tail.  *)
Acquire(c, p) ==
    /\ pc[c] = "idle"
    /\ pc' = [pc EXCEPT ![c] = "waiting"]
    /\ target' = [target EXCEPT ![c] = p]
    /\ prev' = [prev EXCEPT ![c] = tail[p]]
    /\ tail' = [tail EXCEPT ![p] = c]
    /\ ticket' = [ticket EXCEPT ![c] = clock]
    /\ clock' = clock + 1

(* Slip: fn is started without waiting for the gate.                       *)
EnterAtOnce(c) ==
    /\ pc[c] = "waiting"
    /\ pc' = [pc EXCEPT ![c] = "running"]
    /\ UNCHANGED <<target, prev, tail, ticket, clock>>

(* prev.then(fn, fn): fn starts when the remembered gate has opened.       *)
Enter(c) ==
    /\ pc[c] = "waiting"
    /\ prev[c] # NoCall => pc[prev[c]] = "done"
    /\ pc' = [pc EXCEPT ![c] = "running"]
    /\ UNCHANGED <<target, prev, tail, ticket, clock>>

(* Slip: the entry is never dropped.                                       *)
TailKept(c) == tail

(* The map entry goes away only if no later call has replaced it.          *)
TailAfter(c) ==
    IF tail[target[c]] = c THEN [tail EXCEPT ![target[c]] = NoCall] ELSE tail

(* Slip: the gate is opened only together with dropping the map entry.     *)
ReleaseIfLast(c) ==
    /\ pc[c] = "running"
    /\ tail[target[c]] = c
    /\ pc' = [pc EXCEPT ![c] = "done"]
    /\ tail' = TailAfter(c)
    /\ UNCHANGED <<target, prev, ticket, clock>>

(* fn settled, either way: the finally block drops the map entry if it is  *)
(* still this call's gate, then opens the gate.                            *)
Release(c) ==
    /\ pc[c] = "running"
    /\ pc' = [pc EXCEPT ![c] = "done"]
    /\ tail' = TailAfter(c)
    /\ UNCHANGED <<target, prev, ticket, clock>>

Next ==
    \E c \in Calls :
        \/ \E p \in Paths : Acquire(c, p)
        \/ Enter(c)
        \/ Release(c)

Spec == Init /\ [][Next]_vars

(* Promise callbacks run once they are due, and fn is taken to settle.     *)
FairSpec == Spec /\ \A c \in Calls : WF_vars(Enter(c)) /\ WF_vars(Release(c))

-----------------------------------------------------------------------------
TypeOK ==
    /\ pc \in [Calls -> {"idle", "waiting", "running", "done"}]
    /\ target \in [Calls -> Paths \cup {NoCall}]
    /\ \A c \in Calls : pc[c] # "idle" => target[c] \in Paths
    /\ prev \in [Calls -> Calls \cup {NoCall}]
    /\ tail \in [Paths -> Calls \cup {NoCall}]
    /\ ticket \in [Calls -> Nat]
    /\ clock \in Nat

Active(c) == pc[c] \in {"waiting", "running"}

Before(c, d) ==
    /\ Active(c) /\ Active(d)
    /\ target[c] = target[d]
    /\ ticket[c] < ticket[d]

(* Of the unfinished calls on one path only the first invoked may run:     *)
(* mutual exclusion and first-come first-served, together, of the          *)
(* serialisation that executeAction relies on.                             *)
FifoMutex == \A c, d \in Calls : Before(c, d) => pc[d] = "waiting"

(* The chain of unfinished calls, as the gates record it: a call with an   *)
(* earlier unfinished one waits for an unfinished gate at least as late.   *)
ChainInv ==
    \A c, d \in Calls : Before(c, d) =>
        /\ prev[d] \in Calls
        /\ Active(prev[d])
        /\ target[prev[d]] = target[d]
        /\ ticket[c] <= ticket[prev[d]]

(* The map's entry is exactly the last unfinished call of the path: it is  *)
(* dropped when the path falls idle, and never while a call is queued.     *)
TailInv ==
    \A p \in Paths :
        /\ tail[p] = NoCall <=> ~\E c \in Calls : Active(c) /\ target[c] = p
        /\ tail[p] # NoCall =>
            /\ Active(tail[p])
            /\ target[tail[p]] = p
            /\ \A c \in Calls : Active(c) /\ target[c] = p => ticket[c] <= ticket[tail[p]]

(* Tickets of issued calls are distinct and below the clock.               *)
TicketInv ==
    /\ \A c \in Calls : pc[c] # "idle" => ticket[c] < clock
    /\ \A c, d \in Calls :
        pc[c] # "idle" /\ pc[d] # "idle" /\ ticket[c] = ticket[d] => c = d

IInv == TypeOK /\ FifoMutex /\ ChainInv /\ TailInv /\ TicketInv

(* A queued call gets its turn.                                            *)
EveryCallRuns == \A c \in Calls : pc[c] = "waiting" ~> pc[c] = "running"
=============================================================================
