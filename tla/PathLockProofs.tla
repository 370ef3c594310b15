--------------------------- MODULE PathLockProofs ---------------------------
(***************************************************************************)
(* The mutex of PathLock excludes and is first-come first-served, for any  *)
(* number of calls and paths.  FifoMutex is not inductive: that a call     *)
(* whose remembered gate is open has no earlier unfinished call ahead of   *)
(* it rests on the chain the gates form (ChainInv), on the map holding the *)
(* last unfinished call (TailInv), and on the distinctness of the tickets. *)
(***************************************************************************)
EXTENDS PathLock, TLAPS

USE NoCallAssumption

LEMMA InitIInv == Init => IInv
BY DEF Init, IInv, TypeOK, FifoMutex, ChainInv, TailInv, TicketInv, Before, Active

LEMMA AcquireIInv ==
    ASSUME IInv, NEW e \in Calls, NEW q \in Paths, Acquire(e, q)
    PROVE  IInv'
<1> USE DEF IInv, Active, Before
<1>1. TypeOK'
    BY DEF TypeOK, Acquire
<1>2. \A c \in Calls : c # e =>
        (pc'[c] = pc[c] /\ target'[c] = target[c] /\ prev'[c] = prev[c] /\ ticket'[c] = ticket[c])
    BY DEF TypeOK, Acquire
<1>3. /\ pc[e] = "idle" /\ pc'[e] = "waiting" /\ target'[e] = q
      /\ prev'[e] = tail[q] /\ ticket'[e] = clock /\ clock' = clock + 1
    BY DEF TypeOK, Acquire
<1>4. /\ tail'[q] = e
      /\ \A p \in Paths : p # q => tail'[p] = tail[p]
    BY DEF TypeOK, Acquire
<1>5. TicketInv'
    BY <1>2, <1>3 DEF TypeOK, TicketInv
<1>6. ASSUME NEW c \in Calls, NEW d \in Calls, Before(c, d)'
      PROVE  /\ pc'[d] = "waiting"
             /\ prev'[d] \in Calls
             /\ Active(prev[d])'
             /\ target'[prev'[d]] = target'[d]
             /\ ticket'[c] <= ticket'[prev'[d]]
    <2>1. CASE d = e
        <3>1. c # e /\ Active(c) /\ target[c] = q
            BY <1>2, <1>3, <1>6, <2>1 DEF TypeOK
        <3>2. /\ tail[q] \in Calls /\ Active(tail[q]) /\ target[tail[q]] = q
              /\ ticket[c] <= ticket[tail[q]]
            BY <3>1 DEF TypeOK, TailInv
        <3> QED
            BY <1>2, <1>3, <2>1, <3>1, <3>2 DEF TypeOK
    <2>2. CASE d # e
        <3>1. c # e
            BY <1>2, <1>3, <1>6, <2>2 DEF TypeOK, TicketInv
        <3>2. Before(c, d)
            BY <1>2, <1>6, <2>2, <3>1
        <3> QED
            BY <1>2, <1>3, <2>2, <3>1, <3>2 DEF TypeOK, ChainInv, FifoMutex
    <2> QED
        BY <2>1, <2>2
<1>7. FifoMutex' /\ ChainInv'
    BY <1>6 DEF FifoMutex, ChainInv
<1>8. TailInv'
    <2> SUFFICES ASSUME NEW p \in Paths
                 PROVE  /\ (tail[p] = NoCall <=> ~\E c \in Calls : Active(c) /\ target[c] = p)'
                        /\ (tail[p] # NoCall =>
                              /\ Active(tail[p])
                              /\ target[tail[p]] = p
                              /\ \A c \in Calls : Active(c) /\ target[c] = p
                                    => ticket[c] <= ticket[tail[p]])'
        BY DEF TailInv
    <2>1. CASE p = q
        BY <1>2, <1>3, <1>4, <2>1 DEF TypeOK, TicketInv
    <2>2. CASE p # q
        BY <1>2, <1>3, <1>4, <2>2 DEF TypeOK, TailInv
    <2> QED
        BY <2>1, <2>2
<1> QED
    BY <1>1, <1>5, <1>7, <1>8

LEMMA EnterIInv ==
    ASSUME IInv, NEW e \in Calls, Enter(e)
    PROVE  IInv'
<1> USE DEF IInv, Active, Before
<1>1. TypeOK'
    BY DEF TypeOK, Enter
<1>2. /\ \A c \in Calls : c # e => pc'[c] = pc[c]
      /\ pc[e] = "waiting" /\ pc'[e] = "running"
      /\ UNCHANGED <<target, prev, tail, ticket, clock>>
    BY DEF TypeOK, Enter
<1>3. \A c \in Calls : Active(c)' <=> Active(c)
    BY <1>2
<1>4. \A c \in Calls : ~Before(c, e)
    BY DEF Enter, ChainInv, TypeOK
<1>5. FifoMutex'
    BY <1>2, <1>3, <1>4 DEF FifoMutex
<1>6. ChainInv'
    BY <1>2, <1>3 DEF ChainInv
<1>7. TailInv'
    BY <1>2, <1>3 DEF TailInv, TypeOK
<1>8. TicketInv'
    BY <1>2 DEF TicketInv
<1> QED
    BY <1>1, <1>5, <1>6, <1>7, <1>8

LEMMA ReleaseIInv ==
    ASSUME IInv, NEW e \in Calls, Release(e)
    PROVE  IInv'
<1> USE DEF IInv, Active, Before
<1> DEFINE q == target[e]
<1>1. TypeOK'
    BY DEF TypeOK, Release, TailAfter
<1>2. /\ \A c \in Calls : c # e => pc'[c] = pc[c]
      /\ pc[e] = "running" /\ pc'[e] = "done" /\ q \in Paths
      /\ UNCHANGED <<target, prev, ticket, clock>>
    BY DEF TypeOK, Release
<1>3. \A c \in Calls : Active(c)' <=> Active(c) /\ c # e
    BY <1>2
<1>4. /\ \A p \in Paths : p # q => tail'[p] = tail[p]
      /\ tail'[q] = IF tail[q] = e THEN NoCall ELSE tail[q]
    BY DEF TypeOK, Release, TailAfter
<1>5. \A c \in Calls : Active(c) /\ target[c] = q /\ c # e => ticket[e] < ticket[c]
    BY <1>2 DEF TypeOK, FifoMutex, TicketInv
<1>6. FifoMutex'
    BY <1>2, <1>3 DEF FifoMutex
<1>7. ChainInv'
    <2> SUFFICES ASSUME NEW c \in Calls, NEW d \in Calls, Before(c, d)'
                 PROVE  /\ prev'[d] \in Calls
                        /\ Active(prev[d])'
                        /\ target'[prev'[d]] = target'[d]
                        /\ ticket'[c] <= ticket'[prev'[d]]
        BY <1>2 DEF ChainInv
    <2>1. Before(c, d) /\ c # e /\ d # e
        BY <1>2, <1>3
    <2>2. /\ prev[d] \in Calls /\ Active(prev[d]) /\ target[prev[d]] = target[d]
          /\ ticket[c] <= ticket[prev[d]]
        BY <2>1 DEF ChainInv
    <2>3. prev[d] # e
        BY <1>5, <2>1, <2>2 DEF TypeOK
    <2> QED
        BY <1>2, <1>3, <2>2, <2>3
<1>8. TailInv'
    <2> SUFFICES ASSUME NEW p \in Paths
                 PROVE  /\ (tail[p] = NoCall <=> ~\E c \in Calls : Active(c) /\ target[c] = p)'
                        /\ (tail[p] # NoCall =>
                              /\ Active(tail[p])
                              /\ target[tail[p]] = p
                              /\ \A c \in Calls : Active(c) /\ target[c] = p
                                    => ticket[c] <= ticket[tail[p]])'
        BY DEF TailInv
    <2>1. CASE p # q
        BY <1>2, <1>3, <1>4, <2>1 DEF TypeOK, TailInv
    <2>2. CASE p = q /\ tail[q] = e
        BY <1>2, <1>3, <1>4, <1>5, <2>2 DEF TypeOK, TailInv
    <2>3. CASE p = q /\ tail[q] # e
        BY <1>2, <1>3, <1>4, <2>3 DEF TypeOK, TailInv
    <2> QED
        BY <2>1, <2>2, <2>3
<1>9. TicketInv'
    BY <1>2 DEF TicketInv
<1> QED
    BY <1>1, <1>6, <1>7, <1>8, <1>9

LEMMA StutterIInv == IInv /\ UNCHANGED vars => IInv'
BY DEF vars, IInv, TypeOK, FifoMutex, ChainInv, TailInv, TicketInv, Before, Active

(* Every reachable state of the lock satisfies the inductive invariant.    *)
THEOREM Invariance == Spec => []IInv
<1>1. IInv /\ [Next]_vars => IInv'
    BY AcquireIInv, EnterIInv, ReleaseIInv, StutterIInv DEF Next
<1> QED
    BY InitIInv, <1>1, PTL DEF Spec

(* path-lock.ts types: every call's record stays well formed.              *)
THEOREM Typing == Spec => []TypeOK
BY Invariance, PTL DEF IInv

(* createPathLock serialises the calls on one path in the order they were  *)
(* made: no call runs while an earlier one on its path is unfinished.      *)
THEOREM Serialisation == Spec => []FifoMutex
BY Invariance, PTL DEF IInv

(* The lock's map names the last unfinished call of a path, and has no     *)
(* entry for an idle path: the finally block neither leaks nor loses one.  *)
THEOREM MapEntry == Spec => []TailInv
BY Invariance, PTL DEF IInv
=============================================================================
