-------------------------- MODULE AgentOfficeProofs --------------------------
(***************************************************************************)
(* For any number of agents and tasks, restarts and interferences: no      *)
(* agent has two runs, and there are never more runs than the pool has     *)
(* slots.                                                                  *)
(*                                                                         *)
(* Whoever runs, will be resumed, or is about to be launched is occupied.  *)
(* The argument is that an occupied agent holds a slot in the pool that    *)
(* counts: the stored one, or, while a scan has changed its own copy and   *)
(* not saved it yet, the scan's.                                           *)
(***************************************************************************)
EXTENDS AgentOffice, FiniteSetTheorems, SequenceTheorems, TLAPS

Picked == IF scan.picked = None THEN {} ELSE {scan.picked.agent}
Occupied == {r.agent : r \in runs} \cup resumable \cup Picked

Kinds == {"discuss", "plan", "work"}
Slots(p) == p = [max |-> p.max, active |-> p.active, queue |-> p.queue]

AgentRecords ==
    [status : Busy \cup {"idle", "error", "offline"}, task : Tasks \cup {None}, session : BOOLEAN]
Stages == {"going", "done", "failed", "releasing"}
RunRecords == [agent : Agents, kind : Kinds, task : Tasks, at : Stages]

Typed ==
    /\ agent \in [Agents -> AgentRecords]
    /\ Slots(pool) /\ Slots(scan.pool)
    /\ scan = [at |-> scan.at, index |-> scan.index, left |-> scan.left,
               view |-> scan.view, pool |-> scan.pool, shared |-> scan.shared,
               dirty |-> scan.dirty, picked |-> scan.picked]
    /\ scan.at \in {"off", "agents", "board", "visit"}
    /\ scan.shared \in BOOLEAN /\ scan.dirty \in BOOLEAN
    /\ scan.index \subseteq Agents
    /\ scan.left \subseteq Tasks \X {"discuss", "work"}
    /\ scan.picked \in {None} \cup [agent : Agents, kind : Kinds, task : Tasks]
    /\ runs \subseteq RunRecords
    /\ resumable \subseteq Agents

Fits(p) ==
    /\ p.max \in Nat /\ restored \in Nat
    /\ IsFiniteSet(p.active)
    /\ Cardinality(p.active) <= p.max \/ Cardinality(p.active) <= restored

(* The pool that counts has a slot for everyone who is occupied.           *)
SlotsHeld ==
    /\ Fits(pool)
    /\ scan.at # "visit" \/ ~scan.dirty => Occupied \subseteq pool.active
    /\ scan.at = "visit" =>
        /\ Fits(scan.pool) /\ scan.pool.max = pool.max
        /\ Occupied \subseteq scan.pool.active
        /\ scan.shared => scan.pool = pool

(* Nobody is occupied twice over.                                          *)
OccupiedOnce ==
    /\ OneRunPerAgent
    /\ \A r \in runs : r.agent \notin resumable \cup Picked
    /\ resumable \cap Picked = {}

OfficeInv == Typed /\ SlotsHeld /\ OccupiedOnce

-----------------------------------------------------------------------------
LEMMA InitOfficeInv == Init => OfficeInv
<1> SUFFICES ASSUME Init PROVE OfficeInv
    OBVIOUS
<1> USE DEF Init, Scan, Pool, Picked, Occupied
<1>1. Fits(pool)
    BY OfficeAssumption, FS_EmptySet DEF Fits
<1>2. Typed
    BY DEF Typed, Slots, AgentRecords, Busy
<1> QED
    BY <1>1, <1>2 DEF OfficeInv, SlotsHeld, OccupiedOnce, OneRunPerAgent

(* An event lets a scan under way go on.                                   *)
LEMMA WakeKeeps ==
    ASSUME Typed, Wake
    PROVE  \/ scan' = scan
           \/ scan.at = "off" /\ scan' = Scan("agents")
BY DEF Wake

(* What neither touches the pool nor occupies anybody keeps the slots.     *)
LEMMA SlotsStay ==
    ASSUME Typed, SlotsHeld, Wake, UNCHANGED <<pool, restored>>, Occupied' \subseteq Occupied
    PROVE  SlotsHeld'
<1>1. CASE scan' = scan
    BY <1>1 DEF SlotsHeld, Fits
<1>2. CASE scan.at = "off" /\ scan' = Scan("agents")
    BY <1>2 DEF SlotsHeld, Fits, Scan
<1> QED
    BY <1>1, <1>2, WakeKeeps

LEMMA WakeTypes ==
    ASSUME Typed, Wake
    PROVE  /\ scan' = [at |-> scan'.at, index |-> scan'.index, left |-> scan'.left,
                       view |-> scan'.view, pool |-> scan'.pool, shared |-> scan'.shared,
                       dirty |-> scan'.dirty, picked |-> scan'.picked]
           /\ Slots(scan'.pool)
           /\ scan'.at \in {"off", "agents", "board", "visit"}
           /\ scan'.shared \in BOOLEAN /\ scan'.dirty \in BOOLEAN
           /\ scan'.index \subseteq Agents
           /\ scan'.left \subseteq Tasks \X {"discuss", "work"}
           /\ scan'.picked \in {None} \cup [agent : Agents, kind : Kinds, task : Tasks]
           /\ Picked' \subseteq Picked
<1>1. CASE scan' = scan
    BY <1>1 DEF Typed, Picked
<1>2. CASE scan' = Scan("agents")
    BY <1>2 DEF Scan, Pool, Slots, Picked
<1> QED
    BY <1>1, <1>2, WakeKeeps

-----------------------------------------------------------------------------
\* People, who only move agents and tasks

LEMMA PeopleKeep ==
    ASSUME OfficeInv,
           \/ \E t \in Tasks : Approve(t) \/ Reject(t)
           \/ \E a \in Agents, t \in Tasks : Assign(a, t)
           \/ \E a \in Agents, s \in {"idle", "blocked", "error", "offline"} : Tell(a, s)
    PROVE  OfficeInv'
<1> USE DEF OfficeInv
<1>1. Wake /\ UNCHANGED <<pool, runs, resumable, restored>>
    BY DEF Approve, Reject, Assign, Tell
<1>2. agent' \in [Agents -> AgentRecords]
    <2>1. CASE UNCHANGED agent
        BY <2>1 DEF Typed
    <2>2. CASE \E a \in Agents, t \in Tasks : Assign(a, t)
        <3>1. PICK b \in Agents, t \in Tasks : Assign(b, t)
            BY <2>2
        <3>2. [agent[b] EXCEPT !.status = "working", !.task = t] \in AgentRecords
            BY DEF Typed, AgentRecords, Busy
        <3> QED
            BY <3>1, <3>2 DEF Assign, Typed
    <2>3. CASE \E a \in Agents, s \in {"idle", "blocked", "error", "offline"} : Tell(a, s)
        <3>1. PICK b \in Agents, s \in {"idle", "blocked", "error", "offline"} : Tell(b, s)
            BY <2>3
        <3> DEFINE told == [agent[b] EXCEPT !.status = s,
                        !.task = IF s \in {"idle", "error"} THEN None ELSE @]
        <3>2. told \in AgentRecords
            BY DEF Typed, AgentRecords, Busy
        <3>3. agent' = [agent EXCEPT ![b] = told]
            BY <3>1 DEF Tell, Typed
        <3> HIDE DEF told
        <3> QED
            BY <3>2, <3>3 DEF Typed
    <2> QED
        BY <2>1, <2>2, <2>3 DEF Approve, Reject
<1>3. Occupied' \subseteq Occupied /\ Picked' \subseteq Picked
    BY <1>1, WakeTypes DEF Occupied
<1>4. Typed'
    BY <1>1, <1>2, WakeTypes DEF Typed, Slots
<1>5. SlotsHeld'
    BY <1>1, <1>3, SlotsStay
<1>6. OccupiedOnce'
    BY <1>1, <1>3 DEF OccupiedOnce, OneRunPerAgent
<1> QED
    BY <1>4, <1>5, <1>6

-----------------------------------------------------------------------------
\* Runs

(* A run that moves on keeps its agent.                                    *)
LEMMA MovedRuns ==
    ASSUME OfficeInv, NEW r \in runs, NEW at \in Stages,
           Moves(r, at), Wake, UNCHANGED resumable
    PROVE  /\ runs' \subseteq RunRecords
           /\ Occupied' \subseteq Occupied
           /\ OccupiedOnce'
<1> USE DEF OfficeInv
<1> DEFINE moved == [r EXCEPT !.at = at]
<1>1. moved \in RunRecords /\ moved.agent = r.agent
    BY DEF Typed, RunRecords
<1>2. runs' = (runs \ {r}) \cup {moved}
    BY DEF Moves
<1> HIDE DEF moved
<1>3. \A q \in runs' : q = moved \/ (q \in runs /\ q.agent # r.agent)
    <2>1. \A q \in runs : q.agent = r.agent => q = r
        BY DEF OccupiedOnce, OneRunPerAgent
    <2> QED
        BY <2>1, <1>2
<1>4. Picked' \subseteq Picked
    BY WakeTypes
<1>5. \A q \in runs' : \E p \in runs : p.agent = q.agent
    BY <1>1, <1>2
<1>6. Occupied' \subseteq Occupied
    BY <1>4, <1>5 DEF Occupied
<1>7. OneRunPerAgent'
    BY <1>1, <1>3 DEF OccupiedOnce, OneRunPerAgent
<1>8. OccupiedOnce'
    BY <1>4, <1>5, <1>7 DEF OccupiedOnce
<1> QED
    BY <1>1, <1>2, <1>6, <1>8 DEF Typed

LEMMA RunMovesKeeps ==
    ASSUME OfficeInv, NEW r \in runs,
           \/ \E ok \in BOOLEAN : WorkDone(r, ok) \/ Posted(r, ok)
           \/ WorkPosted(r) \/ Done(r)
    PROVE  OfficeInv'
<1> USE DEF OfficeInv
<1>1. PICK at \in Stages : Moves(r, at)
    BY DEF WorkDone, Posted, WorkPosted, Done, Stages
<1>2. Wake /\ UNCHANGED <<pool, resumable, restored>>
    BY DEF WorkDone, Posted, WorkPosted, Done
<1>3. r.agent \in Agents
    BY DEF Typed, RunRecords
<1>4. agent' \in [Agents -> AgentRecords]
    <2>1. agent[r.agent] \in AgentRecords
        BY <1>3 DEF Typed
    <2>2. CASE UNCHANGED agent
        BY <2>2 DEF Typed
    <2>3. CASE \E ok \in BOOLEAN : WorkDone(r, ok)
        <3>1. PICK ok \in BOOLEAN : WorkDone(r, ok)
            BY <2>3
        <3>2. [status |-> IF ok THEN "idle" ELSE "error", task |-> None,
               session |-> ok \/ agent[r.agent].session] \in AgentRecords
            BY <2>1 DEF AgentRecords
        <3> QED
            BY <3>1, <3>2 DEF WorkDone, Typed
    <2>4. CASE \E ok \in BOOLEAN : Posted(r, ok)
        <3>1. PICK ok \in BOOLEAN : Posted(r, ok)
            BY <2>4
        <3>2. [agent[r.agent] EXCEPT !.session = @ \/ (ok /\ r.kind = "plan")] \in AgentRecords
            BY <2>1 DEF AgentRecords
        <3> QED
            BY <3>1, <3>2 DEF Posted, Typed
    <2>5. CASE Done(r)
        <3>1. [agent[r.agent] EXCEPT !.status = "idle", !.task = None] \in AgentRecords
            BY <2>1 DEF AgentRecords
        <3> QED
            BY <2>5, <3>1 DEF Done, Typed
    <2> QED
        BY <2>2, <2>3, <2>4, <2>5 DEF WorkPosted
<1>5. Typed'
    BY <1>1, <1>2, <1>4, MovedRuns, WakeTypes DEF Typed, Slots
<1>6. SlotsHeld' /\ OccupiedOnce'
    BY <1>1, <1>2, SlotsStay, MovedRuns
<1> QED
    BY <1>5, <1>6

(* The agent gives its slot back, in the pool that counts.                 *)
LEMMA ReleaseKeeps ==
    ASSUME OfficeInv, NEW r \in runs, Release(r)
    PROVE  OfficeInv'
<1> USE DEF OfficeInv
<1>1. /\ runs' = runs \ {r}
      /\ UNCHANGED <<agent, resumable, restored>>
    BY DEF Release, Wake
<1>2. /\ pool' = [pool EXCEPT !.active = @ \ {r.agent},
                             !.queue = IF @ = <<>> THEN @ ELSE Tail(@)]
      /\ pool'.max = pool.max /\ pool'.active = pool.active \ {r.agent}
      /\ Slots(pool')
    BY DEF Release, Typed, Slots
<1>3. \/ /\ scan.at # "off"
         /\ scan' = [scan EXCEPT !.shared = FALSE, !.pool = IF scan.shared THEN pool' ELSE @]
      \/ scan.at = "off" /\ scan' = Scan("agents")
    BY DEF Release, Wake
<1>4. /\ Typed' /\ Picked' \subseteq Picked
      /\ scan'.at = "visit" =>
            /\ scan'.at = scan.at /\ scan'.dirty = scan.dirty /\ ~scan'.shared
            /\ scan'.pool = IF scan.shared THEN pool' ELSE scan.pool
      /\ scan'.at # "visit" => scan.at # "visit"
    <2>1. CASE scan.at = "off" /\ scan' = Scan("agents")
        <3>1. /\ scan'.at = "agents" /\ scan'.picked = None /\ scan'.index = {}
              /\ scan'.left = {} /\ scan'.shared \in BOOLEAN /\ scan'.dirty \in BOOLEAN
              /\ Slots(scan'.pool)
              /\ scan' = [at |-> scan'.at, index |-> scan'.index, left |-> scan'.left,
                          view |-> scan'.view, pool |-> scan'.pool, shared |-> scan'.shared,
                          dirty |-> scan'.dirty, picked |-> scan'.picked]
            BY <2>1 DEF Scan, Pool, Slots
        <3>2. Typed'
            BY <1>1, <1>2, <3>1 DEF Typed, Slots
        <3>3. Picked' = {}
            BY <3>1 DEF Picked
        <3>4. scan'.at # "visit" /\ scan.at # "visit"
            BY <2>1, <3>1
        <3> QED
            BY <3>2, <3>3, <3>4
    <2>2. CASE scan' = [scan EXCEPT !.shared = FALSE, !.pool = IF scan.shared THEN pool' ELSE @]
        <3> DEFINE left == IF scan.shared THEN pool' ELSE scan.pool
        <3>1. /\ Slots(left)
              /\ scan' = [scan EXCEPT !.shared = FALSE, !.pool = left]
            <4>1. Slots(left)
                <5>1. left = pool' \/ left = scan.pool
                    OBVIOUS
                <5> QED
                    BY <5>1, <1>2 DEF Typed, Slots
            <4> QED
                BY <4>1, <2>2
        <3> HIDE DEF left
        <3>2. /\ scan'.at = scan.at /\ scan'.dirty = scan.dirty /\ ~scan'.shared
              /\ scan'.pool = left /\ scan'.picked = scan.picked
              /\ scan'.index = scan.index /\ scan'.left = scan.left
              /\ scan' = [at |-> scan'.at, index |-> scan'.index, left |-> scan'.left,
                          view |-> scan'.view, pool |-> scan'.pool, shared |-> scan'.shared,
                          dirty |-> scan'.dirty, picked |-> scan'.picked]
            BY <3>1 DEF Typed
        <3>3. Typed'
            BY <1>1, <1>2, <3>1, <3>2 DEF Typed, Slots
        <3> QED
            BY <3>2, <3>3 DEF left, Picked
    <2> QED
        BY <1>3, <2>1, <2>2
<1>5. Occupied' \subseteq Occupied \ {r.agent}
    BY <1>1, <1>4 DEF Occupied, OccupiedOnce, OneRunPerAgent, Picked
<1>6. Fits(pool)'
    <2>1. /\ IsFiniteSet(pool'.active)
          /\ Cardinality(pool'.active) \in Nat /\ Cardinality(pool.active) \in Nat
          /\ Cardinality(pool'.active) <= Cardinality(pool.active)
        BY <1>2, FS_Subset, FS_CardinalityType DEF SlotsHeld, Fits
    <2> QED
        BY <2>1, <1>1, <1>2 DEF SlotsHeld, Fits
<1>7. SlotsHeld'
    BY <1>1, <1>2, <1>4, <1>5, <1>6 DEF SlotsHeld, Fits
<1>8. OccupiedOnce'
    BY <1>1, <1>4 DEF OccupiedOnce, OneRunPerAgent
<1> QED
    BY <1>4, <1>7, <1>8

-----------------------------------------------------------------------------
\* The scan

LEMMA ScanKeeps ==
    ASSUME OfficeInv,
           \/ ScanAgents \/ ScanBoard \/ Save
           \/ \E item \in scan.left : PassOver(item)
    PROVE  OfficeInv'
<1> USE DEF OfficeInv
<1>1. UNCHANGED <<agent, runs, resumable, restored>>
    BY DEF ScanAgents, ScanBoard, Save, PassOver
<1>2. Typed' /\ Picked' \subseteq Picked /\ SlotsHeld'
    <2>1. CASE ScanAgents
        <3>1. CASE End(rerun)
            BY <3>1, <2>1, <1>1 DEF ScanAgents, End, Scan, Pool, Typed, Slots, Picked,
                SlotsHeld, Fits, Occupied
        <3>2. CASE scan' = [scan EXCEPT !.at = "board",
                                        !.index = {a \in Agents : agent[a].status = "idle"}]
            BY <3>2, <2>1, <1>1 DEF ScanAgents, Typed, Slots, Picked, SlotsHeld, Fits, Occupied
        <3> QED
            BY <2>1, <3>1, <3>2 DEF ScanAgents
    <2>2. CASE ScanBoard
        BY <2>2, <1>1 DEF ScanBoard, Typed, Slots, Picked, SlotsHeld, Fits, Occupied
    <2>3. CASE Save
        BY <2>3, <1>1 DEF Save, End, Scan, Pool, Typed, Slots, Picked, SlotsHeld, Fits, Occupied
    <2>4. CASE \E item \in scan.left : PassOver(item)
        BY <2>4, <1>1 DEF PassOver, Typed, Slots, Picked, SlotsHeld, Fits, Occupied
    <2> QED
        BY <2>1, <2>2, <2>3, <2>4
<1>3. OccupiedOnce'
    BY <1>1, <1>2 DEF OccupiedOnce, OneRunPerAgent
<1> QED
    BY <1>2, <1>3

(* An agent is chosen that has no slot: nobody is occupied by that name.   *)
LEMMA VisitKeeps ==
    ASSUME OfficeInv, NEW item \in scan.left, NEW seen, NEW a \in scan.index,
           Visit(item, seen, a)
    PROVE  OfficeInv'
<1> USE DEF OfficeInv
<1> DEFINE kind == KindOf(item, seen)
           chosen == kind # "none" /\ MayAcquire(a)
           taken == IF kind # "none" THEN Acquire(a) ELSE scan.pool
           picked == IF chosen THEN [agent |-> a, kind |-> kind, task |-> item[1]] ELSE None
<1>1. UNCHANGED <<agent, runs, resumable, restored>> /\ scan.at = "visit" /\ scan.picked = None
    BY DEF Visit
<1>2. a \in Agents /\ item[1] \in Tasks /\ kind \in Kinds \cup {"none"}
    BY DEF Typed, KindOf, Kinds
<1>3. /\ Slots(taken) /\ taken.max = scan.pool.max
      /\ taken.active = IF chosen THEN scan.pool.active \cup {a} ELSE scan.pool.active
    BY DEF Acquire, Typed, Slots
<1>4. chosen => a \notin scan.pool.active /\ Cardinality(scan.pool.active) < scan.pool.max
    BY DEF MayAcquire
<1>5. picked \in {None} \cup [agent : Agents, kind : Kinds, task : Tasks]
    BY <1>2
<1>6. ~chosen => picked = None
    OBVIOUS
<1>7. chosen => picked.agent = a
    OBVIOUS
<1>8. /\ scan' = [scan EXCEPT !.left = @ \ {item}, !.pool = taken, !.dirty = @ \/ chosen,
                             !.index = IF chosen THEN @ \ {a} ELSE @, !.picked = picked]
      /\ pool' = IF scan.shared THEN scan'.pool ELSE pool
    BY DEF Visit
<1> HIDE DEF taken, picked, chosen, kind
<1>9. /\ scan'.at = scan.at /\ scan'.pool = taken /\ scan'.picked = picked
      /\ scan'.shared = scan.shared /\ scan'.dirty = (scan.dirty \/ chosen)
      /\ scan'.index \subseteq scan.index /\ scan'.left \subseteq scan.left
      /\ scan' = [at |-> scan'.at, index |-> scan'.index, left |-> scan'.left,
                  view |-> scan'.view, pool |-> scan'.pool, shared |-> scan'.shared,
                  dirty |-> scan'.dirty, picked |-> scan'.picked]
    BY <1>8 DEF Typed
<1>10. Typed'
    BY <1>1, <1>3, <1>5, <1>8, <1>9 DEF Typed, Slots
<1>11. Fits(taken)
    <2>1. /\ IsFiniteSet(scan.pool.active) /\ scan.pool.max \in Nat
          /\ Cardinality(scan.pool.active) \in Nat
          /\ restored \in Nat
          /\ \/ Cardinality(scan.pool.active) <= scan.pool.max
             \/ Cardinality(scan.pool.active) <= restored
        BY <1>1, FS_CardinalityType DEF SlotsHeld, Fits
    <2>2. CASE chosen
        <3>1. /\ IsFiniteSet(taken.active)
              /\ Cardinality(taken.active) = Cardinality(scan.pool.active) + 1
            BY <2>1, <2>2, <1>3, <1>4, FS_AddElement
        <3>2. Cardinality(taken.active) <= taken.max
            BY <3>1, <2>1, <2>2, <1>3, <1>4
        <3> QED
            BY <3>1, <3>2, <2>1, <1>3 DEF Fits
    <2>3. CASE ~chosen
        BY <2>1, <2>3, <1>3 DEF Fits
    <2> QED
        BY <2>2, <2>3
<1>12. Picked = {} /\ Picked' = IF picked = None THEN {} ELSE {picked.agent}
    BY <1>1, <1>9 DEF Picked
<1>13. Picked' \subseteq IF chosen THEN {a} ELSE {}
    BY <1>6, <1>7, <1>12
<1>14. Occupied' \subseteq taken.active
    BY <1>1, <1>3, <1>13 DEF Occupied, SlotsHeld
<1>15. SlotsHeld'
    <2>1. CASE scan.shared
        BY <2>1, <1>1, <1>3, <1>8, <1>9, <1>11, <1>14 DEF SlotsHeld, Fits
    <2>2. CASE ~scan.shared
        <3>1. ~scan'.dirty => Occupied' \subseteq pool.active
            BY <1>1, <1>9, <1>13 DEF SlotsHeld, Occupied
        <3> QED
            BY <3>1, <2>2, <1>1, <1>3, <1>8, <1>9, <1>11, <1>14 DEF SlotsHeld, Fits
    <2> QED
        BY <2>1, <2>2
<1>16. OccupiedOnce'
    <2>1. chosen => a \notin resumable /\ \A r \in runs : r.agent # a
        BY <1>1, <1>4 DEF SlotsHeld, Occupied
    <2> QED
        BY <2>1, <1>1, <1>13 DEF OccupiedOnce, OneRunPerAgent
<1> QED
    BY <1>10, <1>15, <1>16

LEMMA LaunchKeeps ==
    ASSUME OfficeInv, Launch
    PROVE  OfficeInv'
<1> USE DEF OfficeInv
<1> DEFINE p == scan.picked
           new == Run(p.agent, p.kind, p.task)
<1>1. /\ p # None /\ runs' = runs \cup {new}
      /\ UNCHANGED <<pool, resumable, restored>>
      /\ scan' = [scan EXCEPT !.picked = None]
      /\ agent' = [agent EXCEPT ![p.agent].status = "working", ![p.agent].task = p.task]
    BY DEF Launch
<1>2. p \in [agent : Agents, kind : Kinds, task : Tasks]
    BY <1>1 DEF Typed
<1>3. new.agent = p.agent /\ new \in RunRecords
    BY <1>2 DEF Run, RunRecords, Stages
<1>4. Picked = {p.agent} /\ Picked' = {}
    BY <1>1 DEF Picked, Typed
<1> HIDE DEF new
<1>5. agent' \in [Agents -> AgentRecords]
    BY <1>1, <1>2 DEF Typed, AgentRecords, Busy
<1>6. Typed'
    BY <1>1, <1>3, <1>5 DEF Typed, Slots
<1>7. Occupied' = Occupied
    BY <1>1, <1>3, <1>4 DEF Occupied
<1>8. SlotsHeld'
    BY <1>1, <1>7 DEF SlotsHeld, Fits, Typed
<1>9. OccupiedOnce'
    BY <1>1, <1>3, <1>4 DEF OccupiedOnce, OneRunPerAgent
<1> QED
    BY <1>6, <1>8, <1>9

-----------------------------------------------------------------------------
\* Restarts

(* Whoever is resumed has a slot, however many they are.                   *)
LEMMA CrashKeeps ==
    ASSUME OfficeInv, Crash
    PROVE  OfficeInv'
<1> USE DEF OfficeInv
<1> DEFINE back == {a \in Agents : /\ agent[a].status \in Busy /\ agent[a].session
                                  /\ agent[a].task # None}
<1>1. /\ runs' = {} /\ resumable' = back /\ restored' = Cardinality(back)
      /\ pool' = [Pool(pool.max) EXCEPT !.active = back]
      /\ scan' = Scan("agents")
      /\ agent' = [a \in Agents |->
            IF agent[a].status \in Busy /\ a \notin back
            THEN [agent[a] EXCEPT !.status = "idle", !.task = None] ELSE agent[a]]
    BY DEF Crash, Reconcile
<1>2. back \subseteq Agents
    OBVIOUS
<1> HIDE DEF back
<1>3. IsFiniteSet(back) /\ Cardinality(back) \in Nat
    BY <1>2, OfficeAssumption, FS_Subset, FS_CardinalityType
<1>4. Fits(pool)'
    <2>1. pool'.max = pool.max /\ pool'.active = back
        BY <1>1 DEF Pool
    <2>2. pool.max \in Nat
        BY DEF SlotsHeld, Fits
    <2>3. restored' = Cardinality(back)
        BY <1>1
    <2> QED
        BY <1>3, <2>1, <2>2, <2>3 DEF Fits
<1>5. Picked' = {} /\ Occupied' = back
    BY <1>1 DEF Picked, Occupied, Scan
<1>6. SlotsHeld'
    BY <1>1, <1>4, <1>5 DEF SlotsHeld, Fits, Scan, Pool
<1>7. agent' \in [Agents -> AgentRecords]
    <2>1. \A a \in Agents : [agent[a] EXCEPT !.status = "idle", !.task = None] \in AgentRecords
        BY DEF Typed, AgentRecords
    <2> QED
        BY <1>1, <2>1 DEF Typed
<1>8. Typed'
    BY <1>1, <1>2, <1>7 DEF Typed, Scan, Pool, Slots
<1>9. OccupiedOnce'
    BY <1>1, <1>5 DEF OccupiedOnce, OneRunPerAgent
<1> QED
    BY <1>6, <1>8, <1>9

LEMMA ResumeKeeps ==
    ASSUME OfficeInv, NEW a \in Agents, Resume(a)
    PROVE  OfficeInv'
<1> USE DEF OfficeInv
<1> DEFINE new == Run(a, "work", agent[a].task)
<1>1. /\ a \in resumable /\ resumable' = resumable \ {a}
      /\ runs' = IF agent[a].task = None THEN runs ELSE runs \cup {new}
      /\ Wake /\ UNCHANGED <<agent, pool, restored>>
    BY DEF Resume
<1>2. new.agent = a /\ (agent[a].task # None => new \in RunRecords)
    BY DEF Typed, AgentRecords, RunRecords, Stages, Run, Kinds
<1> HIDE DEF new
<1>3. Typed' /\ Picked' \subseteq Picked
    BY <1>1, <1>2, WakeTypes DEF Typed, Slots
<1>4. Occupied' \subseteq Occupied
    BY <1>1, <1>2, <1>3 DEF Occupied
<1>5. SlotsHeld'
    BY <1>1, <1>4, SlotsStay
<1>6. OccupiedOnce'
    BY <1>1, <1>2, <1>3 DEF OccupiedOnce, OneRunPerAgent
<1> QED
    BY <1>3, <1>5, <1>6

-----------------------------------------------------------------------------
LEMMA NextOfficeInv == OfficeInv /\ [Next]_vars => OfficeInv'
<1> SUFFICES ASSUME OfficeInv, [Next]_vars PROVE OfficeInv'
    OBVIOUS
<1>1. CASE ScanAgents \/ ScanBoard \/ Save
    BY <1>1, ScanKeeps
<1>2. CASE Launch
    BY <1>2, LaunchKeeps
<1>3. CASE Crash
    BY <1>3, CrashKeeps
<1>4. CASE \E item \in scan.left : PassOver(item)
    BY <1>4, ScanKeeps
<1>5. CASE \E item \in scan.left : \E seen \in {scan.view[item[1]], task[item[1]]}, a \in scan.index :
            Visit(item, seen, a)
    BY <1>5, VisitKeeps
<1>6. ASSUME NEW r \in runs,
             \/ \E ok \in BOOLEAN : WorkDone(r, ok) \/ Posted(r, ok)
             \/ WorkPosted(r) \/ Done(r)
      PROVE  OfficeInv'
    BY <1>6, RunMovesKeeps
<1>7. ASSUME NEW r \in runs, Release(r) PROVE OfficeInv'
    BY <1>7, ReleaseKeeps
<1>8. CASE \/ \E t \in Tasks : Approve(t) \/ Reject(t)
           \/ \E a \in Agents, t \in Tasks : Assign(a, t)
           \/ \E a \in Agents, s \in {"idle", "blocked", "error", "offline"} : Tell(a, s)
    BY <1>8, PeopleKeep
<1>9. ASSUME NEW a \in Agents, Resume(a) PROVE OfficeInv'
    BY <1>9, ResumeKeeps
<1>10. CASE UNCHANGED vars
    BY <1>10 DEF vars, OfficeInv, Typed, SlotsHeld, OccupiedOnce, Fits, Occupied, Picked,
        OneRunPerAgent, Slots
<1> QED
    BY <1>1, <1>2, <1>3, <1>4, <1>5, <1>6, <1>7, <1>8, <1>9, <1>10 DEF Next

LEMMA Office == Spec => []OfficeInv
BY InitOfficeInv, NextOfficeInv, PTL DEF Spec

(* service.ts:179, for any number of agents: no agent has two runs.        *)
THEOREM OneRun == Spec => []OneRunPerAgent
<1>1. OfficeInv => OneRunPerAgent
    BY DEF OfficeInv, OccupiedOnce
<1> QED
    BY <1>1, Office, PTL

(* types.ts:175, for any number of agents, slots, restarts and             *)
(* interferences: there are no more runs than slots, or no more than the   *)
(* last restart has resumed.                                               *)
THEOREM Bounded == Spec => []RunsBounded
<1>1. ASSUME OfficeInv PROVE RunsBounded
    <2> USE <1>1 DEF OfficeInv
    <2>1. PICK p \in {pool, scan.pool} : /\ p.max = pool.max /\ Fits(p)
                                        /\ Occupied \subseteq p.active
        BY DEF SlotsHeld
    <2> DEFINE f == [r \in runs |-> r.agent]
    <2>2. f \in Injection(runs, p.active)
        BY <2>1 DEF Occupied, OccupiedOnce, OneRunPerAgent, Injection, IsInjective
    <2>3. /\ IsFiniteSet(p.active) /\ Cardinality(p.active) \in Nat
          /\ Cardinality(p.active) <= p.max \/ Cardinality(p.active) <= restored
          /\ p.max \in Nat /\ restored \in Nat
        BY <2>1, FS_CardinalityType DEF Fits
    <2>4. /\ Cardinality(runs) <= Cardinality(p.active)
          /\ Cardinality(runs) \in Nat
        BY <2>2, <2>3, FS_Injection, FS_CardinalityType
    <2> QED
        BY <2>1, <2>3, <2>4 DEF RunsBounded
<1> QED
    BY <1>1, Office, PTL

-----------------------------------------------------------------------------
\* No work is missed

Idle == {a \in Agents : agent[a].status = "idle"}
Board == Tasks \X {"discuss", "work"}

(* Nothing can be started for the item: no slot is free, or some idle      *)
(* agent still holds its own.                                              *)
NothingFor(item) ==
    KindOf(item, task[item[1]]) = "none"
        \/ Idle \cap pool.active # {} \/ ~(Cardinality(pool.active) < pool.max)

(* A scan that no event has come to, and that has chosen nobody, knows the *)
(* idle agents, the tasks and the pool as they are, and has left behind    *)
(* only items for which nothing can be started.                            *)
ScanIsCurrent ==
    ~rerun /\ ~scan.dirty =>
        /\ scan.at \in {"board", "visit"} => scan.index = Idle /\ Idle # {}
        /\ scan.at = "visit" =>
            /\ scan.view = task
            /\ scan.pool.active = pool.active /\ scan.pool.max = pool.max
            /\ \A item \in Board \ scan.left : NothingFor(item)

TasksTyped == task \in [Tasks -> [status : {"todo", "doing", "review"}, asks : BOOLEAN,
                                  plan : {"none", "pending", "approved", "rejected"},
                                  approved : BOOLEAN]]

Choosing == scan.picked # None => scan.at = "visit"

WorkInv == OfficeInv /\ TasksTyped /\ Choosing /\ ScanIsCurrent /\ NoMissedWork

(* An event stops the scan from being current, or starts it anew.          *)
LEMMA EventsWakeUp ==
    ASSUME \/ Wake
           \/ rerun' = TRUE /\ scan'.at # "off"
           \/ scan' = Scan("agents")
    PROVE  ScanIsCurrent' /\ NoMissedWork'
<1>1. CASE scan' = Scan("agents")
    BY <1>1 DEF Scan, ScanIsCurrent, NoMissedWork
<1>2. CASE rerun' = TRUE /\ scan'.at # "off"
    BY <1>2 DEF ScanIsCurrent, NoMissedWork
<1> QED
    BY <1>1, <1>2 DEF Wake

(* What a scan can start nothing for while it is current is not there.     *)
LEMMA NothingStartable ==
    ASSUME TasksTyped, \A item \in Board : NothingFor(item),
           Idle \cap pool.active = {}, Cardinality(pool.active) < pool.max,
           NEW t \in Tasks
    PROVE  ~Startable(t)
<1>1. <<t, "discuss">> \in Board /\ <<t, "work">> \in Board
    BY DEF Board
<1>2. KindOf(<<t, "discuss">>, task[t]) = "none" /\ KindOf(<<t, "work">>, task[t]) = "none"
    BY <1>1 DEF NothingFor
<1>3. task[t].asks \in BOOLEAN /\ task[t].plan \in {"none", "pending", "approved", "rejected"}
    BY DEF TasksTyped
<1>4. ~task[t].asks
    BY <1>2, <1>3 DEF KindOf
<1>5. ~(task[t].status = "todo" /\ task[t].plan # "pending")
    BY <1>2, <1>3 DEF KindOf
<1> QED
    BY <1>4, <1>5 DEF Startable

LEMMA ScanStaysCurrent ==
    ASSUME WorkInv, OfficeInv',
           \/ ScanAgents \/ ScanBoard \/ Save
           \/ \E item \in scan.left : PassOver(item)
    PROVE  ScanIsCurrent' /\ NoMissedWork'
<1> USE DEF WorkInv
<1> UNCHANGED <<agent, task>>
    BY DEF ScanAgents, ScanBoard, Save, PassOver
<1>0. Idle' = Idle
    BY DEF Idle
<1>1. CASE ScanAgents
    <2>1. CASE Idle = {}
        BY <1>0, <1>1, <2>1 DEF ScanAgents, End, Scan, Idle, ScanIsCurrent, NoMissedWork
    <2>2. CASE Idle # {}
        <3>1. /\ scan' = [scan EXCEPT !.at = "board", !.index = Idle]
              /\ UNCHANGED rerun
            BY <1>1, <2>2 DEF ScanAgents, Idle
        <3>2. scan'.at = "board" /\ scan'.index = Idle
            BY <3>1 DEF OfficeInv, Typed
        <3> QED
            BY <1>0, <2>2, <3>2 DEF ScanIsCurrent, NoMissedWork
    <2> QED
        BY <2>1, <2>2
<1>2. CASE ScanBoard
    <2>1. /\ scan.at = "board" /\ UNCHANGED <<rerun, pool>>
          /\ scan'.at = "visit" /\ scan'.left = Board /\ scan'.view = task
          /\ scan'.pool = pool /\ scan'.dirty = scan.dirty /\ scan'.index = scan.index
        BY <1>2 DEF ScanBoard, OfficeInv, Typed, Board
    <2> QED
        BY <1>0, <2>1 DEF ScanIsCurrent, NoMissedWork
<1>3. CASE Save
    <2>1. /\ scan.at = "visit" /\ scan.left = {}
          /\ scan' = Scan(IF scan.dirty \/ rerun THEN "agents" ELSE "off")
          /\ pool' = IF scan.dirty THEN scan.pool ELSE pool
        BY <1>3 DEF Save, End
    <2>2. ScanIsCurrent'
        BY <2>1 DEF ScanIsCurrent, Scan
    <2>3. ASSUME ~scan.dirty, ~rerun
          PROVE  NoMissedWork'
        <3>1. \A item \in Board : NothingFor(item)
            BY <2>1, <2>3 DEF ScanIsCurrent
        <3>2. NoMissedWork'
            BY <2>1, <2>3, <3>1, NothingStartable DEF NoMissedWork, Idle, Startable
        <3> QED
            BY <3>2
    <2>4. ASSUME scan.dirty \/ rerun
          PROVE  NoMissedWork'
        BY <2>1, <2>4 DEF NoMissedWork, Scan
    <2> QED
        BY <2>2, <2>3, <2>4 DEF OfficeInv, Typed
<1>4. ASSUME NEW item \in scan.left, PassOver(item)
      PROVE  ScanIsCurrent' /\ NoMissedWork'
    <2>1. /\ scan.at = "visit" /\ scan.index = {} /\ UNCHANGED rerun
          /\ scan'.at = "visit" /\ scan'.dirty = scan.dirty
        BY <1>4 DEF PassOver, OfficeInv, Typed
    <2> QED
        BY <2>1 DEF ScanIsCurrent, NoMissedWork
<1> QED
    BY <1>1, <1>2, <1>3, <1>4

LEMMA VisitStaysCurrent ==
    ASSUME WorkInv, NEW item \in scan.left, NEW seen \in {scan.view[item[1]], task[item[1]]},
           NEW a \in scan.index, Visit(item, seen, a)
    PROVE  ScanIsCurrent' /\ NoMissedWork'
<1> USE DEF WorkInv
<1> DEFINE kind == KindOf(item, seen)
           chosen == kind # "none" /\ MayAcquire(a)
           taken == IF kind # "none" THEN Acquire(a) ELSE scan.pool
<1>1. /\ scan.at = "visit" /\ UNCHANGED <<agent, task, rerun>>
      /\ pool' = IF scan.shared THEN scan'.pool ELSE pool
    BY DEF Visit
<1>2. /\ scan'.at = "visit" /\ scan'.left = scan.left \ {item} /\ scan'.pool = taken
      /\ scan'.dirty = (scan.dirty \/ chosen) /\ scan'.view = scan.view
      /\ ~chosen => scan'.index = scan.index
    BY DEF Visit, OfficeInv, Typed
<1>3. ~chosen => taken.active = scan.pool.active /\ taken.max = scan.pool.max
    BY DEF Acquire, OfficeInv, Typed, Slots
<1>4. kind # "none" /\ ~chosen =>
        a \in scan.pool.active \/ ~(Cardinality(scan.pool.active) < scan.pool.max)
    BY DEF MayAcquire
<1> HIDE DEF taken, chosen
<1>5. ASSUME ~rerun, ~scan'.dirty
      PROVE  /\ scan'.index = Idle' /\ Idle' # {} /\ scan'.view = task'
             /\ scan'.pool.active = pool'.active /\ scan'.pool.max = pool'.max
             /\ \A x \in Board \ scan'.left : NothingFor(x)'
    <2>1. ~scan.dirty /\ ~chosen
        BY <1>2, <1>5 DEF OfficeInv, Typed, chosen
    <2>2. /\ scan.index = Idle /\ Idle # {} /\ scan.view = task
          /\ scan.pool.active = pool.active /\ scan.pool.max = pool.max
          /\ \A x \in Board \ scan.left : NothingFor(x)
        BY <1>1, <1>5, <2>1 DEF ScanIsCurrent
    <2>3. Idle' = Idle
        BY <1>1 DEF Idle
    <2>4. /\ pool'.active = pool.active /\ pool'.max = pool.max
          /\ scan'.pool.active = pool.active /\ scan'.pool.max = pool.max
        BY <1>1, <1>2, <1>3, <2>1, <2>2
    <2>5. NothingFor(item)
        BY <1>4, <2>1, <2>2 DEF NothingFor
    <2>6. \A x \in Board \ scan'.left : NothingFor(x)'
        <3>1. \A x \in Board \ scan'.left : NothingFor(x)
            BY <1>2, <2>2, <2>5
        <3>2. ASSUME NEW x, NothingFor(x)
              PROVE  NothingFor(x)'
            BY <1>1, <2>3, <2>4, <3>2 DEF NothingFor, KindOf
        <3> QED
            BY <3>1, <3>2
    <2>7. scan'.index = Idle' /\ Idle' # {} /\ scan'.view = task'
        BY <1>1, <1>2, <2>1, <2>2, <2>3
    <2>8. scan'.pool.active = pool'.active /\ scan'.pool.max = pool'.max
        BY <2>4
    <2> QED
        BY <2>6, <2>7, <2>8
<1> QED
    BY <1>1, <1>2, <1>5 DEF ScanIsCurrent, NoMissedWork

LEMMA NextTasksTyped ==
    ASSUME OfficeInv, TasksTyped, [Next]_vars
    PROVE  TasksTyped'
<1>1. CASE UNCHANGED task
    BY <1>1 DEF TasksTyped
<1>2. ASSUME NEW t \in Tasks, Approve(t) \/ Reject(t)
      PROVE  TasksTyped'
    BY <1>2 DEF Approve, Reject, TasksTyped
<1>3. CASE Launch
    <2>1. scan.picked.task \in Tasks
        BY <1>3 DEF Launch, OfficeInv, Typed
    <2> QED
        BY <1>3, <2>1 DEF Launch, TasksTyped
<1>4. ASSUME NEW r \in runs, NEW ok \in BOOLEAN, Posted(r, ok)
      PROVE  TasksTyped'
    <2>1. r.task \in Tasks
        BY DEF OfficeInv, Typed, RunRecords
    <2> QED
        BY <1>4, <2>1, ZenonT(30) DEF Posted, TasksTyped
<1>5. ASSUME NEW r \in runs, WorkPosted(r)
      PROVE  TasksTyped'
    <2>1. r.task \in Tasks
        BY DEF OfficeInv, Typed, RunRecords
    <2> QED
        BY <1>5, <2>1 DEF WorkPosted, TasksTyped
<1> QED
    BY <1>1, <1>2, <1>3, <1>4, <1>5 DEF Next, ScanAgents, ScanBoard, Save, Crash, PassOver,
        Visit, WorkDone, Done, Release, Resume, Assign, Tell, vars

LEMMA NextChoosing ==
    ASSUME OfficeInv, Choosing, [Next]_vars
    PROVE  Choosing'
<1>1. CASE scan'.at = scan.at /\ scan'.picked = scan.picked
    BY <1>1 DEF Choosing
<1>2. CASE \E at \in {"off", "agents"} : scan' = Scan(at)
    BY <1>2 DEF Choosing, Scan
<1>3. Wake => Choosing'
    BY <1>1, <1>2 DEF Wake
<1>4. CASE ScanAgents
    BY <1>4, <1>2 DEF ScanAgents, End, Choosing, OfficeInv, Typed
<1>5. CASE ScanBoard \/ \E item \in scan.left : PassOver(item)
    BY <1>5 DEF ScanBoard, PassOver, Choosing, OfficeInv, Typed
<1>6. CASE Launch
    BY <1>6 DEF Launch, Choosing, OfficeInv, Typed
<1>7. CASE Save \/ Crash
    BY <1>7, <1>2 DEF Save, End, Crash
<1>8. ASSUME NEW item, NEW seen, NEW a, Visit(item, seen, a)
      PROVE  Choosing'
    BY <1>8 DEF Visit, Choosing, OfficeInv, Typed
<1>9. ASSUME NEW r \in runs, Release(r)
      PROVE  Choosing'
    BY <1>9, <1>1, <1>3 DEF Release, OfficeInv, Typed
<1>10. CASE UNCHANGED vars
    BY <1>10, <1>1 DEF vars
<1> QED
    BY <1>3, <1>4, <1>5, <1>6, <1>7, <1>8, <1>9, <1>10 DEF Next, WorkDone, Posted, WorkPosted,
        Done, Approve, Reject, Resume, Assign, Tell

LEMMA NextWorkInv == WorkInv /\ [Next]_vars => WorkInv'
<1> SUFFICES ASSUME WorkInv, [Next]_vars PROVE WorkInv'
    OBVIOUS
<1>1. OfficeInv' /\ TasksTyped' /\ Choosing'
    BY NextOfficeInv, NextTasksTyped, NextChoosing DEF WorkInv
<1>2. CASE ScanAgents \/ ScanBoard \/ Save
    BY <1>1, <1>2, ScanStaysCurrent DEF WorkInv
<1>3. CASE \E item \in scan.left : PassOver(item)
    BY <1>1, <1>3, ScanStaysCurrent DEF WorkInv
<1>4. CASE \E item \in scan.left : \E seen \in {scan.view[item[1]], task[item[1]]}, a \in scan.index :
            Visit(item, seen, a)
    BY <1>1, <1>4, VisitStaysCurrent DEF WorkInv
<1>5. CASE Launch
    <2>1. rerun' = TRUE /\ scan'.at = scan.at /\ scan.at = "visit"
        BY <1>5 DEF Launch, WorkInv, OfficeInv, Typed, Choosing
    <2> QED
        BY <1>1, <2>1, EventsWakeUp DEF WorkInv
<1>6. CASE Crash
    BY <1>1, <1>6, EventsWakeUp DEF Crash, WorkInv
<1>7. ASSUME NEW r \in runs,
             \/ \E ok \in BOOLEAN : WorkDone(r, ok) \/ Posted(r, ok)
             \/ WorkPosted(r) \/ Done(r)
      PROVE  WorkInv'
    BY <1>1, <1>7, EventsWakeUp DEF WorkDone, Posted, WorkPosted, Done, WorkInv
<1>8. ASSUME NEW r \in runs, Release(r)
      PROVE  WorkInv'
    <2>1. CASE scan.at = "off"
        BY <1>1, <1>8, <2>1, EventsWakeUp DEF Release, WorkInv
    <2>2. CASE scan.at # "off"
        BY <1>1, <1>8, <2>2, EventsWakeUp DEF Release, WorkInv, OfficeInv, Typed
    <2> QED
        BY <2>1, <2>2
<1>9. CASE \/ \E t \in Tasks : Approve(t) \/ Reject(t)
           \/ \E a \in Agents, t \in Tasks : Assign(a, t)
           \/ \E a \in Agents, s \in {"idle", "blocked", "error", "offline"} : Tell(a, s)
    BY <1>1, <1>9, EventsWakeUp DEF Approve, Reject, Assign, Tell, WorkInv
<1>10. ASSUME NEW a \in Agents, Resume(a) PROVE WorkInv'
    BY <1>1, <1>10, EventsWakeUp DEF Resume, WorkInv
<1>11. CASE UNCHANGED vars
    <2>1. UNCHANGED <<agent, task, pool, scan, rerun>>
        BY <1>11 DEF vars
    <2>2. NoMissedWork'
        BY <2>1 DEF WorkInv, NoMissedWork, Startable
    <2>3. ASSUME NEW x, NothingFor(x)
          PROVE  NothingFor(x)'
        BY <2>1, <2>3 DEF NothingFor, KindOf, Idle
    <2>4. ScanIsCurrent'
        BY <2>1, <2>3 DEF WorkInv, ScanIsCurrent, Idle
    <2> QED
        BY <1>1, <2>2, <2>4 DEF WorkInv
<1> QED
    BY <1>2, <1>3, <1>4, <1>5, <1>6, <1>7, <1>8, <1>9, <1>11, <1>10 DEF Next

LEMMA Work == Spec => []WorkInv
<1>1. Init => TasksTyped /\ Choosing /\ ScanIsCurrent /\ NoMissedWork
    BY DEF Init, FirstTask, TasksTyped, Choosing, ScanIsCurrent, NoMissedWork, Scan
<1> QED
    BY <1>1, InitOfficeInv, NextWorkInv, PTL DEF Spec, WorkInv

(* service.ts:613, for any number of agents and tasks, and whatever comes  *)
(* between two steps of a scan: when the last scan ends, nothing is left   *)
(* that a scan would start.                                                *)
THEOREM NothingMissed == Spec => []NoMissedWork
BY Work, PTL DEF WorkInv

-----------------------------------------------------------------------------
\* Types

PoolOK(p) ==
    /\ p.active \subseteq Agents
    /\ p.queue \in Seq(Agents) /\ IsInjective(p.queue)

PoolInv == OfficeInv /\ PoolOK(pool) /\ PoolOK(scan.pool)

LEMMA TailTakesFirst ==
    ASSUME NEW q \in Seq(Agents), q # <<>>, IsInjective(q)
    PROVE  Tail(q) \in Seq(Agents) /\ IsInjective(Tail(q))
<1>1. /\ Tail(q) \in Seq(Agents) /\ Len(Tail(q)) = Len(q) - 1
      /\ \A i \in 1..Len(Tail(q)) : Tail(q)[i] = q[i + 1]
    BY HeadTailProperties
<1>2. DOMAIN Tail(q) = 1..Len(Tail(q)) /\ DOMAIN q = 1..Len(q) /\ Len(q) \in Nat
    BY <1>1, LenProperties
<1>3. ASSUME NEW i \in DOMAIN Tail(q), NEW j \in DOMAIN Tail(q), Tail(q)[i] = Tail(q)[j]
      PROVE  i = j
    <2>1. i + 1 \in DOMAIN q /\ j + 1 \in DOMAIN q /\ q[i + 1] = q[j + 1]
        BY <1>1, <1>2, <1>3
    <2>2. i + 1 = j + 1
        BY <2>1 DEF IsInjective
    <2> QED
        BY <1>1, <1>2, <2>2
<1> QED
    BY <1>1, <1>3 DEF IsInjective

LEMMA AppendAddsLast ==
    ASSUME NEW q \in Seq(Agents), IsInjective(q), NEW a \in Agents, a \notin ToSet(q)
    PROVE  Append(q, a) \in Seq(Agents) /\ IsInjective(Append(q, a))
<1> DEFINE l == Append(q, a)
<1>1. /\ l \in Seq(Agents) /\ Len(l) = Len(q) + 1
      /\ \A i \in 1..Len(q) : l[i] = q[i]
      /\ l[Len(q) + 1] = a
    BY AppendProperties
<1>2. DOMAIN l = 1..Len(l) /\ DOMAIN q = 1..Len(q) /\ Len(q) \in Nat
    BY <1>1, LenProperties
<1>3. \A i \in 1..Len(q) : q[i] # a
    BY <1>2 DEF ToSet
<1> HIDE DEF l
<1>4. ASSUME NEW i \in DOMAIN l, NEW j \in DOMAIN l, l[i] = l[j]
      PROVE  i = j
    <2>1. \A k \in DOMAIN l : k \in 1..Len(q) \/ k = Len(q) + 1
        BY <1>1, <1>2
    <2>2. CASE i \in 1..Len(q) /\ j \in 1..Len(q)
        BY <1>1, <1>2, <1>4, <2>2 DEF IsInjective
    <2>3. CASE i = Len(q) + 1 \/ j = Len(q) + 1
        BY <1>1, <1>3, <1>4, <2>1, <2>3
    <2> QED
        BY <2>1, <2>2, <2>3
<1> QED
    BY <1>1, <1>4 DEF IsInjective, l

LEMMA RemoveAtTakesOne ==
    ASSUME NEW q \in Seq(Agents), IsInjective(q), NEW k \in 1..Len(q)
    PROVE  RemoveAt(q, k) \in Seq(Agents) /\ IsInjective(RemoveAt(q, k))
<1> DEFINE s == SubSeq(q, 1, k - 1)
           t == SubSeq(q, k + 1, Len(q))
<1>1. Len(q) \in Nat /\ DOMAIN q = 1..Len(q) /\ \A i \in 1..Len(q) : q[i] \in Agents
    BY LenProperties
<1>2. /\ s \in Seq(Agents) /\ Len(s) = k - 1
      /\ \A i \in 1..(k - 1) : s[i] = q[i]
    BY <1>1, SubSeqProperties
<1>3. /\ t \in Seq(Agents) /\ Len(t) = Len(q) - k
      /\ \A i \in 1..(Len(q) - k) : t[i] = q[k + i]
    <2>1. /\ t \in Seq(Agents) /\ Len(t) = IF k + 1 <= Len(q) THEN Len(q) - (k + 1) + 1 ELSE 0
          /\ \A i \in 1..(Len(q) - (k + 1) + 1) : t[i] = q[(k + 1) + i - 1]
        BY <1>1, SubSeqProperties
    <2> HIDE DEF t
    <2>2. Len(t) = Len(q) - k
        <3>1. CASE k + 1 <= Len(q)
            BY <1>1, <2>1, <3>1
        <3>2. CASE ~(k + 1 <= Len(q))
            <4>1. Len(q) \in Nat /\ k \in Nat /\ k <= Len(q)
                BY <1>1
            <4>2. k = Len(q)
                BY <3>2, <4>1
            <4> QED
                BY <2>1, <3>2, <4>1, <4>2
        <3> QED
            BY <3>1, <3>2
    <2>3. ASSUME NEW i \in 1..(Len(q) - k)
          PROVE  t[i] = q[k + i]
        <3>1. i \in 1..(Len(q) - (k + 1) + 1) /\ (k + 1) + i - 1 = k + i
            BY <1>1
        <3> QED
            BY <2>1, <3>1
    <2> QED
        BY <2>1, <2>2, <2>3
<1> HIDE DEF s, t
<1> DEFINE r == s \o t
<1>4. /\ r \in Seq(Agents) /\ Len(r) = Len(s) + Len(t)
      /\ \A i \in 1..Len(s) + Len(t) : r[i] = IF i <= Len(s) THEN s[i] ELSE t[i - Len(s)]
    BY <1>2, <1>3, ConcatProperties
<1>5. DOMAIN r = 1..Len(q) - 1
    <2>1. DOMAIN r = 1..Len(r)
        BY <1>4, LenProperties
    <2>2. Len(r) = Len(q) - 1
        BY <1>1, <1>2, <1>3, <1>4
    <2> HIDE DEF r
    <2> QED
        BY <2>1, <2>2
<1> HIDE DEF r
<1> DEFINE at(i) == IF i < k THEN i ELSE i + 1
<1>6. \A i \in DOMAIN r : at(i) \in DOMAIN q /\ r[i] = q[at(i)]
    <2> SUFFICES ASSUME NEW i \in 1..Len(q) - 1 PROVE at(i) \in 1..Len(q) /\ r[i] = q[at(i)]
        BY <1>1, <1>5
    <2>1. i \in 1..Len(s) + Len(t)
        BY <1>1, <1>2, <1>3
    <2>2. CASE i < k
        BY <1>1, <1>2, <1>4, <2>1, <2>2
    <2>3. CASE ~(i < k)
        <3>1. i - Len(s) \in 1..(Len(q) - k) /\ k + (i - Len(s)) = i + 1 /\ ~(i <= Len(s))
            BY <1>1, <1>2, <2>3
        <3>2. r[i] = t[i - Len(s)]
            BY <1>4, <2>1, <3>1
        <3> QED
            BY <1>1, <1>3, <2>3, <3>1, <3>2
    <2> QED
        BY <2>2, <2>3
<1>7. ASSUME NEW i \in DOMAIN r, NEW j \in DOMAIN r, r[i] = r[j]
      PROVE  i = j
    <2>1. at(i) = at(j)
        BY <1>6, <1>7 DEF IsInjective
    <2> QED
        BY <1>1, <1>5, <2>1
<1>8. IsInjective(r)
    BY <1>7 DEF IsInjective
<1> QED
    BY <1>4, <1>8 DEF RemoveAt, r, s, t

LEMMA RemoveFirstTakesOne ==
    ASSUME NEW q \in Seq(Agents), IsInjective(q), NEW a
    PROVE  RemoveFirst(q, a) \in Seq(Agents) /\ IsInjective(RemoveFirst(q, a))
<1>1. CASE ~\E i \in 1..Len(q) : q[i] = a
    BY <1>1 DEF RemoveFirst
<1>2. CASE \E i \in 1..Len(q) : q[i] = a
    <2>1. PICK k \in 1..Len(q) : q[k] = a
        BY <1>2
    <2>2. DOMAIN q = 1..Len(q) /\ Len(q) \in Nat
        BY LenProperties
    <2>3. {i \in 1..Len(q) : q[i] = a} = {k}
        BY <2>1, <2>2 DEF IsInjective
    <2>4. Min({k}) = k
        BY <2>2 DEF Min
    <2>5. SelectInSeq(q, LAMBDA v : v = a) = k
        BY <2>3, <2>4 DEF SelectInSeq
    <2> QED
        BY <1>2, <2>5, RemoveAtTakesOne DEF RemoveFirst
<1> QED
    BY <1>1, <1>2

LEMMA AcquireKeepsQueue ==
    ASSUME OfficeInv, PoolOK(scan.pool), NEW a \in Agents
    PROVE  PoolOK(Acquire(a))
<1> DEFINE q == scan.pool.queue
<1>1. q \in Seq(Agents) /\ IsInjective(q)
    BY DEF PoolOK
<1>2. Acquire(a).active \subseteq scan.pool.active \cup {a}
    BY DEF Acquire, OfficeInv, Typed, Slots
<1>3. \/ Acquire(a).queue = q
      \/ Acquire(a).queue = RemoveFirst(q, a)
      \/ a \notin ToSet(q) /\ Acquire(a).queue = Append(q, a)
    BY DEF Acquire, OfficeInv, Typed, Slots
<1> HIDE DEF q
<1> QED
    BY <1>1, <1>2, <1>3, RemoveFirstTakesOne, AppendAddsLast DEF PoolOK

LEMMA NextPoolInv ==
    ASSUME PoolInv, [Next]_vars
    PROVE  PoolInv'
<1> USE DEF PoolInv
<1>1. OfficeInv'
    BY NextOfficeInv
<1>2. PoolOK(Pool(0)) /\ \A m : PoolOK(Pool(m))
    BY DEF PoolOK, Pool, IsInjective
<1>3. CASE pool' = pool /\ (scan'.pool = scan.pool \/ scan'.pool = pool \/ scan'.pool = Pool(0))
    BY <1>1, <1>2, <1>3 DEF PoolOK
<1>4. CASE Wake /\ pool' = pool
    BY <1>3, <1>4 DEF Wake, Scan
<1>5. CASE ScanAgents \/ ScanBoard \/ Launch \/ \E item \in scan.left : PassOver(item)
    <2>1. pool' = pool
        BY <1>5 DEF ScanAgents, ScanBoard, Launch, PassOver
    <2>2. CASE ScanAgents
        <3>1. CASE End(rerun)
            BY <2>1, <3>1, <1>3 DEF End, Scan
        <3>2. CASE scan' = [scan EXCEPT !.at = "board",
                                        !.index = {a \in Agents : agent[a].status = "idle"}]
            BY <2>1, <3>2, <1>3 DEF OfficeInv, Typed
        <3> QED
            BY <2>2, <3>1, <3>2 DEF ScanAgents
    <2>3. CASE ScanBoard
        BY <2>3, <2>1, <1>3 DEF ScanBoard, OfficeInv, Typed
    <2>4. CASE Launch \/ \E item \in scan.left : PassOver(item)
        BY <2>4, <2>1, <1>3 DEF Launch, PassOver, OfficeInv, Typed
    <2> QED
        BY <1>5, <2>2, <2>3, <2>4
<1>6. CASE Save
    <2>1. (pool' = pool \/ pool' = scan.pool) /\ scan'.pool = Pool(0)
        BY <1>6 DEF Save, End, Scan
    <2> QED
        BY <1>1, <1>2, <2>1 DEF PoolOK
<1>7. CASE Crash
    <2>1. pool'.queue = <<>> /\ pool'.active \subseteq Agents /\ scan'.pool = Pool(0)
        BY <1>7 DEF Crash, Reconcile, Pool, Scan
    <2> QED
        BY <1>1, <1>2, <2>1 DEF PoolOK, IsInjective
<1>8. ASSUME NEW item \in scan.left, NEW seen, NEW a \in scan.index, Visit(item, seen, a)
      PROVE  PoolInv'
    <2>1. a \in Agents
        BY DEF OfficeInv, Typed
    <2>2. scan'.pool = scan.pool \/ scan'.pool = Acquire(a)
        BY <1>8 DEF Visit, OfficeInv, Typed
    <2>3. PoolOK(scan.pool)'
        BY <2>1, <2>2, AcquireKeepsQueue DEF PoolOK
    <2>4. PoolOK(pool)'
        BY <1>8, <2>3 DEF Visit, PoolOK
    <2> QED
        BY <1>1, <2>3, <2>4
<1>9. ASSUME NEW r \in runs, Release(r)
      PROVE  PoolInv'
    <2>1. /\ pool'.active \subseteq pool.active
          /\ pool'.queue = IF pool.queue = <<>> THEN pool.queue ELSE Tail(pool.queue)
        BY <1>9 DEF Release, OfficeInv, Typed, Slots
    <2>2. PoolOK(pool)'
        BY <2>1, TailTakesFirst DEF PoolOK
    <2>3. scan'.pool = pool' \/ scan'.pool = scan.pool \/ scan'.pool = Pool(0)
        <3>1. CASE scan.at = "off"
            BY <1>9, <3>1 DEF Release, Wake, Scan
        <3>2. CASE scan.at # "off"
            <4>1. scan' = [scan EXCEPT !.shared = FALSE,
                                       !.pool = IF scan.shared THEN pool' ELSE scan.pool]
                BY <1>9, <3>2 DEF Release
            <4> QED
                BY <4>1 DEF OfficeInv, Typed
        <3> QED
            BY <3>1, <3>2
    <2> QED
        BY <1>1, <1>2, <2>2, <2>3 DEF PoolOK
<1>10. CASE UNCHANGED vars
    BY <1>3, <1>10 DEF vars
<1> QED
    BY <1>4, <1>5, <1>6, <1>7, <1>8, <1>9, <1>10 DEF Next, WorkDone, Posted, WorkPosted,
        Done, Approve, Reject, Resume, Assign, Tell

LEMMA Queues == Spec => []PoolInv
<1>1. Init => PoolOK(pool) /\ PoolOK(scan.pool)
    <2> SUFFICES ASSUME Init PROVE PoolOK(pool) /\ PoolOK(scan.pool)
        OBVIOUS
    <2>1. \A m : PoolOK(Pool(m))
        BY DEF Pool, PoolOK, IsInjective
    <2>2. scan.pool = Pool(0) /\ \E m : pool = Pool(m)
        BY DEF Init, Scan
    <2> QED
        BY <2>1, <2>2
<1> QED
    BY <1>1, InitOfficeInv, NextPoolInv, PTL DEF Spec, PoolInv

(* service.ts:179 poolAcquire, poolRelease: an agent is at most once in    *)
(* the queue, however often scans find it without a slot; and every        *)
(* record has its type.                                                    *)
THEOREM Typing == Spec => []TypeOK
<1>1. ASSUME WorkInv, PoolInv PROVE TypeOK
    <2>1. ToSet(pool.queue) \subseteq Agents
        BY <1>1 DEF PoolInv, PoolOK, ToSet
    <2> QED
        BY <1>1, <2>1 DEF WorkInv, PoolInv, PoolOK, OfficeInv, Typed, TasksTyped, AgentRecords,
            SlotsHeld, Fits, TypeOK
<1> QED
    BY <1>1, Work, Queues, PTL

=============================================================================
