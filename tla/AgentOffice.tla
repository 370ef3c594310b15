---------------------------- MODULE AgentOffice ----------------------------
(***************************************************************************)
(* The orchestrator of AI agents: mods/agent/service.ts, with what         *)
(* guardian.ts restores after a restart and the actions of types.ts.       *)
(*                                                                         *)
(* Tasks on a board are discussed, planned, and, once a person approves    *)
(* the plan, worked on, by agents that share a pool of slots.  Every write *)
(* to a task, an agent or the pool makes the orchestrator scan the board.  *)
(* The agents and tasks here are of one role; which of its idle agents a   *)
(* scan takes, and in which order it visits the tasks, is left open.       *)
(***************************************************************************)
EXTENDS Naturals, FiniteSets, Sequences, SequencesExt

CONSTANTS
    Agents, Tasks,
    None,
    Offices,        \* the pool's maxConcurrent, and the tasks that ask for a discussion
    MaxCrashes, MaxTells    \* bounds

ASSUME OfficeAssumption ==
    /\ Offices \subseteq Nat \X SUBSET Tasks
    /\ None \notin Agents \cup Tasks /\ IsFiniteSet(Agents)
    /\ MaxCrashes \in Nat /\ MaxTells \in Nat

VARIABLES
    agent,          \* agent[a]: status, current task, and a saved session or not
    task,           \* task[t]: status, plan, discussion asked for; approved is
                    \*   history: a person has approved a plan of t
    pool,           \* the pool as the store's cache hands it out
    runs,           \* the runs under way
    scan,           \* processInbox
    rerun,          \* pendingRerun
    resumable,      \* agents to be resumed after a restart
    restored,       \* history: how many agents the last restart resumes
    crashes,
    tells

vars == <<agent, task, pool, runs, scan, rerun, resumable, restored, crashes, tells>>

FirstTask(asks) ==
    [status |-> "todo", plan |-> "none", asks |-> asks, approved |-> FALSE]
Pool(max) == [max |-> max, active |-> {}, queue |-> <<>>]
Scan(at) ==
    [at |-> at, index |-> {}, left |-> {}, view |-> <<>>, pool |-> Pool(0),
     shared |-> FALSE, dirty |-> FALSE, picked |-> None]

Init ==
    /\ agent = [a \in Agents |-> [status |-> "idle", task |-> None, session |-> FALSE]]
    /\ \E o \in Offices :
        /\ pool = Pool(o[1])
        /\ task = [t \in Tasks |-> FirstTask(t \in o[2])]
    /\ runs = {}
    /\ scan = Scan("agents") /\ rerun = FALSE
    /\ resumable = {} /\ restored = 0 /\ crashes = 0 /\ tells = 0

-----------------------------------------------------------------------------
(* Slip: an event is passed over while a scan is going on.                 *)
WakeIfIdle ==
    /\ scan' = IF scan.at = "off" THEN Scan("agents") ELSE scan
    /\ UNCHANGED rerun

(* processInbox, called for an event: it starts, or will start again.      *)
Wake ==
    IF scan.at = "off" THEN scan' = Scan("agents") /\ UNCHANGED rerun
    ELSE rerun' = TRUE /\ UNCHANGED scan

(* The end of a scan, which a pending rerun follows.                       *)
End(again) ==
    /\ scan' = Scan(IF again THEN "agents" ELSE "off")
    /\ rerun' = FALSE

(* buildRoleIndex ...                                                      *)
ScanAgents ==
    LET idle == {a \in Agents : agent[a].status = "idle"} IN
    /\ scan.at = "agents"
    /\ IF idle = {} THEN End(rerun)
       ELSE scan' = [scan EXCEPT !.at = "board", !.index = idle] /\ UNCHANGED rerun
    /\ UNCHANGED <<agent, task, pool, runs, resumable, restored, crashes, tells>>

(* ... and the tasks and the pool are read.                                *)
ScanBoard ==
    /\ scan.at = "board"
    /\ scan' = [scan EXCEPT !.at = "visit", !.left = Tasks \X {"discuss", "work"},
                            !.view = task, !.pool = pool, !.shared = TRUE]
    /\ UNCHANGED <<agent, task, pool, runs, rerun, resumable, restored, crashes, tells>>

(* The kind of run the scan starts for an item of the board, if any.       *)
KindOf(item, seen) ==
    CASE item[2] = "discuss" /\ seen.asks -> "discuss"
      [] item[2] = "work" /\ seen.status = "todo" /\ seen.plan \in {"none", "rejected"} -> "plan"
      [] item[2] = "work" /\ seen.status = "todo" /\ seen.plan = "approved" -> "work"
      [] OTHER -> "none"

(* Slip: an agent may take two slots.                                      *)
MayAcquireTwice(a) == Cardinality(scan.pool.active) < scan.pool.max

MayAcquire(a) ==
    a \notin scan.pool.active /\ Cardinality(scan.pool.active) < scan.pool.max

(* Slip: an agent that waits already is queued again.                      *)
AcquireQueuesTwice(a) ==
    IF MayAcquire(a)
    THEN [scan.pool EXCEPT !.active = @ \cup {a},
                           !.queue = RemoveFirst(@, a)]
    ELSE IF a \in scan.pool.active THEN scan.pool
    ELSE [scan.pool EXCEPT !.queue = Append(@, a)]

(* poolAcquire: the pool the scan read is changed in place.  The queue has *)
(* an agent once (TypeOK): its filter takes one entry away.                *)
Acquire(a) ==
    IF MayAcquire(a)
    THEN [scan.pool EXCEPT !.active = @ \cup {a},
                           !.queue = RemoveFirst(@, a)]
    ELSE IF a \in scan.pool.active \/ a \in ToSet(scan.pool.queue) THEN scan.pool
    ELSE [scan.pool EXCEPT !.queue = Append(@, a)]

(* The scan comes to an item: what it sees of the task is what it read, or *)
(* what is there now where its object is the one the cache hands out.      *)
Visit(item, seen, a) ==
    LET kind == KindOf(item, seen)
        chosen == kind # "none" /\ MayAcquire(a)
    IN
    /\ scan.at = "visit" /\ scan.picked = None
    /\ scan' = [scan EXCEPT
        !.left = @ \ {item},
        !.pool = IF kind # "none" THEN Acquire(a) ELSE @,
        !.dirty = @ \/ chosen,
        !.index = IF chosen THEN @ \ {a} ELSE @,
        !.picked = IF chosen THEN [agent |-> a, kind |-> kind, task |-> item[1]] ELSE None]
    /\ pool' = IF scan.shared THEN scan'.pool ELSE pool
    /\ UNCHANGED <<agent, task, runs, rerun, resumable, restored, crashes, tells>>

(* No idle agent is left for the item.                                     *)
PassOver(item) ==
    /\ scan.at = "visit" /\ scan.picked = None /\ scan.index = {}
    /\ scan' = [scan EXCEPT !.left = @ \ {item}]
    /\ UNCHANGED <<agent, task, pool, runs, rerun, resumable, restored, crashes, tells>>

Run(a, kind, t) == [agent |-> a, kind |-> kind, task |-> t, at |-> "going"]

(* The agent and the task are marked and the run is launched.              *)
Launch ==
    LET p == scan.picked IN
    /\ p # None
    /\ agent' = [agent EXCEPT ![p.agent].status = "working", ![p.agent].task = p.task]
    /\ task' = IF p.kind = "work" THEN [task EXCEPT ![p.task].status = "doing"] ELSE task
    /\ runs' = runs \cup {Run(p.agent, p.kind, p.task)}
    /\ scan' = [scan EXCEPT !.picked = None] /\ rerun' = TRUE
    /\ UNCHANGED <<pool, resumable, restored, crashes, tells>>

(* The pool is written back, which is an event too.                        *)
Save ==
    /\ scan.at = "visit" /\ scan.picked = None /\ scan.left = {}
    /\ pool' = IF scan.dirty THEN scan.pool ELSE pool
    /\ End(scan.dirty \/ rerun)
    /\ UNCHANGED <<agent, task, runs, resumable, restored, crashes, tells>>

-----------------------------------------------------------------------------
\* Runs

Moves(r, at) == runs' = (runs \ {r}) \cup {[r EXCEPT !.at = at]}

(* runAgent: the agent first, then the task, which goes to review; after   *)
(* an error the task goes back to the board.                               *)
WorkDone(r, ok) ==
    /\ r.kind = "work" /\ r.at = "going"
    /\ agent' = [agent EXCEPT ![r.agent] =
        [status |-> IF ok THEN "idle" ELSE "error", task |-> None,
         session |-> ok \/ @.session]]
    /\ Moves(r, IF ok THEN "done" ELSE "failed")
    /\ Wake
    /\ UNCHANGED <<task, pool, resumable, restored, crashes, tells>>

WorkPosted(r) ==
    /\ r.kind = "work" /\ r.at \in {"done", "failed"}
    /\ task' = [task EXCEPT ![r.task].status = IF r.at = "done" THEN "review" ELSE "todo"]
    /\ Moves(r, "releasing")
    /\ Wake
    /\ UNCHANGED <<agent, pool, resumable, restored, crashes, tells>>

(* planAgent and discussAgent: the task first, if the run succeeds, ...    *)
Posted(r, ok) ==
    /\ r.kind \in {"plan", "discuss"} /\ r.at = "going"
    /\ task' = [task EXCEPT ![r.task] =
        IF ~ok THEN @
        ELSE IF r.kind = "plan" THEN [@ EXCEPT !.plan = "pending"] ELSE [@ EXCEPT !.asks = FALSE]]
    /\ agent' = [agent EXCEPT ![r.agent].session = @ \/ (ok /\ r.kind = "plan")]
    /\ Moves(r, "done")
    /\ Wake
    /\ UNCHANGED <<pool, resumable, restored, crashes, tells>>

(* ... then the agent.                                                     *)
Done(r) ==
    /\ r.kind \in {"plan", "discuss"} /\ r.at = "done"
    /\ agent' = [agent EXCEPT ![r.agent].status = "idle", ![r.agent].task = None]
    /\ Moves(r, "releasing")
    /\ Wake
    /\ UNCHANGED <<task, pool, resumable, restored, crashes, tells>>

(* poolRelease, in a finally block.  A scan under way shares the object    *)
(* that is released, until the first write replaces it in the cache.       *)
Release(r) ==
    /\ r.at = "releasing"
    /\ runs' = runs \ {r}
    /\ pool' = [pool EXCEPT !.active = @ \ {r.agent},
                            !.queue = IF @ = <<>> THEN @ ELSE Tail(@)]
    /\ IF scan.at = "off" THEN Wake
       ELSE /\ scan' = [scan EXCEPT !.shared = FALSE, !.pool = IF scan.shared THEN pool' ELSE @]
            /\ rerun' = TRUE
    /\ UNCHANGED <<agent, task, resumable, restored, crashes, tells>>

-----------------------------------------------------------------------------
\* People

Approve(t) ==
    /\ task[t].plan \in {"pending", "rejected"}
    /\ task' = [task EXCEPT ![t].plan = "approved", ![t].approved = TRUE]
    /\ Wake
    /\ UNCHANGED <<agent, pool, runs, resumable, restored, crashes, tells>>

Reject(t) ==
    /\ task[t].plan # "none"
    /\ task' = [task EXCEPT ![t].plan = "rejected"]
    /\ Wake
    /\ UNCHANGED <<agent, pool, runs, resumable, restored, crashes, tells>>

(* assign: no run is started, and no slot taken, but a restart resumes the *)
(* agent like one that was at work.                                        *)
Assign(a, t) ==
    /\ tells < MaxTells /\ tells' = tells + 1
    /\ agent[a].status = "idle"
    /\ agent' = [agent EXCEPT ![a].status = "working", ![a].task = t]
    /\ Wake
    /\ UNCHANGED <<task, pool, runs, resumable, restored, crashes>>

(* What people tell an agent: online, which has no precondition, complete, *)
(* block, offline and fail.  The agent may be at work all the while.       *)
Tell(a, s) ==
    /\ tells < MaxTells /\ tells' = tells + 1
    /\ s # agent[a].status
    /\ s = "offline" => agent[a].status # "working"
    /\ agent' = [agent EXCEPT ![a].status = s,
                              ![a].task = IF s \in {"idle", "error"} THEN None ELSE @]
    /\ Wake
    /\ UNCHANGED <<task, pool, runs, resumable, restored, crashes>>

-----------------------------------------------------------------------------
Busy == {"working", "blocked"}

(* Slip: the slots of the agents that will be resumed are free.            *)
ReconcileAll(back) ==
    /\ resumable' = back /\ restored' = Cardinality(back)
    /\ pool' = Pool(pool.max)
    /\ agent' = [a \in Agents |->
        IF agent[a].status \in Busy /\ a \notin back
        THEN [agent[a] EXCEPT !.status = "idle", !.task = None] ELSE agent[a]]

(* reconcileOnStartup: busy agents are resumed if they can be, or reset.  *)
Reconcile(back) ==
    /\ resumable' = back /\ restored' = Cardinality(back)
    /\ pool' = [Pool(pool.max) EXCEPT !.active = back]
    /\ agent' = [a \in Agents |->
        IF agent[a].status \in Busy /\ a \notin back
        THEN [agent[a] EXCEPT !.status = "idle", !.task = None] ELSE agent[a]]

(* The server stops and starts again: the orchestrator reconciles, scans,  *)
(* and meanwhile resumes.                                                  *)
Crash ==
    /\ crashes < MaxCrashes
    /\ crashes' = crashes + 1
    /\ runs' = {}
    /\ Reconcile({a \in Agents : /\ agent[a].status \in Busy /\ agent[a].session
                                 /\ agent[a].task # None})
    /\ scan' = Scan("agents") /\ rerun' = FALSE
    /\ UNCHANGED <<task, tells>>

(* What the agent was at is not asked: it is resumed as work.              *)
Resume(a) ==
    /\ a \in resumable
    /\ resumable' = resumable \ {a}
    /\ runs' = IF agent[a].task = None THEN runs
               ELSE runs \cup {Run(a, "work", agent[a].task)}
    /\ Wake
    /\ UNCHANGED <<agent, task, pool, restored, crashes, tells>>

Next ==
    \/ ScanAgents \/ ScanBoard \/ Launch \/ Save \/ Crash
    \/ \E item \in scan.left :
        \/ PassOver(item)
        \/ \E seen \in {scan.view[item[1]], task[item[1]]}, a \in scan.index : Visit(item, seen, a)
    \/ \E r \in runs :
        \/ \E ok \in BOOLEAN : WorkDone(r, ok) \/ Posted(r, ok)
        \/ WorkPosted(r) \/ Done(r) \/ Release(r)
    \/ \E t \in Tasks : Approve(t) \/ Reject(t)
    \/ \E a \in Agents :
        \/ Resume(a)
        \/ \E t \in Tasks : Assign(a, t)
        \/ \E s \in {"idle", "blocked", "error", "offline"} : Tell(a, s)

Spec == Init /\ [][Next]_vars

-----------------------------------------------------------------------------
TypeOK ==
    /\ agent \in [Agents -> [status : Busy \cup {"idle", "error", "offline"},
                             task : Tasks \cup {None}, session : BOOLEAN]]
    /\ task \in [Tasks -> [status : {"todo", "doing", "review"}, asks : BOOLEAN,
                           plan : {"none", "pending", "approved", "rejected"},
                           approved : BOOLEAN]]
    /\ pool.active \subseteq Agents /\ ToSet(pool.queue) \subseteq Agents
    /\ IsInjective(pool.queue)
    /\ scan.at \in {"off", "agents", "board", "visit"}
    /\ resumable \subseteq Agents /\ restored \in Nat

(* types.ts:175: no more runs than maxConcurrent; those that a restart has *)
(* resumed, as many as they may be, leave room for none above it.          *)
RunsBounded == \/ Cardinality(runs) <= pool.max
               \/ Cardinality(runs) <= restored

(* service.ts:179: no agent has two runs, though it may be set online at   *)
(* any time, and a run marks its agent idle before it gives the slot back. *)
OneRunPerAgent == \A r, s \in runs : r.agent = s.agent => r = s

(* While no scan goes on, there is nothing a scan would start: no event is *)
(* missed, and no release of a slot.                                       *)
Startable(t) == task[t].asks \/ (task[t].status = "todo" /\ task[t].plan # "pending")
NoMissedWork ==
    LET idle == {a \in Agents : agent[a].status = "idle"} IN
    (scan.at = "off" /\ idle # {} /\ idle \cap pool.active = {}
     /\ Cardinality(pool.active) < pool.max)
        => \A t \in Tasks : ~Startable(t)

(* types.ts:211: "Agent writes plan first, human reviews + approves before *)
(* execution."                                                             *)
WorkWasApproved == \A r \in runs : r.kind = "work" => task[r.task].approved
=============================================================================
