------------------------------- MODULE FsTree -------------------------------
(***************************************************************************)
(* core/src/tree/fs.ts: nodes as JSON files, a node without children as    *)
(* name.json (leaf form), one with children as name/$.json (dir form).     *)
(*                                                                         *)
(* set and remove run one at a time, as sequences of file operations that  *)
(* change the form of nodes above and below; an operation may fail, and    *)
(* the server may crash, between any two of them.  get takes no lock.  A   *)
(* file is written in one step.                                            *)
(***************************************************************************)
EXTENDS Naturals, Sequences, SequencesExt

CONSTANTS
    Paths,          \* without the root, which is always in dir form
    Above,          \* Above[p]: the ancestors of p, the top one first
    Root, None,
    MaxCalls, MaxInterrupts     \* bounds

ASSUME FsAssumption ==
    /\ Above \in [Paths -> Seq(Paths)]
    \* the ancestors of an ancestor are those above it
    /\ \A p \in Paths : \A i \in DOMAIN Above[p] :
        Above[Above[p][i]] = SubSeq(Above[p], 1, i - 1)
    /\ Root \notin Paths
    /\ None \notin [id : Nat, rev : Nat]
    /\ MaxCalls \in Nat /\ MaxInterrupts \in Nat

VARIABLES
    leaf,           \* leaf[p]: the content of p.json
    main,           \* main[p]: the content of p/$.json
    dirs,           \* the directories there are
    steps,          \* what the running set or remove has still to do
    call,           \* the running set or remove
    calls,          \* how many there were
    interrupts,
    may,            \* history: may[p]: what p may hold, by the calls so far
    get             \* a get: its path, stage and answer, and what its path
                    \* may have held meanwhile

fileVars == <<leaf, main, dirs>>
vars == <<fileVars, steps, call, calls, interrupts, may, get>>

NoCall == [op |-> "none", path |-> Root, id |-> 0, expects |-> 0]
NoGet == [path |-> Root, at |-> "idle", got |-> None, may |-> {}]

Init ==
    /\ leaf = [p \in Paths |-> None] /\ main = leaf /\ dirs = {}
    /\ steps = <<>> /\ call = NoCall /\ calls = 0 /\ interrupts = 0
    /\ may = [p \in Paths |-> {None}]
    /\ get = NoGet

-----------------------------------------------------------------------------
Parent(p) == IF p = Root \/ Above[p] = <<>> THEN Root ELSE Last(Above[p])

(* hasChildren, and what a directory needs to be empty of.                 *)
HasEntries(p) == \E q \in Paths : Parent(q) = p /\ (leaf[q] # None \/ q \in dirs)

(* What readNode finds if nothing else runs: the dir form is tried first.  *)
Visible(p) == IF main[p] # None THEN main[p] ELSE leaf[p]

File(do, p, data) == [do |-> do, path |-> p, data |-> data]
Do(do, p) == File(do, p, None)

(* Slip: the leaf is unlinked before its copy is written.                  *)
PromoteUnlinksFirst(p) ==
    IF leaf[p] = None THEN <<>>
    ELSE <<Do("mkdir", p), Do("unlink leaf", p), File("write main", p, leaf[p])>>

(* promoteIfNeeded.                                                        *)
Promote(p) ==
    IF leaf[p] = None THEN <<>>
    ELSE <<Do("mkdir", p), File("write main", p, leaf[p]), Do("unlink leaf", p)>>

(* set, after its ancestors are promoted: the revision check ...           *)
Accepted ==
    \/ call.expects = 0
    \/ Visible(call.path) # None /\ Visible(call.path).rev = call.expects

(* Slip: the dir form is left where it is.                                 *)
PlaceLeavesMain(p) ==
    LET data == [id |-> call.id, rev |-> call.expects + 1] IN
    IF HasEntries(p)
    THEN <<Do("mkdir", p), File("write main", p, data), Do("unlink leaf", p)>>
    ELSE <<Do("mkdir", Parent(p)), File("write leaf", p, data)>>

(* ... and the form the node is to have.                                   *)
Place(p) ==
    LET data == [id |-> call.id, rev |-> call.expects + 1] IN
    IF HasEntries(p)
    THEN <<Do("mkdir", p), File("write main", p, data), Do("unlink leaf", p)>>
    ELSE <<Do("mkdir", Parent(p)), File("write leaf", p, data),
           Do("unlink main", p), Do("rmdir", p)>>

(* remove: one form of the node goes, and what is left empty above it.     *)
Take(p) ==
    IF main[p] # None THEN <<Do("unlink main", p), Do("rmdir", p), Do("climb", Parent(p))>>
    ELSE IF leaf[p] # None THEN <<Do("unlink leaf", p), Do("rmdir", p), Do("climb", Parent(p))>>
    ELSE <<>>

(* Slip: the removal stops at the parent.                                  *)
ClimbOnce(p) ==
    IF p = Root \/ p \notin dirs \/ HasEntries(p) THEN <<>>
    ELSE IF main[p] = None THEN <<Do("rmdir", p)>>
    ELSE <<File("write leaf", p, main[p]), Do("unlink main", p), Do("rmdir", p)>>

(* cleanupAfterRemove: a parent without children takes the leaf form, the  *)
(* leaf being written first, or goes if it is no node.                     *)
Climb(p) ==
    IF p = Root \/ p \notin dirs \/ HasEntries(p) THEN <<>>
    ELSE IF main[p] = None THEN <<Do("rmdir", p), Do("climb", Parent(p))>>
    ELSE <<File("write leaf", p, main[p]), Do("unlink main", p), Do("rmdir", p),
           Do("climb", Parent(p))>>

(* What the step s stands for, if it is not a file operation.              *)
Expand(s) ==
    CASE s.do = "promote" -> Promote(s.path)
      [] s.do = "place" -> Place(s.path)
      [] s.do = "take" -> Take(s.path)
      [] s.do = "climb" -> Climb(s.path)
      [] OTHER -> <<>>

Apply(s) ==
    /\ leaf' = CASE s.do \in {"write leaf", "unlink leaf"} -> [leaf EXCEPT ![s.path] = s.data]
                 [] OTHER -> leaf
    /\ main' = CASE s.do \in {"write main", "unlink main"} -> [main EXCEPT ![s.path] = s.data]
                 [] OTHER -> main
    /\ dirs' = CASE s.do = "mkdir" /\ s.path # Root -> dirs \cup {s.path} \cup ToSet(Above[s.path])
                 [] s.do = "rmdir" /\ main[s.path] = None /\ ~HasEntries(s.path) -> dirs \ {s.path}
                 [] OTHER -> dirs

-----------------------------------------------------------------------------
Starts(c, todo, outcome) ==
    /\ call = NoCall /\ calls < MaxCalls
    /\ call' = c /\ calls' = calls + 1
    /\ steps' = todo
    /\ may' = [may EXCEPT ![c.path] = @ \cup {outcome}]
    /\ get' = IF get.at # "idle" /\ get.path = c.path
              THEN [get EXCEPT !.may = @ \cup {outcome}] ELSE get
    /\ UNCHANGED <<fileVars, interrupts>>

Set(p, expects) ==
    Starts([op |-> "set", path |-> p, id |-> calls + 1, expects |-> expects],
           [i \in DOMAIN Above[p] |-> Do("promote", Above[p][i])] \o <<Do("place", p)>>,
           [id |-> calls + 1, rev |-> expects + 1])

RemoveNode(p) == Starts([NoCall EXCEPT !.op = "remove", !.path = p], <<Do("take", p)>>, None)

Conflict ==
    /\ steps # <<>> /\ Head(steps).do = "place" /\ ~Accepted
    /\ steps' = <<>> /\ call' = NoCall
    /\ may' = [may EXCEPT ![call.path] = {c \in @ : c = None \/ c.id # call.id}]
    /\ UNCHANGED <<fileVars, calls, interrupts, get>>

Step ==
    /\ steps # <<>> /\ (Head(steps).do = "place" => Accepted)
    /\ steps' = Expand(Head(steps)) \o Tail(steps)
    /\ Apply(Head(steps))
    /\ UNCHANGED <<call, calls, interrupts, may, get>>

Finish ==
    /\ call # NoCall /\ steps = <<>>
    /\ call' = NoCall
    /\ may' = [may EXCEPT ![call.path] =
        IF call.op = "remove" THEN (IF interrupts = 0 THEN {None} ELSE @)
        ELSE {[id |-> call.id, rev |-> call.expects + 1]}]
    /\ UNCHANGED <<fileVars, steps, calls, interrupts, get>>

(* A file operation fails, or the server crashes.                          *)
Interrupt ==
    /\ call # NoCall /\ interrupts < MaxInterrupts
    /\ interrupts' = interrupts + 1
    /\ call' = NoCall /\ steps' = <<>>
    /\ UNCHANGED <<fileVars, calls, may, get>>

(* get: the dir form is read, and if there is none, the leaf form.         *)
GetStarts(p) ==
    /\ get.at = "idle"
    /\ get' = [path |-> p, at |-> "main", got |-> None, may |-> may[p]]
    /\ UNCHANGED <<fileVars, steps, call, calls, interrupts, may>>

GetMain ==
    /\ get.at = "main"
    /\ get' = [get EXCEPT !.at = IF main[get.path] = None THEN "leaf" ELSE "done",
                          !.got = main[get.path]]
    /\ UNCHANGED <<fileVars, steps, call, calls, interrupts, may>>

GetLeaf ==
    /\ get.at = "leaf"
    /\ get' = [get EXCEPT !.at = "done", !.got = leaf[get.path]]
    /\ UNCHANGED <<fileVars, steps, call, calls, interrupts, may>>

GetEnds ==
    /\ get.at = "done"
    /\ get' = NoGet
    /\ UNCHANGED <<fileVars, steps, call, calls, interrupts, may>>

Next ==
    \/ \E p \in Paths : (\E expects \in {0, 1} : Set(p, expects)) \/ RemoveNode(p) \/ GetStarts(p)
    \/ Conflict \/ Step \/ Finish \/ Interrupt
    \/ GetMain \/ GetLeaf \/ GetEnds

Spec == Init /\ [][Next]_vars

-----------------------------------------------------------------------------
(* fs.ts:126, "can't destroy node data": at every moment, and whatever     *)
(* happens to the nodes above and below it, a path holds what was last     *)
(* set, or nothing if it was removed; while a call on it is under way, or  *)
(* after one was interrupted, it may also hold what was there before.  (An *)
(* interrupted call may leave both forms, and a remove takes one of them.) *)
StoredAsAsked == \A p \in Paths : Visible(p) \in may[p]

(* fs.ts:3: between calls, and unless one was interrupted, a node is in    *)
(* one form, dir form if it has children, and no directory is there for    *)
(* nothing.  (A set refused for its revision leaves its ancestors in dir   *)
(* form without children: they were promoted before it was checked.)       *)
OneForm ==
    call = NoCall /\ interrupts = 0 => \A p \in Paths :
        /\ leaf[p] = None \/ main[p] = None
        /\ p \in dirs <=> HasEntries(p) \/ main[p] # None
        /\ HasEntries(p) => leaf[p] = None

(* A get takes no lock and reads two files, but the node it finds is one   *)
(* its path held, by the calls, at some moment of the get.  (It may find   *)
(* none although there was one all the time: the node changed its form     *)
(* between the two reads.)                                                 *)
ReadsWhatWasThere == get.at = "done" /\ get.got # None => get.got \in get.may
=============================================================================
