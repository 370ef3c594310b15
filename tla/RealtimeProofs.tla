--------------------------- MODULE RealtimeProofs ---------------------------
(***************************************************************************)
(* For any operations, fields, query and number of absences: what of the   *)
(* client's picture of a node survives which race.                         *)
(*                                                                         *)
(* Three arguments build on the types.  Without actions under way during a *)
(* resynchronisation there are never more predictions than requests and    *)
(* events that will take them away.  As long as events and answers keep    *)
(* their order, revisions rise along the stream, from what the client      *)
(* holds to the end of the log.  And without any race each event on its    *)
(* way continues what the one before it, or the client, has come to.       *)
(***************************************************************************)
EXTENDS Realtime, FiniteSetTheorems, SequenceTheorems, TLAPS

Stages == {"new", "called", "read", "written", "done", "rejected"}
Patches == [no : Nat, kind : {"patch"}, field : Fields, value : SUBSET Ops,
            rev : Nat \ {0}, delta : {"add", "rm", "none"}]
Answers == [no : Nat, kind : {"node"}, node : Nodes]

LogTyped ==
    /\ races \in Races
    /\ log \in Seq([Fields -> SUBSET Ops]) /\ log # <<>>
    /\ stage \in [Ops -> Stages]
    /\ before \in [Ops -> [Fields -> SUBSET Ops]]

StreamTyped ==
    /\ stream \subseteq Patches \cup Answers
    /\ sent \in Nat
    /\ \A m \in stream : m.no < sent
    /\ \A m, n \in stream : m.no = n.no => m = n

NetTyped ==
    /\ watching \in BOOLEAN /\ online \in BOOLEAN
    /\ asked \in Nat /\ away \in Nat
    /\ read \in Nodes \cup {NoNode}

ClientTyped ==
    /\ shown \in Nodes \cup {NoNode}
    /\ confirmed \in Nodes \cup {NoNode}
    /\ pending \in Seq(Own)
    /\ pending # <<>> => shown # NoNode /\ confirmed # NoNode
    /\ listing \in BOOLEAN

Typed == LogTyped /\ StreamTyped /\ NetTyped /\ ClientTyped

-----------------------------------------------------------------------------
\* The operators

LEMMA NoNodeIsNone == NoNode \notin Nodes
BY RealtimeAssumption, SMT DEF Nodes

LEMMA SequenceElements ==
    ASSUME NEW S, NEW s \in Seq(S)
    PROVE  ToSet(s) \subseteq S
BY DEF ToSet

(* Replaying actions on a node gives a node, and nothing replayed leaves   *)
(* it as it is.                                                            *)
LEMMA ReplayNodes ==
    ASSUME NEW node \in Nodes, NEW s \in Seq(Own)
    PROVE  Replay(node, s) \in Nodes
<1>1. ToSet(s) \subseteq Ops
  BY SequenceElements DEF Ops
<1>2. node.val \in [Fields -> SUBSET Ops] /\ node.rev \in Nat \ {0}
  BY DEF Nodes
<1>3. [f \in Fields |-> node.val[f] \cup {o \in ToSet(s) : Target[o] = f}]
        \in [Fields -> SUBSET Ops]
  BY <1>1, <1>2
<1> QED
  BY <1>2, <1>3 DEF Replay, Nodes

LEMMA ReplayNothing ==
    ASSUME NEW node \in Nodes
    PROVE  Replay(node, <<>>) = node
<1>1. ToSet(<<>>) = {}
  BY DEF ToSet
<1>2. node.val \in [Fields -> SUBSET Ops] /\ node = [rev |-> node.rev, val |-> node.val]
  BY DEF Nodes
<1>3. [f \in Fields |-> node.val[f] \cup {o \in ToSet(<<>>) : Target[o] = f}] = node.val
  BY <1>1, <1>2
<1> QED
  BY <1>2, <1>3 DEF Replay

LEMMA PatchNodes ==
    ASSUME NEW node \in Nodes, NEW e \in Patches
    PROVE  /\ Patch(node, e) \in Nodes
           /\ Patch(node, e).rev = e.rev
           /\ Patch(node, e).val = [node.val EXCEPT ![e.field] = e.value]
BY DEF Nodes, Patches, Patch

LEMMA FrontOf ==
    ASSUME NEW S, NEW s \in Seq(S), s # <<>>
    PROVE  Front(s) \in Seq(S) /\ Len(Front(s)) = Len(s) - 1
<1>1. Len(s) \in Nat /\ Len(s) > 0 /\ \A i \in 1 .. Len(s) : s[i] \in S
  BY EmptySeq, LenProperties, ElementOfSeq
<1>2. /\ SubSeq(s, 1, Len(s) - 1) \in Seq(S)
      /\ Len(SubSeq(s, 1, Len(s) - 1)) = IF 1 <= Len(s) - 1 THEN (Len(s) - 1) - 1 + 1 ELSE 0
  BY <1>1, SubSeqProperties
<1>3. CASE Len(s) = 1
  BY <1>1, <1>2, <1>3 DEF Front
<1>4. CASE Len(s) > 1
  BY <1>1, <1>2, <1>4 DEF Front
<1>5. Len(s) = 1 \/ Len(s) > 1
  <2> DEFINE n == Len(s)
  <2>1. n \in Nat /\ n > 0
    BY <1>1
  <2> HIDE DEF n
  <2>2. n = 1 \/ n > 1
    BY <2>1
  <2> QED
    BY <2>2 DEF n
<1> QED
  BY <1>3, <1>4, <1>5

(* What the client holds, step by step: optimistic actions and rejections  *)
(* leave it, a patch patches it, an answer replaces it when no action is   *)
(* pending.                                                                *)
LEMMA BaseOf == Typed => Base \in Nodes \cup {NoNode} /\ (pending # <<>> => Base # NoNode)
BY DEF Typed, ClientTyped, Base

LEMMA StoredNode == Typed => Stored \in Nodes /\ Stored.rev = Len(log) /\ Stored.val = log[Len(log)]
<1> SUFFICES ASSUME Typed PROVE Stored \in Nodes /\ Stored.rev = Len(log) /\ Stored.val = log[Len(log)]
  OBVIOUS
<1>1. log \in Seq([Fields -> SUBSET Ops]) /\ log # <<>>
  BY DEF Typed, LogTyped
<1>2. Len(log) \in Nat \ {0} /\ log[Len(log)] \in [Fields -> SUBSET Ops]
  BY <1>1
<1> QED
  BY <1>2 DEF Stored, Node, Nodes

LEMMA CallClient ==
    ASSUME Typed, NEW o \in Ops, Call(o)
    PROVE  ClientTyped' /\ Base' = Base
<1>1. CASE o \in Own
  <2>1. /\ shown # NoNode /\ confirmed' = Base
        /\ pending' = Append(pending, o) /\ shown' = Replay(confirmed', pending')
        /\ listing' = listing
    BY <1>1 DEF Call
  <2>2. pending' \in Seq(Own) /\ pending' # <<>>
    BY <1>1, <2>1, AppendProperties DEF Typed, ClientTyped
  <2>3. Base \in Nodes
    BY <2>1 DEF Typed, ClientTyped, Base
  <2>4. shown' \in Nodes
    BY <2>1, <2>2, <2>3, ReplayNodes
  <2> QED
    BY <2>1, <2>2, <2>3, <2>4, NoNodeIsNone DEF Typed, ClientTyped, Base
<1>2. CASE o \notin Own
  BY <1>2 DEF Call, Typed, ClientTyped, Base
<1> QED
  BY <1>1, <1>2

LEMMA SettleClient ==
    ASSUME Typed, pending # <<>>, NEW node \in Nodes, NEW rest \in Seq(Own),
           SettleTo(node, rest), listing' \in BOOLEAN
    PROVE  ClientTyped' /\ Base' = node
<1>1. confirmed' = node /\ pending' = rest /\ shown' = Replay(node, rest)
  BY DEF SettleTo
<1>2. shown' \in Nodes /\ (rest = <<>> => shown' = node)
  BY <1>1, ReplayNodes, ReplayNothing
<1> QED
  BY <1>1, <1>2, NoNodeIsNone DEF ClientTyped, Base

LEMMA RollbackClient ==
    ASSUME Typed, NEW o \in Ops, Rollback(o)
    PROVE  /\ ClientTyped' /\ Base' = Base
           /\ pending' = IF pending = <<>> THEN <<>> ELSE Front(pending)
<1>1. CASE pending = <<>>
  BY <1>1 DEF Rollback, Typed, ClientTyped, Base
<1>2. CASE pending # <<>>
  <2>1. SettleTo(confirmed, Front(pending)) /\ listing' = listing
    BY <1>2 DEF Rollback
  <2>2. confirmed \in Nodes /\ Front(pending) \in Seq(Own) /\ listing' \in BOOLEAN
    BY <1>2, <2>1, FrontOf DEF Typed, ClientTyped
  <2>3. ClientTyped' /\ Base' = confirmed
    BY <1>2, <2>1, <2>2, SettleClient
  <2> QED
    BY <1>2, <2>1, <2>3 DEF Base, SettleTo
<1> QED
  BY <1>1, <1>2

LEMMA PatchClient ==
    ASSUME Typed, NEW m \in Patches, ApplyPatch(m)
    PROVE  /\ ClientTyped'
           /\ Base' = IF Base = NoNode THEN NoNode ELSE Patch(Base, m)
           /\ asked' = IF Base = NoNode THEN asked + 1 ELSE asked
           /\ pending' = IF pending = <<>> THEN <<>> ELSE Tail(pending)
           /\ listing' = (m.delta = "add" \/ (listing /\ m.delta # "rm"))
<1>1. listing' = (m.delta = "add" \/ (listing /\ m.delta # "rm")) /\ listing' \in BOOLEAN
  BY DEF ApplyPatch
<1>2. CASE pending = <<>>
  <2>1. shown # NoNode => Patch(shown, m) \in Nodes
    BY PatchNodes DEF Typed, ClientTyped
  <2>2. /\ shown' = IF shown = NoNode THEN NoNode ELSE Patch(shown, m)
        /\ confirmed' = confirmed /\ pending' = pending
        /\ asked' = IF shown = NoNode THEN asked + 1 ELSE asked
    BY <1>2 DEF ApplyPatch
  <2> QED
    BY <1>1, <1>2, <2>1, <2>2 DEF Typed, ClientTyped, Base
<1>3. CASE pending # <<>>
  <2>1. confirmed \in Nodes /\ Base = confirmed /\ Base # NoNode
    BY <1>3 DEF Typed, ClientTyped, Base
  <2>2. Patch(confirmed, m) \in Nodes /\ Tail(pending) \in Seq(Own)
    BY <1>3, <2>1, PatchNodes, HeadTailProperties DEF Typed, ClientTyped
  <2>3. SettleTo(Patch(confirmed, m), Tail(pending)) /\ asked' = asked
    BY <1>3 DEF ApplyPatch
  <2>4. ClientTyped' /\ Base' = Patch(confirmed, m)
    BY <1>1, <1>3, <2>2, <2>3, SettleClient
  <2> QED
    BY <1>1, <1>3, <2>1, <2>3, <2>4 DEF SettleTo
<1> QED
  BY <1>2, <1>3

LEMMA NodeClient ==
    ASSUME Typed, NEW m \in Answers, ApplyNode(m)
    PROVE  /\ ClientTyped'
           /\ Base' = IF pending = <<>> THEN m.node ELSE Base
           /\ pending' = pending /\ asked' = asked
           /\ listing' = Listed(m.node.val)
<1>1. m.node \in Nodes
  BY DEF Answers
<1>2. m.node.val \in [Fields -> SUBSET Ops]
  BY <1>1 DEF Nodes
<1>3. Listed(m.node.val) \in BOOLEAN
  BY <1>2, RealtimeAssumption
<1>4. /\ shown' = m.node /\ confirmed' = confirmed /\ pending' = pending
      /\ asked' = asked /\ listing' = Listed(m.node.val)
  BY DEF ApplyNode
<1> QED
  BY <1>1, <1>3, <1>4, NoNodeIsNone DEF Typed, ClientTyped, Base

-----------------------------------------------------------------------------
\* Types

LEMMA MessageKinds ==
    ASSUME NEW m \in Patches \cup Answers
    PROVE  /\ m.kind = "patch" <=> m \in Patches
           /\ m.kind = "node" <=> m \in Answers
           /\ m.kind \in {"patch", "node"}
BY DEF Patches, Answers

LEMMA LogLength == Typed => Len(log) \in Nat \ {0}
BY DEF Typed, LogTyped

LEMMA ValueTyped ==
    ASSUME Typed, NEW o \in Ops
    PROVE  Target[o] \in Fields /\ Value(o) \in SUBSET Ops
<1>1. Target[o] \in Fields
  BY RealtimeAssumption
<1>2. before[o][Target[o]] \in SUBSET Ops
  BY <1>1 DEF Typed, LogTyped
<1> QED
  BY <1>1, <1>2 DEF Value

LEMMA EventTyped ==
    ASSUME Typed, NEW o \in Ops
    PROVE  /\ Event(o) \in Patches
           /\ Event(o).no = sent /\ Event(o).rev = Len(log)
           /\ Event(o).field = Target[o] /\ Event(o).value = Value(o)
           /\ Event(o).delta = Delta(before[o], Stored.val)
<1>1. Stored.rev \in Nat \ {0} /\ Stored.rev = Len(log) /\ sent \in Nat
  BY StoredNode, LogLength DEF Typed, StreamTyped
<1>2. Delta(before[o], Stored.val) \in {"add", "rm", "none"}
  BY DEF Delta
<1>3. Target[o] \in Fields /\ Value(o) \in SUBSET Ops
  BY ValueTyped
<1> QED
  BY <1>1, <1>2, <1>3 DEF Event, Patches

LEMMA TypedInit == Init => Typed
<1> SUFFICES ASSUME Init PROVE Typed
  OBVIOUS
<1>1. [f \in Fields |-> {}] \in [Fields -> SUBSET Ops]
  OBVIOUS
<1>2. log \in Seq([Fields -> SUBSET Ops]) /\ log # <<>> /\ log[1] \in [Fields -> SUBSET Ops]
  BY <1>1 DEF Init
<1>3. LogTyped
  BY <1>2 DEF Init, LogTyped, Stages
<1>4. StreamTyped /\ NetTyped
  BY DEF Init, StreamTyped, NetTyped
<1>5. ClientTyped
  BY EmptySeq DEF Init, ClientTyped
<1> QED
  BY <1>3, <1>4, <1>5 DEF Typed

LEMMA TypedWrite ==
    ASSUME Typed, NEW o \in Ops, Write(o)
    PROVE  LogTyped' /\ Len(log') = Len(log) + 1
           /\ (\A r \in 1 .. Len(log) : log'[r] = log[r])
           /\ log'[Len(log')] = [Stored.val EXCEPT ![Target[o]] = Value(o)]
<1> DEFINE new == [Stored.val EXCEPT ![Target[o]] = Value(o)]
<1>1. Stored.val \in [Fields -> SUBSET Ops]
  BY StoredNode DEF Nodes
<1>2. new \in [Fields -> SUBSET Ops]
  BY <1>1, ValueTyped
<1>3. log' = Append(log, new)
  BY DEF Write
<1>4. log \in Seq([Fields -> SUBSET Ops])
  BY DEF Typed, LogTyped
<1> HIDE DEF new
<1>5. /\ log' \in Seq([Fields -> SUBSET Ops]) /\ log' # <<>>
      /\ Len(log') = Len(log) + 1 /\ (\A r \in 1 .. Len(log) : log'[r] = log[r])
      /\ log'[Len(log) + 1] = new
  BY <1>2, <1>3, <1>4, AppendProperties
<1>6. stage' \in [Ops -> Stages] /\ before' = before /\ races' = races
  BY DEF Write, Typed, LogTyped, Stages
<1> QED
  BY <1>5, <1>6 DEF Typed, LogTyped, new

LEMMA TypedStep == Typed /\ [Next]_vars => Typed'
<1> SUFFICES ASSUME Typed, [Next]_vars PROVE Typed'
  OBVIOUS
<1>1. ASSUME NEW o \in Ops, Call(o) PROVE Typed'
  <2>1. ClientTyped'
    BY <1>1, CallClient
  <2>2. LogTyped'
    BY <1>1 DEF Call, Typed, LogTyped, Stages
  <2> QED
    BY <1>1, <2>1, <2>2 DEF Call, netVars, Typed, StreamTyped, NetTyped
<1>2. ASSUME NEW o \in Ops, Read(o) PROVE Typed'
  <2>1. Stored.val \in [Fields -> SUBSET Ops]
    BY StoredNode DEF Nodes
  <2>2. LogTyped'
    BY <1>2, <2>1 DEF Read, Typed, LogTyped, Stages
  <2> QED
    BY <1>2, <2>2 DEF Read, netVars, clientVars, Typed, StreamTyped, NetTyped, ClientTyped
<1>3. ASSUME NEW o \in Ops, Write(o) PROVE Typed'
  BY <1>3, TypedWrite DEF Write, netVars, clientVars, Typed, StreamTyped, NetTyped, ClientTyped
<1>4. ASSUME NEW o \in Ops, Emit(o) PROVE Typed'
  <2>1. LogTyped'
    BY <1>4 DEF Emit, Typed, LogTyped, Stages
  <2>2. NetTyped' /\ ClientTyped'
    BY <1>4 DEF Emit, clientVars, Typed, NetTyped, ClientTyped
  <2>3. CASE watching /\ online
    <3>1. stream' = stream \cup {Event(o)} /\ sent' = sent + 1
      BY <1>4, <2>3 DEF Emit
    <3>2. StreamTyped
      BY DEF Typed
    <3>3. stream' \subseteq Patches \cup Answers /\ sent' \in Nat
      BY <3>1, <3>2, EventTyped DEF StreamTyped
    <3>4. \A m \in stream' : m.no < sent'
      <4>1. \A m \in stream : m.no \in Nat /\ m.no < sent
        BY <3>2 DEF StreamTyped, Patches, Answers
      <4> QED
        BY <3>1, <3>2, <4>1, EventTyped DEF StreamTyped
    <3>5. \A m, n \in stream' : m.no = n.no => m = n
      <4>1. \A m \in stream : m.no # sent
        BY <3>2 DEF StreamTyped, Patches, Answers
      <4> QED
        BY <3>1, <3>2, <4>1, EventTyped DEF StreamTyped
    <3> QED
      BY <2>1, <2>2, <3>3, <3>4, <3>5 DEF Typed, StreamTyped
  <2>4. CASE ~(watching /\ online)
    BY <1>4, <2>1, <2>2, <2>4 DEF Emit, Typed, StreamTyped
  <2> QED
    BY <2>3, <2>4
<1>5. ASSUME NEW o \in Ops, Reject(o) PROVE Typed'
  <2>1. LogTyped'
    BY <1>5 DEF Reject, Typed, LogTyped, Stages
  <2> QED
    BY <1>5, <2>1 DEF Reject, netVars, clientVars, Typed, StreamTyped, NetTyped, ClientTyped
<1>6. ASSUME NEW o \in Ops, Rollback(o) PROVE Typed'
  <2>1. ClientTyped'
    BY <1>6, RollbackClient
  <2>2. LogTyped'
    BY <1>6 DEF Rollback, Typed, LogTyped, Stages
  <2> QED
    BY <1>6, <2>1, <2>2 DEF Rollback, netVars, Typed, StreamTyped, NetTyped
<1>7. ASSUME NEW m \in stream, Deliver(m) PROVE Typed'
  <2>1. m \in Patches \cup Answers
    BY DEF Typed, StreamTyped
  <2>2. ClientTyped' /\ asked' \in Nat
    <3>1. asked \in Nat
      BY DEF Typed, NetTyped
    <3>2. CASE m.kind = "patch"
      BY <1>7, <2>1, <3>1, <3>2, MessageKinds, PatchClient DEF Deliver
    <3>3. CASE m.kind # "patch"
      BY <1>7, <2>1, <3>1, <3>3, MessageKinds, NodeClient DEF Deliver
    <3> QED
      BY <3>2, <3>3
  <2> QED
    BY <1>7, <2>2 DEF Deliver, serverVars, Typed, LogTyped, StreamTyped, NetTyped
<1>8. CASE FetchRead
  <2>1. asked' \in Nat /\ read' \in Nodes \cup {NoNode}
    BY <1>8, StoredNode DEF FetchRead, Typed, NetTyped
  <2> QED
    BY <1>8, <2>1 DEF FetchRead, serverVars, clientVars, Typed, LogTyped, StreamTyped, NetTyped, ClientTyped
<1>9. CASE FetchAnswer
  <2> DEFINE answer == [no |-> sent, kind |-> "node", node |-> read]
  <2>1. StreamTyped /\ read \in Nodes
    BY <1>9 DEF FetchAnswer, Typed, NetTyped
  <2>2. answer \in Answers /\ answer.no = sent
    BY <2>1 DEF StreamTyped, Answers
  <2>3. stream' = stream \cup {answer} /\ sent' = sent + 1
    BY <1>9 DEF FetchAnswer
  <2> HIDE DEF answer
  <2>4. \A m \in stream : m.no \in Nat /\ m.no < sent
    BY <2>1 DEF StreamTyped, Patches, Answers
  <2>5. StreamTyped'
    BY <2>1, <2>2, <2>3, <2>4 DEF StreamTyped
  <2> QED
    BY <1>9, <2>5 DEF FetchAnswer, serverVars, clientVars, Typed, LogTyped, NetTyped, ClientTyped
<1>10. CASE Lose
  <2>1. away' \in Nat
    BY <1>10 DEF Lose, Typed, NetTyped
  <2>2. stream' \subseteq stream /\ sent' = sent
    BY <1>10 DEF Lose
  <2>3. StreamTyped'
    BY <2>2 DEF Typed, StreamTyped
  <2> QED
    BY <1>10, <2>1, <2>3 DEF Lose, serverVars, clientVars, Typed, LogTyped, NetTyped, ClientTyped
<1>11. CASE Reconnect
  <2>1. watching' \in BOOLEAN /\ asked' \in Nat
    BY <1>11 DEF Reconnect, Typed, NetTyped
  <2> QED
    BY <1>11, <2>1 DEF Reconnect, serverVars, clientVars, Typed, LogTyped, StreamTyped, NetTyped, ClientTyped
<1>12. CASE UNCHANGED vars
  BY <1>12 DEF vars, serverVars, netVars, clientVars, Typed, LogTyped, StreamTyped, NetTyped, ClientTyped
<1> QED
  BY <1>1, <1>2, <1>3, <1>4, <1>5, <1>6, <1>7, <1>8, <1>9, <1>10, <1>11, <1>12 DEF Next

LEMMA AlwaysTyped == Spec => []Typed
  BY TypedInit, TypedStep, PTL DEF Spec

(* Types: what the client holds is a node with a revision or nothing, and  *)
(* whoever has actions pending has a node to show and one to go back to    *)
(* (rebase.ts).                                                            *)
THEOREM Typing == Spec => []TypeOK
<1>1. Typed => TypeOK
  <2> SUFFICES ASSUME Typed PROVE TypeOK
    OBVIOUS
  <2>1. \A r \in DOMAIN log : log[r] \in [Fields -> SUBSET Ops]
    <3>1. log \in Seq([Fields -> SUBSET Ops])
      BY DEF Typed, LogTyped
    <3> QED
      BY <3>1, LenProperties, ElementOfSeq
  <2>2. ToSet(pending) \subseteq Own
    BY SequenceElements DEF Typed, ClientTyped
  <2> QED
    BY <2>1, <2>2 DEF Typed, NetTyped, ClientTyped, TypeOK
<1> QED
  BY <1>1, AlwaysTyped, PTL

-----------------------------------------------------------------------------
\* Predictions

(* The requests that are under way, and their number together with that of *)
(* the events on their way.                                                *)
Requests == {o \in Own : stage[o] \in {"called", "read", "written", "rejected"}}

TakenAway == "resync" \notin races =>
    /\ IsFiniteSet(stream)
    /\ ~watching => asked > 0 \/ read # NoNode
    /\ pending # <<>> =>
        Synced /\ Len(pending) <= Cardinality(Requests) + Cardinality(stream)

LEMMA FiniteRequests == IsFiniteSet(Requests) /\ Cardinality(Requests) \in Nat
<1>1. Requests \in SUBSET Own /\ IsFiniteSet(Own)
  BY RealtimeAssumption DEF Requests
<1> QED
  BY <1>1, FS_Subset, FS_CardinalityType

LEMMA PendingLength == Typed => Len(pending) \in Nat /\ (pending = <<>> <=> Len(pending) = 0)
BY EmptySeq, LenProperties DEF Typed, ClientTyped

LEMMA RacesStay == [Next]_vars => races' = races
BY DEF Next, vars, serverVars, Call, Read, Write, Emit, Reject, Rollback, Deliver, FetchRead,
       FetchAnswer, Lose, Reconnect

LEMMA TakenAwayStep == Typed /\ TakenAway /\ [Next]_vars => TakenAway'
<1> SUFFICES ASSUME Typed, TakenAway, [Next]_vars, "resync" \notin races'
             PROVE  /\ IsFiniteSet(stream')
                    /\ ~watching' => asked' > 0 \/ read' # NoNode
                    /\ pending' # <<>> => /\ Synced'
                        /\ Len(pending') <= Cardinality(Requests') + Cardinality(stream')
  BY DEF TakenAway
<1>0. /\ races' = races /\ "resync" \notin races
      /\ IsFiniteSet(stream) /\ Cardinality(stream) \in Nat
      /\ ~watching => asked > 0 \/ read # NoNode
      /\ pending # <<>> =>
          Synced /\ Len(pending) <= Cardinality(Requests) + Cardinality(stream)
  <2>1. "resync" \notin races
    BY RacesStay
  <2> QED
    BY <2>1, RacesStay, FS_CardinalityType DEF TakenAway
<1>q. /\ IsFiniteSet(Requests) /\ Cardinality(Requests) \in Nat
      /\ Cardinality(Requests') \in Nat /\ Len(pending) \in Nat
      /\ asked \in Nat /\ read \in Nodes \cup {NoNode}
  <2>1. Requests' \in SUBSET Own /\ IsFiniteSet(Own)
    BY RealtimeAssumption DEF Requests
  <2>2. Cardinality(Requests') \in Nat
    BY <2>1, FS_Subset, FS_CardinalityType
  <2> QED
    BY <2>2, FiniteRequests, PendingLength DEF Typed, NetTyped
<1>1. ASSUME NEW o \in Ops, Call(o) PROVE TakenAway'
  <2>1. UNCHANGED netVars /\ stage[o] = "new" /\ stage' = [stage EXCEPT ![o] = "called"]
    BY <1>1 DEF Call
  <2>2. CASE o \in Own
    <3>1. Synced /\ pending' = Append(pending, o)
      BY <1>0, <1>1, <2>2 DEF Call
    <3>2. Synced'
      BY <2>1, <3>1 DEF netVars, Synced
    <3>3. Len(pending') = Len(pending) + 1
      BY <2>2, <3>1, AppendProperties DEF Typed, ClientTyped
    <3>4. Requests' = Requests \cup {o} /\ o \notin Requests
      BY <2>1, <2>2 DEF Requests, Typed, LogTyped
    <3>5. Cardinality(Requests') = Cardinality(Requests) + 1
      BY <1>q, <3>4, FS_AddElement
    <3>6. Len(pending) <= Cardinality(Requests) + Cardinality(stream)
      BY <1>0, <1>q, PendingLength
    <3>7. Len(pending') <= Cardinality(Requests') + Cardinality(stream')
      BY <1>0, <1>q, <2>1, <3>3, <3>5, <3>6 DEF netVars
    <3> QED
      BY <1>0, <2>1, <3>2, <3>7 DEF TakenAway, netVars
  <2>3. CASE o \notin Own
    <3>1. pending' = pending /\ Requests' = Requests
      BY <1>1, <2>1, <2>3 DEF Call, Requests, Typed, LogTyped
    <3> QED
      BY <1>0, <2>1, <3>1 DEF netVars, TakenAway, Synced
  <2> QED
    BY <2>2, <2>3
<1>2. ASSUME NEW o \in Ops, Read(o) \/ Write(o) \/ Reject(o) PROVE TakenAway'
  <2>1. /\ UNCHANGED <<netVars, clientVars>>
        /\ stage[o] \in {"called", "read"}
        /\ \E s \in {"read", "written", "rejected"} : stage' = [stage EXCEPT ![o] = s]
    BY <1>2 DEF Read, Write, Reject
  <2>2. Requests' = Requests
    BY <2>1 DEF Requests, Typed, LogTyped
  <2> QED
    BY <1>0, <2>1, <2>2 DEF netVars, clientVars, TakenAway, Synced
<1>3. ASSUME NEW o \in Ops, Emit(o) PROVE TakenAway'
  <2>1. /\ UNCHANGED <<watching, online, asked, read, clientVars>>
        /\ stage[o] = "written" /\ stage' = [stage EXCEPT ![o] = "done"]
    BY <1>3 DEF Emit
  <2>2. Requests' = Requests \ {o}
    BY <2>1 DEF Requests, Typed, LogTyped
  <2>3. Cardinality(Requests') >= Cardinality(Requests) - 1
    BY <1>q, <2>2, FS_RemoveElement, SMTT(30)
  <2>4. CASE watching /\ online
    <3>1. stream' = stream \cup {Event(o)}
      BY <1>3, <2>4 DEF Emit
    <3>2. Event(o) \notin stream /\ Event(o).kind = "patch"
      BY EventTyped, MessageKinds DEF Typed, StreamTyped
    <3>3. IsFiniteSet(stream') /\ Cardinality(stream') = Cardinality(stream) + 1
      BY <1>0, <3>1, <3>2, FS_AddElement
    <3>4. pending # <<>> => Synced'
      BY <1>0, <2>1, <3>1, <3>2 DEF Synced
    <3>5. pending # <<>> => Len(pending) <= Cardinality(Requests') + Cardinality(stream')
      BY <1>0, <1>q, <2>3, <3>3
    <3> QED
      BY <1>0, <2>1, <3>3, <3>4, <3>5 DEF TakenAway, clientVars
  <2>5. CASE ~(watching /\ online)
    <3>1. pending = <<>>
      BY <1>0, <1>q, <2>5 DEF Synced
    <3> QED
      BY <1>0, <1>3, <2>1, <2>5, <3>1 DEF Emit, TakenAway, clientVars
  <2> QED
    BY <2>4, <2>5
<1>4. ASSUME NEW o \in Ops, Rollback(o) PROVE TakenAway'
  <2>1. /\ UNCHANGED netVars
        /\ stage[o] = "rejected" /\ o \in Own /\ stage' = [stage EXCEPT ![o] = "done"]
        /\ pending' = IF pending = <<>> THEN <<>> ELSE Front(pending)
    BY <1>4, RollbackClient DEF Rollback
  <2>2. Requests' = Requests \ {o} /\ o \in Requests
    BY <2>1 DEF Requests, Typed, LogTyped
  <2>3. Cardinality(Requests') = Cardinality(Requests) - 1
    BY <1>q, <2>2, FS_RemoveElement
  <2>4. pending # <<>> => Len(pending') = Len(pending) - 1
    BY <2>1, FrontOf DEF Typed, ClientTyped
  <2>5. pending' # <<>> => pending # <<>>
    BY <2>1
  <2>6. pending # <<>> => Len(pending') <= Cardinality(Requests') + Cardinality(stream')
    BY <1>0, <1>q, <2>1, <2>3, <2>4 DEF netVars
  <2> QED
    BY <1>0, <2>1, <2>5, <2>6 DEF netVars, TakenAway, Synced
<1>5. ASSUME NEW m \in stream, Deliver(m) PROVE TakenAway'
  <2>1. /\ stream' = stream \ {m} /\ UNCHANGED <<watching, online, read, stage>>
        /\ m \in Patches \cup Answers
    BY <1>5 DEF Deliver, serverVars, Typed, StreamTyped
  <2>2. IsFiniteSet(stream') /\ Cardinality(stream') = Cardinality(stream) - 1
    BY <1>0, <2>1, FS_RemoveElement
  <2>3. Requests' = Requests
    BY <2>1 DEF Requests
  <2>4. CASE m.kind = "patch"
    <3>1. /\ pending' = IF pending = <<>> THEN <<>> ELSE Tail(pending)
          /\ asked' = IF Base = NoNode THEN asked + 1 ELSE asked
      BY <1>5, <2>1, <2>4, MessageKinds, PatchClient DEF Deliver
    <3>2. pending # <<>> => asked' = asked /\ Len(pending') = Len(pending) - 1
      BY <3>1, BaseOf, HeadTailProperties DEF Typed, ClientTyped
    <3>3. pending # <<>> => Synced' /\ Len(pending') <= Cardinality(Requests') + Cardinality(stream')
      BY <1>0, <1>q, <2>1, <2>2, <2>3, <3>2 DEF Synced
    <3>4. asked' >= asked /\ (pending' # <<>> => pending # <<>>)
      BY <1>q, <3>1
    <3> QED
      BY <1>0, <1>q, <2>1, <2>2, <3>1, <3>3, <3>4 DEF TakenAway
  <2>5. CASE m.kind # "patch"
    <3>1. pending' = pending /\ asked' = asked
      BY <1>5, <2>1, <2>5, MessageKinds, NodeClient DEF Deliver
    <3>2. pending = <<>>
      BY <1>0, <2>5 DEF Synced
    <3> QED
      BY <1>0, <2>1, <2>2, <3>1, <3>2 DEF TakenAway
  <2> QED
    BY <2>4, <2>5
<1>6. CASE FetchRead
  <2>1. pending' = <<>> /\ stream' = stream /\ read' # NoNode
    BY <1>0, <1>6, StoredNode, NoNodeIsNone DEF FetchRead, clientVars, Synced
  <2> QED
    BY <1>0, <2>1 DEF TakenAway
<1>7. CASE FetchAnswer
  <2>1. pending' = <<>> /\ watching' = TRUE
        /\ stream' = stream \cup {[no |-> sent, kind |-> "node", node |-> read]}
    BY <1>0, <1>7 DEF FetchAnswer, clientVars, Synced
  <2> QED
    BY <1>0, <2>1, FS_AddElement DEF TakenAway
<1>8. CASE Lose
  <2>1. pending' = <<>> /\ UNCHANGED <<watching, asked, read>> /\ stream' \in SUBSET stream
    BY <1>0, <1>8 DEF Lose, clientVars
  <2> QED
    BY <1>0, <2>1, FS_Subset DEF TakenAway
<1>9. CASE Reconnect
  <2>1. pending = <<>>
    BY <1>0, <1>9 DEF Reconnect, Synced
  <2>2. /\ UNCHANGED <<stream, read, pending>>
        /\ (watching' = watching /\ asked' = asked) \/ asked' = asked + 1
    <3>1. watching \in BOOLEAN
      BY DEF Typed, NetTyped
    <3> QED
      BY <1>9, <3>1 DEF Reconnect, clientVars
  <2> QED
    BY <1>0, <1>q, <2>1, <2>2 DEF TakenAway
<1>10. CASE UNCHANGED vars
  <2>1. Requests' = Requests
    BY <1>10 DEF vars, serverVars, Requests
  <2> QED
    BY <1>0, <1>10, <2>1 DEF vars, serverVars, netVars, clientVars, TakenAway, Synced
<1> QED
  BY <1>0, <1>1, <1>2, <1>3, <1>4, <1>5, <1>6, <1>7, <1>8, <1>9, <1>10 DEF Next, TakenAway

(* However its actions, foreign ones, events and answers overtake one      *)
(* another: every optimistic action that a client still shows has a        *)
(* request that will settle or an event on its way that takes it away.     *)
LEMMA NothingPendingWhenQuiet ==
    ASSUME Typed, TakenAway, Quiet, "resync" \notin races
    PROVE  pending = <<>>
<1>1. Requests = {}
  BY RealtimeAssumption DEF Quiet, Requests, Ops
<1>2. pending # <<>> => Len(pending) <= 0
  BY <1>1, FS_EmptySet DEF TakenAway, Quiet
<1> QED
  BY <1>2, PendingLength

-----------------------------------------------------------------------------
\* Order

Rev(m) == IF m.kind = "patch" THEN m.rev ELSE m.node.rev

First(m) == \A n \in stream : m.no <= n.no

(* Revisions rise along the stream, from what the client holds to the log. *)
Rising ==
    /\ \A m, n \in stream : m.no < n.no => Rev(m) <= Rev(n)
    /\ \A m \in stream : Rev(m) <= Len(log) /\ (Base # NoNode => Base.rev <= Rev(m))
    /\ Base # NoNode => Base.rev <= Len(log)

(* What a fetch has read is not older than anything on its way.            *)
ReadLast ==
    /\ read # NoNode => /\ read.rev <= Len(log)
                        /\ \A m \in stream : Rev(m) <= read.rev
                        /\ Base # NoNode => Base.rev <= read.rev
    /\ "gap" \notin races /\ read # NoNode => read = Stored

(* A client that resynchronises with nothing under way has one fetch, made *)
(* while the server sends it nothing, and gets the answer first.           *)
Settled ==
    /\ watching => asked = 0 /\ read = NoNode
    /\ ~watching => online /\ stream = {} /\ asked = IF read = NoNode THEN 1 ELSE 0
    /\ ~online => stream = {} /\ Base # NoNode
    /\ watching /\ Base = NoNode => \E m \in stream : m.kind = "node" /\ First(m)

Ordered == InOrder => Rising /\ ReadLast /\ ("resync" \notin races => Settled)

LEMMA RevTyped ==
    ASSUME Typed
    PROVE  /\ \A m \in stream : Rev(m) \in Nat \ {0} /\ m.no \in Nat /\ m.no < sent
           /\ read # NoNode => read.rev \in Nat \ {0}
           /\ Base # NoNode => Base.rev \in Nat \ {0}
           /\ sent \in Nat
<1>1. ASSUME NEW m \in stream PROVE Rev(m) \in Nat \ {0} /\ m.no \in Nat /\ m.no < sent
  <2>1. m \in Patches \cup Answers /\ m.no < sent
    BY DEF Typed, StreamTyped
  <2> QED
    BY <2>1 DEF Patches, Answers, Nodes, Rev
<1> QED
  BY <1>1, BaseOf DEF Typed, NetTyped, StreamTyped, Nodes

(* In order, what is delivered is the first of what is on its way, and the *)
(* client then holds what came, or what it held if that does not matter.   *)
LEMMA DeliverFirst ==
    ASSUME Typed, InOrder, NEW m \in stream, Deliver(m)
    PROVE  /\ First(m)
           /\ stream' = stream \ {m} /\ UNCHANGED <<log, watching, online, read>>
           /\ m.kind = "patch" =>
                /\ Base' = IF Base = NoNode THEN NoNode ELSE Patch(Base, m)
                /\ Base # NoNode => Base'.rev = Rev(m)
                /\ asked' = IF Base = NoNode THEN asked + 1 ELSE asked
           /\ m.kind # "patch" =>
                /\ m.kind = "node" /\ m \in Answers
                /\ Base' = IF pending = <<>> THEN m.node ELSE Base
                /\ Base' # NoNode
                /\ pending = <<>> => Base'.rev = Rev(m)
                /\ asked' = asked
<1>1. m \in Patches \cup Answers
  BY DEF Typed, StreamTyped
<1>2. \A n \in stream : ~(n.no < m.no)
  <2>1. ASSUME NEW n \in stream, n.no < m.no PROVE FALSE
    <3>1. MayOvertake(m, n)
      BY <2>1 DEF Deliver
    <3> QED
      BY <3>1 DEF MayOvertake, InOrder
  <2> QED
    BY <2>1
<1>3. First(m)
  BY <1>2, RevTyped DEF First
<1>4. stream' = stream \ {m} /\ UNCHANGED <<log, watching, online, read>>
  BY DEF Deliver, serverVars
<1>5. CASE m.kind = "patch"
  <2>1. /\ Base' = IF Base = NoNode THEN NoNode ELSE Patch(Base, m)
        /\ asked' = IF Base = NoNode THEN asked + 1 ELSE asked
    BY <1>1, <1>5, MessageKinds, PatchClient DEF Deliver
  <2>2. Base # NoNode => Patch(Base, m).rev = m.rev
    BY <1>1, <1>5, MessageKinds, BaseOf, PatchNodes
  <2> QED
    BY <1>3, <1>4, <1>5, <2>1, <2>2 DEF Rev
<1>6. CASE m.kind # "patch"
  <2>1. m \in Answers /\ m.kind = "node" /\ m.node \in Nodes
    BY <1>1, <1>6, MessageKinds DEF Answers
  <2>2. Base' = (IF pending = <<>> THEN m.node ELSE Base) /\ asked' = asked
    BY <1>6, <2>1, NodeClient DEF Deliver
  <2>3. Base' # NoNode
    BY <2>1, <2>2, BaseOf, NoNodeIsNone
  <2> QED
    BY <1>3, <1>4, <1>6, <2>1, <2>2, <2>3 DEF Rev
<1> QED
  BY <1>5, <1>6

LEMMA BaseStays == clientVars' = clientVars => Base' = Base
BY DEF clientVars, Base

LEMMA OrderedStays ==
    ASSUME Ordered, races' = races, UNCHANGED <<log, netVars>>, Base' = Base
    PROVE  Ordered'
<1>1. UNCHANGED <<stream, watching, online, asked, read>>
  BY DEF netVars
<1>2. InOrder' = InOrder /\ Stored' = Stored
  BY DEF InOrder, Stored, Node
<1>3. Rising => Rising'
  BY <1>1 DEF Rising
<1>4. ReadLast => ReadLast'
  BY <1>1, <1>2 DEF ReadLast
<1>5. Settled => Settled'
  BY <1>1 DEF Settled, First
<1> QED
  BY <1>2, <1>3, <1>4, <1>5 DEF Ordered

(* A message at the end of the stream that is as new as all before it.     *)
LEMMA SendLast ==
    ASSUME Typed, Rising, Base' = Base, log' = log,
           NEW m, m.no = sent, Rev(m) \in Nat, Rev(m) <= Len(log),
           stream' = stream \cup {m},
           \A n \in stream : Rev(n) <= Rev(m), Base # NoNode => Base.rev <= Rev(m)
    PROVE  /\ Rising'
           /\ \A n \in stream : First(n) => First(n)'
<1>1. \A n \in stream : n.no \in Nat /\ n.no < m.no
  BY RevTyped
<1>2. ASSUME NEW n \in stream, First(n) PROVE First(n)'
  <2>1. ASSUME NEW k \in stream' PROVE n.no <= k.no
    <3>1. n.no \in Nat /\ m.no \in Nat /\ n.no < m.no
      BY <1>1, RevTyped
    <3>2. k \in stream \/ k = m
      OBVIOUS
    <3> QED
      BY <1>2, <3>1, <3>2 DEF First
  <2> QED
    BY <2>1 DEF First
<1>3. \A k, n \in stream' : k.no < n.no => Rev(k) <= Rev(n)
  <2> SUFFICES ASSUME NEW k \in stream', NEW n \in stream', k.no < n.no
               PROVE  Rev(k) <= Rev(n)
    OBVIOUS
  <2>1. k \in stream
    BY <1>1, RevTyped
  <2> QED
    BY <2>1 DEF Rising
<1>4. \A n \in stream' : Rev(n) <= Len(log) /\ (Base # NoNode => Base.rev <= Rev(n))
  BY DEF Rising
<1> QED
  BY <1>2, <1>3, <1>4 DEF Rising

LEMMA OrderedStep == Typed /\ Ordered /\ [Next]_vars => Ordered'
<1> SUFFICES ASSUME Typed, Ordered, [Next]_vars, InOrder'
             PROVE  Rising' /\ ReadLast' /\ ("resync" \notin races' => Settled')
  BY DEF Ordered
<1>0. /\ races' = races /\ InOrder
      /\ Rising /\ ReadLast /\ ("resync" \notin races => Settled)
  BY RacesStay DEF InOrder, Ordered
<1>t. /\ Len(log) \in Nat \ {0} /\ sent \in Nat /\ asked \in Nat
      /\ Base \in Nodes \cup {NoNode} /\ read \in Nodes \cup {NoNode}
      /\ \A m \in stream : Rev(m) \in Nat \ {0} /\ m.no \in Nat /\ m.no < sent
      /\ Stored \in Nodes /\ Stored.rev = Len(log)
      /\ watching \in BOOLEAN /\ online \in BOOLEAN
  BY LogLength, RevTyped, BaseOf, StoredNode DEF Typed, NetTyped
<1>1. CASE \/ \E o \in Ops : Call(o) \/ Read(o) \/ Reject(o) \/ Rollback(o)
           \/ UNCHANGED vars
  <2>1. UNCHANGED <<log, netVars>>
    BY <1>1 DEF Call, Read, Reject, Rollback, vars, serverVars
  <2>2. Base' = Base
    BY <1>1, CallClient, RollbackClient, BaseStays DEF Read, Reject, vars
  <2> QED
    BY <1>0, <2>1, <2>2, OrderedStays DEF Ordered
<1>2. ASSUME NEW o \in Ops, Write(o)
      PROVE  Rising' /\ ReadLast' /\ ("resync" \notin races => Settled')
  <2>1. /\ Len(log') = Len(log) + 1 /\ Base' = Base
        /\ UNCHANGED <<stream, watching, online, asked, read>>
        /\ "gap" \notin races => read = NoNode
    BY <1>2, TypedWrite, BaseStays DEF Write, netVars
  <2>2. Rising'
    BY <1>0, <1>t, <2>1 DEF Rising, Nodes
  <2>3. ReadLast'
    BY <1>0, <1>t, <2>1 DEF ReadLast, Nodes
  <2>4. Settled => Settled'
    BY <2>1 DEF Settled, First
  <2> QED
    BY <1>0, <2>2, <2>3, <2>4
<1>3. ASSUME NEW o \in Ops, Emit(o)
      PROVE  Rising' /\ ReadLast' /\ ("resync" \notin races => Settled')
  <2>1. /\ Base' = Base /\ UNCHANGED <<log, watching, online, asked, read, away, clientVars>>
        /\ Stored' = Stored
    BY <1>3, BaseStays DEF Emit, Stored, Node
  <2>2. CASE ~(watching /\ online)
    <3>1. UNCHANGED netVars
      BY <1>3, <2>1, <2>2 DEF Emit, netVars
    <3> QED
      BY <1>0, <2>1, <3>1, OrderedStays DEF Ordered
  <2>3. CASE watching /\ online
    <3>1. stream' = stream \cup {Event(o)}
      BY <1>3, <2>3 DEF Emit
    <3>2. Event(o).no = sent /\ Rev(Event(o)) = Len(log) /\ Event(o).kind = "patch"
      BY EventTyped, MessageKinds DEF Rev
    <3>3. Rising' /\ \A n \in stream : First(n) => First(n)'
      BY <1>0, <1>t, <2>1, <3>1, <3>2, SendLast DEF Rising
    <3>4. read = NoNode \/ read = Stored
      BY <1>0, <2>3 DEF ReadLast, InOrder, Settled
    <3>5. ReadLast'
      <4>1. ASSUME read # NoNode
            PROVE  /\ read.rev = Len(log)
                   /\ \A m \in stream' : Rev(m) <= read.rev
        BY <1>0, <1>t, <3>1, <3>2, <3>4, <4>1 DEF Rising
      <4> QED
        BY <1>0, <1>t, <2>1, <4>1 DEF ReadLast, Nodes
    <3>6. Settled => Settled'
      BY <2>1, <2>3, <3>1, <3>3 DEF Settled
    <3> QED
      BY <1>0, <3>3, <3>5, <3>6
  <2> QED
    BY <2>2, <2>3
<1>4. ASSUME NEW m \in stream, Deliver(m)
      PROVE  Rising' /\ ReadLast' /\ ("resync" \notin races => Settled')
  <2>1. /\ First(m) /\ stream' = stream \ {m} /\ UNCHANGED <<log, watching, online, read>>
        /\ Stored' = Stored
    BY <1>0, <1>4, DeliverFirst DEF Stored, Node
  <2>2. Base' = Base \/ (Base' # NoNode => Base'.rev = Rev(m))
    BY <1>0, <1>4, DeliverFirst
  <2>3. \A n \in stream' : n \in stream /\ m.no < n.no
    BY <1>t, <2>1 DEF First, Typed, StreamTyped
  <2>4. \A n \in stream' : Rev(m) <= Rev(n)
    BY <1>0, <2>3 DEF Rising
  <2>5. Rising'
    BY <1>0, <1>t, <2>1, <2>2, <2>3, <2>4 DEF Rising
  <2>6. ReadLast'
    BY <1>0, <1>t, <2>1, <2>2, <2>3 DEF ReadLast
  <2>7. ASSUME Settled PROVE Settled'
    <3>1. watching /\ online
      BY <1>t, <2>7 DEF Settled
    <3>2. CASE Base = NoNode
      <4>1. m.kind = "node"
        <5>1. PICK n \in stream : n.kind = "node" /\ First(n)
          BY <2>7, <3>1, <3>2 DEF Settled
        <5>2. n = m
          BY <1>t, <2>1, <5>1 DEF First, Typed, StreamTyped
        <5> QED
          BY <5>1, <5>2
      <4>2. Base' # NoNode /\ asked' = asked
        BY <1>0, <1>4, <4>1, DeliverFirst
      <4> QED
        BY <2>1, <2>7, <3>1, <4>2 DEF Settled
    <3>3. CASE Base # NoNode
      <4>1. Base' # NoNode /\ asked' = asked
        <5>1. ASSUME m \in Patches PROVE Patch(Base, m) # NoNode
          <6>1. Base \in Nodes
            BY <1>t, <3>3
          <6>2. Patch(Base, m) \in Nodes
            BY <5>1, <6>1, PatchNodes
          <6> QED
            BY <6>2, NoNodeIsNone
        <5>2. m \in Patches \cup Answers
          BY DEF Typed, StreamTyped
        <5> QED
          BY <1>0, <1>4, <3>3, <5>1, <5>2, MessageKinds, DeliverFirst
      <4> QED
        BY <2>1, <2>7, <3>1, <4>1 DEF Settled
    <3> QED
      BY <3>2, <3>3
  <2> QED
    BY <1>0, <2>5, <2>6, <2>7
<1>5. CASE FetchRead
  <2>1. /\ Base' = Base /\ UNCHANGED <<log, stream, watching, online>> /\ Stored' = Stored
        /\ asked > 0 /\ asked' = asked - 1 /\ read = NoNode /\ read' = Stored
    BY <1>5, BaseStays DEF FetchRead, serverVars, Stored, Node
  <2>2. Rising'
    BY <1>0, <2>1 DEF Rising
  <2>3. ReadLast'
    BY <1>0, <1>t, <2>1 DEF ReadLast, Rising
  <2>4. Settled => Settled'
    BY <1>t, <2>1, NoNodeIsNone DEF Settled, First
  <2> QED
    BY <1>0, <2>2, <2>3, <2>4
<1>6. CASE FetchAnswer
  <2> DEFINE answer == [no |-> sent, kind |-> "node", node |-> read]
  <2>1. /\ Base' = Base /\ UNCHANGED <<log, online, asked>>
        /\ read # NoNode /\ read' = NoNode /\ watching' = TRUE
        /\ stream' = stream \cup {answer}
    BY <1>6, BaseStays DEF FetchAnswer, serverVars
  <2>2. answer.no = sent /\ Rev(answer) = read.rev /\ answer.kind = "node"
    BY DEF Rev
  <2> HIDE DEF answer
  <2>3. read.rev \in Nat
    BY <1>t, <2>1 DEF Nodes
  <2>4. Rising'
    BY <1>0, <1>t, <2>1, <2>2, <2>3, SendLast DEF ReadLast
  <2>5. ReadLast'
    BY <2>1 DEF ReadLast
  <2>6. ASSUME Settled PROVE Settled'
    <3>1. /\ ~watching /\ online /\ stream = {} /\ asked = 0
      BY <1>t, <2>1, <2>6 DEF Settled
    <3>2. stream' = {answer} /\ answer.no \in Nat
      BY <1>t, <2>1, <2>2, <3>1
    <3>3. \E m \in stream' : m.kind = "node" /\ \A n \in stream' : m.no <= n.no
      BY <2>2, <3>2
    <3> QED
      BY <2>1, <3>1, <3>3 DEF Settled, First
  <2> QED
    BY <1>0, <2>4, <2>5, <2>6
<1>7. CASE Lose
  <2>1. /\ Base' = Base /\ UNCHANGED <<log, watching, asked, read>> /\ Stored' = Stored
        /\ online' = FALSE /\ stream' = {m \in stream : m.kind = "node"}
        /\ "resync" \notin races => Synced
    BY <1>7, BaseStays DEF Lose, serverVars, Stored, Node
  <2>2. Rising'
    BY <1>0, <2>1 DEF Rising
  <2>3. ReadLast'
    BY <1>0, <2>1 DEF ReadLast
  <2>4. ASSUME Settled, "resync" \notin races PROVE Settled'
    <3>1. stream' = {} /\ watching
      <4>1. \A m \in stream : m.kind # "node"
        BY <2>1, <2>4 DEF Synced
      <4> QED
        BY <2>1, <2>4, <4>1 DEF Synced, Settled
    <3>2. Base # NoNode
      BY <2>1, <2>4, <3>1 DEF Synced, Settled
    <3> QED
      BY <2>1, <2>4, <3>1, <3>2 DEF Settled
  <2> QED
    BY <1>0, <2>2, <2>3, <2>4
<1>8. CASE Reconnect
  <2>1. /\ Base' = Base /\ UNCHANGED <<log, stream, read>> /\ Stored' = Stored
        /\ ~online /\ online' = TRUE
        /\ \/ watching' = watching /\ asked' = asked
           \/ watching' = FALSE /\ asked' = asked + 1
    BY <1>8, <1>t, BaseStays DEF Reconnect, serverVars, Stored, Node
  <2>2. Rising'
    BY <1>0, <2>1 DEF Rising
  <2>3. ReadLast'
    BY <1>0, <2>1 DEF ReadLast
  <2>4. Settled => Settled'
    BY <1>t, <2>1 DEF Settled, First
  <2> QED
    BY <1>0, <2>2, <2>3, <2>4
<1> QED
  BY <1>0, <1>1, <1>2, <1>3, <1>4, <1>5, <1>6, <1>7, <1>8 DEF Next

LEMMA AlwaysOrdered == Spec => [](Typed /\ Ordered)
<1>1. Init => Ordered
  BY DEF Init, Ordered, Rising, ReadLast, Settled, Base
<1> QED
  BY <1>1, TypedInit, TypedStep, OrderedStep, PTL DEF Spec

(* What a client takes for the stored node never goes back to an earlier   *)
(* revision, as long as events and answers keep their order and fetches    *)
(* that leave a gap are made by settled clients: whatever is on its way is *)
(* as new as what the client holds, and what was sent later is as new as   *)
(* what was sent before, however writers overlap and clients go away.      *)
THEOREM InOrderOfRevisions == Spec => RevNeverFalls
<1> DEFINE Falls == InOrder /\ Base # NoNode /\ Base' # NoNode /\ ~(Base'.rev >= Base.rev)
<1>1. Typed /\ Ordered /\ [Next]_vars => ~Falls
  <2> SUFFICES ASSUME Typed, Ordered, [Next]_vars, InOrder, Base # NoNode, Base' # NoNode
               PROVE  Base'.rev >= Base.rev
    OBVIOUS
  <2>1. Base.rev \in Nat
    BY RevTyped
  <2>2. ASSUME NEW m \in stream, Deliver(m) PROVE Base'.rev >= Base.rev
    <3>1. Base' = Base \/ Base'.rev = Rev(m)
      BY <2>2, DeliverFirst
    <3>2. Rev(m) >= Base.rev
      BY <2>1, RevTyped DEF Ordered, Rising
    <3> QED
      BY <2>1, <3>1, <3>2
  <2>3. CASE ~\E m \in stream : Deliver(m)
    <3>1. Base' = Base
      BY <2>3, CallClient, RollbackClient, BaseStays
      DEF Next, vars, Read, Write, Emit, Reject, FetchRead, FetchAnswer, Lose, Reconnect
    <3> QED
      BY <2>1, <3>1
  <2> QED
    BY <2>2, <2>3
<1>2. ~Falls => (InOrder /\ Base # NoNode /\ Base' # NoNode => Base'.rev >= Base.rev)
  OBVIOUS
<1> QED
  BY <1>1, <1>2, AlwaysOrdered, PTL DEF Spec, RevNeverFalls

-----------------------------------------------------------------------------
\* Truth

(* A write replaces what it was made from.                                 *)
OneWriter ==
    /\ \A o, p \in Ops : Under(o) /\ Under(p) => o = p
    /\ \A o \in Ops : stage[o] = "read" => before[o] = log[Len(log)]
    /\ \A o \in Ops : stage[o] = "written" =>
          /\ Len(log) > 1 /\ before[o] = log[Len(log) - 1]
          /\ log[Len(log)] = [before[o] EXCEPT ![Target[o]] = Value(o)]

(* A patch says what its revision changed, an answer what a revision held. *)
Tells(m) ==
    IF m.kind = "patch"
    THEN /\ m.rev > 1
         /\ log[m.rev] = [log[m.rev - 1] EXCEPT ![m.field] = m.value]
         /\ m.delta = Delta(log[m.rev - 1], log[m.rev])
    ELSE m.node.val = log[m.node.rev]

(* A patch continues what is before it, or repeats the last of it.         *)
Follows(m) ==
    \/ \E n \in stream : n.no < m.no /\ Rev(n) \in {m.rev - 1, m.rev}
    \/ Base # NoNode /\ Base.rev \in {m.rev - 1, m.rev}

Reaches(r) == (\E m \in stream : Rev(m) = r) \/ (Base # NoNode /\ Base.rev = r)

(* A client that is watched has the last revision, or will have it, or its *)
(* writer has yet to send it.                                              *)
CaughtUp ==
    watching /\ online =>
        \/ Reaches(Len(log))
        \/ Reaches(Len(log) - 1) /\ \E o \in Ops : stage[o] = "written"

Holds == Base # NoNode => Base.val = log[Base.rev] /\ listing = Listed(Base.val)

Truthful == races = {} =>
    /\ OneWriter
    /\ \A m \in stream : Tells(m) /\ (m.kind = "patch" => Follows(m))
    /\ CaughtUp /\ Holds

Inv == Typed /\ TakenAway /\ Ordered /\ Truthful

LEMMA ListingFollows ==
    ASSUME NEW old \in [Fields -> SUBSET Ops], NEW new \in [Fields -> SUBSET Ops],
           NEW d, d = Delta(old, new), NEW l, l = Listed(old) \/ l = Listed(new)
    PROVE  (d = "add" \/ (l /\ d # "rm")) = Listed(new)
<1>1. Listed(old) \in BOOLEAN /\ Listed(new) \in BOOLEAN
  BY RealtimeAssumption
<1>2. CASE ~Listed(old) /\ Listed(new)
  BY <1>1, <1>2 DEF Delta
<1>3. CASE Listed(old) /\ ~Listed(new)
  BY <1>1, <1>3 DEF Delta
<1>4. CASE Listed(old) <=> Listed(new)
  <2>1. d = "none"
    BY <1>4 DEF Delta
  <2> QED
    BY <1>1, <1>4, <2>1
<1> QED
  BY <1>1, <1>2, <1>3, <1>4

LEMMA OneWriterStep ==
    ASSUME Typed, OneWriter, races = {}, [Next]_vars
    PROVE  OneWriter'
<1>t. stage \in [Ops -> Stages] /\ before \in [Ops -> [Fields -> SUBSET Ops]]
  BY DEF Typed, LogTyped
<1>1. ASSUME NEW o \in Ops, Call(o) \/ Reject(o) \/ Rollback(o) \/ Emit(o) PROVE OneWriter'
  <2>1. /\ UNCHANGED <<log, before>>
        /\ \E s \in {"called", "rejected", "done"} : stage' = [stage EXCEPT ![o] = s]
    BY <1>1 DEF Call, Reject, Rollback, Emit
  <2> QED
    BY <1>t, <2>1 DEF OneWriter, Under, Value
<1>2. ASSUME NEW o \in Ops, Read(o) PROVE OneWriter'
  <2>1. /\ stage' = [stage EXCEPT ![o] = "read"] /\ before' = [before EXCEPT ![o] = Stored.val]
        /\ log' = log /\ \A p \in Ops : ~Under(p)
    BY <1>2 DEF Read
  <2>2. Stored.val = log[Len(log)]
    BY StoredNode
  <2>3. \A p \in Ops : Under(p)' => p = o /\ stage'[p] = "read"
    BY <1>t, <2>1 DEF Under
  <2> QED
    BY <1>t, <2>1, <2>2, <2>3 DEF OneWriter, Under
<1>3. ASSUME NEW o \in Ops, Write(o) PROVE OneWriter'
  <2>1. /\ stage[o] = "read" /\ stage' = [stage EXCEPT ![o] = "written"] /\ before' = before
        /\ Len(log') = Len(log) + 1 /\ log'[Len(log)] = log[Len(log)]
        /\ log'[Len(log')] = [Stored.val EXCEPT ![Target[o]] = Value(o)]
        /\ Stored.val = log[Len(log)] /\ Len(log) \in Nat \ {0}
    BY <1>3, TypedWrite, StoredNode, LogLength DEF Write
  <2>2. \A p \in Ops : Under(p)' => p = o /\ stage'[p] = "written"
    BY <1>t, <2>1 DEF OneWriter, Under
  <2>3. before[o] = log[Len(log)] /\ Value(o)' = Value(o)
    BY <2>1 DEF OneWriter, Value
  <2>4. /\ Len(log') > 1 /\ before'[o] = log'[Len(log') - 1]
        /\ log'[Len(log')] = [before'[o] EXCEPT ![Target[o]] = Value(o)']
    BY <2>1, <2>3
  <2> QED
    BY <1>t, <2>1, <2>2, <2>4 DEF OneWriter, Under
<1>4. CASE UNCHANGED <<log, stage, before>>
  BY <1>4 DEF OneWriter, Under, Value
<1> QED
  BY <1>1, <1>2, <1>3, <1>4
  DEF Next, vars, serverVars, Deliver, FetchRead, FetchAnswer, Lose, Reconnect

LEMMA NoRaces == races = {} => InOrder /\ "gap" \notin races /\ "resync" \notin races
BY DEF InOrder

LEMMA TellsStep ==
    ASSUME Typed, Ordered, OneWriter, races = {}, \A m \in stream : Tells(m), [Next]_vars
    PROVE  \A m \in stream' : Tells(m)'
<1>0. Rising /\ ReadLast /\ Len(log) \in Nat \ {0}
  BY NoRaces, LogLength DEF Ordered
<1>1. CASE log' = log /\ stream' \subseteq stream
  BY <1>1 DEF Tells
<1>2. ASSUME NEW o \in Ops, Write(o) PROVE \A m \in stream' : Tells(m)'
  <2>1. stream' = stream /\ \A r \in 1 .. Len(log) : log'[r] = log[r]
    BY <1>2, TypedWrite DEF Write, netVars
  <2> SUFFICES ASSUME NEW m \in stream PROVE Tells(m)'
    BY <2>1
  <2>2. Tells(m) /\ Rev(m) \in Nat \ {0} /\ Rev(m) <= Len(log)
    BY <1>0, RevTyped DEF Rising
  <2>3. CASE m.kind = "patch"
    <3>1. m.rev \in 1 .. Len(log) /\ m.rev - 1 \in 1 .. Len(log)
      BY <1>0, <2>2, <2>3 DEF Rev, Tells
    <3> QED
      BY <2>1, <2>2, <2>3, <3>1 DEF Tells
  <2>4. CASE m.kind # "patch"
    <3>1. m.node.rev \in 1 .. Len(log)
      BY <1>0, <2>2, <2>4 DEF Rev
    <3> QED
      BY <2>1, <2>2, <2>4, <3>1 DEF Tells
  <2> QED
    BY <2>3, <2>4
<1>3. ASSUME NEW o \in Ops, Emit(o) PROVE \A m \in stream' : Tells(m)'
  <2>1. log' = log /\ stream' \subseteq stream \cup {Event(o)} /\ stage[o] = "written"
    BY <1>3 DEF Emit
  <2>2. /\ Event(o).kind = "patch" /\ Event(o).rev = Len(log)
        /\ Event(o).field = Target[o] /\ Event(o).value = Value(o)
        /\ Event(o).delta = Delta(before[o], log[Len(log)])
    BY EventTyped, MessageKinds, StoredNode
  <2>3. Tells(Event(o))
    BY <2>1, <2>2, ZenonT(30) DEF OneWriter, Tells
  <2>4. \A m \in stream' : Tells(m)
    BY <2>1, <2>3
  <2> QED
    BY <2>1, <2>4 DEF Tells
<1>4. CASE FetchAnswer
  <2> DEFINE answer == [no |-> sent, kind |-> "node", node |-> read]
  <2>1. log' = log /\ stream' = stream \cup {answer} /\ read = Stored
    BY <1>0, <1>4, NoRaces DEF FetchAnswer, serverVars, ReadLast
  <2>2. Tells(answer)
    BY <2>1, StoredNode DEF Tells
  <2> HIDE DEF answer
  <2>3. \A m \in stream' : Tells(m)
    BY <2>1, <2>2
  <2> QED
    BY <2>1, <2>3 DEF Tells
<1> QED
  BY <1>1, <1>2, <1>3, <1>4
  DEF Next, vars, serverVars, netVars, Call, Read, Reject, Rollback, Deliver, FetchRead, Lose, Reconnect

(* Without races the client holds, after what it takes in, the node as it  *)
(* was stored under the revision that came.                                *)
LEMMA DeliverTrue ==
    ASSUME Inv, races = {}, NEW m \in stream, Deliver(m)
    PROVE  /\ Base' # NoNode /\ Base'.rev = Rev(m) /\ Rev(m) \in 1 .. Len(log)
           /\ Base'.val = log[Rev(m)] /\ listing' = Listed(Base'.val)
<1>0. /\ Typed /\ InOrder /\ Tells(m) /\ (m.kind = "patch" => Follows(m)) /\ Holds
      /\ Rev(m) \in Nat \ {0} /\ Rev(m) <= Len(log) /\ Len(log) \in Nat \ {0}
      /\ m \in Patches \cup Answers
      /\ pending # <<>> => Synced
  BY NoRaces, RevTyped, LogLength
  DEF Inv, Truthful, Ordered, Rising, Typed, StreamTyped, TakenAway
<1>1. Rev(m) \in 1 .. Len(log)
  BY <1>0
<1>2. CASE m.kind = "patch"
  <2>1. First(m) /\ Base' = IF Base = NoNode THEN NoNode ELSE Patch(Base, m)
    BY <1>0, <1>2, DeliverFirst
  <2>2. \A n \in stream : ~(n.no < m.no)
    BY <1>0, <2>1, RevTyped DEF First
  <2>3. Base # NoNode /\ Base.rev \in {m.rev - 1, m.rev}
    BY <1>0, <1>2, <2>2 DEF Follows
  <2>4. Base \in Nodes /\ m \in Patches
    BY <1>0, <1>2, <2>3, BaseOf, MessageKinds
  <2>5. /\ Base' \in Nodes /\ Base'.rev = m.rev
        /\ Base'.val = [Base.val EXCEPT ![m.field] = m.value]
    BY <2>1, <2>3, <2>4, PatchNodes
  <2>6. /\ Base.val = log[Base.rev] /\ listing = Listed(Base.val)
        /\ m.rev > 1 /\ log[m.rev] = [log[m.rev - 1] EXCEPT ![m.field] = m.value]
        /\ m.delta = Delta(log[m.rev - 1], log[m.rev])
    BY <1>0, <1>2, <2>3 DEF Holds, Tells
  <2>7. /\ m.field \in Fields /\ m.rev \in 1 .. Len(log) /\ m.rev - 1 \in 1 .. Len(log)
    BY <1>0, <1>2, <2>4, <2>6 DEF Rev, Patches
  <2>8. log[m.rev - 1] \in [Fields -> SUBSET Ops] /\ log[m.rev] \in [Fields -> SUBSET Ops]
    BY <1>0, <2>7 DEF Typed, LogTyped
  <2>9. Base'.val = log[m.rev]
    <3>1. CASE Base.rev = m.rev - 1
      BY <2>5, <2>6, <3>1
    <3>2. CASE Base.rev = m.rev
      <4>1. log[m.rev][m.field] = m.value
        BY <2>6, <2>7, <2>8
      <4> QED
        BY <2>5, <2>6, <2>7, <2>8, <3>2, <4>1
    <3> QED
      BY <2>3, <3>1, <3>2
  <2>10. listing' = (m.delta = "add" \/ (listing /\ m.delta # "rm"))
    BY <1>0, <1>2, <2>4, PatchClient DEF Deliver
  <2>11. listing = Listed(log[m.rev - 1]) \/ listing = Listed(log[m.rev])
    BY <2>3, <2>6
  <2>12. listing' = Listed(log[m.rev])
    BY <2>6, <2>8, <2>10, <2>11, ListingFollows
  <2> QED
    BY <1>1, <1>2, <2>5, <2>9, <2>12, NoNodeIsNone DEF Rev
<1>3. CASE m.kind # "patch"
  <2>1. m \in Answers /\ m.kind = "node" /\ m.node \in Nodes
    BY <1>0, <1>3, MessageKinds DEF Answers
  <2>2. pending = <<>>
    BY <1>0, <1>3 DEF Synced
  <2>3. Base' = m.node /\ listing' = Listed(m.node.val)
    BY <1>0, <1>3, <2>1, <2>2, NodeClient DEF Deliver
  <2> QED
    BY <1>0, <1>1, <1>3, <2>1, <2>3, NoNodeIsNone DEF Rev, Tells
<1> QED
  BY <1>2, <1>3

(* The steps that neither write nor send nor deliver.                      *)
LEMMA OtherSteps ==
    ASSUME Typed, [Next]_vars,
           ~\E o \in Ops : Write(o) \/ Emit(o),
           ~\E m \in stream : Deliver(m), ~FetchAnswer, ~Lose
    PROVE  /\ Base' = Base /\ UNCHANGED <<log, stream, listing>>
           /\ watching' /\ online' /\ races = {} => watching /\ online
           /\ \A o \in Ops : stage[o] = "written" => stage'[o] = "written"
<1>1. ASSUME NEW o \in Ops, Call(o) \/ Read(o) \/ Reject(o) \/ Rollback(o)
      PROVE  /\ Base' = Base /\ UNCHANGED <<log, stream, watching, online, listing>>
             /\ \A p \in Ops : stage[p] = "written" => stage'[p] = "written"
  <2>1. Base' = Base
    BY <1>1, CallClient, RollbackClient, BaseStays DEF Read, Reject
  <2>2. stage[o] # "written" /\ \E s \in Stages : stage' = [stage EXCEPT ![o] = s]
    BY <1>1 DEF Call, Read, Reject, Rollback, Stages
  <2>3. \A p \in Ops : stage[p] = "written" => stage'[p] = "written"
    BY <2>2 DEF Typed, LogTyped
  <2> QED
    BY <1>1, <2>1, <2>3 DEF Call, Read, Reject, Rollback, netVars, clientVars
<1>2. CASE FetchRead \/ Reconnect \/ UNCHANGED vars
  <2>1. Base' = Base
    BY <1>2, BaseStays DEF FetchRead, Reconnect, vars
  <2>2. watching' /\ online' /\ races = {} => watching /\ online
    BY <1>2 DEF FetchRead, Reconnect, vars, netVars
  <2> QED
    BY <1>2, <2>1, <2>2 DEF FetchRead, Reconnect, vars, serverVars, netVars, clientVars
<1> QED
  BY <1>1, <1>2 DEF Next

LEMMA TruthfulStep == Inv /\ [Next]_vars => Truthful'
<1> SUFFICES ASSUME Inv, [Next]_vars, races = {}
             PROVE  /\ OneWriter' /\ (\A m \in stream' : Tells(m)')
                    /\ (\A m \in stream' : m.kind = "patch" => Follows(m)')
                    /\ CaughtUp' /\ Holds'
  BY RacesStay DEF Truthful
<1>0. /\ Typed /\ OneWriter /\ Rising /\ ReadLast /\ CaughtUp /\ Holds
      /\ \A m \in stream : Tells(m)
      /\ \A m \in stream : m.kind = "patch" => Follows(m)
  BY NoRaces DEF Inv, Truthful, Ordered
<1>t. /\ Len(log) \in Nat \ {0} /\ sent \in Nat
      /\ Base # NoNode => Base.rev \in Nat \ {0} /\ Base.rev <= Len(log)
      /\ \A m \in stream : /\ Rev(m) \in Nat \ {0} /\ Rev(m) <= Len(log)
                           /\ m.no \in Nat /\ m.no < sent
  BY <1>0, LogLength, RevTyped DEF Rising
<1>1. OneWriter'
  BY <1>0, OneWriterStep
<1>2. \A m \in stream' : Tells(m)'
  BY <1>0, TellsStep DEF Inv
<1> DEFINE Rest == /\ \A m \in stream' : m.kind = "patch" => Follows(m)'
                   /\ CaughtUp' /\ Holds'
<1>3. ASSUME NEW o \in Ops, Write(o) PROVE Rest
  <2>1. /\ Base' = Base /\ UNCHANGED <<stream, watching, online, listing>>
        /\ stage[o] = "read" /\ stage'[o] = "written"
        /\ Len(log') = Len(log) + 1 /\ \A r \in 1 .. Len(log) : log'[r] = log[r]
    BY <1>0, <1>3, TypedWrite, BaseStays DEF Write, netVars, clientVars, Typed, LogTyped
  <2>2. \A m \in stream' : m.kind = "patch" => Follows(m)'
    BY <1>0, <2>1 DEF Follows
  <2>3. Holds'
    <3>1. Base # NoNode => Base.rev \in 1 .. Len(log)
      BY <1>t
    <3> QED
      BY <1>0, <2>1, <3>1 DEF Holds
  <2>4. CaughtUp'
    <3>1. ~\E p \in Ops : stage[p] = "written"
      BY <1>0, <2>1 DEF OneWriter, Under
    <3>2. watching /\ online => Reaches(Len(log))
      BY <1>0, <3>1 DEF CaughtUp
    <3>3. Len(log') - 1 = Len(log)
      BY <1>t, <2>1
    <3>4. Reaches(Len(log)) => Reaches(Len(log) - 1)'
      BY <2>1, <3>3 DEF Reaches
    <3> QED
      BY <2>1, <3>2, <3>4 DEF CaughtUp
  <2> QED
    BY <2>2, <2>3, <2>4
<1>4. ASSUME NEW o \in Ops, Emit(o) PROVE Rest
  <2>1. /\ Base' = Base /\ UNCHANGED <<log, watching, online, listing>>
        /\ stage[o] = "written"
    BY <1>4, BaseStays DEF Emit, clientVars
  <2>2. Holds'
    BY <1>0, <2>1 DEF Holds
  <2>3. CASE watching /\ online
    <3>1. stream' = stream \cup {Event(o)}
      BY <1>4, <2>3 DEF Emit
    <3>2. Event(o).no = sent /\ Event(o).kind = "patch" /\ Event(o).rev = Len(log)
          /\ Rev(Event(o)) = Len(log)
      BY <1>0, EventTyped, MessageKinds DEF Rev
    <3>3. CaughtUp'
      BY <2>1, <3>1, <3>2 DEF CaughtUp, Reaches
    <3>4. Reaches(Len(log)) \/ Reaches(Len(log) - 1)
      BY <1>0, <2>3 DEF CaughtUp
    <3>5. ASSUME NEW m \in stream', m.kind = "patch" PROVE Follows(m)'
      <4>1. CASE m \in stream
        BY <1>0, <2>1, <3>1, <3>5, <4>1 DEF Follows
      <4>2. CASE m = Event(o)
        <5>1. m.no = sent /\ m.rev = Len(log)
          BY <3>2, <4>2
        <5>2. CASE \E n \in stream : Rev(n) \in {m.rev - 1, m.rev}
          BY <1>t, <3>1, <5>1, <5>2 DEF Follows
        <5>3. CASE Base # NoNode /\ Base.rev \in {m.rev - 1, m.rev}
          BY <2>1, <5>3 DEF Follows
        <5> QED
          BY <3>4, <5>1, <5>2, <5>3 DEF Reaches
      <4> QED
        BY <3>1, <4>1, <4>2
    <3> QED
      BY <2>2, <3>3, <3>5
  <2>4. CASE ~(watching /\ online)
    <3>1. stream' = stream
      BY <1>4, <2>4 DEF Emit
    <3> QED
      BY <1>0, <2>1, <2>2, <2>4, <3>1 DEF CaughtUp, Follows
  <2> QED
    BY <2>3, <2>4
<1>5. ASSUME NEW m \in stream, Deliver(m) PROVE Rest
  <2>1. /\ First(m) /\ stream' = stream \ {m} /\ UNCHANGED <<log, watching, online, stage>>
        /\ Base' # NoNode /\ Base'.rev = Rev(m)
        /\ Base'.val = log[Rev(m)] /\ listing' = Listed(Base'.val)
    BY <1>0, <1>5, NoRaces, DeliverFirst, DeliverTrue DEF Deliver, serverVars
  <2>2. Holds'
    BY <2>1 DEF Holds
  <2>3. Base # NoNode => Base.rev <= Rev(m)
    BY <1>0 DEF Rising
  <2>4. ASSUME NEW n \in stream', n.kind = "patch" PROVE Follows(n)'
    <3>1. n \in stream /\ m.no < n.no
      BY <1>0, <1>t, <2>1 DEF First, Typed, StreamTyped
    <3>2. Rev(m) <= n.rev /\ n.rev \in Nat \ {0}
      BY <1>0, <1>t, <2>4, <3>1 DEF Rising, Rev
    <3>3. CASE \E k \in stream : k.no < n.no /\ Rev(k) \in {n.rev - 1, n.rev}
      BY <2>1, <3>3 DEF Follows
    <3>4. CASE Base # NoNode /\ Base.rev \in {n.rev - 1, n.rev}
      <4>1. Rev(m) \in {n.rev - 1, n.rev}
        BY <1>t, <2>3, <3>2, <3>4
      <4> QED
        BY <2>1, <4>1 DEF Follows
    <3> QED
      BY <1>0, <2>4, <3>1, <3>3, <3>4 DEF Follows
  <2>5. \A r \in {Len(log) - 1, Len(log)} : Reaches(r) => Reaches(r)' \/ Reaches(Len(log))'
    <3> SUFFICES ASSUME NEW r \in {Len(log) - 1, Len(log)}, Reaches(r)
                 PROVE  Reaches(r)' \/ Reaches(Len(log))'
      OBVIOUS
    <3>1. CASE \E k \in stream : Rev(k) = r
      BY <2>1, <3>1 DEF Reaches
    <3>2. CASE Base # NoNode /\ Base.rev = r
      <4>1. Rev(m) = r \/ Rev(m) = Len(log)
        BY <1>t, <2>3, <3>2
      <4> QED
        BY <2>1, <4>1 DEF Reaches
    <3> QED
      BY <3>1, <3>2 DEF Reaches
  <2>6. CaughtUp'
    BY <1>0, <2>1, <2>5 DEF CaughtUp
  <2> QED
    BY <2>2, <2>4, <2>6
<1>6. CASE FetchAnswer
  <2> DEFINE answer == [no |-> sent, kind |-> "node", node |-> read]
  <2>1. /\ Base' = Base /\ UNCHANGED <<log, listing>> /\ read = Stored
        /\ stream' = stream \cup {answer}
    BY <1>0, <1>6, NoRaces, BaseStays DEF FetchAnswer, serverVars, clientVars, ReadLast
  <2>2. answer.kind = "node" /\ Rev(answer) = Len(log)
    BY <1>0, <2>1, StoredNode DEF Rev
  <2> HIDE DEF answer
  <2>3. ASSUME NEW m \in stream', m.kind = "patch" PROVE Follows(m)'
    <3>1. m \in stream
      BY <2>1, <2>2, <2>3
    <3> QED
      BY <1>0, <2>1, <2>3, <3>1 DEF Follows
  <2>4. CaughtUp'
    BY <2>1, <2>2 DEF CaughtUp, Reaches
  <2>5. Holds'
    BY <1>0, <2>1 DEF Holds
  <2> QED
    BY <1>1, <1>2, <2>3, <2>4, <2>5
<1>7. CASE Lose
  <2>1. /\ Base' = Base /\ UNCHANGED <<log, listing>> /\ online' = FALSE
        /\ \A m \in stream' : m.kind = "node"
    BY <1>7, BaseStays DEF Lose, serverVars, clientVars
  <2>2. \A m \in stream' : m.kind = "patch" => Follows(m)'
    BY <2>1
  <2>3. CaughtUp' /\ Holds'
    BY <1>0, <2>1 DEF CaughtUp, Holds
  <2> QED
    BY <1>1, <1>2, <2>2, <2>3
<1>8. CASE /\ ~\E o \in Ops : Write(o) \/ Emit(o)
           /\ ~(\E m \in stream : Deliver(m)) /\ ~FetchAnswer /\ ~Lose
  <2>1. /\ Base' = Base /\ UNCHANGED <<log, stream, listing>>
        /\ watching' /\ online' => watching /\ online
        /\ \A o \in Ops : stage[o] = "written" => stage'[o] = "written"
    BY <1>0, <1>8, OtherSteps
  <2>2. \A m \in stream' : m.kind = "patch" => Follows(m)'
    BY <1>0, <2>1 DEF Follows
  <2>3. CaughtUp'
    BY <1>0, <2>1 DEF CaughtUp, Reaches
  <2>4. Holds'
    BY <1>0, <2>1 DEF Holds
  <2> QED
    BY <1>1, <1>2, <2>2, <2>3, <2>4
<1> QED
  BY <1>1, <1>2, <1>3, <1>4, <1>5, <1>6, <1>7, <1>8

LEMMA AlwaysTruthful == Spec => []Inv
<1>1. Init => Inv
  <2> SUFFICES ASSUME Init PROVE Inv
    OBVIOUS
  <2>1. TakenAway
    BY FS_EmptySet DEF Init, TakenAway
  <2>2. Ordered /\ Truthful
    BY DEF Init, Ordered, Rising, ReadLast, Settled, Truthful, OneWriter, Under, CaughtUp, Holds, Base
  <2> QED
    BY <2>1, <2>2, TypedInit DEF Inv
<1>2. Inv /\ [Next]_vars => Inv'
  BY TypedStep, TakenAwayStep, OrderedStep, TruthfulStep DEF Inv
<1> QED
  BY <1>1, <1>2, PTL DEF Spec

(* Without the races a client's revision tells the truth: what it takes    *)
(* for the stored node under a revision is what was stored under it, so    *)
(* that a write that passes the revision check of tree/index.ts was made   *)
(* from what it replaces.                                                  *)
THEOREM RevisionsTellTheTruth == Spec => []RevMatchesContent
<1>1. Inv => RevMatchesContent
  BY DEF Inv, Truthful, Holds, RevMatchesContent
<1> QED
  BY <1>1, AlwaysTruthful, PTL

(* Once nothing is under way no prediction is left, and without the races  *)
(* the client shows the node as it is stored and lists it exactly if it    *)
(* belongs in the query, for any number of optimistic and foreign          *)
(* operations and any number of lost connections.                          *)
THEOREM Converging == Spec => []Convergence
<1>1. Inv => Convergence
  <2> SUFFICES ASSUME Inv, Quiet PROVE Convergence
    BY DEF Convergence
  <2>1. "resync" \notin races => pending = <<>>
    BY NothingPendingWhenQuiet DEF Inv
  <2>2. ASSUME races = {} PROVE shown = Stored /\ listing = Listed(Stored.val)
    <3>1. /\ Typed /\ CaughtUp /\ Holds /\ TakenAway /\ pending = <<>>
      BY <2>1, <2>2 DEF Inv, Truthful
    <3>2. watching /\ online /\ stream = {}
      BY <2>2, <3>1 DEF TakenAway, Quiet
    <3>3. ~\E o \in Ops : stage[o] = "written"
      BY DEF Quiet
    <3>4. Base # NoNode /\ Base.rev = Len(log) /\ Base = shown
      BY <3>1, <3>2, <3>3 DEF CaughtUp, Reaches, Base
    <3>5. Base.val = log[Len(log)] /\ listing = Listed(log[Len(log)])
      BY <3>1, <3>4 DEF Holds
    <3>6. Base \in Nodes /\ Stored \in Nodes
      BY <3>1, <3>4, BaseOf, StoredNode
    <3> QED
      BY <3>1, <3>4, <3>5, <3>6, StoredNode DEF Nodes
  <2> QED
    BY <2>1, <2>2 DEF Convergence
<1> QED
  BY <1>1, AlwaysTruthful, PTL
=============================================================================
