---------------------------- MODULE FsTreeProofs ----------------------------
(***************************************************************************)
(* For trees of any depth and width, any number of calls, failures and     *)
(* crashes: a path of the file system tree holds what was last set;        *)
(* between calls every node is in the form it should have; and a get finds *)
(* only what was there.                                                    *)
(*                                                                         *)
(* A step is one file operation of a longer plan, so the invariant says,   *)
(* for each place in set (AtSet) and in remove (AtRemove), which           *)
(* operations are left and what the files are like meanwhile. What holds   *)
(* whatever was interrupted: what the files of a path hold, the path may   *)
(* hold (Held), and what is left to write is the new content or a copy of  *)
(* what the path holds. The forms (Tidy) are promised only while nothing   *)
(* was interrupted: in the middle of a call one or two nodes are between   *)
(* forms (Loose, Rough), and all others are as between calls (Neat).       *)
(***************************************************************************)
EXTENDS FsTree, SequenceTheorems, TLAPS

(* What a set stores; what the running one writes; what can be left to do. *)
Contents == [id : Nat, rev : Nat]
New == [id |-> call.id, rev |-> call.expects + 1]

Names == {"mkdir", "rmdir", "write leaf", "write main", "unlink leaf", "unlink main",
          "promote", "place", "take", "climb"}
Steps ==
    [do : Names, path : Paths, data : Contents \cup {None}]
        \cup [do : {"mkdir", "climb"}, path : {Root}, data : {None}]

Typed ==
    /\ leaf \in [Paths -> Contents \cup {None}]
    /\ main \in [Paths -> Contents \cup {None}]
    /\ dirs \subseteq Paths
    /\ steps \in Seq(Steps)
    /\ call = NoCall \/ (call.op \in {"set", "remove"} /\ call.path \in Paths)
    /\ call.id \in Nat /\ call.expects \in Nat
    /\ calls \in Nat /\ call.id <= calls
    /\ interrupts \in Nat
    /\ may \in [Paths -> SUBSET (Contents \cup {None})]
    /\ \A p \in Paths : \A c \in may[p] \ {None} : c.id <= calls

(* Whatever is in a file of a path, in either form, the path may hold.     *)
Held ==
    \A p \in Paths :
        /\ leaf[p] \in may[p] \cup {None} /\ main[p] \in may[p] \cup {None}
        /\ Visible(p) \in may[p]

(* While a get has not found its node, all that its path may hold counts.  *)
GetHeld ==
    /\ get.at \in {"idle", "main", "leaf", "done"}
    /\ get.at # "idle" => get.path \in Paths
    /\ get.at \in {"main", "leaf"} => may[get.path] \subseteq get.may
    /\ ReadsWhatWasThere

-----------------------------------------------------------------------------
(* What makes an entry in the directory above.                             *)
Present(p) == leaf[p] # None \/ p \in dirs

(* Loose: in one form, the dir form if it has entries, but its directory   *)
(* may be there for nothing. Rough: without entries, and possibly in both  *)
(* forms. Neat: as between calls.                                          *)
Loose(p) ==
    /\ leaf[p] = None \/ main[p] = None
    /\ HasEntries(p) \/ main[p] # None => p \in dirs
    /\ HasEntries(p) => leaf[p] = None
Rough(p) == ~HasEntries(p) /\ (main[p] # None => p \in dirs)
Neat(p) == Loose(p) /\ (p \in dirs => HasEntries(p) \/ main[p] # None)

(* Whatever is there has all the directories above it.                     *)
Closed == \A p \in Paths : Present(p) => ToSet(Above[p]) \subseteq dirs

(* The tree is as between calls, but for the nodes named.                  *)
Tidy(loose, rough) ==
    /\ Closed
    /\ \A p \in Paths :
        /\ p \in loose => Loose(p)
        /\ p \in rough => Rough(p)
        /\ p \notin loose \cup rough => Neat(p)

(* What a set of p has to do from its j-th ancestor on ...                 *)
Todo(p, j) ==
    [i \in 1..Len(Above[p]) + 2 - j |->
        IF i + j - 1 <= Len(Above[p]) THEN Do("promote", Above[p][i + j - 1]) ELSE Do("place", p)]

(* ... when those before it are in dir form or no nodes ...                *)
Clear(p, j) == \A i \in 1..j - 1 : leaf[Above[p][i]] = None

(* ... and nothing of it has been written.                                 *)
Fresh(p) == \A c \in {leaf[p], main[p]} : c = None \/ c.id # call.id

(* Where a set is: about to look at its j-th ancestor or, after the last,  *)
(* at the node; promoting the j-th ancestor, whose content d it has read;  *)
(* placing the node in dir form, or in leaf form; or done.                 *)
Promotes(j) ==
    LET p == call.path IN
    /\ steps = Todo(p, j)
    /\ Fresh(p)
    /\ interrupts = 0 => Tidy({}, {}) /\ Clear(p, j)

Promoting(j, d) ==
    LET p == call.path
        a == Above[p][j] IN
    /\ Fresh(p) /\ d \in may[a] \ {None}
    /\ \/ /\ steps = <<Do("mkdir", a), File("write main", a, d), Do("unlink leaf", a)>> \o Todo(p, j + 1)
          /\ interrupts = 0 => Tidy({}, {}) /\ leaf[a] # None
       \/ /\ steps = <<File("write main", a, d), Do("unlink leaf", a)>> \o Todo(p, j + 1)
          /\ interrupts = 0 => Tidy({}, {a}) /\ a \in dirs
       \/ /\ steps = <<Do("unlink leaf", a)>> \o Todo(p, j + 1)
          /\ main[a] = d
          /\ interrupts = 0 => Tidy({}, {a}) /\ a \in dirs
    /\ interrupts = 0 => Clear(p, j)

PlacingDir ==
    LET p == call.path IN
    /\ \/ steps = <<Do("mkdir", p), File("write main", p, New), Do("unlink leaf", p)>>
       \/ steps = <<File("write main", p, New), Do("unlink leaf", p)>>
       \/ steps = <<Do("unlink leaf", p)>> /\ main[p] = New
    /\ interrupts = 0 => Tidy({}, {}) /\ HasEntries(p)

PlacingLeaf ==
    LET p == call.path IN
    \/ /\ steps = <<Do("mkdir", Parent(p)), File("write leaf", p, New),
                    Do("unlink main", p), Do("rmdir", p)>>
       /\ interrupts = 0 => Tidy({}, {}) /\ Clear(p, Len(Above[p]) + 1) /\ ~HasEntries(p)
    \/ /\ steps = <<File("write leaf", p, New), Do("unlink main", p), Do("rmdir", p)>>
       /\ interrupts = 0 => /\ Tidy({Parent(p)}, {}) /\ ~HasEntries(p)
                            /\ ToSet(Above[p]) \subseteq dirs
                            /\ Clear(p, Len(Above[p]) + 1)
    \/ /\ steps = <<Do("unlink main", p), Do("rmdir", p)>> /\ leaf[p] = New
       /\ interrupts = 0 => Tidy({}, {p})
    \/ /\ steps = <<Do("rmdir", p)>> /\ leaf[p] = New /\ main[p] = None
       /\ interrupts = 0 => Tidy({}, {p})

Placed ==
    LET p == call.path IN
    /\ steps = <<>>
    /\ \/ leaf[p] = New /\ main[p] = None
       \/ leaf[p] = None /\ main[p] = New
    /\ interrupts = 0 => Tidy({}, {})

AtSet ==
    \/ \E j \in 1..Len(Above[call.path]) + 1 : Promotes(j)
    \/ \E j \in 1..Len(Above[call.path]), d \in Contents : Promoting(j, d)
    \/ PlacingDir \/ PlacingLeaf \/ Placed

Setting == call.op = "set" /\ New \in may[call.path] /\ AtSet

(* Where a remove is: taking a file of the node; at an ancestor q, about   *)
(* to see if it is empty, removing its directory, or giving it the leaf    *)
(* form first, with the content d it has read; or done.                    *)
Gone == leaf[call.path] = None /\ main[call.path] = None

Taking ==
    LET p == call.path IN
    \/ /\ steps = <<Do("take", p)>>
       /\ interrupts = 0 => Tidy({}, {})
    \/ /\ steps = <<Do("unlink main", p), Do("rmdir", p), Do("climb", Parent(p))>>
       /\ interrupts = 0 => Tidy({}, {}) /\ main[p] # None
    \/ /\ steps = <<Do("unlink leaf", p), Do("rmdir", p), Do("climb", Parent(p))>>
       /\ main[p] = None
       /\ interrupts = 0 => Tidy({}, {})

Line == ToSet(Above[call.path])

Climbing ==
    \/ \E q \in Line \cup {Root} :
        /\ steps = <<Do("climb", q)>>
        /\ interrupts = 0 => Tidy({q}, {})
    \/ \E q \in Line \cup {call.path} :
        /\ steps = <<Do("rmdir", q), Do("climb", Parent(q))>>
        /\ main[q] = None
        /\ interrupts = 0 => Tidy({q, Parent(q)}, {})
    \/ \E q \in Line :
        /\ leaf[q] # None
        /\ steps = <<Do("unlink main", q), Do("rmdir", q), Do("climb", Parent(q))>>
        /\ interrupts = 0 => Tidy({}, {q}) 
    \/ \E q \in Line : \E d \in may[q] \ {None} :
        /\ steps = <<File("write leaf", q, d), Do("unlink main", q), Do("rmdir", q),
                     Do("climb", Parent(q))>>
        /\ interrupts = 0 => Tidy({}, {q}) /\ q \in dirs
    \/ steps = <<>> /\ (interrupts = 0 => Tidy({}, {}))

AtRemove == Taking \/ (Climbing /\ (interrupts = 0 => Gone))

Removing == call.op = "remove" /\ None \in may[call.path] /\ AtRemove

(* Between calls there is nothing left to do, and no node is between forms *)
(* unless a call was interrupted.                                          *)
Control ==
    \/ call = NoCall /\ steps = <<>> /\ (interrupts = 0 => Tidy({}, {}))
    \/ Setting
    \/ Removing

FsInv == Typed /\ Held /\ GetHeld /\ Control

-----------------------------------------------------------------------------
\* Sequences of known length

LEMMA Tuple1 == \A a : Head(<<a>>) = a /\ Tail(<<a>>) = <<>>
OBVIOUS

LEMMA Tuple2 == \A a, b : Head(<<a, b>>) = a /\ Tail(<<a, b>>) = <<b>>
OBVIOUS

LEMMA Tuple3 == \A a, b, c : Head(<<a, b, c>>) = a /\ Tail(<<a, b, c>>) = <<b, c>>
OBVIOUS

LEMMA HeadOfFour == \A a, b, c, d : Head(<<a, b, c, d>>) = a
OBVIOUS

LEMMA TailOfFour == \A a, b, c, d : Tail(<<a, b, c, d>>) = <<b, c, d>>
OBVIOUS

(* Doing the first of the steps that another one has been replaced by.     *)
LEMMA FirstOf ==
    ASSUME NEW S, NEW u \in Seq(S), NEW t \in Seq(S), u # <<>>
    PROVE  /\ u \o t \in Seq(S) /\ u \o t # <<>>
           /\ Head(u \o t) = Head(u) /\ Tail(u \o t) = Tail(u) \o t
<1>1. Len(u) \in Nat \ {0} /\ Len(t) \in Nat
    OBVIOUS
<1>2. /\ u \o t \in Seq(S) /\ Len(u \o t) = Len(u) + Len(t)
      /\ \A i \in 1..Len(u) + Len(t) : (u \o t)[i] = IF i <= Len(u) THEN u[i] ELSE t[i - Len(u)]
    BY ConcatProperties
<1>3. u \o t # <<>>
    BY <1>1, <1>2
<1>4. Head(u \o t) = Head(u)
    BY <1>1, <1>2, <1>3, HeadTailProperties
<1>5. Tail(u) \in Seq(S) /\ Len(Tail(u)) = Len(u) - 1 /\ \A i \in 1..Len(u) - 1 : Tail(u)[i] = u[i + 1]
    BY HeadTailProperties
<1>6. /\ Tail(u \o t) \in Seq(S) /\ Len(Tail(u \o t)) = Len(u) + Len(t) - 1
      /\ \A i \in 1..Len(u) + Len(t) - 1 : Tail(u \o t)[i] = (u \o t)[i + 1]
    BY <1>2, <1>3, HeadTailProperties
<1>7. /\ Tail(u) \o t \in Seq(S) /\ Len(Tail(u) \o t) = Len(u) + Len(t) - 1
      /\ \A i \in 1..Len(u) + Len(t) - 1 :
            (Tail(u) \o t)[i] = IF i <= Len(u) - 1 THEN Tail(u)[i] ELSE t[i - (Len(u) - 1)]
    <2> DEFINE v == Tail(u)
    <2>1. v \in Seq(S) /\ Len(v) = Len(u) - 1
        BY <1>5
    <2> HIDE DEF v
    <2>2. /\ v \o t \in Seq(S) /\ Len(v \o t) = Len(v) + Len(t)
          /\ \A i \in 1..Len(v) + Len(t) : (v \o t)[i] = IF i <= Len(v) THEN v[i] ELSE t[i - Len(v)]
        BY <2>1, ConcatProperties
    <2>3. Len(v) + Len(t) = Len(u) + Len(t) - 1
        BY <1>1, <2>1
    <2> QED
        BY <2>1, <2>2, <2>3 DEF v
<1>8. ASSUME NEW i \in 1..Len(u) + Len(t) - 1
      PROVE  Tail(u \o t)[i] = (Tail(u) \o t)[i]
    <2>1. Tail(u \o t)[i] = IF i + 1 <= Len(u) THEN u[i + 1] ELSE t[i + 1 - Len(u)]
        BY <1>1, <1>2, <1>6
    <2>2. (Tail(u) \o t)[i] = IF i <= Len(u) - 1 THEN u[i + 1] ELSE t[i - (Len(u) - 1)]
        BY <1>1, <1>5, <1>7
    <2>3. i - (Len(u) - 1) = i + 1 - Len(u)
        BY <1>1
    <2> QED
        BY <1>1, <2>1, <2>2, <2>3
<1>9. Tail(u \o t) = Tail(u) \o t
    BY <1>6, <1>7, <1>8, SeqEqual
<1> QED
    BY <1>2, <1>3, <1>4, <1>9

-----------------------------------------------------------------------------
\* Paths

LEMMA AboveTyped ==
    ASSUME NEW p \in Paths
    PROVE  Above[p] \in Seq(Paths) /\ DOMAIN Above[p] = 1..Len(Above[p]) /\ Len(Above[p]) \in Nat
BY FsAssumption

LEMMA AboveOf ==
    ASSUME NEW p \in Paths, NEW i \in 1..Len(Above[p])
    PROVE  /\ Above[p][i] \in Paths /\ Above[p][i] \in ToSet(Above[p])
           /\ Len(Above[Above[p][i]]) = i - 1
           /\ \A k \in 1..i - 1 : Above[Above[p][i]][k] = Above[p][k]
           /\ Above[p][i] # p
<1>1. Above[p] \in Seq(Paths) /\ DOMAIN Above[p] = 1..Len(Above[p]) /\ Len(Above[p]) \in Nat
    BY AboveTyped
<1>2. Above[p][i] \in Paths
    BY <1>1
<1>6. Above[p][i] \in ToSet(Above[p])
    BY <1>1 DEF ToSet
<1>3. Above[Above[p][i]] = SubSeq(Above[p], 1, i - 1)
    BY <1>1, FsAssumption
<1>4. Len(SubSeq(Above[p], 1, i - 1)) = i - 1
      /\ \A k \in 1..i - 1 : SubSeq(Above[p], 1, i - 1)[k] = Above[p][k]
    BY <1>1
<1>5. Above[p][i] # p
    BY <1>1, <1>3, <1>4
<1> QED
    BY <1>2, <1>3, <1>4, <1>5, <1>6

LEMMA ParentOf ==
    ASSUME NEW p \in Paths
    PROVE  \/ Parent(p) = Root /\ Above[p] = <<>> /\ ToSet(Above[p]) = {}
           \/ /\ Parent(p) \in Paths /\ Parent(p) = Above[p][Len(Above[p])]
              /\ ToSet(Above[p]) = ToSet(Above[Parent(p)]) \cup {Parent(p)}
<1>1. Above[p] \in Seq(Paths) /\ DOMAIN Above[p] = 1..Len(Above[p]) /\ Len(Above[p]) \in Nat
    BY AboveTyped
<1>2. CASE Above[p] = <<>>
    BY <1>2 DEF Parent, ToSet
<1>3. CASE Above[p] # <<>>
    <2> DEFINE n == Len(Above[p])
    <2>5. n \in 1..Len(Above[p])
        BY <1>1, <1>3
    <2>6. p # Root
        BY FsAssumption
    <2>1. n \in 1..Len(Above[p]) /\ Parent(p) = Above[p][n]
        BY <1>3, <2>5, <2>6 DEF Parent, Last
    <2>2. Parent(p) \in Paths /\ Len(Above[Parent(p)]) = n - 1
          /\ \A k \in 1..n - 1 : Above[Parent(p)][k] = Above[p][k]
        BY <2>1, AboveOf
    <2>3. DOMAIN Above[Parent(p)] = 1..n - 1
        BY <2>2
    <2>4. ToSet(Above[p]) = ToSet(Above[Parent(p)]) \cup {Parent(p)}
        <3>1. ASSUME NEW x \in ToSet(Above[p]) PROVE x \in ToSet(Above[Parent(p)]) \cup {Parent(p)}
            <4>1. PICK k \in 1..n : x = Above[p][k]
                BY <1>1 DEF ToSet
            <4>2. CASE k = n
                BY <2>1, <4>1, <4>2
            <4>3. CASE k # n
                <5>1. k \in 1..n - 1
                    BY <1>1, <4>1, <4>3
                <5>2. k \in DOMAIN Above[Parent(p)] /\ x = Above[Parent(p)][k]
                    BY <2>2, <2>3, <4>1, <5>1
                <5> QED
                    BY <5>2 DEF ToSet
            <4> QED
                BY <4>2, <4>3
        <3>2. ASSUME NEW x \in ToSet(Above[Parent(p)]) PROVE x \in ToSet(Above[p])
            <4>1. PICK k \in 1..n - 1 : x = Above[Parent(p)][k]
                BY <2>3 DEF ToSet
            <4>2. k \in DOMAIN Above[p] /\ x = Above[p][k]
                BY <1>1, <2>2, <4>1
            <4> QED
                BY <4>2 DEF ToSet
        <3>3. Parent(p) \in ToSet(Above[p])
            BY <1>1, <2>1 DEF ToSet
        <3> QED
            BY <3>1, <3>2, <3>3
    <2> QED
        BY <2>1, <2>2, <2>4
<1> QED
    BY <1>2, <1>3

(* The path of a node has no gaps: each ancestor has an entry on it.       *)
LEMMA LineOf ==
    ASSUME NEW p \in Paths
    PROVE  /\ p \notin ToSet(Above[p]) /\ Parent(p) # p
           /\ \A q \in ToSet(Above[p]) :
                /\ q \in Paths
                /\ Parent(q) \in ToSet(Above[p]) \cup {Root}
                /\ ToSet(Above[q]) \subseteq ToSet(Above[p])
                /\ \E c \in ToSet(Above[p]) \cup {p} : Parent(c) = q
<1>1. Above[p] \in Seq(Paths) /\ DOMAIN Above[p] = 1..Len(Above[p]) /\ Len(Above[p]) \in Nat
    BY AboveTyped
<1>2. p \notin ToSet(Above[p])
    <2>1. \A i \in 1..Len(Above[p]) : Above[p][i] # p
        BY AboveOf
    <2> QED
        BY <1>1, <2>1 DEF ToSet
<1>3. Parent(p) # p
    BY <1>2, ParentOf, FsAssumption
<1>4. ASSUME NEW q \in ToSet(Above[p])
      PROVE  /\ q \in Paths
             /\ Parent(q) \in ToSet(Above[p]) \cup {Root}
             /\ ToSet(Above[q]) \subseteq ToSet(Above[p])
             /\ \E c \in ToSet(Above[p]) \cup {p} : Parent(c) = q
    <2>1. PICK k \in 1..Len(Above[p]) : q = Above[p][k]
        BY <1>1 DEF ToSet
    <2>2. q \in Paths /\ Len(Above[q]) = k - 1 /\ \A i \in 1..k - 1 : Above[q][i] = Above[p][i]
        BY <2>1, AboveOf
    <2>3. ToSet(Above[q]) \subseteq ToSet(Above[p])
        <3>1. SUFFICES ASSUME NEW x \in ToSet(Above[q]) PROVE x \in ToSet(Above[p])
            OBVIOUS
        <3>2. PICK i \in 1..k - 1 : x = Above[q][i]
            BY <2>2 DEF ToSet
        <3>3. i \in DOMAIN Above[p] /\ x = Above[p][i]
            BY <1>1, <2>2, <3>2
        <3> QED
            BY <3>3 DEF ToSet
    <2>4. Parent(q) \in ToSet(Above[p]) \cup {Root}
        BY <2>2, <2>3, ParentOf
    <2>5. CASE k = Len(Above[p])
        <3>1. Parent(p) = q
            BY <1>1, <2>1, <2>5, ParentOf
        <3> QED
            BY <2>2, <2>3, <2>4, <3>1
    <2>6. CASE k # Len(Above[p])
        <3> DEFINE c == Above[p][k + 1]
        <3>1. k + 1 \in 1..Len(Above[p])
            BY <1>1, <2>6
        <3>2. /\ c \in Paths /\ c \in ToSet(Above[p]) /\ Len(Above[c]) = k
              /\ \A i \in 1..k : Above[c][i] = Above[p][i]
            BY <3>1, AboveOf
        <3>3. Above[c] # <<>> /\ Above[c][Len(Above[c])] = q
            BY <2>1, <3>2
        <3>4. Parent(c) = q
            BY <3>2, <3>3, ParentOf
        <3> QED
            BY <2>2, <2>3, <2>4, <3>2, <3>4
    <2> QED
        BY <2>5, <2>6
<1> QED
    BY <1>2, <1>3, <1>4
-----------------------------------------------------------------------------
\* Types

LEMMA NewTyped == Typed => New \in Contents
BY DEF Typed, New, Contents

LEMMA NoneTyped == None \notin Contents
BY FsAssumption DEF Contents

LEMMA RootIsNoPath == Root \notin Paths
BY FsAssumption

LEMMA FileTyped ==
    ASSUME NEW do \in Names, NEW p \in Paths, NEW d \in Contents \cup {None}
    PROVE  File(do, p, d) \in Steps /\ Do(do, p) \in Steps
BY DEF File, Do, Steps

LEMMA OnRootTyped == Do("climb", Root) \in Steps /\ Do("mkdir", Root) \in Steps
BY DEF File, Do, Steps, Names

LEMMA ClimbTyped ==
    ASSUME NEW p \in Paths
    PROVE  Do("climb", Parent(p)) \in Steps /\ Do("mkdir", Parent(p)) \in Steps
BY FileTyped, OnRootTyped, ParentOf DEF Names

LEMMA FourTyped ==
    ASSUME NEW S, NEW a \in S, NEW b \in S, NEW c \in S, NEW d \in S
    PROVE  <<>> \in Seq(S) /\ <<a>> \in Seq(S) /\ <<a, b>> \in Seq(S) /\ <<a, b, c>> \in Seq(S) /\ <<a, b, c, d>> \in Seq(S)
OBVIOUS

LEMMA FirstOfThree ==
    ASSUME NEW S
    PROVE  \A t \in Seq(S) : \A a, b, c \in S :
            Head(<<a, b, c>> \o t) = a /\ Tail(<<a, b, c>> \o t) = <<b, c>> \o t
<1> SUFFICES ASSUME NEW t \in Seq(S), NEW a \in S, NEW b \in S, NEW c \in S
             PROVE  Head(<<a, b, c>> \o t) = a /\ Tail(<<a, b, c>> \o t) = <<b, c>> \o t
    OBVIOUS
<1>1. <<a, b, c>> \in Seq(S) /\ <<a, b, c>> # <<>>
    OBVIOUS
<1> QED
    BY <1>1, Tuple3, FirstOf

LEMMA FirstOfTwo ==
    ASSUME NEW S
    PROVE  \A t \in Seq(S) : \A a, b \in S :
            Head(<<a, b>> \o t) = a /\ Tail(<<a, b>> \o t) = <<b>> \o t
<1> SUFFICES ASSUME NEW t \in Seq(S), NEW a \in S, NEW b \in S
             PROVE  Head(<<a, b>> \o t) = a /\ Tail(<<a, b>> \o t) = <<b>> \o t
    OBVIOUS
<1>1. <<a, b>> \in Seq(S) /\ <<a, b>> # <<>>
    OBVIOUS
<1> QED
    BY <1>1, Tuple2, FirstOf

LEMMA FirstOfOne ==
    ASSUME NEW S
    PROVE  \A t \in Seq(S) : \A a \in S : Head(<<a>> \o t) = a /\ Tail(<<a>> \o t) = t
<1> SUFFICES ASSUME NEW t \in Seq(S), NEW a \in S
             PROVE  Head(<<a>> \o t) = a /\ Tail(<<a>> \o t) = t
    OBVIOUS
<1>1. <<a>> \in Seq(S) /\ <<a>> # <<>> /\ <<>> \o t = t
    BY ConcatEmptySeq
<1> QED
    BY <1>1, Tuple1, FirstOf

LEMMA ExpandTyped ==
    ASSUME Typed, NEW s \in Steps, s.do = "place" => call.path \in Paths
    PROVE  Expand(s) \in Seq(Steps)
<1> DEFINE p == s.path
<1>1. s.do \in Names /\ (p \in Paths \/ (p = Root /\ s.do \in {"mkdir", "climb"}))
    BY DEF Steps, Names
<1>2. <<>> \in Seq(Steps)
    OBVIOUS
<1>3. \A q \in Paths : leaf[q] \in Contents \cup {None} /\ main[q] \in Contents \cup {None}
    BY DEF Typed
<1>4. CASE s.do = "promote"
    <2>1. Expand(s) = Promote(p) /\ p \in Paths
        BY <1>1, <1>4, RootIsNoPath DEF Expand
    <2>2. Do("mkdir", p) \in Steps /\ File("write main", p, leaf[p]) \in Steps
          /\ Do("unlink leaf", p) \in Steps
        BY <1>3, <2>1, FileTyped DEF Names
    <2>3. Promote(p) \in Seq(Steps)
        BY <1>2, <2>2, FourTyped DEF Promote
    <2> QED
        BY <2>1, <2>3
<1>5. CASE s.do = "place"
    <2>1. Expand(s) = Place(p) /\ p \in Paths
        BY <1>1, <1>5, RootIsNoPath DEF Expand
    <2>2. /\ Do("mkdir", p) \in Steps /\ File("write main", p, New) \in Steps
          /\ Do("unlink leaf", p) \in Steps /\ File("write leaf", p, New) \in Steps
          /\ Do("unlink main", p) \in Steps /\ Do("rmdir", p) \in Steps
        BY <1>3, <2>1, FileTyped, NewTyped DEF Names
    <2>3. Do("mkdir", Parent(p)) \in Steps
        BY <2>1, ClimbTyped
    <2>4. Place(p) \in Seq(Steps)
        BY <2>2, <2>3, FourTyped DEF Place, New
    <2> QED
        BY <2>1, <2>4
<1>6. CASE s.do = "take"
    <2>1. Expand(s) = Take(p) /\ p \in Paths
        BY <1>1, <1>6, RootIsNoPath DEF Expand
    <2>2. /\ Do("unlink main", p) \in Steps /\ Do("rmdir", p) \in Steps
          /\ Do("unlink leaf", p) \in Steps
        BY <1>3, <2>1, FileTyped DEF Names
    <2>3. Do("climb", Parent(p)) \in Steps
        BY <2>1, ClimbTyped
    <2>4. Take(p) \in Seq(Steps)
        BY <1>2, <2>2, <2>3, FourTyped DEF Take
    <2> QED
        BY <2>1, <2>4
<1>7. CASE s.do = "climb"
    <2>1. Expand(s) = Climb(p)
        BY <1>7 DEF Expand
    <2>2. CASE p = Root
        BY <1>2, <2>1, <2>2 DEF Climb
    <2>3. CASE p \in Paths
        <3>1. /\ Do("unlink main", p) \in Steps /\ Do("rmdir", p) \in Steps
              /\ File("write leaf", p, main[p]) \in Steps
            BY <1>3, <2>3, FileTyped DEF Names
        <3>2. Do("climb", Parent(p)) \in Steps
            BY <2>3, ClimbTyped
        <3>3. Climb(p) \in Seq(Steps)
            BY <1>2, <3>1, <3>2, FourTyped DEF Climb
        <3> QED
            BY <2>1, <3>3
    <2> QED
        BY <1>1, <2>2, <2>3
<1>8. CASE s.do \notin {"promote", "place", "take", "climb"}
    BY <1>2, <1>8 DEF Expand
<1> QED
    BY <1>4, <1>5, <1>6, <1>7, <1>8

LEMMA ApplyTyped ==
    ASSUME Typed, NEW s \in Steps, Apply(s)
    PROVE  /\ leaf' \in [Paths -> Contents \cup {None}]
           /\ main' \in [Paths -> Contents \cup {None}]
           /\ dirs' \subseteq Paths
<1>1. /\ leaf \in [Paths -> Contents \cup {None}] /\ main \in [Paths -> Contents \cup {None}]
      /\ dirs \subseteq Paths
    BY DEF Typed
<1>2. s.data \in Contents \cup {None}
    BY DEF Steps
<1>3. leaf' \in [Paths -> Contents \cup {None}]
    BY <1>1, <1>2 DEF Apply
<1>4. main' \in [Paths -> Contents \cup {None}]
    BY <1>1, <1>2 DEF Apply
<1>5. dirs' \subseteq Paths
    <2>1. s.path # Root => s.path \in Paths
        BY DEF Steps
    <2>2. s.path \in Paths => ToSet(Above[s.path]) \subseteq Paths
        BY LineOf
    <2> QED
        BY <1>1, <2>1, <2>2 DEF Apply
<1> QED
    BY <1>3, <1>4, <1>5

LEMMA StepTyped ==
    ASSUME Typed, Step, call # NoCall
    PROVE  Typed' /\ steps' \in Seq(Steps)
<1>1. steps # <<>> /\ Head(steps) \in Steps /\ Tail(steps) \in Seq(Steps)
    <2>1. steps # <<>> /\ steps \in Seq(Steps)
        BY DEF Step, Typed
    <2> QED
        BY <2>1, HeadTailProperties
<1>2. steps' \in Seq(Steps)
    <2>1. Expand(Head(steps)) \in Seq(Steps)
        BY <1>1, ExpandTyped DEF Typed
    <2>2. steps' = Expand(Head(steps)) \o Tail(steps)
        BY DEF Step
    <2> QED
        BY <1>1, <2>1, <2>2, ConcatProperties
<1>3. /\ leaf' \in [Paths -> Contents \cup {None}]
      /\ main' \in [Paths -> Contents \cup {None}]
      /\ dirs' \subseteq Paths
    BY <1>1, ApplyTyped DEF Step
<1>4. UNCHANGED <<call, calls, interrupts, may, get>>
    BY DEF Step
<1> QED
    BY <1>2, <1>3, <1>4 DEF Typed

-----------------------------------------------------------------------------
\* What the file operations do

LEMMA OneStep ==
    ASSUME Typed, Step, NEW s, Head(steps) = s
    PROVE  /\ steps' = Expand(s) \o Tail(steps) /\ Apply(s)
           /\ UNCHANGED <<call, calls, interrupts, may, get>>
           /\ s \in Steps /\ Tail(steps) \in Seq(Steps) /\ steps # <<>>
BY HeadTailProperties DEF Step, Typed

LEMMA FileStep ==
    ASSUME Typed, Step, NEW s, Head(steps) = s,
           s.do \notin {"promote", "place", "take", "climb"}
    PROVE  steps' = Tail(steps) /\ Apply(s) /\ UNCHANGED <<call, calls, interrupts, may, get>>
<1>1. Expand(s) = <<>>
    BY DEF Expand
<1> QED
    BY <1>1, OneStep, ConcatEmptySeq

LEMMA Mkdir ==
    ASSUME Typed, Step, NEW p, Head(steps) = Do("mkdir", p)
    PROVE  /\ steps' = Tail(steps) /\ UNCHANGED <<leaf, main, call, calls, interrupts, may, get>>
           /\ p = Root => dirs' = dirs
           /\ p # Root => dirs' = dirs \cup {p} \cup ToSet(Above[p])
<1> DEFINE s == Do("mkdir", p)
<1>1. s.do = "mkdir" /\ s.path = p
    BY DEF Do, File
<1> HIDE DEF s
<1>2. steps' = Tail(steps) /\ Apply(s) /\ UNCHANGED <<call, calls, interrupts, may, get>>
    BY <1>1, FileStep DEF s
<1> QED
    BY <1>1, <1>2 DEF Apply

LEMMA Rmdir ==
    ASSUME Typed, Step, NEW p, Head(steps) = Do("rmdir", p)
    PROVE  /\ steps' = Tail(steps) /\ UNCHANGED <<leaf, main, call, calls, interrupts, may, get>>
           /\ main[p] = None /\ ~HasEntries(p) => dirs' = dirs \ {p}
           /\ main[p] # None \/ HasEntries(p) => dirs' = dirs
<1> DEFINE s == Do("rmdir", p)
<1>1. s.do = "rmdir" /\ s.path = p
    BY DEF Do, File
<1> HIDE DEF s
<1>2. steps' = Tail(steps) /\ Apply(s) /\ UNCHANGED <<call, calls, interrupts, may, get>>
    BY <1>1, FileStep DEF s
<1>3. leaf' = leaf /\ main' = main
    BY <1>1, <1>2 DEF Apply
<1>4. dirs' = CASE main[p] = None /\ ~HasEntries(p) -> dirs \ {p} [] OTHER -> dirs
    BY <1>1, <1>2 DEF Apply
<1> QED
    BY <1>2, <1>3, <1>4

LEMMA LeafStep ==
    ASSUME Typed, Step, NEW do \in {"write leaf", "unlink leaf"}, NEW p, NEW d,
           Head(steps) = File(do, p, d)
    PROVE  /\ steps' = Tail(steps) /\ UNCHANGED <<main, dirs, call, calls, interrupts, may, get>>
           /\ leaf' = [leaf EXCEPT ![p] = d]
<1> DEFINE s == File(do, p, d)
<1>1. s.do = do /\ s.path = p /\ s.data = d
    BY DEF File
<1> HIDE DEF s
<1>2. steps' = Tail(steps) /\ Apply(s) /\ UNCHANGED <<call, calls, interrupts, may, get>>
    BY <1>1, FileStep DEF s
<1> QED
    BY <1>1, <1>2 DEF Apply

LEMMA MainStep ==
    ASSUME Typed, Step, NEW do \in {"write main", "unlink main"}, NEW p, NEW d,
           Head(steps) = File(do, p, d)
    PROVE  /\ steps' = Tail(steps) /\ UNCHANGED <<leaf, dirs, call, calls, interrupts, may, get>>
           /\ main' = [main EXCEPT ![p] = d]
<1> DEFINE s == File(do, p, d)
<1>1. s.do = do /\ s.path = p /\ s.data = d
    BY DEF File
<1> HIDE DEF s
<1>2. steps' = Tail(steps) /\ Apply(s) /\ UNCHANGED <<call, calls, interrupts, may, get>>
    BY <1>1, FileStep DEF s
<1> QED
    BY <1>1, <1>2 DEF Apply

LEMMA OtherStep ==
    ASSUME Typed, Step, NEW do \in {"promote", "place", "take", "climb"}, NEW p,
           Head(steps) = Do(do, p)
    PROVE  /\ steps' = Expand(Do(do, p)) \o Tail(steps)
           /\ UNCHANGED <<fileVars, call, calls, interrupts, may, get>>
<1> DEFINE s == Do(do, p)
<1>1. s.do = do
    BY DEF Do, File
<1> HIDE DEF s
<1>2. steps' = Expand(s) \o Tail(steps) /\ Apply(s)
      /\ UNCHANGED <<call, calls, interrupts, may, get>>
    BY OneStep DEF s
<1> QED
    BY <1>1, <1>2 DEF Apply, fileVars, s

-----------------------------------------------------------------------------
\* What a change at one path leaves as it was

LEMMA HeldAfter ==
    ASSUME Held, NEW p \in Paths, may' = may,
           \A q \in Paths \ {p} : leaf'[q] = leaf[q] /\ main'[q] = main[q],
           leaf'[p] \in may[p] \cup {None}, main'[p] \in may[p] \cup {None},
           Visible(p)' \in may[p]
    PROVE  Held'
<1>1. \A q \in Paths \ {p} : Visible(q)' = Visible(q)
    BY DEF Visible
<1> QED
    BY <1>1 DEF Held

LEMMA HeldUnchanged ==
    ASSUME Held, UNCHANGED <<leaf, main, may>>
    PROVE  Held'
BY DEF Held, Visible

LEMMA GetUnchanged ==
    ASSUME GetHeld, UNCHANGED <<may, get>>
    PROVE  GetHeld'
BY DEF GetHeld, ReadsWhatWasThere

(* Whoever has something below it has an entry.                            *)
LEMMA BelowIsEntered ==
    ASSUME Closed, NEW p \in Paths, NEW q \in Paths, Present(q), p \in ToSet(Above[q])
    PROVE  HasEntries(p)
<1>1. PICK c \in ToSet(Above[q]) \cup {q} : Parent(c) = p
    BY LineOf
<1>2. c \in Paths /\ Present(c)
    BY <1>1, LineOf DEF Closed, Present
<1> QED
    BY <1>1, <1>2 DEF HasEntries, Present

(* The directories above a path that has entries, or is there, are there.  *)
LEMMA LineIsThere ==
    ASSUME Closed, NEW p \in Paths, HasEntries(p)
    PROVE  ToSet(Above[p]) \cup {p} \subseteq dirs
<1>1. PICK q \in Paths : Parent(q) = p /\ Present(q)
    BY DEF HasEntries, Present
<1>2. ToSet(Above[q]) = ToSet(Above[p]) \cup {p}
    BY <1>1, ParentOf, RootIsNoPath
<1> QED
    BY <1>1, <1>2 DEF Closed

LEMMA EntriesUnchanged ==
    ASSUME \A q \in Paths : Present(q)' <=> Present(q)
    PROVE  \A x : HasEntries(x)' <=> HasEntries(x)
BY DEF HasEntries, Present

(* A change of content or form that leaves the path where it is.           *)
LEMMA ChangeAt ==
    ASSUME Closed, NEW p \in Paths,
           \A q \in Paths \ {p} :
                leaf'[q] = leaf[q] /\ main'[q] = main[q] /\ (q \in dirs' <=> q \in dirs),
           Present(p)' <=> Present(p),
           p \in dirs' \/ p \notin dirs \/ ~HasEntries(p),
           dirs \subseteq Paths
    PROVE  /\ Closed'
           /\ \A x : HasEntries(x)' <=> HasEntries(x)
           /\ \A q \in Paths \ {p} :
                (Loose(q)' <=> Loose(q)) /\ (Rough(q)' <=> Rough(q)) /\ (Neat(q)' <=> Neat(q))
<1>1. \A q \in Paths : Present(q)' <=> Present(q)
    BY DEF Present
<1>2. \A x : HasEntries(x)' <=> HasEntries(x)
    BY <1>1, EntriesUnchanged
<1>3. ASSUME NEW q \in Paths, Present(q)'
      PROVE  ToSet(Above[q]) \subseteq dirs'
    <2>1. Present(q) /\ ToSet(Above[q]) \subseteq dirs
        BY <1>1, <1>3 DEF Closed
    <2>2. p \in ToSet(Above[q]) => HasEntries(p)
        BY <2>1, BelowIsEntered
    <2> QED
        BY <2>1, <2>2
<1>4. Closed'
    BY <1>3 DEF Closed
<1>5. ASSUME NEW q \in Paths \ {p}
      PROVE  (Loose(q)' <=> Loose(q)) /\ (Rough(q)' <=> Rough(q)) /\ (Neat(q)' <=> Neat(q))
    BY <1>2 DEF Loose, Rough, Neat
<1> QED
    BY <1>2, <1>4, <1>5

(* A change by which the path may go: its parent may have lost its last    *)
(* entry.                                                                  *)
LEMMA GoneAt ==
    ASSUME Closed, NEW p \in Paths,
           \A q \in Paths \ {p} :
                leaf'[q] = leaf[q] /\ main'[q] = main[q] /\ (q \in dirs' <=> q \in dirs),
           Present(p)' => Present(p),
           p \in dirs' \/ p \notin dirs \/ ~HasEntries(p),
           dirs \subseteq Paths
    PROVE  /\ Closed'
           /\ \A x : HasEntries(x)' => HasEntries(x)
           /\ \A x : x # Parent(p) => (HasEntries(x)' <=> HasEntries(x))
           /\ \A q \in Paths \ {p} : Loose(q) => Loose(q)'
           /\ \A q \in Paths \ {p, Parent(p)} : Neat(q)' <=> Neat(q)
<1>1. /\ \A q \in Paths : Present(q)' => Present(q)
      /\ \A q \in Paths \ {p} : Present(q) => Present(q)'
    BY DEF Present
<1>2. \A x : HasEntries(x)' => HasEntries(x)
    BY <1>1 DEF HasEntries, Present
<1>3. \A x : x # Parent(p) => (HasEntries(x)' <=> HasEntries(x))
    BY <1>1 DEF HasEntries, Present
<1>4. ASSUME NEW q \in Paths, Present(q)'
      PROVE  ToSet(Above[q]) \subseteq dirs'
    <2>1. Present(q) /\ ToSet(Above[q]) \subseteq dirs
        BY <1>1, <1>4 DEF Closed
    <2>2. p \in ToSet(Above[q]) => HasEntries(p)
        BY <2>1, BelowIsEntered
    <2> QED
        BY <2>1, <2>2
<1>5. Closed'
    BY <1>4 DEF Closed
<1>6. \A q \in Paths \ {p} : Loose(q) => Loose(q)'
    BY <1>2 DEF Loose
<1>7. \A q \in Paths \ {p, Parent(p)} : Neat(q)' <=> Neat(q)
    BY <1>3 DEF Neat, Loose
<1> QED
    BY <1>2, <1>3, <1>5, <1>6, <1>7

LEMMA TidyUnchanged ==
    ASSUME NEW L, NEW R, UNCHANGED fileVars
    PROVE  Tidy(L, R)' <=> Tidy(L, R)
BY DEF Tidy, Closed, Present, Neat, Loose, Rough, HasEntries, fileVars

-----------------------------------------------------------------------------
\* set: the ancestors are promoted

LEMMA TodoOf ==
    ASSUME NEW p \in Paths, NEW j \in 1..Len(Above[p]) + 1
    PROVE  /\ Todo(p, j) \in Seq(Steps) /\ Todo(p, j) # <<>>
           /\ j <= Len(Above[p]) =>
                /\ Head(Todo(p, j)) = Do("promote", Above[p][j])
                /\ Tail(Todo(p, j)) = Todo(p, j + 1)
           /\ j = Len(Above[p]) + 1 => Todo(p, j) = <<Do("place", p)>>
<1> DEFINE n == Len(Above[p])
           T(k) == IF k <= n THEN Do("promote", Above[p][k]) ELSE Do("place", p)
<1>1. n \in Nat /\ j \in Nat \ {0} /\ j <= n + 1
    BY AboveTyped
<1>2. ASSUME NEW k \in 1..n + 1 PROVE T(k) \in Steps
    <2>1. CASE k <= n
        <3>1. Above[p][k] \in Paths
            BY <1>1, <2>1, AboveOf
        <3> QED
            BY <2>1, <3>1, FileTyped DEF Names
    <2>2. CASE ~(k <= n)
        BY <2>2, FileTyped DEF Names
    <2> QED
        BY <2>1, <2>2
<1>3. ASSUME NEW i \in 1..n + 2, NEW k \in 1..n + 2 - i
      PROVE  k + i - 1 \in 1..n + 1
    BY <1>1
<1> HIDE DEF n
<1>4. \A i \in 1..n + 2 : Todo(p, i) = [k \in 1..n + 2 - i |-> T(k + i - 1)]
    BY DEF Todo, n
<1> HIDE DEF T
<1>5. \A i \in 1..n + 2 :
        /\ Todo(p, i) \in Seq(Steps) /\ Len(Todo(p, i)) = n + 2 - i
        /\ \A k \in 1..n + 2 - i : Todo(p, i)[k] = T(k + i - 1)
    <2> SUFFICES ASSUME NEW i \in 1..n + 2
                 PROVE  /\ Todo(p, i) \in Seq(Steps) /\ Len(Todo(p, i)) = n + 2 - i
                        /\ \A k \in 1..n + 2 - i : Todo(p, i)[k] = T(k + i - 1)
        OBVIOUS
    <2>1. \A k \in 1..n + 2 - i : T(k + i - 1) \in Steps
        BY <1>2, <1>3
    <2>2. n + 2 - i \in Nat
        BY <1>1
    <2> QED
        BY <1>4, <2>1, <2>2
<1>6. Todo(p, j) # <<>>
    BY <1>1, <1>5
<1>7. ASSUME j <= n
      PROVE  Head(Todo(p, j)) = T(j) /\ Tail(Todo(p, j)) = Todo(p, j + 1)
    <2>1. Head(Todo(p, j)) = T(j)
        <3>1. Head(Todo(p, j)) = Todo(p, j)[1]
            BY <1>1, <1>5, <1>6, HeadTailProperties
        <3>4. 1 \in 1..n + 2 - j /\ j \in 1..n + 2
            BY <1>1, <1>7
        <3>2. Todo(p, j)[1] = T(1 + j - 1)
            BY <1>5, <3>4
        <3>3. 1 + j - 1 = j
            BY <1>1
        <3> QED
            BY <3>1, <3>2, <3>3
    <2>2. /\ Tail(Todo(p, j)) \in Seq(Steps) /\ Len(Tail(Todo(p, j))) = n + 1 - j
          /\ \A k \in 1..n + 1 - j : Tail(Todo(p, j))[k] = Todo(p, j)[k + 1]
        BY <1>1, <1>5, <1>6, HeadTailProperties
    <2>3. /\ Todo(p, j + 1) \in Seq(Steps) /\ Len(Todo(p, j + 1)) = n + 1 - j
          /\ \A k \in 1..n + 1 - j : Todo(p, j + 1)[k] = T(k + j)
        <3>1. j + 1 \in 1..n + 2 /\ n + 2 - (j + 1) = n + 1 - j
            BY <1>1
        <3>2. /\ Todo(p, j + 1) \in Seq(Steps) /\ Len(Todo(p, j + 1)) = n + 1 - j
              /\ \A k \in 1..n + 1 - j : Todo(p, j + 1)[k] = T(k + (j + 1) - 1)
            BY <1>5, <3>1
        <3>3. \A k \in 1..n + 1 - j : k + (j + 1) - 1 = k + j
            BY <1>1
        <3> QED
            BY <3>2, <3>3
    <2>4. ASSUME NEW k \in 1..n + 1 - j PROVE Todo(p, j)[k + 1] = T(k + j)
        <3>1. k + 1 \in 1..n + 2 - j /\ (k + 1) + j - 1 = k + j
            BY <1>1
        <3>2. Todo(p, j)[k + 1] = T((k + 1) + j - 1)
            BY <1>1, <1>5, <3>1
        <3> QED
            BY <3>1, <3>2
    <2> QED
        BY <2>1, <2>2, <2>3, <2>4, SeqEqual
<1>8. ASSUME j = n + 1
      PROVE  Todo(p, j) = <<Do("place", p)>>
    <2>1. Todo(p, j) = [k \in 1..1 |-> T(k + n)]
        BY <1>1, <1>4, <1>8
    <2>2. \A k \in 1..1 : T(k + n) = Do("place", p)
        BY <1>1 DEF T
    <2>3. Todo(p, j) = [k \in 1..1 |-> Do("place", p)]
        BY <2>1, <2>2
    <2> QED
        BY <2>3
<1> QED
    BY <1>1, <1>5, <1>6, <1>7, <1>8 DEF n, T

(* What a set has to do when it starts.                                    *)
LEMMA WholeTodo ==
    ASSUME NEW p \in Paths
    PROVE  [i \in DOMAIN Above[p] |-> Do("promote", Above[p][i])] \o <<Do("place", p)>> = Todo(p, 1)
<1> DEFINE n == Len(Above[p])
           u == [i \in DOMAIN Above[p] |-> Do("promote", Above[p][i])]
           v == <<Do("place", p)>>
<1>1. n \in Nat /\ DOMAIN Above[p] = 1..n
    BY AboveTyped
<1>2. u \in Seq(Steps) /\ Len(u) = n /\ \A i \in 1..n : u[i] = Do("promote", Above[p][i])
    <2>1. \A i \in 1..n : Do("promote", Above[p][i]) \in Steps
        BY AboveOf, FileTyped DEF Names
    <2> QED
        BY <1>1, <2>1
<1>3. v \in Seq(Steps) /\ Len(v) = 1 /\ v[1] = Do("place", p)
    <2>1. Do("place", p) \in Steps
        BY FileTyped DEF Names
    <2> QED
        BY <2>1
<1>6. Todo(p, 1) = [i \in 1..n + 1 |-> IF i <= n THEN Do("promote", Above[p][i]) ELSE Do("place", p)]
    BY <1>1 DEF Todo
<1> HIDE DEF u, v, n
<1>4. /\ u \o v \in Seq(Steps) /\ Len(u \o v) = n + 1
      /\ \A i \in 1..n + 1 : (u \o v)[i] = IF i <= n THEN u[i] ELSE v[i - n]
    <2>1. /\ u \o v \in Seq(Steps) /\ Len(u \o v) = Len(u) + Len(v)
          /\ \A i \in 1..Len(u) + Len(v) : (u \o v)[i] = IF i <= Len(u) THEN u[i] ELSE v[i - Len(u)]
        BY <1>2, <1>3, ConcatProperties
    <2>2. Len(u) = n /\ Len(v) = 1
        BY <1>2, <1>3
    <2> QED
        BY <2>1, <2>2
<1>5. \A i \in 1..n + 1 : (u \o v)[i] = IF i <= n THEN Do("promote", Above[p][i]) ELSE Do("place", p)
    <2> SUFFICES ASSUME NEW i \in 1..n + 1
                 PROVE  (u \o v)[i] = IF i <= n THEN Do("promote", Above[p][i]) ELSE Do("place", p)
        OBVIOUS
    <2>1. CASE i <= n
        BY <1>1, <1>2, <1>4, <2>1
    <2>2. CASE ~(i <= n)
        <3>1. i = n + 1 /\ i - n = 1
            BY <1>1, <2>2
        <3> QED
            BY <1>3, <1>4, <2>2, <3>1
    <2> QED
        BY <2>1, <2>2
<1>7. /\ Todo(p, 1) \in Seq(Steps) /\ Len(Todo(p, 1)) = n + 1
      /\ \A i \in 1..n + 1 : Todo(p, 1)[i] = (u \o v)[i]
    <2>1. Todo(p, 1) \in Seq(Steps)
        BY <1>1, TodoOf DEF n
    <2>2. Len(Todo(p, 1)) = n + 1
        BY <1>1, <1>6
    <2>3. \A i \in 1..n + 1 :
            Todo(p, 1)[i] = IF i <= n THEN Do("promote", Above[p][i]) ELSE Do("place", p)
        BY <1>6
    <2> QED
        BY <1>5, <2>1, <2>2, <2>3
<1>8. u \o v = Todo(p, 1)
    BY <1>4, <1>7, SeqEqual
<1> QED
    BY <1>8 DEF u, v

-----------------------------------------------------------------------------
\* set, step by step

LEMMA SetOn ==
    ASSUME FsInv, call.op = "set"
    PROVE  /\ call # NoCall /\ call.path \in Paths
           /\ New \in Contents /\ New # None /\ New \in may[call.path]
<1>1. call # NoCall
    BY DEF NoCall
<1>2. New \in may[call.path]
    BY <1>1 DEF FsInv, Control, Setting, Removing
<1> QED
    BY <1>1, <1>2, NewTyped, NoneTyped DEF FsInv, Typed

LEMMA PromotesStep ==
    ASSUME FsInv, Step, call.op = "set", NEW p \in Paths, call.path = p,
           NEW j \in 1..Len(Above[p]) + 1, Promotes(j)
    PROVE  Held' /\ AtSet'
<1> DEFINE n == Len(Above[p])
           a == Above[p][j]
<1>1. n \in Nat /\ steps = Todo(p, j) /\ Typed /\ Held /\ call # NoCall
      /\ Fresh(p) /\ (interrupts = 0 => Tidy({}, {}) /\ Clear(p, j))
    BY AboveTyped, SetOn DEF FsInv, Promotes
<1>2. CASE j <= n
    <2>1. a \in Paths
        BY <1>1, <1>2, AboveOf
    <2>2. Head(steps) = Do("promote", a) /\ Tail(steps) = Todo(p, j + 1)
        BY <1>1, <1>2, TodoOf
    <2>3. j + 1 \in 1..n + 1 /\ j \in 1..n
        BY <1>1, <1>2
    <2>4. Todo(p, j + 1) \in Seq(Steps)
        BY <2>3, TodoOf
    <2>5. /\ steps' = Promote(a) \o Todo(p, j + 1)
          /\ UNCHANGED <<fileVars, call, calls, interrupts, may, get>>
        <3>1. /\ steps' = Expand(Do("promote", a)) \o Tail(steps)
              /\ UNCHANGED <<fileVars, call, calls, interrupts, may, get>>
            BY <1>1, <2>2, OtherStep
        <3>2. Expand(Do("promote", a)) = Promote(a)
            BY DEF Expand, Do, File
        <3> QED
            BY <2>2, <3>1, <3>2
    <2>6. Held'
        BY <1>1, <2>5, HeldUnchanged DEF fileVars
    <2>7. interrupts' = 0 => Tidy({}, {})' /\ Clear(p, j)'
        BY <1>1, <2>5, TidyUnchanged DEF Clear, fileVars
    <2>8. Fresh(p)'
        BY <1>1, <2>5 DEF Fresh, fileVars
    <2>9. CASE leaf[a] = None
        <3>1. steps' = Todo(p, j + 1)
            BY <2>4, <2>5, <2>9, ConcatEmptySeq DEF Promote
        <3>2. interrupts' = 0 => Clear(p, j + 1)'
            <4>1. ASSUME interrupts' = 0, NEW i \in 1..(j + 1) - 1
                  PROVE  leaf'[Above[p][i]] = None
                <5>1. i = j \/ i \in 1..j - 1
                    BY <1>1
                <5>2. leaf' = leaf
                    BY <2>5 DEF fileVars
                <5> QED
                    BY <2>7, <2>9, <4>1, <5>1, <5>2 DEF Clear
            <4> QED
                BY <4>1 DEF Clear
        <3>3. Promotes(j + 1)'
            BY <2>5, <2>7, <2>8, <3>1, <3>2 DEF Promotes
        <3> QED
            BY <2>3, <2>5, <2>6, <3>3 DEF AtSet
    <2>10. CASE leaf[a] # None
        <3>1. PICK d \in Contents : d = leaf[a] /\ d \in may[a] \ {None}
            BY <1>1, <2>1, <2>10 DEF Held, Typed
        <3>2. steps' = <<Do("mkdir", a), File("write main", a, d), Do("unlink leaf", a)>> \o Todo(p, j + 1)
            BY <2>5, <2>10, <3>1 DEF Promote
        <3>3. interrupts' = 0 => leaf'[a] # None
            BY <2>5, <2>10 DEF fileVars
        <3>4. Promoting(j, d)'
            BY <2>5, <2>7, <2>8, <3>1, <3>2, <3>3 DEF Promoting
        <3> QED
            BY <2>3, <2>5, <2>6, <3>1, <3>4 DEF AtSet
    <2> QED
        BY <2>9, <2>10
<1>3. CASE j = n + 1
    <2>1. steps = <<Do("place", p)>>
        BY <1>1, <1>3, TodoOf
    <2>2. Head(steps) = Do("place", p) /\ Tail(steps) = <<>>
        BY <2>1, Tuple1
    <2>3. /\ steps' = Expand(Do("place", p)) \o Tail(steps)
          /\ UNCHANGED <<fileVars, call, calls, interrupts, may, get>>
        BY <1>1, <2>2, OtherStep
    <2>4. Expand(Do("place", p)) = Place(p)
        BY DEF Expand, Do, File
    <2>5. Place(p) \in Seq(Steps)
        <3>1. Do("place", p) \in Steps
            BY FileTyped DEF Names
        <3> QED
            BY <1>1, <2>4, <3>1, ExpandTyped
    <2>6. steps' = Place(p)
        BY <2>2, <2>3, <2>4, <2>5, ConcatEmptySeq
    <2>7. Held'
        BY <1>1, <2>3, HeldUnchanged DEF fileVars
    <2>8. interrupts' = 0 => Tidy({}, {})' /\ Clear(p, n + 1)'
        BY <1>1, <1>3, <2>3, TidyUnchanged DEF Clear, fileVars
    <2>9. (HasEntries(p)' <=> HasEntries(p)) /\ New' = New
        BY <2>3 DEF HasEntries, fileVars, New
    <2>10. CASE HasEntries(p)
        <3>1. steps' = <<Do("mkdir", p), File("write main", p, New), Do("unlink leaf", p)>>
            BY <2>6, <2>10 DEF Place, New
        <3>2. PlacingDir'
            BY <2>3, <2>8, <2>9, <2>10, <3>1 DEF PlacingDir
        <3> QED
            BY <2>3, <2>7, <3>2 DEF AtSet
    <2>11. CASE ~HasEntries(p)
        <3>1. steps' = <<Do("mkdir", Parent(p)), File("write leaf", p, New),
                         Do("unlink main", p), Do("rmdir", p)>>
            BY <2>6, <2>11 DEF Place, New
        <3>2. PlacingLeaf'
            BY <2>3, <2>8, <2>9, <2>11, <3>1 DEF PlacingLeaf
        <3> QED
            BY <2>3, <2>7, <3>2 DEF AtSet
    <2> QED
        BY <2>10, <2>11
<1> QED
    BY <1>1, <1>2, <1>3

LEMMA PromotingStep ==
    ASSUME FsInv, Step, call.op = "set", NEW p \in Paths, call.path = p,
           NEW j \in 1..Len(Above[p]), NEW d \in Contents, Promoting(j, d)
    PROVE  Held' /\ AtSet'
<1> DEFINE n == Len(Above[p])
           a == Above[p][j]
           T == Todo(p, j + 1)
<1>1. /\ n \in Nat /\ Typed /\ Held /\ call # NoCall
      /\ Fresh(p) /\ d \in may[a] \ {None} /\ (interrupts = 0 => Clear(p, j))
    BY AboveTyped, SetOn DEF FsInv, Promoting
<1>2. a \in Paths /\ a # p
    BY AboveOf
<1>3. j + 1 \in 1..n + 1 /\ T \in Seq(Steps)
    <2>1. j + 1 \in 1..n + 1
        BY <1>1
    <2> QED
        BY <2>1, TodoOf
<1>4. /\ Do("mkdir", a) \in Steps /\ File("write main", a, d) \in Steps /\ Do("unlink leaf", a) \in Steps
    BY <1>2, FileTyped DEF Names
<1> HIDE DEF T
<1>5. leaf \in [Paths -> Contents \cup {None}] /\ main \in [Paths -> Contents \cup {None}]
      /\ dirs \subseteq Paths
    BY <1>1 DEF Typed
<1>6. ASSUME steps = <<Do("mkdir", a), File("write main", a, d), Do("unlink leaf", a)>> \o T,
             interrupts = 0 => Tidy({}, {}) /\ leaf[a] # None
      PROVE  Held' /\ AtSet'
    <2>1. Head(steps) = Do("mkdir", a) /\ Tail(steps) = <<File("write main", a, d), Do("unlink leaf", a)>> \o T
        <3>1. \A x, y, z \in Steps :
                Head(<<x, y, z>> \o T) = x /\ Tail(<<x, y, z>> \o T) = <<y, z>> \o T
            BY <1>3, FirstOfThree
        <3> DEFINE A == Do("mkdir", a)
                   B == File("write main", a, d)
                   C == Do("unlink leaf", a)
        <3>2. A \in Steps /\ B \in Steps /\ C \in Steps /\ steps = <<A, B, C>> \o T
            BY <1>4, <1>6
        <3> HIDE DEF A, B, C
        <3>3. Head(steps) = A /\ Tail(steps) = <<B, C>> \o T
            BY <3>1, <3>2
        <3> QED
            BY <3>3 DEF A, B, C
    <2>2. /\ steps' = <<File("write main", a, d), Do("unlink leaf", a)>> \o T
          /\ UNCHANGED <<leaf, main, call, calls, interrupts, may, get>>
          /\ dirs' = dirs \cup {a} \cup ToSet(Above[a])
        BY <1>1, <1>2, <2>1, Mkdir, RootIsNoPath
    <2>3. Held'
        BY <1>1, <2>2, HeldUnchanged
    <2>4. ASSUME interrupts = 0
          PROVE  Tidy({}, {a})' /\ a \in dirs'
        <3>1. Closed /\ Present(a) /\ ToSet(Above[a]) \subseteq dirs /\ Neat(a) /\ \A q \in Paths : Neat(q)
            BY <1>2, <1>6, <2>4 DEF Tidy, Closed, Present
        <3>2. dirs' = dirs \cup {a}
            BY <2>2, <3>1
        <3>3. Present(a)'
            BY <3>2 DEF Present
        <3>4. /\ Closed' /\ (HasEntries(a)' <=> HasEntries(a))
              /\ \A q \in Paths \ {a} : Neat(q)' <=> Neat(q)
            BY <1>2, <1>5, <2>2, <3>1, <3>2, <3>3, ChangeAt
        <3>5. Rough(a)'
            BY <1>6, <2>2, <2>4, <3>1, <3>2, <3>4 DEF Neat, Loose, Rough
        <3> QED
            BY <3>1, <3>2, <3>4, <3>5 DEF Tidy
    <2>5. Fresh(p)' /\ (interrupts' = 0 => Clear(p, j)')
        BY <1>1, <2>2 DEF Fresh, Clear
    <2>6. Promoting(j, d)'
        BY <1>1, <2>2, <2>4, <2>5 DEF Promoting, T
    <2> QED
        BY <2>2, <2>3, <2>6 DEF AtSet
<1>7. ASSUME steps = <<File("write main", a, d), Do("unlink leaf", a)>> \o T,
             interrupts = 0 => Tidy({}, {a}) /\ a \in dirs
      PROVE  Held' /\ AtSet'
    <2>1. Head(steps) = File("write main", a, d) /\ Tail(steps) = <<Do("unlink leaf", a)>> \o T
        <3>1. \A x, y \in Steps : Head(<<x, y>> \o T) = x /\ Tail(<<x, y>> \o T) = <<y>> \o T
            BY <1>3, FirstOfTwo
        <3> QED
            BY <1>4, <1>7, <3>1
    <2>2. /\ steps' = <<Do("unlink leaf", a)>> \o T
          /\ UNCHANGED <<leaf, dirs, call, calls, interrupts, may, get>>
          /\ main' = [main EXCEPT ![a] = d]
        BY <1>1, <1>2, <2>1, MainStep
    <2>3. main'[a] = d /\ \A q \in Paths \ {a} : main'[q] = main[q]
        BY <1>2, <1>5, <2>2
    <2>4. Held'
        <3>1. leaf[a] \in may[a] \cup {None} /\ Visible(a)' = d
            BY <1>1, <1>2, <2>2, <2>3 DEF Held, Visible
        <3> QED
            BY <1>1, <1>2, <2>2, <2>3, <3>1, HeldAfter
    <2>5. ASSUME interrupts = 0
          PROVE  Tidy({}, {a})' /\ a \in dirs'
        <3>1. Closed /\ Rough(a) /\ a \in dirs /\ \A q \in Paths \ {a} : Neat(q)
            BY <1>2, <1>7, <2>5 DEF Tidy
        <3>2. Present(a)' <=> Present(a)
            BY <2>2 DEF Present
        <3>3. /\ Closed' /\ (HasEntries(a)' <=> HasEntries(a))
              /\ \A q \in Paths \ {a} : Neat(q)' <=> Neat(q)
            BY <1>2, <1>5, <2>2, <2>3, <3>1, <3>2, ChangeAt
        <3>4. Rough(a)'
            BY <2>2, <3>1, <3>3 DEF Rough
        <3> QED
            BY <2>2, <3>1, <3>3, <3>4 DEF Tidy
    <2>6. Fresh(p)' /\ (interrupts' = 0 => Clear(p, j)')
        BY <1>1, <1>2, <2>2, <2>3 DEF Fresh, Clear
    <2>7. Promoting(j, d)'
        BY <1>1, <2>2, <2>3, <2>5, <2>6 DEF Promoting, T
    <2> QED
        BY <2>2, <2>4, <2>7 DEF AtSet
<1>8. ASSUME steps = <<Do("unlink leaf", a)>> \o T, main[a] = d,
             interrupts = 0 => Tidy({}, {a}) /\ a \in dirs
      PROVE  Held' /\ AtSet'
    <2>1. Head(steps) = Do("unlink leaf", a) /\ Tail(steps) = T
        <3>1. \A x \in Steps : Head(<<x>> \o T) = x /\ Tail(<<x>> \o T) = T
            BY <1>3, FirstOfOne
        <3> QED
            BY <1>4, <1>8, <3>1
    <2>2. /\ steps' = T
          /\ UNCHANGED <<main, dirs, call, calls, interrupts, may, get>>
          /\ leaf' = [leaf EXCEPT ![a] = None]
        BY <1>1, <1>2, <2>1, LeafStep DEF Do
    <2>3. leaf'[a] = None /\ \A q \in Paths \ {a} : leaf'[q] = leaf[q]
        BY <1>2, <1>5, <2>2
    <2>4. Held'
        <3>1. Visible(a)' = d
            BY <1>1, <1>8, <2>2 DEF Visible
        <3> QED
            BY <1>1, <1>2, <1>8, <2>2, <2>3, <3>1, HeldAfter
    <2>5. ASSUME interrupts = 0
          PROVE  Tidy({}, {})' /\ Clear(p, j + 1)'
        <3>1. Closed /\ Rough(a) /\ a \in dirs /\ \A q \in Paths \ {a} : Neat(q)
            BY <1>2, <1>8, <2>5 DEF Tidy
        <3>2. Present(a)' <=> Present(a)
            BY <2>2, <3>1 DEF Present
        <3>3. /\ Closed' /\ (HasEntries(a)' <=> HasEntries(a))
              /\ \A q \in Paths \ {a} : Neat(q)' <=> Neat(q)
            BY <1>2, <1>5, <2>2, <2>3, <3>1, <3>2, ChangeAt
        <3>4. Neat(a)'
            BY <1>1, <1>8, <2>2, <2>3, <3>1, <3>3 DEF Rough, Neat, Loose
        <3>5. Clear(p, j + 1)'
            <4>1. ASSUME NEW i \in 1..(j + 1) - 1
                  PROVE  leaf'[Above[p][i]] = None
                <5>1. CASE Above[p][i] = a
                    BY <2>3, <5>1
                <5>2. CASE Above[p][i] # a
                    <6>1. i \in 1..j - 1 /\ i \in 1..n
                        BY <1>1, <5>2
                    <6>2. Above[p][i] \in Paths
                        BY <6>1, AboveOf
                    <6> QED
                        BY <1>1, <2>3, <2>5, <5>2, <6>1, <6>2 DEF Clear
                <5> QED
                    BY <5>1, <5>2
            <4> QED
                BY <4>1 DEF Clear
        <3> QED
            BY <2>2, <3>1, <3>3, <3>4, <3>5 DEF Tidy
    <2>6. Fresh(p)'
        BY <1>1, <1>2, <2>2, <2>3 DEF Fresh
    <2>7. Promotes(j + 1)'
        BY <2>2, <2>5, <2>6 DEF Promotes, T
    <2> QED
        BY <1>3, <2>2, <2>4, <2>7 DEF AtSet
<1> QED
    BY <1>6, <1>7, <1>8 DEF Promoting, T

LEMMA PlacingDirStep ==
    ASSUME FsInv, Step, call.op = "set", NEW p \in Paths, call.path = p, PlacingDir
    PROVE  Held' /\ AtSet'
<1> DEFINE Last3 == <<Do("mkdir", p), File("write main", p, New), Do("unlink leaf", p)>>
           Last2 == <<File("write main", p, New), Do("unlink leaf", p)>>
           Last1 == <<Do("unlink leaf", p)>>
<1>1. /\ Typed /\ Held /\ call # NoCall /\ New \in Contents /\ New # None /\ New \in may[p]
      /\ (interrupts = 0 => Tidy({}, {}) /\ HasEntries(p))
    BY SetOn DEF FsInv, PlacingDir
<1>2. leaf \in [Paths -> Contents \cup {None}] /\ main \in [Paths -> Contents \cup {None}]
      /\ dirs \subseteq Paths /\ UNCHANGED <<call, interrupts, may>>
    BY <1>1 DEF Typed, Step
<1>3. New' = New
    BY <1>2 DEF New
<1>4. ASSUME interrupts = 0
      PROVE  /\ Closed /\ (\A q \in Paths : Neat(q)) /\ HasEntries(p) /\ leaf[p] = None
             /\ p \in dirs /\ ToSet(Above[p]) \subseteq dirs
    <2>1. Closed /\ (\A q \in Paths : Neat(q)) /\ HasEntries(p)
        BY <1>1, <1>4 DEF Tidy
    <2> QED
        BY <2>1, LineIsThere DEF Neat, Loose
<1>5. ASSUME \A q \in Paths \ {p} : leaf'[q] = leaf[q] /\ main'[q] = main[q],
             interrupts = 0 => leaf'[p] = None /\ dirs' = dirs
      PROVE  interrupts' = 0 => Tidy({}, {})' /\ HasEntries(p)'
    <2> SUFFICES ASSUME interrupts = 0 PROVE Tidy({}, {})' /\ HasEntries(p)'
        BY <1>2
    <2>1. Present(p)' <=> Present(p)
        BY <1>4, <1>5 DEF Present
    <2>2. /\ Closed' /\ (HasEntries(p)' <=> HasEntries(p))
          /\ \A q \in Paths \ {p} : Neat(q)' <=> Neat(q)
        BY <1>2, <1>4, <1>5, <2>1, ChangeAt
    <2>3. Neat(p)'
        BY <1>4, <1>5, <2>2 DEF Neat, Loose
    <2> QED
        BY <1>4, <2>2, <2>3 DEF Tidy
<1>6. CASE steps = Last3
    <2>1. Head(steps) = Do("mkdir", p) /\ Tail(steps) = Last2
        BY <1>6, Tuple3
    <2>2. /\ steps' = Last2 /\ UNCHANGED <<leaf, main>>
          /\ dirs' = dirs \cup {p} \cup ToSet(Above[p])
        BY <1>1, <2>1, Mkdir, RootIsNoPath
    <2>3. Held'
        BY <1>1, <1>2, <2>2, HeldUnchanged
    <2>4. interrupts = 0 => leaf'[p] = None /\ dirs' = dirs
        BY <1>4, <2>2
    <2>5. interrupts' = 0 => Tidy({}, {})' /\ HasEntries(p)'
        BY <1>5, <2>2, <2>4
    <2>6. PlacingDir'
        BY <1>2, <1>3, <2>2, <2>5 DEF PlacingDir
    <2> QED
        BY <2>3, <2>6 DEF AtSet
<1>7. CASE steps = Last2
    <2>1. Head(steps) = File("write main", p, New) /\ Tail(steps) = Last1
        BY <1>7, Tuple2
    <2>2. steps' = Last1 /\ UNCHANGED <<leaf, dirs>> /\ main' = [main EXCEPT ![p] = New]
        BY <1>1, <2>1, MainStep
    <2>3. main'[p] = New /\ \A q \in Paths \ {p} : main'[q] = main[q]
        BY <1>2, <2>2
    <2>4. Held'
        <3>1. leaf[p] \in may[p] \cup {None} /\ Visible(p)' = New
            BY <1>1, <2>2, <2>3 DEF Held, Visible
        <3> QED
            BY <1>1, <1>2, <2>2, <2>3, <3>1, HeldAfter
    <2>5. interrupts' = 0 => Tidy({}, {})' /\ HasEntries(p)'
        BY <1>4, <1>5, <2>2, <2>3
    <2>6. PlacingDir'
        BY <1>2, <1>3, <2>2, <2>3, <2>5 DEF PlacingDir
    <2> QED
        BY <2>4, <2>6 DEF AtSet
<1>8. CASE steps = Last1 /\ main[p] = New
    <2>1. Head(steps) = Do("unlink leaf", p) /\ Tail(steps) = <<>>
        BY <1>8, Tuple1
    <2>2. steps' = <<>> /\ UNCHANGED <<main, dirs>> /\ leaf' = [leaf EXCEPT ![p] = None]
        BY <1>1, <2>1, LeafStep DEF Do
    <2>3. leaf'[p] = None /\ \A q \in Paths \ {p} : leaf'[q] = leaf[q]
        BY <1>2, <2>2
    <2>4. Held'
        <3>1. Visible(p)' = New
            BY <1>1, <1>8, <2>2 DEF Visible
        <3> QED
            BY <1>1, <1>2, <1>8, <2>2, <2>3, <3>1, HeldAfter
    <2>5. interrupts' = 0 => Tidy({}, {})' /\ HasEntries(p)'
        BY <1>5, <2>2, <2>3
    <2>6. Placed'
        BY <1>2, <1>3, <1>8, <2>2, <2>3, <2>5 DEF Placed
    <2> QED
        BY <2>4, <2>6 DEF AtSet
<1> QED
    BY <1>6, <1>7, <1>8 DEF PlacingDir

LEMMA ClearLine ==
    ASSUME NEW p \in Paths, Clear(p, Len(Above[p]) + 1)
    PROVE  \A q \in ToSet(Above[p]) : leaf[q] = None
<1> SUFFICES ASSUME NEW q \in ToSet(Above[p]) PROVE leaf[q] = None
    OBVIOUS
<1>1. DOMAIN Above[p] = 1..Len(Above[p]) /\ Len(Above[p]) \in Nat
    BY AboveTyped
<1>2. PICK i \in 1..Len(Above[p]) : q = Above[p][i]
    BY <1>1 DEF ToSet
<1>3. i \in 1..(Len(Above[p]) + 1) - 1
    BY <1>1
<1> QED
    BY <1>2, <1>3 DEF Clear

(* Leaf form: the directories above the node are made ...                  *)
LEMMA LineMade ==
    ASSUME Tidy({}, {}), NEW p \in Paths, Clear(p, Len(Above[p]) + 1), ~HasEntries(p),
           UNCHANGED <<leaf, main>>, dirs' = dirs \cup ToSet(Above[p])
    PROVE  Tidy({Parent(p)}, {})' /\ ~HasEntries(p)' /\ ToSet(Above[p]) \subseteq dirs'
<1> DEFINE line == ToSet(Above[p])
<1>1. Closed /\ (\A q \in Paths : Neat(q)) /\ \A q \in line : leaf[q] = None
    BY ClearLine DEF Tidy
<1>2. \A q : Present(q)' <=> Present(q) \/ q \in line
    BY DEF Present
<1>3. ASSUME NEW q \in Paths, Present(q)'
      PROVE  ToSet(Above[q]) \subseteq dirs'
    BY <1>1, <1>2, <1>3, LineOf DEF Closed
<1>4. \A x : HasEntries(x)' <=> HasEntries(x) \/ \E c \in line : Parent(c) = x
    <2>1. line \subseteq Paths
        BY LineOf
    <2> QED
        BY <1>2, <2>1 DEF HasEntries, Present
<1>5. \A x \in Paths \ line : HasEntries(x)' <=> HasEntries(x)
    BY <1>4, LineOf, RootIsNoPath
<1>6. ~HasEntries(p)'
    BY <1>5, LineOf
<1>7. ASSUME NEW q \in Paths \ line
      PROVE  Neat(q)'
    <2>1. Neat(q) /\ (HasEntries(q)' <=> HasEntries(q)) /\ (q \in dirs' <=> q \in dirs)
        BY <1>1, <1>5
    <2> QED
        BY <2>1 DEF Neat, Loose
<1>8. ASSUME NEW q \in line
      PROVE  Loose(q)' /\ (q # Parent(p) => Neat(q)')
    <2>1. leaf'[q] = None /\ q \in dirs'
        BY <1>1
    <2>2. Loose(q)'
        BY <2>1 DEF Loose
    <2>3. ASSUME q # Parent(p) PROVE HasEntries(q)'
        <3>1. PICK c \in line \cup {p} : Parent(c) = q
            BY LineOf
        <3> QED
            BY <1>4, <2>3, <3>1
    <2> QED
        BY <2>2, <2>3 DEF Neat
<1>9. \A q \in Paths : (q = Parent(p) => Loose(q)') /\ (q # Parent(p) => Neat(q)')
    BY <1>7, <1>8 DEF Neat
<1>10. Closed'
    BY <1>3 DEF Closed
<1> QED
    BY <1>6, <1>9, <1>10 DEF Tidy

(* ... and the file is written, which gives its parent an entry.           *)
LEMMA LeafWritten ==
    ASSUME NEW p \in Paths, Tidy({Parent(p)}, {}), Clear(p, Len(Above[p]) + 1), ~HasEntries(p),
           ToSet(Above[p]) \subseteq dirs, UNCHANGED <<main, dirs>>,
           leaf'[p] # None, \A q \in Paths \ {p} : leaf'[q] = leaf[q]
    PROVE  Tidy({}, {p})'
<1>1. /\ Closed /\ (\A q \in Paths \ {Parent(p)} : Neat(q))
      /\ \A q \in ToSet(Above[p]) : leaf[q] = None
    BY ClearLine DEF Tidy
<1>2. \A q \in Paths : Present(q)' <=> Present(q) \/ q = p
    BY DEF Present
<1>3. Closed'
    BY <1>1, <1>2 DEF Closed
<1>4. \A x : HasEntries(x)' <=> HasEntries(x) \/ x = Parent(p)
    BY <1>2 DEF HasEntries, Present
<1>5. Rough(p)'
    <2>1. p # Parent(p) /\ Neat(p) /\ ~HasEntries(p)'
        BY <1>1, <1>4, LineOf
    <2> QED
        BY <2>1 DEF Neat, Loose, Rough
<1>6. ASSUME NEW q \in Paths \ {p}
      PROVE  Neat(q)'
    <2>1. CASE q = Parent(p)
        <3>1. q \in ToSet(Above[p])
            BY <2>1, ParentOf, RootIsNoPath
        <3>2. leaf'[q] = None /\ q \in dirs' /\ HasEntries(q)'
            BY <1>1, <1>4, <2>1, <3>1
        <3> QED
            BY <3>2 DEF Neat, Loose
    <2>2. CASE q # Parent(p)
        BY <1>1, <1>4, <2>2 DEF Neat, Loose
    <2> QED
        BY <2>1, <2>2
<1> QED
    BY <1>3, <1>5, <1>6 DEF Tidy

LEMMA LeafFormSteps ==
    ASSUME NEW p, NEW q,
           steps = <<Do("mkdir", q), File("write leaf", p, New), Do("unlink main", p), Do("rmdir", p)>>
    PROVE  /\ Head(steps) = Do("mkdir", q)
           /\ Tail(steps) = <<File("write leaf", p, New), Do("unlink main", p), Do("rmdir", p)>>
<1>1. Head(steps) = Do("mkdir", q)
    BY HeadOfFour
<1>2. Tail(steps) = <<File("write leaf", p, New), Do("unlink main", p), Do("rmdir", p)>>
    BY TailOfFour
<1> QED
    BY <1>1, <1>2

LEMMA PlacingLeafStep ==
    ASSUME FsInv, Step, call.op = "set", NEW p \in Paths, call.path = p, PlacingLeaf
    PROVE  Held' /\ AtSet'
<1> DEFINE L3 == <<File("write leaf", p, New), Do("unlink main", p), Do("rmdir", p)>>
           L2 == <<Do("unlink main", p), Do("rmdir", p)>>
           L1 == <<Do("rmdir", p)>>
<1>1. /\ Typed /\ Held /\ call # NoCall /\ New \in Contents /\ New # None /\ New \in may[p]
    BY SetOn DEF FsInv
<1>2. leaf \in [Paths -> Contents \cup {None}] /\ main \in [Paths -> Contents \cup {None}]
      /\ dirs \subseteq Paths /\ UNCHANGED <<call, interrupts, may>>
    BY <1>1 DEF Typed, Step
<1>3. New' = New
    BY <1>2 DEF New
<1>4. ASSUME steps = <<Do("mkdir", Parent(p)), File("write leaf", p, New),
                       Do("unlink main", p), Do("rmdir", p)>>,
             interrupts = 0 => Tidy({}, {}) /\ Clear(p, Len(Above[p]) + 1) /\ ~HasEntries(p)
      PROVE  Held' /\ AtSet'
    <2>1. Head(steps) = Do("mkdir", Parent(p)) /\ Tail(steps) = L3
        BY <1>4, LeafFormSteps
    <2>2. /\ steps' = L3 /\ UNCHANGED <<leaf, main>>
          /\ Parent(p) = Root => dirs' = dirs
          /\ Parent(p) # Root => dirs' = dirs \cup {Parent(p)} \cup ToSet(Above[Parent(p)])
        BY <1>1, <2>1, Mkdir
    <2>3. dirs' = dirs \cup ToSet(Above[p])
        BY <2>2, ParentOf, RootIsNoPath
    <2>4. Held'
        BY <1>1, <1>2, <2>2, HeldUnchanged
    <2>5. ASSUME interrupts' = 0
          PROVE  /\ Tidy({Parent(p)}, {})' /\ ~HasEntries(p)'
                 /\ ToSet(Above[p]) \subseteq dirs' /\ Clear(p, Len(Above[p]) + 1)'
        <3>1. Tidy({Parent(p)}, {})' /\ ~HasEntries(p)' /\ ToSet(Above[p]) \subseteq dirs'
            BY <1>2, <1>4, <2>2, <2>3, <2>5, LineMade
        <3> QED
            BY <1>2, <1>4, <2>2, <2>5, <3>1 DEF Clear
    <2>6. PlacingLeaf'
        BY <1>2, <1>3, <2>2, <2>5 DEF PlacingLeaf
    <2> QED
        BY <2>4, <2>6 DEF AtSet
<1>5. ASSUME steps = L3,
             interrupts = 0 => /\ Tidy({Parent(p)}, {}) /\ ~HasEntries(p)
                               /\ ToSet(Above[p]) \subseteq dirs
                               /\ Clear(p, Len(Above[p]) + 1)
      PROVE  Held' /\ AtSet'
    <2>1. Head(steps) = File("write leaf", p, New) /\ Tail(steps) = L2
        BY <1>5, Tuple3
    <2>2. steps' = L2 /\ UNCHANGED <<main, dirs>> /\ leaf' = [leaf EXCEPT ![p] = New]
        BY <1>1, <2>1, LeafStep
    <2>3. leaf'[p] = New /\ \A q \in Paths \ {p} : leaf'[q] = leaf[q]
        BY <1>2, <2>2
    <2>4. Held'
        <3>1. main[p] \in may[p] \cup {None} /\ Visible(p)' \in may[p]
            BY <1>1, <2>2, <2>3 DEF Held, Visible
        <3> QED
            BY <1>1, <1>2, <2>2, <2>3, <3>1, HeldAfter
    <2>5. interrupts' = 0 => Tidy({}, {p})'
        BY <1>1, <1>2, <1>5, <2>2, <2>3, LeafWritten
    <2>6. PlacingLeaf'
        BY <1>2, <1>3, <2>2, <2>3, <2>5 DEF PlacingLeaf
    <2> QED
        BY <2>4, <2>6 DEF AtSet
<1>6. ASSUME steps = L2, leaf[p] = New, interrupts = 0 => Tidy({}, {p})
      PROVE  Held' /\ AtSet'
    <2>1. Head(steps) = Do("unlink main", p) /\ Tail(steps) = L1
        BY <1>6, Tuple2
    <2>2. steps' = L1 /\ UNCHANGED <<leaf, dirs>> /\ main' = [main EXCEPT ![p] = None]
        BY <1>1, <2>1, MainStep DEF Do
    <2>3. main'[p] = None /\ \A q \in Paths \ {p} : main'[q] = main[q]
        BY <1>2, <2>2
    <2>4. Held'
        <3>1. Visible(p)' = New
            BY <1>6, <2>2, <2>3 DEF Visible
        <3> QED
            BY <1>1, <1>2, <1>6, <2>2, <2>3, <3>1, HeldAfter
    <2>5. ASSUME interrupts' = 0 PROVE Tidy({}, {p})'
        <3>1. Closed /\ Rough(p) /\ \A q \in Paths \ {p} : Neat(q)
            BY <1>2, <1>6, <2>5 DEF Tidy
        <3>2. Present(p)' <=> Present(p)
            BY <2>2 DEF Present
        <3>3. /\ Closed' /\ (HasEntries(p)' <=> HasEntries(p))
              /\ \A q \in Paths \ {p} : Neat(q)' <=> Neat(q)
            BY <1>2, <2>2, <2>3, <3>1, <3>2, ChangeAt
        <3>4. Rough(p)'
            BY <2>3, <3>1, <3>3 DEF Rough
        <3> QED
            BY <3>1, <3>3, <3>4 DEF Tidy
    <2>6. PlacingLeaf'
        BY <1>2, <1>3, <1>6, <2>2, <2>3, <2>5 DEF PlacingLeaf
    <2> QED
        BY <2>4, <2>6 DEF AtSet
<1>7. ASSUME steps = L1, leaf[p] = New, main[p] = None, interrupts = 0 => Tidy({}, {p})
      PROVE  Held' /\ AtSet'
    <2>1. Head(steps) = Do("rmdir", p) /\ Tail(steps) = <<>>
        BY <1>7, Tuple1
    <2>2. /\ steps' = <<>> /\ UNCHANGED <<leaf, main>>
          /\ ~HasEntries(p) => dirs' = dirs \ {p}
        BY <1>1, <1>7, <2>1, Rmdir
    <2>3. Held'
        BY <1>1, <1>2, <2>2, HeldUnchanged
    <2>4. ASSUME interrupts' = 0 PROVE Tidy({}, {})'
        <3>1. Closed /\ Rough(p) /\ \A q \in Paths \ {p} : Neat(q)
            BY <1>2, <1>7, <2>4 DEF Tidy
        <3>2. dirs' = dirs \ {p} /\ ~HasEntries(p)
            BY <2>2, <3>1 DEF Rough
        <3>3. Present(p)' <=> Present(p)
            BY <1>1, <1>7, <2>2 DEF Present
        <3>4. /\ Closed' /\ (HasEntries(p)' <=> HasEntries(p))
              /\ \A q \in Paths \ {p} : Neat(q)' <=> Neat(q)
            BY <1>2, <2>2, <3>1, <3>2, <3>3, ChangeAt
        <3>5. Neat(p)'
            BY <1>7, <2>2, <3>2, <3>4 DEF Neat, Loose
        <3> QED
            BY <3>1, <3>4, <3>5 DEF Tidy
    <2>5. Placed'
        BY <1>2, <1>3, <1>7, <2>2, <2>4 DEF Placed
    <2> QED
        BY <2>3, <2>5 DEF AtSet
<1> QED
    BY <1>4, <1>5, <1>6, <1>7 DEF PlacingLeaf

LEMMA SettingStep ==
    ASSUME FsInv, Step, Setting
    PROVE  Held' /\ Setting'
<1> DEFINE p == call.path
<1>1. p \in Paths /\ New \in may[p] /\ call.op = "set"
    BY SetOn DEF Setting
<1>2. UNCHANGED <<call, may>> /\ steps # <<>>
    BY DEF Step
<1>3. Held' /\ AtSet'
    <2>1. CASE \E j \in 1..Len(Above[p]) + 1 : Promotes(j)
        BY <1>1, <2>1, PromotesStep
    <2>2. CASE \E j \in 1..Len(Above[p]), d \in Contents : Promoting(j, d)
        BY <1>1, <2>2, PromotingStep
    <2>3. CASE PlacingDir
        BY <1>1, <2>3, PlacingDirStep
    <2>4. CASE PlacingLeaf
        BY <1>1, <2>4, PlacingLeafStep
    <2>5. ~Placed
        BY <1>2 DEF Placed
    <2> QED
        BY <2>1, <2>2, <2>3, <2>4, <2>5 DEF Setting, AtSet
<1> QED
    BY <1>1, <1>2, <1>3 DEF Setting, New

-----------------------------------------------------------------------------
\* remove, step by step

LEMMA RemoveOn == FsInv /\ call.op = "remove" => Typed /\ Held /\ call # NoCall /\ call.path \in Paths
BY DEF FsInv, Typed, NoCall

LEMMA ThreeSteps ==
    ASSUME NEW p, NEW q, NEW r
    PROVE  /\ steps = <<Do("unlink main", p), Do("rmdir", q), Do("climb", r)>> =>
                Head(steps) = Do("unlink main", p) /\ Tail(steps) = <<Do("rmdir", q), Do("climb", r)>>
           /\ steps = <<Do("unlink leaf", p), Do("rmdir", q), Do("climb", r)>> =>
                Head(steps) = Do("unlink leaf", p) /\ Tail(steps) = <<Do("rmdir", q), Do("climb", r)>>
BY Tuple3

LEMMA FourSteps ==
    ASSUME NEW p, NEW q, NEW r, NEW d,
           steps = <<File("write leaf", p, d), Do("unlink main", p), Do("rmdir", q), Do("climb", r)>>
    PROVE  /\ Head(steps) = File("write leaf", p, d)
           /\ Tail(steps) = <<Do("unlink main", p), Do("rmdir", q), Do("climb", r)>>
<1>1. Head(steps) = File("write leaf", p, d)
    BY HeadOfFour
<1>2. Tail(steps) = <<Do("unlink main", p), Do("rmdir", q), Do("climb", r)>>
    BY TailOfFour
<1> QED
    BY <1>1, <1>2

LEMMA ExpandedLast ==
    ASSUME Typed, Step, call # NoCall, NEW do \in {"take", "climb"}, NEW p, steps = <<Do(do, p)>>
    PROVE  /\ steps' = Expand(Do(do, p))
           /\ UNCHANGED <<fileVars, call, calls, interrupts, may, get>>
<1>1. Head(steps) = Do(do, p) /\ Tail(steps) = <<>>
    BY Tuple1
<1>2. /\ steps' = Expand(Do(do, p)) \o Tail(steps)
      /\ UNCHANGED <<fileVars, call, calls, interrupts, may, get>>
    BY <1>1, OtherStep
<1>3. Do(do, p) \in Steps /\ Do(do, p).do # "place"
    BY <1>1, OneStep DEF Do, File
<1>4. Expand(Do(do, p)) \in Seq(Steps)
    BY <1>3, ExpandTyped
<1> QED
    BY <1>1, <1>2, <1>4, ConcatEmptySeq

LEMMA TakingStep ==
    ASSUME FsInv, Step, call.op = "remove", NEW p \in Paths, call.path = p, None \in may[p], Taking
    PROVE  Held' /\ AtRemove'
<1>1. Typed /\ Held /\ call # NoCall
    BY DEF FsInv, NoCall
<1>2. leaf \in [Paths -> Contents \cup {None}] /\ main \in [Paths -> Contents \cup {None}]
      /\ dirs \subseteq Paths /\ UNCHANGED <<call, interrupts, may>>
    BY <1>1 DEF Typed, Step
<1>3. ASSUME steps = <<Do("take", p)>>, interrupts = 0 => Tidy({}, {})
      PROVE  Held' /\ AtRemove'
    <2>1. steps' = Take(p) /\ UNCHANGED fileVars
        <3>1. Expand(Do("take", p)) = Take(p)
            BY DEF Expand, Do, File
        <3> QED
            BY <1>1, <1>3, <3>1, ExpandedLast
    <2>2. Held'
        BY <1>1, <1>2, <2>1, HeldUnchanged DEF fileVars
    <2>3. interrupts' = 0 => Tidy({}, {})'
        BY <1>2, <1>3, <2>1, TidyUnchanged
    <2>4. CASE main[p] # None
        <3>1. steps' = <<Do("unlink main", p), Do("rmdir", p), Do("climb", Parent(p))>> /\ main'[p] # None
            BY <2>1, <2>4 DEF Take, fileVars
        <3>2. Taking'
            BY <1>2, <2>3, <3>1 DEF Taking
        <3> QED
            BY <2>2, <3>2 DEF AtRemove
    <2>5. CASE main[p] = None /\ leaf[p] # None
        <3>1. steps' = <<Do("unlink leaf", p), Do("rmdir", p), Do("climb", Parent(p))>> /\ main'[p] = None
            BY <2>1, <2>5 DEF Take, fileVars
        <3>2. Taking'
            BY <1>2, <2>3, <3>1 DEF Taking
        <3> QED
            BY <2>2, <3>2 DEF AtRemove
    <2>6. CASE main[p] = None /\ leaf[p] = None
        <3>1. steps' = <<>> /\ main'[p] = None /\ leaf'[p] = None
            BY <2>1, <2>6 DEF Take, fileVars
        <3>2. Climbing' /\ Gone'
            BY <1>2, <2>3, <3>1 DEF Climbing, Gone
        <3> QED
            BY <2>2, <3>2 DEF AtRemove
    <2> QED
        BY <2>4, <2>5, <2>6
<1>4. ASSUME steps = <<Do("unlink main", p), Do("rmdir", p), Do("climb", Parent(p))>>,
             interrupts = 0 => Tidy({}, {}) /\ main[p] # None
      PROVE  Held' /\ AtRemove'
    <2>1. Head(steps) = Do("unlink main", p) /\ Tail(steps) = <<Do("rmdir", p), Do("climb", Parent(p))>>
        BY <1>4, ThreeSteps, ZenonT(30)
    <2>2. /\ steps' = <<Do("rmdir", p), Do("climb", Parent(p))>>
          /\ UNCHANGED <<leaf, dirs>> /\ main' = [main EXCEPT ![p] = None]
        BY <1>1, <2>1, MainStep DEF Do
    <2>3. main'[p] = None /\ \A q \in Paths \ {p} : main'[q] = main[q]
        BY <1>2, <2>2
    <2>4. Held'
        <3>1. leaf[p] \in may[p] \cup {None} /\ Visible(p)' = leaf[p]
            BY <1>1, <2>2, <2>3 DEF Held, Visible
        <3> QED
            BY <1>1, <1>2, <2>2, <2>3, <3>1, HeldAfter
    <2>5. ASSUME interrupts' = 0 PROVE Tidy({p, Parent(p)}, {})' /\ Gone'
        <3>1. Closed /\ (\A q \in Paths : Neat(q)) /\ main[p] # None
            BY <1>2, <1>4, <2>5 DEF Tidy
        <3>2. Present(p)' <=> Present(p)
            BY <2>2 DEF Present
        <3>3. /\ Closed' /\ (HasEntries(p)' <=> HasEntries(p))
              /\ \A q \in Paths \ {p} : Neat(q)' <=> Neat(q)
            BY <1>2, <2>2, <2>3, <3>1, <3>2, ChangeAt
        <3>4. Loose(p)' /\ leaf[p] = None
            BY <2>2, <2>3, <3>1, <3>3 DEF Neat, Loose
        <3>5. \A q \in Paths \ {p} : Neat(q)' /\ Loose(q)'
            BY <3>1, <3>3 DEF Neat
        <3>6. Tidy({p, Parent(p)}, {})'
            BY <3>3, <3>4, <3>5 DEF Tidy
        <3> QED
            BY <1>2, <2>2, <2>3, <3>4, <3>6 DEF Gone
    <2>6. Climbing'
        BY <1>2, <2>2, <2>3, <2>5 DEF Climbing
    <2> QED
        BY <2>4, <2>5, <2>6 DEF AtRemove
<1>5. ASSUME steps = <<Do("unlink leaf", p), Do("rmdir", p), Do("climb", Parent(p))>>,
             main[p] = None, interrupts = 0 => Tidy({}, {})
      PROVE  Held' /\ AtRemove'
    <2>1. Head(steps) = Do("unlink leaf", p) /\ Tail(steps) = <<Do("rmdir", p), Do("climb", Parent(p))>>
        BY <1>5, ThreeSteps, ZenonT(30)
    <2>2. /\ steps' = <<Do("rmdir", p), Do("climb", Parent(p))>>
          /\ UNCHANGED <<main, dirs>> /\ leaf' = [leaf EXCEPT ![p] = None]
        BY <1>1, <2>1, LeafStep DEF Do
    <2>3. leaf'[p] = None /\ \A q \in Paths \ {p} : leaf'[q] = leaf[q]
        BY <1>2, <2>2
    <2>4. Held'
        <3>1. Visible(p)' = None
            BY <1>5, <2>2, <2>3 DEF Visible
        <3> QED
            BY <1>1, <1>2, <1>5, <2>2, <2>3, <3>1, HeldAfter
    <2>5. ASSUME interrupts' = 0 PROVE Tidy({p, Parent(p)}, {})'
        <3>1. Closed /\ (\A q \in Paths : Neat(q))
            BY <1>2, <1>5, <2>5 DEF Tidy
        <3>2. Present(p)' => Present(p)
            BY <2>2, <2>3 DEF Present
        <3>3. /\ Closed' /\ (\A x : x # Parent(p) => (HasEntries(x)' <=> HasEntries(x)))
              /\ (\A q \in Paths \ {p} : Loose(q) => Loose(q)')
              /\ \A q \in Paths \ {p, Parent(p)} : Neat(q)' <=> Neat(q)
            BY <1>2, <2>2, <2>3, <3>1, <3>2, GoneAt
        <3>4. Loose(p)'
            <4>1. HasEntries(p)' <=> HasEntries(p)
                BY <3>3, LineOf
            <4> QED
                BY <1>5, <2>2, <2>3, <3>1, <4>1 DEF Neat, Loose
        <3>5. \A q \in Paths \ {p} : Loose(q)'
            BY <3>1, <3>3 DEF Neat
        <3> QED
            BY <3>1, <3>3, <3>4, <3>5 DEF Tidy
    <2>6. Climbing' /\ Gone'
        BY <1>2, <1>5, <2>2, <2>3, <2>5 DEF Climbing, Gone
    <2> QED
        BY <2>4, <2>6 DEF AtRemove
<1> QED
    BY <1>3, <1>4, <1>5 DEF Taking

(* What climb finds: nothing to do, a directory to remove, or a node that  *)
(* is to take the leaf form.                                               *)
LEMMA ClimbStep ==
    ASSUME FsInv, Step, call.op = "remove", NEW q \in ToSet(Above[call.path]) \cup {Root},
           steps = <<Do("climb", q)>>, interrupts = 0 => Tidy({q}, {}) /\ Gone
    PROVE  Held' /\ AtRemove'
<1> DEFINE p == call.path
<1>1. Typed /\ Held /\ call # NoCall /\ p \in Paths
    BY DEF FsInv, Typed, NoCall
<1>2. q # Root => q \in Paths /\ q \in ToSet(Above[p])
    BY <1>1, LineOf
<1>3. steps' = Climb(q) /\ UNCHANGED <<fileVars, call, interrupts, may>>
    <2>1. Expand(Do("climb", q)) = Climb(q)
        BY DEF Expand, Do, File
    <2> QED
        BY <1>1, <2>1, ExpandedLast
<1>4. Held'
    BY <1>1, <1>3, HeldUnchanged DEF fileVars
<1>5. interrupts' = 0 => Gone'
    BY <1>3 DEF Gone, fileVars
<1>6. CASE q = Root \/ q \notin dirs \/ HasEntries(q)
    <2>1. steps' = <<>>
        BY <1>3, <1>6 DEF Climb
    <2>2. ASSUME interrupts' = 0 PROVE Tidy({}, {})'
        <3>1. Closed /\ (\A x \in Paths : x # q => Neat(x)) /\ (q \in Paths => Loose(q))
            BY <1>3, <2>2 DEF Tidy
        <3>2. q \in Paths => Neat(q)
            BY <1>6, <3>1, RootIsNoPath DEF Neat
        <3>3. Tidy({}, {})
            BY <3>1, <3>2 DEF Tidy
        <3> QED
            BY <1>3, <3>3, TidyUnchanged
    <2>3. Climbing'
        BY <2>1, <2>2 DEF Climbing
    <2> QED
        BY <1>4, <1>5, <2>3 DEF AtRemove
<1>7. CASE q \in dirs /\ q # Root /\ ~HasEntries(q) /\ main[q] = None
    <2>1. steps' = <<Do("rmdir", q), Do("climb", Parent(q))>>
        BY <1>3, <1>7 DEF Climb
    <2>2. ASSUME interrupts' = 0 PROVE Tidy({q, Parent(q)}, {})'
        <3>1. Closed /\ (\A x \in Paths : x # q => Neat(x)) /\ Loose(q)
            BY <1>2, <1>3, <1>7, <2>2 DEF Tidy
        <3>2. Tidy({q, Parent(q)}, {})
            BY <3>1 DEF Tidy, Neat
        <3> QED
            BY <1>3, <3>2, TidyUnchanged
    <2>3. q \in Line' /\ main'[q] = None
        BY <1>2, <1>3, <1>7 DEF Line, fileVars
    <2>4. Climbing'
        BY <2>1, <2>2, <2>3 DEF Climbing
    <2> QED
        BY <1>4, <1>5, <2>4 DEF AtRemove
<1>8. CASE q \in dirs /\ q # Root /\ ~HasEntries(q) /\ main[q] # None
    <2>1. PICK d : d = main[q] /\ d \in may[q] \ {None}
        BY <1>1, <1>2, <1>8 DEF Held
    <2>2. steps' = <<File("write leaf", q, d), Do("unlink main", q), Do("rmdir", q), Do("climb", Parent(q))>>
        BY <1>3, <1>8, <2>1 DEF Climb
    <2>3. ASSUME interrupts' = 0 PROVE Tidy({}, {q})' /\ q \in dirs'
        <3>1. Closed /\ (\A x \in Paths : x # q => Neat(x))
            BY <1>2, <1>3, <2>3 DEF Tidy
        <3>2. Rough(q)
            BY <1>8 DEF Rough
        <3>3. Tidy({}, {q})
            BY <3>1, <3>2 DEF Tidy
        <3> QED
            BY <1>3, <1>8, <3>3, TidyUnchanged DEF fileVars
    <2>4. q \in Line' /\ d \in may'[q] \ {None}
        BY <1>2, <1>3, <1>8, <2>1 DEF Line
    <2>5. Climbing'
        BY <2>2, <2>3, <2>4 DEF Climbing
    <2> QED
        BY <1>4, <1>5, <2>5 DEF AtRemove
<1> QED
    BY <1>6, <1>7, <1>8

(* An empty directory goes, and with it, perhaps, the last entry of its    *)
(* parent.                                                                 *)
LEMMA RmdirStep ==
    ASSUME FsInv, Step, call.op = "remove", NEW p \in Paths, call.path = p,
           NEW q \in ToSet(Above[p]) \cup {p},
           steps = <<Do("rmdir", q), Do("climb", Parent(q))>>, main[q] = None,
           interrupts = 0 => Tidy({q, Parent(q)}, {}) /\ Gone
    PROVE  Held' /\ AtRemove'
<1>1. Typed /\ Held /\ call # NoCall
    BY DEF FsInv, NoCall
<1>2. q \in Paths /\ Parent(q) \in ToSet(Above[p]) \cup {Root}
    BY LineOf, ParentOf
<1>3. Head(steps) = Do("rmdir", q) /\ Tail(steps) = <<Do("climb", Parent(q))>>
    BY Tuple2
<1>4. /\ steps' = <<Do("climb", Parent(q))>> /\ UNCHANGED <<leaf, main, call, interrupts, may>>
      /\ ~HasEntries(q) => dirs' = dirs \ {q}
      /\ HasEntries(q) => dirs' = dirs
    BY <1>1, <1>3, Rmdir
<1>5. Held'
    BY <1>1, <1>4, HeldUnchanged
<1>6. interrupts' = 0 => Gone'
    BY <1>4 DEF Gone
<1>7. ASSUME interrupts' = 0 PROVE Tidy({Parent(q)}, {})'
    <2>1. /\ Closed /\ Loose(q) /\ (Parent(q) \in Paths => Loose(Parent(q)))
          /\ \A x \in Paths \ {q, Parent(q)} : Neat(x)
        BY <1>2, <1>4, <1>7 DEF Tidy
    <2>2. CASE HasEntries(q)
        <3>1. Neat(q)
            BY <2>1, <2>2 DEF Neat
        <3>2. Tidy({Parent(q)}, {})
            BY <2>1, <3>1 DEF Tidy
        <3> QED
            BY <1>4, <2>2, <3>2, TidyUnchanged DEF fileVars
    <2>3. CASE ~HasEntries(q)
        <3>1. dirs' = dirs \ {q} /\ dirs \subseteq Paths
            BY <1>1, <1>4, <2>3 DEF Typed
        <3>2. Present(q)' => Present(q)
            BY <1>4, <3>1 DEF Present
        <3>3. /\ Closed' /\ (\A x : x # Parent(q) => (HasEntries(x)' <=> HasEntries(x)))
              /\ (\A x \in Paths \ {q} : Loose(x) => Loose(x)')
              /\ \A x \in Paths \ {q, Parent(q)} : Neat(x)' <=> Neat(x)
            BY <1>2, <1>4, <2>1, <2>3, <3>1, <3>2, GoneAt
        <3>4. Neat(q)'
            <4>1. ~HasEntries(q)'
                BY <1>2, <2>3, <3>3, LineOf
            <4> QED
                BY <1>4, <3>1, <4>1 DEF Neat, Loose
        <3>5. Parent(q) # q
            BY <1>2, LineOf
        <3> QED
            BY <2>1, <3>3, <3>4, <3>5 DEF Tidy
    <2> QED
        BY <2>2, <2>3
<1>8. Climbing'
    BY <1>2, <1>4, <1>7 DEF Climbing, Line
<1> QED
    BY <1>5, <1>6, <1>8 DEF AtRemove

(* A node without children takes the leaf form: the leaf is written ...    *)
LEMMA DemoteStep ==
    ASSUME FsInv, Step, call.op = "remove", NEW p \in Paths, call.path = p,
           NEW q \in ToSet(Above[p]), NEW d \in may[q] \ {None},
           steps = <<File("write leaf", q, d), Do("unlink main", q), Do("rmdir", q),
                     Do("climb", Parent(q))>>,
           interrupts = 0 => Tidy({}, {q}) /\ q \in dirs /\ Gone
    PROVE  Held' /\ AtRemove'
<1>1. Typed /\ Held /\ call # NoCall /\ q \in Paths /\ q # p
    <2>1. Typed /\ Held /\ call # NoCall
        BY RemoveOn
    <2>2. q \in Paths /\ q # p
        BY LineOf
    <2> QED
        BY <2>1, <2>2
<1>2. leaf \in [Paths -> Contents \cup {None}] /\ dirs \subseteq Paths
    BY <1>1 DEF Typed
<1>3. /\ Head(steps) = File("write leaf", q, d)
      /\ Tail(steps) = <<Do("unlink main", q), Do("rmdir", q), Do("climb", Parent(q))>>
    BY FourSteps
<1>4. /\ steps' = <<Do("unlink main", q), Do("rmdir", q), Do("climb", Parent(q))>>
      /\ UNCHANGED <<main, dirs, call, interrupts, may>> /\ leaf' = [leaf EXCEPT ![q] = d]
    BY <1>1, <1>3, LeafStep
<1>5. leaf'[q] = d /\ \A x \in Paths \ {q} : leaf'[x] = leaf[x]
    BY <1>1, <1>2, <1>4
<1>6. Held'
    <2>1. main[q] \in may[q] \cup {None} /\ Visible(q)' \in may[q]
        BY <1>1, <1>4, <1>5 DEF Held, Visible
    <2> QED
        BY <1>1, <1>4, <1>5, <2>1, HeldAfter
<1>7. interrupts' = 0 => Gone'
    BY <1>1, <1>4, <1>5 DEF Gone
<1>8. ASSUME interrupts' = 0 PROVE Tidy({}, {q})'
    <2>1. Closed /\ Rough(q) /\ q \in dirs /\ \A x \in Paths \ {q} : Neat(x)
        BY <1>1, <1>4, <1>8 DEF Tidy
    <2>2. Present(q)' <=> Present(q)
        BY <1>4, <2>1 DEF Present
    <2>3. /\ Closed' /\ (HasEntries(q)' <=> HasEntries(q))
          /\ \A x \in Paths \ {q} : Neat(x)' <=> Neat(x)
        BY <1>1, <1>2, <1>4, <1>5, <2>1, <2>2, ChangeAt
    <2>4. Rough(q)'
        BY <1>4, <2>1, <2>3 DEF Rough
    <2> QED
        BY <2>1, <2>3, <2>4 DEF Tidy
<1>9. Climbing'
    BY <1>4, <1>5, <1>8 DEF Climbing, Line
<1> QED
    BY <1>6, <1>7, <1>9 DEF AtRemove

(* ... and the dir form's file is unlinked.                                *)
LEMMA DemotedStep ==
    ASSUME FsInv, Step, call.op = "remove", NEW p \in Paths, call.path = p,
           NEW q \in ToSet(Above[p]), leaf[q] # None,
           steps = <<Do("unlink main", q), Do("rmdir", q), Do("climb", Parent(q))>>,
           interrupts = 0 => Tidy({}, {q}) /\ Gone
    PROVE  Held' /\ AtRemove'
<1>1. Typed /\ Held /\ call # NoCall /\ q \in Paths /\ q # p
    <2>1. Typed /\ Held /\ call # NoCall
        BY RemoveOn
    <2>2. q \in Paths /\ q # p
        BY LineOf
    <2> QED
        BY <2>1, <2>2
<1>2. main \in [Paths -> Contents \cup {None}] /\ dirs \subseteq Paths
    BY <1>1 DEF Typed
<1>3. Head(steps) = Do("unlink main", q) /\ Tail(steps) = <<Do("rmdir", q), Do("climb", Parent(q))>>
    BY ThreeSteps
<1>4. /\ steps' = <<Do("rmdir", q), Do("climb", Parent(q))>>
      /\ UNCHANGED <<leaf, dirs, call, interrupts, may>> /\ main' = [main EXCEPT ![q] = None]
    BY <1>1, <1>3, MainStep DEF Do
<1>5. main'[q] = None /\ \A x \in Paths \ {q} : main'[x] = main[x]
    BY <1>1, <1>2, <1>4
<1>6. Held'
    <2>1. leaf[q] \in may[q] /\ Visible(q)' = leaf[q]
        BY <1>1, <1>4, <1>5 DEF Held, Visible
    <2> QED
        BY <1>1, <1>4, <1>5, <2>1, HeldAfter
<1>7. interrupts' = 0 => Gone'
    BY <1>1, <1>4, <1>5 DEF Gone
<1>8. ASSUME interrupts' = 0 PROVE Tidy({q, Parent(q)}, {})'
    <2>1. Closed /\ Rough(q) /\ \A x \in Paths \ {q} : Neat(x)
        BY <1>1, <1>4, <1>8 DEF Tidy
    <2>2. Present(q)' <=> Present(q)
        BY <1>4 DEF Present
    <2>3. /\ Closed' /\ (HasEntries(q)' <=> HasEntries(q))
          /\ \A x \in Paths \ {q} : Neat(x)' <=> Neat(x)
        BY <1>1, <1>2, <1>4, <1>5, <2>1, <2>2, ChangeAt
    <2>4. Loose(q)' /\ \A x \in Paths \ {q} : Neat(x)' /\ Loose(x)'
        BY <1>5, <2>1, <2>3 DEF Rough, Neat, Loose
    <2> QED
        BY <2>3, <2>4 DEF Tidy
<1>9. Climbing'
    BY <1>4, <1>5, <1>8 DEF Climbing, Line
<1> QED
    BY <1>6, <1>7, <1>9 DEF AtRemove

LEMMA RemovingStep ==
    ASSUME FsInv, Step, Removing
    PROVE  Held' /\ Removing'
<1> DEFINE p == call.path
<1>1. p \in Paths /\ None \in may[p] /\ call.op = "remove"
    BY DEF FsInv, Typed, NoCall, Removing
<1>2. UNCHANGED <<call, may>> /\ steps # <<>>
    BY DEF Step
<1>3. CASE Taking
    BY <1>1, <1>2, <1>3, TakingStep DEF Removing
<1>4. CASE Climbing /\ (interrupts = 0 => Gone)
    <2>1. CASE \E q \in Line \cup {Root} :
                /\ steps = <<Do("climb", q)>>
                /\ interrupts = 0 => Tidy({q}, {})
        <3>1. Held' /\ AtRemove'
            BY <1>1, <1>4, <2>1, ClimbStep DEF Line
        <3> QED
            BY <1>1, <1>2, <3>1 DEF Removing
    <2>2. CASE \E q \in Line \cup {p} :
                /\ steps = <<Do("rmdir", q), Do("climb", Parent(q))>>
                /\ main[q] = None
                /\ interrupts = 0 => Tidy({q, Parent(q)}, {})
        <3>1. Held' /\ AtRemove'
            BY <1>1, <1>4, <2>2, RmdirStep DEF Line
        <3> QED
            BY <1>1, <1>2, <3>1 DEF Removing
    <2>3. CASE \E q \in Line :
                /\ leaf[q] # None
                /\ steps = <<Do("unlink main", q), Do("rmdir", q), Do("climb", Parent(q))>>
                /\ interrupts = 0 => Tidy({}, {q})
        <3>1. Held' /\ AtRemove'
            BY <1>1, <1>4, <2>3, DemotedStep DEF Line
        <3> QED
            BY <1>1, <1>2, <3>1 DEF Removing
    <2>4. CASE \E q \in Line : \E d \in may[q] \ {None} :
                /\ steps = <<File("write leaf", q, d), Do("unlink main", q), Do("rmdir", q),
                             Do("climb", Parent(q))>>
                /\ interrupts = 0 => Tidy({}, {q}) /\ q \in dirs
        <3>1. Held' /\ AtRemove'
            BY <1>1, <1>4, <2>4, DemoteStep DEF Line
        <3> QED
            BY <1>1, <1>2, <3>1 DEF Removing
    <2> QED
        BY <1>2, <1>4, <2>1, <2>2, <2>3, <2>4 DEF Climbing
<1> QED
    BY <1>3, <1>4 DEF Removing, AtRemove

-----------------------------------------------------------------------------
\* The other actions

LEMMA ControlUnchanged ==
    ASSUME Control, UNCHANGED <<fileVars, steps, call, interrupts, may>>
    PROVE  Control'
<1>1. /\ leaf' = leaf /\ main' = main /\ dirs' = dirs /\ steps' = steps /\ call' = call
      /\ interrupts' = interrupts /\ may' = may
    BY DEF fileVars
<1>2. /\ \A L, R : Tidy(L, R)' <=> Tidy(L, R)
      /\ \A x : HasEntries(x)' <=> HasEntries(x)
      /\ New' = New
    BY <1>1, TidyUnchanged DEF HasEntries, New, fileVars
<1>3. Setting' <=> Setting
    <2>1. \A p, j : Clear(p, j)' <=> Clear(p, j)
        BY <1>1 DEF Clear
    <2>2. \A p : Fresh(p)' <=> Fresh(p)
        BY <1>1 DEF Fresh
    <2>3. \A j : Promotes(j)' <=> Promotes(j)
        BY <1>1, <1>2, <2>1, <2>2 DEF Promotes
    <2>4. ASSUME NEW j, NEW d PROVE Promoting(j, d)' <=> Promoting(j, d)
        BY <1>1, <1>2, <2>1, <2>2, ZenonT(60) DEF Promoting
    <2>5. (PlacingDir' <=> PlacingDir) /\ (Placed' <=> Placed)
        BY <1>1, <1>2 DEF PlacingDir, Placed
    <2>6. PlacingLeaf' <=> PlacingLeaf
        BY <1>1, <1>2, <2>1 DEF PlacingLeaf
    <2> QED
        BY <1>1, <1>2, <2>3, <2>4, <2>5, <2>6 DEF Setting, AtSet
<1>4. Removing' <=> Removing
    <2>1. Taking' <=> Taking
        BY <1>1, <1>2 DEF Taking
    <2>2. (Line' = Line) /\ (Gone' <=> Gone)
        BY <1>1 DEF Line, Gone
    <2>3. Climbing' <=> Climbing
        BY <1>1, <1>2, <2>2 DEF Climbing
    <2> QED
        BY <1>1, <2>1, <2>2, <2>3 DEF Removing, AtRemove
<1> QED
    BY <1>1, <1>2, <1>3, <1>4 DEF Control

LEMMA AtRest ==
    ASSUME FsInv, call = NoCall
    PROVE  steps = <<>> /\ (interrupts = 0 => Tidy({}, {}))
BY DEF FsInv, Control, Setting, Removing, NoCall

(* A call that starts adds to what its path may hold.                      *)
LEMMA StartsHeld ==
    ASSUME FsInv, NEW c, NEW todo, NEW o \in Contents \cup {None}, Starts(c, todo, o),
           c.path \in Paths, c.op \in {"set", "remove"}, c.id \in 0..calls + 1, c.expects \in Nat,
           todo \in Seq(Steps), o # None => o.id = calls + 1
    PROVE  Typed' /\ Held' /\ GetHeld'
<1>1. Typed /\ Held /\ GetHeld
    BY DEF FsInv
<1>2. /\ call' = c /\ calls' = calls + 1 /\ steps' = todo /\ UNCHANGED <<fileVars, interrupts>>
      /\ may' = [may EXCEPT ![c.path] = @ \cup {o}]
      /\ get' = IF get.at # "idle" /\ get.path = c.path
                THEN [get EXCEPT !.may = @ \cup {o}] ELSE get
    BY DEF Starts
<1>3. /\ may \in [Paths -> SUBSET (Contents \cup {None})] /\ calls \in Nat
      /\ \A p \in Paths : \A x \in may[p] \ {None} : x.id <= calls
    BY <1>1 DEF Typed
<1>4. /\ may'[c.path] = may[c.path] \cup {o}
      /\ \A p \in Paths : may[p] \subseteq may'[p] /\ (p # c.path => may'[p] = may[p])
    BY <1>2, <1>3
<1>5. Typed'
    <2>1. may' \in [Paths -> SUBSET (Contents \cup {None})]
        BY <1>2, <1>3
    <2>2. ASSUME NEW p \in Paths, NEW x \in may'[p] \ {None}
          PROVE  x.id <= calls + 1
        <3>1. CASE x \in may[p]
            <4>1. x.id <= calls /\ x.id \in Nat
                BY <1>3, <2>2, <3>1 DEF Contents
            <4> QED
                BY <1>3, <4>1
        <3>2. CASE x \notin may[p]
            <4>1. x = o
                BY <1>4, <2>2, <3>2
            <4> QED
                BY <1>3, <2>2, <4>1
        <3> QED
            BY <3>1, <3>2
    <2>3. c.id \in Nat /\ c.id <= calls + 1
        BY <1>3
    <2> QED
        BY <1>1, <1>2, <1>3, <2>1, <2>2, <2>3 DEF Typed, fileVars
<1>6. Held'
    BY <1>1, <1>2, <1>4 DEF Held, Visible, fileVars
<1>7. GetHeld'
    <2>1. /\ get'.at = get.at /\ get'.path = get.path /\ get'.got = get.got
          /\ get.may \subseteq get'.may
          /\ get.at # "idle" /\ get.path = c.path => get'.may = get.may \cup {o}
        BY <1>2 DEF GetHeld
    <2> QED
        BY <1>1, <1>4, <2>1 DEF GetHeld, ReadsWhatWasThere
<1> QED
    BY <1>5, <1>6, <1>7

LEMMA SetStarts ==
    ASSUME FsInv, NEW p \in Paths, NEW expects \in {0, 1}, Set(p, expects)
    PROVE  FsInv'
<1> DEFINE c == [op |-> "set", path |-> p, id |-> calls + 1, expects |-> expects]
           o == [id |-> calls + 1, rev |-> expects + 1]
<1>1. Starts(c, Todo(p, 1), o)
    BY WholeTodo DEF Set
<1>2. /\ Typed /\ Held /\ call = NoCall /\ calls \in Nat /\ expects \in Nat
      /\ \A q \in Paths : \A x \in may[q] \ {None} : x.id \in Nat /\ x.id <= calls
    <2>1. Typed /\ Held
        BY DEF FsInv
    <2>2. ASSUME NEW q \in Paths, NEW x \in may[q] \ {None} PROVE x.id \in Nat /\ x.id <= calls
        <3>1. x \in Contents /\ x.id <= calls
            BY <2>1, <2>2 DEF Typed
        <3> QED
            BY <3>1 DEF Contents
    <2> QED
        BY <1>1, <2>1, <2>2 DEF Typed, Starts
<1>3. /\ call' = c /\ steps' = Todo(p, 1) /\ UNCHANGED <<leaf, main, dirs, interrupts>>
      /\ may' = [may EXCEPT ![p] = @ \cup {o}]
    BY <1>1 DEF Starts, fileVars
<1>4. Todo(p, 1) \in Seq(Steps)
    BY AboveTyped, TodoOf
<1>5. o \in Contents
    BY <1>2 DEF Contents
<1>6. Typed' /\ Held' /\ GetHeld'
    <2>1. c.path \in Paths /\ c.op \in {"set", "remove"} /\ c.id \in 0..calls + 1 /\ c.expects \in Nat
        BY <1>2
    <2>2. o # None => o.id = calls + 1
        OBVIOUS
    <2> HIDE DEF c, o
    <2> QED
        BY <1>1, <1>4, <1>5, <2>1, <2>2, StartsHeld
<1>7. New' = o /\ o \in may'[p] /\ call'.op = "set" /\ call'.path = p
    BY <1>2, <1>3 DEF New, Typed
<1>8. Fresh(p)'
    <2>1. \A x \in {leaf[p], main[p]} : x = None \/ (x.id \in Nat /\ x.id <= calls)
        BY <1>2 DEF Held
    <2>2. call'.id = calls + 1
        BY <1>3
    <2>3. \A x \in {leaf[p], main[p]} : x = None \/ x.id # calls + 1
        BY <1>2, <2>1
    <2> QED
        BY <1>3, <2>2, <2>3 DEF Fresh
<1>9. interrupts' = 0 => Tidy({}, {})' /\ Clear(p, 1)'
    BY <1>2, <1>3, AtRest, TidyUnchanged DEF Clear, fileVars
<1>10. Promotes(1)'
    BY <1>3, <1>7, <1>8, <1>9 DEF Promotes
<1>11. Control'
    <2>1. 1 \in 1..Len(Above[p]) + 1
        BY AboveTyped
    <2>2. AtSet'
        BY <1>7, <1>10, <2>1 DEF AtSet
    <2> QED
        BY <1>7, <2>2 DEF Control, Setting
<1> QED
    BY <1>6, <1>11 DEF FsInv

LEMMA RemoveStarts ==
    ASSUME FsInv, NEW p \in Paths, RemoveNode(p)
    PROVE  FsInv'
<1> DEFINE c == [NoCall EXCEPT !.op = "remove", !.path = p]
<1>1. Starts(c, <<Do("take", p)>>, None)
    BY DEF RemoveNode
<1>2. call = NoCall /\ calls \in Nat /\ Typed
    BY <1>1 DEF FsInv, Typed, Starts
<1>3. c.op = "remove" /\ c.path = p /\ c.id = 0 /\ c.expects = 0
    BY DEF NoCall
<1> HIDE DEF c
<1>4. /\ call' = c /\ steps' = <<Do("take", p)>> /\ UNCHANGED <<fileVars, interrupts>>
      /\ may' = [may EXCEPT ![p] = @ \cup {None}]
    BY <1>1, <1>3 DEF Starts
<1>5. <<Do("take", p)>> \in Seq(Steps)
    <2>1. Do("take", p) \in Steps
        BY FileTyped DEF Names
    <2> QED
        BY <2>1
<1>6. Typed' /\ Held' /\ GetHeld'
    <2> DEFINE todo == <<Do("take", p)>>
    <2>1. /\ c.path \in Paths /\ c.op \in {"set", "remove"} /\ c.id \in 0..calls + 1 /\ c.expects \in Nat
          /\ None \in Contents \cup {None}
        BY <1>2, <1>3
    <2>2. todo \in Seq(Steps) /\ Starts(c, todo, None)
        BY <1>1, <1>5
    <2> HIDE DEF todo
    <2> QED
        BY <2>1, <2>2, StartsHeld
<1>7. None \in may'[p]
    BY <1>2, <1>4 DEF Typed
<1>8. interrupts' = 0 => Tidy({}, {})'
    BY <1>2, <1>4, AtRest, TidyUnchanged
<1>9. Taking'
    BY <1>3, <1>4, <1>8 DEF Taking
<1> QED
    BY <1>3, <1>4, <1>6, <1>7, <1>9 DEF FsInv, Control, Removing, AtRemove

LEMMA StepKeeps ==
    ASSUME FsInv, Step
    PROVE  FsInv'
<1>1. call # NoCall /\ Typed /\ GetHeld
    BY AtRest DEF Step, FsInv
<1>2. Typed'
    BY <1>1, StepTyped
<1>3. GetHeld'
    BY <1>1, GetUnchanged DEF Step
<1>4. Setting \/ Removing
    BY <1>1 DEF FsInv, Control
<1>5. Held' /\ Control'
    BY <1>4, SettingStep, RemovingStep DEF Control
<1> QED
    BY <1>2, <1>3, <1>5 DEF FsInv

LEMMA NotPlace ==
    /\ \A p, d : /\ File("write leaf", p, d).do # "place" /\ File("write main", p, d).do # "place"
    /\ \A p : /\ Do("mkdir", p).do # "place" /\ Do("rmdir", p).do # "place"
               /\ Do("unlink leaf", p).do # "place" /\ Do("unlink main", p).do # "place"
               /\ Do("take", p).do # "place" /\ Do("climb", p).do # "place"
BY DEF Do, File

LEMMA FirstStep ==
    ASSUME NEW a, a.do # "place", NEW b, NEW c, NEW d,
           steps = <<a>> \/ steps = <<a, b>> \/ steps = <<a, b, c>> \/ steps = <<a, b, c, d>>
    PROVE  steps # <<>> /\ Head(steps).do # "place"
<1>1. steps # <<>>
    OBVIOUS
<1>2. Head(steps) = a
    BY Tuple1, Tuple2, Tuple3, HeadOfFour
<1> QED
    BY <1>1, <1>2

(* Where a set or a remove is when its next step is to place the node, and *)
(* where it is when it has nothing left to do.                             *)
LEMMA PromotingWhere ==
    ASSUME FsInv, call.op = "set", NEW j \in 1..Len(Above[call.path]), NEW d \in Contents,
           Promoting(j, d)
    PROVE  steps # <<>> /\ Head(steps).do # "place"
<1> DEFINE p == call.path
           a == Above[p][j]
           t == Todo(p, j + 1)
<1>1. p \in Paths
    BY SetOn
<1>2. a \in Paths /\ j + 1 \in 1..Len(Above[p]) + 1
    BY <1>1, AboveOf, AboveTyped
<1>3. t \in Seq(Steps)
    BY <1>1, <1>2, TodoOf
<1>4. /\ Do("mkdir", a) \in Steps /\ File("write main", a, d) \in Steps
      /\ Do("unlink leaf", a) \in Steps
    BY <1>2, FileTyped DEF Names
<1>5. \/ steps = <<Do("mkdir", a), File("write main", a, d), Do("unlink leaf", a)>> \o t
      \/ steps = <<File("write main", a, d), Do("unlink leaf", a)>> \o t
      \/ steps = <<Do("unlink leaf", a)>> \o t
    BY DEF Promoting
<1>6. ASSUME NEW x \in Steps, NEW u \in Seq(Steps), u # <<>>, Head(u) = x, steps = u \o t,
             x.do # "place"
      PROVE  steps # <<>> /\ Head(steps).do # "place"
    BY <1>3, <1>6, FirstOf
<1> HIDE DEF p, a, t
<1>7. CASE steps = <<Do("mkdir", a), File("write main", a, d), Do("unlink leaf", a)>> \o t
    <2> DEFINE u == <<Do("mkdir", a), File("write main", a, d), Do("unlink leaf", a)>>
    <2>1. u \in Seq(Steps) /\ u # <<>> /\ Head(u) = Do("mkdir", a) /\ steps = u \o t
        BY <1>4, <1>7, FourTyped, Tuple3
    <2>2. Do("mkdir", a).do # "place"
        BY NotPlace
    <2> HIDE DEF u
    <2> QED
        BY <1>4, <1>6, <2>1, <2>2
<1>8. CASE steps = <<File("write main", a, d), Do("unlink leaf", a)>> \o t
    <2> DEFINE u == <<File("write main", a, d), Do("unlink leaf", a)>>
    <2>1. u \in Seq(Steps) /\ u # <<>> /\ Head(u) = File("write main", a, d) /\ steps = u \o t
        BY <1>4, <1>8, FourTyped, Tuple2
    <2>2. File("write main", a, d).do # "place"
        BY NotPlace
    <2> HIDE DEF u
    <2> QED
        BY <1>4, <1>6, <2>1, <2>2
<1>9. CASE steps = <<Do("unlink leaf", a)>> \o t
    <2> DEFINE u == <<Do("unlink leaf", a)>>
    <2>1. u \in Seq(Steps) /\ u # <<>> /\ Head(u) = Do("unlink leaf", a) /\ steps = u \o t
        BY <1>4, <1>9, FourTyped, Tuple1
    <2>2. Do("unlink leaf", a).do # "place"
        BY NotPlace
    <2> HIDE DEF u
    <2> QED
        BY <1>4, <1>6, <2>1, <2>2
<1> QED
    BY <1>5, <1>7, <1>8, <1>9 DEF p, a, t

LEMMA PlacingWhere == PlacingDir \/ PlacingLeaf => steps # <<>> /\ Head(steps).do # "place"
<1> DEFINE p == call.path
<1>1. /\ File("write leaf", p, New).do # "place" /\ File("write main", p, New).do # "place"
      /\ Do("mkdir", p).do # "place" /\ Do("mkdir", Parent(p)).do # "place" /\ Do("rmdir", p).do # "place"
      /\ Do("unlink leaf", p).do # "place" /\ Do("unlink main", p).do # "place"
    BY NotPlace
<1>2. ASSUME PlacingDir PROVE steps # <<>> /\ Head(steps).do # "place"
    <2>1. \/ steps = <<Do("mkdir", p), File("write main", p, New), Do("unlink leaf", p)>>
          \/ steps = <<File("write main", p, New), Do("unlink leaf", p)>>
          \/ steps = <<Do("unlink leaf", p)>>
        BY <1>2 DEF PlacingDir
    <2> QED
        BY <1>1, <2>1, FirstStep
<1>3. ASSUME PlacingLeaf PROVE steps # <<>> /\ Head(steps).do # "place"
    <2>1. \/ steps = <<Do("mkdir", Parent(p)), File("write leaf", p, New),
                       Do("unlink main", p), Do("rmdir", p)>>
          \/ steps = <<File("write leaf", p, New), Do("unlink main", p), Do("rmdir", p)>>
          \/ steps = <<Do("unlink main", p), Do("rmdir", p)>>
          \/ steps = <<Do("rmdir", p)>>
        BY <1>3 DEF PlacingLeaf
    <2> QED
        BY <1>1, <2>1, FirstStep
<1> QED
    BY <1>2, <1>3

LEMMA TakingWhere == Taking => steps # <<>> /\ Head(steps).do # "place"
<1> SUFFICES ASSUME Taking PROVE steps # <<>> /\ Head(steps).do # "place"
    OBVIOUS
<1> DEFINE p == call.path
<1>1. /\ Do("take", p).do # "place" /\ Do("unlink main", p).do # "place"
      /\ Do("unlink leaf", p).do # "place"
    BY NotPlace
<1>2. \/ steps = <<Do("take", p)>>
      \/ steps = <<Do("unlink main", p), Do("rmdir", p), Do("climb", Parent(p))>>
      \/ steps = <<Do("unlink leaf", p), Do("rmdir", p), Do("climb", Parent(p))>>
    BY DEF Taking
<1> QED
    BY <1>1, <1>2, FirstStep

LEMMA ClimbingWhere ==
    Climbing =>
        \/ steps = <<>> /\ (interrupts = 0 => Tidy({}, {}))
        \/ steps # <<>> /\ Head(steps).do # "place"
<1> SUFFICES ASSUME Climbing, ~(steps = <<>> /\ (interrupts = 0 => Tidy({}, {})))
             PROVE  steps # <<>> /\ Head(steps).do # "place"
    OBVIOUS
<1>1. PICK q : \/ steps = <<Do("climb", q)>>
               \/ steps = <<Do("rmdir", q), Do("climb", Parent(q))>>
               \/ steps = <<Do("unlink main", q), Do("rmdir", q), Do("climb", Parent(q))>>
               \/ \E d : steps = <<File("write leaf", q, d), Do("unlink main", q), Do("rmdir", q),
                                   Do("climb", Parent(q))>>
    BY DEF Climbing
<1>2. /\ Do("climb", q).do # "place" /\ Do("unlink main", q).do # "place"
      /\ Do("rmdir", q).do # "place" /\ \A d : File("write leaf", q, d).do # "place"
    BY NotPlace
<1> QED
    BY <1>1, <1>2, FirstStep

LEMMA AtPlace ==
    ASSUME FsInv, steps # <<>>, Head(steps).do = "place"
    PROVE  /\ call.op = "set" /\ call.path \in Paths /\ Fresh(call.path)
           /\ interrupts = 0 => Tidy({}, {})
<1>1. Setting \/ Removing
    BY DEF FsInv, Control
<1>2. ~Removing
    BY TakingWhere, ClimbingWhere DEF Removing, AtRemove
<1>3. call.op = "set" /\ AtSet
    BY <1>1, <1>2 DEF Setting
<1>4. \E j \in 1..Len(Above[call.path]) + 1 : Promotes(j)
    BY <1>3, PromotingWhere, PlacingWhere DEF AtSet, Placed
<1> QED
    BY <1>3, <1>4, SetOn DEF Promotes

LEMMA AtEnd ==
    ASSUME FsInv, steps = <<>>, call # NoCall
    PROVE  /\ call.path \in Paths
           /\ interrupts = 0 => Tidy({}, {})
           /\ call.op = "set" => Placed
           /\ call.op = "remove" /\ interrupts = 0 => Gone
<1>1. call.path \in Paths /\ (Setting \/ Removing)
    BY DEF FsInv, Control, Typed
<1>2. CASE Setting
    <2>1. ASSUME NEW j \in 1..Len(Above[call.path]) + 1 PROVE ~Promotes(j)
        BY <1>1, TodoOf DEF Promotes
    <2>2. Placed
        BY <1>2, <2>1, PromotingWhere, PlacingWhere DEF Setting, AtSet
    <2> QED
        BY <1>1, <1>2, <2>2 DEF Setting, Placed
<1>3. CASE Removing
    <2>1. Climbing /\ (interrupts = 0 => Gone)
        BY <1>3, TakingWhere DEF Removing, AtRemove
    <2> QED
        BY <1>1, <1>3, <2>1, ClimbingWhere DEF Removing
<1> QED
    BY <1>1, <1>2, <1>3

(* What a refused set would have written is written nowhere.               *)
LEMMA ConflictKeeps ==
    ASSUME FsInv, Conflict
    PROVE  FsInv'
<1> DEFINE p == call.path
<1>1. /\ Typed /\ Held /\ GetHeld /\ p \in Paths /\ Fresh(p)
      /\ interrupts = 0 => Tidy({}, {})
    BY AtPlace DEF FsInv, Conflict
<1>2. /\ call' = NoCall /\ steps' = <<>> /\ UNCHANGED <<leaf, main, dirs, calls, interrupts, get>>
      /\ may' = [may EXCEPT ![p] = {c \in @ : c = None \/ c.id # call.id}]
    BY DEF Conflict, fileVars
<1>3. /\ may \in [Paths -> SUBSET (Contents \cup {None})]
      /\ \A q \in Paths : \A c \in may[q] \ {None} : c.id <= calls
    BY <1>1 DEF Typed
<1>4. /\ may'[p] = {c \in may[p] : c = None \/ c.id # call.id}
      /\ \A q \in Paths \ {p} : may'[q] = may[q]
    BY <1>1, <1>2, <1>3
<1>5. \A q \in Paths : may'[q] \subseteq may[q]
    BY <1>4
<1>6. Typed'
    <2>1. may' \in [Paths -> SUBSET (Contents \cup {None})]
        <3>1. {c \in may[p] : c = None \/ c.id # call.id} \in SUBSET (Contents \cup {None})
            BY <1>1, <1>3
        <3> QED
            BY <1>2, <1>3, <3>1
    <2>2. \A q \in Paths : \A c \in may'[q] \ {None} : c.id <= calls'
        BY <1>2, <1>3, <1>5
    <2>3. call'.id \in Nat /\ call'.expects \in Nat /\ call'.id <= calls' /\ steps' \in Seq(Steps)
        BY <1>1, <1>2 DEF NoCall, Typed
    <2> QED
        BY <1>1, <1>2, <2>1, <2>2, <2>3 DEF Typed
<1>7. Held'
    <2>1. ASSUME NEW q \in Paths \ {p}
          PROVE  leaf[q] \in may'[q] \cup {None} /\ main[q] \in may'[q] \cup {None} /\ Visible(q) \in may'[q]
        BY <1>1, <1>4 DEF Held
    <2>2. /\ leaf[p] \in may'[p] \cup {None} /\ main[p] \in may'[p] \cup {None}
          /\ Visible(p) \in may'[p]
        <3>1. /\ leaf[p] = None \/ leaf[p].id # call.id
              /\ main[p] = None \/ main[p].id # call.id
            BY <1>1 DEF Fresh
        <3>2. leaf[p] \in may[p] \cup {None} /\ main[p] \in may[p] \cup {None} /\ Visible(p) \in may[p]
            BY <1>1 DEF Held
        <3> QED
            BY <1>4, <3>1, <3>2 DEF Visible
    <2> QED
        BY <1>2, <2>1, <2>2 DEF Held, Visible
<1>8. GetHeld'
    BY <1>1, <1>2, <1>5 DEF GetHeld, ReadsWhatWasThere
<1>9. Control'
    <2>1. interrupts' = 0 => Tidy({}, {})'
        BY <1>1, <1>2, TidyUnchanged DEF fileVars
    <2> QED
        BY <1>2, <2>1 DEF Control
<1> QED
    BY <1>6, <1>7, <1>8, <1>9 DEF FsInv

(* A path holds what the set that ends has written, and nothing after a    *)
(* removal, unless an interrupted call has left its other form.            *)
LEMMA FinishKeeps ==
    ASSUME FsInv, Finish
    PROVE  FsInv'
<1> DEFINE p == call.path
           after == IF call.op = "remove" THEN (IF interrupts = 0 THEN {None} ELSE may[p]) ELSE {New}
<1>1. /\ Typed /\ Held /\ GetHeld /\ p \in Paths /\ steps = <<>> /\ call # NoCall
      /\ interrupts = 0 => Tidy({}, {})
      /\ call.op = "set" => Placed
      /\ call.op = "remove" /\ interrupts = 0 => Gone
    BY AtEnd DEF FsInv, Finish
<1>2. /\ call' = NoCall /\ UNCHANGED <<leaf, main, dirs, steps, calls, interrupts, get>>
      /\ may' = [may EXCEPT ![p] = after]
    BY DEF Finish, fileVars, New
<1>3. /\ may \in [Paths -> SUBSET (Contents \cup {None})]
      /\ \A q \in Paths : \A c \in may[q] \ {None} : c.id <= calls
      /\ call.op \in {"set", "remove"}
    BY <1>1 DEF Typed
<1>4. Setting \/ Removing
    BY <1>1 DEF FsInv, Control
<1>5. after \subseteq may[p]
    BY <1>3, <1>4 DEF Setting, Removing
<1>6. /\ may'[p] = after
      /\ \A q \in Paths \ {p} : may'[q] = may[q]
    BY <1>1, <1>2, <1>3
<1>7. \A q \in Paths : may'[q] \subseteq may[q]
    BY <1>5, <1>6
<1>8. leaf[p] \in after \cup {None} /\ main[p] \in after \cup {None} /\ Visible(p) \in after
    <2>1. CASE call.op = "set"
        <3>1. after = {New}
            BY <2>1
        <3>2. (leaf[p] = New /\ main[p] = None) \/ (leaf[p] = None /\ main[p] = New)
            BY <1>1, <2>1 DEF Placed
        <3> HIDE DEF after
        <3> QED
            BY <3>1, <3>2 DEF Visible
    <2>2. CASE call.op = "remove" /\ interrupts = 0
        <3>1. after = {None} /\ leaf[p] = None /\ main[p] = None
            BY <1>1, <2>2 DEF Gone
        <3> HIDE DEF after
        <3> QED
            BY <3>1 DEF Visible
    <2>3. CASE call.op = "remove" /\ interrupts # 0
        <3>1. after = may[p]
            BY <2>3
        <3> HIDE DEF after
        <3> QED
            BY <1>1, <3>1 DEF Held
    <2> QED
        BY <1>3, <2>1, <2>2, <2>3
<1> HIDE DEF after
<1>9. Typed'
    <2>1. may' \in [Paths -> SUBSET (Contents \cup {None})]
        <3>1. after \in SUBSET (Contents \cup {None})
            BY <1>1, <1>3, <1>5
        <3> QED
            BY <1>2, <1>3, <3>1
    <2>2. \A q \in Paths : \A c \in may'[q] \ {None} : c.id <= calls'
        BY <1>2, <1>3, <1>7
    <2>3. call'.id \in Nat /\ call'.expects \in Nat /\ call'.id <= calls'
        BY <1>1, <1>2 DEF NoCall, Typed
    <2> QED
        BY <1>1, <1>2, <2>1, <2>2, <2>3 DEF Typed
<1>10. Held'
    <2>1. ASSUME NEW q \in Paths
          PROVE  leaf[q] \in may'[q] \cup {None} /\ main[q] \in may'[q] \cup {None} /\ Visible(q) \in may'[q]
        BY <1>1, <1>6, <1>8 DEF Held
    <2> QED
        BY <1>2, <2>1 DEF Held, Visible
<1>11. GetHeld'
    BY <1>1, <1>2, <1>7 DEF GetHeld, ReadsWhatWasThere
<1>12. Control'
    <2>1. interrupts' = 0 => Tidy({}, {})'
        BY <1>1, <1>2, TidyUnchanged DEF fileVars
    <2> QED
        BY <1>1, <1>2, <2>1 DEF Control
<1> QED
    BY <1>9, <1>10, <1>11, <1>12 DEF FsInv

LEMMA InterruptKeeps ==
    ASSUME FsInv, Interrupt
    PROVE  FsInv'
<1>1. /\ Typed /\ Held /\ GetHeld /\ call' = NoCall /\ steps' = <<>> /\ interrupts' = interrupts + 1
      /\ UNCHANGED <<leaf, main, dirs, calls, may, get>>
    BY DEF FsInv, Interrupt, fileVars
<1>2. interrupts' \in Nat /\ interrupts' # 0
    BY <1>1 DEF Typed
<1>3. Typed'
    BY <1>1, <1>2 DEF Typed, NoCall
<1>4. Held' /\ GetHeld'
    BY <1>1, HeldUnchanged, GetUnchanged
<1>5. Control'
    BY <1>1, <1>2 DEF Control
<1> QED
    BY <1>3, <1>4, <1>5 DEF FsInv

(* A get changes no file, and what it finds in one of them its path may    *)
(* hold at that moment.                                                    *)
LEMMA GetKeeps ==
    ASSUME FsInv, UNCHANGED <<fileVars, steps, call, calls, interrupts, may>>, GetHeld'
    PROVE  FsInv'
<1>1. Typed /\ Held /\ Control
    BY DEF FsInv
<1>2. Typed'
    BY <1>1 DEF Typed, fileVars
<1>3. Held' /\ Control'
    BY <1>1, HeldUnchanged, ControlUnchanged DEF fileVars
<1> QED
    BY <1>2, <1>3 DEF FsInv

LEMMA GetStartsKeeps ==
    ASSUME FsInv, NEW p \in Paths, GetStarts(p)
    PROVE  FsInv'
<1>1. GetHeld'
    BY DEF GetStarts, GetHeld, ReadsWhatWasThere
<1> QED
    BY <1>1, GetKeeps DEF GetStarts

LEMMA GetMainKeeps ==
    ASSUME FsInv, GetMain
    PROVE  FsInv'
<1>1. /\ get.path \in Paths /\ may[get.path] \subseteq get.may
      /\ main[get.path] \in may[get.path] \cup {None}
    BY DEF FsInv, GetHeld, Held, GetMain
<1>2. /\ get'.path = get.path /\ get'.may = get.may /\ get'.got = main[get.path]
      /\ get'.at = IF main[get.path] = None THEN "leaf" ELSE "done"
      /\ may' = may
    BY DEF FsInv, GetHeld, GetMain, ReadsWhatWasThere
<1>3. GetHeld'
    BY <1>1, <1>2 DEF GetHeld, ReadsWhatWasThere
<1> QED
    BY <1>3, GetKeeps DEF GetMain

LEMMA GetLeafKeeps ==
    ASSUME FsInv, GetLeaf
    PROVE  FsInv'
<1>1. /\ get.path \in Paths /\ may[get.path] \subseteq get.may
      /\ leaf[get.path] \in may[get.path] \cup {None}
    BY DEF FsInv, GetHeld, Held, GetLeaf
<1>2. /\ get'.path = get.path /\ get'.may = get.may /\ get'.got = leaf[get.path]
      /\ get'.at = "done" /\ may' = may
    BY DEF GetLeaf
<1>3. GetHeld'
    BY <1>1, <1>2 DEF GetHeld, ReadsWhatWasThere
<1> QED
    BY <1>3, GetKeeps DEF GetLeaf

LEMMA GetEndsKeeps ==
    ASSUME FsInv, GetEnds
    PROVE  FsInv'
<1>1. GetHeld'
    BY DEF GetEnds, NoGet, GetHeld, ReadsWhatWasThere
<1> QED
    BY <1>1, GetKeeps DEF GetEnds

-----------------------------------------------------------------------------
\* The invariant and what follows from it

LEMMA InitHolds == Init => FsInv
<1> SUFFICES ASSUME Init PROVE FsInv
    OBVIOUS
<1>1. /\ \A p \in Paths : leaf[p] = None /\ main[p] = None /\ may[p] = {None}
      /\ dirs = {} /\ steps = <<>> /\ call = NoCall /\ calls = 0 /\ interrupts = 0 /\ get = NoGet
    BY DEF Init
<1>2. Typed
    <2>1. /\ leaf \in [Paths -> Contents \cup {None}] /\ main \in [Paths -> Contents \cup {None}]
          /\ may \in [Paths -> SUBSET (Contents \cup {None})]
        BY DEF Init
    <2> QED
        BY <1>1, <2>1 DEF Typed, NoCall
<1>3. Held /\ GetHeld
    BY <1>1 DEF Held, GetHeld, NoGet, Visible, ReadsWhatWasThere
<1>4. Tidy({}, {})
    BY <1>1 DEF Tidy, Closed, Present, Neat, Loose, HasEntries
<1>5. Control
    BY <1>1, <1>4 DEF Control
<1> QED
    BY <1>2, <1>3, <1>5 DEF FsInv

LEMMA NextKeeps == FsInv /\ [Next]_vars => FsInv'
<1> SUFFICES ASSUME FsInv, [Next]_vars PROVE FsInv'
    OBVIOUS
<1>1. ASSUME NEW p \in Paths, NEW expects \in {0, 1}, Set(p, expects) PROVE FsInv'
    BY <1>1, SetStarts
<1>2. ASSUME NEW p \in Paths, RemoveNode(p) PROVE FsInv'
    BY <1>2, RemoveStarts
<1>3. ASSUME NEW p \in Paths, GetStarts(p) PROVE FsInv'
    BY <1>3, GetStartsKeeps
<1>4. CASE Conflict
    BY <1>4, ConflictKeeps
<1>5. CASE Step
    BY <1>5, StepKeeps
<1>6. CASE Finish
    BY <1>6, FinishKeeps
<1>7. CASE Interrupt
    BY <1>7, InterruptKeeps
<1>8. CASE GetMain
    BY <1>8, GetMainKeeps
<1>9. CASE GetLeaf
    BY <1>9, GetLeafKeeps
<1>10. CASE GetEnds
    BY <1>10, GetEndsKeeps
<1>11. CASE UNCHANGED vars
    <2>1. GetHeld'
        BY <1>11, GetUnchanged DEF FsInv, vars
    <2> QED
        BY <1>11, <2>1, GetKeeps DEF vars
<1> QED
    BY <1>1, <1>2, <1>3, <1>4, <1>5, <1>6, <1>7, <1>8, <1>9, <1>10, <1>11 DEF Next

(* FsInv is an invariant.                                                  *)
THEOREM FsInvariance == Spec => []FsInv
BY InitHolds, NextKeeps, PTL DEF Spec

(* fs.ts:126, "can't destroy node data": however the operations of set and *)
(* remove on a path and on what is above and below it fall, and whichever  *)
(* of them fails or is the last before a crash, a path holds what was last *)
(* set, or while a call on it is under way or was interrupted, what was    *)
(* there before.                                                           *)
THEOREM Stored == Spec => []StoredAsAsked
<1>1. FsInv => StoredAsAsked
    BY DEF FsInv, Held, StoredAsAsked
<1> QED
    BY <1>1, FsInvariance, PTL

(* fs.ts:3: between calls, if none was interrupted, every node is in one   *)
(* form, a node with children in dir form, and each directory is there for *)
(* a node or for an entry.                                                 *)
THEOREM FormsAtRest == Spec => []OneForm
<1>1. FsInv => OneForm
    BY AtRest DEF OneForm, Tidy, Neat, Loose
<1> QED
    BY <1>1, FsInvariance, PTL

(* get (fs.ts:108) takes no lock and reads two files: the node it finds is *)
(* one that its path held, by the calls, at some moment of the get.        *)
THEOREM GetsFindWhatWas == Spec => []ReadsWhatWasThere
<1>1. FsInv => ReadsWhatWasThere
    BY DEF FsInv, GetHeld
<1> QED
    BY <1>1, FsInvariance, PTL
=============================================================================
