-------------------------- MODULE MountWatchProofs --------------------------
(***************************************************************************)
(* For any number of users, nodes, watches, changes and failures, and any  *)
(* capacity: an external watch lives exactly as long as the entry that it  *)
(* came with, the outer cache is never older than what was announced, and  *)
(* a stale node under an unbroken watch is about to be dropped.            *)
(***************************************************************************)
EXTENDS MountWatch, WatchStream, SequenceTheorems, TLAPS

USE MountAssumption

Entries == [user : Users, config : Configs, watch : Nat]
Events == {Nothing} \cup [node : Nodes, ver : Nat]
Watches == [config : Configs, st : {"open", "waiting", "stopped"},
            queue : Seq(Events), opened : Nat]
Values == [config : Configs, ver : Nat, watch : Nat, opened : Nat]
Lookups == [at : {"idle", "connect", "mount", "read", "fill"},
            user : Users \cup {Nothing}, ok : BOOLEAN, config : Configs,
            watch : Nat, opened : Nat, ver : Nat]

Typed ==
    /\ config \in Configs /\ writing \in BOOLEAN /\ (writing => config < MaxConfigs)
    /\ ext \in [Configs -> [Nodes -> Nat]]
    /\ told \in [Configs -> [Nodes -> Nat]]
    /\ lookup \in [Nodes -> Lookups]
    /\ \A n \in Nodes : lookup[n].at # "idle" => lookup[n].user \in Users
    /\ mounts \in Seq(Entries)
    /\ watches \in Seq(Watches)
    /\ cached \in [Nodes -> {Nothing} \cup Values]

Holding == {n \in Nodes : lookup[n].at \in {"mount", "read", "fill"}}
Waiting == {n \in Nodes : lookup[n].at = "mount"}

(* Whatever names a watch names a watch of its own config, or a stopped    *)
(* one; entries and lookups that wait to be entered name distinct ones.    *)
Matches(w, c) == w \in DOMAIN watches /\ (watches[w].st = "stopped" \/ watches[w].config = c)

Named ==
    /\ \A i \in DOMAIN mounts : Matches(mounts[i].watch, mounts[i].config)
    /\ \A n \in Holding : Matches(lookup[n].watch, lookup[n].config)
    /\ \A n \in Nodes : cached[n] # Nothing => Matches(cached[n].watch, cached[n].config)

Distinct ==
    /\ \A i, j \in DOMAIN mounts : mounts[i].watch = mounts[j].watch => i = j
    /\ \A m, n \in Waiting : lookup[m].watch = lookup[n].watch => m = n
    /\ \A i \in DOMAIN mounts, n \in Waiting : mounts[i].watch # lookup[n].watch

(* Nothing is announced that is newer than the store ...                   *)
Announced ==
    /\ \A c \in Configs, n \in Nodes : told[c][n] <= ext[c][n]
    /\ \A w \in DOMAIN watches : \A i \in DOMAIN watches[w].queue :
        LET e == watches[w].queue[i] IN
        e # Nothing => e.ver <= ext[watches[w].config][e.node]

(* ... and what a read will put into the outer cache is as new.            *)
Fills(n) == lookup[n].at = "fill" /\ lookup[n].ok

FillsAsNew ==
    \A n \in Nodes : Fills(n) => lookup[n].ver >= told[lookup[n].config][n]

(* A value of node n that was read under a watch ...                       *)
Reported(n, v) ==
    LET q == watches[v.watch].queue IN
    Open(v.watch) /\ watches[v.watch].opened = v.opened /\ v.ver < ext[v.config][n]
        => \E i \in DOMAIN q : q[i].node = n

NotAhead(v) == watches[v.watch].st # "stopped" => v.opened <= watches[v.watch].opened

FillsReported ==
    \A n \in Nodes : Fills(n) => Reported(n, lookup[n]) /\ NotAhead(lookup[n])
CachedNotAhead ==
    \A n \in Nodes : cached[n] # Nothing => NotAhead(cached[n])

MountInv ==
    /\ Typed /\ TypeOK /\ Named /\ Distinct /\ WatchIffMounted
    /\ Announced /\ FillsAsNew /\ CacheIsAsNewAsEvents
    /\ FillsReported /\ CachedNotAhead /\ StaleIsReported

-----------------------------------------------------------------------------
LEMMA RemoveAtProperties ==
    ASSUME NEW S, NEW s \in Seq(S), NEW i \in 1..Len(s)
    PROVE  /\ RemoveAt(s, i) \in Seq(S)
           /\ Len(RemoveAt(s, i)) = Len(s) - 1
           /\ \A j \in 1..(Len(s) - 1) : RemoveAt(s, i)[j] = IF j < i THEN s[j] ELSE s[j + 1]
<1> DEFINE before == SubSeq(s, 1, i - 1)
           after == SubSeq(s, i + 1, Len(s))
<1>1. Len(s) \in Nat /\ \A j \in 1..Len(s) : s[j] \in S
    BY LenProperties, ElementOfSeq
<1>2. /\ before \in Seq(S) /\ Len(before) = i - 1
      /\ \A j \in 1..(i - 1) : before[j] = s[j]
    <2>1. /\ before \in Seq(S)
          /\ Len(before) = IF 1 <= i - 1 THEN i - 1 - 1 + 1 ELSE 0
          /\ \A j \in 1..(i - 1 - 1 + 1) : before[j] = s[1 + j - 1]
        BY <1>1, SubSeqProperties
    <2> HIDE DEF before
    <2> QED
        BY <1>1, <2>1
<1>3. /\ after \in Seq(S) /\ Len(after) = Len(s) - i
      /\ \A j \in 1..(Len(s) - i) : after[j] = s[i + j]
    <2>1. /\ after \in Seq(S)
          /\ Len(after) = IF i + 1 <= Len(s) THEN Len(s) - (i + 1) + 1 ELSE 0
          /\ \A j \in 1..(Len(s) - (i + 1) + 1) : after[j] = s[i + 1 + j - 1]
        BY <1>1, SubSeqProperties
    <2> HIDE DEF after
    <2> QED
        BY <1>1, <2>1
<1>4. RemoveAt(s, i) = before \o after
    BY DEF RemoveAt
<1> HIDE DEF before, after
<1>5. /\ before \o after \in Seq(S)
      /\ Len(before \o after) = Len(before) + Len(after)
      /\ \A j \in 1..(Len(before) + Len(after)) : (before \o after)[j] =
            IF j <= Len(before) THEN before[j] ELSE after[j - Len(before)]
    BY <1>2, <1>3, ConcatProperties
<1>6. ASSUME NEW j \in 1..(Len(s) - 1)
      PROVE  (before \o after)[j] = IF j < i THEN s[j] ELSE s[j + 1]
    <2>1. CASE j < i
        BY <1>1, <1>2, <1>3, <1>5, <2>1
    <2>2. CASE ~(j < i)
        <3>1. /\ Len(before) = i - 1 /\ Len(after) = Len(s) - i /\ Len(s) \in Nat
              /\ i \in 1..Len(s)
            BY <1>1, <1>2, <1>3
        <3>2. /\ j - (i - 1) \in 1..(Len(s) - i) /\ i + (j - (i - 1)) = j + 1
              /\ j \in 1..(i - 1 + (Len(s) - i)) /\ ~(j <= i - 1)
            BY <3>1, <2>2
        <3>3. (before \o after)[j] = after[j - (i - 1)]
            BY <3>1, <3>2, <1>5
        <3>4. after[j - (i - 1)] = s[i + (j - (i - 1))]
            BY <3>2, <1>3
        <3> QED
            BY <2>2, <3>2, <3>3, <3>4
    <2> QED
        BY <2>1, <2>2
<1> QED
    BY <1>1, <1>2, <1>3, <1>4, <1>5, <1>6

LEMMA Elements ==
    ASSUME Typed
    PROVE  /\ DOMAIN mounts = 1..Len(mounts) /\ Len(mounts) \in Nat
           /\ \A i \in DOMAIN mounts : mounts[i] \in Entries
           /\ DOMAIN watches = 1..Len(watches) /\ Len(watches) \in Nat
           /\ \A w \in DOMAIN watches : watches[w] \in Watches
<1>1. mounts \in Seq(Entries) /\ watches \in Seq(Watches)
    BY DEF Typed
<1> QED
    BY <1>1, LenProperties, ElementOfSeq

LEMMA AbortProperties ==
    ASSUME NEW W \in Seq(Watches), NEW E
    PROVE  /\ Abort(E, W) \in Seq(Watches)
           /\ Len(Abort(E, W)) = Len(W)
           /\ \A w \in 1..Len(W) :
                Abort(E, W)[w] = IF \E e \in E : e.watch = w THEN Stopped ELSE W[w]
<1>1. /\ DOMAIN W = 1..Len(W) /\ Len(W) \in Nat
      /\ \A w \in 1..Len(W) : W[w] \in Watches
    BY LenProperties, ElementOfSeq
<1>2. Stopped \in Watches
    BY EmptySeq DEF Stopped, Watches, Configs
<1>3. Abort(E, W) = [w \in 1..Len(W) |-> IF \E e \in E : e.watch = w THEN Stopped ELSE W[w]]
    BY <1>1 DEF Abort
<1>4. \A w \in 1..Len(W) : (IF \E e \in E : e.watch = w THEN Stopped ELSE W[w]) \in Watches
    BY <1>1, <1>2
<1>5. Abort(E, W) \in [1..Len(W) -> Watches]
    BY <1>3, <1>4
<1>6. Abort(E, W) \in Seq(Watches)
    BY <1>1, <1>5, SeqDef
<1>7. DOMAIN Abort(E, W) = 1..Len(Abort(E, W)) /\ Len(Abort(E, W)) \in Nat
    BY <1>6, LenProperties
<1>8. Len(Abort(E, W)) = Len(W)
    BY <1>1, <1>5, <1>7
<1> QED
    BY <1>3, <1>6, <1>8

LEMMA InitMountInv == Init => MountInv
<1> SUFFICES ASSUME Init PROVE MountInv
    OBVIOUS
<1> USE DEF Init
<1>1. Typed
    <2>1. 1 \in Configs
        BY DEF Configs
    <2>2. Idle \in Lookups /\ Idle.at = "idle"
        BY <2>1 DEF Idle, Lookups
    <2>3. mounts \in Seq(Entries) /\ watches \in Seq(Watches)
        BY EmptySeq
    <2> QED
        BY <2>1, <2>2, <2>3 DEF Typed
<1>2. DOMAIN mounts = {} /\ DOMAIN watches = {} /\ Len(mounts) = 0
    OBVIOUS
<1>3. TypeOK
    BY <1>2 DEF TypeOK, Idle, Configs
<1> QED
    BY <1>1, <1>2, <1>3 DEF MountInv, Named, Distinct, WatchIffMounted, Announced, FillsAsNew,
        CacheIsAsNewAsEvents, FillsReported, CachedNotAhead, StaleIsReported, Fills,
        Holding, Waiting, Idle

-----------------------------------------------------------------------------
\* Lookups

LEMMA LookupKeeps ==
    ASSUME MountInv, NEW n \in Nodes, NEW u \in Users, Lookup(n, u)
    PROVE  MountInv'
<1> USE DEF MountInv
<1>1. /\ UNCHANGED <<config, writing, ext, mounts, watches, cached, told>>
      /\ lookup \in [Nodes -> Lookups] /\ lookup[n].at = "idle"
    BY DEF Lookup, Typed
<1>2. PICK new : /\ lookup' = [lookup EXCEPT ![n] = new]
                 /\ new \in Lookups /\ new.user = u /\ new.at \in {"connect", "read"}
                 /\ new.at = "read" => \E i \in DOMAIN mounts :
                        new.watch = mounts[i].watch /\ new.config = mounts[i].config
    <2>1. CASE Entry(u) = {}
        <3> DEFINE new == [Idle EXCEPT !.at = "connect", !.user = u, !.ok = TRUE, !.config = config]
        <3>1. new \in Lookups /\ new.user = u /\ new.at = "connect"
            BY DEF Idle, Lookups, Typed
        <3>2. lookup' = [lookup EXCEPT ![n] = new]
            BY <2>1 DEF Lookup
        <3> HIDE DEF new
        <3> QED
            BY <3>1, <3>2
    <2>2. CASE Entry(u) # {}
        <3> DEFINE e == CHOOSE x \in Entry(u) : TRUE
                   new == [Idle EXCEPT !.at = "read", !.user = u, !.ok = TRUE,
                                       !.config = e.config, !.watch = e.watch]
        <3>1. e \in Entry(u)
            BY <2>2
        <3>2. lookup' = [lookup EXCEPT ![n] = new]
            BY <2>2 DEF Lookup
        <3> HIDE DEF e
        <3>3. PICK i \in DOMAIN mounts : e = mounts[i]
            <4>1. e \in ToSet(mounts)
                BY <3>1 DEF Entry
            <4> QED
                BY <4>1 DEF ToSet
        <3>4. e.config \in Configs /\ e.watch \in Nat
            BY <3>3, Elements DEF Entries
        <3>5. /\ new \in Lookups /\ new.user = u /\ new.at = "read"
              /\ new.watch = e.watch /\ new.config = e.config
            BY <3>4 DEF Idle, Lookups
        <3> HIDE DEF new
        <3> QED
            BY <3>2, <3>3, <3>5
    <2> QED
        BY <2>1, <2>2
<1>3. lookup'[n] = new /\ \A m \in Nodes \ {n} : lookup'[m] = lookup[m]
    BY <1>1, <1>2
<1>4. Typed'
    BY <1>1, <1>2, <1>3 DEF Typed
<1>5. Waiting' = Waiting /\ \A m \in Waiting : lookup'[m] = lookup[m]
    BY <1>1, <1>2, <1>3 DEF Waiting
<1>6. Named' /\ TypeOK'
    BY <1>1, <1>2, <1>3 DEF Named, Matches, Holding, TypeOK
<1>7. Distinct'
    BY <1>1, <1>5 DEF Distinct
<1>8. WatchIffMounted'
    BY <1>1, <1>2, <1>3 DEF WatchIffMounted
<1>9. Announced' /\ CacheIsAsNewAsEvents' /\ CachedNotAhead' /\ StaleIsReported'
    BY <1>1 DEF Announced, CacheIsAsNewAsEvents, CachedNotAhead, NotAhead, StaleIsReported, Open
<1>10. FillsAsNew' /\ FillsReported'
    BY <1>1, <1>2, <1>3 DEF FillsAsNew, FillsReported, Fills, Reported, NotAhead, Open
<1> QED
    BY <1>4, <1>6, <1>7, <1>8, <1>9, <1>10

LEMMA ConnectFailsKeeps ==
    ASSUME MountInv, NEW n \in Nodes, ConnectFails(n)
    PROVE  MountInv'
<1> USE DEF MountInv
<1>1. /\ UNCHANGED <<config, writing, ext, mounts, watches, cached, told>>
      /\ lookup \in [Nodes -> Lookups] /\ lookup[n].at = "connect"
      /\ lookup' = [lookup EXCEPT ![n] = Idle] /\ Idle.at = "idle" /\ Idle \in Lookups
    <2>1. 1 \in Configs
        BY DEF Configs
    <2> QED
        BY <2>1 DEF ConnectFails, Typed, Idle, Lookups
<1>2. lookup'[n] = Idle /\ \A m \in Nodes \ {n} : lookup'[m] = lookup[m]
    BY <1>1
<1>3. Typed'
    BY <1>1, <1>2 DEF Typed
<1>4. Waiting' = Waiting /\ \A m \in Waiting : lookup'[m] = lookup[m]
    BY <1>1, <1>2 DEF Waiting
<1>5. Named' /\ TypeOK'
    BY <1>1, <1>2 DEF Named, Matches, Holding, TypeOK
<1>6. Distinct'
    BY <1>1, <1>4 DEF Distinct
<1>7. WatchIffMounted'
    BY <1>1, <1>2 DEF WatchIffMounted
<1>8. Announced' /\ CacheIsAsNewAsEvents' /\ CachedNotAhead' /\ StaleIsReported'
    BY <1>1 DEF Announced, CacheIsAsNewAsEvents, CachedNotAhead, NotAhead, StaleIsReported, Open
<1>9. FillsAsNew' /\ FillsReported'
    BY <1>1, <1>2 DEF FillsAsNew, FillsReported, Fills, Reported, NotAhead, Open
<1> QED
    BY <1>3, <1>5, <1>6, <1>7, <1>8, <1>9

(* The watch is new, and so no one else names it.                          *)
LEMMA ConnectedKeeps ==
    ASSUME MountInv, NEW n \in Nodes, Connected(n)
    PROVE  MountInv'
<1> USE DEF MountInv
<1> DEFINE w0 == Len(watches) + 1
           watch == [config |-> lookup[n].config, st |-> "open", queue |-> <<>>, opened |-> 1]
<1>1. /\ UNCHANGED <<config, writing, ext, mounts, cached, told>>
      /\ lookup \in [Nodes -> Lookups] /\ lookup[n].at = "connect"
      /\ watches' = Append(watches, watch)
      /\ lookup' = [lookup EXCEPT ![n].at = "mount", ![n].watch = Len(watches')]
    BY DEF Connected, Typed
<1>2. watch \in Watches /\ watches \in Seq(Watches)
    BY <1>1, EmptySeq DEF Watches, Lookups, Typed
<1>3. /\ watches' \in Seq(Watches) /\ Len(watches') = w0 /\ Len(watches) \in Nat
      /\ DOMAIN watches = 1..Len(watches) /\ DOMAIN watches' = 1..w0
      /\ \A w \in DOMAIN watches : watches'[w] = watches[w]
      /\ watches'[w0] = watch
    <2> HIDE DEF watch
    <2>1. /\ watches' \in Seq(Watches) /\ Len(watches') = w0
          /\ \A w \in 1..Len(watches) : watches'[w] = watches[w]
          /\ watches'[w0] = watch
        BY <1>1, <1>2, AppendProperties
    <2>2. DOMAIN watches' = 1..Len(watches')
        BY <2>1, LenProperties
    <2> QED
        <3>1. Len(watches) \in Nat /\ DOMAIN watches = 1..Len(watches)
            BY Elements
        <3> QED
            BY <2>1, <2>2, <3>1
<1>4. /\ watch.st = "open" /\ watch.config = lookup[n].config /\ watch.queue = <<>>
    OBVIOUS
<1> HIDE DEF watch
<1>5. /\ lookup'[n].at = "mount" /\ lookup'[n].watch = w0
      /\ lookup'[n].config = lookup[n].config /\ lookup'[n].user = lookup[n].user
      /\ lookup' \in [Nodes -> Lookups]
      /\ \A m \in Nodes \ {n} : lookup'[m] = lookup[m]
    <2> DEFINE new == [lookup[n] EXCEPT !.at = "mount", !.watch = w0]
    <2>1. lookup' = [lookup EXCEPT ![n] = new]
        BY <1>1, <1>3
    <2>2. /\ new \in Lookups /\ new.at = "mount" /\ new.watch = w0
          /\ new.config = lookup[n].config /\ new.user = lookup[n].user
        <3>1. lookup[n] \in Lookups /\ w0 \in Nat
            BY <1>1, <1>3
        <3> HIDE DEF w0
        <3> QED
            BY <3>1 DEF Lookups
    <2> HIDE DEF new
    <2> QED
        BY <1>1, <2>1, <2>2
<1>6. w0 \notin DOMAIN watches
    BY <1>3
<1>7. Typed'
    BY <1>1, <1>3, <1>5 DEF Typed
<1>8. Waiting' = Waiting \cup {n} /\ n \notin Waiting
    BY <1>1, <1>5 DEF Waiting
<1>9. Named'
    BY <1>1, <1>3, <1>4, <1>5 DEF Named, Matches, Holding
<1>10. TypeOK'
    BY <1>1, <1>3, <1>5 DEF TypeOK
<1>11. /\ \A i \in DOMAIN mounts : mounts[i].watch # w0
       /\ \A m \in Waiting : lookup[m].watch # w0
    BY <1>6 DEF Named, Matches, Holding, Waiting
<1>12. Distinct'
    BY <1>1, <1>5, <1>8, <1>11 DEF Distinct, Waiting
<1>13. WatchIffMounted'
    <2>1. ASSUME NEW w \in DOMAIN watches
          PROVE  watches'[w].st # "stopped" <=>
                    \/ \E i \in DOMAIN mounts : mounts[i].watch = w
                    \/ \E m \in Nodes : lookup'[m].at = "mount" /\ lookup'[m].watch = w
        <3>1. watches[w].st # "stopped" <=>
                    \/ \E i \in DOMAIN mounts : mounts[i].watch = w
                    \/ \E m \in Nodes : lookup[m].at = "mount" /\ lookup[m].watch = w
            BY DEF WatchIffMounted
        <3>2. \A m \in Nodes : lookup[m].at = "mount" /\ lookup[m].watch = w
                    <=> lookup'[m].at = "mount" /\ lookup'[m].watch = w
            BY <1>1, <1>5, <1>6
        <3> QED
            BY <1>3, <3>1, <3>2
    <2>2. watches'[w0].st # "stopped" /\ lookup'[n].at = "mount" /\ lookup'[n].watch = w0
        BY <1>3, <1>4, <1>5
    <2>3. \A w \in DOMAIN watches' : w \in DOMAIN watches \/ w = w0
        BY <1>3
    <2>4. ASSUME NEW w \in DOMAIN watches'
          PROVE  watches'[w].st # "stopped" <=>
                    \/ \E i \in DOMAIN mounts' : mounts'[i].watch = w
                    \/ \E m \in Nodes : lookup'[m].at = "mount" /\ lookup'[m].watch = w
        <3>1. CASE w \in DOMAIN watches
            BY <1>1, <2>1, <3>1
        <3>2. CASE w = w0
            BY <2>2, <3>2
        <3> QED
            BY <2>3, <3>1, <3>2
    <2> QED
        BY <2>4 DEF WatchIffMounted
<1>14. CacheIsAsNewAsEvents' /\ FillsAsNew'
    BY <1>1, <1>5 DEF CacheIsAsNewAsEvents, FillsAsNew, Fills
<1>15. Announced'
    BY <1>1, <1>3, <1>4 DEF Announced
<1>16. CachedNotAhead' /\ StaleIsReported'
    <2>1. \A m \in Nodes : cached[m] # Nothing =>
            cached[m].watch \in DOMAIN watches /\ watches'[cached[m].watch] = watches[cached[m].watch]
        BY <1>3 DEF Named, Matches
    <2>2. cached' = cached /\ ext' = ext
        BY <1>1
    <2>3. CachedNotAhead'
        BY <2>1, <2>2 DEF CachedNotAhead, NotAhead
    <2>4. StaleIsReported'
        BY <2>1, <2>2 DEF StaleIsReported, Open
    <2> QED
        BY <2>3, <2>4
<1>17. FillsReported'
    <2>1. \A m \in Nodes : Fills(m)' =>
            /\ Fills(m) /\ lookup'[m] = lookup[m] /\ lookup[m].watch \in DOMAIN watches
        BY <1>5 DEF Fills, Named, Matches, Holding
    <2>2. ASSUME NEW m \in Nodes, Fills(m)'
          PROVE  Reported(m, lookup[m])' /\ NotAhead(lookup[m])'
        <3>1. Reported(m, lookup[m]) /\ NotAhead(lookup[m])
            BY <2>1, <2>2 DEF FillsReported
        <3>2. watches'[lookup[m].watch] = watches[lookup[m].watch] /\ lookup'[m] = lookup[m]
            BY <2>1, <2>2, <1>3
        <3>3. NotAhead(lookup[m])'
            BY <3>1, <3>2 DEF NotAhead
        <3>4. ext' = ext
            BY <1>1
        <3>5. Reported(m, lookup[m])'
            BY <3>1, <3>2, <3>4 DEF Reported, Open
        <3> QED
            BY <3>3, <3>5
    <2> QED
        BY <2>2 DEF FillsReported
<1> QED
    BY <1>7, <1>9, <1>10, <1>12, <1>13, <1>14, <1>15, <1>16, <1>17

LEMMA ReadKeeps ==
    ASSUME MountInv, NEW n \in Nodes, Read(n)
    PROVE  MountInv'
<1> USE DEF MountInv
<1> DEFINE new == [lookup[n] EXCEPT !.at = "fill", !.ver = ext[lookup[n].config][n],
                                    !.opened = watches[lookup[n].watch].opened]
<1>1. /\ UNCHANGED <<config, writing, ext, mounts, watches, cached, told>>
      /\ lookup \in [Nodes -> Lookups] /\ lookup[n].at = "read"
      /\ lookup' = [lookup EXCEPT ![n] = new]
    BY DEF Read, Typed
<1>2. /\ new \in Lookups /\ new.at = "fill" /\ new.user = lookup[n].user
      /\ new.config = lookup[n].config /\ new.watch = lookup[n].watch
      /\ new.ver = ext[new.config][n] /\ new.opened = watches[new.watch].opened
    <2>1. lookup[n] \in Lookups /\ lookup[n].config \in Configs
        BY <1>1 DEF Lookups
    <2>2. ext[lookup[n].config][n] \in Nat
        BY <2>1 DEF Typed
    <2>3. watches[lookup[n].watch] \in Watches
        BY <1>1, Elements DEF Named, Holding, Matches
    <2> QED
        BY <2>1, <2>2, <2>3 DEF Lookups, Watches
<1> HIDE DEF new
<1>3. lookup'[n] = new /\ \A m \in Nodes \ {n} : lookup'[m] = lookup[m]
    BY <1>1
<1>4. Typed'
    BY <1>1, <1>2, <1>3 DEF Typed
<1>5. Waiting' = Waiting /\ \A m \in Waiting : lookup'[m] = lookup[m]
    BY <1>1, <1>2, <1>3 DEF Waiting
<1>6. Named' /\ TypeOK'
    BY <1>1, <1>2, <1>3 DEF Named, Matches, Holding, TypeOK
<1>7. Distinct'
    BY <1>1, <1>5 DEF Distinct
<1>8. WatchIffMounted'
    BY <1>1, <1>2, <1>3 DEF WatchIffMounted
<1>9. Announced' /\ CacheIsAsNewAsEvents' /\ CachedNotAhead' /\ StaleIsReported'
    BY <1>1 DEF Announced, CacheIsAsNewAsEvents, CachedNotAhead, NotAhead, StaleIsReported, Open
<1>10. new.ver >= told[new.config][n]
    <2>1. new.config \in Configs /\ ext[new.config][n] \in Nat /\ told[new.config][n] \in Nat
        <3>1. new.config \in Configs
            BY <1>2 DEF Lookups
        <3> QED
            BY <3>1 DEF Typed
    <2> QED
        BY <2>1, <1>2 DEF Announced
<1>11. FillsAsNew'
    BY <1>1, <1>3, <1>10 DEF FillsAsNew, Fills
<1>12. ASSUME NEW m \in Nodes, Fills(m)'
       PROVE  Reported(m, lookup[m])' /\ NotAhead(lookup[m])'
    <2>1. UNCHANGED <<ext, watches>>
        BY <1>1
    <2>2. CASE m = n
        <3>1. new.opened \in Nat /\ new.ver \in Nat
            BY <1>2 DEF Lookups
        <3> QED
            BY <1>2, <1>3, <2>1, <2>2, <3>1 DEF Reported, NotAhead
    <2>3. CASE m # n
        <3>1. lookup'[m] = lookup[m] /\ Reported(m, lookup[m]) /\ NotAhead(lookup[m])
            BY <1>3, <1>12, <2>3 DEF FillsReported, Fills
        <3> QED
            BY <2>1, <3>1 DEF Reported, NotAhead, Open
    <2> QED
        BY <2>2, <2>3
<1>13. FillsReported'
    BY <1>12 DEF FillsReported
<1> QED
    BY <1>4, <1>6, <1>7, <1>8, <1>9, <1>11, <1>13

LEMMA FillKeeps ==
    ASSUME MountInv, NEW n \in Nodes, Fill(n)
    PROVE  MountInv'
<1> USE DEF MountInv
<1> DEFINE value == Value(n)
<1>1. /\ UNCHANGED <<config, writing, ext, mounts, watches, told>>
      /\ lookup \in [Nodes -> Lookups] /\ cached \in [Nodes -> {Nothing} \cup Values]
      /\ lookup[n].at = "fill"
      /\ cached' = [cached EXCEPT ![n] = IF lookup[n].ok THEN value ELSE @]
      /\ lookup' = [lookup EXCEPT ![n] = Idle]
    BY DEF Fill, Typed
<1>2. /\ value \in Values
      /\ value.config = lookup[n].config /\ value.ver = lookup[n].ver
      /\ value.watch = lookup[n].watch /\ value.opened = lookup[n].opened
    BY <1>1 DEF Value, Values, Lookups
<1>3. Idle.at = "idle" /\ Idle \in Lookups
    <2>1. 1 \in Configs
        BY DEF Configs
    <2> QED
        BY <2>1 DEF Idle, Lookups
<1> HIDE DEF value
<1>4. lookup'[n] = Idle /\ \A m \in Nodes \ {n} : lookup'[m] = lookup[m]
    BY <1>1
<1>5. /\ cached' \in [Nodes -> {Nothing} \cup Values]
      /\ cached'[n] = cached[n] \/ (Fills(n) /\ cached'[n] = value)
      /\ \A m \in Nodes \ {n} : cached'[m] = cached[m]
    BY <1>1, <1>2 DEF Fills
<1>6. Typed'
    BY <1>1, <1>3, <1>4, <1>5 DEF Typed
<1>7. Waiting' = Waiting /\ \A m \in Waiting : lookup'[m] = lookup[m]
    BY <1>1, <1>3, <1>4 DEF Waiting
<1>8. TypeOK'
    BY <1>1, <1>3, <1>4 DEF TypeOK
<1>9. Named'
    <2>1. n \in Holding
        BY <1>1 DEF Holding
    <2>2. \A m \in Holding' : m \in Holding /\ lookup'[m] = lookup[m]
        BY <1>3, <1>4 DEF Holding
    <2> QED
        BY <2>1, <2>2, <1>1, <1>2, <1>5 DEF Named, Matches
<1>10. Distinct'
    BY <1>1, <1>7 DEF Distinct
<1>11. WatchIffMounted'
    BY <1>1, <1>3, <1>4 DEF WatchIffMounted
<1>12. Announced'
    BY <1>1 DEF Announced
<1>13. FillsAsNew' /\ FillsReported'
    BY <1>1, <1>3, <1>4 DEF FillsAsNew, FillsReported, Fills, Reported, NotAhead, Open
<1>14. ASSUME NEW m \in Nodes, cached'[m] # Nothing
       PROVE  /\ cached'[m].ver >= told[cached'[m].config][m]
              /\ NotAhead(cached[m])' /\ Reported(m, cached[m])'
    <2>1. UNCHANGED <<ext, watches>>
        BY <1>1
    <2>2. CASE cached'[m] = cached[m]
        <3>1. /\ cached[m].ver >= told[cached[m].config][m]
              /\ NotAhead(cached[m]) /\ Reported(m, cached[m])
            BY <1>14, <2>2 DEF CacheIsAsNewAsEvents, CachedNotAhead, StaleIsReported, Reported
        <3> QED
            BY <2>1, <2>2, <3>1 DEF Reported, NotAhead, Open
    <2>3. CASE m = n /\ Fills(n) /\ cached'[n] = value
        <3>1. /\ lookup[n].ver >= told[lookup[n].config][n]
              /\ NotAhead(lookup[n]) /\ Reported(n, lookup[n])
            BY <2>3 DEF FillsAsNew, FillsReported
        <3> QED
            BY <1>2, <2>1, <2>3, <3>1 DEF Reported, NotAhead, Open
    <2> QED
        BY <1>5, <2>2, <2>3
<1>15. CacheIsAsNewAsEvents' /\ CachedNotAhead' /\ StaleIsReported'
    BY <1>1, <1>14 DEF CacheIsAsNewAsEvents, CachedNotAhead, StaleIsReported, Reported
<1> QED
    BY <1>6, <1>8, <1>9, <1>10, <1>11, <1>12, <1>13, <1>15

LEMMA StoreKeeps ==
    ASSUME MountInv, Store \/ UNCHANGED vars
    PROVE  MountInv'
<1> USE DEF MountInv
<1>1. UNCHANGED <<ext, lookup, mounts, watches, cached, told>>
    BY DEF Store, vars
<1>2. config' \in Configs /\ writing' \in BOOLEAN /\ (writing' => config' < MaxConfigs)
    <2>1. /\ config \in 1..MaxConfigs /\ writing \in BOOLEAN /\ (writing => config < MaxConfigs)
          /\ MaxConfigs \in Nat
        BY DEF Typed, Configs
    <2>2. CASE Store
        <3>1. writing /\ config' = config + 1 /\ writing' = FALSE
            BY <2>2 DEF Store
        <3>2. config < MaxConfigs
            BY <2>1, <3>1
        <3>3. config + 1 \in Configs
            BY <2>1, <3>2 DEF Configs
        <3> QED
            BY <3>1, <3>3
    <2>3. CASE UNCHANGED vars
        BY <2>1, <2>3 DEF vars, Configs
    <2> QED
        BY <2>2, <2>3
<1>3. Typed' /\ TypeOK'
    BY <1>1, <1>2 DEF Typed, TypeOK
<1>4. Named' /\ Distinct' /\ WatchIffMounted'
    BY <1>1 DEF Named, Matches, Holding, Distinct, Waiting, WatchIffMounted
<1>5. Announced' /\ FillsAsNew' /\ CacheIsAsNewAsEvents'
    BY <1>1 DEF Announced, FillsAsNew, Fills, CacheIsAsNewAsEvents
<1>6. CachedNotAhead' /\ StaleIsReported'
    BY <1>1 DEF Reported, NotAhead, Open, CachedNotAhead, StaleIsReported
<1>7. FillsReported'
    BY <1>1 DEF FillsReported, Fills, Reported, NotAhead, Open
<1> QED
    BY <1>3, <1>4, <1>5, <1>6, <1>7

LEMMA LeftEntries ==
    ASSUME MountInv, NEW k \in DOMAIN mounts
    PROVE  LET left == RemoveAt(mounts, k) IN
           /\ left \in Seq(Entries) /\ Len(left) \in Nat /\ Len(left) < CacheMax
           /\ \A j \in 1..Len(left) : \E i \in DOMAIN mounts \ {k} : left[j] = mounts[i]
           /\ \A i \in DOMAIN mounts \ {k} : \E j \in 1..Len(left) : left[j] = mounts[i]
           /\ \A i, j \in 1..Len(left) : left[i].watch = left[j].watch => i = j
           /\ \A i, j \in 1..Len(left) : left[i].user = left[j].user => i = j
<1> USE DEF MountInv
<1> DEFINE left == RemoveAt(mounts, k)
<1>1. /\ mounts \in Seq(Entries) /\ Len(mounts) \in Nat /\ DOMAIN mounts = 1..Len(mounts)
      /\ Len(mounts) <= CacheMax
      /\ \A i, j \in DOMAIN mounts : mounts[i].user = mounts[j].user => i = j
      /\ \A i, j \in DOMAIN mounts : mounts[i].watch = mounts[j].watch => i = j
    BY Elements DEF Typed, TypeOK, Distinct
<1>2. /\ left \in Seq(Entries) /\ Len(left) = Len(mounts) - 1
      /\ \A j \in 1..(Len(mounts) - 1) :
            left[j] = IF j < k THEN mounts[j] ELSE mounts[j + 1]
    <2>1. mounts \in Seq(Entries) /\ k \in 1..Len(mounts)
        BY <1>1
    <2> QED
        BY <2>1, RemoveAtProperties
<1> HIDE DEF left
<1> DEFINE From(j) == IF j < k THEN j ELSE j + 1
<1>2a. /\ \A j \in 1..Len(left) : From(j) \in DOMAIN mounts \ {k} /\ left[j] = mounts[From(j)]
      /\ \A i, j \in 1..Len(left) : From(i) = From(j) => i = j
    BY <1>1, <1>2
<1> HIDE DEF From
<1>3. \A j \in 1..Len(left) : \E i \in DOMAIN mounts \ {k} : left[j] = mounts[i]
    BY <1>2a
<1>4. ASSUME NEW i \in DOMAIN mounts \ {k}
      PROVE  \E j \in 1..Len(left) : left[j] = mounts[i]
    <2>1. CASE i < k
        BY <1>1, <1>2, <2>1
    <2>2. CASE i > k
        <3>1. i - 1 \in 1..Len(left) /\ ~(i - 1 < k) /\ i - 1 + 1 = i
            BY <1>1, <1>2, <2>2
        <3>2. left[i - 1] = mounts[i]
            BY <1>2, <3>1
        <3> QED
            BY <3>1, <3>2
    <2> QED
        BY <1>1, <2>1, <2>2
<1>5. \A i, j \in 1..Len(left) :
            /\ left[i].watch = left[j].watch => i = j
            /\ left[i].user = left[j].user => i = j
    BY <1>1, <1>2a
<1>6. Len(left) \in Nat /\ Len(left) < CacheMax
    BY <1>1, <1>2
<1> QED
    BY <1>2, <1>3, <1>4, <1>5, <1>6 DEF left

(* An entry goes, if one has to, and its watch with it; the watch of the   *)
(* lookup is from now on the entry's.                                      *)
LEMMA MountKeeps ==
    ASSUME MountInv, NEW n \in Nodes, Mount(n)
    PROVE  MountInv'
<1> USE DEF MountInv
<1> DEFINE gone == Gone(lookup[n].user)
           left == Without(gone)
           entry == [user |-> lookup[n].user, config |-> lookup[n].config,
                     watch |-> lookup[n].watch]
           E == {mounts[i] : i \in gone}
           new == [lookup[n] EXCEPT !.at = "read"]
<1>1. /\ UNCHANGED <<config, writing, ext, cached, told>>
      /\ lookup \in [Nodes -> Lookups] /\ lookup[n].at = "mount"
      /\ mounts' = Append(left, entry)
      /\ watches' = Abort(E, watches)
      /\ lookup' = [lookup EXCEPT ![n] = new]
      /\ mounts \in Seq(Entries) /\ watches \in Seq(Watches)
    BY DEF Mount, Typed
<1>2. /\ entry \in Entries /\ entry.user = lookup[n].user
      /\ entry.config = lookup[n].config /\ entry.watch = lookup[n].watch
    BY <1>1 DEF Entries, Lookups, Typed
<1>3. /\ new \in Lookups /\ new.at = "read" /\ new.user = lookup[n].user
      /\ new.config = lookup[n].config /\ new.watch = lookup[n].watch
    BY <1>1 DEF Lookups
<1>4. /\ Len(mounts) \in Nat /\ DOMAIN mounts = 1..Len(mounts)
      /\ Len(mounts) <= CacheMax
      /\ \A i, j \in DOMAIN mounts : mounts[i].user = mounts[j].user => i = j
    BY Elements DEF TypeOK
<1>5. \/ gone = {} /\ Len(mounts) < CacheMax
      \/ \E i \in DOMAIN mounts : gone = {i}
    <2>1. CASE Own(lookup[n].user) # {}
        BY <1>4, <2>1 DEF Gone, Own
    <2>2. CASE Own(lookup[n].user) = {} /\ Len(mounts) < CacheMax
        BY <1>4, <2>2 DEF Gone
    <2>3. CASE Own(lookup[n].user) = {} /\ Len(mounts) >= CacheMax
        <3>1. 1 \in DOMAIN mounts
            BY <1>4, <2>3
        <3> QED
            BY <2>3, <3>1 DEF Gone
    <2> QED
        BY <1>4, <2>1, <2>2, <2>3
<1>6. \A i \in DOMAIN mounts : mounts[i].user = lookup[n].user => i \in gone
    BY DEF Gone, Own
<1> HIDE DEF gone, entry, new
(* What is left, and where it was.                                         *)
<1>7. /\ left \in Seq(Entries) /\ Len(left) \in Nat /\ Len(left) < CacheMax
      /\ \A j \in 1..Len(left) : \E i \in DOMAIN mounts \ gone : left[j] = mounts[i]
      /\ \A i \in DOMAIN mounts \ gone : \E j \in 1..Len(left) : left[j] = mounts[i]
      /\ \A i, j \in 1..Len(left) : left[i].watch = left[j].watch => i = j
      /\ \A i, j \in 1..Len(left) : left[i].user = left[j].user => i = j
    <2>1. CASE gone = {} /\ Len(mounts) < CacheMax
        BY <1>1, <1>4, <2>1 DEF Without, Distinct
    <2>2. CASE \E k \in DOMAIN mounts : gone = {k}
        <3>1. PICK k \in DOMAIN mounts : gone = {k}
            BY <2>2
        <3>2. left = RemoveAt(mounts, k)
            BY <3>1 DEF Without
        <3>3. left \in Seq(Entries) /\ Len(left) \in Nat /\ Len(left) < CacheMax
            BY <3>2, LeftEntries
        <3>4. /\ \A j \in 1..Len(left) : \E i \in DOMAIN mounts \ {k} : left[j] = mounts[i]
              /\ \A i \in DOMAIN mounts \ {k} : \E j \in 1..Len(left) : left[j] = mounts[i]
            BY <3>2, LeftEntries
        <3>5. /\ \A i, j \in 1..Len(left) : left[i].watch = left[j].watch => i = j
              /\ \A i, j \in 1..Len(left) : left[i].user = left[j].user => i = j
            BY <3>2, LeftEntries
        <3> QED
            BY <3>1, <3>3, <3>4, <3>5
    <2> QED
        BY <1>5, <2>1, <2>2
<1> HIDE DEF left
<1> DEFINE len == Len(left) + 1
<1>8. /\ mounts' \in Seq(Entries) /\ DOMAIN mounts' = 1..len /\ Len(mounts') = len
      /\ \A j \in 1..Len(left) : mounts'[j] = left[j]
      /\ mounts'[len] = entry
    <2>1. /\ mounts' \in Seq(Entries) /\ Len(mounts') = len
          /\ \A j \in 1..Len(left) : mounts'[j] = left[j]
          /\ mounts'[len] = entry
        BY <1>1, <1>2, <1>7, AppendProperties
    <2>2. DOMAIN mounts' = 1..Len(mounts')
        BY <2>1, LenProperties
    <2> QED
        BY <2>1, <2>2
<1>9. \A j \in DOMAIN mounts' :
        \/ j = len /\ mounts'[j] = entry
        \/ j \in 1..Len(left) /\ j # len /\ \E i \in DOMAIN mounts \ gone : mounts'[j] = mounts[i]
    BY <1>7, <1>8
<1>10. \A i \in DOMAIN mounts \ gone : \E j \in DOMAIN mounts' : mounts'[j] = mounts[i]
    <2> SUFFICES ASSUME NEW i \in DOMAIN mounts \ gone
                 PROVE  \E j \in DOMAIN mounts' : mounts'[j] = mounts[i]
        OBVIOUS
    <2>1. PICK j \in 1..Len(left) : left[j] = mounts[i]
        BY <1>7
    <2>2. mounts'[j] = left[j]
        BY <1>8
    <2>3. j \in DOMAIN mounts'
        <3>1. Len(left) \in Nat /\ DOMAIN mounts' = 1..len
            BY <1>7, <1>8
        <3> QED
            BY <3>1
    <2> QED
        BY <2>1, <2>2, <2>3
(* The watches of what goes are stopped, and no others.                    *)
<1>11. /\ watches' \in Seq(Watches) /\ DOMAIN watches' = DOMAIN watches
       /\ \A w \in DOMAIN watches :
            watches'[w] = IF \E i \in gone : mounts[i].watch = w THEN Stopped ELSE watches[w]
    <2>1. /\ watches' \in Seq(Watches) /\ Len(watches') = Len(watches)
          /\ \A w \in 1..Len(watches) :
                watches'[w] = IF \E e \in E : e.watch = w THEN Stopped ELSE watches[w]
        BY <1>1, AbortProperties
    <2>2. /\ DOMAIN watches = 1..Len(watches)
          /\ DOMAIN watches' = 1..Len(watches')
        BY <1>1, <2>1, LenProperties
    <2> QED
        BY <2>1, <2>2
<1>12. lookup'[n] = new /\ \A m \in Nodes \ {n} : lookup'[m] = lookup[m]
    BY <1>1
<1>13. Stopped.st = "stopped" /\ Stopped.queue = <<>>
    BY DEF Stopped
<1>14. Typed'
    BY <1>1, <1>3, <1>8, <1>11, <1>12 DEF Typed
<1>15. gone \subseteq DOMAIN mounts
    BY <1>5
<1> HIDE DEF E
<1>16. /\ n \in Waiting /\ Waiting' = Waiting \ {n}
       /\ \A m \in Waiting' : lookup'[m] = lookup[m]
    BY <1>1, <1>3, <1>12 DEF Waiting
<1>17. Matches(lookup[n].watch, lookup[n].config)
    BY <1>1 DEF Named, Holding
<1>18. \A w \in DOMAIN watches, c \in Configs : Matches(w, c) => Matches(w, c)'
    BY <1>11, <1>13 DEF Matches
<1>19. Named'
    <2>1. \A j \in DOMAIN mounts' : Matches(mounts[j].watch, mounts[j].config)'
        <3>1. \A j \in DOMAIN mounts' : \E w \in DOMAIN watches, c \in Configs :
                /\ mounts'[j].watch = w /\ mounts'[j].config = c /\ Matches(w, c)
            BY <1>2, <1>9, <1>17, Elements DEF Named, Matches, Entries
        <3> QED
            BY <3>1, <1>18
    <2>2. \A m \in Holding' : Matches(lookup[m].watch, lookup[m].config)'
        <3>1. \A m \in Holding' : m \in Holding /\ lookup'[m].watch = lookup[m].watch
                                /\ lookup'[m].config = lookup[m].config
                                /\ lookup[m].config \in Configs
            BY <1>1, <1>3, <1>12 DEF Holding, Lookups
        <3>2. \A m \in Holding : Matches(lookup[m].watch, lookup[m].config)
                                /\ lookup[m].watch \in DOMAIN watches
            BY DEF Named, Matches
        <3> QED
            BY <3>1, <3>2, <1>18
    <2>3. \A m \in Nodes : cached'[m] # Nothing => Matches(cached[m].watch, cached[m].config)'
        <3>1. \A m \in Nodes : cached[m] # Nothing =>
                /\ cached[m].config \in Configs /\ cached[m].watch \in DOMAIN watches
                /\ Matches(cached[m].watch, cached[m].config)
            BY DEF Named, Matches, Typed, Values
        <3> QED
            BY <3>1, <1>1, <1>18
    <2> QED
        BY <2>1, <2>2, <2>3 DEF Named
<1>20. TypeOK'
    <2>1. /\ config' \in Configs /\ Len(mounts') <= CacheMax
        BY <1>1, <1>7, <1>8 DEF TypeOK
    <2>2. \A i, j \in DOMAIN mounts' : mounts'[i].user = mounts'[j].user => i = j
        <3>1. \A j \in 1..Len(left) : mounts'[j].user # entry.user
            <4>1. \A i \in DOMAIN mounts \ gone : mounts[i].user # entry.user
                BY <1>2, <1>6
            <4>2. \A j \in 1..Len(left) : \E i \in DOMAIN mounts \ gone : mounts'[j] = mounts[i]
                BY <1>7, <1>8
            <4> QED
                BY <4>1, <4>2
        <3>2. \A j \in DOMAIN mounts' : j = len \/ j \in 1..Len(left)
            BY <1>9
        <3> QED
            BY <3>1, <3>2, <1>7, <1>8
    <2>3. \A i \in DOMAIN mounts' : mounts'[i].watch \in DOMAIN watches'
        BY <1>19 DEF Named, Matches
    <2>4. \A m \in Nodes : lookup'[m].at \in {"mount", "read", "fill"} => lookup'[m].watch \in DOMAIN watches'
        BY <1>19 DEF Named, Matches, Holding
    <2> QED
        BY <2>1, <2>2, <2>3, <2>4 DEF TypeOK
<1>21. Distinct'
    <2>1. \A i, j \in DOMAIN mounts' : mounts'[i].watch = mounts'[j].watch => i = j
        <3>1. \A j \in 1..Len(left) : mounts'[j].watch # entry.watch
            BY <1>2, <1>7, <1>8, <1>16 DEF Distinct
        <3>2. \A j \in DOMAIN mounts' : j = len \/ j \in 1..Len(left)
            BY <1>9
        <3> QED
            BY <3>1, <3>2, <1>7, <1>8
    <2>2. \A i, m \in Waiting' : lookup'[m].watch = lookup'[i].watch => m = i
        BY <1>16 DEF Distinct
    <2>3. \A i \in DOMAIN mounts', m \in Waiting' : mounts'[i].watch # lookup'[m].watch
        BY <1>2, <1>9, <1>16 DEF Distinct
    <2> QED
        BY <2>1, <2>2, <2>3 DEF Distinct
<1>22. WatchIffMounted'
    <2>1. ASSUME NEW w \in DOMAIN watches
          PROVE  watches'[w].st # "stopped" <=>
                    \/ \E i \in DOMAIN mounts' : mounts'[i].watch = w
                    \/ \E m \in Nodes : lookup'[m].at = "mount" /\ lookup'[m].watch = w
        <3>1. /\ watches[w].st # "stopped" <=>
                    \/ \E i \in DOMAIN mounts : mounts[i].watch = w
                    \/ \E m \in Waiting : lookup[m].watch = w
              /\ (\E m \in Nodes : lookup'[m].at = "mount" /\ lookup'[m].watch = w)
                    <=> \E m \in Waiting' : lookup'[m].watch = w
            BY DEF WatchIffMounted, Waiting
        <3>2. CASE \E i \in gone : mounts[i].watch = w
            <4>1. watches'[w].st = "stopped"
                BY <1>11, <1>13, <3>2
            <4>2. \A j \in DOMAIN mounts' : mounts'[j].watch # w
                BY <1>2, <1>9, <1>15, <1>16, <3>2 DEF Distinct
            <4>3. \A m \in Waiting' : lookup'[m].watch # w
                BY <1>15, <1>16, <3>2 DEF Distinct
            <4> QED
                BY <3>1, <4>1, <4>2, <4>3
        <3>3. CASE ~ \E i \in gone : mounts[i].watch = w
            <4>1. watches'[w] = watches[w]
                BY <1>11, <3>3
            <4>2. (\E j \in DOMAIN mounts' : mounts'[j].watch = w) <=>
                    \/ \E i \in DOMAIN mounts : mounts[i].watch = w
                    \/ lookup[n].watch = w
                <5>1. len \in DOMAIN mounts'
                    BY <1>7, <1>8
                <5> QED
                    BY <5>1, <1>2, <1>8, <1>9, <1>10, <3>3
            <4>3. (\E m \in Waiting : lookup[m].watch = w) <=>
                    \/ lookup[n].watch = w
                    \/ \E m \in Waiting' : lookup'[m].watch = w
                BY <1>16
            <4> QED
                BY <3>1, <4>1, <4>2, <4>3
        <3> QED
            BY <3>2, <3>3
    <2> QED
        BY <2>1, <1>11 DEF WatchIffMounted
<1>23. Announced'
    BY <1>1, <1>11, <1>13 DEF Announced
<1>24. CacheIsAsNewAsEvents' /\ FillsAsNew'
    BY <1>1, <1>3, <1>12 DEF CacheIsAsNewAsEvents, FillsAsNew, Fills
<1>25. \A w \in DOMAIN watches : watches'[w] = watches[w] \/ watches'[w].st = "stopped"
    BY <1>11, <1>13
<1>26. ext' = ext /\ cached' = cached
    BY <1>1
<1>27. CachedNotAhead' /\ StaleIsReported'
    <2>1. \A m \in Nodes : cached[m] # Nothing => cached[m].watch \in DOMAIN watches
        BY DEF Named, Matches
    <2> QED
        BY <2>1, <1>25, <1>26 DEF CachedNotAhead, NotAhead, StaleIsReported, Open
<1>28. FillsReported'
    <2>1. ASSUME NEW m \in Nodes, Fills(m)'
          PROVE  Reported(m, lookup[m])' /\ NotAhead(lookup[m])'
        <3>1. /\ lookup'[m] = lookup[m] /\ lookup[m].watch \in DOMAIN watches
              /\ Reported(m, lookup[m]) /\ NotAhead(lookup[m])
            BY <1>1, <1>3, <1>12, <2>1 DEF Fills, FillsReported, Named, Matches, Holding
        <3> QED
            BY <3>1, <1>25, <1>26 DEF Reported, NotAhead, Open
    <2> QED
        BY <2>1 DEF FillsReported
<1> QED
    BY <1>14, <1>19, <1>20, <1>21, <1>22, <1>23, <1>24, <1>27, <1>28

-----------------------------------------------------------------------------
\* What ends watches

(* Watches are stopped that entries name, and all entries go.              *)
LEMMA ClearedKeeps ==
    ASSUME MountInv, NEW W \in Seq(Watches), Len(W) = Len(watches),
           mounts' = <<>>, watches' = Abort(ToSet(mounts), W),
           UNCHANGED <<ext, told>>,
           \A w \in DOMAIN watches : /\ W[w].st = "stopped" <=> watches[w].st = "stopped"
                                    /\ W[w].config = watches[w].config
                                    /\ W[w].queue \in {watches[w].queue, <<>>},
           \A n \in Nodes : lookup'[n] = [lookup[n] EXCEPT !.ok = lookup'[n].ok],
           lookup' \in [Nodes -> Lookups],
           \A n \in Nodes : cached'[n] \in {Nothing, cached[n]}
    PROVE  /\ mounts' \in Seq(Entries) /\ DOMAIN mounts' = {} /\ Len(mounts') = 0
           /\ watches' \in Seq(Watches) /\ DOMAIN watches' = DOMAIN watches
           /\ \A w \in DOMAIN watches : watches'[w] = W[w] \/ watches'[w].st = "stopped"
           /\ Named' /\ Distinct' /\ WatchIffMounted' /\ Announced'
<1> USE DEF MountInv
<1>1. /\ watches' \in Seq(Watches) /\ DOMAIN watches' = DOMAIN watches
      /\ \A w \in DOMAIN watches :
            watches'[w] = IF \E i \in DOMAIN mounts : mounts[i].watch = w THEN Stopped ELSE W[w]
    <2>1. /\ watches' \in Seq(Watches) /\ Len(watches') = Len(W)
          /\ \A w \in 1..Len(W) :
                watches'[w] = IF \E e \in ToSet(mounts) : e.watch = w THEN Stopped ELSE W[w]
        BY AbortProperties
    <2>2. DOMAIN watches = 1..Len(watches) /\ DOMAIN watches' = 1..Len(watches')
        BY <2>1, Elements, LenProperties
    <2>3. \A w : (\E e \in ToSet(mounts) : e.watch = w)
                    <=> \E i \in DOMAIN mounts : mounts[i].watch = w
        BY DEF ToSet
    <2> QED
        BY <2>1, <2>2, <2>3
<1>2. Stopped.st = "stopped" /\ Stopped.queue = <<>>
    BY DEF Stopped
<1>3. mounts' \in Seq(Entries) /\ DOMAIN mounts' = {} /\ Len(mounts') = 0
    BY EmptySeq
<1>4. \A n \in Nodes : /\ lookup'[n].at = lookup[n].at
                       /\ lookup'[n].watch = lookup[n].watch
                       /\ lookup'[n].config = lookup[n].config
    <2>1. ASSUME NEW n \in Nodes
          PROVE  /\ lookup'[n].at = lookup[n].at
                 /\ lookup'[n].watch = lookup[n].watch
                 /\ lookup'[n].config = lookup[n].config
        <3>1. lookup[n] \in Lookups
            BY DEF Typed
        <3>2. PICK ok : lookup'[n] = [lookup[n] EXCEPT !.ok = ok]
            OBVIOUS
        <3> QED
            BY <3>1, <3>2 DEF Lookups
    <2> QED
        BY <2>1
<1>5. \A w \in DOMAIN watches : \A c \in Configs : Matches(w, c) => Matches(w, c)'
    BY <1>1, <1>2 DEF Matches
<1>6. Named'
    <2>1. \A n \in Nodes : lookup[n].config \in Configs
        BY DEF Typed, Lookups
    <2>2. \A n \in Nodes : cached[n] # Nothing => cached[n].config \in Configs
        BY DEF Typed, Values
    <2>3. Holding' = Holding
        BY <1>4 DEF Holding
    <2>4. \A n \in Holding : Matches(lookup[n].watch, lookup[n].config)'
        <3>1. \A n \in Holding : /\ lookup[n].watch \in DOMAIN watches /\ lookup[n].config \in Configs
                                 /\ Matches(lookup[n].watch, lookup[n].config)
                                 /\ lookup'[n].watch = lookup[n].watch
                                 /\ lookup'[n].config = lookup[n].config
            BY <2>1, <1>4 DEF Named, Matches, Holding
        <3> QED
            BY <3>1, <1>5
    <2>5. \A n \in Nodes : cached'[n] # Nothing => Matches(cached[n].watch, cached[n].config)'
        <3>1. \A n \in Nodes : cached'[n] # Nothing =>
                /\ cached'[n] = cached[n]
                /\ cached[n].watch \in DOMAIN watches /\ cached[n].config \in Configs
                /\ Matches(cached[n].watch, cached[n].config)
            BY <2>2 DEF Named, Matches
        <3> QED
            BY <3>1, <1>5
    <2> QED
        BY <1>3, <2>3, <2>4, <2>5 DEF Named
<1>7. Waiting' = Waiting /\ \A n \in Waiting : lookup'[n].watch = lookup[n].watch
    BY <1>4 DEF Waiting
<1>8. Distinct'
    BY <1>3, <1>7 DEF Distinct
<1>9. WatchIffMounted'
    <2>1. ASSUME NEW w \in DOMAIN watches
          PROVE  watches'[w].st # "stopped" <=> \E n \in Waiting : lookup[n].watch = w
        <3>1. watches[w].st # "stopped" <=>
                    \/ \E i \in DOMAIN mounts : mounts[i].watch = w
                    \/ \E n \in Waiting : lookup[n].watch = w
            BY DEF WatchIffMounted, Waiting
        <3>2. (\E i \in DOMAIN mounts : mounts[i].watch = w)
                => ~ \E n \in Waiting : lookup[n].watch = w
            BY DEF Distinct
        <3> QED
            BY <1>1, <1>2, <3>1, <3>2
    <2>2. ASSUME NEW w
          PROVE  (\E n \in Waiting : lookup[n].watch = w)
                    <=> \E n \in Nodes : lookup'[n].at = "mount" /\ lookup'[n].watch = w
        BY <1>4 DEF Waiting
    <2>3. ASSUME NEW w \in DOMAIN watches'
          PROVE  watches'[w].st # "stopped" <=>
                    \/ \E i \in DOMAIN mounts' : mounts'[i].watch = w
                    \/ \E n \in Nodes : lookup'[n].at = "mount" /\ lookup'[n].watch = w
        <3>1. w \in DOMAIN watches
            BY <1>1
        <3>2. ~\E i \in DOMAIN mounts' : mounts'[i].watch = w
            BY <1>3
        <3> QED
            BY <2>1, <2>2, <3>1, <3>2
    <2> QED
        BY <2>3 DEF WatchIffMounted
<1>10. Announced'
    <2>1. ASSUME NEW w \in DOMAIN watches, NEW i \in DOMAIN watches'[w].queue
          PROVE  /\ watches'[w].queue = watches[w].queue
                 /\ watches'[w].config = watches[w].config
        BY <1>1, <1>2
    <2> QED
        BY <1>1, <2>1 DEF Announced
<1> QED
    BY <1>1, <1>2, <1>3, <1>6, <1>8, <1>9, <1>10

LEMMA InvalidateKeeps ==
    ASSUME MountInv, Invalidate
    PROVE  MountInv'
<1> USE DEF MountInv
<1>1. /\ mounts' = <<>> /\ watches' = Abort(ToSet(mounts), watches)
      /\ UNCHANGED <<config, ext, lookup, cached, told>>
      /\ writing' \in BOOLEAN /\ config < MaxConfigs
    BY DEF Invalidate
<1>2. /\ mounts' \in Seq(Entries) /\ DOMAIN mounts' = {} /\ Len(mounts') = 0
      /\ watches' \in Seq(Watches) /\ DOMAIN watches' = DOMAIN watches
      /\ \A w \in DOMAIN watches : watches'[w] = watches[w] \/ watches'[w].st = "stopped"
      /\ Named' /\ Distinct' /\ WatchIffMounted' /\ Announced'
    <2>1. /\ \A n \in Nodes : lookup'[n] = [lookup[n] EXCEPT !.ok = lookup'[n].ok]
          /\ lookup' \in [Nodes -> Lookups] /\ watches \in Seq(Watches)
        BY <1>1 DEF Typed, Lookups
    <2> QED
        BY <1>1, <2>1, ClearedKeeps
<1>3. Typed' /\ TypeOK'
    BY <1>1, <1>2 DEF Typed, TypeOK
<1>4. ext' = ext /\ cached' = cached /\ told' = told /\ lookup' = lookup
    BY <1>1
<1>5. FillsAsNew' /\ CacheIsAsNewAsEvents'
    BY <1>4 DEF FillsAsNew, Fills, CacheIsAsNewAsEvents
<1>6. \A n \in Nodes : cached[n] # Nothing => cached[n].watch \in DOMAIN watches
    BY DEF Named, Matches
<1>7. \A n \in Nodes : Fills(n) => lookup[n].watch \in DOMAIN watches
    BY DEF Named, Matches, Fills, Holding
<1>8. CachedNotAhead' /\ StaleIsReported'
    BY <1>2, <1>4, <1>6 DEF CachedNotAhead, NotAhead, StaleIsReported, Open
<1>9. FillsReported'
    BY <1>2, <1>4, <1>7 DEF FillsReported, Fills, Reported, NotAhead, Open
<1> QED
    BY <1>2, <1>3, <1>5, <1>8, <1>9

-----------------------------------------------------------------------------
\* Changes and the watches

(* One watch moves and stays what it is; lookups may only be refused, and  *)
(* cached nodes only dropped.                                              *)
LEMMA SameNames ==
    ASSUME MountInv, UNCHANGED <<config, writing, mounts>>,
           watches' \in Seq(Watches), DOMAIN watches' = DOMAIN watches,
           \A w \in DOMAIN watches : /\ watches'[w].st = "stopped" <=> watches[w].st = "stopped"
                                    /\ watches'[w].config = watches[w].config,
           lookup' = lookup \/ lookup' = Refused,
           \A n \in Nodes : cached'[n] \in {Nothing, cached[n]},
           cached' \in [Nodes -> {Nothing} \cup Values],
           ext' \in [Configs -> [Nodes -> Nat]], told' \in [Configs -> [Nodes -> Nat]]
    PROVE  Typed' /\ TypeOK' /\ Named' /\ Distinct' /\ WatchIffMounted'
<1> USE DEF MountInv
<1>1. ASSUME NEW n \in Nodes
      PROVE  /\ lookup'[n] \in Lookups /\ lookup'[n].at = lookup[n].at
             /\ lookup'[n].user = lookup[n].user /\ lookup'[n].watch = lookup[n].watch
             /\ lookup'[n].config = lookup[n].config
    <2>1. lookup[n] \in Lookups
        BY DEF Typed
    <2>2. lookup'[n] = lookup[n] \/ lookup'[n] = [lookup[n] EXCEPT !.ok = FALSE]
        BY DEF Refused
    <2> QED
        BY <2>1, <2>2 DEF Lookups
<1>2. lookup' \in [Nodes -> Lookups]
    BY <1>1 DEF Typed, Refused
<1>3. Typed'
    BY <1>1, <1>2 DEF Typed
<1>4. TypeOK'
    BY <1>1 DEF TypeOK
<1>5. \A w \in DOMAIN watches : \A c \in Configs : Matches(w, c) => Matches(w, c)'
    BY DEF Matches
<1>6. Named'
    <2>1. \A i \in DOMAIN mounts : Matches(mounts[i].watch, mounts[i].config)'
        <3>1. \A j \in DOMAIN mounts : /\ mounts[j].watch \in DOMAIN watches
                                      /\ mounts[j].config \in Configs
                                      /\ Matches(mounts[j].watch, mounts[j].config)
            BY Elements DEF Named, Matches, Entries
        <3> QED
            BY <3>1, <1>5
    <2>2. \A n \in Holding' : Matches(lookup[n].watch, lookup[n].config)'
        <3>1. \A n \in Holding' : /\ lookup[n].watch \in DOMAIN watches /\ lookup[n].config \in Configs
                                 /\ Matches(lookup[n].watch, lookup[n].config)
                                 /\ lookup'[n].watch = lookup[n].watch
                                 /\ lookup'[n].config = lookup[n].config
            BY <1>1 DEF Named, Matches, Holding, Typed, Lookups
        <3> QED
            BY <3>1, <1>5
    <2>3. \A n \in Nodes : cached'[n] # Nothing => Matches(cached[n].watch, cached[n].config)'
        <3>1. \A n \in Nodes : cached'[n] # Nothing =>
                /\ cached'[n] = cached[n]
                /\ cached[n].watch \in DOMAIN watches /\ cached[n].config \in Configs
                /\ Matches(cached[n].watch, cached[n].config)
            BY DEF Named, Matches, Typed, Values
        <3> QED
            BY <3>1, <1>5
    <2> QED
        BY <2>1, <2>2, <2>3 DEF Named
<1>7. Waiting' = Waiting /\ \A n \in Waiting : lookup'[n].watch = lookup[n].watch
    BY <1>1 DEF Waiting
<1>8. Distinct'
    BY <1>7 DEF Distinct
<1>9. WatchIffMounted'
    <2>1. ASSUME NEW w \in DOMAIN watches
          PROVE  watches'[w].st # "stopped" <=>
                    \/ \E i \in DOMAIN mounts : mounts[i].watch = w
                    \/ \E m \in Nodes : lookup'[m].at = "mount" /\ lookup'[m].watch = w
        <3>1. watches[w].st # "stopped" <=>
                    \/ \E i \in DOMAIN mounts : mounts[i].watch = w
                    \/ \E m \in Nodes : lookup[m].at = "mount" /\ lookup[m].watch = w
            BY DEF WatchIffMounted
        <3>2. \A m \in Nodes : lookup[m].at = "mount" /\ lookup[m].watch = w
                    <=> lookup'[m].at = "mount" /\ lookup'[m].watch = w
            BY <1>1
        <3> QED
            BY <3>1, <3>2
    <2> QED
        BY <2>1 DEF WatchIffMounted
<1> QED
    BY <1>3, <1>4, <1>6, <1>8, <1>9

(* The watches of a store that changes are told, if they are open.         *)
LEMMA ExternalChangeKeeps ==
    ASSUME MountInv, NEW c \in Configs, NEW n \in Nodes, ExternalChange(c, n)
    PROVE  MountInv'
<1> USE DEF MountInv
<1> DEFINE event == [node |-> n, ver |-> ext[c][n] + 1]
           Told(w) == watches[w].config = c /\ Open(w)
           Tell(w) == [watches[w] EXCEPT !.queue = Append(@, event)]
<1>1. /\ UNCHANGED <<config, writing, lookup, mounts, cached, told>>
      /\ ext' = [ext EXCEPT ![c][n] = @ + 1]
      /\ ext \in [Configs -> [Nodes -> Nat]] /\ told \in [Configs -> [Nodes -> Nat]]
    BY DEF ExternalChange, Typed
<1>2. /\ ext' \in [Configs -> [Nodes -> Nat]] /\ ext'[c][n] = ext[c][n] + 1
      /\ \A d \in Configs, m \in Nodes : d # c \/ m # n => ext'[d][m] = ext[d][m]
    BY <1>1
<1>3. \A d \in Configs, m \in Nodes : ext[d][m] \in Nat /\ ext'[d][m] \in Nat /\ ext[d][m] <= ext'[d][m]
    BY <1>1, <1>2
<1>4. watches' = [w \in DOMAIN watches |-> IF Told(w) THEN Tell(w) ELSE watches[w]]
    <2>1. watches' = [w \in DOMAIN watches |->
            IF watches[w].config = c /\ Open(w)
            THEN [watches[w] EXCEPT !.queue = Append(@, [node |-> n, ver |-> ext'[c][n]])]
            ELSE watches[w]]
        BY DEF ExternalChange
    <2> QED
        BY <1>2, <2>1
<1>5. event \in Events /\ event.node = n /\ event.ver = ext'[c][n]
    BY <1>2, <1>3 DEF Events
<1> HIDE DEF event
<1>6. ASSUME NEW w \in DOMAIN watches
      PROVE  /\ Tell(w) \in Watches /\ Tell(w).st = watches[w].st
             /\ Tell(w).config = watches[w].config /\ Tell(w).opened = watches[w].opened
             /\ watches[w].queue \in Seq(Events)
             /\ Tell(w).queue = Append(watches[w].queue, event)
    <2>1. watches[w] \in Watches
        BY Elements
    <2>2. watches[w].queue \in Seq(Events)
        BY <2>1 DEF Watches
    <2>3. Append(watches[w].queue, event) \in Seq(Events)
        BY <2>2, <1>5, AppendProperties
    <2> QED
        BY <2>1, <2>2, <2>3 DEF Watches
<1>7. ASSUME NEW q \in Seq(Events)
      PROVE  /\ DOMAIN q = 1..Len(q) /\ Len(q) \in Nat
             /\ DOMAIN Append(q, event) = 1..(Len(q) + 1)
             /\ \A i \in DOMAIN q : Append(q, event)[i] = q[i]
             /\ Append(q, event)[Len(q) + 1] = event
    <2>1. /\ Append(q, event) \in Seq(Events) /\ Len(Append(q, event)) = Len(q) + 1
          /\ \A i \in 1..Len(q) : Append(q, event)[i] = q[i]
          /\ Append(q, event)[Len(q) + 1] = event
        BY <1>5, AppendProperties
    <2> QED
        BY <2>1, LenProperties
<1>8. watches' \in Seq(Watches) /\ DOMAIN watches' = DOMAIN watches
    <2>1. DOMAIN watches = 1..Len(watches) /\ Len(watches) \in Nat
        BY Elements
    <2>2. \A w \in DOMAIN watches : (IF Told(w) THEN Tell(w) ELSE watches[w]) \in Watches
        BY <1>6, Elements
    <2> HIDE DEF Told, Tell
    <2>3. watches' \in [1..Len(watches) -> Watches]
        BY <1>4, <2>1, <2>2
    <2> QED
        BY <2>1, <2>3, SeqDef
(* What is known of each watch after the change.                           *)
<1>9. ASSUME NEW w \in DOMAIN watches
      PROVE  /\ watches'[w].st = watches[w].st /\ watches'[w].config = watches[w].config
             /\ watches'[w].opened = watches[w].opened
             /\ \/ Told(w) /\ watches'[w].queue = Append(watches[w].queue, event)
                \/ ~Told(w) /\ watches'[w].queue = watches[w].queue
    <2>1. watches'[w] = IF Told(w) THEN Tell(w) ELSE watches[w]
        BY <1>4
    <2> HIDE DEF Tell, Told
    <2> QED
        BY <2>1, <1>6
<1>10. Typed' /\ TypeOK' /\ Named' /\ Distinct' /\ WatchIffMounted'
    <2>1. cached \in [Nodes -> {Nothing} \cup Values]
        BY DEF Typed
    <2> QED
        BY <1>1, <1>2, <1>8, <1>9, <2>1, SameNames
<1>11. FillsAsNew' /\ CacheIsAsNewAsEvents'
    BY <1>1 DEF FillsAsNew, Fills, CacheIsAsNewAsEvents
<1>12. Announced'
    <2>1. \A d \in Configs, m \in Nodes : told'[d][m] <= ext'[d][m]
        BY <1>1, <1>3 DEF Announced
    <2>2. ASSUME NEW w \in DOMAIN watches, NEW i \in DOMAIN watches'[w].queue,
                 watches'[w].queue[i] # Nothing
          PROVE  watches'[w].queue[i].ver <= ext'[watches[w].config][watches'[w].queue[i].node]
        <3>1. watches[w].queue \in Seq(Events) /\ watches[w].config \in Configs
            BY Elements DEF Watches
        <3>2. CASE i \in DOMAIN watches[w].queue /\ watches'[w].queue[i] = watches[w].queue[i]
            <4> DEFINE e == watches[w].queue[i]
            <4>1. e \in Events /\ e # Nothing
                BY <2>2, <3>1, <3>2, ElementOfSeq, LenProperties
            <4>2. e.ver \in Nat /\ e.node \in Nodes
                BY <4>1 DEF Events
            <4>3. e.ver <= ext[watches[w].config][e.node]
                BY <3>2, <4>1 DEF Announced
            <4> HIDE DEF e
            <4> DEFINE x == ext[watches[w].config][e.node]
                       y == ext'[watches[w].config][e.node]
            <4>4. x \in Nat /\ y \in Nat /\ x <= y
                BY <1>3, <3>1, <4>2
            <4>5. e.ver <= x
                BY <4>3
            <4>6. e.ver <= y
                <5> HIDE DEF x, y
                <5> QED
                    BY <4>2, <4>4, <4>5
            <4> QED
                BY <3>2, <4>6 DEF e
        <3>3. CASE Told(w) /\ watches'[w].queue[i] = event
            BY <1>3, <1>5, <3>3
        <3>4. CASE ~Told(w)
            BY <1>9, <3>2, <3>4
        <3>5. CASE Told(w)
            <4> DEFINE q == watches[w].queue
            <4>1. watches'[w].queue = Append(q, event) /\ q \in Seq(Events)
                BY <1>9, <3>1, <3>5
            <4> HIDE DEF q, Told
            <4>2. i \in DOMAIN q \/ i = Len(q) + 1
                BY <1>7, <4>1
            <4>3. /\ i \in DOMAIN q => watches'[w].queue[i] = q[i]
                  /\ i = Len(q) + 1 => watches'[w].queue[i] = event
                BY <1>7, <4>1
            <4> QED
                BY <3>2, <3>3, <3>5, <4>2, <4>3 DEF q
        <3> QED
            BY <3>4, <3>5
    <2> QED
        BY <1>8, <1>9, <2>1, <2>2 DEF Announced
(* The node that changes is stale, and its watch has just been told.       *)
<1>13. ASSUME NEW m \in Nodes, NEW v, v.watch \in DOMAIN watches, v.config \in Configs,
              v.ver \in Nat, Matches(v.watch, v.config), Reported(m, v)
       PROVE  LET q == watches'[v.watch].queue IN
              (watches'[v.watch].st = "open" /\ \A i \in DOMAIN q : q[i] # Nothing)
              /\ watches'[v.watch].opened = v.opened /\ v.ver < ext'[v.config][m]
                => \E i \in DOMAIN q : q[i].node = m
    <2> DEFINE w == v.watch
               q == watches'[w].queue
    <2> SUFFICES ASSUME watches'[w].st = "open", \A i \in DOMAIN q : q[i] # Nothing,
                        watches'[w].opened = v.opened, v.ver < ext'[v.config][m]
                 PROVE  \E i \in DOMAIN q : q[i].node = m
        OBVIOUS
    <2>1. /\ w \in DOMAIN watches /\ watches[w].queue \in Seq(Events)
          /\ watches[w].st = "open" /\ watches[w].opened = v.opened
        BY <1>6, <1>9, <1>13
    <2>2. /\ DOMAIN watches[w].queue \subseteq DOMAIN q
          /\ \A i \in DOMAIN watches[w].queue : q[i] = watches[w].queue[i]
        <3>1. CASE q = watches[w].queue
            BY <3>1
        <3>2. CASE q = Append(watches[w].queue, event)
            <4> HIDE DEF q
            <4>1. /\ DOMAIN watches[w].queue = 1..Len(watches[w].queue) /\ Len(watches[w].queue) \in Nat
                  /\ DOMAIN q = 1..(Len(watches[w].queue) + 1)
                  /\ \A i \in DOMAIN watches[w].queue : q[i] = watches[w].queue[i]
                BY <2>1, <1>7, <3>2
            <4> QED
                BY <4>1
        <3> QED
            BY <2>1, <1>9, <3>1, <3>2
    <2>3. Open(w)
        BY <2>1, <2>2 DEF Open
    <2>4. CASE v.ver < ext[v.config][m]
        <3>1. \E i \in DOMAIN watches[w].queue : watches[w].queue[i].node = m
            BY <1>13, <2>1, <2>3, <2>4 DEF Reported
        <3> QED
            BY <3>1, <2>2
    <2>5. CASE v.config = c /\ m = n
        <3>1. Told(w)
            BY <1>13, <2>1, <2>3, <2>5 DEF Matches
        <3>2. /\ Len(watches[w].queue) + 1 \in DOMAIN q
              /\ q[Len(watches[w].queue) + 1] = event
            BY <2>1, <3>1, <1>7, <1>9
        <3> QED
            BY <2>5, <3>2, <1>5
    <2>6. (v.config = c /\ m = n) \/ v.ver < ext[v.config][m]
        BY <1>2, <1>13
    <2> QED
        BY <2>4, <2>5, <2>6
<1>14. CachedNotAhead'
    <2>1. \A m \in Nodes : cached[m] # Nothing => cached[m].watch \in DOMAIN watches
        BY DEF Named, Matches
    <2>2. cached' = cached
        BY <1>1
    <2> QED
        BY <2>1, <2>2, <1>9 DEF CachedNotAhead, NotAhead
<1>15. StaleIsReported'
    <2>1. ASSUME NEW m \in Nodes, cached[m] # Nothing
          PROVE  /\ cached[m].watch \in DOMAIN watches /\ cached[m].config \in Configs
                 /\ cached[m].ver \in Nat /\ Matches(cached[m].watch, cached[m].config)
                 /\ Reported(m, cached[m])
        BY <2>1 DEF Named, Matches, Typed, Values, StaleIsReported, Reported
    <2>2. cached' = cached
        BY <1>1
    <2> QED
        BY <2>1, <2>2, <1>13, SMTT(30) DEF StaleIsReported, Open
<1>16. FillsReported'
    <2>1. ASSUME NEW m \in Nodes, Fills(m)
          PROVE  /\ lookup[m].watch \in DOMAIN watches /\ lookup[m].config \in Configs
                 /\ lookup[m].ver \in Nat /\ Matches(lookup[m].watch, lookup[m].config)
                 /\ Reported(m, lookup[m]) /\ NotAhead(lookup[m])
        BY <2>1 DEF Named, Matches, Typed, Lookups, FillsReported, Fills, Holding
    <2>2. lookup' = lookup
        BY <1>1
    <2>3. \A m \in Nodes : Fills(m) => NotAhead(lookup[m])'
        BY <2>1, <2>2, <1>9 DEF NotAhead
    <2>4. ASSUME NEW m \in Nodes, Fills(m) PROVE Reported(m, lookup[m])'
        <3> DEFINE v == lookup[m]
        <3>1. /\ v.watch \in DOMAIN watches /\ v.config \in Configs /\ v.ver \in Nat
              /\ Matches(v.watch, v.config) /\ Reported(m, v)
            BY <2>1, <2>4
        <3>2. lookup'[m] = v
            BY <2>2
        <3> HIDE DEF v
        <3>3. LET q == watches'[v.watch].queue IN
              (watches'[v.watch].st = "open" /\ \A i \in DOMAIN q : q[i] # Nothing)
              /\ watches'[v.watch].opened = v.opened /\ v.ver < ext'[v.config][m]
                => \E i \in DOMAIN q : q[i].node = m
            BY <1>13, <3>1
        <3> QED
            BY <3>2, <3>3 DEF Reported, Open
    <2> QED
        BY <2>2, <2>3, <2>4 DEF FillsReported, Fills
<1> QED
    BY <1>10, <1>11, <1>12, <1>14, <1>15, <1>16

(* A watch that has been touched is broken, or was opened anew.            *)
LEMMA UnbrokenKeeps ==
    ASSUME MountInv, UNCHANGED <<ext, lookup, cached>>,
           \A w \in DOMAIN watches :
                /\ watches'[w].st = "stopped" <=> watches[w].st = "stopped"
                /\ watches[w].opened <= watches'[w].opened /\ watches'[w].opened \in Nat
                /\ \/ watches'[w] = watches[w]
                   \/ ~Open(w)'
                   \/ watches'[w].opened > watches[w].opened
    PROVE  CachedNotAhead' /\ StaleIsReported' /\ FillsReported'
<1> USE DEF MountInv
<1>1. \A w \in DOMAIN watches : watches[w].opened \in Nat
    BY Elements DEF Watches
<1>2. ext' = ext /\ lookup' = lookup /\ cached' = cached
    OBVIOUS
<1>3. ASSUME NEW m \in Nodes, NEW v, v.watch \in DOMAIN watches, v.opened \in Nat,
             Reported(m, v), NotAhead(v)
      PROVE  /\ watches'[v.watch].st # "stopped" => v.opened <= watches'[v.watch].opened
             /\ (Open(v.watch)' /\ watches'[v.watch].opened = v.opened
                 /\ v.ver < ext[v.config][m])
                    => \E i \in DOMAIN watches'[v.watch].queue :
                            watches'[v.watch].queue[i].node = m
    <2> DEFINE w == v.watch
    <2>1. w \in DOMAIN watches /\ watches[w].opened \in Nat
        BY <1>1, <1>3
    <2>2. /\ watches'[w].st = "stopped" <=> watches[w].st = "stopped"
          /\ watches[w].opened <= watches'[w].opened /\ watches'[w].opened \in Nat
          /\ \/ watches'[w] = watches[w]
             \/ ~Open(w)'
             \/ watches'[w].opened > watches[w].opened
        BY <2>1
    <2>3. watches[w].st # "stopped" => v.opened <= watches[w].opened
        BY <1>3 DEF NotAhead
    <2>4. watches'[w].st # "stopped" => v.opened <= watches'[w].opened
        BY <2>1, <2>2, <2>3, <1>3
    <2>5. ASSUME Open(w)', watches'[w].opened = v.opened, v.ver < ext[v.config][m]
          PROVE  \E i \in DOMAIN watches'[w].queue : watches'[w].queue[i].node = m
        <3>1. watches'[w].st # "stopped"
            BY <2>5 DEF Open
        <3>2. ~(watches'[w].opened > watches[w].opened)
            BY <3>1, <2>1, <2>2, <2>3, <2>5, <1>3
        <3>3. watches'[w] = watches[w]
            BY <3>2, <2>2, <2>5
        <3>4. Open(w)
            BY <3>3, <2>5 DEF Open
        <3>5. \E i \in DOMAIN watches[w].queue : watches[w].queue[i].node = m
            BY <3>3, <3>4, <2>5, <1>3 DEF Reported
        <3> QED
            BY <3>3, <3>5
    <2> QED
        BY <2>4, <2>5
<1>4. CachedNotAhead' /\ StaleIsReported'
    <2>1. ASSUME NEW m \in Nodes, cached[m] # Nothing
          PROVE  /\ cached[m].watch \in DOMAIN watches /\ cached[m].opened \in Nat
                 /\ Reported(m, cached[m]) /\ NotAhead(cached[m])
        BY <2>1 DEF Named, Matches, Typed, Values, StaleIsReported, Reported, CachedNotAhead
    <2>2. CachedNotAhead'
        BY <2>1, <1>2, <1>3 DEF CachedNotAhead, NotAhead
    <2>3. StaleIsReported'
        BY <2>1, <1>2, <1>3, SMTT(30) DEF StaleIsReported, Open
    <2> QED
        BY <2>2, <2>3
<1>5. FillsReported'
    <2>1. ASSUME NEW m \in Nodes, Fills(m)
          PROVE  /\ lookup[m].watch \in DOMAIN watches /\ lookup[m].opened \in Nat
                 /\ Reported(m, lookup[m]) /\ NotAhead(lookup[m])
        BY <2>1 DEF Named, Matches, Typed, Lookups, FillsReported, Fills, Holding
    <2>2. \A m \in Nodes : Fills(m) => NotAhead(lookup[m])'
        BY <2>1, <1>2, <1>3 DEF NotAhead
    <2>3. \A m \in Nodes : Fills(m) => Reported(m, lookup[m])'
        BY <2>1, <1>2, <1>3, SMTT(30) DEF Reported, Open
    <2> QED
        BY <1>2, <2>2, <2>3 DEF FillsReported, Fills
<1> QED
    BY <1>4, <1>5

LEMMA SourceFailsKeeps ==
    ASSUME MountInv, NEW w \in DOMAIN watches, SourceFails(w)
    PROVE  MountInv'
<1> USE DEF MountInv
<1> DEFINE new == [watches[w] EXCEPT !.queue = Append(@, Nothing)]
           q == watches[w].queue
<1>1. /\ UNCHANGED <<config, writing, ext, lookup, mounts, cached, told>>
      /\ watches' = [watches EXCEPT ![w] = new]
      /\ DOMAIN watches = 1..Len(watches) /\ watches \in Seq(Watches)
      /\ watches[w] \in Watches
    BY Elements DEF SourceFails, Typed
<1>2. q \in Seq(Events) /\ Nothing \in Events
    BY <1>1 DEF Watches, Events
<1>3. /\ Append(q, Nothing) \in Seq(Events) /\ Len(q) \in Nat /\ DOMAIN q = 1..Len(q)
      /\ DOMAIN Append(q, Nothing) = 1..(Len(q) + 1)
      /\ \A i \in DOMAIN q : Append(q, Nothing)[i] = q[i]
      /\ Append(q, Nothing)[Len(q) + 1] = Nothing
    <2> HIDE DEF q
    <2>1. /\ Append(q, Nothing) \in Seq(Events) /\ Len(Append(q, Nothing)) = Len(q) + 1
          /\ \A i \in 1..Len(q) : Append(q, Nothing)[i] = q[i]
          /\ Append(q, Nothing)[Len(q) + 1] = Nothing
        BY <1>2, AppendProperties
    <2> QED
        BY <2>1, <1>2, LenProperties
<1>4. /\ new \in Watches /\ new.queue = Append(q, Nothing)
      /\ new.st = watches[w].st /\ new.config = watches[w].config
      /\ new.opened = watches[w].opened /\ new.opened \in Nat
    BY <1>1, <1>3 DEF Watches
<1> HIDE DEF new
<1>5. /\ watches' \in Seq(Watches) /\ DOMAIN watches' = DOMAIN watches
      /\ watches'[w] = new /\ \A x \in DOMAIN watches \ {w} : watches'[x] = watches[x]
    BY <1>1, <1>4, ExceptSeq
<1>6. Typed' /\ TypeOK' /\ Named' /\ Distinct' /\ WatchIffMounted'
    <2>1. /\ cached \in [Nodes -> {Nothing} \cup Values]
          /\ ext \in [Configs -> [Nodes -> Nat]] /\ told \in [Configs -> [Nodes -> Nat]]
        BY DEF Typed
    <2> QED
        BY <1>1, <1>4, <1>5, <2>1, SameNames
<1>7. FillsAsNew' /\ CacheIsAsNewAsEvents'
    BY <1>1 DEF FillsAsNew, Fills, CacheIsAsNewAsEvents
<1>8. Announced'
    <2>1. \A x \in DOMAIN watches : \A i \in DOMAIN watches'[x].queue :
            watches'[x].queue[i] # Nothing =>
                /\ i \in DOMAIN watches[x].queue /\ watches'[x].queue[i] = watches[x].queue[i]
                /\ watches'[x].config = watches[x].config
        <3>1. \A x \in DOMAIN watches \ {w} : watches'[x] = watches[x]
            BY <1>5
        <3>2. /\ watches'[w].config = watches[w].config
              /\ watches'[w].queue = Append(q, Nothing)
            BY <1>4, <1>5
        <3>3. \A i \in DOMAIN Append(q, Nothing) : Append(q, Nothing)[i] # Nothing =>
                i \in DOMAIN q /\ Append(q, Nothing)[i] = q[i]
            BY <1>3
        <3> QED
            BY <3>1, <3>2, <3>3
    <2> QED
        BY <2>1, <1>1, <1>5 DEF Announced
<1>9. ~Open(w)'
    <2>1. watches'[w].queue = Append(q, Nothing) /\ Len(q) + 1 \in DOMAIN Append(q, Nothing)
        BY <1>3, <1>4, <1>5
    <2> QED
        BY <2>1, <1>3 DEF Open
<1>10. CachedNotAhead' /\ StaleIsReported' /\ FillsReported'
    <2>1. \A x \in DOMAIN watches : watches[x].opened \in Nat
        BY Elements DEF Watches
    <2> QED
        BY <2>1, <1>1, <1>4, <1>5, <1>9, UnbrokenKeeps
<1> QED
    BY <1>6, <1>7, <1>8, <1>10

LEMMA RetryKeeps ==
    ASSUME MountInv, NEW w \in DOMAIN watches, Retry(w)
    PROVE  MountInv'
<1> USE DEF MountInv
<1> DEFINE new == [watches[w] EXCEPT !.st = "open", !.opened = @ + 1]
<1>1. /\ UNCHANGED <<config, writing, ext, lookup, mounts, cached, told>>
      /\ watches' = [watches EXCEPT ![w] = new] /\ watches[w].st = "waiting"
      /\ DOMAIN watches = 1..Len(watches) /\ watches \in Seq(Watches)
      /\ watches[w] \in Watches
    BY Elements DEF Retry, Typed
<1>2. /\ new \in Watches /\ new.queue = watches[w].queue
      /\ new.st = "open" /\ new.config = watches[w].config
      /\ new.opened = watches[w].opened + 1 /\ watches[w].opened \in Nat
    <2>1. watches[w].opened \in Nat /\ watches[w].opened + 1 \in Nat
        BY <1>1 DEF Watches
    <2> QED
        BY <1>1, <2>1 DEF Watches
<1> HIDE DEF new
<1>3. /\ watches' \in Seq(Watches) /\ DOMAIN watches' = DOMAIN watches
      /\ watches'[w] = new /\ \A x \in DOMAIN watches \ {w} : watches'[x] = watches[x]
    BY <1>1, <1>2, ExceptSeq
<1>4. Typed' /\ TypeOK' /\ Named' /\ Distinct' /\ WatchIffMounted'
    <2>1. /\ cached \in [Nodes -> {Nothing} \cup Values]
          /\ ext \in [Configs -> [Nodes -> Nat]] /\ told \in [Configs -> [Nodes -> Nat]]
        BY DEF Typed
    <2> QED
        BY <1>1, <1>2, <1>3, <2>1, SameNames
<1>5. FillsAsNew' /\ CacheIsAsNewAsEvents'
    BY <1>1 DEF FillsAsNew, Fills, CacheIsAsNewAsEvents
<1>6. Announced'
    BY <1>1, <1>2, <1>3 DEF Announced
<1>7. CachedNotAhead' /\ StaleIsReported' /\ FillsReported'
    <2>1. \A x \in DOMAIN watches : watches[x].opened \in Nat
        BY Elements DEF Watches
    <2>2. watches[w].opened <= new.opened /\ new.opened > watches[w].opened /\ new.opened \in Nat
        BY <1>2
    <2> QED
        BY <2>1, <2>2, <1>1, <1>2, <1>3, UnbrokenKeeps
<1> QED
    BY <1>4, <1>5, <1>6, <1>7

(* No read under way fills the outer cache.                                *)
LEMMA RefusedFills ==
    ASSUME MountInv, lookup' = Refused
    PROVE  /\ \A n \in Nodes : ~Fills(n)'
           /\ lookup' \in [Nodes -> Lookups]
           /\ \A n \in Nodes : lookup'[n] = [lookup[n] EXCEPT !.ok = lookup'[n].ok]
           /\ \A n \in Nodes : lookup'[n].at = lookup[n].at /\ lookup'[n].user = lookup[n].user
                               /\ lookup'[n].watch = lookup[n].watch
<1>1. ASSUME NEW n \in Nodes
      PROVE  /\ lookup'[n] \in Lookups /\ lookup'[n].ok = FALSE
             /\ lookup'[n] = [lookup[n] EXCEPT !.ok = FALSE]
             /\ lookup'[n].at = lookup[n].at /\ lookup'[n].user = lookup[n].user
             /\ lookup'[n].watch = lookup[n].watch
    <2>1. lookup[n] \in Lookups
        BY DEF MountInv, Typed
    <2>2. lookup'[n] = [lookup[n] EXCEPT !.ok = FALSE]
        BY DEF Refused
    <2> QED
        BY <2>1, <2>2 DEF Lookups
<1>2. lookup' \in [Nodes -> Lookups]
    BY <1>1 DEF Refused
<1> QED
    BY <1>1, <1>2 DEF Fills

LEMMA ForwardKeeps ==
    ASSUME MountInv, NEW w \in DOMAIN watches, Forward(w)
    PROVE  MountInv'
<1> USE DEF MountInv
<1> DEFINE q == watches[w].queue
           event == Head(q)
           new == [watches[w] EXCEPT !.queue = Tail(q)]
<1>1. /\ config' = config /\ writing' = writing /\ ext' = ext /\ mounts' = mounts
      /\ watches' = [watches EXCEPT ![w] = new] /\ lookup' = Refused
      /\ cached' = [cached EXCEPT ![event.node] = Nothing]
      /\ told' = [told EXCEPT ![watches[w].config][event.node] = event.ver]
      /\ q # <<>> /\ event # Nothing
      /\ DOMAIN watches = 1..Len(watches) /\ watches \in Seq(Watches)
      /\ watches[w] \in Watches
    BY Elements DEF Forward, Typed
<1>2. q \in Seq(Events) /\ watches[w].config \in Configs
    BY <1>1 DEF Watches
<1>3. /\ Tail(q) \in Seq(Events) /\ Len(q) \in Nat \ {0} /\ DOMAIN q = 1..Len(q)
      /\ DOMAIN Tail(q) = 1..(Len(q) - 1)
      /\ \A i \in 1..(Len(q) - 1) : Tail(q)[i] = q[i + 1]
      /\ event = q[1] /\ event \in Events
    <2>1. q # <<>>
        BY <1>1
    <2> HIDE DEF q
    <2>2. /\ Head(q) \in Events /\ Tail(q) \in Seq(Events) /\ Len(Tail(q)) = Len(q) - 1
          /\ \A i \in 1..Len(Tail(q)) : Tail(q)[i] = q[i + 1]
        BY <1>2, <2>1, HeadTailProperties
    <2>3. DOMAIN Tail(q) = 1..Len(Tail(q)) /\ DOMAIN q = 1..Len(q) /\ Len(q) \in Nat
        BY <1>2, <2>2, LenProperties
    <2>4. Len(q) # 0
        BY <1>2, <2>1, EmptySeq
    <2>5. Head(q) = q[1]
        BY <1>2, <2>1
    <2> QED
        BY <2>2, <2>3, <2>4, <2>5
<1>4. event.node \in Nodes /\ event.ver \in Nat
    <2>1. event \in [node : Nodes, ver : Nat]
        BY <1>1, <1>3 DEF Events
    <2> HIDE DEF event
    <2> QED
        BY <2>1
<1>5. /\ new \in Watches /\ new.queue = Tail(q)
      /\ new.st = watches[w].st /\ new.config = watches[w].config
      /\ new.opened = watches[w].opened
    BY <1>1, <1>3 DEF Watches
<1> HIDE DEF new
<1>6. /\ watches' \in Seq(Watches) /\ DOMAIN watches' = DOMAIN watches
      /\ watches'[w] = new /\ \A x \in DOMAIN watches \ {w} : watches'[x] = watches[x]
    BY <1>1, <1>5, ExceptSeq
<1> DEFINE c0 == watches[w].config
<1>7. /\ cached' \in [Nodes -> {Nothing} \cup Values] /\ cached'[event.node] = Nothing
      /\ \A n \in Nodes \ {event.node} : cached'[n] = cached[n]
    <2>1. cached \in [Nodes -> {Nothing} \cup Values] /\ event.node \in Nodes
        BY <1>4 DEF Typed
    <2> HIDE DEF event
    <2> QED
        BY <1>1, <2>1
<1>8. /\ told' \in [Configs -> [Nodes -> Nat]] /\ told'[c0][event.node] = event.ver
      /\ \A c \in Configs, n \in Nodes :
            ~(c = c0 /\ n = event.node) => told'[c][n] = told[c][n]
    <2>1. /\ told \in [Configs -> [Nodes -> Nat]] /\ event.node \in Nodes /\ event.ver \in Nat
          /\ c0 \in Configs
        BY <1>2, <1>4 DEF Typed
    <2>2. told' = [told EXCEPT ![c0] = [told[c0] EXCEPT ![event.node] = event.ver]]
        BY <1>1
    <2> HIDE DEF event, c0
    <2>3. [told[c0] EXCEPT ![event.node] = event.ver] \in [Nodes -> Nat]
        BY <2>1
    <2>4. told'[c0] = [told[c0] EXCEPT ![event.node] = event.ver]
          /\ \A c \in Configs \ {c0} : told'[c] = told[c]
        BY <2>1, <2>2
    <2>5. \A n \in Nodes \ {event.node} : told'[c0][n] = told[c0][n]
        BY <2>1, <2>4
    <2>6. told' \in [Configs -> [Nodes -> Nat]]
        BY <2>1, <2>2, <2>3
    <2>7. told'[c0][event.node] = event.ver
        BY <2>1, <2>4
    <2> QED
        BY <2>4, <2>5, <2>6, <2>7
<1>9. Typed' /\ TypeOK' /\ Named' /\ Distinct' /\ WatchIffMounted'
    <2>1. ext \in [Configs -> [Nodes -> Nat]] /\ UNCHANGED <<config, writing, mounts>>
        BY <1>1 DEF Typed
    <2>2. \A n \in Nodes : cached'[n] \in {Nothing, cached[n]}
        BY <1>7
    <2> HIDE DEF event, q, c0
    <2> QED
        BY <1>1, <1>5, <1>6, <1>7, <1>8, <2>1, <2>2, SameNames
<1>10. Announced'
    <2>1. \A c \in Configs, n \in Nodes : told'[c][n] <= ext[c][n]
        <3>1. \A c \in Configs, n \in Nodes : told[c][n] <= ext[c][n]
            BY DEF Announced
        <3>2. event.ver <= ext[c0][event.node]
            BY <1>1, <1>3 DEF Announced
        <3> QED
            BY <1>8, <3>1, <3>2
    <2>2. ASSUME NEW x \in DOMAIN watches, NEW i \in DOMAIN watches'[x].queue,
                 watches'[x].queue[i] # Nothing
          PROVE  watches'[x].queue[i].ver <= ext[watches'[x].config][watches'[x].queue[i].node]
        <3>1. CASE x = w
            <4>0. watches'[x].queue = Tail(q) /\ watches'[x].config = c0
                BY <1>5, <1>6, <3>1
            <4>1. i + 1 \in DOMAIN q /\ watches'[x].queue[i] = q[i + 1] /\ watches'[x].config = c0
                <5>1. i \in 1..(Len(q) - 1)
                    BY <1>3, <4>0
                <5> HIDE DEF c0
                <5> QED
                    BY <1>3, <4>0, <5>1
            <4> QED
                BY <4>1, <2>2 DEF Announced
        <3>2. CASE x # w
            <4>1. watches'[x] = watches[x]
                BY <1>6, <3>2
            <4> QED
                BY <4>1, <2>2 DEF Announced
        <3> QED
            BY <3>1, <3>2
    <2>3. told' \in [Configs -> [Nodes -> Nat]] /\ ext' = ext /\ DOMAIN watches' = DOMAIN watches
        BY <1>1, <1>6, <1>8
    <2> HIDE DEF q, event, c0
    <2> QED
        BY <2>1, <2>2, <2>3 DEF Announced
<1>11. FillsAsNew' /\ FillsReported'
    BY <1>1, RefusedFills DEF FillsAsNew, FillsReported
<1>12. ASSUME NEW m \in Nodes, cached'[m] # Nothing
       PROVE  /\ m # event.node /\ cached'[m] = cached[m] /\ cached[m] # Nothing
              /\ cached[m].watch \in DOMAIN watches
    <2>1. m # event.node /\ cached'[m] = cached[m]
        BY <1>7, <1>12
    <2> QED
        BY <2>1, <1>12 DEF Named, Matches
<1>13. CacheIsAsNewAsEvents'
    <2>1. ASSUME NEW m \in Nodes, cached'[m] # Nothing
          PROVE  cached'[m].ver >= told'[cached'[m].config][m]
        <3>1. m # event.node /\ cached'[m] = cached[m] /\ cached[m] # Nothing
            BY <1>12, <2>1
        <3>2. cached[m].config \in Configs
            BY <3>1 DEF Typed, Values
        <3>3. told'[cached[m].config][m] = told[cached[m].config][m]
            BY <1>8, <3>1, <3>2
        <3> QED
            BY <3>1, <3>3 DEF CacheIsAsNewAsEvents
    <2> QED
        BY <2>1 DEF CacheIsAsNewAsEvents
<1>14. \A x \in DOMAIN watches : watches'[x].st = watches[x].st /\ watches'[x].opened = watches[x].opened
    BY <1>5, <1>6
<1>15. CachedNotAhead'
    BY <1>12, <1>14 DEF CachedNotAhead, NotAhead
<1>16. StaleIsReported'
    <2>1. ASSUME NEW m \in Nodes, cached'[m] # Nothing,
                 Open(cached[m].watch)', watches'[cached[m].watch].opened = cached[m].opened,
                 cached[m].ver < ext[cached[m].config][m]
          PROVE  \E i \in DOMAIN watches'[cached[m].watch].queue :
                    watches'[cached[m].watch].queue[i].node = m
        <3>1. /\ m # event.node /\ cached[m] # Nothing /\ cached'[m] = cached[m]
              /\ cached[m].watch \in DOMAIN watches
            BY <1>12, <2>1
        <3>2. CASE cached[m].watch # w
            <4>1. watches'[cached[m].watch] = watches[cached[m].watch]
                BY <1>6, <3>1, <3>2
            <4>2. Open(cached[m].watch) /\ watches[cached[m].watch].opened = cached[m].opened
                BY <2>1, <3>1, <4>1 DEF Open
            <4>3. \E i \in DOMAIN watches[cached[m].watch].queue :
                    watches[cached[m].watch].queue[i].node = m
                BY <2>1, <3>1, <4>2 DEF StaleIsReported
            <4> QED
                BY <4>1, <4>3
        <3>3. CASE cached[m].watch = w
            <4>1. watches'[w].queue = Tail(q) /\ watches'[w].st = watches[w].st
                BY <1>5, <1>6
            <4>2. Open(w)
                <5>1. watches[w].st = "open"
                    BY <2>1, <3>1, <3>3, <4>1 DEF Open
                <5>2. \A i \in 1..(Len(q) - 1) : Tail(q)[i] # Nothing
                    <6>1. \A i \in DOMAIN watches'[w].queue : watches'[w].queue[i] # Nothing
                        BY <2>1, <3>1, <3>3 DEF Open
                    <6> QED
                        BY <4>1, <6>1, <1>3
                <5>3. \A i \in DOMAIN q : q[i] # Nothing
                    <6>1. \A i \in DOMAIN q : i = 1 \/ (i - 1 \in 1..(Len(q) - 1) /\ i = i - 1 + 1)
                        BY <1>3
                    <6>2. q[1] # Nothing
                        BY <1>1, <1>3
                    <6> QED
                        BY <6>1, <6>2, <5>2, <1>3
                <5> QED
                    BY <5>1, <5>3 DEF Open
            <4>3. watches[w].opened = cached[m].opened
                BY <2>1, <3>1, <3>3, <1>14
            <4>4. PICK i \in DOMAIN q : q[i].node = m
                BY <2>1, <3>1, <3>3, <4>2, <4>3 DEF StaleIsReported
            <4>5. i # 1
                BY <4>4, <3>1, <1>3
            <4>6. i - 1 \in DOMAIN Tail(q) /\ Tail(q)[i - 1] = q[i]
                BY <4>5, <1>3
            <4> QED
                BY <3>3, <4>1, <4>4, <4>6
        <3> QED
            BY <3>2, <3>3
    <2>2. ext' = ext
        BY <1>1
    <2>3. \A m \in Nodes : cached'[m] # Nothing => cached'[m] = cached[m]
        BY <1>12
    <2> HIDE DEF event, q
    <2> QED
        BY <2>1, <2>2, <2>3 DEF StaleIsReported
<1> QED
    BY <1>9, <1>10, <1>11, <1>13, <1>15, <1>16

LEMMA FailKeeps ==
    ASSUME MountInv, NEW w \in DOMAIN watches, Fail(w)
    PROVE  MountInv'
<1> USE DEF MountInv
<1> DEFINE new == [watches[w] EXCEPT !.st = "waiting", !.queue = <<>>]
           W == [watches EXCEPT ![w] = new]
<1>1. /\ config' = config /\ writing' = writing /\ ext' = ext /\ told' = told
      /\ mounts' = <<>> /\ watches' = Abort(ToSet(mounts), W)
      /\ cached' = [n \in Nodes |-> Nothing] /\ lookup' = Refused
      /\ DOMAIN watches = 1..Len(watches) /\ watches \in Seq(Watches)
      /\ watches[w] \in Watches /\ watches[w].st = "open"
    BY Elements DEF Fail, Typed
<1>2. /\ new \in Watches /\ new.queue = <<>> /\ new.st = "waiting"
      /\ new.config = watches[w].config
    BY <1>1, EmptySeq DEF Watches
<1> HIDE DEF new
<1>3. /\ W \in Seq(Watches) /\ Len(W) = Len(watches)
      /\ W[w] = new /\ \A x \in DOMAIN watches \ {w} : W[x] = watches[x]
    BY <1>1, <1>2, ExceptSeq
<1> HIDE DEF W
<1>4. /\ \A n \in Nodes : lookup'[n] = [lookup[n] EXCEPT !.ok = lookup'[n].ok]
      /\ lookup' \in [Nodes -> Lookups] /\ \A n \in Nodes : ~Fills(n)'
      /\ \A n \in Nodes : lookup'[n].at = lookup[n].at /\ lookup'[n].user = lookup[n].user
                          /\ lookup'[n].watch = lookup[n].watch
    BY <1>1, RefusedFills
<1>5. /\ \A x \in DOMAIN watches : /\ W[x].st = "stopped" <=> watches[x].st = "stopped"
                                  /\ W[x].config = watches[x].config
                                  /\ W[x].queue \in {watches[x].queue, <<>>}
      /\ \A n \in Nodes : cached'[n] = Nothing
    BY <1>1, <1>2, <1>3
<1>6. /\ mounts' \in Seq(Entries) /\ DOMAIN mounts' = {} /\ Len(mounts') = 0
      /\ watches' \in Seq(Watches) /\ DOMAIN watches' = DOMAIN watches
      /\ Named' /\ Distinct' /\ WatchIffMounted' /\ Announced'
    BY <1>1, <1>3, <1>4, <1>5, ClearedKeeps
<1>7. Typed'
    <2>1. cached' \in [Nodes -> {Nothing} \cup Values]
        BY <1>1
    <2> QED
        BY <1>1, <1>4, <1>6, <2>1 DEF Typed
<1>8. TypeOK'
    BY <1>1, <1>4, <1>6 DEF TypeOK
<1>9. FillsAsNew' /\ FillsReported'
    BY <1>4 DEF FillsAsNew, FillsReported
<1>10. CacheIsAsNewAsEvents' /\ CachedNotAhead' /\ StaleIsReported'
    BY <1>5 DEF CacheIsAsNewAsEvents, CachedNotAhead, StaleIsReported
<1> QED
    BY <1>6, <1>7, <1>8, <1>9, <1>10

-----------------------------------------------------------------------------
(* Every step keeps the invariant.                                         *)
LEMMA NextKeeps == MountInv /\ [Next]_vars => MountInv'
<1> SUFFICES ASSUME MountInv, [Next]_vars PROVE MountInv'
    OBVIOUS
<1>1. ASSUME NEW n \in Nodes, NEW u \in Users, Lookup(n, u) PROVE MountInv'
    BY <1>1, LookupKeeps
<1>2. ASSUME NEW n \in Nodes, Connected(n) PROVE MountInv'
    BY <1>2, ConnectedKeeps
<1>3. ASSUME NEW n \in Nodes, ConnectFails(n) PROVE MountInv'
    BY <1>3, ConnectFailsKeeps
<1>4. ASSUME NEW n \in Nodes, Mount(n) PROVE MountInv'
    BY <1>4, MountKeeps
<1>5. ASSUME NEW n \in Nodes, Read(n) PROVE MountInv'
    BY <1>5, ReadKeeps
<1>6. ASSUME NEW n \in Nodes, Fill(n) PROVE MountInv'
    BY <1>6, FillKeeps
<1>7. CASE Invalidate
    BY <1>7, InvalidateKeeps
<1>8. CASE Store \/ UNCHANGED vars
    BY <1>8, StoreKeeps
<1>9. ASSUME NEW c \in Configs, NEW n \in Nodes, ExternalChange(c, n) PROVE MountInv'
    BY <1>9, ExternalChangeKeeps
<1>10. ASSUME NEW w \in DOMAIN watches, SourceFails(w) PROVE MountInv'
    BY <1>10, SourceFailsKeeps
<1>11. ASSUME NEW w \in DOMAIN watches, Forward(w) PROVE MountInv'
    BY <1>11, ForwardKeeps
<1>12. ASSUME NEW w \in DOMAIN watches, Fail(w) PROVE MountInv'
    BY <1>12, FailKeeps
<1>13. ASSUME NEW w \in DOMAIN watches, Retry(w) PROVE MountInv'
    BY <1>13, RetryKeeps
<1> QED
    BY <1>1, <1>2, <1>3, <1>4, <1>5, <1>6, <1>7, <1>8, <1>9, <1>10, <1>11, <1>12, <1>13
    DEF Next

LEMMA Invariant == Spec => []MountInv
<1> QED
    BY InitMountInv, NextKeeps, PTL DEF Spec

(* The mount cache stays within its capacity and holds one entry a user,   *)
(* and entries and lookups name watches that were started.                 *)
THEOREM MountTyped == Spec => []TypeOK
<1>1. MountInv => TypeOK
    BY DEF MountInv
<1> QED
    BY <1>1, Invariant, PTL

(* mount/index.ts:70: no watch outlives its cache entry, and no cached     *)
(* adapter is left without its watch.                                      *)
THEOREM WatchesAreMounted == Spec => []WatchIffMounted
<1>1. MountInv => WatchIffMounted
    BY DEF MountInv
<1> QED
    BY <1>1, Invariant, PTL

(* external-watch.ts:128: the outer cache is never older than what an      *)
(* event has told the clients: the node is dropped, and the reads under    *)
(* way refused, before the event is forwarded.                             *)
THEOREM CacheNotOlder == Spec => []CacheIsAsNewAsEvents
<1>1. MountInv => CacheIsAsNewAsEvents
    BY DEF MountInv
<1> QED
    BY <1>1, Invariant, PTL

(* external-watch.ts:122: under a watch that has been open without a break *)
(* since the node was read, a stale node has its event on the way.         *)
THEOREM StaleWillGo == Spec => []StaleIsReported
<1>1. MountInv => StaleIsReported
    BY DEF MountInv
<1> QED
    BY <1>1, Invariant, PTL
-----------------------------------------------------------------------------
(* The stream that an external watch is read through, for any buffer size: *)
(* no pending next() is left asleep, and the source is unregistered by     *)
(* whatever closes the stream.  Both rest on the iterator holding the      *)
(* unregister function and the abort listener exactly while the source     *)
(* holds the listener (Attached), so that an abort always finds a way in.  *)
(* And no event is dropped in silence: what was received and is queued is  *)
(* what was accepted, until an overflow replaces the queue by one event    *)
(* and closes the stream.  That nothing is accepted after it is because    *)
(* the overflow closes; that it is received after what came before it,     *)
(* because a pending next() and a queued event exclude each other.         *)

StreamTypes ==
    /\ consumer \in {"idle", "waiting", "finished"}
    /\ subscribed \in BOOLEAN /\ attached \in BOOLEAN /\ registered \in BOOLEAN
    /\ closed \in BOOLEAN /\ ended \in BOOLEAN /\ aborted \in BOOLEAN

Attached ==
    /\ (attached <=> subscribed)
    /\ registered /\ ~closed => attached
    /\ consumer = "waiting" => attached

StreamInv == StreamTypes /\ Attached /\ NoLostWakeup /\ ClosedIsClean

LEMMA InitStreamInv == StreamInit => StreamInv
<1> SUFFICES ASSUME StreamInit PROVE StreamInv
    OBVIOUS
<1> USE DEF StreamInit
<1>1. StreamTypes
    BY DEF StreamTypes
<1>2. Attached /\ NoLostWakeup /\ ClosedIsClean
    BY DEF Attached, NoLostWakeup, ClosedIsClean
<1> QED
    BY <1>1, <1>2 DEF StreamInv

LEMMA NextStreamInv ==
    ASSUME StreamInv, [StreamNext]_streamVars
    PROVE  StreamInv'
<1> USE DEF StreamInv, StreamTypes, Attached, NoLostWakeup, ClosedIsClean, sourceVars,
            Shutdown, Detach
<1>1. CASE Push
    <2>1. CASE UNCHANGED <<queue, consumer, sourceVars, closed>>
        BY <1>1, <2>1 DEF Push
    <2>2. CASE ~closed /\ ~ended /\ Len(queue) >= Buffer /\ PushOverflows
        <3>1. consumer # "waiting"
            BY <2>2, StreamAssumption
        <3> QED
            BY <1>1, <2>2, <3>1 DEF Push, PushOverflows, Overflow
    <2>3. CASE ~closed /\ ~ended /\ Len(queue) < Buffer /\ PushAccepted(pushed + 1)
        BY <1>1, <2>3 DEF Push, PushAccepted
    <2> QED
        BY <1>1, <2>1, <2>2, <2>3 DEF Push
<1>2. CASE EndStream
    BY <1>2 DEF EndStream
<1>3. CASE SignalAborts
    BY <1>3 DEF SignalAborts
<1>4. CASE NextTakes
    BY <1>4 DEF NextTakes
<1>5. CASE NextFinishes
    BY <1>5 DEF NextFinishes
<1>6. CASE NextRegisters
    BY <1>6 DEF NextRegisters
<1>7. CASE NextWaits
    BY <1>7 DEF NextWaits
<1>8. CASE Return
    BY <1>8 DEF Return
<1>9. CASE UNCHANGED streamVars
    BY <1>9 DEF streamVars
<1> QED
    BY <1>1, <1>2, <1>3, <1>4, <1>5, <1>6, <1>7, <1>8, <1>9 DEF StreamNext, NextCall

LEMMA StreamInvariance == StreamSpec => []StreamInv
<1>1. StreamInv /\ [StreamNext]_streamVars => StreamInv'
    BY NextStreamInv
<1> QED
    BY <1>1, InitStreamInv, PTL DEF StreamSpec

(* watch.ts next(), push(), endStream(): a pending next() is never left    *)
(* waiting for what has happened already.                                  *)
THEOREM Wakeups == StreamSpec => []NoLostWakeup
BY StreamInvariance, PTL DEF StreamInv

(* watch.ts detach(): overflow, abort, the end of the stream and return()  *)
(* all take the listener away from the source.                             *)
THEOREM Cleanup == StreamSpec => []ClosedIsClean
BY StreamInvariance, PTL DEF StreamInv

-----------------------------------------------------------------------------
\* No silent drops

DataEvents == Nat \ {0}

EventTypes ==
    /\ accepted \in Seq(DataEvents) /\ pushed \in Nat
    /\ queue \in Seq(Nat) /\ got \in Seq(Nat)

Whole == Seen = accepted
Cut == closed /\ \E n \in 0..Len(accepted) : Seen = Append(SubSeq(accepted, 1, n), Overflow)

DropInv == StreamInv /\ EventTypes /\ (Whole \/ Cut)

(* next() moves the queue's head to the events received.                   *)
LEMMA TakeKeepsSeen ==
    ASSUME NEW q \in Seq(Nat), NEW g \in Seq(Nat), q # <<>>
    PROVE  Append(g, Head(q)) \o Tail(q) = g \o q
<1>1. Head(q) \in Nat /\ Tail(q) \in Seq(Nat) /\ Len(Tail(q)) = Len(q) - 1
      /\ \A i \in 1..Len(Tail(q)) : Tail(q)[i] = q[i + 1]
    BY HeadTailProperties
<1>2. Append(g, Head(q)) \in Seq(Nat) /\ Len(Append(g, Head(q))) = Len(g) + 1
      /\ \A i \in 1..Len(g) : Append(g, Head(q))[i] = g[i]
      /\ Append(g, Head(q))[Len(g) + 1] = Head(q)
    BY <1>1, AppendProperties
<1>3. Head(q) = q[1] /\ Len(q) \in Nat /\ Len(g) \in Nat
    OBVIOUS
<1>4. g \o q \in Seq(Nat) /\ Len(g \o q) = Len(g) + Len(q)
      /\ \A i \in 1..Len(g) + Len(q) : (g \o q)[i] = IF i <= Len(g) THEN g[i] ELSE q[i - Len(g)]
    BY ConcatProperties
<1> DEFINE h == Append(g, Head(q))
           t == Tail(q)
<1>5. h \o t \in Seq(Nat) /\ Len(h \o t) = Len(h) + Len(t)
      /\ \A i \in 1..Len(h) + Len(t) : (h \o t)[i] = IF i <= Len(h) THEN h[i] ELSE t[i - Len(h)]
    BY <1>1, <1>2, ConcatProperties
<1> HIDE DEF h, t
<1>6. Len(h \o t) = Len(g \o q)
    BY <1>1, <1>2, <1>3, <1>4, <1>5 DEF h, t
<1>7. ASSUME NEW i \in 1..Len(h \o t)
      PROVE  (h \o t)[i] = (g \o q)[i]
    <2>1. i \in 1..Len(g) + Len(q) /\ i \in 1..Len(h) + Len(t) /\ Len(h) = Len(g) + 1
        BY <1>2, <1>4, <1>5, <1>6 DEF h
    <2>2. CASE i <= Len(g)
        BY <1>2, <1>3, <1>4, <1>5, <2>1, <2>2 DEF h
    <2>3. CASE i = Len(g) + 1
        BY <1>2, <1>3, <1>4, <1>5, <2>1, <2>3 DEF h
    <2>4. CASE i > Len(g) + 1
        <3>1. i - Len(h) \in 1..Len(t) /\ (i - Len(h)) + 1 = i - Len(g)
            BY <1>1, <1>3, <2>1, <2>4 DEF t
        <3>2. t[i - Len(h)] = q[i - Len(g)]
            BY <1>1, <3>1 DEF t
        <3>3. (h \o t)[i] = t[i - Len(h)]
            <4>1. Len(h) \in Nat /\ Len(t) \in Nat /\ ~(i <= Len(h))
                BY <1>1, <1>3, <2>1, <2>4 DEF t
            <4> QED
                BY <1>5, <2>1, <4>1
        <3>4. (g \o q)[i] = q[i - Len(g)]
            BY <1>3, <1>4, <2>1, <2>4
        <3> QED
            BY <3>2, <3>3, <3>4
    <2> QED
        BY <1>3, <2>1, <2>2, <2>3, <2>4, SMTT(30)
<1>8. h \o t = g \o q
    BY <1>4, <1>5, <1>6, <1>7, SeqEqual
<1> QED
    BY <1>8 DEF h, t

(* push() appends to the queue.                                            *)
LEMMA AppendToSeen ==
    ASSUME NEW q \in Seq(Nat), NEW g \in Seq(Nat), NEW e \in Nat
    PROVE  g \o Append(q, e) = Append(g \o q, e)
<1>1. Append(q, e) = q \o <<e>> /\ g \o q \in Seq(Nat) /\ <<e>> \in Seq(Nat)
    BY AppendIsConcat, ConcatProperties
<1>2. Append(g \o q, e) = (g \o q) \o <<e>>
    BY <1>1, AppendIsConcat
<1> QED
    BY <1>1, <1>2, ConcatAssociative

LEMMA PushDropInv ==
    ASSUME DropInv, Push
    PROVE  EventTypes' /\ (Whole \/ Cut)'
<1> USE DEF DropInv, EventTypes, DataEvents
<1>1. pushed \in Nat /\ pushed' = pushed + 1 /\ pushed' \in Nat \ {0}
    BY DEF Push
<1>2. consumer = "waiting" => queue = <<>>
    BY DEF StreamInv, NoLostWakeup
<1>3. CASE /\ closed \/ ended
           /\ UNCHANGED <<queue, got, consumer, accepted, sourceVars, closed>>
    BY <1>1, <1>3 DEF Whole, Cut, Seen
<1>4. CASE ~closed /\ ~ended /\ Len(queue) >= Buffer /\ PushOverflows
    <2>1. consumer # "waiting"
        BY <1>2, <1>4, StreamAssumption
    <2>2. queue' = <<Overflow>> /\ got' = got /\ accepted' = accepted /\ closed'
        BY <1>4, <2>1 DEF PushOverflows
    <2>3. got \o queue = accepted
        BY <1>4 DEF Whole, Cut, Seen
    <2>4. accepted \in Seq(Nat) /\ Len(got) \in Nat /\ Len(queue) \in Nat
        BY SeqMonotonic
    <2>5. Len(accepted) = Len(got) + Len(queue)
        BY <2>3, ConcatProperties
    <2>6. SubSeq(accepted, 1, Len(got)) = got
        <3>1. CASE Len(got) = 0
            BY <3>1, SubSeqEmpty
        <3>2. CASE Len(got) # 0
            BY <2>3, <2>4, <3>2, SubSeqOfConcat1, SubSeqFull
        <3> QED
            BY <3>1, <3>2
    <2>7. got \o <<Overflow>> = Append(got, Overflow)
        BY AppendIsConcat DEF Overflow
    <2>8. Seen' = Append(SubSeq(accepted, 1, Len(got)), Overflow)
        BY <2>2, <2>6, <2>7 DEF Seen
    <2>9. Len(got) \in 0..Len(accepted)
        BY <2>4, <2>5
    <2>10. Cut'
        BY <2>2, <2>8, <2>9 DEF Cut
    <2> QED
        BY <1>1, <2>2, <2>10 DEF Overflow
<1>5. CASE ~closed /\ ~ended /\ Len(queue) < Buffer /\ PushAccepted(pushed + 1)
    <2>1. accepted' = Append(accepted, pushed + 1) /\ accepted' \in Seq(Nat \ {0})
        BY <1>1, <1>5 DEF PushAccepted
    <2>2. got \o queue = accepted
        BY <1>5 DEF Whole, Cut, Seen
    <2>3. CASE consumer = "waiting"
        <3>1. queue = <<>> /\ queue' = <<>> /\ got' = Append(got, pushed + 1)
            BY <1>2, <1>5, <2>3 DEF PushAccepted
        <3>2. got = accepted /\ got' \in Seq(Nat)
            BY <1>1, <2>2, <3>1, ConcatEmptySeq, AppendProperties
        <3>3. got' \o queue' = accepted'
            BY <2>1, <3>1, <3>2, ConcatEmptySeq
        <3> QED
            BY <1>1, <2>1, <3>1, <3>2, <3>3 DEF Whole, Seen
    <2>4. CASE consumer # "waiting"
        <3>1. queue' = Append(queue, pushed + 1) /\ got' = got
            BY <1>5, <2>4 DEF PushAccepted
        <3>2. got' \o queue' = accepted'
            BY <1>1, <2>1, <2>2, <3>1, AppendToSeen
        <3>3. queue' \in Seq(Nat)
            BY <1>1, <3>1, AppendProperties
        <3>4. Whole'
            BY <3>2 DEF Whole, Seen
        <3> QED
            BY <1>1, <2>1, <3>1, <3>3, <3>4
    <2> QED
        BY <2>3, <2>4
<1> QED
    BY <1>3, <1>4, <1>5 DEF Push

LEMMA NextDropInv ==
    ASSUME DropInv, [StreamNext]_streamVars
    PROVE  DropInv'
<1> USE DEF DropInv
<1>1. StreamInv'
    BY NextStreamInv
<1>2. CASE Push
    BY <1>1, <1>2, PushDropInv
<1>3. CASE NextTakes
    <2>1. /\ queue # <<>> /\ got' = Append(got, Head(queue)) /\ queue' = Tail(queue)
          /\ UNCHANGED <<closed, accepted, pushed>>
        BY <1>3 DEF NextTakes
    <2>2. EventTypes'
        BY <2>1, HeadTailProperties, AppendProperties DEF EventTypes
    <2>3. Seen' = Seen
        BY <2>1, TakeKeepsSeen DEF EventTypes, Seen
    <2>4. (Whole \/ Cut)'
        BY <2>1, <2>3 DEF Whole, Cut
    <2> QED
        BY <1>1, <2>2, <2>4
<1>4. CASE UNCHANGED <<queue, pushed, accepted, got>> /\ (closed => closed')
    BY <1>1, <1>4 DEF EventTypes, Whole, Cut, Seen
<1>5. CASE EndStream \/ SignalAborts \/ NextFinishes \/ NextRegisters \/ NextWaits \/ Return
           \/ UNCHANGED streamVars
    BY <1>4, <1>5 DEF EndStream, SignalAborts, NextFinishes, NextRegisters, NextWaits, Return,
                      Shutdown, streamVars
<1> QED
    BY <1>2, <1>3, <1>5 DEF StreamNext, NextCall

LEMMA DropInvariance == StreamSpec => []DropInv
<1>1. StreamInit => DropInv
    BY InitStreamInv DEF StreamInit, DropInv, EventTypes, Whole, Seen
<1>2. DropInv /\ [StreamNext]_streamVars => DropInv'
    BY NextDropInv
<1> QED
    BY <1>1, <1>2, PTL DEF StreamSpec

(* watch.ts push(), next(): the events received and queued are those that  *)
(* were accepted, each once and in order, up to an overflow, which the     *)
(* consumer is told of as the last event.                                  *)
THEOREM Drops == StreamSpec => []NoSilentDrops
<1>1. ASSUME DropInv PROVE NoSilentDrops
    <2>1. EventTypes
        BY <1>1 DEF DropInv
    <2>2. CASE Whole
        <3>1. Len(accepted) > 0 => accepted[Len(accepted)] # Overflow
            BY <2>1, ElementOfSeq DEF EventTypes, DataEvents, Overflow
        <3> QED
            BY <2>2, <3>1 DEF Whole, NoSilentDrops, Overflowed
    <2>3. CASE Cut
        <3>1. PICK n \in 0..Len(accepted) : Seen = Append(SubSeq(accepted, 1, n), Overflow)
            BY <2>3 DEF Cut
        <3>2. accepted \in Seq(Nat) /\ Len(accepted) \in Nat
            BY <2>1, SeqMonotonic DEF EventTypes, DataEvents
        <3>3. SubSeq(accepted, 1, n) \in Seq(Nat) /\ Len(SubSeq(accepted, 1, n)) = n
            BY <3>2, SubSeqProperties, ElementOfSeq
        <3> DEFINE before == SubSeq(accepted, 1, n)
        <3> HIDE DEF before
        <3>4. before \in Seq(Nat) /\ Len(before) = n /\ n \in Nat
            BY <3>2, <3>3 DEF before
        <3>5. Seen = before \o <<Overflow>> /\ Len(Seen) = n + 1 /\ Seen[n + 1] = Overflow
            BY <3>1, <3>4, AppendProperties, AppendIsConcat DEF before, Overflow
        <3>6. Overflowed /\ Len(Seen) - 1 = n
            BY <3>4, <3>5 DEF Overflowed
        <3>7. SubSeq(Seen, 1, n) = before
            <4>1. CASE n = 0
                BY <3>4, <4>1, SubSeqEmpty
            <4>2. CASE n # 0
                BY <3>4, <3>5, <4>2, SubSeqOfConcat1, SubSeqFull DEF Overflow
            <4> QED
                BY <4>1, <4>2
        <3> QED
            BY <3>6, <3>7 DEF NoSilentDrops, before
    <2> QED
        BY <1>1, <2>2, <2>3 DEF DropInv
<1> QED
    BY <1>1, DropInvariance, PTL
=============================================================================
