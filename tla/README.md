# Formal models of Treenix

TLA+ models of the parts of Treenix where concurrency decides whether the
program is right: the serialisation of actions, the node cache, mounts of
external stores, nodes kept as files, the watch manager and its clients, the way
of a change from its writer to a browser, and the office of AI agents. TLC checks
each model on small instances; TLAPS proves the most important properties for
every value of the constants. `PROJECT.json` maps every definition to the lines
of the repository it stands for. Paths below are relative to the repository.

## 1. The system

Treenix keeps everything as nodes of a tree. A request goes through a pipeline
of layers that is built in `core/src/server/server.ts:55-138`; each layer is a
`Tree` that wraps the one before:

    memory / fs / mongo trees
      withMigration -> withMounts -> withVolatile -> withValidation
      -> withRefIndex -> withCache -> withSubscriptions -> [audit]
      -> withAcl (per user) -> tRPC router

`withSubscriptions` compares a node before and after each write and hands an
event to the watch manager, which pushes it to the connections of the users
that watch the node. Events of a mounted external store come from
`runExternalWatch`, which invalidates the cache and injects them into
`withSubscriptions`. Actions run above all layers: `executeAction` reads a node,
runs a handler on a draft of it and patches the node with the draft's changes.
In the browser a client keeps a cache of nodes, mounts views that fetch and
watch, and applies the events it gets.

Everything server-side is one Node.js process: code between two `await`s is
atomic, and all interleaving happens at awaits, timers and callbacks. The models
follow that: one action per stretch of code between two awaits.

### Components

| Component | State it keeps | Operations | What makes it right |
|---|---|---|---|
| Per-path lock, `core/src/util/path-lock.ts` | map from path to the last gate | lock, start, settle | one function per path at a time, in order; no entry left behind or dropped early; every function runs |
| Action executor, `core/src/server/actions.ts`, `kind-stack.ts` | a lock, the frames of nested calls, timeouts | executeAction, nested calls, setComponent, streams | no lost update; kind rules at any depth; every call settles |
| Tree cache, `core/src/tree/cache.ts`, `inflight.ts`, `util/bounded-cache.ts` | bounded FIFO map, reads in flight, epoch | get, getChildren, scanChildren, set, patch, remove, watch, invalidate | no node older than an invalidation or a finished set is served or kept; bounded |
| Watch manager, `core/src/sub/watch.ts` | entry per user (connections, paths, listings), two indexes, a counter, grace timers | connect, disconnect, watch, unwatch, notify | indexes, counter and limits agree; nobody is forgotten while connected; idle users are |
| Query registry, `core/src/sub/index.ts` | active queries with their users | watchQuery, unwatchQuery, unwatchAllQueries | no user outlives its entry in the watch manager |
| Watch clients, `packages/react/src/tree` | mounted views, client cache | mount, dispose, reconnect, apply event | what is shown is watched; each change is heard once |
| Watch stream, `core/src/tree/watch.ts` | queue, pending next(), flags | push, end, abort, next, return | ordered, no silent gap, no lost wake-up, no leaked listener, ends |
| Subscriptions, `core/src/sub/index.ts`, `watch-filter.ts` | listeners, queries | set, remove and patch with events, filters | clients converge; a revision tells what it stands for |
| External watch, `core/src/sub/external-watch.ts`, `core/src/tree/repath.ts` | dedup buckets, retry attempt | read the stream, invalidate, forward, retry | the cache is as new as the events; a stale node is about to be reported |
| Mounts, `core/src/mount` | cache of resolved mounts, running watches | resolve, invalidate | no stale adapter, no leaked watch |
| Memory / file / Mongo trees | the nodes | get, set with revision check, remove, patch | a stale revision is refused; no node is lost between two file operations |
| Client optimism, `packages/react/src/tree/rebase.ts`, `auto-save.ts` | confirmed node and pending actions | push, server event, rollback | cache converges to the server's node |
| Services, `core/src/mods/autostart`, `core/src/util/debounced-write.ts` | handles, timer | start, stop, trigger, flush | one instance per service; the last state is written |
| Agents, `mods/agent`, `core/src/agent-port` | pool of slots, agents, tasks, runs | scan, discuss, plan, work, release, resume | no agent or slot is overcommitted; no task waits beside a free agent; work is approved |

The behaviours that are hard, and hard to test, are listed with their lines under
"hazards" in `PROJECT.json`. They fall into five groups: state read before an
await and used after it (actions, setComponent, cache fills, subscriptions,
agent pool); timers that race a late answer (action timeout, grace period,
debounce); counters and indexes kept in several places (watch manager, query
registry); ordering and loss of events (streams, filters, reconnects, external
watch); and state of one user shared by several of its tabs.

## 2. Modules

| Module | Models | Uses |
|---|---|---|
| `PathLock` | the lock, as a contract of its own | |
| `ActionExec` | executeAction, nested calls, setComponent | `PathLock` by refinement |
| `TreeCache` | withCache over a tree with outside writers | |
| `MountWatch` | withMounts, runExternalWatch and the outer cache, together | |
| `FsTree` | createFsTree, file operation by file operation | |
| `WatchManager` | watch manager, query registry, the requests that drive them | |
| `WatchTabs` | browser tabs on top of the watch manager | extends `WatchManager` |
| `WatchStream` | subscriptionToAsyncIterable | |
| `Realtime` | one node from writers to a browser: patch, events, filters, fetches, optimism | |
| `AgentOffice` | the orchestrator of agents and its restart | |
| `MC...` | constants of the instances | |
| `...Proofs` | theorems and proofs; `MountWatchProofs` has those of `WatchStream` too | extend the component's module |

Definitions whose comment begins with "Slip" belong to no specification. Each is
a plausible mistake in the definition that follows it, kept to show that the
property paired with it under "mutants" notices.

### PathLock

A call is one invocation `lock(path, fn)` and its gate. `Acquire` is the
synchronous part (remember the last gate, become the last), `Enter` the start of
`fn` by `prev.then(fn, fn)`, `Release` the `finally` block, which drops the map's
entry only if it is still this call's gate. `tail` is the map; `ticket` and
`clock` are history variables, for stating order.

### ActionExec

`phase[c]` is where `executeAction` is: queued behind its lock, resolving (the
node is read, kinds are checked), handling, patching (`tree.patch` reads the node
again), writing, settled. Handlers may make nested calls and await them, of any
path, also of one that is locked by themselves. `Timeout` settles the call and
lets the handler go on in `late`; it may then still make calls but its draft is
dropped. `HandlerThrows` is every failure before the patch. The store checks
revisions as the memory tree does. A write that fails above the store after it
was made is the "failed" outcome of `PatchWrite`.

Node contents are abstracted to what lost updates tell apart: a field holds the
set of the writers its value takes into account. An action adds itself to the
field *as it read it at the start*, as a handler that computes a new value from an
old one does; a lost update is a missing member.

### TreeCache

A request `o` is at one await (`at[o]`) of the operation it runs. Versions stand
for content and revision. `InFlight` is the map of `createInflight`, keyed by path
and epoch; a joined request waits for its leader. `Fill` is the guarded
`cache.set` of get, getChildren and scanChildren, `CachePut` the unguarded one of
set. `ExternalWrite` changes the tree behind the cache; some time later follows
`WatchEvent`, the invalidation of its path, or `WatchReconnect`, the invalidation of
everything after a gap in the stream. `order` is the insertion order of the bounded
map, from which the oldest entry is evicted.
`getChildren` fills all its entries in one step in the code; the model fills
them one by one, which `scanChildren` does and which includes the other case.
`fresh`, `acked` and the two `...AtStart` fields of a request are history
variables.

### WatchManager

`subs`, `auto`, `pushes` are the user's entry, `watchers` the two indexes, `total`
the counter, `timers` the grace timers, `queries` the users of active queries.
`WatchNodes` is the watching part of get, resolve, getChildren and execute,
`WatchListing` that of getChildren with `watchNew`, which registers the query
before it watches. A request over a limit has created the entry already, as in
the code. `Notify` goes through the three stages of `notify` (exact, listing,
query route) and makes the automatic watches; in which order users reach a
shared limit is left open. Membership routes are any routes the registry of
active queries permits.

A request that names a path twice is `again` in `WatchNodes`; it exists when
`RepeatedPaths` holds.

### WatchTabs

A connection is a tab that reconnects. `views[t]` is what tab `t` shows and was
told is watched. `Open` is the handshake: the server says whether watches were
preserved, and a client told otherwise fetches everything again, which is new
`ShowNode` / `ShowListing` requests. `Hide` is the disposal of the last view of a
path in a tab. `LateRequests` says whether requests may be served when the user
has no entry, which is an assumption about the network. Users without a tab are
other clients, which use the manager in any way it permits.

With two tabs of a user, `TabsInSync` fails (finding 4), and with late requests
too (finding 5), so the run has one tab, without them, beside another user whose
connections do what they like.

### WatchStream

One variable per variable of the iterator; `subscribed` and `attached` are the two
ends of `unregister` and the abort listener. `accepted` and `got` are histories.
A source calls back only after `register()` has returned, as all sources in the
repository do; with a source that pushes while it registers, `push` would queue
an event before the waiter is set and a later event would overtake it.

### Realtime

`log[r]` is the stored node at revision `r`; a field holds the set of operations its
value takes into account, so that a lost or doubled change shows. An operation is a
patch: `Read`, `Write` and `Emit` are the stretches between the awaits of
`withSubscriptions.patch`, and its event carries the revision that the last of its
reads finds. `stream` holds events and answers on their way, numbered in the order they
were sent. The client's side is
`rebase.ts` in full for one node (`confirmed`, `pending`, `shown`), the patch branch
of `onData`, and fetches, whose read and whose watch are two steps. Membership of the
node in one query (`Listed`) is computed as in `cdcEval`, from the node before and
after.

The code leaves several orders to luck, and a model in which anything may happen
would satisfy nothing. `races` names them; each behaviour allows one, or none:

| Race | Allows | What breaks |
|---|---|---|
| `writers` | two operations on the node overlap (`sub/index.ts:570-600`) | content and listing of `Convergence`, `RevMatchesContent` |
| `filters` | events overtake one another (`watch-filter.ts:78-86`) | the same, and `RevNeverFalls` |
| `late` | an answer is overtaken by events (`client-tree-source.ts:108-113`) | the same, and `RevNeverFalls` |
| `gap` | a change between a fetch's read and its watch (`trpc.ts:141-143`) | content and listing of `Convergence`, `RevMatchesContent`; together with `resync` also `RevNeverFalls` |
| `away` | a reconnect within the grace period (`events.ts:97-112`) | the same |
| `resync` | actions under way while the client fetches or reconnects | the same, and predictions may stay pending |

"What breaks" was found by TLC, by asking for each property under each race. The
properties of the run say what remains: without races the client converges and its
revisions tell the truth; with any of them but `resync` no prediction is left
behind; with any of them but `filters` and `late` revisions never fall. The theorems of
`RealtimeProofs` say the same of any set of races at once, and the attempt to prove it
found the one combination that matters: under `gap` and `resync` an answer that was read
before an action follows that action's event (`InOrder` excludes it). `docs/concepts/reactivity.md:34`
calls patches "ordered"; `filters` and `late` are where they are not.

### MountWatch

The mount's config is a number, the external store it points to. `lookup[n]` is a read
of node `n` under the mount past the outer cache; `Connected` starts a watch before
`Mount` caches the adapter, as `resolveMount` does. `mounts` is the cache in FIFO order,
keyed by user; `Gone` is the position of the entry that makes room, `Abort` is `onEvict`. `Forward` and `Fail` are the loop of
`runExternalWatch` with the callbacks `server.ts:70-93` gives it, which invalidate
both caches. `told` is a history: the newest version an event was forwarded of.
De-duplication, mounts in mounts, configs by `$ref` and events on the mount node
itself are left out.

The model brought these to light; they are properties of the code, not of a
promise it makes:

* `invalidateCacheAll` empties the mount cache, whose `onEvict` aborts the very watch
  that reports the failure; the retry loop goes on only where the watch has no
  entry (yet). `docs/concepts/mounts.md:176` describes retries; in effect the next
  read mounts again.
* Nodes that were cached while the source was broken stay stale after a retry, and
  nodes that outlive an eviction or a config change in the outer cache are watched
  by nobody. `StaleIsReported` is therefore about nodes whose watch has been open
  without a break since they were read.
* `set` invalidates before it writes (`mount/index.ts:132-133`): a lookup in between
  caches an adapter for the old config, which stays, although
  `docs/concepts/mounts.md:177` says the cache is invalidated on config changes.

### FsTree

`leaf`, `main` and `dirs` are the files `p.json`, `p/$.json` and the directories. A `set` or
`remove` runs alone (`locked`) as a list of `steps`, each of which is a file operation or
expands, when it is reached, into those that the files then call for (`Promote`,
`Place`, `Take`, `Climb`). `Interrupt` may come between any two: an operation throws, or
the server crashes, and the rest is not done. `get` reads two files, without the lock.
`may[p]` is a history, what `p` may hold by the calls so far.

What the model shows besides its properties: a get may find nothing although the
node was there all the time, when the node changes its form between the two reads
(`fs.ts:40-62`); a set refused for its revision leaves its ancestors in dir form
without children; after an interruption both forms may be left, and a remove takes
one of them, so the node comes back. Listings, which read a directory and then its
files, can meet the same gaps and fail; they are not modelled. A file is written in
one step: a crash inside `writeFile` can leave a truncated file.

### AgentOffice

`scan` is `processInbox` between its awaits: `ScanAgents` (`buildRoleIndex`), `ScanBoard`
(tasks and pool are read), then `Visit` or `PassOver` for each item and `Launch`, and
`Save`. `rerun` is `pendingRerun`; every write to an agent, a task or the pool is an
event that calls `Wake`. Runs post their results and then release in `finally`; the
order of the two writes differs between work and the other kinds, as in the code.
`Crash` is the restart with `reconcileOnStartup`, and `Resume` goes on beside the first
scan. People approve and reject plans, assign tasks, and change agents' states at any
time; none of this starts or stops a run.

Objects read through the cache are live: a scan sees later writes to a task where
the object is still the cached one (`seen`), and changes the cached pool in place
until the first write replaces it (`shared`). Agents and tasks are of one role; the
order of visits and the choice among idle agents are open. Failing store operations and
a stop without a crash are not modelled. `restored` is a history, how many agents the last
restart resumes.

What the model shows besides its properties: a scan writes back the pool it read
(`service.ts:748-753`), so a run that ended meanwhile stays among the active ones and
its slot is lost until a restart (20 steps; `types.ts:176` calls the list "currently
active"); a restart resumes *every* busy agent with a session, so an agent that was
assigned a task by hand (`types.ts:143-149` takes no slot) runs on top of a full pool
afterwards, which is why `RunsBounded` lets runs exceed `maxConcurrent` up to
`restored`; a task in "doing" whose agent cannot be resumed stays there; failing
discussions and plans are retried for ever.

## 3. Checks

Twelve runs. For every property of a run that passes, "mutants" names a slip that
makes TLC find it violated in that run. Bounds:

| Run | Instance | Shows |
|---|---|---|
| `lock` | 4 calls, 2 paths | mutual exclusion in order of arrival, the map's entry exact, and every queued call runs |
| `actions` | 3 write calls, 1 setComponent, 1 path, 2 fields | the executor implements `PathLock`; a successful action is never undone; setComponent's change is lost only to an action on the same field |
| `action_calls` | 3 calls of every kind, 1 path, no setComponent | kind rules along whole chains; every queued call settles |
| `cache` | 3 requests of any kind, 2 paths, capacity 1, 1 outside write | cache shape, one inner read, fresh answers and fills |
| `fs` | paths /a, /a/b, /a/b/c, 4 calls, 1 interruption, 1 get at a time | no path loses or gains a node; forms are as they should be between calls; a get finds what was there |
| `watches` | 1 tab of a user, 2 connections of another, a listing, a node, a query mount, limits 2 and 3 | indexes, counter, limits, timers; shown is watched, a change is heard once; idle users are forgotten |
| `stream` | buffer 2, 6 events | order, overflow, wake-ups, clean-up, termination |
| `realtime` | 2 optimistic actions, 2 foreign writes, 2 fields, 1 lost connection, 6 races | what survives which race |
| `mounts` | 2 users, 2 nodes, capacity 1, 2 configs, 2 outside changes, 2 watches | watches live as long as their entries; the cache is as new as the events; staleness is reported |
| `agents` | 2 agents, 1 task, 1 or 2 slots, 1 crash, 1 interference | slots, agents, wake-ups |
| `cache_get_over_set` | 3 gets or sets, 1 path | **violated**: a get serves the node from before a finished set |
| `agents_resumed` | as `agents` | **violated**: work without an approved plan |

Why the bounds are enough to be interesting: three calls on one lock are the
least in which the map's entry can be dropped under a queued call while another
arrives, and four add a second queued one or a second path. Three actions give
a call, a nested one and a rival, or a chain of two nestings; the lock's own
interaction between paths is in `lock`, and one path makes every nested call a
call on a held lock, the case that can deadlock. Three requests give a leader, a
follower and an invalidating remove or a set in between; capacity one makes every
second path evict. Two connections of one user and one of another give
rivalry for the server-wide limit, and both limits are reached (the mutants
of `LimitInv` and `TotalInv` need that). Six events overflow a buffer of two after
some have been consumed. Three paths in a chain give a node with an ancestor and a
descendant, so that its form changes from both sides, and four calls suffice to
build the chain and take one node away. Two own actions are the least in
which one is rejected or shifted out while another is pending, with two foreign
operations on the same two fields. With room for one mount two users evict each
other; two watches are two lookups of one mount. Two agents compete for one slot and
one task, or hold two slots and meet on one task.

`lock` and `watches` use no symmetry because they check liveness; `cache`, `mounts` and
`agents` permute values that their properties, all of them invariants, do not tell
apart. Deadlock
checking is off: calls and requests are bounded, so every model may come to rest,
and the absence of stuck work is stated as liveness (`EveryCallRuns`,
`EveryCallSettles`, `IdleUsersForgotten`, `LoopTerminates`), or as what holds at rest
(`Convergence`, `NoMissedWork`).

### Fairness

* `PathLock`: a due promise callback runs, and `fn` settles. The lock cannot give
  more than its functions do.
* `ActionExec`: callbacks run, tree operations complete, and the action timeout
  fires (`AbortSignal.timeout`). Nothing is assumed of a handler: it may wait or
  run for ever.
* `WatchManager` and `WatchTabs`: `setTimeout` fires. Nobody has to connect, ask or disconnect.
* `WatchStream`: a `for await` loop calls `next()` again. The source owes nothing.
* The other modules state safety only. That a client converges or an agent's task is
  done would need a network, a store and a language model that answer, which the
  code does not guarantee; what is stated instead is that nothing is left undone
  once everything has come to rest.

### Findings

Two runs show a disagreement with what the repository says of itself:

1. `withCache.set` takes no part in the epoch: a read in flight restores the node
   from before the set (`cache.ts:70`), against `cache.test.ts:72`. For the same reason
   a set in flight can restore what an invalidation dropped; `GetsAreFresh` and
   `CacheAgrees` are therefore about paths that nobody sets through the cache.
2. An agent that was planning is resumed as a worker (`service.ts:783`), against
   `types.ts:211`: it posts its plan, the server stops before the agent is marked idle,
   and `reconcileOnStartup` finds a busy agent with a session.

Others came up while modelling; the constants and instances that show them are
named, and TLC finds a counterexample in seconds to minutes:

3. `watch()` counts a repeated path twice (`sub/watch.ts:175`, fed by `trpc.ts:250-257`):
   `RepeatedPaths = TRUE` breaks `TotalInv`.
4. `unwatch` of one tab ends the watch of all tabs of the user (`sub/watch.ts:194`,
   `client-tree-source.ts:131-132`), although `sub/watch.ts:3` promises several
   connections per user: `Users = {u1}`, `Conns = Tabs = {t1, t2}` with `Owner <- TwoTabs`
   breaks `TabsInSync`.
5. An entry made by a request is taken for preserved watches (`sub/watch.ts:143, 168`):
   `LateRequests = TRUE` breaks `TabsInSync`. Such an entry has no grace timer either,
   so it lasts until somebody connects and disconnects.
6. `executeAction` never compares the revision it read (`actions.ts:460` gives only
   the changes to `tree.patch`, which reads again), while `docs/concepts/actions.md:200`
   promises a conflict error. What holds instead is `ActionEffectsKept` and
   `WriterLostOnlyToSameField`: actions do not lose updates among themselves, because
   of the lock, but may overwrite a setComponent on the same field.
7. The races of `Realtime`, the config race and the lost retries of `MountWatch`, the
   lost slot and the overbooked restart of `AgentOffice` and the get that finds nothing of `FsTree`, described with
   their modules above.

## 4. Proofs

`tlapm` checks all of them from nothing. Each holds for any constants that meet
the named assumption of the component's module, which says that sentinels are
distinct from real values, that constants have their types, that the ancestors of
a path are the paths above it (`FsTree`) and, where something is counted, that the sets
of users, paths, agents or own operations are finite.

* **PathLockProofs** - `Spec => []IInv`, hence `TypeOK`, `FifoMutex`, `TailInv`.
  `FifoMutex` is not inductive: `Enter` looks at one remembered gate only. That no
  *other* unfinished call is ahead follows from `ChainInv` (a call with an earlier
  unfinished one waits for a gate at least as late); `Acquire` keeps that because
  `TailInv` says the map holds the last unfinished gate, and orders are distinct
  by `TicketInv`. `IInv` is their conjunction; the proof has one lemma per action.
* **ActionExecProofs** - `Spec => Lock!Spec`: with `LockPhase` as the refinement
  mapping, invocation is `Acquire`, the start `Enter`, each of the six ways to
  settle `Release`, and the rest stutters. What is proved of `PathLock` so
  applies to the executor. Also `Spec => []TypeOK`.
  `ActionEffectsKept` and `WriterLostOnlyToSameField` are the executor's two promises
  about data. From the refinement and `PathLockProofs` comes
  that a path has one call inside at a time (`Excluded`). The invariant `EInv` adds
  that what a call inside its lock has read includes every success so far
  (`DraftsSeeSuccesses`), and that a copy which carries the stored revision carries
  the stored content (`CopiesTell`), so that a write which passes the revision check
  replaces exactly the node it was made from, one field of it.
  `KindPropagation` speaks of the whole chain of callers of a frame, while the code looks
  at the innermost one. It follows because a frame that makes a call runs, and so has
  passed the rules against everything beneath it (`StackInv`, `RunsAllowed`).
* **TreeCacheProofs** - `FillsRespectInvalidation`: no fill brings back a
  node older than the path's last invalidation. The invariant says that a request
  holding an answer *of the current epoch* read it after the last invalidation of
  each path (`HeldFresh`). It needs that no request is ahead of the epoch, so that
  an invalidation makes every held answer stale at once, and that versions of
  the tree only grow.
  The second half proves `GetsAreFresh`, `OneInnerRead` and `CacheAgrees` from one
  invariant, `CacheInv`. A get that joined depends on its leader, which may be done by
  the time it returns, so the invariant relates the two (`JoinsFresh`: the leader asks
  for the same path, and what it read or answered is no older than what the *joiner*
  must not fall behind). That holds at the join because the leader's answer is of the
  current epoch (`HeldFresh`): the epoch in the de-duplication key is what the proof
  uses. For `CacheAgrees` a path is *sure* that nobody sets, with no outside write or
  remove still to be announced; its entry, and every answer that may still enter the
  cache, are then what is stored (`Current`). A write makes its path unsure, and an
  invalidation, which makes it sure again, empties the entry and outdates the answers.
  `CacheShape` (`BoundedInOrder`) is inductive with the fact that nothing stored or read
  has the version that stands for no entry (`Versioned`). Its lemmas are about the
  sequence: what removing a listed path, dropping the head and appending an unlisted
  one do to its length, its elements and its injectivity.
* **WatchManagerProofs** - `TypeOK`, `IndexInv` and `TimerInv` are inductive together:
  `removeUser` empties the indexes from the user's own lists, which is enough only
  if they agree, and may forget the connections because the timer that calls it
  runs for users without any. From them follows the safety half of `IdleUsersForgotten`,
  that the last connection to go starts the grace period (`GracePeriods`).
  `TotalInv` and `LimitInv`, over finitely many users and paths: the set of all watches is
  taken apart into those of one user and the rest, or, for `notify`, into what was
  there and what every automatic watcher gains. The theorem `Counting` says more than
  `TotalInv`: even with requests that name a path twice the counter is never too low
  (finding 3 makes it too high), and the limits hold all the same.
  `TabsInSync` and `EveryViewIsToldOnce` then say of the tabs what findings 4 and 5 leave
  standing: their hypotheses are `OneTabEach` and `~LateRequests`. `TabsUseTheManager` is the
  refinement that carries the manager's theorems over to the tabs, so that "what a tab
  shows is watched" follows from the agreement of the indexes, and "told once" from the
  stages of `notify` reaching each user in one of them.
* **The stream**, in `MountWatchProofs`, whose external watches are read through it: that
  module extends `WatchStream` too - `NoLostWakeup` and `ClosedIsClean`, from the invariant
  that the iterator holds the unregister function and the abort listener exactly
  while the source holds the listener (`Attached`). `NoSilentDrops` adds where the overflow
  event can be: last, in a closed stream, which accepts nothing more; and that a
  waiting `next()` and a queued event exclude each other, so that nothing overtakes.
* **AgentOfficeProofs** - `OneRunPerAgent` and `RunsBounded`. Neither is inductive,
  because the pool that decides is now the stored one and now a scan's copy of it. The
  invariant calls an agent *occupied* that runs, is about to be launched, or will be
  resumed, and says that the pool that counts (`scan.pool` while a scan has a change to
  save, the stored one otherwise, both while a scan goes on without one) holds a slot for
  everyone occupied (`SlotsHeld`), and that nobody is occupied twice (`OccupiedOnce`).
  Runs then map one to one into the slots of a pool that fits (`Fits`), and the
  library's theorem on injections gives the bound. This proof is where the overbooked
  restart came from: `Reconcile` does not establish `active <= maxConcurrent`. The bound
  counts agents, which is why `Agents` is assumed finite.
  `NoMissedWork` is about the moment at which a scan ends. A scan that no event has come
  to and that has chosen nobody knows the idle agents, the tasks and the pool as they are,
  and has left behind only what cannot be started (`ScanIsCurrent`); when it has nothing
  left, neither has the board. `TypeOK` has the pool's queue without repetitions, which
  needs what `Acquire` and `Release` do to an injective sequence.
* **MountWatchProofs** - `TypeOK`, `WatchIffMounted`, `CacheIsAsNewAsEvents` and
  `StaleIsReported`, for any number of users, nodes, watches and changes and any
  capacity. That a watch is aborted exactly when its entry goes needs that no two
  entries or waiting lookups share one (`Distinct`), and that what names a watch names
  one of its own config, or a stopped one (`Named`). The cache is as new as the events
  because nothing is announced that is newer than the store (`Announced`) and because a
  read that may still fill the cache is as new as well (`FillsAsNew`): `Forward` refuses
  the reads under way, without which that conjunct would be lost. `StaleIsReported`
  needs the same of reads under way (`FillsReported`), and that a value was never read
  in a later opening of its watch than the present one (`CachedNotAhead`).
* **RealtimeProofs** - `TypeOK`, `RevNeverFalls`, `RevMatchesContent` and `Convergence`, for any
  operations, fields, query, number of absences and set of races. There are three
  arguments on top of the types. *Predictions*: without `resync` there are never more
  predictions pending than requests and own events that will take one away each
  (`TakenAway`), so at rest none is left. *Order*: while events and answers keep their order,
  revisions rise along the stream, from what the client holds to the end of the log
  (`Rising`), an answer not yet sent was read after everything sent (`ReadLast`), and a client
  that fetches has nothing of its own under way (`Settled`). *Truth*: without races one writer
  at a time is between its read and its event (`OneWriter`), every message says what was
  stored at its revision (`Tells`), each follows the one before it without a gap
  (`Follows`), and the last of them, or the client if there is none, has come as far as the
  log (`CaughtUp`); so the client holds what was stored at its revision (`Holds`), and at
  rest that is the last one.

  TLC checked this invariant on every set of races before it was proved.
* **FsTreeProofs** - `StoredAsAsked`, `OneForm` and `ReadsWhatWasThere`, for trees of any
  shape. A set or a remove is a list of file operations, whose length depends on the
  depth of the path and on what the files are when an operation is reached; `FsInv`
  says, for each prefix of the list that may have been done, what is left to do and
  what the files are like (`AtSet`, `AtRemove`). *Content*: a file of a path holds, in
  either form, something the path may hold (`Held`), and what is still to be written is the
  new content or a copy of what the path holds. This is kept by each operation, whatever
  was done before, so it survives every interruption, and a get, whose two reads may
  fall anywhere, can find nothing else. Only a set that is refused needs more: nothing of
  it has been written (`Fresh`). *Form*: with nothing interrupted, all nodes but the one or
  two that are between forms are as between calls (`Tidy`, `Neat`). An ancestor that is
  being promoted or demoted is without entries meanwhile (`Rough`), and one whose last entry
  is going has a directory that is there for nothing (`Loose`). That a node with entries
  never loses its directory rests on whatever is there having all directories above it
  (`Closed`), and this on the lemmas about paths (`ParentOf`, `LineOf`), which need that
  the ancestors of an ancestor are those above it (`FsAssumption`). The run's chain of three
  paths has no siblings, so TLC checked `FsInv` before it was proved on that chain and
  on a node with two children.

Only model-checked: all liveness (`EveryCallRuns`, `EveryCallSettles`,
`IdleUsersForgotten`, `LoopTerminates`), because the prover does not handle ENABLED and
fairness. Every other property of a passing run is a theorem.

## 5. Not modelled, and assumptions

* Node contents, paths, schemas, permissions: abstracted or left out. A refused
  request is a failing branch.
* Streaming actions, the generic patch action and contracts of `actions.ts`.
* The memory tree restarts at revision 1 when a node is set without one
  (`core/src/tree/index.ts:319`); versions in the models only grow.
* The cache hands out node objects by reference; the models copy.
* Of `withSubscriptions`: creation and removal of nodes (`Realtime` follows one node that
  exists throughout), listeners inside the server, invalidations by rights and claims.
* Of the external watch: the de-duplication of own writes. Of the stores: listings of
  `fs.ts`, `mimefs.ts`, and what the MongoDB adapter leaves to the database.
* The layers between `withMounts` and `withCache` (volatile, validation, references,
  migration): transformations of one node, without steps in between.
* Of the agents: the guardian's approvals of tools, several roles, the agent port.
* Autostart and the debounced write: one flag or one map entry across one await each. Their
  hazards are listed; a start that meets a start (`autostart/service.ts:26`) and a final
  flush that meets a write in flight (`debounced-write.ts:37`) are visible from the code.
* Accounts, access control, schema and types, user interface, server rendering and
  packaging: no shared state that several actors change, or not this project's subject.

The map covers a small share of the repository's lines. Most of them are views,
applications, type descriptions and adapters; the models are of the code in which an
order of steps decides.

## 6. What is left

* Creation and removal in `Realtime`, with the event that `remove` fails to send
  (`sub/index.ts:563`), and its composition with `WatchManager`.
* The de-duplication of `external-watch.ts`: no foreign write may be taken for an own one.
* Small models of autostart and the debounced write.
* Listings of `fs.ts`, which read a directory and then the files in it.
