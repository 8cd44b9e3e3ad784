# LightUSD in TLA+

LightUSD (`src/`) reads, composes, edits and writes Universal Scene Description
(USD) files and converts them for renderers, in C++ with C, Python and WebAssembly
bindings. The tree holds two generations: the *legacy* library (`src/src/*.cc`,
`src/src/tydra`) and its successor in namespace `lightusd::next` (`src/src/next`,
`src/src/tydra/next`). Most of the code decodes bytes or maps values to values.
What is hard is the rest: the code that keeps state across calls, shares it
between threads, or publishes it to somebody who sees it late. These are the
subject of this project.

All paths below are relative to the repository.

## 1. Inventory

### Parts that keep state

| part | state | operations | what makes it correct |
|---|---|---|---|
| Task queue, `src/task-queue.hh` | a ring of cells with a sequence number each, a write and a read position, all atomics; the payload is a plain object | `Push`, `Pop`, `Size`, `Empty`, `Clear` | a bounded FIFO queue for any number of producers and consumers; honest failures; no data race on a payload |
| Parallel pretty printer, `src/prim-pprint-parallel.cc` | a queue, `producer_done`, output buffers | one producer (the caller), N workers, join | every prim printed exactly once before the buffers are concatenated; returns |
| Task arena, `src/next/execution.cc` | `run_mu`, `mu`, two condition variables, `generation`, `active`, `stop`; `count`, `task` and `next`, which workers read without `mu` | `Run`, `WorkerLoop`, the destructor | each item runs once, between call and return; the members are not replaced under a running worker; no lost wakeup |
| tydra task arena, `src/tydra/task-arena.hh` | the same with a count of completed tasks | `Run` | as above |
| Layer registry, `src/next/pcp/layer-registry.{hh,cc}` | `layers_`, `in_flight_` (path to shared future), `mu_` | `GetOrLoad`, `Preload`, `Drop`, `Clear` | one parse per path at a time, one object per path, a failed parse releases those who wait, nothing stale after `Drop` |
| Arc expansion, `src/next/pcp/cache-arc-expansion.inc`, `cache-compose.inc`, `namespace-mapping.hh`, `load-rules.cc` | `sources_cache`, `sources_in_progress`, `deferred_payload_prims`, `load_rules_`, all under `api_mu_` | `SourcesForSite` and the `ExpandList` / `ExpandArcs` / `ProcessArc` recursion below it, called by `ComputePrimIndex`, `ComposePrim`, `BuildStage`; payload edits | opinions in strength order, each mapped to the prim it contributes to; what is cached is what a new cache would compose; cycles end; what an edit reaches is composed anew |
| Composition cache, `src/next/pcp/cache.cc` and `cache-*.inc` | `index_cache`, `layer_stacks`; the instancing maps `prototype_by_key`, `prototype_of`, `instances_by_prototype`, `instance_key_order`; `api_mu_` | `ComputePrimIndex`, `BuildStage`, `PrewarmPrimIndices`, `LoadPayload(s)`, `SetVariantSelections`, `Invalidate`, `InvalidateLayer`, `ReloadLayer`, `SetLoadRules`, `TrimTransientCaches` | the maps agree, one group per instance key, the least path leads, groups follow the sources |
| StageSession, `src/next/lightusd-next.cc` | the stage (shared with snapshots), revision, last change set, the cache or what is kept of a released one, a thread that destroys a released cache | `OpenFile`, edits (`LoadPayload(s)`, `UnloadPayload`, `SetVariantSelection(s)`, `ClearVariantSelection`, `ReloadLayer`, `Rebuild`), `ReleaseCompositionCache`, `ReleaseStaticGeometryArrays`, `TakeStage`, `GetSnapshot` | snapshots are immutable, a failed edit publishes nothing, releasing the cache is invisible |
| RenderSession, `src/tydra/next/render-session.cc` | revision, ids of resources, the next id | `Initialize`, `Apply`, `Reset`; calls the sink's `Begin`, `Upsert*`, `Remove`, `Commit`, `Abort` | the sink has the resources of the revision, each under one lasting id, whatever was sent incrementally |
| Handle allocator, memory budgets, time samples, interners | small | small | section 8 |

### Parts that keep none

Readers and parsers (USDA, USDC "crate", USDZ), writers, layer diff, flatten,
validation, schemas, evaluation, value types, the resolver, the legacy library
and the converters are functions of their inputs, large and sequential.
Vendored code, bindings and examples are left aside. `PROJECT.json` lists every
part with its sources and a reason when it is not modelled.

### How they interact

```
            OpenFile, edits                   snapshot + change set
 client ------------------->  StageSession  ------------------------->  RenderSession --> sink
                                   | owns, releases, restores                  (GPU, ...)
                                   v
                              pcp::Cache  --- Prewarm: workers compose on copies, then merge
                                   | GetOrLoad, Preload, Drop
                                   v
                              LayerRegistry --- parse (readers) on the calling thread

 TaskArena: Prewarm, converters, mesh work      TaskQueue: the parallel printer
```

`StageSession` is used by one thread. It calls the cache, which may run on
several, and the cache calls the registry from each of its workers. The client
holds snapshots and edit results for as long as it likes and hands them to the
`RenderSession` late, twice or never. `RenderSession` believes the change set
when it starts at the revision it has and sends everything otherwise.

### What is hard, and hard to test

* interleavings of single memory accesses (task queue), of critical sections and
  unlocked reads (task arena), of a parse and the eviction of its path (layer
  registry), of a prewarm and an edit (cache);
* long sequences of legal calls that leave one of four redundant maps behind
  (instancing);
* recursion that re-enters a cache whose entry is still being built, and edits that must
  find everything built from what they change (arc expansion);
* partial failure: a parse that fails while others wait for it, an edit that is
  cancelled after it has published, a sink that rejects an update after ids were
  given out;
* results that are applied late, and updates that claim to be complete;
* boundaries: the ring of one cell, the loop of zero or one items.

`PROJECT.json`, "hazards", lists 39 of these, each at its line, with the
properties that cover it or the reason why none does.

## 2. Modules

| module | models | an action is |
|---|---|---|
| `BoundedFifo` | what a queue promises (abstract) | a push or pop taking effect |
| `TaskQueue` | `TaskQueue<T>` | one access to shared memory |
| `MCTaskQueue` | symmetry for it | |
| `TaskQueueProofs` | theorems, refinement of `BoundedFifo` | |
| `ParallelPrint` | the printer's producer and workers; extends `TaskQueue`, refines `ParallelFor` | one step of a loop or of the queue call it is in |
| `ParallelPrintProofs` | theorems over those of the queue, refinement of `ParallelFor` | |
| `ParallelFor` | what `Run` and the printer promise (abstract) | a call, an item, a return |
| `TaskArena`, `MCTaskArena` | `next/execution.cc`, refines `ParallelFor` | a critical section of `mu`, or one access outside it |
| `TaskArenaProofs` | theorems, refinement of `ParallelFor` | |
| `SingleFlight` | what the registry promises its callers (abstract) | a question, the answer to all who ask, a return |
| `LayerRegistry` | the registry under threads, refines `SingleFlight` | a critical section of `mu_`, a parse, a set or a wait of a promise |
| `LayerRegistryProofs` | theorems, refinement of `SingleFlight` | |
| `Subsequence` | what a vector keeps when elements are removed; used by `NamespaceMapping` and `Instancing` | (pure operator) |
| `NamespaceMapping` | mappings of paths over arcs, and their composition | (pure operators) |
| `LoadRules` | which payloads a set of rules loads, and the edit of a set | (pure operators) |
| `PathProofs` | theorems about subsequences, load rules and mappings | |
| `Composition`, `MCComposition` | arc expansion, the source cache and payload edits; extends `NamespaceMapping` and `LoadRules` | one public call |
| `Instancing`, `MCInstancing` | the four maps under the cache's entry points | one prim's worth of work under `api_mu_` |
| `InstancingProofs` | theorems | |
| `Document` | what the session promises its client (abstract) | an edit, a copy, a picture |
| `StageSession` | the session, its client and the revisions a renderer is at; refines `Document` | one call; two for a call that builds a second session |
| `StageSessionProofs` | theorems, refinement of `Document` | |
| `Mirror` | what the render session promises the renderer (abstract) | an update taking effect |
| `RenderSession`, `MCRenderSession` | change sets, and the resources and ids of the renderer; refines `Mirror` | one published revision, one `Apply` |
| `RenderSessionProofs` | theorems, refinement of `Mirror` | |

`ParallelPrint` composes with `TaskQueue` by extending it: the main thread is
inside `Push` and a worker inside `Pop` by the very actions of the queue.
`Composition` and `Instancing` split the cache: the first computes the sources of a
prim, the second takes their instance key as given and follows the groups.
`StageSession` and `RenderSession` split one interaction: the first follows
*which* revision and base reach the renderer, takes a change set as complete
and checks that no picture mixes revisions; the second builds change sets from
what changed and checks that they *are* complete.

Constants that are bounds are named `Max...`. Versions of files, sources of a
prim and scenes are values that only compare: an instance key, a version number,
a set of rules. Definitions preceded by "Mutant:" are plausible wrong forms of
the definition after them; they are used nowhere in the specifications and show
that each property can fail (section 7).

### TaskQueue

`seq`, `data`, `writePos`, `readPos` are the members; `pc`, `pos`, `arg`, `got`
are each thread's place in a call and its locals. `PushStart` loads the write
position, `PushSeesFree`, `PushSeesFull` and `PushSeesTaken` are the three outcomes of
the test of the cell's sequence, `PushClaim` and `PushClaimFails` the weak
compare-exchange (which may fail for no reason), then `PushWrite` and `PushPublish`
fill the cell (`task-queue.hh:106-140`); `Pop` has the same shape. `log` records the item given to each claimed position: it is the
history that the refinement mapping needs. Two threads are never
allowed at one payload at a time, so the non-atomic payload is one variable per
cell and `NoPayloadRace` says that the modelled accesses do not conflict.

### TaskArena

A call of `Run` takes `run_mu`, publishes `count`, `task`, `next` and the
generation under `mu`, works along in `RunItems`, then waits on `done_cv`.
The condition variables are the sets of threads that wait, with spurious
wakeups; a notification that finds no waiter is lost. A caller with one item, or
an arena without workers, runs inline.

`ParallelFor` has the set of the items entered and the set of those that returned, and beside
them how often a task was entered and how often one returned. Both models count where they call (`entries`,
`returns`). An item entered a second time leaves the sets as they are and raises the count, which no
step of `ParallelFor` does: so the refinement says exactly once, and not only at least once.

### LayerRegistry

`disk[p]` is the version of a file; a parse yields it or fails. A layer object is
the parse that made it (its identity) and the version it holds.
`GetOrLoad` finds the layer (`Hit`), finds a future to wait for (`Join`), or
registers a promise (`BecomeLoader`); then `Parse`, `Store` and `SetValue` are separate, since only `Store` and the
lookup hold `mu_`. `SetValue` after the entry left `in_flight_` is the window
in which the next caller must neither wait nor parse again.

`SingleFlight` knows no parse, no promise and no future: a path is asked for, and at one
moment all who ask are answered with one layer, which is then the cached one unless a
preload came first. That moment is `Store`. The threads are
told later, at `SetValue`, and each wakes later still; so the mapping (`Answers`) reads the
answer of a future from the thread that is about to set it. A parse, a set and a wakeup are stutters.

### Instancing

`key[p]` is the instance key of the sources prim `p` has at present; an edit may
change it for the prims it covers (`Subtrees`). `index` is the key set of
`index_cache`. A vector of `instances_by_prototype` is a bag, as the code only
searches, appends and purges. Loops under the lock (`Invalidate_locked`,
`BuildStage`, the merge) are one step per prim, with `op` as the call in progress:
no other call interleaves, and what each iteration leaves is checked. A prewarm holds no
lock between `PrewarmBegin` and `PrewarmRelock`. Three next-state relations
build on each other:

* `SerialNext`: the per-prim interface, no edit between the two halves of a prewarm;
* `IndexNext`: the same with such edits;
* `Next`: also `BuildStage` and `TrimTransientCaches`.

### Composition

A scene gives the arcs authored at each site (a layer stack and a path); stack 0 is the
root stack. The C++ is one mutual recursion that mutates the cache as it goes, so
the operators thread a record `e` with what it mutates: `cache` is
`sources_cache`, `busy` the lists in progress, `deferred` the prims marked by
`HasDeferredPayload`, `main` and `spec` the two lists that the running
`ExpandList` fills, and `rules` what payload arcs ask. `SourcesForSite` returns
a cached list, an empty one for a site that is being built, or builds it from the
list of the parent; `ExpandArcs` visits the arcs of one spec in the order of
strength, `ProcessArc` one arc: the cycle test, the classes implied in the stacks on the way to
the root (`FollowArc`, `ImplyClass`), the target's own sources (`EnterTarget`) and what the
stage composes at a class beyond them (`Supplement`). A mapping is the list of pairs
of `namespace-mapping.hh` and composes as there; entry mappings are compared by value.

The actions are the public calls: `ComputePrimIndex`, `ComposePrim`, `BuildStage`
(the serial walk; one thread is the default), `LoadPayload`, `UnloadPayload`,
`LoadPayloads`, `SetLoadRules`, `TrimTransientCaches`. The lock is held from
beginning to end of each, so a call is a step. `edited` remembers that rules were changed
since the cache was last emptied, when lists made under both may be side by side;
`ChildKeepsParentOrder` and `DeferralsExplained` speak of the other times, `RuledPrimsAreFresh` of these.

### StageSession

`heap` holds the stage objects, `stage` the session's; results and snapshots the
client kept are in `retained` together with what they looked like when taken
(`seen`). A composed scene is identified by the rules, selections and layer
version that it was composed from. `asked` is the history of what was asked for
since the file was opened; it counts the settings of a failed edit, which the
code leaves in the cache. Rebuild ends in one of three ways: nothing
published; published and reported; published and then refused by the callback at
the last report (`LateCancel`).

`OpenFile`, and the `ReloadLayer` of the root, build a whole new session and then move it
over the old one (`lightusd-next.cc:713-820`, `957-970`). The old cache, or the thread
that destroys a released one, lives until that move, whose destructor joins the thread.
So these calls are two steps: `BeginOpen` and `BeginReloadRoot` put the new cache into
`replacement` (`opening` says which call it is), `FinishOpen` and `FinishReloadRoot` let it take the
place of the old one or drop it. In between no other call is made, but files change and the retiring
thread may end. When the root needs no composition there is no second cache, and the call is one
step (`OpenUncomposed`, `ReloadUncomposedRoot`).

`Document` has no objects, no cache and no change sets: settings, a content, copies that are
values, and a picture. `asked` maps to the settings, the object `stage` refers to
to the content, and what the client holds to copies of what *its* objects are now, so that an object changed
under a snapshot would be a step no `Document` takes. Release, the destruction of a
released cache and its restoration are stutters: that they cannot be seen is part of the promise. A step that shows
something shows all of one copy, however little its change set names.

### RenderSession

A stage maps the prims it has to the values of their properties. `Resources` and
`Reads` say which nodes, meshes and materials the converter makes of it and from
which properties, `BuildStageChangeSet` which paths and flags an edit gives, and
`IsAffected` / `HasRenderEffect` which resources a change set re-sends. An update
that fails anywhere keeps `ids` and the sink but may have used up ids. A mesh may be bound to
`MaterialOf` it; when the stage does not have that material the mesh is shown with the default, as an unbound
one is. `Rebinds` says whether an edit may change what a mesh that stays is shown with, whether by
its binding or by removing or adding the material.

`Mirror` has the scene, the ids and what the renderer has, and one step in which all of it
is brought up to date. `Apply`, full or incremental, and `ApplyNoOp`, which sends nothing, are
both that step; a rejected update is a stutter.

## 3. Runs

Nine runs pass and three end in a violation (section 6). Deadlock is checked except where noted.

| run | question | bounds | distinct states |
|---|---|---|---|
| `task_queue` | Is the ring a bounded FIFO queue, free of races, with honest failures? | 3 threads, 2 items, 2 cells; no push starts after 3 claims, so 5 positions | 558 267 |
| `parallel_print` | Is each prim printed once, is the call a parallel for over its prims, and does it return? | producer, 2 workers, 4 prims, 2 cells | 8 209 |
| `task_arena` | Does `Run` keep the promise of `ParallelFor` and return, and do workers exit? | calls of 2, 2, 1 and 0 items, 2 workers | 236 568 |
| `layer_registry` | One parse, one object, one answer for all who wait, nothing stale, every call returns? | 3 threads, 2 paths, 3 calls, 2 drops, preloads or edits | 396 180 |
| `instancing` | Do the maps agree, does the list of keys mirror them, and do they follow the sources, in any order of calls? | 3 prims, 2 keys | 5 692 |
| `instancing_stage` | Does `BuildStage` leave the right groups whatever came before? | the same, the whole interface | 3 183 423 |
| `instancing_prewarm` | *violated*: `GroupedByCurrentKey` | edits during a prewarm | |
| `composition` | Does each site map home, in the order of strength, finitely, the deferred payloads marked, and are ruled prims composed anew? | 19 arcs over 2 stacks, every scene of 2 or 3 of them, and 54 scenes with an arc to a prim without opinions; 3 paths; one rule edited in scenes of 2 arcs with a payload | 141 088 |
| `composition_load` | *violated*: `LoadedPrimsRecomposed` | two root prims with a payload each | |
| `stage_session` | Snapshots immutable, no mixed picture, release invisible: in all, a document edited by its settings? | 2 rule sets, 2 selections, 2 file versions, 3 revisions, 1 result kept | 3 041 042 |
| `render_session` | Is the sink in step after incremental, full, skipped, rejected updates, each one step of a mirror? | group, mesh bound or not, material, shader; 4 edited properties; no mesh rebound while it stays; 4 revisions; 9 ids | 25 120 |
| `render_session_binding` | *violated*: `SinkInStep` | edits of the material binding | |

### Why the bounds are enough

* `task_queue`: five positions in two cells wrap the ring, so every cell serves
  two or three positions and a thread can be overtaken by a whole lap between its load
  and its compare-exchange; three threads give two on one side and one on the
  other, both ways. The theorems of section 5 have no bound.
* `parallel_print`: more prims than cells makes the producer find a full ring, and two
  workers race for the last task and for the exit test.
* `task_arena`: two calls with shared work exercise the reuse of the members and
  the second generation; one and zero items are the boundary cases of the code.
  With two workers one can be late while the other finishes a run.
* `layer_registry`: a loader, a waiter and a latecomer on one path, with another path
  beside it; two edits allow a drop after an edit and a preload during a parse. Deadlock
  is not checked: calls are bounded, so the model ends.
* `instancing`: three prims give a leader, a member, and one smaller than the
  leader that arrives late; two keys let a prim change groups. The namespace order
  is not the path order, since `BuildStage` takes the first seen and
  indexing the least. `MaxOrder` bounds the keys that repeated trims leave
  behind in `instance_key_order` (section 6).
* `composition`: the arcs were chosen so that two or three of them meet in every way the
  code distinguishes: a class, reference and specialize on one prim; arcs on a child and on its
  parent; a class inside the referenced stack, at the root and below it, with and without
  opinions of the root stack on it; payloads on the prim, its child, its class and behind a
  reference; a prim that refers to a prim whose child refers back. In `BareScenes` the root stack authors
  nothing at the child of a prim, which is there by a reference of its parent alone, and an arc leads
  to it: its sources are then adopted from another list (`FollowArc`). A payload in the
  referenced stack sits at a path that names a root prim of the stage which may have none. Two stacks are the
  least that make a class implied. The namespace bound is above the depth of any of these
  scenes unless a cycle is missed. Three paths: a prim, its child and its class.
  Rules are edited in the small scenes only, as each edit multiplies the states by the
  lists cached; two rules at once are needed for `composition_load` alone. Deadlock
  is not checked: with every list cached and no rule to set, a call may change nothing.
* `stage_session`: a result of revision 1 or 2 can be applied at 3, over a
  renderer at any of them, and the files can change between release and restore.
  One retained result suffices for each property, which relate one result to
  the session. A released cache can still be retiring when a second session is built, and
  files change while it is.
* `render_session`: a path above, at, and below a resource; four revisions allow a
  remove, an add and a skipped revision, or for a mesh to be removed, added again bound, and edited. Deadlock is not checked: revisions are bounded and
  ids run out.

## 4. Fairness

* `TaskArena`: weak fairness of each thread's next step. Tasks return, `std::mutex`
  lets a waiter in, the scheduler runs every thread. No fairness of spurious
  wakeups: nothing depends on them.
* `ParallelPrint`: weak fairness of each thread, and strong fairness of the successful
  compare-exchange: it is a *weak* one, and a platform on which it fails
  forever although the position is the expected one would loop forever.
* `LayerRegistry`: weak fairness of the steps inside a call; a parse ends, with a
  layer or with nothing. Nobody has to call.
* The other modules state safety only.

## 5. Proofs

TLAPS checks eight modules, for every value of the constants. The assumptions
are the named `ASSUME`s of the modules, evaluated by TLC on each run. Each safety invariant
is seldom inductive by itself: what follows says what it was strengthened with.

**TaskQueueProofs** (a capacity of at least two where a theorem says so; with one cell the
ring does overfill, section 6).
`IInv` = types, `RingInv`, `ThreadInv` of each thread, and `OneOwnerPerPosition`.
That a claim does not overfill the ring
follows only because a thread at its compare-exchange, *if* the position has
not moved, still knows the sequence number of its cell, even though it read it long
ago. `ThreadInv` says that for each label, `RingInv` says what the sequence of a
cell tells of the positions it serves, and division lemmas say that two positions
less than a capacity apart never share a cell. From it: `TypeCorrect`,
`RingNeverOverfull`, `PositionsHaveOneOwner`, `PayloadRaceFree`, `PopDelivers`,
`SizeInRange`, and `RingImplementsFifo`: every step of a call is a push, a pop or a
stutter of `BoundedFifo`, with the claims as linearization points.
`FailuresAreHonest` adds `BlockInv`: each free cell was recycled, each claimed one
is published or somebody is at work on it, and a position that a thread has read is never ahead
of the ring. A call that gives up then had a full (empty) ring, or a thread
between its claim and its publication on the very cell.

**ParallelPrintProofs** (two cells or more, and at least one worker).
`PInv` = the queue's `IInv`, `Places` (what the producer and each worker are at, and
which queue call that puts them in), `Ledger` (the items of the positions claimed are the prims
in order; a prim is with the worker that claimed it, or written; the calls of the print routine, counted, are as many) and `Exits`. A worker
that leaves has read `producer_done` *before* it found the queue empty, and the
producer sets it after its last push: hence `WorkersDrainTheQueue` and `NothingLostOrPrintedTwice`.
`PrinterImplementsParallelFor` maps each step of the printer, those inside the queue included, to a step of
`ParallelFor` or a stutter: the call begins at the first claim, a body is entered when `Pop` returns.
`NobodySpins` is the safety half of `PrintTerminates`: with the queue's `BlockInv` it shows that a producer that finds the
ring full, and a worker that finds it empty, each wait for somebody who can go on.

**TaskArenaProofs**. `IInv` = `Places` (types, who is where in `Run` and `WorkerLoop`, and
who holds `run_mu`), `Counted` (`active` is the number of the workers that still owe the
current generation), `Indices` (the indices drawn are those below `next`, each by one
thread) and `Books` (what was started and finished, and how often, is what was drawn). The count is what matters:
`active = 0` at the return of a `Run` means that nobody is in `RunItems`, so the next
caller may replace the members (`PublishExclusive`), and `ArenaImplementsParallelFor`
maps each step to a step of `ParallelFor` or a stutter. `NoLostWakeup` is the safety half of `RunsReturn` and
`WorkersExit`: whoever waits on a condition variable waits for something that is still to come, so a
notification is lost only on a thread that no longer needs one. `NobodyCallsNothing` says that `task`, which
workers call without `mu`, is set whenever one may call it.

**LayerRegistryProofs**. `IInv` = types, `CallsKnow` (what each thread knows at each step of
its call), `LoadersAreInFlight` (a path is in `in_flight_` exactly when one thread is
its loader), `OnlyPreloadOvertakesParse`, `ParsesArePaid` and `NothingStale`. `ParsesArePaid` is the
strengthening of `ParsedOncePerEviction`: only a path that has a layer and no parse in flight may have
one parse more than evictions. `NothingStale` is that of `FreshAfterDrop`: it speaks
also of what a loader has read and not yet stored. `WaitersHaveALoader` is the safety half of `CallsReturn`: a
thread that waits for a future waits for one whose promise a loader still holds or has set, whatever was
dropped or preloaded meanwhile. `RegistryImplementsSingleFlight` maps each step to a step of `SingleFlight` or a
stutter. Its `FlightInv` says that a future without a value is that of a path in flight (`FuturesUnset`, `FuturesBelong`), that
who waits for it waits for its path, and that a path in flight has no layer but a preloaded one
(`UnparsedIsPreloaded`): hence `Store` answers exactly those who ask (`WaitersKnown`), and `SetValue` changes no answer
(`ValuesKnown`). Without the erasure of the entry in the critical section of `Store` a latecomer would be answered without having asked.
The theorems need no fairness.

**InstancingProofs**, over `IndexSpec`, so also with edits during a prewarm.
`IInv` = types of the calls, the three properties of groups
(`MembershipAgrees`, `OneKeyPerGroup`, `PrototypeIsLeast`) and `GroupedOnlyIfIndexed`. They
need each other: dropping a prototype dissolves the group it leads only if the
reverse index names all its members, and a take-over keeps one key per group
only if the two groups are disjoint. `BuildStage` is left out of this relation, and
rightly: it groups in namespace order, so `PrototypeIsLeast` is not true after it. `OrderFollowsKeys` is over
`IndexSpec` for a like reason: a trim keeps `instance_key_order` (section 6).
`GroupsFollowSources` is over `SerialSpec`, with no edit between the halves of a prewarm:
`CurrentInv` says that every prim that the invalidation in progress is not about to drop
is grouped by its present key, and that the keys a prewarm took along are still the present ones.
`TypeCorrect` and `StageGroupsAreExact` are over `Spec`, the whole interface. For the second, `WalkInv` says of a
`BuildStage` in progress that the groups are those of the prims visited so far, in the order they were found, each
led by the first of its key. Nothing is asked of the state the walk starts from, which is the point: it
clears what earlier calls left. The argument uses that a walk visits each prim once (`NamespaceOrderAssumption`), and not that the order
is the one of paths.

**StageSessionProofs**. `SettingsInv` (what is kept of the cache is what was asked
for; never both a cache and one that retires) gives `SettingsSurvive`, and
with `BuildingInv` (a replacement is there exactly while it is built) `LayersAreBounded`: one set of parsed layers between
calls, and never more than two while a second session is built, as no cache is restored while another one retires. `PublishedInv` gives `SnapshotsAreImmutable` and
`PictureIsOfOneScene`; its strengthening `ChainInv` says of every change set that
somebody still holds, and every revision that somebody is at, that if the one starts
at the number of the other it starts from its very scene. `NeverMixed` rests on
it, since the renderer compares nothing but numbers. `FailuresPublishNothing` assumes
that no callback refuses the last report: such a refusal is the only way to a failed edit that
has published (section 6).
`SessionImplementsDocument` needs no such assumption, since `Document` lets an edit publish or not, but in either case by its
settings. It draws on both invariants: `SettingsInv` for the edits after a release, `PublishedInv` for the
copies, which must not change when `ReleaseStaticGeometryArrays` works on the session's own object, and, through `ChainInv`,
for the picture, which an incomplete change set must complete.

**RenderSessionProofs**. `IdsInv` (ids in use are distinct and below the next id, and no id the sink
was ever given names another resource, also after an aborted update) gives `IdsAreLasting`.
`SyncInv` = `IdsInv`, what is known of the base a change set starts from, and
`SinkInStep`. The lemma that carries it is `UnnamedIsKept`: a resource which the change set
names neither by a path related to its own nor by a class of change that affects its kind reads
only properties that have not changed, so leaving it out is right. Its proof goes
through the kinds of edits and of resources one by one, and fails when one of the
flags is dropped. `NothingIsLeftOut` assumes `~Rebinds`: no edit changes the material
that a mesh which stays is shown with. Meshes come and go bound or not, and everything else about them is edited; what
such an edit does is the finding of section 6. Of the resources left out of the model
(section 8) the theorem says nothing. The same is assumed by
`SessionImplementsMirror`: an update that is skipped, incremental or full is one and the same step of `Mirror`.
`MirrorInv` adds `ToldInv`: `ids` and the sink name the same resources, and each id was told for that resource. `ApplyIdentifies` then says
that a resource the renderer has keeps its id and that a new one is given an id never told.

**PathProofs**, about pure operators, for every set of names and paths of any length. `KeptIsSubsequence` says what
a vector keeps when elements are removed: by a recursive function over 0 .. n, and the least n at which it would fail.
*Load rules*, about every rule set: after
`LoadPayload` with descendants everything at or under the path is loaded
(`LoadReachesDescendants`) and everything above it too (`LoadReachesAncestors`); without them
nothing below it is (`LoadAloneStopsThere`); after `UnloadPayload` nothing at or
under it is (`UnloadReachesDescendants`); and prims beside the path keep the effect they had
(`EditIsLocal`).
*Mappings*: `ComposeActsInTurn` says that at and under the source of an arc, what `Compose` makes of an outer mapping
and the mapping of the arc acts like the one after the other, whatever pairs the outer mapping has; the lemmas account
for each pair that the composition keeps, drops or moves, and for the longest one that then applies.
`ArcMappingInverts` is what the routing of implied classes uses in the other direction. `ArcTargetMapsHome` puts them
together: the target of an arc followed from a source that contributes to a prim is mapped to that very prim.
`ComposeActsWhenCoherent` drops the single pair: with an inner mapping of any number of pairs `Compose` still acts like
the two in turn at every path where they are `Coherent`. What is left of each inner pair is a block of
consecutive pairs of the result (`FlattenIsBlocks`, for the fold that concatenates them), the best match of a block acts
like that inner pair and then the outer mapping (`BlockActs`), the pairs that pass through
are shorter, and `Coherent` says of the other inner pairs that apply that they take the path to the same place or that no
outer pair carried below their targets applies to it. With it `EnteredTargetMapsHome` and `AdoptedSourceMapsHome` are the steps of
`SourcesMapHome` at the sources of an entered target and at those taken over from another prim, and
`ChildMapsHome` is its step at a child. So each composition that the code makes is proved to keep it, and two
things are left to TLC: that the recursion takes no other steps, and that the mappings it meets fulfil the hypotheses
(`Coherent`, a pair that applies, no pair for the child itself), which a separate evaluation
found them to do at every composition in the scenes of `composition`.

**Only model-checked.** The six properties of `Composition`: its operators are recursive, in the code as here, and a
module that reaches a RECURSIVE operator is out of the prover's reach. Induction over data is not available as a
theorem to cite; `KeptIsSubsequence` gets by with the least number of a set, which serves a recursive function over an interval
and not a mutual recursion. The liveness properties (`PrintTerminates`, `RunsReturn`,
`WorkersExit`, `CallsReturn`), as the prover handles neither liveness under fairness nor ENABLED; that nobody waits for
something that cannot come any more is proved of each (`NobodySpins`, `NoLostWakeup`, `WaitersHaveALoader`).

## 6. Findings and observations

Three runs end in a violation of something the repository says of itself:

1. **A prewarm undoes an edit** (`instancing_prewarm`). The merge of
   `PrewarmPrimIndices` does not look whether rules or layers changed while the
   lock was free (`cache-parallel-warm.inc:692`); the docs say that every entry point is
   serialized.
2. **A new material binding is not rendered** (`render_session_binding`). The change is flagged
   Material on the mesh's path, which affects no resource there (`render-session.cc:59`),
   so the update is taken for a no-op. Two related edits leave a mesh stale as well, found with
   `Rebinds = TRUE` in the model: when a bound material is removed, or added back, the change is a Resync at the
   material's path, which sends the catalog but does not upsert the mesh, whose `material_id` is converted anew
   (`render-converter.cc:5172`). The trace of the run is the binding edit.
3. **Payloads of two root prims stay unloaded** (`composition_load`). `LoadPayloads`
   invalidates the common ancestor of its paths. When that is the pseudo-root
   the search goes one parent further, to the empty path, and nothing is invalidated
   (`cache-invalidation.inc:185`), although `cache.hh:211` promises to invalidate the common
   affected subtree. Indices made before keep the payloads out until something else drops them.

Also observed while modelling:

* A ring of one cell loses items: the sequence that publishes an item equals the one that frees
  the cell, so `Push` on the full ring succeeds (`task-queue.hh:118`). With `Capacity = 1`
  the run `task_queue` reports `ImplementsFifo` violated. A unit test calls it "a working SPSC"
  (`unit-task-queue.cc:235`) but only constructs one; the printer's default is 1024 cells.
* `ParallelPrintConfig.num_threads` is documented as "0 = auto-detect"
  (`prim-pprint-parallel.hh:36`), but only the constructor detects; a zero set later starts no
  worker and the producer waits for ever. Callers use the default; the theorem assumes a worker.
* An edit that fails may have published: a cancellation at the last report comes after the
  commit (`lightusd-next.cc:678`), and no change set of that step is returned. No document says
  what a cancellation leaves behind. `Rebuild` has its last report in the same place.
* `TrimTransientCaches` leaves `instance_key_order` (`cache.cc:802`), which then lists
  keys twice; `BuildStage` resets it.
* `BuildStage` groups prims that have no cached index; a later `LoadPayload` may put one
  in a second group (`cache-invalidation.inc:43`). Hence `BuildStage` is not in the relations
  that the group invariants are stated over, and `BuildStageIsExact` checks that it
  recovers from all such states.
* Siblings of a dropped prototype are orphaned but stay indexed, and are not grouped
  again until invalidated (`cache-specs-instances.inc:374`). The properties
  therefore say that what is grouped is grouped rightly, not that all is grouped.
* While `OpenFile` or a reload of the root is at work the layers of the old session, or of a released cache
  that is not yet destroyed, are in memory beside the new ones, whereas an edit after a release joins the thread first.
  `TakeStage` leaves that thread running.
* `OpenFile` restarts revisions at 1; a reload of the root loses the settings of
  earlier edits; a failed edit leaves its settings in the cache.
* A parse in flight during `Drop` stores what it read before; `FreshAfterDrop` counts
  drops made when no parse of the path was in flight.
* Payload edits on relatives (`Composition`): `LoadPayload` of a prim under an unloaded one
  leaves the ancestor's index as it was; `UnloadPayload` of a child leaves the
  parent loaded. The rules then agree with `GetEffect` while an index made before does
  not; `RuledPrimsAreFresh` therefore speaks of root prims and what is under them.
* `Invalidate_locked` finds the dependents of a prim by their indices: a list cached for a
  prim without an index stays. Lists adopted from other prims record no dependency on
  their sites. `InvalidateLayer` misses indices with an arc to a prim that has no spec yet.
* `deferred_payload_prims` is a set of paths without their stack, and the expansion of a referenced
  stack's own lists marks its paths in it too (`cache-arc-expansion.inc:1199`, `1221`, `1248`). So
  `HasDeferredPayload` (`cache.hh:233`) answers yes, and `GetDeferredPayloadPaths` lists the path, for a
  prim of the stage without a payload when a prim of the same path in another stack has one.
  `DeferralsExplained` says that no mark is missing and that a mark has one of these two causes.
* A composed mapping acts like the two in turn when the inner one has a single pair, as that of an arc has
  (`ComposeActsInTurn`), or several that are `Coherent` with the outer one (`ComposeActsWhenCoherent`). Otherwise it need
  not: an inner `/A -> /X`, `/A/B -> /Y` under an outer `/X/B -> /Z` takes `/A/B` to `/Z` and not to `/Y`. Entering a
  target composes the mappings of its sources, which may have several pairs (`cache-arc-expansion.inc:973`); no scene
  of the run makes two that disagree in this way.
* What an arc into a prim's own descendants composes depends on which prim was asked for
  first, because a list in progress reads as empty. No scene of the run has such an arc.
* What a specialized class references itself is routed by its own kind on the
  children and overtakes the class there; `ChildKeepsParentOrder` leaves this case out.
* A new image gets an id but no incremental upsert, as images are keyed by file
  and not by prim path; a change of `doubleSided` or `orientation` is flagged Metadata, which
  affects only nodes (`render-session.cc:46-62`).
* The docs call `api_mu_` recursive; a comment in `cache-compose.inc` calls it non-recursive.

## 7. Mutants

For each property of each passing run `PROJECT.json` names a definition and a
wrong form of it under which that run reports the property violated: a dropped wait or
notification, a missing reset, a stale base, a published position before its payload.
They are the evidence that a property depends on the code it is about.

## 8. Abstractions, and what is not modelled

* *Memory model.* All accesses are sequentially consistent; the acquire and release
  orders of the queue are not told apart. Positions are naturals, not `size_t`.
* *Task queue.* `Clear` is a loop of `Pop`; `TaskQueueFunc` is the same code.
* *Printer.* The chunked variants split a prim's children by the same loops; the fallback to
  serial printing changes no state.
* *Load rules.* A rule set has at most one rule per path, as `LoadPayload` and
  `UnloadPayload` keep it; `AddRule` has no caller on a live cache.
* *Arena.* Tasks neither throw nor call `Run` on their own arena (that deadlocks, a hazard).
* *Registry.* Choice of format, parse and resolver are one step.
* *Composition.* One layer per stack. No variants, relocates, expression variables, layer
  offsets and instanceable prims; layers always load. The parallel walk of `BuildStage`
  and the prewarm compute the same lists on copies and are in `Instancing`.
  Edits are those of payload rules: edits of layers and variants go through
  the same `Invalidate_locked`. `PopulationMask` and the diagnostics are left out.
* *Instancing.* Prims are siblings (`BuildStage` does not visit below an instance); group vectors are
  bags; nonexistent prims, a full index cache, inactive instanceable prims and
  the `FlattenInstances` modes are left out; composition is reduced to its instance key.
* *StageSession.* One thread. On `OpenFile` the client drops results and resets
  its renderer, since revisions restart. The files have one version together.
  After a `ReloadLayer` that leaves no layer stack the next edit reads the first of an empty
  vector; it is undefined and the model makes no such step. Previews, diagnostics
  and memory statistics are left out.
* *RenderSession.* Nodes, meshes and materials. Textures, images, lights, cameras,
  points, curves, skeletons, animations, repeated keys, positions between resources
  (sent as a whole catalog with every update) and stage metadata are left out.
* *Not modelled*: the parts with status `not_modelled` in `PROJECT.json`.

## 9. Plan

Written in this order, each with its run and then its proofs: `TaskQueue`, `TaskArena`,
`LayerRegistry`, `Instancing`, `StageSession`, `RenderSession`, then `NamespaceMapping`,
`LoadRules` and `Composition`, and the proofs of the printer, the arena, the registry and the
renderer. Every property of the runs that is within the prover's reach is proved. Left, in the order of what it would tell:

1. `Composition`: variants (selection strength and its order against the other arcs), several
   layers per stack, relocates; edits of layers through `InvalidateLayer`.
2. `RenderSession`: images and lights (keys that are no prim paths), stage metadata.
3. Memory budgets (compare-exchange against a moving base) and the double-checked
   build of time samples.
4. The handle allocator, with a proof that live handles are distinct; the interners and the
   property index (`shared_mutex`).

When a new property is worth more than an old one it takes its place: one property
per hazard, not one per definition. So `TypeOK` is a run's invariant in `instancing` alone;
`TypeCorrect` proves it there, and of the queue, the arena, the registry and the session, without a bound.
