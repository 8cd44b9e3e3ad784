--------------------------- MODULE LayerRegistry ---------------------------
(***************************************************************************)
(* pcp::LayerRegistry of src/next/pcp/layer-registry.{hh,cc}, as built with *)
(* LIGHTUSD_ENABLE_THREAD: a parse-once cache of layers.  The first thread *)
(* that asks for a path publishes a future and parses outside the lock;    *)
(* the others wait on the future.  Each critical section of mu_ is one     *)
(* action.  Layers can be dropped, preloaded and edited on disk meanwhile. *)
(***************************************************************************)
EXTENDS Integers, Sequences

CONSTANTS Threads,
          Paths,        \* resolved asset paths
          NoPath,
          MaxCalls,     \* bound: calls of GetOrLoad
          MaxEdits      \* bound: calls of Preload, Drop, Clear and file edits

ASSUME PathsAssumption  == NoPath \notin Paths
ASSUME BoundsAssumption == MaxCalls \in Nat /\ MaxEdits \in Nat

\* A layer object: which parse made it (0: none, it was preloaded) and which
\* version of the file it holds.  `id` stands for the object's identity.
Layer   == [id : Nat, version : Nat]
NoLayer == [id |-> -1, version |-> 0]      \* nullptr
Pending == [id |-> -2, version |-> 0]      \* a promise that has no value yet

VARIABLES cache,       \* by_resolved_
          inFlight,    \* in_flight_: the future of the parse of a path, 0 if none
          outcome,     \* outcome[f]: the value of future f
          parseCount,  \* parse_count_
          disk,        \* external: the version of each file
          pc, path,    \* each thread: where it is, the path it resolved
          future,      \* the local my_promise or wait_fut
          layer,       \* the local outcome.layer
          calls, edits,
          parses,      \* history: successful parses, per path
          evicted,     \* history: times a cached layer was dropped, per path
          floor        \* history: disk version when the path was last dropped
                       \* while no parse of it was in flight

store == <<cache, inFlight, outcome, parseCount>>
locals == <<path, future, layer>>
history == <<parses, evicted, floor>>
vars == <<store, disk, pc, locals, calls, edits, history>>

TypeOK ==
  /\ cache \in [Paths -> Layer \cup {NoLayer}]
  /\ inFlight \in [Paths -> 0 .. Len(outcome)]
  /\ outcome \in Seq(Layer \cup {NoLayer, Pending})
  /\ parseCount \in Nat /\ calls \in Nat /\ edits \in Nat
  /\ disk \in [Paths -> Nat]
  /\ pc \in [Threads -> {"idle", "parse", "store", "set", "await"}]
  /\ path \in [Threads -> Paths \cup {NoPath}]
  /\ future \in [Threads -> 0 .. Len(outcome)]
  /\ layer \in [Threads -> Layer \cup {NoLayer}]
  /\ parses \in [Paths -> Nat] /\ evicted \in [Paths -> Nat] /\ floor \in [Paths -> Nat]

Init ==
  /\ cache = [p \in Paths |-> NoLayer]
  /\ inFlight = [p \in Paths |-> 0]
  /\ outcome = << >>
  /\ parseCount = 0 /\ calls = 0 /\ edits = 0
  /\ disk = [p \in Paths |-> 1]
  /\ pc = [t \in Threads |-> "idle"]
  /\ path = [t \in Threads |-> NoPath]
  /\ future = [t \in Threads |-> 0]
  /\ layer = [t \in Threads |-> NoLayer]
  /\ parses = [p \in Paths |-> 0]
  /\ evicted = [p \in Paths |-> 0]
  /\ floor = [p \in Paths |-> 0]

Goto(t, label) == pc' = [pc EXCEPT ![t] = label]

-----------------------------------------------------------------------------
(* GetOrLoad.  A path that does not resolve returns before the lock. *)

CallOn(t, p) ==
  /\ pc[t] = "idle" /\ calls < MaxCalls
  /\ calls' = calls + 1

\* Cache hit: the layer is returned at once.
Hit(t, p) ==
  /\ CallOn(t, p)
  /\ cache[p] # NoLayer
  /\ UNCHANGED <<store, disk, pc, locals, edits, history>>

Join(t, p) ==
  /\ CallOn(t, p)
  /\ cache[p] = NoLayer /\ inFlight[p] # 0
  /\ path' = [path EXCEPT ![t] = p]
  /\ future' = [future EXCEPT ![t] = inFlight[p]]
  /\ Goto(t, "await")
  /\ UNCHANGED <<store, disk, layer, edits, history>>

\* Mutant: in_flight_ is not consulted before parsing.
BecomeLoaderAlways(t, p) ==
  /\ CallOn(t, p)
  /\ cache[p] = NoLayer
  /\ outcome' = Append(outcome, Pending)
  /\ inFlight' = [inFlight EXCEPT ![p] = Len(outcome')]
  /\ path' = [path EXCEPT ![t] = p]
  /\ future' = [future EXCEPT ![t] = Len(outcome')]
  /\ Goto(t, "parse")
  /\ UNCHANGED <<cache, parseCount, disk, layer, edits, history>>

BecomeLoader(t, p) ==
  /\ CallOn(t, p)
  /\ cache[p] = NoLayer /\ inFlight[p] = 0
  /\ outcome' = Append(outcome, Pending)
  /\ inFlight' = [inFlight EXCEPT ![p] = Len(outcome')]
  /\ path' = [path EXCEPT ![t] = p]
  /\ future' = [future EXCEPT ![t] = Len(outcome')]
  /\ Goto(t, "parse")
  /\ UNCHANGED <<cache, parseCount, disk, layer, edits, history>>

\* LoadLayerFromFile: whatever the format, the file as it is now or a failure.
Loaded(p, id) == {[id |-> id, version |-> disk[p]], NoLayer}

\* load_resolved, outside the lock.
Parse(t) ==
  /\ pc[t] = "parse"
  /\ \E loaded \in Loaded(path[t], future[t]) : layer' = [layer EXCEPT ![t] = loaded]
  /\ Goto(t, "store")
  /\ UNCHANGED <<store, disk, path, future, calls, edits, history>>

\* Mutant: in_flight_ keeps the entry.
StoreKeepsFuture(t) ==
  /\ pc[t] = "store"
  /\ IF layer[t] # NoLayer
       THEN /\ parseCount' = parseCount + 1
            /\ cache' = [cache EXCEPT ![path[t]] = IF @ = NoLayer THEN layer[t] ELSE @]
            /\ parses' = [parses EXCEPT ![path[t]] = @ + 1]
       ELSE UNCHANGED <<parseCount, cache, parses>>
  /\ Goto(t, "set")
  /\ UNCHANGED <<inFlight, outcome, disk, locals, calls, edits, evicted, floor>>

\* Mutant: a failed parse returns at once and leaves the promise unset.
StoreAbandonsFailure(t) ==
  /\ pc[t] = "store"
  /\ LET p == path[t] IN
       /\ IF layer[t] # NoLayer
            THEN /\ parseCount' = parseCount + 1
                 /\ cache' = [cache EXCEPT ![p] = IF @ = NoLayer THEN layer[t] ELSE @]
                 /\ parses' = [parses EXCEPT ![p] = @ + 1]
                 /\ Goto(t, "set")
            ELSE /\ UNCHANGED <<parseCount, cache, parses>>
                 /\ Goto(t, "idle")
       /\ inFlight' = [inFlight EXCEPT ![p] = 0]
  /\ UNCHANGED <<outcome, disk, locals, calls, edits, evicted, floor>>

\* Second critical section: emplace does not overwrite, and the future is
\* withdrawn whether or not the parse succeeded.
Store(t) ==
  /\ pc[t] = "store"
  /\ LET p == path[t] IN
       /\ IF layer[t] # NoLayer
            THEN /\ parseCount' = parseCount + 1
                 /\ cache' = [cache EXCEPT ![p] = IF @ = NoLayer THEN layer[t] ELSE @]
                 /\ parses' = [parses EXCEPT ![p] = @ + 1]
            ELSE UNCHANGED <<parseCount, cache, parses>>
       /\ inFlight' = [inFlight EXCEPT ![p] = 0]
  /\ Goto(t, "set")
  /\ UNCHANGED <<outcome, disk, locals, calls, edits, evicted, floor>>

\* my_promise->set_value, outside the lock; GetOrLoad returns the layer.
SetValue(t) ==
  /\ pc[t] = "set"
  /\ outcome' = [outcome EXCEPT ![future[t]] = layer[t]]
  /\ layer' = [layer EXCEPT ![t] = NoLayer]
  /\ path' = [path EXCEPT ![t] = NoPath]
  /\ future' = [future EXCEPT ![t] = 0]
  /\ Goto(t, "idle")
  /\ UNCHANGED <<cache, inFlight, parseCount, disk, calls, edits, history>>

\* wait_fut.get(): GetOrLoad returns what the loader got, a failure included.
Await(t) ==
  /\ pc[t] = "await"
  /\ outcome[future[t]] # Pending
  /\ path' = [path EXCEPT ![t] = NoPath]
  /\ future' = [future EXCEPT ![t] = 0]
  /\ Goto(t, "idle")
  /\ UNCHANGED <<store, disk, layer, calls, edits, history>>

-----------------------------------------------------------------------------
(* Preload, Drop, Clear, and what happens to the files meanwhile.  A        *)
(* preloaded layer comes from memory, not from a version of the file.       *)

Edit == edits < MaxEdits /\ edits' = edits + 1

Preload(p) ==
  /\ Edit
  /\ cache' = [cache EXCEPT ![p] = [id |-> 0, version |-> 0]]
  /\ UNCHANGED <<inFlight, outcome, parseCount, disk, pc, locals, calls, history>>

\* Mutant: the layer stays cached.
EraseNothing(P) ==
  /\ evicted' = [p \in Paths |-> IF p \in P /\ cache[p] # NoLayer
                                   THEN evicted[p] + 1 ELSE evicted[p]]
  /\ floor' = [p \in Paths |-> IF p \in P /\ inFlight[p] = 0 THEN disk[p] ELSE floor[p]]
  /\ UNCHANGED <<cache, inFlight, outcome, parseCount, disk, pc, locals, calls, parses>>

\* Erases the cached layers of the paths P; a parse in flight goes on.
Erase(P) ==
  /\ cache' = [p \in Paths |-> IF p \in P THEN NoLayer ELSE cache[p]]
  /\ evicted' = [p \in Paths |-> IF p \in P /\ cache[p] # NoLayer
                                   THEN evicted[p] + 1 ELSE evicted[p]]
  /\ floor' = [p \in Paths |-> IF p \in P /\ inFlight[p] = 0 THEN disk[p] ELSE floor[p]]
  /\ UNCHANGED <<inFlight, outcome, parseCount, disk, pc, locals, calls, parses>>

Drop(p) == Edit /\ Erase({p})

Clear == Edit /\ Erase(Paths)

EditFile(p) ==
  /\ Edit
  /\ disk' = [disk EXCEPT ![p] = @ + 1]
  /\ UNCHANGED <<store, pc, locals, calls, history>>

-----------------------------------------------------------------------------

GetOrLoad(t) ==
  \/ \E p \in Paths : Hit(t, p) \/ Join(t, p) \/ BecomeLoader(t, p)
  \/ Parse(t) \/ Store(t) \/ SetValue(t) \/ Await(t)

Next ==
  \/ \E t \in Threads : GetOrLoad(t)
  \/ \E p \in Paths : Preload(p) \/ Drop(p) \/ EditFile(p)
  \/ Clear

Safety == Init /\ [][Next]_vars

\* A thread inside GetOrLoad is scheduled, and a parse ends.
Fairness ==
  \A t \in Threads : WF_vars(Parse(t) \/ Store(t) \/ SetValue(t) \/ Await(t))

Spec == Safety /\ Fairness

-----------------------------------------------------------------------------

Loading(t) == pc[t] \in {"parse", "store"}

\* A path is never parsed by two threads at once, and in_flight_ names exactly
\* the parses that are going on.
OneLoaderPerPath ==
  \A p \in Paths :
    IF inFlight[p] = 0
      THEN \A t \in Threads : Loading(t) => path[t] # p
      ELSE \E t \in Threads :
             /\ Loading(t) /\ path[t] = p /\ future[t] = inFlight[p]
             /\ \A u \in Threads \ {t} : Loading(u) => path[u] # p

\* "Parse-once": a path is parsed again only after its layer was dropped.
ParsedOncePerEviction == \A p \in Paths : parses[p] <= evicted[p] + 1

\* The emplace that ends a parse loses only to a Preload made meanwhile, so two
\* parsed objects of one path are never handed out as the cached one.
OnlyPreloadOvertakesParse ==
  \A p \in Paths : inFlight[p] # 0 /\ cache[p] # NoLayer => cache[p].id = 0

\* A layer dropped while nothing was parsing it does not come back: what is
\* parsed afterwards was read from the file no earlier than the drop.
FreshAfterDrop ==
  \A p \in Paths : cache[p].id > 0 => cache[p].version >= floor[p]

\* What the callers of each future get, from the moment its parse is stored.
Values == [f \in DOMAIN outcome |->
             IF \E t \in Threads : pc[t] = "set" /\ future[t] = f
               THEN layer[CHOOSE t \in Threads : pc[t] = "set" /\ future[t] = f]
               ELSE outcome[f]]
Answers == [t \in Threads |-> IF future[t] = 0 THEN Pending ELSE Values[future[t]]]

\* Between the lookup, the parse, the store and the value of the promise there
\* are other threads' steps, yet to its callers the registry loads each path in
\* one flight: all who wait when the layer is stored get that layer, also those
\* who see it only after a drop, a preload or the next parse.
Flight == INSTANCE SingleFlight WITH
            Layers <- Layer, Preloaded <- [id |-> 0, version |-> 0], Unanswered <- Pending,
            cached <- cache, asked <- path, answer <- Answers
ImplementsSingleFlight == Flight!Spec

\* Every GetOrLoad returns, also when the parse that it waits for fails.
CallsReturn == \A t \in Threads : pc[t] # "idle" ~> pc[t] = "idle"
=============================================================================
