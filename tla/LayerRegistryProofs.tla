------------------------ MODULE LayerRegistryProofs ------------------------
(***************************************************************************)
(* The safety properties of LayerRegistry for any number of threads and    *)
(* paths and for bounds of any size.                                       *)
(***************************************************************************)
EXTENDS LayerRegistry, SequenceTheorems, TLAPS

\* What a call knows at each of its steps: the path it resolved and the future
\* it made or waits on, and that a layer comes from a parse of its own.
CallsKnow ==
  \A t \in Threads :
    /\ pc[t] # "idle" => path[t] \in Paths /\ future[t] \in 1 .. Len(outcome)
    /\ layer[t] # NoLayer => pc[t] \in {"store", "set"} /\ layer[t].id = future[t]

\* The loaders and the entries of in_flight_ are one to one.
LoadersAreInFlight ==
  /\ \A t \in Threads : Loading(t) =>
        inFlight[path[t]] # 0 /\ future[t] = inFlight[path[t]]
  /\ \A t, u \in Threads : Loading(t) /\ Loading(u) /\ path[t] = path[u] => t = u
  /\ \A p \in Paths : inFlight[p] # 0 => \E t \in Threads : Loading(t) /\ path[t] = p

\* Each parse is paid for: by an eviction, or by the layer that is cached, which
\* while a parse is in flight can only be a preloaded one.
ParsesArePaid ==
  \A p \in Paths :
    parses[p] <= IF inFlight[p] = 0 /\ cache[p] # NoLayer
                   THEN evicted[p] + 1 ELSE evicted[p]

\* What a loader holds or the cache keeps is no older than the last drop.
NothingStale ==
  /\ \A p \in Paths : floor[p] <= disk[p]
  /\ FreshAfterDrop
  /\ \A t \in Threads : pc[t] = "store" /\ layer[t] # NoLayer =>
        layer[t].version >= floor[path[t]]

IInv == /\ TypeOK /\ CallsKnow /\ LoadersAreInFlight
        /\ OnlyPreloadOvertakesParse /\ ParsesArePaid /\ NothingStale

\* A layer is told from a failed parse, and its identity and version are
\* numbers.
LEMMA LayerIds == /\ \A l \in Layer : l # NoLayer /\ l.id \in Nat /\ l.version \in Nat
                  /\ NoLayer.id = -1
BY DEF Layer, NoLayer

\* At first nobody is in a call and nothing was parsed.
LEMMA InitInv == Init => IInv
<1> SUFFICES ASSUME Init PROVE IInv
  OBVIOUS
<1> USE PathsAssumption DEF Init
<1>1. TypeOK
  <2>1. << >> \in Seq(Layer \cup {NoLayer, Pending}) /\ Len(<< >>) = 0
    OBVIOUS
  <2> QED BY <2>1 DEF TypeOK
<1>2. CallsKnow /\ LoadersAreInFlight
  BY DEF CallsKnow, LoadersAreInFlight, Loading
<1>3. OnlyPreloadOvertakesParse /\ ParsesArePaid
  BY DEF OnlyPreloadOvertakesParse, ParsesArePaid
<1>4. NothingStale
  BY LayerIds DEF NothingStale, FreshAfterDrop
<1> QED BY <1>1, <1>2, <1>3, <1>4 DEF IInv

\* A call that returns at once changes nothing that the invariant is about.
LEMMA HitInv ==
  ASSUME IInv, NEW t \in Threads, NEW p \in Paths, Hit(t, p)
  PROVE  IInv'
<1> USE DEF Hit, CallOn, store, locals, history
<1>1. TypeOK'
  BY BoundsAssumption DEF IInv, TypeOK
<1>2. CallsKnow' /\ LoadersAreInFlight'
  BY DEF IInv, CallsKnow, LoadersAreInFlight, Loading
<1>3. OnlyPreloadOvertakesParse' /\ ParsesArePaid' /\ NothingStale'
  BY DEF IInv, OnlyPreloadOvertakesParse, ParsesArePaid, NothingStale, FreshAfterDrop
<1> QED BY <1>1, <1>2, <1>3 DEF IInv

\* A caller that finds a future for its path waits for it.
LEMMA JoinInv ==
  ASSUME IInv, NEW t \in Threads, NEW p \in Paths, Join(t, p)
  PROVE  IInv'
<1> USE DEF Join, CallOn, Goto, store, history
<1>1. TypeOK'
  <2>1. inFlight[p] \in 0 .. Len(outcome)
    BY DEF IInv, TypeOK
  <2>2. future' \in [Threads -> 0 .. Len(outcome')]
    BY <2>1 DEF IInv, TypeOK
  <2>3. pc' \in [Threads -> {"idle", "parse", "store", "set", "await"}]
    BY DEF IInv, TypeOK
  <2>4. path' \in [Threads -> Paths \cup {NoPath}] /\ calls' \in Nat
    BY DEF IInv, TypeOK
  <2> QED BY <2>2, <2>3, <2>4 DEF IInv, TypeOK
<1>2. CallsKnow'
  BY DEF IInv, TypeOK, CallsKnow
<1>3. LoadersAreInFlight'
  BY DEF IInv, TypeOK, LoadersAreInFlight, Loading
<1>4. OnlyPreloadOvertakesParse' /\ ParsesArePaid'
  BY DEF IInv, OnlyPreloadOvertakesParse, ParsesArePaid
<1>5. NothingStale'
  BY DEF IInv, TypeOK, NothingStale, FreshAfterDrop
<1> QED BY <1>1, <1>2, <1>3, <1>4, <1>5 DEF IInv

\* A caller that finds neither layer nor future makes the path its own.
LEMMA BecomeLoaderInv ==
  ASSUME IInv, NEW t \in Threads, NEW p \in Paths, BecomeLoader(t, p)
  PROVE  IInv'
<1> USE DEF BecomeLoader, CallOn, Goto, history
<1>1. /\ Len(outcome') = Len(outcome) + 1 /\ Len(outcome) \in Nat
      /\ outcome' \in Seq(Layer \cup {NoLayer, Pending})
  <2>1. outcome \in Seq(Layer \cup {NoLayer, Pending})
        /\ Pending \in Layer \cup {NoLayer, Pending}
    BY DEF IInv, TypeOK
  <2> QED BY <2>1, AppendProperties, LenProperties
<1>2. TypeOK'
  BY <1>1 DEF IInv, TypeOK
<1>3. CallsKnow'
  <2>1. layer[t] = NoLayer
    BY DEF IInv, CallsKnow, TypeOK
  <2> QED BY <1>1, <2>1 DEF IInv, TypeOK, CallsKnow
<1>4. LoadersAreInFlight'
  <2>1. /\ Loading(t)' /\ path'[t] = p /\ inFlight'[p] = Len(outcome') /\ inFlight'[p] # 0
        /\ future'[t] = inFlight'[p]
    BY <1>1 DEF IInv, TypeOK, Loading
  <2>2. \A u \in Threads \ {t} :
           /\ Loading(u)' <=> Loading(u)
           /\ path'[u] = path[u] /\ future'[u] = future[u]
           /\ Loading(u) => path[u] \in Paths /\ path[u] # p
    BY DEF IInv, TypeOK, Loading, LoadersAreInFlight, CallsKnow
  <2>3. \A q \in Paths \ {p} : inFlight'[q] = inFlight[q]
    BY DEF IInv, TypeOK
  <2> QED BY <2>1, <2>2, <2>3 DEF IInv, LoadersAreInFlight, Loading
<1>5. OnlyPreloadOvertakesParse'
  BY DEF IInv, TypeOK, OnlyPreloadOvertakesParse
<1>6. ParsesArePaid'
  BY <1>1 DEF IInv, TypeOK, ParsesArePaid
<1>7. NothingStale'
  BY DEF IInv, TypeOK, NothingStale, FreshAfterDrop
<1> QED BY <1>2, <1>3, <1>4, <1>5, <1>6, <1>7 DEF IInv

\* The parse reads the version that is on disk at that moment, or fails.
LEMMA ParseInv ==
  ASSUME IInv, NEW t \in Threads, Parse(t)
  PROVE  IInv'
<1> USE DEF Parse, Goto, store, history
<1>1. /\ path[t] \in Paths /\ future[t] \in 1 .. Len(outcome) /\ Len(outcome) \in Nat
      /\ inFlight[path[t]] # 0
  BY LenProperties DEF IInv, TypeOK, CallsKnow, LoadersAreInFlight, Loading
<1>2. PICK loaded \in Loaded(path[t], future[t]) : layer' = [layer EXCEPT ![t] = loaded]
  BY DEF Parse
<1>3. \/ loaded = NoLayer
      \/ loaded \in Layer /\ loaded.id = future[t] /\ loaded.version = disk[path[t]]
  BY <1>1 DEF Loaded, Layer, IInv, TypeOK
<1>4. TypeOK'
  BY <1>2, <1>3 DEF IInv, TypeOK
<1>5. CallsKnow'
  BY <1>2, <1>3 DEF IInv, TypeOK, CallsKnow
<1>6. LoadersAreInFlight'
  BY DEF IInv, TypeOK, LoadersAreInFlight, Loading
<1>7. OnlyPreloadOvertakesParse' /\ ParsesArePaid'
  BY DEF IInv, OnlyPreloadOvertakesParse, ParsesArePaid
<1>8. NothingStale'
  <2>1. \A q \in Paths : floor'[q] <= disk'[q]
    BY DEF IInv, NothingStale
  <2>2. FreshAfterDrop'
    BY DEF IInv, NothingStale, FreshAfterDrop
  <2>3. ASSUME NEW u \in Threads, pc'[u] = "store", layer'[u] # NoLayer
        PROVE  layer'[u].version >= floor'[path'[u]]
    <3>1. CASE u = t
      <4>1. layer'[t] = loaded
        BY <1>2 DEF IInv, TypeOK
      <4>2. disk[path[t]] \in Nat /\ floor[path[t]] \in Nat /\ floor[path[t]] <= disk[path[t]]
        BY <1>1 DEF IInv, TypeOK, NothingStale
      <4> QED BY <1>3, <2>3, <3>1, <4>1, <4>2
    <3>2. CASE u # t
      BY <1>2, <2>3, <3>2 DEF IInv, TypeOK, NothingStale
    <3> QED BY <3>1, <3>2
  <2> QED BY <2>1, <2>2, <2>3 DEF NothingStale
<1> QED BY <1>4, <1>5, <1>6, <1>7, <1>8 DEF IInv

\* emplace keeps the layer that is there already, and the path leaves
\* in_flight_.
LEMMA StoreInv ==
  ASSUME IInv, NEW t \in Threads, Store(t)
  PROVE  IInv'
<1> DEFINE p == path[t]
<1>1. /\ pc[t] = "store" /\ Loading(t) /\ p \in Paths /\ inFlight[p] # 0
      /\ \A u \in Threads \ {t} : Loading(u) => path[u] # p
  BY DEF Store, IInv, CallsKnow, LoadersAreInFlight, Loading
<1>2. /\ inFlight' = [inFlight EXCEPT ![p] = 0] /\ pc' = [pc EXCEPT ![t] = "set"]
      /\ UNCHANGED <<outcome, disk, locals, calls, edits, evicted, floor>>
  BY DEF Store, Goto
<1>3. \/ /\ layer[t] # NoLayer
         /\ parseCount' = parseCount + 1 /\ parses' = [parses EXCEPT ![p] = @ + 1]
         /\ cache' = [cache EXCEPT ![p] = IF @ = NoLayer THEN layer[t] ELSE @]
      \/ layer[t] = NoLayer /\ UNCHANGED <<parseCount, cache, parses>>
  BY DEF Store
<1>4. TypeOK'
  <2>1. inFlight' \in [Paths -> 0 .. Len(outcome')] /\ pc' \in [Threads -> {"idle", "parse", "store", "set", "await"}]
    BY <1>1, <1>2, LenProperties DEF IInv, TypeOK
  <2>2. cache \in [Paths -> Layer \cup {NoLayer}] /\ layer[t] \in Layer \cup {NoLayer}
    BY DEF IInv, TypeOK
  <2>3. cache' \in [Paths -> Layer \cup {NoLayer}]
    <3> HIDE DEF p
    <3>1. CASE layer[t] = NoLayer
      BY <1>3, <2>2, <3>1
    <3>2. CASE layer[t] # NoLayer
      BY <1>1, <1>3, <2>2, <3>2
    <3> QED BY <3>1, <3>2
  <2>4. parses' \in [Paths -> Nat] /\ parseCount' \in Nat
    <3>1. parses \in [Paths -> Nat] /\ parseCount \in Nat
      BY DEF IInv, TypeOK
    <3> HIDE DEF p
    <3> QED BY <1>1, <1>3, <3>1
  <2> QED BY <1>2, <2>1, <2>3, <2>4 DEF IInv, TypeOK, locals
<1>5. CallsKnow'
  BY <1>2, <1>1 DEF IInv, TypeOK, CallsKnow, locals
<1>6. LoadersAreInFlight'
  <2>1. ~Loading(t)' /\ \A u \in Threads \ {t} : Loading(u)' <=> Loading(u)
    BY <1>2 DEF IInv, TypeOK, Loading
  <2>2. path' = path /\ future' = future /\ \A q \in Paths \ {p} : inFlight'[q] = inFlight[q]
    BY <1>2 DEF IInv, TypeOK, locals
  <2>3. inFlight'[p] = 0 /\ \A u \in Threads : Loading(u) => path[u] \in Paths
    BY <1>1, <1>2 DEF IInv, TypeOK, CallsKnow, Loading
  <2> QED BY <1>1, <2>1, <2>2, <2>3 DEF IInv, LoadersAreInFlight
<1>7. OnlyPreloadOvertakesParse'
  BY <1>1, <1>2, <1>3 DEF IInv, TypeOK, OnlyPreloadOvertakesParse
<1>8. ParsesArePaid'
  <2>1. \A q \in Paths \ {p} : /\ parses'[q] = parses[q] /\ cache'[q] = cache[q]
                                /\ inFlight'[q] = inFlight[q] /\ evicted'[q] = evicted[q]
    BY <1>2, <1>3 DEF IInv, TypeOK
  <2>2. parses[p] <= evicted[p] /\ parses[p] \in Nat /\ evicted'[p] = evicted[p] /\ evicted[p] \in Nat
        /\ inFlight'[p] = 0
    BY <1>1, <1>2 DEF IInv, TypeOK, ParsesArePaid
  <2>3. parses'[p] <= IF inFlight'[p] = 0 /\ cache'[p] # NoLayer THEN evicted'[p] + 1 ELSE evicted'[p]
    BY <1>1, <1>3, <2>2 DEF IInv, TypeOK
  <2> QED BY <2>1, <2>3 DEF IInv, ParsesArePaid
<1>9. NothingStale'
  <2>1. \/ cache'[p] = cache[p]
        \/ cache'[p] = layer[t] /\ layer[t] # NoLayer
    <3>1. cache \in [Paths -> Layer \cup {NoLayer}]
      BY DEF IInv, TypeOK
    <3> HIDE DEF p
    <3>2. CASE layer[t] = NoLayer
      BY <1>3, <3>2
    <3>3. CASE layer[t] # NoLayer
      BY <1>1, <1>3, <3>1, <3>3
    <3> QED BY <3>2, <3>3
  <2>2. \A q \in Paths \ {p} : cache'[q] = cache[q]
    BY <1>3 DEF IInv, TypeOK
  <2>3. FreshAfterDrop'
    BY <1>1, <1>2, <2>1, <2>2 DEF IInv, NothingStale, FreshAfterDrop
  <2> QED BY <1>2, <2>3 DEF IInv, TypeOK, NothingStale, locals
<1> QED BY <1>4, <1>5, <1>6, <1>7, <1>8, <1>9 DEF IInv

\* The value is set for those who wait; a caller takes what its future holds.
LEMMA ReturnInv ==
  ASSUME IInv, NEW t \in Threads, SetValue(t) \/ Await(t)
  PROVE  IInv'
<1>1. /\ pc[t] \in {"set", "await"} /\ pc' = [pc EXCEPT ![t] = "idle"]
      /\ path' = [path EXCEPT ![t] = NoPath] /\ future' = [future EXCEPT ![t] = 0]
      /\ UNCHANGED <<cache, inFlight, parseCount, disk, calls, edits, history>>
      /\ \/ outcome' = [outcome EXCEPT ![future[t]] = layer[t]]
            /\ layer' = [layer EXCEPT ![t] = NoLayer]
         \/ pc[t] = "await" /\ UNCHANGED <<outcome, layer>>
  BY DEF SetValue, Await, Goto, store
<1>2. /\ future[t] \in 1 .. Len(outcome) /\ layer[t] \in Layer \cup {NoLayer, Pending}
      /\ outcome \in Seq(Layer \cup {NoLayer, Pending})
  BY <1>1 DEF IInv, TypeOK, CallsKnow
<1>3. outcome' \in Seq(Layer \cup {NoLayer, Pending}) /\ Len(outcome') = Len(outcome) /\ Len(outcome) \in Nat
  BY <1>1, <1>2, ExceptSeq, LenProperties
<1>4. TypeOK'
  <2>1. inFlight' \in [Paths -> 0 .. Len(outcome')] /\ future' \in [Threads -> 0 .. Len(outcome')]
    BY <1>1, <1>3 DEF IInv, TypeOK
  <2>2. layer' \in [Threads -> Layer \cup {NoLayer}] /\ path' \in [Threads -> Paths \cup {NoPath}]
        /\ pc' \in [Threads -> {"idle", "parse", "store", "set", "await"}]
    BY <1>1 DEF IInv, TypeOK
  <2> QED BY <1>1, <1>3, <2>1, <2>2 DEF IInv, TypeOK, history
<1>5. CallsKnow'
  BY <1>1, <1>3 DEF IInv, TypeOK, CallsKnow
<1>6. LoadersAreInFlight'
  <2>1. ~Loading(t) /\ \A u \in Threads : Loading(u)' <=> Loading(u)
    BY <1>1 DEF IInv, TypeOK, Loading
  <2>2. \A u \in Threads \ {t} : path'[u] = path[u] /\ future'[u] = future[u]
    BY <1>1 DEF IInv, TypeOK
  <2> QED BY <1>1, <2>1, <2>2 DEF IInv, LoadersAreInFlight
<1>7. OnlyPreloadOvertakesParse' /\ ParsesArePaid'
  BY <1>1 DEF IInv, OnlyPreloadOvertakesParse, ParsesArePaid, history
<1>8. NothingStale'
  BY <1>1 DEF IInv, TypeOK, NothingStale, FreshAfterDrop, history
<1> QED BY <1>4, <1>5, <1>6, <1>7, <1>8 DEF IInv

\* A preload stores its layer, over one that is there.
LEMMA PreloadInv ==
  ASSUME IInv, NEW p \in Paths, Preload(p)
  PROVE  IInv'
<1> DEFINE made == [id |-> 0, version |-> 0]
<1>1. cache' = [cache EXCEPT ![p] = made] /\ made \in Layer /\ made.id = 0
  BY DEF Preload, Layer
<1>2. edits' \in Nat /\ UNCHANGED <<inFlight, outcome, parseCount, disk, pc, locals, calls, history>>
  BY DEF Preload, Edit, IInv, TypeOK
<1>3. TypeOK'
  <2> HIDE DEF made
  <2>1. cache' \in [Paths -> Layer \cup {NoLayer}]
    BY <1>1 DEF IInv, TypeOK
  <2> QED BY <1>2, <2>1 DEF IInv, TypeOK, locals, history
<1>4. CallsKnow' /\ LoadersAreInFlight'
  BY <1>2 DEF IInv, CallsKnow, LoadersAreInFlight, Loading, locals
<1>5. cache'[p] = made /\ \A q \in Paths \ {p} : cache'[q] = cache[q]
  BY <1>1 DEF IInv, TypeOK
<1>6. OnlyPreloadOvertakesParse'
  BY <1>1, <1>2, <1>5 DEF IInv, OnlyPreloadOvertakesParse
<1>7. ParsesArePaid'
  <2>1. \A q \in Paths : parses[q] \in Nat /\ evicted[q] \in Nat
                         /\ parses'[q] = parses[q] /\ evicted'[q] = evicted[q] /\ inFlight'[q] = inFlight[q]
    BY <1>2 DEF IInv, TypeOK, history
  <2>2. made # NoLayer
    BY <1>1, LayerIds
  <2> HIDE DEF made
  <2> QED BY <1>5, <2>1, <2>2 DEF IInv, ParsesArePaid
<1>8. NothingStale'
  BY <1>1, <1>2, <1>5 DEF IInv, NothingStale, FreshAfterDrop, locals, history
<1> QED BY <1>3, <1>4, <1>6, <1>7, <1>8 DEF IInv

\* Drop and Clear erase layers and leave parses in flight alone.
LEMMA EraseInv ==
  ASSUME IInv, NEW P \in SUBSET Paths, Edit, Erase(P)
  PROVE  IInv'
<1>1. edits' \in Nat /\ UNCHANGED <<inFlight, outcome, parseCount, disk, pc, locals, calls, parses>>
  BY DEF Erase, Edit, IInv, TypeOK
<1>2. /\ \A q \in P : /\ cache'[q] = NoLayer
                      /\ evicted'[q] = IF cache[q] # NoLayer THEN evicted[q] + 1 ELSE evicted[q]
                      /\ floor'[q] = IF inFlight[q] = 0 THEN disk[q] ELSE floor[q]
      /\ \A q \in Paths \ P : /\ cache'[q] = cache[q] /\ evicted'[q] = evicted[q]
                              /\ floor'[q] = floor[q]
  BY DEF Erase
<1>3. TypeOK'
  <2>1. cache' \in [Paths -> Layer \cup {NoLayer}] /\ evicted' \in [Paths -> Nat] /\ floor' \in [Paths -> Nat]
    BY DEF Erase, IInv, TypeOK
  <2> QED BY <1>1, <2>1 DEF IInv, TypeOK, locals
<1>4. CallsKnow' /\ LoadersAreInFlight'
  BY <1>1 DEF IInv, CallsKnow, LoadersAreInFlight, Loading, locals
<1>5. OnlyPreloadOvertakesParse'
  BY <1>1, <1>2 DEF IInv, OnlyPreloadOvertakesParse
<1>6. ParsesArePaid'
  BY <1>1, <1>2 DEF IInv, TypeOK, ParsesArePaid
<1>7. NothingStale'
  <2>1. \A q \in Paths : floor'[q] <= disk'[q]
    <3>1. disk' = disk /\ \A q \in Paths : disk[q] \in Nat /\ floor[q] \in Nat /\ floor[q] <= disk[q]
      BY <1>1 DEF IInv, TypeOK, NothingStale
    <3>2. \A q \in Paths : floor'[q] = floor[q] \/ floor'[q] = disk[q]
      BY <1>2
    <3> QED BY <3>1, <3>2
  <2>2. FreshAfterDrop'
    <3>1. ASSUME NEW q \in Paths, cache'[q].id > 0 PROVE q \notin P
      BY <1>2, <3>1, LayerIds
    <3> QED BY <1>2, <3>1 DEF IInv, NothingStale, FreshAfterDrop
  <2>3. ASSUME NEW t \in Threads, pc'[t] = "store", layer'[t] # NoLayer
        PROVE  layer'[t].version >= floor'[path'[t]]
    <3>1. path[t] \in Paths /\ inFlight[path[t]] # 0
      BY <1>1, <2>3 DEF IInv, CallsKnow, LoadersAreInFlight, Loading
    <3>2. floor'[path[t]] = floor[path[t]]
      BY <1>2, <3>1
    <3> QED BY <1>1, <2>3, <3>2 DEF IInv, NothingStale, locals
  <2> QED BY <2>1, <2>2, <2>3 DEF NothingStale
<1> QED BY <1>3, <1>4, <1>5, <1>6, <1>7 DEF IInv

\* A file changes on disk.
LEMMA EditFileInv ==
  ASSUME IInv, NEW p \in Paths, EditFile(p)
  PROVE  IInv'
<1>1. /\ edits' \in Nat /\ disk' = [disk EXCEPT ![p] = @ + 1]
      /\ UNCHANGED <<store, pc, locals, calls, history>>
  BY DEF EditFile, Edit, IInv, TypeOK
<1>2. TypeOK'
  BY <1>1 DEF IInv, TypeOK, store, locals, history
<1>3. CallsKnow' /\ LoadersAreInFlight'
  BY <1>1 DEF IInv, CallsKnow, LoadersAreInFlight, Loading, store, locals
<1>4. OnlyPreloadOvertakesParse' /\ ParsesArePaid'
  BY <1>1 DEF IInv, OnlyPreloadOvertakesParse, ParsesArePaid, store, history
<1>5. NothingStale'
  <2>1. \A q \in Paths : disk[q] <= disk'[q] /\ disk[q] \in Nat /\ disk'[q] \in Nat /\ floor[q] \in Nat
    BY <1>1 DEF IInv, TypeOK
  <2> QED BY <1>1, <2>1 DEF IInv, NothingStale, FreshAfterDrop, store, locals, history
<1> QED BY <1>2, <1>3, <1>4, <1>5 DEF IInv

\* A step that changes nothing.
LEMMA StutterInv == IInv /\ UNCHANGED vars => IInv'
BY DEF IInv, TypeOK, CallsKnow, LoadersAreInFlight, Loading, OnlyPreloadOvertakesParse,
       ParsesArePaid, NothingStale, FreshAfterDrop, vars, store, locals, history

\* The invariant of the registry: loaders and in_flight_ agree, every parse is
\* paid for by an eviction, and nothing kept is older than the last drop.
THEOREM InductiveInvariant == Safety => []IInv
<1>1. IInv /\ [Next]_vars => IInv'
  <2> SUFFICES ASSUME IInv, Next PROVE IInv'
    BY StutterInv
  <2>1. CASE \E t \in Threads : GetOrLoad(t)
    BY <2>1, HitInv, JoinInv, BecomeLoaderInv, ParseInv, StoreInv, ReturnInv DEF GetOrLoad
  <2>2. CASE \E p \in Paths : Preload(p) \/ Drop(p) \/ EditFile(p)
    BY <2>2, PreloadInv, EraseInv, EditFileInv DEF Drop
  <2>3. CASE Clear
    BY <2>3, EraseInv DEF Clear
  <2> QED BY <2>1, <2>2, <2>3 DEF Next
<1> QED BY <1>1, InitInv, PTL DEF Safety

\* Every map, future and local of GetOrLoad keeps its type.
THEOREM TypeCorrect == Spec => []TypeOK
<1>1. IInv => TypeOK
  BY DEF IInv
<1> QED BY <1>1, InductiveInvariant, PTL DEF Spec

\* Never two parses of one path at once, and in_flight_ names exactly the
\* parses that are going on.
THEOREM LoaderIsUnique == Spec => []OneLoaderPerPath
<1>1. IInv => OneLoaderPerPath
  BY DEF IInv, LoadersAreInFlight, OneLoaderPerPath
<1> QED BY <1>1, InductiveInvariant, PTL DEF Spec

\* A path is parsed once, and once more for each eviction of its layer.
THEOREM ParsesAreFew == Spec => []ParsedOncePerEviction
<1>1. IInv => ParsedOncePerEviction
  BY DEF IInv, TypeOK, ParsesArePaid, ParsedOncePerEviction
<1> QED BY <1>1, InductiveInvariant, PTL DEF Spec

\* The emplace at the end of a parse finds no layer there but a preloaded one.
THEOREM ParseLosesToPreloadOnly == Spec => []OnlyPreloadOvertakesParse
<1>1. IInv => OnlyPreloadOvertakesParse
  BY DEF IInv
<1> QED BY <1>1, InductiveInvariant, PTL DEF Spec

\* A dropped layer does not come back from a parse that began after the drop.
THEOREM DropsTakeEffect == Spec => []FreshAfterDrop
<1>1. IInv => FreshAfterDrop
  BY DEF IInv, NothingStale
<1> QED BY <1>1, InductiveInvariant, PTL DEF Spec

-----------------------------------------------------------------------------
(* What CallsReturn rests on: nobody waits for a result that nobody makes.   *)

\* A thread that is to set the value of a future.
Owes(t, f) == pc[t] \in {"parse", "store", "set"} /\ future[t] = f

\* Every promise without a value has a thread on its way to setting it, and a
\* value that was set is a failure or what the parse of that very future read.
PromisesKept ==
  \A f \in 1 .. Len(outcome) :
    IF outcome[f] = Pending THEN \E t \in Threads : Owes(t, f)
                            ELSE outcome[f] # NoLayer => outcome[f].id = f

\* A joiner whose future is not ready waits for a thread that needs no other to
\* go on, and one whose future is ready gets what that parse made, or its failure.
NobodyWaitsInVain ==
  \A t \in Threads : pc[t] = "await" =>
    \/ outcome[future[t]] = Pending /\ \E u \in Threads : Owes(u, future[t])
    \/ outcome[future[t]] = NoLayer
    \/ outcome[future[t]] \in Layer /\ outcome[future[t]].id = future[t]

\* A step that sets no value and leaves those who owe one where they are.
LEMMA PromisesKeptQuietly ==
  ASSUME PromisesKept, UNCHANGED outcome,
         \A t \in Threads : pc[t] \in {"parse", "store", "set"} =>
            pc'[t] \in {"parse", "store", "set"} /\ future'[t] = future[t]
  PROVE  PromisesKept'
BY DEF PromisesKept, Owes

\* Every step of the registry keeps the promises.
LEMMA StepKeepsPromises == ASSUME IInv, PromisesKept, [Next]_vars PROVE PromisesKept'
<1>0. TypeOK /\ Len(outcome) \in Nat
  BY LenProperties DEF IInv, TypeOK
<1>1. ASSUME NEW t \in Threads, NEW p \in Paths, Hit(t, p) \/ Join(t, p) PROVE PromisesKept'
  <2>1. /\ UNCHANGED outcome /\ pc[t] = "idle"
        /\ \A u \in Threads \ {t} : pc'[u] = pc[u] /\ future'[u] = future[u]
    BY <1>0, <1>1 DEF TypeOK, Hit, Join, CallOn, Goto, store, locals
  <2> QED BY <2>1, PromisesKeptQuietly
<1>2. ASSUME NEW t \in Threads, NEW p \in Paths, BecomeLoader(t, p) PROVE PromisesKept'
  <2>1. /\ pc[t] = "idle" /\ outcome' = Append(outcome, Pending)
        /\ \A u \in Threads \ {t} : pc'[u] = pc[u] /\ future'[u] = future[u]
        /\ pc'[t] = "parse" /\ future'[t] = Len(outcome')
    BY <1>0, <1>2 DEF TypeOK, BecomeLoader, CallOn, Goto
  <2>2. /\ Len(outcome') = Len(outcome) + 1 /\ outcome'[Len(outcome')] = Pending
        /\ \A f \in 1 .. Len(outcome) : outcome'[f] = outcome[f]
    BY <1>0, <2>1 DEF TypeOK
  <2>3. ASSUME NEW f \in 1 .. Len(outcome')
        PROVE  IF outcome'[f] = Pending THEN \E u \in Threads : Owes(u, f)'
                                        ELSE outcome'[f] # NoLayer => outcome'[f].id = f
    <3>1. CASE f = Len(outcome')
      BY <2>1, <2>2, <3>1 DEF Owes
    <3>2. CASE f # Len(outcome')
      <4>1. f \in 1 .. Len(outcome) /\ outcome'[f] = outcome[f]
        BY <1>0, <2>2, <3>2
      <4>2. \A u \in Threads : Owes(u, f) => Owes(u, f)'
        BY <2>1 DEF Owes
      <4> QED BY <4>1, <4>2 DEF PromisesKept
    <3> QED BY <3>1, <3>2
  <2> QED BY <2>3 DEF PromisesKept
<1>3. ASSUME NEW t \in Threads, Parse(t) \/ Store(t) PROVE PromisesKept'
  <2>1. /\ UNCHANGED <<outcome, future>> /\ pc'[t] \in {"store", "set"}
        /\ \A u \in Threads \ {t} : pc'[u] = pc[u]
    BY <1>0, <1>3 DEF TypeOK, Parse, Store, Goto, store, locals
  <2> QED BY <2>1, PromisesKeptQuietly
<1>4. ASSUME NEW t \in Threads, SetValue(t) PROVE PromisesKept'
  <2> DEFINE g == future[t]
  <2>1. /\ pc[t] = "set" /\ outcome' = [outcome EXCEPT ![g] = layer[t]] /\ g \in 1 .. Len(outcome)
        /\ \A u \in Threads \ {t} : pc'[u] = pc[u] /\ future'[u] = future[u]
        /\ layer[t] \in Layer \cup {NoLayer} /\ (layer[t] # NoLayer => layer[t].id = g)
    BY <1>0, <1>4 DEF TypeOK, SetValue, Goto, IInv, CallsKnow
  <2>2. layer[t] # Pending
    BY <2>1, LayerIds DEF Pending, NoLayer, Layer
  <2>3. /\ Len(outcome') = Len(outcome) /\ outcome'[g] = layer[t]
        /\ \A f \in 1 .. Len(outcome) \ {g} : outcome'[f] = outcome[f]
    BY <1>0, <2>1 DEF TypeOK
  <2>4. \A u \in Threads, f \in 1 .. Len(outcome) \ {g} : Owes(u, f) => Owes(u, f)'
    BY <2>1 DEF Owes
  <2> HIDE DEF g
  <2> QED BY <2>1, <2>2, <2>3, <2>4 DEF PromisesKept
<1>5. ASSUME NEW t \in Threads, Await(t) PROVE PromisesKept'
  <2>1. /\ UNCHANGED outcome /\ pc[t] = "await"
        /\ \A u \in Threads \ {t} : pc'[u] = pc[u] /\ future'[u] = future[u]
    BY <1>0, <1>5 DEF TypeOK, Await, Goto, store
  <2> QED BY <2>1, PromisesKeptQuietly
<1>6. CASE (\E p \in Paths : Preload(p) \/ Drop(p) \/ EditFile(p)) \/ Clear \/ UNCHANGED vars
  <2>1. UNCHANGED <<outcome, pc, future>>
    BY <1>6 DEF Preload, Drop, Clear, Erase, EditFile, vars, store, locals
  <2> QED BY <2>1, PromisesKeptQuietly
<1> QED BY <1>1, <1>2, <1>3, <1>4, <1>5, <1>6 DEF Next, GetOrLoad

\* A thread that waits in GetOrLoad waits for a parse that is going on, and gets
\* the layer of that parse or its failure: none is left with a promise that
\* everybody forgot, whatever is dropped, preloaded or edited meanwhile.
THEOREM WaitersHaveALoader == Spec => []NobodyWaitsInVain
<1>1. Init => PromisesKept
  BY DEF Init, PromisesKept
<1>2. IInv /\ PromisesKept /\ [Next]_vars => PromisesKept'
  BY StepKeepsPromises
<1>3. IInv /\ PromisesKept => NobodyWaitsInVain
  <2> SUFFICES ASSUME IInv, PromisesKept, NEW t \in Threads, pc[t] = "await"
               PROVE  \/ outcome[future[t]] = Pending /\ \E u \in Threads : Owes(u, future[t])
                      \/ outcome[future[t]] = NoLayer
                      \/ outcome[future[t]] \in Layer /\ outcome[future[t]].id = future[t]
    BY DEF NobodyWaitsInVain
  <2>1. future[t] \in 1 .. Len(outcome)
    BY DEF IInv, CallsKnow
  <2>2. outcome[future[t]] \in Layer \cup {NoLayer, Pending}
    BY <2>1, ElementOfSeq DEF IInv, TypeOK
  <2> QED BY <2>1, <2>2 DEF PromisesKept
<1> QED BY <1>1, <1>2, <1>3, InductiveInvariant, PTL DEF Spec, Safety

-----------------------------------------------------------------------------
(* The registry as its callers see it: SingleFlight.                         *)

\* A future belongs to one path, and to one thread that is to set it.
FuturesBelong ==
  /\ \A t \in Threads : pc[t] = "idle" => path[t] = NoPath /\ future[t] = 0
  /\ \A t, u \in Threads : future[t] = future[u] /\ future[t] # 0 => path[t] = path[u]
  /\ \A t, u \in Threads : Owes(t, future[t]) /\ Owes(u, future[t]) => t = u

\* What is awaited has no value until its thread sets it, and is in in_flight_
\* until its layer is stored.
FuturesUnset ==
  /\ \A t \in Threads : Owes(t, future[t]) => outcome[future[t]] = Pending
  /\ \A t \in Threads : pc[t] = "await" /\ outcome[future[t]] = Pending =>
        \/ inFlight[path[t]] = future[t]
        \/ \E u \in Threads : pc[u] = "set" /\ future[u] = future[t]

\* A layer that no parse made is the one of a preload.
UnparsedIsPreloaded == \A p \in Paths : cache[p].id = 0 => cache[p] = [id |-> 0, version |-> 0]

FlightInv == IInv /\ FuturesBelong /\ FuturesUnset /\ UnparsedIsPreloaded

\* A promise without a value is told from a layer and from a failure.
LEMMA PendingIsNoLayer == Pending \notin Layer /\ Pending # NoLayer
BY DEF Pending, Layer, NoLayer

\* A call that starts: it joins a flight or begins one.
LEMMA AskFlightInv ==
  ASSUME FlightInv, IInv', NEW t \in Threads, NEW p \in Paths, Join(t, p) \/ BecomeLoader(t, p)
  PROVE  FlightInv'
<1>0. TypeOK /\ CallsKnow /\ LoadersAreInFlight /\ Len(outcome) \in Nat
  BY LenProperties DEF FlightInv, IInv, TypeOK
<1>1. /\ pc[t] = "idle" /\ pc'[t] \in {"await", "parse"} /\ path'[t] = p
      /\ \A u \in Threads \ {t} : pc'[u] = pc[u] /\ path'[u] = path[u] /\ future'[u] = future[u]
      /\ cache' = cache
  BY <1>0 DEF Join, BecomeLoader, CallOn, Goto, store, TypeOK
<1>2. CASE Join(t, p)
  <2>1. /\ pc'[t] = "await" /\ inFlight[p] # 0 /\ future'[t] = inFlight[p]
        /\ UNCHANGED <<outcome, inFlight>>
    BY <1>0, <1>2 DEF Join, CallOn, Goto, store, TypeOK
  <2>2. PICK v \in Threads : Loading(v) /\ path[v] = p /\ future[v] = inFlight[p] /\ v # t
    BY <1>0, <1>1, <2>1 DEF LoadersAreInFlight, Loading
  <2>3. FuturesBelong'
    BY <1>1, <2>1, <2>2 DEF FlightInv, FuturesBelong, Owes
  <2>4. FuturesUnset'
    BY <1>1, <2>1 DEF FlightInv, FuturesUnset, Owes
  <2> QED BY <1>1, <2>3, <2>4 DEF FlightInv, UnparsedIsPreloaded
<1>3. CASE BecomeLoader(t, p)
  <2>1. /\ pc'[t] = "parse" /\ inFlight[p] = 0 /\ future'[t] = Len(outcome) + 1
        /\ \A q \in Paths \ {p} : inFlight'[q] = inFlight[q]
        /\ \A f \in 1 .. Len(outcome) : outcome'[f] = outcome[f]
        /\ outcome'[Len(outcome) + 1] = Pending
    BY <1>0, <1>3 DEF BecomeLoader, CallOn, Goto, TypeOK
  <2>2. \A u \in Threads \ {t} : /\ future'[u] # future'[t]
                                 /\ pc[u] # "idle" => path[u] \in Paths /\ future[u] \in 1 .. Len(outcome)
    BY <1>0, <1>1, <2>1 DEF TypeOK, CallsKnow
  <2>3. FuturesBelong'
    BY <1>1, <2>1, <2>2 DEF FlightInv, FuturesBelong, Owes
  <2>4. FuturesUnset'
    <3>1. ASSUME NEW u \in Threads, Owes(u, future[u])' PROVE outcome'[future'[u]] = Pending
      BY <1>1, <2>1, <2>2, <3>1 DEF FlightInv, FuturesUnset, Owes
    <3>2. ASSUME NEW u \in Threads, pc'[u] = "await", outcome'[future'[u]] = Pending
          PROVE  \/ inFlight'[path'[u]] = future'[u]
                 \/ \E v \in Threads : pc'[v] = "set" /\ future'[v] = future'[u]
      <4>1. u # t /\ pc[u] = "await" /\ outcome[future[u]] = Pending /\ future[u] \in 1 .. Len(outcome)
        BY <1>1, <2>1, <2>2, <3>2
      <4>2. CASE inFlight[path[u]] = future[u]
        BY <1>1, <2>1, <2>2, <4>1, <4>2
      <4>3. CASE \E v \in Threads : pc[v] = "set" /\ future[v] = future[u]
        BY <1>1, <4>1, <4>3
      <4> QED BY <4>1, <4>2, <4>3 DEF FlightInv, FuturesUnset
    <3> QED BY <3>1, <3>2 DEF FuturesUnset
  <2> QED BY <1>1, <2>3, <2>4 DEF FlightInv, UnparsedIsPreloaded
<1> QED BY <1>2, <1>3

\* The parse and the end of the parse: those who wait see the store as one step.
LEMMA StoreFlightInv ==
  ASSUME FlightInv, IInv', NEW t \in Threads, Parse(t) \/ Store(t)
  PROVE  FlightInv'
<1>0. TypeOK /\ CallsKnow /\ LoadersAreInFlight
  BY DEF FlightInv, IInv
<1>1. /\ Owes(t, future[t]) /\ Loading(t) /\ pc'[t] \in {"store", "set"}
      /\ \A u \in Threads \ {t} : pc'[u] = pc[u]
      /\ UNCHANGED <<outcome, path, future>>
  BY <1>0 DEF Parse, Store, Goto, store, locals, TypeOK, Owes, Loading
<1>2. FuturesBelong'
  BY <1>1 DEF FlightInv, FuturesBelong, Owes
<1>3. FuturesUnset'
  <2>1. ASSUME NEW u \in Threads, Owes(u, future[u])' PROVE outcome'[future'[u]] = Pending
    BY <1>1, <2>1 DEF FlightInv, FuturesUnset, Owes
  <2>2. ASSUME NEW u \in Threads, pc'[u] = "await", outcome'[future'[u]] = Pending
        PROVE  \/ inFlight'[path'[u]] = future'[u]
               \/ \E v \in Threads : pc'[v] = "set" /\ future'[v] = future'[u]
    <3>1. u # t /\ pc[u] = "await" /\ outcome[future[u]] = Pending /\ path[u] \in Paths
      BY <1>0, <1>1, <2>2 DEF CallsKnow
    <3>2. CASE \E v \in Threads : pc[v] = "set" /\ future[v] = future[u]
      BY <1>1, <3>2 DEF Loading
    <3>3. CASE inFlight[path[u]] = future[u] /\ Parse(t)
      BY <1>1, <3>1, <3>3 DEF Parse, store
    <3>4. CASE inFlight[path[u]] = future[u] /\ Store(t)
      <4>1. /\ pc'[t] = "set" /\ future[t] = inFlight[path[t]]
            /\ \A q \in Paths \ {path[t]} : inFlight'[q] = inFlight[q]
        BY <1>0, <1>1, <3>4 DEF Store, Goto, TypeOK, LoadersAreInFlight
      <4> QED BY <1>1, <3>1, <3>4, <4>1
    <3> QED BY <3>1, <3>2, <3>3, <3>4 DEF FlightInv, FuturesUnset
  <2> QED BY <2>1, <2>2 DEF FuturesUnset
<1>4. UnparsedIsPreloaded'
  <2>1. CASE Parse(t)
    BY <2>1 DEF Parse, store, FlightInv, UnparsedIsPreloaded
  <2>2. CASE Store(t)
    <3>1. layer[t] # NoLayer => layer[t].id # 0
      BY <1>0, <1>1 DEF CallsKnow, Loading
    <3>2. ASSUME NEW q \in Paths PROVE cache'[q] = cache[q] \/ (cache'[q] = layer[t] /\ layer[t] # NoLayer)
      BY <1>0, <2>2 DEF Store, TypeOK
    <3> QED BY <3>1, <3>2 DEF FlightInv, UnparsedIsPreloaded
  <2> QED BY <2>1, <2>2
<1> QED BY <1>2, <1>3, <1>4 DEF FlightInv

\* A call that returns.
LEMMA ReturnFlightInv ==
  ASSUME FlightInv, IInv', NEW t \in Threads, SetValue(t) \/ Await(t)
  PROVE  FlightInv'
<1>0. TypeOK /\ CallsKnow /\ Len(outcome) \in Nat
  BY LenProperties DEF FlightInv, IInv, TypeOK
<1>1. /\ pc[t] \in {"set", "await"} /\ pc'[t] = "idle" /\ path'[t] = NoPath /\ future'[t] = 0
      /\ \A u \in Threads \ {t} : pc'[u] = pc[u] /\ path'[u] = path[u] /\ future'[u] = future[u]
      /\ UNCHANGED <<cache, inFlight>>
  BY <1>0 DEF SetValue, Await, Goto, store, TypeOK
<1>2. FuturesBelong'
  BY <1>1 DEF FlightInv, FuturesBelong, Owes
<1>3. /\ Await(t) => outcome' = outcome
      /\ SetValue(t) => /\ Owes(t, future[t]) /\ outcome'[future[t]] # Pending
                        /\ \A f \in 1 .. Len(outcome) \ {future[t]} : outcome'[f] = outcome[f]
  <2>1. layer[t] # Pending
    <3>1. layer[t] \in Layer \cup {NoLayer}
      BY <1>0 DEF TypeOK
    <3> QED BY <3>1, PendingIsNoLayer
  <2>2. future[t] \in 1 .. Len(outcome)
    BY <1>0, <1>1 DEF CallsKnow
  <2> QED BY <1>0, <2>1, <2>2 DEF Await, SetValue, store, TypeOK, Owes
<1>4. \A u \in Threads \ {t} : pc[u] # "idle" => future[u] \in 1 .. Len(outcome)
  BY <1>0 DEF CallsKnow
<1>5. FuturesUnset'
  <2>1. ASSUME NEW u \in Threads, Owes(u, future[u])' PROVE outcome'[future'[u]] = Pending
    <3>1. u # t /\ Owes(u, future[u]) /\ future[u] \in 1 .. Len(outcome) /\ outcome[future[u]] = Pending
      BY <1>1, <1>4, <2>1 DEF Owes, FlightInv, FuturesUnset
    <3>2. SetValue(t) => future[u] # future[t]
      BY <1>3, <3>1 DEF FlightInv, FuturesBelong, Owes
    <3> QED BY <1>1, <1>3, <3>1, <3>2
  <2>2. ASSUME NEW u \in Threads, pc'[u] = "await", outcome'[future'[u]] = Pending
        PROVE  \/ inFlight'[path'[u]] = future'[u]
               \/ \E v \in Threads : pc'[v] = "set" /\ future'[v] = future'[u]
    <3>1. u # t /\ pc[u] = "await" /\ future[u] \in 1 .. Len(outcome)
      BY <1>1, <1>4, <2>2
    <3>2. (SetValue(t) => future[u] # future[t]) /\ outcome[future[u]] = Pending
      BY <1>1, <1>3, <2>2, <3>1
    <3>3. CASE \E v \in Threads : pc[v] = "set" /\ future[v] = future[u]
      <4>1. PICK v \in Threads : pc[v] = "set" /\ future[v] = future[u]
        BY <3>3
      <4>2. v # t
        BY <3>2, <4>1 DEF Await
      <4> QED BY <1>1, <3>1, <4>1, <4>2
    <3> QED BY <1>1, <3>1, <3>2, <3>3 DEF FlightInv, FuturesUnset
  <2> QED BY <2>1, <2>2 DEF FuturesUnset
<1> QED BY <1>1, <1>2, <1>5 DEF FlightInv, UnparsedIsPreloaded

\* What others do to the cache and to the files leaves the flights alone.
LEMMA OthersFlightInv ==
  ASSUME FlightInv, IInv', UNCHANGED <<inFlight, outcome, pc, locals>>,
         \A p \in Paths : cache'[p] \in {cache[p], NoLayer, [id |-> 0, version |-> 0]}
  PROVE  FlightInv'
<1>1. UnparsedIsPreloaded'
  BY DEF FlightInv, UnparsedIsPreloaded, NoLayer
<1> QED BY <1>1 DEF FlightInv, FuturesBelong, FuturesUnset, Owes, locals

\* The invariant that ties futures to threads and paths.
LEMMA FlightInvariant == Safety => []FlightInv
<1>1. Init /\ IInv => FlightInv
  BY DEF Init, FlightInv, FuturesBelong, FuturesUnset, UnparsedIsPreloaded, Owes, NoLayer
<1>2. FlightInv /\ IInv' /\ [Next]_vars => FlightInv'
  <2> SUFFICES ASSUME FlightInv, IInv', [Next]_vars PROVE FlightInv'
    OBVIOUS
  <2>1. ASSUME NEW t \in Threads, GetOrLoad(t), ~\E p \in Paths : Hit(t, p) PROVE FlightInv'
    BY <2>1, AskFlightInv, StoreFlightInv, ReturnFlightInv DEF GetOrLoad
  <2>2. ASSUME NEW t \in Threads, NEW p \in Paths, Hit(t, p) PROVE FlightInv'
    BY <2>2, OthersFlightInv DEF Hit, store, locals
  <2>3. ASSUME NEW p \in Paths, Preload(p) PROVE FlightInv'
    <3>1. \A q \in Paths : cache'[q] \in {cache[q], [id |-> 0, version |-> 0]}
      BY <2>3 DEF Preload, FlightInv, IInv, TypeOK
    <3> QED BY <2>3, <3>1, OthersFlightInv DEF Preload
  <2>4. ASSUME NEW P \in SUBSET Paths, Erase(P) PROVE FlightInv'
    BY <2>4, OthersFlightInv DEF Erase
  <2>5. ASSUME NEW p \in Paths, EditFile(p) PROVE FlightInv'
    BY <2>5, OthersFlightInv DEF EditFile, store
  <2>6. CASE UNCHANGED vars
    BY <2>6, OthersFlightInv DEF vars, store, locals
  <2> QED BY <2>1, <2>2, <2>3, <2>4, <2>5, <2>6 DEF Next, Drop, Clear
<1> QED BY <1>1, <1>2, InductiveInvariant, PTL DEF Safety

\* What a future gives its callers: the layer of the thread that is to set it
\* once that is stored, and otherwise what it holds.
ValuesKnown ==
  \A f \in 1 .. Len(outcome) :
    /\ \A t \in Threads : pc[t] = "set" /\ future[t] = f => Values[f] = layer[t]
    /\ (\A t \in Threads : ~(pc[t] = "set" /\ future[t] = f)) => Values[f] = outcome[f]

LEMMA ValuesAreKnown == FlightInv => ValuesKnown
<1> SUFFICES ASSUME FlightInv, NEW f \in 1 .. Len(outcome)
             PROVE  /\ \A t \in Threads : pc[t] = "set" /\ future[t] = f => Values[f] = layer[t]
                    /\ (\A t \in Threads : ~(pc[t] = "set" /\ future[t] = f)) => Values[f] = outcome[f]
  BY DEF ValuesKnown
<1>0. DOMAIN outcome = 1 .. Len(outcome)
  BY DEF FlightInv, IInv, TypeOK
<1>1. ASSUME NEW t \in Threads, pc[t] = "set", future[t] = f PROVE Values[f] = layer[t]
  <2> DEFINE u == CHOOSE x \in Threads : pc[x] = "set" /\ future[x] = f
  <2>1. u \in Threads /\ pc[u] = "set" /\ future[u] = f
    BY <1>1
  <2>2. Values[f] = layer[u]
    BY <1>0, <1>1, Zenon DEF Values
  <2> HIDE DEF u
  <2>3. u = t
    BY <1>1, <2>1 DEF FlightInv, FuturesBelong, Owes
  <2> QED BY <2>2, <2>3
<1>2. ASSUME \A t \in Threads : ~(pc[t] = "set" /\ future[t] = f) PROVE Values[f] = outcome[f]
  BY <1>0, <1>2, Zenon DEF Values
<1> QED BY <1>1, <1>2

\* A flight: those who wait for a path are those who have its future, and nobody
\* else has it.
WaitersKnown ==
  \A p \in Paths :
    /\ inFlight[p] # 0 =>
         \A t \in Threads : future[t] = inFlight[p] <=> path[t] = p /\ Answers[t] = Pending
    /\ inFlight[p] = 0 => \A t \in Threads : path[t] = p => Answers[t] # Pending

LEMMA WaitersAreKnown == FlightInv /\ ValuesKnown => WaitersKnown
<1> SUFFICES ASSUME FlightInv, ValuesKnown, NEW p \in Paths
             PROVE  /\ inFlight[p] # 0 =>
                         \A t \in Threads : future[t] = inFlight[p] <=> path[t] = p /\ Answers[t] = Pending
                    /\ inFlight[p] = 0 => \A t \in Threads : path[t] = p => Answers[t] # Pending
  BY DEF WaitersKnown
<1>0. TypeOK /\ CallsKnow /\ LoadersAreInFlight
  BY DEF FlightInv, IInv
<1>1. ASSUME NEW t \in Threads, path[t] = p, Answers[t] = Pending
      PROVE  inFlight[p] # 0 /\ future[t] = inFlight[p]
  <2>1. pc[t] # "idle" /\ future[t] \in 1 .. Len(outcome) /\ Values[future[t]] = Pending
    BY <1>0, <1>1, PathsAssumption DEF FlightInv, FuturesBelong, CallsKnow, Answers
  <2>2. ASSUME NEW u \in Threads, pc[u] = "set", future[u] = future[t] PROVE FALSE
    <3>1. layer[u] \in Layer \cup {NoLayer} /\ layer[u] = Pending
      BY <1>0, <2>1, <2>2 DEF TypeOK, ValuesKnown
    <3> QED BY <3>1, PendingIsNoLayer
  <2>3. \A u \in Threads : ~(pc[u] = "set" /\ future[u] = future[t])
    BY <2>2, Zenon
  <2>4. outcome[future[t]] = Pending
    BY <2>1, <2>3 DEF ValuesKnown
  <2>5. CASE Loading(t)
    BY <1>0, <1>1, <2>5 DEF LoadersAreInFlight
  <2>6. CASE pc[t] = "await"
    BY <1>0, <1>1, <2>1, <2>3, <2>4, <2>6 DEF FlightInv, FuturesUnset
  <2> QED BY <1>0, <2>1, <2>3, <2>5, <2>6 DEF TypeOK, Loading
<1>2. ASSUME inFlight[p] # 0, NEW t \in Threads, future[t] = inFlight[p]
      PROVE  path[t] = p /\ Answers[t] = Pending
  <2>1. PICK v \in Threads : Loading(v) /\ path[v] = p /\ future[v] = inFlight[p]
    BY <1>0, <1>2 DEF LoadersAreInFlight
  <2>2. path[t] = p /\ future[t] \in 1 .. Len(outcome)
    BY <1>0, <1>2, <2>1 DEF FlightInv, FuturesBelong, TypeOK
  <2>3. \A u \in Threads : ~(pc[u] = "set" /\ future[u] = future[t])
    BY <1>2, <2>1 DEF FlightInv, FuturesBelong, Owes, Loading
  <2>4. outcome[future[t]] = Pending
    BY <1>2, <2>1 DEF FlightInv, FuturesUnset, Owes, Loading
  <2>5. Values[future[t]] = Pending
    BY <2>2, <2>3, <2>4 DEF ValuesKnown
  <2> QED BY <2>2, <2>5 DEF Answers
<1> QED BY <1>1, <1>2

\* What is known of the calls at every moment.
Seen == FlightInv /\ ValuesKnown /\ WaitersKnown

\* Calls that wait with another future than the one of a step see nothing of it.
LEMMA AnswersKept ==
  ASSUME Seen, Seen', NEW u \in Threads, future'[u] = future[u],
         future[u] # 0 => outcome'[future[u]] = outcome[future[u]],
         \A v \in Threads : future[v] = future[u] \/ future'[v] = future[u] =>
            \/ pc[v] # "set" /\ pc'[v] # "set"
            \/ pc[v] = "set" /\ pc'[v] = "set" /\ future'[v] = future[v] /\ layer'[v] = layer[v]
  PROVE  Answers'[u] = Answers[u]
<1>1. CASE future[u] = 0
  BY <1>1 DEF Answers
<1>2. CASE future[u] # 0
  <2>1. future[u] \in 1 .. Len(outcome) /\ future[u] \in 1 .. Len(outcome')
    BY <1>2 DEF Seen, FlightInv, IInv, TypeOK
  <2>2. Values'[future[u]] = Values[future[u]]
    <3>1. CASE \E v \in Threads : pc[v] = "set" /\ future[v] = future[u]
      <4>1. PICK v \in Threads : pc[v] = "set" /\ future[v] = future[u]
        BY <3>1
      <4>2. pc'[v] = "set" /\ future'[v] = future[u] /\ layer'[v] = layer[v]
        BY <4>1
      <4> QED BY <2>1, <4>1, <4>2 DEF Seen, ValuesKnown
    <3>2. CASE \A v \in Threads : ~(pc[v] = "set" /\ future[v] = future[u])
      <4>1. \A v \in Threads : ~(pc'[v] = "set" /\ future'[v] = future[u])
        BY <3>2
      <4> QED BY <1>2, <2>1, <3>2, <4>1 DEF Seen, ValuesKnown
    <3> QED BY <3>1, <3>2
  <2> QED BY <1>2, <2>2 DEF Answers
<1> QED BY <1>1, <1>2

\* Steps that nobody who waits sees: a hit, an edit of a file, a parse.
LEMMA UnseenStep ==
  ASSUME Seen, Seen', UNCHANGED <<cache, outcome, path, future>>,
         \A v \in Threads : \/ pc'[v] = pc[v] /\ layer'[v] = layer[v]
                            \/ pc[v] # "set" /\ pc'[v] # "set"
  PROVE  UNCHANGED Flight!vars
<1>1. \A u \in Threads : Answers'[u] = Answers[u]
  BY AnswersKept
<1>2. Answers' = Answers
  BY <1>1 DEF Answers
<1> QED BY <1>2 DEF Flight!vars

\* A caller that does not find its path waits for a flight, old or new.
LEMMA AskStep ==
  ASSUME Seen, Seen', NEW t \in Threads, NEW p \in Paths, Join(t, p) \/ BecomeLoader(t, p)
  PROVE  Flight!Ask(t, p)
<1>0. TypeOK /\ CallsKnow /\ Len(outcome) \in Nat /\ TypeOK'
  BY LenProperties DEF Seen, FlightInv, IInv, TypeOK
<1>1. /\ pc[t] = "idle" /\ pc'[t] \in {"await", "parse"} /\ cache[p] = NoLayer /\ cache' = cache
      /\ path' = [path EXCEPT ![t] = p] /\ future'[t] = inFlight'[p] /\ inFlight'[p] # 0
      /\ \A u \in Threads \ {t} : pc'[u] = pc[u] /\ future'[u] = future[u]
      /\ layer' = layer
      /\ \A f \in 1 .. Len(outcome) : outcome'[f] = outcome[f]
  <2>1. CASE Join(t, p)
    BY <1>0, <2>1 DEF Join, CallOn, Goto, store, TypeOK
  <2>2. CASE BecomeLoader(t, p)
    <3>1. \A f \in 1 .. Len(outcome) : outcome'[f] = outcome[f]
      BY <1>0, <2>2 DEF BecomeLoader, TypeOK
    <3>2. Len(outcome') = Len(outcome) + 1
      BY <1>0, <2>2 DEF BecomeLoader, TypeOK
    <3> QED BY <1>0, <2>2, <3>1, <3>2 DEF BecomeLoader, CallOn, Goto, TypeOK
  <2> QED BY <2>1, <2>2
<1>2. path[t] = NoPath /\ future[t] = 0
  BY <1>1 DEF Seen, FlightInv, FuturesBelong
<1>3. Answers[t] = Pending /\ Answers'[t] = Pending
  <2>1. Answers'[t] = Pending
    BY <1>1 DEF Seen, WaitersKnown
  <2> QED BY <1>2, <2>1 DEF Answers
<1>4. ASSUME NEW u \in Threads \ {t} PROVE Answers'[u] = Answers[u]
  <2>1. future[u] # 0 => outcome'[future[u]] = outcome[future[u]]
    <3>1. future[u] \in 0 .. Len(outcome)
      BY <1>0 DEF TypeOK
    <3> QED BY <1>0, <1>1, <3>1
  <2>2. ASSUME NEW v \in Threads
        PROVE  \/ pc[v] # "set" /\ pc'[v] # "set"
               \/ pc[v] = "set" /\ pc'[v] = "set" /\ future'[v] = future[v] /\ layer'[v] = layer[v]
    BY <1>1
  <2>3. future'[u] = future[u]
    BY <1>1
  <2> QED BY <2>1, <2>2, <2>3, AnswersKept
<1>5. Answers' = Answers
  BY <1>3, <1>4 DEF Answers
<1> QED BY <1>1, <1>2, <1>5 DEF Flight!Ask

\* The store ends the flight for all who wait for the path.
LEMMA StoreStep ==
  ASSUME Seen, Seen', NEW t \in Threads, Store(t)
  PROVE  path[t] \in Paths /\ Flight!Complete(path[t])
<1> DEFINE p == path[t]
<1>0. TypeOK /\ CallsKnow /\ LoadersAreInFlight /\ FuturesBelong /\ UnparsedIsPreloaded /\ ValuesKnown'
      /\ OnlyPreloadOvertakesParse
  BY DEF Seen, FlightInv, IInv
<1>1. /\ pc[t] = "store" /\ Loading(t) /\ p \in Paths /\ future[t] = inFlight[p] /\ inFlight[p] # 0
      /\ future[t] \in 1 .. Len(outcome) /\ layer[t] \in Layer \cup {NoLayer}
  BY <1>0 DEF Store, CallsKnow, LoadersAreInFlight, Loading, TypeOK
<1>2. /\ pc'[t] = "set" /\ \A u \in Threads \ {t} : pc'[u] = pc[u]
      /\ UNCHANGED <<outcome, path, future, layer>>
  BY <1>0 DEF Store, Goto, locals, TypeOK
<1>3. \A u \in Threads : u \in Flight!Waiting(p) <=> future[u] = future[t]
  BY <1>1 DEF Seen, WaitersKnown, Flight!Waiting
<1>4. ASSUME NEW u \in Threads PROVE Answers'[u] = IF u \in Flight!Waiting(p) THEN layer[t] ELSE Answers[u]
  <2>1. CASE future[u] = future[t]
    <3>1. Values'[future[t]] = layer[t]
      BY <1>0, <1>1, <1>2 DEF ValuesKnown
    <3> QED BY <1>1, <1>2, <1>3, <2>1, <3>1 DEF Answers
  <2>2. CASE future[u] # future[t]
    <3>1. Answers'[u] = Answers[u]
      BY <1>2, <2>2, AnswersKept
    <3> QED BY <1>3, <2>2, <3>1
  <2> QED BY <2>1, <2>2
<1>5. t \in Flight!Waiting(p)
  BY <1>3
<1>6. Answers'[t] = layer[t]
  BY <1>4, <1>5
<1>7. Answers' = [u \in Threads |-> IF u \in Flight!Waiting(p) THEN Answers'[t] ELSE Answers[u]]
  BY <1>4, <1>6 DEF Answers
<1>8. cache' = [cache EXCEPT ![p] = IF @ = NoLayer THEN layer[t] ELSE @]
  <2> HIDE DEF p
  <2>1. cache \in [Paths -> Layer \cup {NoLayer}]
    BY <1>0 DEF TypeOK
  <2>2. CASE layer[t] = NoLayer
    <3>1. cache' = cache
      BY <2>2 DEF Store
    <3> QED BY <2>1, <2>2, <3>1
  <2>3. CASE layer[t] # NoLayer
    BY <2>3 DEF Store, p
  <2> QED BY <2>2, <2>3
<1>9. cache[p] \in {NoLayer, [id |-> 0, version |-> 0]}
  BY <1>0, <1>1 DEF OnlyPreloadOvertakesParse, UnparsedIsPreloaded
<1> HIDE DEF p
<1>10. p \in Paths /\ Flight!Complete(p)
  BY <1>1, <1>2, <1>5, <1>6, <1>7, <1>8, <1>9 DEF Flight!Complete
<1> QED BY <1>10 DEF p

\* A call returns what its flight gave, whether it set the value or waited for it.
LEMMA ReturnStep ==
  ASSUME Seen, Seen', NEW t \in Threads, SetValue(t) \/ Await(t)
  PROVE  Flight!Return(t)
<1> DEFINE f == future[t]
<1>0. TypeOK /\ CallsKnow /\ FuturesBelong /\ FuturesUnset /\ ValuesKnown /\ ValuesKnown' /\ TypeOK'
  BY DEF Seen, FlightInv, IInv
<1>1. /\ pc[t] \in {"set", "await"} /\ pc'[t] = "idle" /\ path' = [path EXCEPT ![t] = NoPath]
      /\ f \in 1 .. Len(outcome) /\ future'[t] = 0 /\ Len(outcome) \in Nat
      /\ \A u \in Threads \ {t} : pc'[u] = pc[u] /\ future'[u] = future[u] /\ layer'[u] = layer[u]
      /\ UNCHANGED cache
  BY <1>0, LenProperties DEF SetValue, Await, Goto, store, TypeOK, CallsKnow
<1>2. \A u \in Threads : layer[u] # Pending
  <2> SUFFICES ASSUME NEW u \in Threads, layer[u] = Pending PROVE FALSE
    OBVIOUS
  <2>1. layer[u] \in Layer \cup {NoLayer}
    BY <1>0 DEF TypeOK
  <2> QED BY <2>1, PendingIsNoLayer
<1>3. Answers[t] # Pending
  <2>1. CASE SetValue(t)
    <3>1. Values[f] = layer[t]
      BY <1>0, <1>1, <2>1 DEF SetValue, ValuesKnown
    <3> QED BY <1>1, <1>2, <3>1 DEF Answers
  <2>2. CASE Await(t)
    <3>1. outcome[f] # Pending
      BY <2>2 DEF Await
    <3>2. \A u \in Threads : ~(pc[u] = "set" /\ future[u] = f)
      BY <1>0, <3>1 DEF FuturesUnset, Owes
    <3>3. Values[f] # Pending
      BY <1>0, <1>1, <3>1, <3>2 DEF ValuesKnown
    <3> QED BY <1>1, <3>3 DEF Answers
  <2> QED BY <2>1, <2>2
<1>4. Answers'[t] = Pending
  BY <1>1 DEF Answers
<1>5. ASSUME NEW u \in Threads \ {t} PROVE Answers'[u] = Answers[u]
  <2>1. CASE Await(t)
    <3>1. pc[t] = "await" /\ outcome' = outcome
      BY <2>1 DEF Await, store
    <3> QED BY <1>1, <3>1, AnswersKept
  <2>2. CASE SetValue(t)
    <3>1. /\ pc[t] = "set" /\ outcome'[f] = layer[t] /\ Len(outcome') = Len(outcome)
          /\ \A g \in 1 .. Len(outcome) \ {f} : outcome'[g] = outcome[g]
      BY <1>0, <1>1, <2>2 DEF SetValue, TypeOK
    <3>2. CASE future[u] # f
      <4>1. future[u] # 0 => future[u] \in 1 .. Len(outcome)
        BY <1>0 DEF TypeOK
      <4>2. \A v \in Threads : future[v] = future[u] \/ future'[v] = future[u] => v # t \/ pc'[v] # "set"
        BY <1>1
      <4>3. CASE future[u] = 0
        BY <1>1, <4>3 DEF Answers
      <4>4. CASE future[u] # 0
        <5>1. \A v \in Threads : future[v] = future[u] \/ future'[v] = future[u] => v # t
          BY <1>1, <3>2, <4>4
        <5> QED BY <1>1, <3>1, <3>2, <4>1, <4>4, <5>1, AnswersKept
      <4> QED BY <4>3, <4>4
    <3>3. CASE future[u] = f
      <4>1. Values[f] = layer[t]
        BY <1>0, <1>1, <3>1 DEF ValuesKnown
      <4>2. \A v \in Threads : ~(pc'[v] = "set" /\ future'[v] = f)
        BY <1>0, <1>1, <3>1 DEF FuturesBelong, Owes
      <4>3. Values'[f] = layer[t]
        BY <1>0, <1>1, <3>1, <4>2 DEF ValuesKnown
      <4> QED BY <1>1, <3>3, <4>1, <4>3 DEF Answers
    <3> QED BY <3>2, <3>3
  <2> QED BY <2>1, <2>2
<1>6. Answers' = [Answers EXCEPT ![t] = Pending]
  BY <1>4, <1>5 DEF Answers
<1> QED BY <1>1, <1>3, <1>6 DEF Flight!Return

\* The registry implements SingleFlight: to its callers each path is loaded in
\* one flight, all who wait are answered together when the layer is stored, and
\* what they get is what later callers find, unless a preload was faster.
THEOREM RegistryImplementsSingleFlight == Spec => ImplementsSingleFlight
<1>1. Init => Flight!Init
  BY DEF Init, Flight!Init, Answers
<1>2. Seen /\ Seen' /\ [Next]_vars => [Flight!Next]_(Flight!vars)
  <2> SUFFICES ASSUME Seen, Seen', [Next]_vars PROVE Flight!Next \/ UNCHANGED Flight!vars
    OBVIOUS
  <2>0. TypeOK
    BY DEF Seen, FlightInv, IInv
  <2>1. ASSUME NEW t \in Threads, NEW p \in Paths, Hit(t, p) PROVE UNCHANGED Flight!vars
    BY <2>1, UnseenStep DEF Hit, store, locals
  <2>2. ASSUME NEW t \in Threads, NEW p \in Paths, Join(t, p) \/ BecomeLoader(t, p) PROVE Flight!Next
    BY <2>2, AskStep DEF Flight!Next
  <2>3. ASSUME NEW t \in Threads, Parse(t) PROVE UNCHANGED Flight!vars
    <3>1. /\ pc[t] = "parse" /\ pc'[t] = "store" /\ UNCHANGED <<cache, outcome, path, future>>
          /\ \A v \in Threads \ {t} : pc'[v] = pc[v] /\ layer'[v] = layer[v]
      BY <2>0, <2>3 DEF Parse, Goto, store, TypeOK
    <3> QED BY <3>1, UnseenStep
  <2>4. ASSUME NEW t \in Threads, Store(t) PROVE Flight!Next
    BY <2>4, StoreStep DEF Flight!Next
  <2>5. ASSUME NEW t \in Threads, SetValue(t) \/ Await(t) PROVE Flight!Next
    BY <2>5, ReturnStep DEF Flight!Next
  <2>6. ASSUME UNCHANGED <<outcome, path, future, pc, layer>> PROVE Answers' = Answers
    BY <2>6 DEF Answers, Values
  <2>7. ASSUME NEW p \in Paths, Preload(p) PROVE Flight!Next
    BY <2>6, <2>7 DEF Preload, locals, Flight!Next, Flight!Preload
  <2>8. ASSUME NEW P \in SUBSET Paths, Erase(P) PROVE Flight!Next
    <3>1. Flight!Evict(P)
      BY <2>6, <2>8 DEF Erase, locals, Flight!Evict
    <3> QED BY <3>1 DEF Flight!Next
  <2>9. ASSUME NEW p \in Paths, EditFile(p) PROVE UNCHANGED Flight!vars
    BY <2>6, <2>9 DEF EditFile, store, locals, Flight!vars
  <2>10. CASE UNCHANGED vars
    BY <2>6, <2>10 DEF vars, store, locals, Flight!vars
  <2> QED BY <2>1, <2>2, <2>3, <2>4, <2>5, <2>7, <2>8, <2>9, <2>10 DEF Next, GetOrLoad, Drop, Clear
<1>3. Safety => []Seen
  BY FlightInvariant, ValuesAreKnown, WaitersAreKnown, PTL DEF Seen
<1> QED BY <1>1, <1>2, <1>3, PTL DEF Spec, Safety, ImplementsSingleFlight, Flight!Spec
===========================================================================
