---------------------------- MODULE Composition ----------------------------
(***************************************************************************)
(* Arc expansion and the source cache of the next pcp cache                *)
(* (src/src/next/pcp/cache-arc-expansion.inc, cache-compose.inc and        *)
(* cache-invalidation.inc): how the opinions that compose a prim are       *)
(* found in strength order, cached, and dropped when payload rules change. *)
(*                                                                         *)
(* A scene gives, for each authored site <<layer stack, path>>, the arcs   *)
(* of its spec.  Stack 0 is the root.  Composing a prim expands the arcs   *)
(* of every site that contributes to it; expansion re-enters the cache for *)
(* other prims, among them prims whose own expansion is still running, so  *)
(* the operators thread what the C++ mutates in a record e:                *)
(*   cache     sources_cache, from <<stack, path>> to a list of sources    *)
(*   busy      sources_in_progress                                         *)
(*   deferred  deferred_payload_prims                                      *)
(*   main,spec the two lists that the running ExpandList fills             *)
(*   rules     load_rules_, read by payload arcs                           *)
(*                                                                         *)
(* One layer per stack.  No variants, relocates, expression variables,     *)
(* layer offsets or instanceable prims: the scenes author none.            *)
(***************************************************************************)
EXTENDS Integers, FiniteSets, Sequences, SequencesExt, TLC, NamespaceMapping, LoadRules

CONSTANTS Scenes,        \* the scenes a behaviour may compose
          NameOrder,     \* the prim names, in the order layers author them
          Paths,         \* the paths the client names in its calls
          MaxDepth,      \* CompositionOptions::max_depth
          LoadPayloads0, \* CompositionOptions::load_payloads
          MaxNamespaceDepth, \* CompositionOptions::max_namespace_depth
          RuleSets,      \* the rule sets given to SetLoadRules
          MaxRules(_)    \* bound of the model: the rules a scene has at once

VARIABLES scene,     \* the layers' contents
          rules,     \* load_rules_
          cache,     \* sources_cache
          index,     \* index_cache: the sources each index was made from
          deferred,  \* deferred_payload_prims
          stage,     \* history: the prims of the last stage built under these rules
          edited     \* history: rules changed since the cache was last emptied

vars == <<scene, rules, cache, index, deferred, stage, edited>>

NoStack == -1        \* UINT32_MAX; as an arc's asset, an internal arc
Parent(path) == Front(path)

Specced(stack, path) == <<stack, path>> \in DOMAIN scene
Stacks == {site[1] : site \in DOMAIN scene}
HasSpec(s) == Specced(s.stack, s.site)
Related(p, q) == AtOrUnder(p, q) \/ AtOrUnder(q, p)
ClassBased(kind) == kind \in {"Inherit", "Specialize"}
Authored(list) == \E i \in DOMAIN list : HasSpec(list[i])
SitesOf(list) == {<<list[i].stack, list[i].site>> : i \in DOMAIN list}

\* The source a root prim starts from.
Seed(stack, path) ==
    [stack |-> stack, site |-> path, map |-> Identity, kind |-> "Root",
     ancestral |-> FALSE, anchor |-> NoStack, chain |-> <<>>, trail |-> {}]

ShouldLoadPayload(e, path) ==
    IF GetEffect(e.rules, path) = "Default" THEN LoadPayloads0
    ELSE GetEffect(e.rules, path) # "None"

\* The sources of the child cn of a prim with these sources.
DeriveChildSources(list, cn) ==
    [i \in DOMAIN list |->
        [list[i] EXCEPT !.site = Append(@, cn), !.ancestral = TRUE]]

---------------------------------------------------------------------------

\* Expansion frames: the sites on the way here, and how deep.
Push(frame, stack, site) ==
    [sites |-> frame.sites \cup {<<stack, site>>}, depth |-> frame.depth + 1]
OnFrame(frame, s) == <<s.stack, s.site>> \in frame.sites
\* Mutant: forgets the arcs that the source came through.
SeedFrameBare(s) == [sites |-> {<<s.stack, s.site>>}, depth |-> 0]
SeedFrame(s) == [sites |-> s.trail \cup {<<s.stack, s.site>>}, depth |-> 0]

Node(stack, map) == [stack |-> stack, map |-> map]
\* Mutant: forgets the stacks on the way.
SeedChainOwn(s) == <<Node(s.stack, s.map)>>
\* Every stack from the root to this source, with its entry mapping.
SeedChain(s) ==
    LET rooted == IF s.chain # <<>> /\ s.chain[1].stack = 0 THEN s.chain
                  ELSE <<Node(0, Identity)>> \o s.chain
        own == Node(s.stack, s.map)
    IN  IF Last(rooted) = own THEN rooted ELSE Append(rooted, own)

\* Mutant: inherited opinions are as weak as specialized ones.
RoutedClasses(s) == IF ClassBased(s.kind) THEN "spec" ELSE "main"
\* The list that a base source's opinions go to: a specialize stays weakest
\* on the children as well.
Routed(s) == IF s.kind = "Specialize" THEN "spec" ELSE "main"

\* The list with each block of implied class opinions moved up behind the
\* last earlier opinion of the stack that it is implied in.
RECURSIVE MoveImplied(_, _)
MoveImplied(list, i) ==
    IF i > Len(list) THEN list
    ELSE IF list[i].anchor = NoStack THEN MoveImplied(list, i + 1)
    ELSE LET anchor == list[i].anchor
             block == {k \in i..Len(list) :
                          \A j \in i..k : list[j].anchor = anchor}
             after == CHOOSE k \in block : \A j \in block : j <= k
             slots == {j \in 1..(i - 1) : /\ list[j].stack = anchor
                                         /\ list[j].anchor \in {NoStack, anchor}}
             slot == CHOOSE j \in slots : \A k \in slots : k <= j
         IN  IF slots = {} THEN MoveImplied(list, after + 1)
             ELSE MoveImplied(SubSeq(list, 1, slot) \o SubSeq(list, i, after)
                              \o SubSeq(list, slot + 1, i - 1)
                              \o SubSeq(list, after + 1, Len(list)), after + 1)

RECURSIVE ExpandArcs(_, _, _, _, _), SourcesForSite(_, _, _)

\* The expanded sources of a prim, from its base sources.
ExpandList(e, base) ==
    LET Expand(acc, s) ==
            ExpandArcs(acc, s, SeedFrame(s), SeedChain(s), Routed(s))
        Gathered(done) ==
            [e |-> [done EXCEPT !.main = e.main, !.spec = e.spec],
             list |-> MoveImplied(done.main, 1) \o done.spec]
    IN  Gathered(FoldLeft(Expand, [e EXCEPT !.main = <<>>, !.spec = <<>>], base))

\* The expanded sources of a path in a stack's namespace: from the cache, or
\* built with every ancestor above it that is not cached.  A list that is
\* being built is empty for whoever asks.
SourcesForSite(e, stack, path) ==
    LET Slot(n) == <<stack, SubSeq(path, 1, n)>>
        key == Slot(Len(path))
        first == CHOOSE n \in 1..Len(path) :
                    /\ n = 1 \/ Slot(n - 1) \in DOMAIN e.cache
                    /\ \A m \in n..(Len(path) - 1) : Slot(m) \notin DOMAIN e.cache
        Base(acc, n) ==
            IF n = 1 THEN <<Seed(stack, <<path[1]>>)>>
            ELSE DeriveChildSources(acc.cache[Slot(n - 1)], path[n])
        Store(n, r) == [r.e EXCEPT !.cache[Slot(n)] = r.list]
        Build(acc, n) ==
            Store(n, ExpandList([acc EXCEPT !.cache = @ @@ Slot(n) :> <<>>], Base(acc, n)))
        Finish(done) == [e |-> [done EXCEPT !.busy = @ \ {key}], list |-> done.cache[key]]
    IN  IF key \in DOMAIN e.cache THEN [e |-> e, list |-> e.cache[key]]
        ELSE IF key \in e.busy THEN [e |-> e, list |-> <<>>]
        ELSE Finish(FoldLeft(Build, [e EXCEPT !.busy = @ \cup {key}],
                             [i \in 1..(Len(path) - first + 1) |-> first + i - 1]))

---------------------------------------------------------------------------
(***************************************************************************)
(* One arc.  x has the source that authors it (src), its kind and target   *)
(* (stack, site; internal if the arc names no asset), the composed paths   *)
(* of the source and of the target (here and there), the expansion frame,  *)
(* the list it goes to (into), and what the target starts as (seed).       *)
(***************************************************************************)

\* A class is implied in a stack on the way to the root: what is authored
\* there at the class's path composes first, at that stack's strength.
Imply(e, x, stack, site) ==
    LET s == [x.seed EXCEPT !.stack = stack, !.site = site, !.anchor = stack,
                            !.map = IF site = x.site /\ stack # x.stack THEN @
                                    ELSE ArcMapping(site, x.here)]
    IN  ExpandArcs(e, s, Push(x.frame, stack, site), <<Node(stack, s.map)>>, x.into)

ImplyInChain(e, x, chain) ==
    LET Step(acc, i) ==
            LET node == chain[i]
                site == ReverseApply(node.map, x.there)
            IN  IF \/ node.stack = x.stack
                   \/ \E j \in 1..(i - 1) : chain[j] = node
                   \/ ~Specced(node.stack, site)
                THEN acc ELSE Imply(acc, x, node.stack, site)
    IN  FoldLeft(Step, e, [i \in DOMAIN chain |-> i])

\* A specialized class that composes by arcs alone at its implied path: what
\* composes there and not at the target itself goes ahead of the target.
ImplySpecialize(e, x) ==
    LET Take(implied, known) ==
            LET own == SelectSeq(implied.list, LAMBDA s :
                           /\ ~(s.kind = "Root" /\ s.site = x.there)
                           /\ <<s.stack, s.site>> \notin known)
            IN  [implied.e EXCEPT !.spec = @ \o
                    [i \in DOMAIN own |->
                        [own[i] EXCEPT !.map = Compose(Rename(x.there, x.here), @),
                                       !.kind = "Specialize", !.anchor = x.stack,
                                       !.ancestral = TRUE]]]
        Beyond(direct) ==
            Take(SourcesForSite(direct.e, x.stack, x.there), SitesOf(direct.list))
    IN  Beyond(SourcesForSite(e, x.stack, x.site))

ImplyClass(e, x, chain) ==
    LET Own(implied) ==
            IF x.there = x.site THEN implied
            ELSE IF Specced(x.stack, x.there) THEN Imply(implied, x, x.stack, x.there)
            ELSE IF x.kind = "Specialize" THEN ImplySpecialize(implied, x)
            ELSE implied
    IN  IF ClassBased(x.kind) THEN Own(ImplyInChain(e, x, chain)) ELSE e

\* The target's own sources: its spec and what its ancestors' arcs, resolved
\* in its own stack, deliver there.
EnterTarget(e, x, chain) ==
    LET Entered(t, map) ==
            [x.seed EXCEPT !.stack = t.stack, !.site = t.site, !.map = map,
                           !.chain = IF t.stack = x.src.stack THEN chain
                                     ELSE Append(chain, Node(t.stack, map)),
                           !.trail = x.src.trail \cup {<<t.stack, t.site>>}]
        Expand(acc, s) ==
            ExpandArcs(acc, s, Push(x.frame, s.stack, s.site), s.chain, x.into)
        Enter(acc, t) ==
            IF \/ OnFrame(x.frame, t)
               \/ /\ t.stack = x.src.stack /\ t.site # x.site
                  /\ AtOrUnder(x.src.site, t.site)
            THEN acc
            ELSE Expand(acc, Entered(t, Compose(x.seed.map, t.map)))
        OfChild(above) ==
            [e |-> above.e, list |-> DeriveChildSources(above.list, Last(x.site))]
        EnterAll(own) == FoldLeft(Enter, own.e, own.list)
    IN  EnterAll(IF Len(x.site) = 1 THEN [e |-> e, list |-> <<Seed(x.stack, x.site)>>]
                 ELSE OfChild(SourcesForSite(e, x.stack, Parent(x.site))))

\* A source of another composed prim, taken over by this one.
Adopt(s, x) == [s EXCEPT !.map = Compose(ArcMapping(x.there, x.here), @),
                         !.kind = x.kind, !.ancestral = FALSE]
AdoptAll(list, x) == [i \in DOMAIN list |-> Adopt(list[i], x)]

\* What the stage composes at a class beyond what was gathered since mark.
Supplement(e, x, mark) ==
    LET seen == SitesOf(SubSeq(e[x.into], mark + 1, Len(e[x.into])))
        More(list) ==
            {i \in DOMAIN list :
                LET s == list[i]
                IN  /\ <<s.stack, s.site>> \notin seen
                    /\ \A j \in 1..(i - 1) : list[j].stack # s.stack
                                           \/ list[j].site # s.site
                    /\ ~OnFrame(x.frame, s)
                    /\ HasSpec(s)}
        Picked(list, more) ==
            [i \in 1..Cardinality(more) |->
                list[CHOOSE k \in more : Cardinality({j \in more : j <= k}) = i]]
        Add(class) ==
            [class.e EXCEPT ![x.into] =
                @ \o AdoptAll(Picked(class.list, More(class.list)), x)]
    IN  IF ~ClassBased(x.kind) \/ Related(x.here, x.there) THEN e
        ELSE Add(SourcesForSite(e, 0, x.there))

\* An arc that would graft the prim under itself, or is too deep.
IsCycle(x) ==
    \/ <<x.stack, x.site>> \in x.frame.sites
    \/ x.frame.depth + 1 >= MaxDepth
    \/ /\ x.stack = x.src.stack
       /\ \/ x.site # x.src.site /\ AtOrUnder(x.src.site, x.site)
          \/ x.there # x.here /\ AtOrUnder(x.here, x.there)

\* An arc within the stack to a prim that composes by arcs alone takes over its
\* sources; any other enters its target.
FollowArc(e, x, chain) ==
    LET Reusable(s) == /\ ~OnFrame(x.frame, s)
                       /\ ~(s.stack = x.src.stack /\ AtOrUnder(x.src.site, s.site))
        Follow(composed) ==
            IF Authored(composed.list)
            THEN [composed.e EXCEPT ![x.into] =
                     @ \o AdoptAll(SelectSeq(composed.list, Reusable), x)]
            ELSE IF IsCycle(x) THEN composed.e
            ELSE Supplement(EnterTarget(ImplyClass(composed.e, x, chain), x, chain),
                            x, Len(composed.e[x.into]))
    IN  Follow(IF /\ x.internal /\ ~Specced(x.stack, x.site)
                  /\ ~Related(x.here, x.there)
               THEN SourcesForSite(e, 0, x.there)
               ELSE [e |-> e, list |-> <<>>])

ProcessArc(e, src, arc, kind, frame, chain, tgt) ==
    LET stack == IF arc.asset = NoStack THEN src.stack ELSE arc.asset
        x == [src |-> src, kind |-> kind, stack |-> stack, site |-> arc.path,
              internal |-> arc.asset = NoStack,
              here |-> Apply(src.map, src.site), there |-> Apply(src.map, arc.path),
              frame |-> frame, into |-> IF kind = "Specialize" THEN "spec" ELSE tgt,
              seed |-> [Seed(stack, arc.path) EXCEPT
                           !.kind = kind, !.anchor = src.anchor,
                           !.map = Compose(src.map,
                               IF ClassBased(kind) /\ stack = src.stack
                               THEN ClassMapping(arc.path, src.site)
                               ELSE ArcMapping(arc.path, src.site))]]
    IN  IF stack \in Stacks THEN FollowArc(e, x, chain) ELSE e

\* Mutant: the mark is never taken off.
DeferralNeverLifted(e, path, loads) ==
    [e EXCEPT !.deferred = IF loads THEN @ ELSE @ \cup {path}]
\* The mark of a prim some payload of which is left out.
Deferral(e, path, loads) ==
    [e EXCEPT !.deferred = IF loads THEN @ \ {path} ELSE @ \cup {path}]

\* A source and, in strength order, what its arcs bring.  The code sets the mark
\* or takes it off when it is through with the payloads.  When makes no
\* difference: which of the two it is depends on the path and the rules alone.
ExpandArcs(e, src, frame, chain, tgt) ==
    LET arcs == scene[<<src.stack, src.site>>]
        path == Apply(src.map, src.site)
        loads == ShouldLoadPayload(e, path)
        All(kind, list) == [i \in DOMAIN list |-> <<kind, list[i]>>]
        Mark(acc) == IF arcs.payloads = <<>> THEN acc ELSE Deferral(acc, path, loads)
        pushed == [e EXCEPT ![tgt] = Append(@, src)]
    IN  IF ~HasSpec(src) THEN pushed
        ELSE FoldLeft(LAMBDA a, k : ProcessArc(a, src, k[2], k[1], frame, chain, tgt),
                      Mark(pushed),
                      All("Inherit", arcs.inherits) \o All("Reference", arcs.references)
                      \o (IF loads THEN All("Payload", arcs.payloads) ELSE <<>>)
                      \o All("Specialize", arcs.specializes))

---------------------------------------------------------------------------
(***************************************************************************)
(* The cache.                                                              *)
(***************************************************************************)

Begin(r, c, d) ==
    [rules |-> r, cache |-> c, busy |-> {}, deferred |-> d,
     main |-> <<>>, spec |-> <<>>]

\* What a cache that holds nothing yet composes.
Fresh(r, stack, path) == SourcesForSite(Begin(r, <<>>, {}), stack, path).list

\* The names of the children, weakest source first.
ChildNames(list) ==
    LET Authors(i) == SelectSeq(NameOrder, LAMBDA n :
                          Specced(list[i].stack, Append(list[i].site, n)))
        Collect(acc, i) == acc \o SelectSeq(Authors(i), LAMBDA n : n \notin ToSet(acc))
    IN  FoldRight(LAMBDA i, acc : Collect(acc, i), [i \in DOMAIN list |-> i], <<>>)

Empty == <<>>
Keep(f, S) == [k \in DOMAIN f \cap S |-> f[k]]

Init ==
    /\ scene \in Scenes
    /\ rules = Empty
    /\ cache = Empty
    /\ index = Empty
    /\ deferred = {}
    /\ stage = {}
    /\ edited = FALSE

\* ComputePrimIndex_locked on a cache of these contents: the next cache, index
\* and deferred payloads.
Compute(r, c, ix, d, path) ==
    LET Indexed(got) ==
            [cache |-> got.e.cache, deferred |-> got.e.deferred,
             index |-> IF Authored(got.list) THEN ix @@ path :> got.list ELSE ix]
    IN  IF path \in DOMAIN ix THEN [cache |-> c, index |-> ix, deferred |-> d]
        ELSE Indexed(SourcesForSite(Begin(r, c, d), 0, path))

Become(s) == cache' = s.cache /\ index' = s.index /\ deferred' = s.deferred

ComputePrimIndex(path) ==
    /\ path \notin DOMAIN index
    /\ Become(Compute(rules, cache, index, deferred, path))
    /\ UNCHANGED <<scene, rules, stage, edited>>

Composed(e) == cache' = e.cache /\ deferred' = e.deferred

\* ComposePrim: sources, no index.
ComposePrim(path) ==
    /\ Composed(SourcesForSite(Begin(rules, cache, deferred), 0, path).e)
    /\ UNCHANGED <<scene, rules, index, stage, edited>>

\* BuildStage's walk below the prims of one level, nearest child first: those
\* too deep are dropped and reported.
RECURSIVE Walk(_, _)
Walk(acc, path) ==
    LET Below(got) ==
            FoldLeft(LAMBDA a, n : Walk(a, Append(path, n)),
                     [e |-> got.e, prims |-> acc.prims \cup {path}],
                     ChildNames(got.list))
    IN  IF Len(path) > MaxNamespaceDepth THEN acc
        ELSE Below(SourcesForSite(acc.e, 0, path))

RootNames == SelectSeq(NameOrder, LAMBDA n : Specced(0, <<n>>))

BuildStage ==
    LET Publish(built) == Composed(built.e) /\ stage' = built.prims
    IN  /\ Publish(FoldLeft(LAMBDA a, n : Walk(a, <<n>>),
                            [e |-> Begin(rules, cache, deferred), prims |-> {}],
                            RootNames))
        /\ UNCHANGED <<scene, rules, index, edited>>

\* Mutant: only the prim itself is dropped.
InvalidatedAlone(base) ==
    [index |-> Keep(index, DOMAIN index \ {base}),
     cache |-> Keep(cache, {k \in DOMAIN cache : k[1] = 0 /\ k[2] # base}),
     deferred |-> deferred \ {base}]
\* Invalidate_locked: the indices at or under the path, and those made from
\* a spec there; the sources of these prims, and all of other stacks.
Invalidated(base) ==
    LET dropped == {p \in DOMAIN index :
                       \/ AtOrUnder(p, base)
                       \/ \E i \in DOMAIN index[p] :
                             HasSpec(index[p][i]) /\ AtOrUnder(index[p][i].site, base)}
    IN  [index |-> Keep(index, DOMAIN index \ dropped),
         cache |-> Keep(cache, {k \in DOMAIN cache :
                       k[1] = 0 /\ ~AtOrUnder(k[2], base) /\ k[2] \notin dropped}),
         deferred |-> {p \in deferred : ~AtOrUnder(p, base)}]

InBounds(r) == Cardinality(DOMAIN r) <= MaxRules(scene)

\* LoadPayload and UnloadPayload: a new rule, and the prim composed anew.
EditPayload(path, rule) ==
    LET r == ReplaceSubtree(rules, path, rule)
        kept == Invalidated(path)
    IN  /\ rules' = r
        /\ InBounds(r)
        /\ Become(Compute(r, kept.cache, kept.index, kept.deferred, path))
        /\ edited' = TRUE
        /\ stage' = {}
        /\ UNCHANGED scene
LoadPayload(path) == \E rule \in {"All", "Only"} : EditPayload(path, rule)
UnloadPayload(path) == EditPayload(path, "None")

\* LoadPayloads: rules for several prims, and one invalidation at their common
\* ancestor; prims with none but the pseudo-root leave nothing to invalidate.
LoadPayloads(p, q) ==
    LET common == LongestCommonPrefix({p, q})
    IN  /\ \E rule \in {"All", "Only"} :
               rules' = ReplaceSubtree(ReplaceSubtree(rules, p, rule), q, rule)
        /\ InBounds(rules')
        /\ Become(IF common = <<>>
                  THEN [cache |-> cache, index |-> index, deferred |-> deferred]
                  ELSE Invalidated(common))
        /\ edited' = TRUE
        /\ stage' = {}
        /\ UNCHANGED scene

\* SetLoadRules: other rules drop everything.
SetLoadRules(r) ==
    /\ r # rules /\ InBounds(r)
    /\ rules' = r
    /\ Become([cache |-> Empty, index |-> Empty, deferred |-> {}])
    /\ edited' = FALSE
    /\ stage' = {}
    /\ UNCHANGED scene

\* TrimTransientCaches: the deferred payloads stay.
TrimTransientCaches ==
    /\ Become([cache |-> Empty, index |-> Empty, deferred |-> deferred])
    /\ edited' = FALSE
    /\ UNCHANGED <<scene, rules, stage>>

Next ==
    \/ \E p \in Paths : ComputePrimIndex(p) \/ ComposePrim(p)
    \/ \E p \in Paths : LoadPayload(p) \/ UnloadPayload(p)
    \/ \E p, q \in Paths : LoadPayloads(p, q)
    \/ \E r \in RuleSets : SetLoadRules(r)
    \/ BuildStage
    \/ TrimTransientCaches

Spec == Init /\ [][Next]_vars

---------------------------------------------------------------------------
(***************************************************************************)
(* Properties.                                                             *)
(***************************************************************************)

\* The mapping of every source, composed over all arcs it came through,
\* takes its site to the prim it contributes to (Src::map_idx).
SourcesMapHome ==
    \A k \in DOMAIN cache : \A i \in DOMAIN cache[k] :
        Apply(cache[k][i].map, cache[k][i].site) = k[2]

\* Two opinions that a prim gets from its parent have the parent's strength
\* order, although the child's list is gathered anew and moved about
\* (ExpandList).  Only where nothing but specialized classes follows a
\* specialized class: what a class itself references is routed by its own
\* kind on the children and overtakes the class there.
SpecializedLast(list) ==
    \A i, j \in DOMAIN list :
        i < j /\ list[i].kind = "Specialize" => list[j].kind = "Specialize"
ChildKeepsParentOrder ==
    ~edited => \A k \in DOMAIN cache :
        Len(k[2]) > 1 /\ <<k[1], Parent(k[2])>> \in DOMAIN cache =>
            LET above == cache[<<k[1], Parent(k[2])>>]
                base == DeriveChildSources(above, Last(k[2]))
            IN  SpecializedLast(above) =>
                    SelectSeq(cache[k], LAMBDA s : s \in ToSet(base)) = base

\* What an outer layer stack says of a class is stronger than what the stack
\* that inherits from it says there, also on the children of referenced prims
\* (implied classes, ImplyInChain).
ImpliedClassIsStronger ==
    \A k \in DOMAIN cache : \A j \in DOMAIN cache[k] :
        LET t == cache[k][j]
            outer == {i \in DOMAIN cache[k] :
                         LET s == cache[k][i]
                         IN  /\ s.site = t.site /\ s.stack < t.stack
                             /\ ClassBased(s.kind)}
        IN  ClassBased(t.kind) /\ outer # {} => \E i \in outer : i < j

\* Arcs that lead back to the prims they are reached from never make the
\* namespace grow to the backstop (IsCycle, the trail of arc sites).
NamespaceIsFinite == \A p \in stage : Len(p) < MaxNamespaceDepth

\* No prim of a built stage with a payload that is left out goes unmarked; and a
\* mark is never left from rules that are gone: the prim is not to be loaded, and
\* it has a payload, or a prim of that path in another stack has, for the
\* expansion of other stacks' lists writes the same set, and the marks do not
\* tell their namespaces apart (deferred_payload_prims, HasDeferredPayload).
HasPayload(s) == HasSpec(s) /\ scene[<<s.stack, s.site>>].payloads # <<>>
BringsPayload(list) == \E i \in DOMAIN list : HasPayload(list[i])
DeferralsExplained ==
    ~edited => \A p \in {q \in stage : <<0, q>> \in DOMAIN cache} :
        LET loads == ShouldLoadPayload([rules |-> rules], p)
        IN  /\ BringsPayload(cache[<<0, p>>]) /\ ~loads => p \in deferred
            /\ p \in deferred =>
                   ~loads /\ \E s \in Stacks : BringsPayload(Fresh(rules, s, p))

\* Once the payloads of a root prim were loaded or unloaded, alone or with
\* those of prims under it, no index there is left from the rules before,
\* whatever of other prims stays in the cache (Invalidate_locked).
RuledPrimsAreFresh ==
    \A p \in {q \in DOMAIN rules : Len(q) = 1} : \A x \in DOMAIN index :
        AtOrUnder(x, p) => index[x] = Fresh(rules, 0, x)

\* When the payloads of two prims are loaded in one call, the indices of both
\* are what the new rules compose: "Apply several payload load rules at once
\* and invalidate their common affected subtree" (cache.hh).  It fails when the
\* pseudo-root is all they share.
LoadedPrimsRecomposed ==
    [][\A p, q \in Paths : LoadPayloads(p, q) =>
          \A x \in {p, q} \cap DOMAIN index' : index'[x] = Fresh(rules', 0, x)]_vars

===========================================================================
