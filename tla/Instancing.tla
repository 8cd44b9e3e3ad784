----------------------------- MODULE Instancing -----------------------------
(***************************************************************************)
(* The prototype bookkeeping of pcp::Cache (src/next/pcp/cache.cc and the  *)
(* cache-*.inc files it includes): which instanceable prims share a        *)
(* prototype, kept in four maps next to the cache of prim indices.         *)
(*                                                                         *)
(* Every entry point holds api_mu_, so calls do not interleave, with one   *)
(* exception: PrewarmPrimIndices releases it while its workers build.  A   *)
(* call that loops over prims is a sequence of steps under the lock, one   *)
(* per prim, so that what each iteration leaves behind is checked too.     *)
(***************************************************************************)
EXTENDS Naturals, Sequences, FiniteSets, Subsequence

CONSTANTS Prims,           \* prim paths; < is their lexicographic order
          Keys,            \* instance keys (ComputeInstanceKeyImpl)
          NoKey,           \* the key of a prim that is not instanceable
          None,            \* absent from a map
          Subtrees,        \* what one invalidation may cover: the prims at or
                           \* under a path and those that read a site there
          NamespaceOrder,  \* the order in which BuildStage visits the prims
          PrewarmPaths,    \* arguments of PrewarmPrimIndices
          MaxOrder         \* bound: keys listed when the caches are trimmed

ASSUME PrimsAssumption == Prims \subseteq Nat /\ None \notin Prims
ASSUME KeysAssumption  == NoKey \notin Keys
ASSUME InputsAssumption ==
  /\ Subtrees \subseteq SUBSET Prims
  /\ NamespaceOrder \in Seq(Prims)
  /\ PrewarmPaths \subseteq Seq(Prims)
  /\ MaxOrder \in Nat
\* BuildStage visits every prim, once.
ASSUME NamespaceOrderAssumption ==
  /\ \A p \in Prims : \E i \in DOMAIN NamespaceOrder : NamespaceOrder[i] = p
  /\ \A i, j \in DOMAIN NamespaceOrder : NamespaceOrder[i] = NamespaceOrder[j] => i = j

VARIABLES key,    \* key[p]: the instance key of the sources p has now
          index,  \* the prims with an entry in index_cache
          prototype_by_key, prototype_of, instances_by_prototype, instance_key_order,
          op,     \* the call that holds api_mu_: what it does, the indices it
                  \* has left to drop or the prims it has left to register,
                  \* and the prim it recomposes last (or None)
          warm    \* PrewarmPrimIndices after it released api_mu_: its paths
                  \* and the keys its workers see

maps == <<prototype_by_key, prototype_of, instances_by_prototype, instance_key_order>>
vars == <<key, index, maps, op, warm>>

PrimOrNone == Prims \cup {None}
SomeKey    == Keys \cup {NoKey}

\* A vector of instances_by_prototype is only ever searched, appended to and
\* purged of a prim, so it is kept as a bag: how often it holds each prim.  An
\* absent entry is the empty bag; the code erases a vector that gets empty.
Bag      == [Prims -> Nat]
EmptyBag == [p \in Prims |-> 0]

TypeOK ==
  /\ key \in [Prims -> SomeKey]
  /\ index \subseteq Prims
  /\ prototype_by_key \in [Keys -> PrimOrNone]
  /\ prototype_of \in [Prims -> PrimOrNone]
  /\ instances_by_prototype \in [Prims -> Bag]
  /\ instance_key_order \in Seq(Keys)
  /\ op \in [kind : {"idle", "drop", "walk", "merge"}, drops : SUBSET Prims,
            todo : Seq(Prims), then : PrimOrNone]
  /\ warm \in [busy : BOOLEAN, paths : Seq(Prims), key : [Prims -> SomeKey]]

Idle == [kind |-> "idle", drops |-> {}, todo |-> << >>, then |-> None]
Cold == [busy |-> FALSE, paths |-> << >>, key |-> [p \in Prims |-> NoKey]]

Members(q) == {p \in Prims : instances_by_prototype[q][p] > 0}
Groups     == {q \in Prims : Members(q) # {}}

(***************************************************************************)
(* The operations on the four maps.                                        *)
(***************************************************************************)
\* push_back on the vector of q.
Push(p, q) == [instances_by_prototype EXCEPT ![q][p] = @ + 1]

\* Mutant: lists the prim where its key belongs.
SeedListsPath(p, k) == /\ prototype_by_key' = [prototype_by_key EXCEPT ![k] = p]
                       /\ prototype_of' = [prototype_of EXCEPT ![p] = p]
                       /\ instances_by_prototype' = Push(p, p)
                       /\ instance_key_order' = Append(instance_key_order, p)
\* The first prim of its key.
Seed(p, k) == /\ prototype_by_key' = [prototype_by_key EXCEPT ![k] = p]
              /\ prototype_of' = [prototype_of EXCEPT ![p] = p]
              /\ instances_by_prototype' = Push(p, p)
              /\ instance_key_order' = Append(instance_key_order, k)

\* One more instance of prototype q.
Join(p, q) == /\ prototype_of' = [prototype_of EXCEPT ![p] = q]
              /\ instances_by_prototype' = Push(p, q)
              /\ UNCHANGED <<prototype_by_key, instance_key_order>>

\* A smaller path takes the whole group of q over, with p added if need be.
Demote(p, k, q) ==
  LET group == IF prototype_of[p] = q THEN instances_by_prototype[q] ELSE Push(p, q)[q]
  IN /\ prototype_by_key' = [prototype_by_key EXCEPT ![k] = p]
     /\ prototype_of' = [x \in Prims |-> IF group[x] > 0 THEN p ELSE prototype_of[x]]
     /\ instances_by_prototype' = [instances_by_prototype EXCEPT ![q] = EmptyBag, ![p] = group]
     /\ UNCHANGED instance_key_order

AssignPrototype(p, k, preferMin) ==
  LET q        == prototype_by_key[k]
      smaller  == preferMin /\ p < q
      in_group == prototype_of[p] = q
  IN \/ q = None /\ Seed(p, k)
     \/ q \notin {None, p} /\ smaller /\ Demote(p, k, q)
     \/ q \notin {None, p} /\ ~smaller /\ ~in_group /\ Join(p, q)
     \/ (q = p \/ (q # None /\ ~smaller /\ in_group)) /\ UNCHANGED maps

\* RegisterInstance, with detect_instances on.
RegisterInstance(p, k, preferMin) ==
  IF k = NoKey THEN UNCHANGED maps ELSE AssignPrototype(p, k, preferMin)

\* The groups of G that p's departure dissolves: its own, and those it leaves
\* empty.  Their members are orphaned and their keys retired.
Dissolved(p, G) == {q \in G : q = p \/ Members(q) \subseteq {p}}
\* Mutant: a dissolved group keeps its members.
OrphansOfNone(p, D) == {p}
Orphans(p, D) == {x \in Prims : x = p \/ \E q \in D : x \in Members(q)}
\* Mutant: a dissolved group keeps its key.
RetiredOfNone(D) == {}
Retired(D) == {k \in Keys : prototype_by_key[k] \in D}
\* Mutant: the retired keys stay listed.
UnlistNothing(D) == instance_key_order
Unlist(D) == Kept(instance_key_order, Keys \ Retired(D))

\* p leaves every group of G.
LeaveGroups(p, G) ==
  LET D == Dissolved(p, G)
  IN /\ prototype_by_key' = [k \in Keys |-> IF k \in Retired(D) THEN None ELSE prototype_by_key[k]]
     /\ prototype_of' = [x \in Prims |-> IF x \in Orphans(p, D) THEN None ELSE prototype_of[x]]
     /\ instances_by_prototype' =
          [q \in Prims |-> IF q \in D THEN EmptyBag
                           ELSE IF q \in G THEN [instances_by_prototype[q] EXCEPT ![p] = 0]
                           ELSE instances_by_prototype[q]]
     /\ instance_key_order' = Unlist(D)

\* The groups DropInstancing visits: those of p's prototype and of p itself,
\* or every group when the maps know nothing of p.
Visited(p) == IF prototype_of[p] # None \/ p \in Groups
              THEN {prototype_of[p], p} \cap Groups ELSE Groups

\* Mutant: forgets the groups of a dropped index.
DropInstancingNever(p) == UNCHANGED maps
DropInstancing(p) == LeaveGroups(p, Visited(p))

ClearGroups == /\ prototype_by_key' = [k \in Keys |-> None]
               /\ prototype_of' = [p \in Prims |-> None]
               /\ instances_by_prototype' = [p \in Prims |-> EmptyBag]

(***************************************************************************)
(* The calls.                                                              *)
(***************************************************************************)
Init == /\ key \in [Prims -> SomeKey]
        /\ index = {}
        /\ prototype_by_key = [k \in Keys |-> None]
        /\ prototype_of = [p \in Prims |-> None]
        /\ instances_by_prototype = [p \in Prims |-> EmptyBag]
        /\ instance_key_order = << >>
        /\ op = Idle
        /\ warm = Cold

\* Mutant: the first prim indexed leads its group.
ComputeIndexFirstWins(p) ==
  /\ index' = index \cup {p}
  /\ IF p \in index THEN UNCHANGED maps ELSE RegisterInstance(p, key[p], FALSE)
\* ComputePrimIndex_locked on a miss; a hit changes nothing.
ComputeIndex(p) ==
  /\ index' = index \cup {p}
  /\ IF p \in index THEN UNCHANGED maps ELSE RegisterInstance(p, key[p], TRUE)

ComputePrimIndex(p) == /\ op = Idle
                       /\ p \notin index
                       /\ ComputeIndex(p)
                       /\ UNCHANGED <<key, op, warm>>

\* Only prims of S change their sources: that is what S covers.
Edited(S) == {k \in [Prims -> SomeKey] : \A p \in Prims \ S : k[p] = key[p]}

StartDrop(S, then) == /\ op = Idle
                      /\ key' \in Edited(S)
                      /\ op' = [kind |-> "drop", drops |-> S \cap index, todo |-> << >>, then |-> then]
                      /\ UNCHANGED <<index, maps, warm>>

\* Invalidate, InvalidateLayer, SetVariantSelections, LoadPayloads.
Invalidate(S) == StartDrop(S, None)
\* LoadPayload and UnloadPayload: invalidate, then recompose the prim.
LoadPayload(S, p) == p \in S /\ StartDrop(S, p)

\* The indices to drop are a std::set: the least first.
DropIndex == /\ op.kind = "drop"
             /\ \E p \in op.drops : /\ \A r \in op.drops : p <= r
                                    /\ index' = index \ {p}
                                    /\ DropInstancing(p)
                                    /\ op' = [op EXCEPT !.drops = @ \ {p}]
             /\ UNCHANGED <<key, warm>>

EndDrop == /\ op.kind = "drop" /\ op.drops = {}
           /\ \/ op.then = None /\ UNCHANGED <<index, maps>>
              \/ op.then # None /\ ComputeIndex(op.then)
           /\ op' = Idle
           /\ UNCHANGED <<key, warm>>

\* SetLoadRules, and ReloadLayer when the layer parses.
ClearAll == /\ op = Idle
            /\ key' \in [Prims -> SomeKey]
            /\ index' = {} /\ ClearGroups /\ instance_key_order' = << >>
            /\ UNCHANGED <<op, warm>>

\* TrimTransientCaches clears three of the four maps.
Trim == /\ op = Idle
        /\ Len(instance_key_order) <= MaxOrder
        /\ index' = {} /\ ClearGroups
        /\ UNCHANGED <<key, instance_key_order, op, warm>>

\* Mutant: does not reset the maps.
BuildStageKeepsGroups == /\ op = Idle
                         /\ op' = [kind |-> "walk", drops |-> {}, todo |-> NamespaceOrder, then |-> None]
                         /\ UNCHANGED <<key, index, maps, warm>>
\* BuildStage resets the maps, then registers each prim it visits; it reads
\* and writes no index.
BuildStage == /\ op = Idle
              /\ ClearGroups /\ instance_key_order' = << >>
              /\ op' = [kind |-> "walk", drops |-> {}, todo |-> NamespaceOrder, then |-> None]
              /\ UNCHANGED <<key, index, warm>>

Visit == /\ op.kind = "walk" /\ op.todo # << >>
         /\ RegisterInstance(Head(op.todo), key[Head(op.todo)], FALSE)
         /\ op' = [op EXCEPT !.todo = Tail(@)]
         /\ UNCHANGED <<key, index, warm>>

EndWalk == /\ op.kind = "walk" /\ op.todo = << >>
           /\ op' = Idle
           /\ UNCHANGED <<key, index, maps, warm>>

\* PrewarmPrimIndices hands its workers the options, load rules and root
\* layer of this moment, and releases api_mu_ while they build.
PrewarmBegin(paths) == /\ op = Idle /\ ~warm.busy
                       /\ warm' = [busy |-> TRUE, paths |-> paths, key |-> key]
                       /\ UNCHANGED <<key, index, maps, op>>

PrewarmRelock == /\ op = Idle /\ warm.busy
                 /\ op' = [kind |-> "merge", drops |-> {}, todo |-> warm.paths, then |-> None]
                 /\ UNCHANGED <<key, index, maps, warm>>

MergeWorkerIndex == /\ op.kind = "merge" /\ op.todo # << >>
                    /\ LET p == Head(op.todo)
                       IN /\ index' = index \cup {p}
                          /\ IF p \in index THEN UNCHANGED maps ELSE RegisterInstance(p, warm.key[p], TRUE)
                    /\ op' = [op EXCEPT !.todo = Tail(@)]
                    /\ UNCHANGED <<key, warm>>

EndMerge == /\ op.kind = "merge" /\ op.todo = << >>
            /\ op' = Idle /\ warm' = Cold
            /\ UNCHANGED <<key, index, maps>>

(***************************************************************************)
(* Three next-state relations: the per-prim interface, as a sequential     *)
(* caller uses it; the same with calls that edit while a prewarm builds;   *)
(* and the whole interface.                                                *)
(***************************************************************************)
Query == \E p \in Prims : ComputePrimIndex(p)
Edit  == \/ \E S \in Subtrees : Invalidate(S) \/ \E p \in Prims : LoadPayload(S, p)
         \/ ClearAll
Locked  == DropIndex \/ EndDrop \/ Visit \/ EndWalk \/ MergeWorkerIndex \/ EndMerge
Prewarm == PrewarmRelock \/ \E paths \in PrewarmPaths : PrewarmBegin(paths)

IndexNext  == Query \/ Edit \/ Prewarm \/ DropIndex \/ EndDrop \/ MergeWorkerIndex \/ EndMerge
SerialNext == Query \/ (~warm.busy /\ Edit) \/ Prewarm \/ DropIndex \/ EndDrop \/ MergeWorkerIndex \/ EndMerge
Next       == Query \/ Edit \/ Prewarm \/ Locked \/ BuildStage \/ Trim

SerialSpec == Init /\ [][SerialNext]_vars
IndexSpec  == Init /\ [][IndexNext]_vars
Spec       == Init /\ [][Next]_vars

(***************************************************************************)
(* Properties.                                                             *)
(***************************************************************************)
\* The invariant that AssignPrototype's membership test rests on: the
\* vectors of instances_by_prototype and the reverse index prototype_of say
\* the same, and no vector holds a prim twice.
MembershipAgrees ==
  \A p, q \in Prims : instances_by_prototype[q][p] = IF prototype_of[p] = q THEN 1 ELSE 0

\* Each group serves exactly one instance key and its prototype belongs to it.
OneKeyPerGroup ==
  /\ \A q \in Groups : prototype_of[q] = q /\ \E k \in Keys : prototype_by_key[k] = q
  /\ \A k \in Keys : prototype_by_key[k] # None =>
       /\ prototype_by_key[k] \in Groups
       /\ \A l \in Keys : prototype_by_key[l] = prototype_by_key[k] => l = k

\* instance_key_order lists the keys of prototype_by_key, each once.
OrderMirrorsKeys ==
  /\ {instance_key_order[i] : i \in DOMAIN instance_key_order} = {k \in Keys : prototype_by_key[k] # None}
  /\ \A i, j \in DOMAIN instance_key_order : instance_key_order[i] = instance_key_order[j] => i = j

\* Whatever the order in which the prims were indexed, invalidated and merged,
\* the prototype of a group is its least path.
PrototypeIsLeast == \A p \in Prims : prototype_of[p] # None => prototype_of[p] <= p

\* Only an indexed prim is in a group: nothing is reported as an instance or
\* a prototype after its index was dropped.
GroupedOnlyIfIndexed == \A p \in Prims : prototype_of[p] # None => p \in index

\* Between calls, a prim is grouped by the sources it has now.
GroupedByCurrentKey ==
  op = Idle => \A p \in Prims : prototype_of[p] # None =>
                 key[p] # NoKey /\ prototype_by_key[key[p]] = prototype_of[p]

\* The groups a serial walk makes from nothing: those of equal keys, with the
\* first prim visited as prototype, and the keys in the order of discovery.
FirstOf(k) == LET at == {i \in DOMAIN NamespaceOrder : key[NamespaceOrder[i]] = k}
              IN IF at = {} THEN None
                 ELSE NamespaceOrder[CHOOSE i \in at : \A j \in at : i <= j]
Position(p) == CHOOSE i \in DOMAIN NamespaceOrder : NamespaceOrder[i] = p
StageGroups ==
  /\ \A k \in Keys : prototype_by_key[k] = FirstOf(k)
  /\ \A p \in Prims : prototype_of[p] = IF key[p] = NoKey THEN None ELSE FirstOf(key[p])
  /\ MembershipAgrees
  /\ OrderMirrorsKeys
  /\ \A i, j \in DOMAIN instance_key_order :
       i < j => Position(FirstOf(instance_key_order[i])) < Position(FirstOf(instance_key_order[j]))

\* Whatever calls came before, BuildStage leaves exactly the groups of the
\* scene as it is now.
BuildStageIsExact == [][op.kind = "walk" /\ op' = Idle => StageGroups']_vars
=============================================================================
