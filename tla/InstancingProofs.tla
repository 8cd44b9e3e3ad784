-------------------------- MODULE InstancingProofs --------------------------
(***************************************************************************)
(* Proofs about the prototype groups of module Instancing, for any set of  *)
(* prims and keys.  GroupsOK is what every operation on the maps preserves *)
(* when the prim it registers is in no group; that no such prim is in one  *)
(* follows from GroupedOnlyIfIndexed, so the two are proved together.      *)
(***************************************************************************)
EXTENDS Instancing, TLAPS

Lists == INSTANCE PathProofs

MapsOK == /\ prototype_by_key \in [Keys -> PrimOrNone]
          /\ prototype_of \in [Prims -> PrimOrNone]
          /\ instances_by_prototype \in [Prims -> Bag]

Call   == [kind : {"idle", "drop", "merge"}, drops : SUBSET Prims,
           todo : Seq(Prims), then : PrimOrNone]
WarmUp == [busy : BOOLEAN, paths : Seq(Prims), key : [Prims -> SomeKey]]

CallsOK == /\ key \in [Prims -> SomeKey]
           /\ index \subseteq Prims
           /\ op \in Call
           /\ warm \in WarmUp

GroupsOK == MapsOK /\ MembershipAgrees /\ OneKeyPerGroup /\ PrototypeIsLeast

IInv == CallsOK /\ GroupsOK /\ GroupedOnlyIfIndexed

-----------------------------------------------------------------------------
\* No call in progress, no prewarm.
LEMMA IdleIsACall == Idle \in Call /\ Cold \in WarmUp
<1>1. << >> \in Seq(Prims)
  OBVIOUS
<1>2. Idle \in Call
  BY <1>1 DEF Idle, Call, PrimOrNone
<1>3. Cold \in WarmUp
  BY <1>1 DEF Cold, WarmUp, SomeKey
<1> QED BY <1>2, <1>3

\* In a consistent state a group is what the reverse index says it is.
LEMMA MembersByIndex ==
  ASSUME MapsOK, MembershipAgrees, NEW q \in Prims
  PROVE  Members(q) = {p \in Prims : prototype_of[p] = q}
BY DEF Members, MembershipAgrees

\* A prim without a prototype is in no group, and leads none.
LEMMA UngroupedPrim ==
  ASSUME GroupsOK, NEW p \in Prims, prototype_of[p] = None
  PROVE  /\ \A q \in Prims : instances_by_prototype[q][p] = 0
         /\ p \notin Groups
         /\ \A x \in Prims : prototype_of[x] # p /\ instances_by_prototype[p][x] = 0
         /\ \A k \in Keys : prototype_by_key[k] # p
<1>1. \A q \in Prims : instances_by_prototype[q][p] = 0
  BY PrimsAssumption DEF GroupsOK, MembershipAgrees
<1>2. p \notin Groups
  BY PrimsAssumption DEF GroupsOK, OneKeyPerGroup
<1>3. Members(p) = {}
  BY <1>2 DEF Groups
<1>4. \A x \in Prims : prototype_of[x] # p
  BY <1>3, MembersByIndex DEF GroupsOK
<1>5. \A x \in Prims : instances_by_prototype[p][x] = 0
  BY <1>4 DEF GroupsOK, MembershipAgrees
<1>6. \A k \in Keys : prototype_by_key[k] # p
  BY <1>2, PrimsAssumption DEF GroupsOK, OneKeyPerGroup
<1> QED BY <1>1, <1>2, <1>4, <1>5, <1>6

\* The prototype of a grouped prim leads its own group.
LEMMA PrototypeLeads ==
  ASSUME GroupsOK, NEW p \in Prims, prototype_of[p] # None
  PROVE  /\ prototype_of[p] \in Groups
         /\ prototype_of[prototype_of[p]] = prototype_of[p]
<1>1. prototype_of[p] \in Prims
  BY DEF GroupsOK, MapsOK, PrimOrNone
<1>2. p \in Members(prototype_of[p])
  BY <1>1, MembersByIndex DEF GroupsOK
<1> QED BY <1>1, <1>2 DEF Groups, GroupsOK, OneKeyPerGroup

-----------------------------------------------------------------------------
\* The first prim of a key starts a group of its own.
LEMMA SeedKeepsGroups ==
  ASSUME GroupsOK, NEW p \in Prims, prototype_of[p] = None,
         NEW k \in Keys, prototype_by_key[k] = None, Seed(p, k)
  PROVE  GroupsOK' /\ \A x \in Prims : prototype_of'[x] # None => x = p \/ prototype_of[x] # None
<1> USE PrimsAssumption
<1>1. MapsOK'
  BY DEF GroupsOK, MapsOK, Seed, Push, Bag, PrimOrNone
<1>2. prototype_of' = [prototype_of EXCEPT ![p] = p]
  BY DEF Seed
<1>3. prototype_by_key' = [prototype_by_key EXCEPT ![k] = p]
  BY DEF Seed
<1>4. ASSUME NEW x \in Prims, NEW q \in Prims
      PROVE  instances_by_prototype'[q][x] = IF q = p /\ x = p THEN 1 ELSE instances_by_prototype[q][x]
  <2>1. instances_by_prototype' = [instances_by_prototype EXCEPT ![p][p] = @ + 1]
    BY DEF Seed, Push
  <2>2. instances_by_prototype[p][p] = 0
    BY UngroupedPrim
  <2>3. instances_by_prototype \in [Prims -> [Prims -> Nat]]
    BY DEF GroupsOK, MapsOK, Bag
  <2> QED BY <2>1, <2>2, <2>3
<1>5. MembershipAgrees'
  BY <1>2, <1>4, UngroupedPrim DEF MembershipAgrees, GroupsOK, MapsOK
<1>6. ASSUME NEW q \in Prims PROVE q \in Groups' <=> q = p \/ q \in Groups
  <2>1. CASE q = p
    BY <1>4, <2>1 DEF Groups, Members
  <2>2. CASE q # p
    <3>1. Members(q)' = Members(q)
      BY <1>4, <2>2 DEF Members
    <3> QED BY <2>2, <3>1 DEF Groups
  <2> QED BY <2>1, <2>2
<1>7. OneKeyPerGroup'
  <2>1. ASSUME NEW q \in Groups'
        PROVE  prototype_of'[q] = q /\ \E l \in Keys : prototype_by_key'[l] = q
    <3>1. q \in Prims /\ (q = p \/ q \in Groups)
      BY <1>6 DEF Groups
    <3>2. CASE q = p
      BY <1>2, <1>3, <3>2 DEF GroupsOK, MapsOK
    <3>3. CASE q \in Groups
      <4>1. q # p
        BY <3>3, UngroupedPrim
      <4>2. prototype_of[q] = q
        BY <3>3 DEF GroupsOK, OneKeyPerGroup
      <4>3. PICK l \in Keys : prototype_by_key[l] = q
        BY <3>3 DEF GroupsOK, OneKeyPerGroup
      <4>4. l # k
        BY <3>1, <4>3
      <4> QED BY <1>2, <1>3, <4>1, <4>2, <4>3, <4>4 DEF GroupsOK, MapsOK
    <3> QED BY <3>1, <3>2, <3>3
  <2>2. ASSUME NEW l \in Keys, prototype_by_key'[l] # None
        PROVE  /\ prototype_by_key'[l] \in Groups'
               /\ \A m \in Keys : prototype_by_key'[m] = prototype_by_key'[l] => m = l
    <3>1. CASE l = k
      BY <1>3, <1>6, <3>1, UngroupedPrim DEF GroupsOK, MapsOK
    <3>2. CASE l # k
      <4>1. prototype_by_key'[l] = prototype_by_key[l]
        BY <1>3, <3>2 DEF GroupsOK, MapsOK
      <4>2. prototype_by_key[l] \in Groups /\ prototype_by_key[l] # p
        BY <2>2, <4>1, UngroupedPrim DEF GroupsOK, OneKeyPerGroup
      <4>3. \A m \in Keys : prototype_by_key[m] = prototype_by_key[l] => m = l
        BY <2>2, <4>1 DEF GroupsOK, OneKeyPerGroup
      <4> QED BY <1>3, <1>6, <3>2, <4>1, <4>2, <4>3 DEF GroupsOK, MapsOK, Groups
    <3> QED BY <3>1, <3>2
  <2> QED BY <2>1, <2>2 DEF OneKeyPerGroup
<1>8. PrototypeIsLeast'
  BY <1>2 DEF PrototypeIsLeast, GroupsOK, MapsOK
<1>9. \A x \in Prims : prototype_of'[x] # None => x = p \/ prototype_of[x] # None
  BY <1>2 DEF GroupsOK, MapsOK
<1> QED BY <1>1, <1>5, <1>7, <1>8, <1>9 DEF GroupsOK

\* A later prim joins the group of its key.
LEMMA JoinKeepsGroups ==
  ASSUME GroupsOK, NEW p \in Prims, prototype_of[p] = None,
         NEW k \in Keys, NEW q \in Prims, prototype_by_key[k] = q, ~(p < q), Join(p, q)
  PROVE  GroupsOK' /\ \A x \in Prims : prototype_of'[x] # None => x = p \/ prototype_of[x] # None
<1> USE PrimsAssumption
<1>1. MapsOK'
  BY DEF GroupsOK, MapsOK, Join, Push, Bag, PrimOrNone
<1>2. prototype_of' = [prototype_of EXCEPT ![p] = q] /\ prototype_by_key' = prototype_by_key
  BY DEF Join
<1>3. ASSUME NEW x \in Prims, NEW r \in Prims
      PROVE  instances_by_prototype'[r][x] = IF r = q /\ x = p THEN 1 ELSE instances_by_prototype[r][x]
  BY UngroupedPrim DEF Join, Push, GroupsOK, MapsOK, Bag
<1>4. q \in Groups /\ prototype_of[q] = q /\ q # p
  BY DEF GroupsOK, OneKeyPerGroup
<1>5. MembershipAgrees'
  BY <1>2, <1>3, UngroupedPrim DEF MembershipAgrees, GroupsOK, MapsOK
<1>6. Groups' = Groups
  <2>1. ASSUME NEW r \in Prims PROVE Members(r)' = IF r = q THEN Members(q) \cup {p} ELSE Members(r)
    <3>1. CASE r = q
      <4>1. \A x \in Prims : instances_by_prototype'[q][x] > 0 <=> x = p \/ instances_by_prototype[q][x] > 0
        BY <1>3
      <4> QED BY <3>1, <4>1 DEF Members
    <3>2. CASE r # q
      <4>1. \A x \in Prims : instances_by_prototype'[r][x] = instances_by_prototype[r][x]
        BY <1>3, <3>2
      <4> QED BY <3>2, <4>1 DEF Members
    <3> QED BY <3>1, <3>2
  <2>2. Groups \subseteq Prims /\ Members(q) # {}
    BY <1>4 DEF Groups
  <2> QED BY <2>1, <2>2 DEF Groups
<1>7. OneKeyPerGroup'
  <2>1. ASSUME NEW r \in Groups PROVE prototype_of'[r] = r
    BY <1>2, <2>1, UngroupedPrim DEF OneKeyPerGroup, GroupsOK, MapsOK, Groups
  <2> QED BY <1>2, <1>6, <2>1 DEF OneKeyPerGroup, GroupsOK
<1>8. PrototypeIsLeast'
  BY <1>2 DEF PrototypeIsLeast, GroupsOK, MapsOK
<1>9. \A x \in Prims : prototype_of'[x] # None => x = p \/ prototype_of[x] # None
  BY <1>2 DEF GroupsOK, MapsOK
<1> QED BY <1>1, <1>5, <1>7, <1>8, <1>9 DEF GroupsOK

\* A smaller path takes the group over, members and key.
LEMMA DemoteKeepsGroups ==
  ASSUME GroupsOK, NEW p \in Prims, prototype_of[p] = None,
         NEW k \in Keys, NEW q \in Prims, prototype_by_key[k] = q, p < q, Demote(p, k, q)
  PROVE  GroupsOK' /\ \A x \in Prims : prototype_of'[x] # None => x = p \/ prototype_of[x] # None
<1> USE PrimsAssumption
<1> DEFINE group == IF prototype_of[p] = q THEN instances_by_prototype[q] ELSE Push(p, q)[q]
<1>1. group \in Bag /\ \A x \in Prims : group[x] = IF x = p \/ prototype_of[x] = q THEN 1 ELSE 0
  BY UngroupedPrim DEF Push, GroupsOK, MapsOK, Bag, MembershipAgrees
<1>2. /\ prototype_by_key' = [prototype_by_key EXCEPT ![k] = p]
      /\ prototype_of' = [x \in Prims |-> IF group[x] > 0 THEN p ELSE prototype_of[x]]
      /\ instances_by_prototype' = [instances_by_prototype EXCEPT ![q] = EmptyBag, ![p] = group]
  BY DEF Demote
<1> HIDE DEF group
<1>3. p # q /\ q \in Groups /\ prototype_of[q] = q
  BY DEF GroupsOK, OneKeyPerGroup
<1>4. MapsOK'
  BY <1>1, <1>2 DEF GroupsOK, MapsOK, Bag, EmptyBag, PrimOrNone
<1>5. ASSUME NEW x \in Prims
      PROVE  prototype_of'[x] = IF x = p \/ prototype_of[x] = q THEN p ELSE prototype_of[x]
  BY <1>1, <1>2
<1>6. ASSUME NEW x \in Prims, NEW r \in Prims
      PROVE  instances_by_prototype'[r][x] =
               IF r = p THEN IF x = p \/ prototype_of[x] = q THEN 1 ELSE 0
               ELSE IF r = q THEN 0 ELSE instances_by_prototype[r][x]
  BY <1>1, <1>2, <1>3 DEF GroupsOK, MapsOK, Bag, EmptyBag
<1>7. MembershipAgrees'
  BY <1>3, <1>5, <1>6, UngroupedPrim DEF MembershipAgrees, GroupsOK
<1>8. ASSUME NEW r \in Prims PROVE r \in Groups' <=> r = p \/ (r # q /\ r \in Groups)
  <2>1. CASE r = p
    <3>1. instances_by_prototype'[p][p] = 1
      BY <1>6
    <3>2. p \in Members(p)'
      BY <3>1 DEF Members
    <3> QED BY <2>1, <3>2 DEF Groups
  <2>2. CASE r = q
    <3>1. \A x \in Prims : instances_by_prototype'[q][x] = 0
      BY <1>3, <1>6
    <3>2. Members(q)' = {}
      BY <3>1 DEF Members
    <3> QED BY <2>2, <3>2 DEF Groups
  <2>3. CASE r # p /\ r # q
    <3>1. \A x \in Prims : instances_by_prototype'[r][x] = instances_by_prototype[r][x]
      BY <1>6, <2>3
    <3> QED BY <2>3, <3>1 DEF Groups, Members
  <2> QED BY <2>1, <2>2, <2>3
<1>9. OneKeyPerGroup'
  <2>1. ASSUME NEW r \in Groups'
        PROVE  prototype_of'[r] = r /\ \E l \in Keys : prototype_by_key'[l] = r
    <3>1. CASE r = p
      BY <1>2, <1>5, <3>1 DEF GroupsOK, MapsOK
    <3>2. CASE r # p
      <4>1. r \in Groups /\ r # q /\ r \in Prims
        BY <1>8, <3>2 DEF Groups
      <4>2. prototype_of[r] = r /\ \E l \in Keys : prototype_by_key[l] = r
        BY <4>1 DEF GroupsOK, OneKeyPerGroup
      <4> QED BY <1>2, <1>5, <3>2, <4>1, <4>2 DEF GroupsOK, MapsOK
    <3> QED BY <3>1, <3>2
  <2>2. ASSUME NEW l \in Keys, prototype_by_key'[l] # None
        PROVE  /\ prototype_by_key'[l] \in Groups'
               /\ \A m \in Keys : prototype_by_key'[m] = prototype_by_key'[l] => m = l
    <3>1. CASE l = k
      BY <1>2, <1>8, <2>2, <3>1, UngroupedPrim DEF GroupsOK, MapsOK
    <3>2. CASE l # k
      <4>1. prototype_by_key'[l] = prototype_by_key[l]
        BY <1>2, <3>2 DEF GroupsOK, MapsOK
      <4>2. prototype_by_key[l] \in Groups /\ prototype_by_key[l] # q /\ prototype_by_key[l] # p
        BY <2>2, <3>2, <4>1, UngroupedPrim DEF GroupsOK, OneKeyPerGroup
      <4>3. \A m \in Keys : prototype_by_key[m] = prototype_by_key[l] => m = l
        BY <2>2, <4>1 DEF GroupsOK, OneKeyPerGroup
      <4> QED BY <1>2, <1>8, <3>2, <4>1, <4>2, <4>3 DEF GroupsOK, MapsOK, Groups
    <3> QED BY <3>1, <3>2
  <2> QED BY <2>1, <2>2 DEF OneKeyPerGroup
<1>10. PrototypeIsLeast'
  BY <1>5 DEF PrototypeIsLeast, GroupsOK, MapsOK
<1>11. \A x \in Prims : prototype_of'[x] # None => x = p \/ prototype_of[x] # None
  BY <1>5
<1> QED BY <1>4, <1>7, <1>9, <1>10, <1>11 DEF GroupsOK

\* Registering an ungrouped prim, as ComputePrimIndex and the merge do.
LEMMA RegisterKeepsGroups ==
  ASSUME GroupsOK, NEW p \in Prims, prototype_of[p] = None,
         NEW k \in SomeKey, RegisterInstance(p, k, TRUE)
  PROVE  GroupsOK' /\ \A x \in Prims : prototype_of'[x] # None => x = p \/ prototype_of[x] # None
<1>1. CASE k = NoKey \/ UNCHANGED maps
  <2>1. UNCHANGED maps
    BY <1>1 DEF RegisterInstance
  <2> QED BY <2>1 DEF maps, GroupsOK, MapsOK, MembershipAgrees, OneKeyPerGroup, PrototypeIsLeast,
                      Groups, Members
<1>2. CASE k # NoKey /\ ~UNCHANGED maps
  <2> DEFINE q == prototype_by_key[k]
  <2>1. k \in Keys /\ AssignPrototype(p, k, TRUE)
    BY <1>2 DEF RegisterInstance, SomeKey
  <2>2. q \in PrimOrNone
    BY <2>1 DEF GroupsOK, MapsOK
  <2>3. \/ q = None /\ Seed(p, k)
        \/ q \in Prims /\ p < q /\ Demote(p, k, q)
        \/ q \in Prims /\ ~(p < q) /\ Join(p, q)
    BY <1>2, <2>1, <2>2 DEF AssignPrototype, PrimOrNone
  <2> HIDE DEF q
  <2>4. q = prototype_by_key[k]
    BY DEF q
  <2> QED BY <2>1, <2>3, <2>4, SeedKeepsGroups, DemoteKeepsGroups, JoinKeepsGroups
<1> QED BY <1>1, <1>2

-----------------------------------------------------------------------------
\* What a departure does in a consistent state: a prototype takes its group
\* with it, an instance leaves alone, and an ungrouped prim disturbs nothing.
LEMMA WhatIsDissolved ==
  ASSUME GroupsOK, NEW p \in Prims
  PROVE  Dissolved(p, Visited(p)) = IF prototype_of[p] = p THEN {p} ELSE {}
<1> USE PrimsAssumption
<1>1. CASE prototype_of[p] = None
  <2>1. Visited(p) = Groups /\ p \notin Groups
    BY <1>1, UngroupedPrim DEF Visited
  <2>2. \A q \in Groups : p \notin Members(q) /\ Members(q) # {} /\ q # p
    BY <1>1, <2>1, UngroupedPrim DEF Groups, Members
  <2> QED BY <1>1, <2>1, <2>2 DEF Dissolved
<1>2. CASE prototype_of[p] = p
  <2>1. Visited(p) = {p}
    BY <1>2, PrototypeLeads DEF Visited
  <2> QED BY <1>2, <2>1 DEF Dissolved
<1>3. CASE prototype_of[p] \notin {None, p}
  <2> DEFINE q == prototype_of[p]
  <2>1. q \in Groups /\ q \in Prims /\ prototype_of[q] = q
    BY <1>3, PrototypeLeads DEF Groups
  <2>2. p \notin Groups
    BY <1>3 DEF GroupsOK, OneKeyPerGroup
  <2>3. Visited(p) = {q}
    BY <1>3, <2>1, <2>2 DEF Visited
  <2>4. q \in Members(q)
    BY <2>1, MembersByIndex DEF GroupsOK
  <2> QED BY <1>3, <2>3, <2>4 DEF Dissolved
<1> QED BY <1>1, <1>2, <1>3

\* Dropping a prim keeps the groups consistent, forgets the prim, and leaves
\* every other prim in its group or in none.
LEMMA DropKeepsGroups ==
  ASSUME GroupsOK, NEW p \in Prims, DropInstancing(p)
  PROVE  /\ GroupsOK'
         /\ prototype_of'[p] = None
         /\ \A x \in Prims : prototype_of'[x] # None =>
              /\ prototype_of'[x] = prototype_of[x]
              /\ \A k \in Keys : prototype_by_key[k] = prototype_of[x] => prototype_by_key'[k] = prototype_of[x]
<1> USE PrimsAssumption
<1> DEFINE leads == prototype_of[p] = p
           D     == Dissolved(p, Visited(p))
<1>1. D = IF leads THEN {p} ELSE {}
  BY WhatIsDissolved
<1>2. LeaveGroups(p, Visited(p))
  BY DEF DropInstancing
<1>3. /\ prototype_by_key' = [k \in Keys |-> IF k \in Retired(D) THEN None ELSE prototype_by_key[k]]
      /\ prototype_of' = [x \in Prims |-> IF x \in Orphans(p, D) THEN None ELSE prototype_of[x]]
      /\ instances_by_prototype' =
           [q \in Prims |-> IF q \in D THEN EmptyBag
                            ELSE IF q \in Visited(p) THEN [instances_by_prototype[q] EXCEPT ![p] = 0]
                            ELSE instances_by_prototype[q]]
  BY <1>2 DEF LeaveGroups
<1> HIDE DEF D
<1>4. ASSUME NEW k \in Keys
      PROVE  prototype_by_key'[k] = IF leads /\ prototype_by_key[k] = p THEN None ELSE prototype_by_key[k]
  BY <1>1, <1>3 DEF Retired
<1>5. ASSUME NEW x \in Prims
      PROVE  prototype_of'[x] = IF x = p \/ (leads /\ prototype_of[x] = p) THEN None ELSE prototype_of[x]
  <2>1. x \in Orphans(p, D) <=> x = p \/ (leads /\ prototype_of[x] = p)
    BY <1>1, MembersByIndex DEF Orphans, GroupsOK
  <2> QED BY <1>3, <2>1
<1>6. ASSUME NEW x \in Prims, NEW q \in Prims
      PROVE  instances_by_prototype'[q][x] =
               IF (leads /\ q = p) \/ x = p THEN 0 ELSE instances_by_prototype[q][x]
  <2>1. CASE q \in D
    BY <1>1, <1>3, <2>1 DEF EmptyBag
  <2>2. CASE q \notin D /\ q \in Visited(p)
    BY <1>1, <1>3, <2>2 DEF GroupsOK, MapsOK, Bag
  <2>3. CASE q \notin D /\ q \notin Visited(p)
    <3>1. ~(leads /\ q = p) /\ instances_by_prototype'[q][x] = instances_by_prototype[q][x]
      BY <1>1, <1>3, <2>3
    <3>2. x = p => prototype_of[x] # q
      <4>1. SUFFICES ASSUME prototype_of[p] = q PROVE FALSE
        OBVIOUS
      <4>2. q \in Groups
        BY <4>1, PrototypeLeads
      <4> QED BY <2>3, <4>1, <4>2 DEF Visited
    <3> QED BY <3>1, <3>2 DEF GroupsOK, MembershipAgrees
  <2> QED BY <2>1, <2>2, <2>3
<1>7. MapsOK'
  BY <1>3 DEF GroupsOK, MapsOK, Bag, EmptyBag, PrimOrNone
<1>8. MembershipAgrees'
  <2> SUFFICES ASSUME NEW x \in Prims, NEW q \in Prims
               PROVE  instances_by_prototype'[q][x] = IF prototype_of'[x] = q THEN 1 ELSE 0
    BY DEF MembershipAgrees
  <2>1. instances_by_prototype[q][x] = IF prototype_of[x] = q THEN 1 ELSE 0
    BY DEF GroupsOK, MembershipAgrees
  <2> QED BY <1>5, <1>6, <2>1
<1>9. ASSUME NEW q \in Prims PROVE q \in Groups' <=> q \in Groups /\ q # p
  <2>1. CASE q # p /\ q \in Groups
    <3>1. prototype_of[q] = q
      BY <2>1 DEF GroupsOK, OneKeyPerGroup
    <3>2. instances_by_prototype'[q][q] = 1
      BY <1>6, <2>1, <3>1 DEF GroupsOK, MembershipAgrees
    <3>3. q \in Members(q)'
      BY <3>2 DEF Members
    <3> QED BY <2>1, <3>3 DEF Groups
  <2>2. CASE q = p \/ q \notin Groups
    <3>1. ASSUME NEW x \in Prims PROVE instances_by_prototype'[q][x] = 0
      <4>1. CASE q \notin Groups
        <5>1. ~(instances_by_prototype[q][x] > 0)
          BY <4>1 DEF Groups, Members
        <5> QED BY <1>6, <5>1 DEF GroupsOK, MembershipAgrees
      <4>2. CASE q = p /\ q \in Groups
        BY <1>6, <4>2 DEF GroupsOK, OneKeyPerGroup
      <4> QED BY <2>2, <4>1, <4>2
    <3>2. Members(q)' = {}
      BY <3>1 DEF Members
    <3> QED BY <2>2, <3>2 DEF Groups
  <2> QED BY <2>1, <2>2
<1>10. OneKeyPerGroup'
  <2>1. ASSUME NEW q \in Groups'
        PROVE  prototype_of'[q] = q /\ \E l \in Keys : prototype_by_key'[l] = q
    <3>1. q \in Prims /\ q \in Groups /\ q # p
      BY <1>9 DEF Groups
    <3>2. prototype_of[q] = q /\ \E l \in Keys : prototype_by_key[l] = q
      BY <3>1 DEF GroupsOK, OneKeyPerGroup
    <3> QED BY <1>4, <1>5, <3>1, <3>2
  <2>2. ASSUME NEW l \in Keys, prototype_by_key'[l] # None
        PROVE  /\ prototype_by_key'[l] \in Groups'
               /\ \A m \in Keys : prototype_by_key'[m] = prototype_by_key'[l] => m = l
    <3>1. prototype_by_key'[l] = prototype_by_key[l] /\ prototype_by_key[l] \in Groups
      BY <1>4, <2>2 DEF GroupsOK, OneKeyPerGroup
    <3>2. prototype_by_key[l] # p
      BY <1>4, <2>2, <3>1 DEF GroupsOK, OneKeyPerGroup
    <3>3. \A m \in Keys : prototype_by_key[m] = prototype_by_key[l] => m = l
      BY <2>2, <3>1 DEF GroupsOK, OneKeyPerGroup
    <3> QED BY <1>4, <1>9, <2>2, <3>1, <3>2, <3>3 DEF Groups
  <2> QED BY <2>1, <2>2 DEF OneKeyPerGroup
<1>11. PrototypeIsLeast'
  BY <1>5 DEF PrototypeIsLeast, GroupsOK, MapsOK
<1>12. ASSUME NEW x \in Prims, prototype_of'[x] # None
       PROVE  /\ prototype_of'[x] = prototype_of[x]
              /\ \A k \in Keys : prototype_by_key[k] = prototype_of[x] => prototype_by_key'[k] = prototype_of[x]
  BY <1>4, <1>5, <1>12
<1> QED BY <1>5, <1>7, <1>8, <1>10, <1>11, <1>12 DEF GroupsOK

-----------------------------------------------------------------------------
\* Computing an index registers the prim only if it had none.
LEMMA ComputeIndexKeepsInv ==
  ASSUME GroupsOK, index \subseteq Prims, GroupedOnlyIfIndexed, NEW p \in Prims,
         key \in [Prims -> SomeKey], ComputeIndex(p)
  PROVE  GroupsOK' /\ index' \subseteq Prims /\ GroupedOnlyIfIndexed'
<1>1. index' = index \cup {p}
  BY DEF ComputeIndex
<1>2. CASE p \in index
  BY <1>1, <1>2 DEF ComputeIndex, maps, GroupsOK, MapsOK, MembershipAgrees, OneKeyPerGroup,
                    PrototypeIsLeast, Groups, Members, GroupedOnlyIfIndexed
<1>3. CASE p \notin index
  <2>1. RegisterInstance(p, key[p], TRUE) /\ prototype_of[p] = None /\ key[p] \in SomeKey
    BY <1>3 DEF ComputeIndex, GroupedOnlyIfIndexed
  <2> QED BY <1>1, <2>1, RegisterKeepsGroups DEF GroupedOnlyIfIndexed
<1> QED BY <1>2, <1>3

\* Nothing is grouped or indexed at first.
LEMMA InitEstablishesInv == Init => IInv
<1> SUFFICES ASSUME Init PROVE IInv
  OBVIOUS
<1> USE PrimsAssumption
<1>1. \A q \in Prims : Members(q) = {}
  BY DEF Init, Members, EmptyBag
<1>2. CallsOK
  BY IdleIsACall DEF Init, CallsOK
<1>3. MapsOK
  BY DEF Init, MapsOK, Bag, EmptyBag, PrimOrNone
<1>4. MembershipAgrees /\ PrototypeIsLeast /\ GroupedOnlyIfIndexed
  BY DEF Init, MembershipAgrees, PrototypeIsLeast, GroupedOnlyIfIndexed, EmptyBag
<1>5. OneKeyPerGroup
  BY <1>1 DEF Init, OneKeyPerGroup, Groups
<1> QED BY <1>2, <1>3, <1>4, <1>5 DEF IInv, GroupsOK

\* Every action of the per-prim interface keeps the groups consistent and tied
\* to indices, one case per action.
LEMMA StepKeepsInv == IInv /\ [IndexNext]_vars => IInv'
<1> SUFFICES ASSUME IInv, [IndexNext]_vars PROVE IInv'
  OBVIOUS
<1> USE PrimsAssumption, InputsAssumption
<1>0. /\ CallsOK /\ GroupsOK /\ GroupedOnlyIfIndexed
      /\ index \subseteq Prims /\ key \in [Prims -> SomeKey]
  BY DEF IInv, CallsOK
<1>a. ASSUME UNCHANGED maps PROVE GroupsOK'
  BY <1>0, <1>a DEF maps, GroupsOK, MapsOK, MembershipAgrees, OneKeyPerGroup, PrototypeIsLeast,
                    Groups, Members
<1>b. ASSUME UNCHANGED <<index, maps>> PROVE GroupedOnlyIfIndexed'
  BY <1>0, <1>b DEF maps, GroupedOnlyIfIndexed
<1>1. ASSUME NEW p \in Prims, ComputePrimIndex(p) PROVE IInv'
  <2>1. ComputeIndex(p) /\ UNCHANGED <<key, op, warm>>
    BY <1>1 DEF ComputePrimIndex
  <2>2. GroupsOK' /\ index' \subseteq Prims /\ GroupedOnlyIfIndexed'
    BY <1>0, <2>1, ComputeIndexKeepsInv
  <2> QED BY <1>0, <2>1, <2>2 DEF IInv, CallsOK
<1>2. ASSUME NEW S \in Subtrees, NEW then \in PrimOrNone, StartDrop(S, then) PROVE IInv'
  <2>1. CallsOK'
    <3>1. key' \in [Prims -> SomeKey] /\ UNCHANGED <<index, warm>>
      BY <1>2 DEF StartDrop, Edited
    <3>2. op' \in Call
      BY <1>0, <1>2 DEF StartDrop, CallsOK, Call
    <3> QED BY <1>0, <3>1, <3>2 DEF CallsOK
  <2> QED BY <1>a, <1>b, <1>2, <2>1 DEF StartDrop, IInv
<1>3. ASSUME ClearAll PROVE IInv'
  <2>1. \A q \in Prims : Members(q)' = {}
    BY <1>3 DEF ClearAll, ClearGroups, Members, EmptyBag
  <2>2. CallsOK' /\ GroupedOnlyIfIndexed'
    BY <1>0, <1>3 DEF ClearAll, ClearGroups, CallsOK, GroupedOnlyIfIndexed
  <2>3. MapsOK'
    BY <1>3 DEF ClearAll, ClearGroups, MapsOK, Bag, EmptyBag, PrimOrNone
  <2>4. MembershipAgrees' /\ PrototypeIsLeast'
    BY <1>3 DEF ClearAll, ClearGroups, MembershipAgrees, PrototypeIsLeast, EmptyBag
  <2>5. OneKeyPerGroup'
    BY <1>3, <2>1 DEF ClearAll, ClearGroups, OneKeyPerGroup, Groups
  <2> QED BY <2>2, <2>3, <2>4, <2>5 DEF IInv, GroupsOK
<1>4. ASSUME DropIndex PROVE IInv'
  <2>1. PICK p \in op.drops : /\ index' = index \ {p}
                              /\ DropInstancing(p)
                              /\ op' = [op EXCEPT !.drops = @ \ {p}]
    BY <1>4 DEF DropIndex
  <2>2. p \in Prims
    BY <1>0 DEF CallsOK, Call
  <2>3. GroupsOK' /\ GroupedOnlyIfIndexed'
    BY <1>0, <2>1, <2>2, DropKeepsGroups DEF GroupedOnlyIfIndexed
  <2>4. CallsOK'
    <3>1. op' \in Call
      BY <1>0, <2>1 DEF CallsOK, Call
    <3> QED BY <1>0, <1>4, <2>1, <3>1 DEF DropIndex, CallsOK
  <2> QED BY <2>3, <2>4 DEF IInv
<1>5. ASSUME EndDrop PROVE IInv'
  <2>1. /\ op' = Idle /\ UNCHANGED <<key, warm>>
        /\ (op.then = None /\ UNCHANGED <<index, maps>>) \/ (op.then \in Prims /\ ComputeIndex(op.then))
    <3>1. op.then \in PrimOrNone
      BY <1>0 DEF CallsOK, Call
    <3> QED BY <1>5, <3>1 DEF EndDrop, PrimOrNone
  <2>2. GroupsOK' /\ index' \subseteq Prims /\ GroupedOnlyIfIndexed'
    <3>1. CASE op.then = None /\ UNCHANGED <<index, maps>>
      BY <1>0, <1>a, <1>b, <3>1
    <3>2. CASE op.then \in Prims /\ ComputeIndex(op.then)
      BY <1>0, <3>2, ComputeIndexKeepsInv
    <3> QED BY <2>1, <3>1, <3>2
  <2>3. CallsOK'
    BY <1>0, <2>1, <2>2, IdleIsACall DEF CallsOK
  <2> QED BY <2>2, <2>3 DEF IInv
<1>6. ASSUME MergeWorkerIndex PROVE IInv'
  <2> DEFINE p == Head(op.todo)
  <2>1. /\ p \in Prims /\ op.todo # << >> /\ op.todo \in Seq(Prims)
        /\ warm.key \in [Prims -> SomeKey]
    <3>1. op.todo \in Seq(Prims) /\ op.todo # << >>
      BY <1>0, <1>6 DEF MergeWorkerIndex, CallsOK, Call
    <3>2. Head(op.todo) \in Prims
      BY <3>1
    <3>3. warm.key \in [Prims -> SomeKey]
      BY <1>0 DEF CallsOK, WarmUp
    <3> QED BY <3>1, <3>2, <3>3
  <2>2. /\ index' = index \cup {p}
        /\ IF p \in index THEN UNCHANGED maps ELSE RegisterInstance(p, warm.key[p], TRUE)
    BY <1>6 DEF MergeWorkerIndex
  <2> HIDE DEF p
  <2>3. GroupsOK' /\ GroupedOnlyIfIndexed'
    <3>1. CASE p \in index
      <4>1. UNCHANGED maps
        BY <2>2, <3>1
      <4>2. index' = index
        BY <2>2, <3>1
      <4> QED BY <1>a, <1>b, <4>1, <4>2
    <3>2. CASE p \notin index
      <4>1. prototype_of[p] = None /\ warm.key[p] \in SomeKey
        BY <1>0, <2>1, <3>2 DEF GroupedOnlyIfIndexed
      <4> QED BY <1>0, <2>1, <2>2, <3>2, <4>1, RegisterKeepsGroups DEF GroupedOnlyIfIndexed
    <3> QED BY <3>1, <3>2
  <2>4. CallsOK'
    <3>1. index' \subseteq Prims
      BY <1>0, <2>1, <2>2
    <3>2. Tail(op.todo) \in Seq(Prims)
      BY <2>1
    <3>3. op' = [op EXCEPT !.todo = Tail(op.todo)] /\ UNCHANGED <<key, warm>>
      BY <1>6 DEF MergeWorkerIndex
    <3>4. op' \in Call
      BY <1>0, <3>2, <3>3 DEF CallsOK, Call
    <3> QED BY <1>0, <3>1, <3>3, <3>4 DEF CallsOK
  <2> QED BY <2>3, <2>4 DEF IInv
<1>7. ASSUME EndMerge \/ PrewarmRelock \/ \E paths \in PrewarmPaths : PrewarmBegin(paths) PROVE IInv'
  <2>1. UNCHANGED <<index, maps>>
    BY <1>7 DEF EndMerge, PrewarmRelock, PrewarmBegin
  <2>2. CallsOK'
    <3>1. CASE EndMerge
      BY <1>0, <3>1, IdleIsACall DEF EndMerge, CallsOK
    <3>2. CASE PrewarmRelock
      <4>1. op' = [kind |-> "merge", drops |-> {}, todo |-> warm.paths, then |-> None]
        BY <3>2 DEF PrewarmRelock
      <4>2. warm.paths \in Seq(Prims)
        BY <1>0 DEF CallsOK, WarmUp
      <4>3. op' \in Call
        BY <4>1, <4>2 DEF Call, PrimOrNone
      <4> QED BY <1>0, <3>2, <4>3 DEF PrewarmRelock, CallsOK
    <3>3. ASSUME NEW paths \in PrewarmPaths, PrewarmBegin(paths) PROVE CallsOK'
      <4>1. warm' = [busy |-> TRUE, paths |-> paths, key |-> key] /\ paths \in Seq(Prims)
        BY <3>3 DEF PrewarmBegin
      <4>2. warm' \in WarmUp
        BY <1>0, <4>1 DEF WarmUp, CallsOK
      <4> QED BY <1>0, <3>3, <4>2 DEF PrewarmBegin, CallsOK
    <3> QED BY <1>7, <3>1, <3>2, <3>3
  <2> QED BY <1>a, <1>b, <2>1, <2>2 DEF IInv
<1>8. ASSUME UNCHANGED vars PROVE IInv'
  BY <1>0, <1>a, <1>b, <1>8 DEF vars, IInv, CallsOK
<1> QED
  <2>1. CASE Edit
    BY <1>2, <1>3, <2>1 DEF Edit, Invalidate, LoadPayload, PrimOrNone
  <2> QED BY <1>1, <1>4, <1>5, <1>6, <1>7, <1>8, <2>1 DEF IndexNext, Query, Prewarm

\* The invariant holds of every behaviour of the per-prim interface, with a
\* prewarm's workers building while other threads call and edit.
THEOREM InductiveInvariant == IndexSpec => []IInv
BY InitEstablishesInv, StepKeepsInv, PTL DEF IndexSpec

\* The two-way index of cache-specs-instances.inc never disagrees with itself.
THEOREM MembershipNeverDisagrees == IndexSpec => []MembershipAgrees
<1>1. IInv => MembershipAgrees
  BY DEF IInv, GroupsOK
<1> QED BY <1>1, InductiveInvariant, PTL

\* A group serves one instance key, and its prototype belongs to it.
THEOREM GroupsServeOneKey == IndexSpec => []OneKeyPerGroup
<1>1. IInv => OneKeyPerGroup
  BY DEF IInv, GroupsOK
<1> QED BY <1>1, InductiveInvariant, PTL

\* AssignPrototype elects the least path of a group in any order of calls.
THEOREM LeastPathIsElected == IndexSpec => []PrototypeIsLeast
<1>1. IInv => PrototypeIsLeast
  BY DEF IInv, GroupsOK
<1> QED BY <1>1, InductiveInvariant, PTL

\* DropIndex leaves no prototype or instance without an index.
THEOREM NothingGroupedUnindexed == IndexSpec => []GroupedOnlyIfIndexed
<1>1. IInv => GroupedOnlyIfIndexed
  BY DEF IInv
<1> QED BY <1>1, InductiveInvariant, PTL

-----------------------------------------------------------------------------
(* Groups follow the sources, as long as nothing is edited during a prewarm. *)

\* Prim p is in the group of the key it has now, or in none.
Current(p) == prototype_of[p] # None =>
                key[p] # NoKey /\ prototype_by_key[key[p]] = prototype_of[p]

\* Only what an edit has yet to drop may be grouped by an older key, and the
\* workers of a prewarm see the keys of now.
CurrentInv == /\ \A p \in Prims \ op.drops : Current(p)
              /\ op.kind # "drop" => op.drops = {}
              /\ op.kind = "drop" => ~warm.busy
              /\ op.kind = "merge" => warm.busy
              /\ warm.busy => warm.key = key

\* A take-over moves the prim and the members of the group it takes over.
LEMMA DemoteMovesGroup ==
  ASSUME GroupsOK, NEW p \in Prims, prototype_of[p] = None,
         NEW k \in Keys, NEW q \in Prims, Demote(p, k, q)
  PROVE  \A x \in Prims : prototype_of'[x] = IF x = p \/ prototype_of[x] = q THEN p ELSE prototype_of[x]
<1> DEFINE group == IF prototype_of[p] = q THEN instances_by_prototype[q] ELSE Push(p, q)[q]
<1>1. \A x \in Prims : group[x] = IF x = p \/ prototype_of[x] = q THEN 1 ELSE 0
  BY PrimsAssumption, UngroupedPrim DEF Push, GroupsOK, MapsOK, Bag, MembershipAgrees
<1>2. prototype_of' = [x \in Prims |-> IF group[x] > 0 THEN p ELSE prototype_of[x]]
  BY DEF Demote
<1> HIDE DEF group
<1> QED BY <1>1, <1>2

\* Registering a prim under the key it has leaves every group current.
LEMMA RegisterKeepsCurrent ==
  ASSUME GroupsOK, NEW p \in Prims, prototype_of[p] = None,
         key \in [Prims -> SomeKey], UNCHANGED key,
         RegisterInstance(p, key[p], TRUE), \A x \in Prims : Current(x)
  PROVE  \A x \in Prims : Current(x)'
<1> USE PrimsAssumption
<1> DEFINE k == key[p]
           q == prototype_by_key[k]
<1>1. CASE k = NoKey \/ UNCHANGED maps
  BY <1>1 DEF RegisterInstance, maps, Current
<1>2. CASE k # NoKey /\ ~UNCHANGED maps
  <2>1. k \in Keys /\ AssignPrototype(p, k, TRUE)
    BY <1>2 DEF RegisterInstance, SomeKey
  <2>2. q \in PrimOrNone
    BY <2>1 DEF GroupsOK, MapsOK
  <2>3. \/ q = None /\ Seed(p, k)
        \/ q \in Prims /\ p < q /\ Demote(p, k, q)
        \/ q \in Prims /\ Join(p, q)
    BY <1>2, <2>1, <2>2 DEF AssignPrototype, PrimOrNone
  <2>4. ASSUME NEW x \in Prims, prototype_of[x] # None
        PROVE  key[x] \in Keys /\ prototype_by_key[key[x]] = prototype_of[x] /\ x # p
    BY <2>4 DEF Current, SomeKey
  <2>5. CASE q = None /\ Seed(p, k)
    <3>1. prototype_of' = [prototype_of EXCEPT ![p] = p] /\ prototype_by_key' = [prototype_by_key EXCEPT ![k] = p]
      BY <2>5 DEF Seed
    <3> QED BY <1>2, <2>1, <2>4, <2>5, <3>1 DEF Current, GroupsOK, MapsOK
  <2>6. CASE q \in Prims /\ Join(p, q)
    <3>1. prototype_of' = [prototype_of EXCEPT ![p] = q] /\ prototype_by_key' = prototype_by_key
      BY <2>6 DEF Join
    <3> QED BY <1>2, <2>1, <2>4, <2>6, <3>1 DEF Current, GroupsOK, MapsOK
  <2>7. CASE q \in Prims /\ p < q /\ Demote(p, k, q)
    <3>1. \A x \in Prims : prototype_of'[x] = IF x = p \/ prototype_of[x] = q THEN p ELSE prototype_of[x]
      BY <2>1, <2>7, DemoteMovesGroup
    <3>2. prototype_by_key' = [prototype_by_key EXCEPT ![k] = p]
      BY <2>7 DEF Demote
    <3>3. ASSUME NEW x \in Prims, prototype_of'[x] # None PROVE Current(x)'
      <4>1. CASE x = p
        BY <1>2, <2>1, <3>1, <3>2, <4>1 DEF Current, GroupsOK, MapsOK
      <4>2. CASE x # p /\ prototype_of[x] = q
        <5>1. key[x] = k
          BY <2>1, <2>4, <2>7, <4>2 DEF GroupsOK, OneKeyPerGroup
        <5> QED BY <1>2, <2>1, <3>1, <3>2, <4>2, <5>1 DEF Current, GroupsOK, MapsOK
      <4>3. CASE x # p /\ prototype_of[x] # q
        <5>1. prototype_of'[x] = prototype_of[x] /\ key[x] \in Keys /\ key[x] # k
          BY <2>4, <3>1, <3>3, <4>3
        <5> QED BY <2>1, <2>4, <3>2, <3>3, <5>1 DEF Current, GroupsOK, MapsOK
      <4> QED BY <4>1, <4>2, <4>3
    <3> QED BY <3>3 DEF Current
  <2> QED BY <2>3, <2>5, <2>6, <2>7
<1> QED BY <1>1, <1>2

\* Composing an index, which registers the prim by its present key, leaves every
\* prim in the group of the key it has.
LEMMA ComputeIndexKeepsCurrent ==
  ASSUME GroupsOK, GroupedOnlyIfIndexed, NEW p \in Prims,
         key \in [Prims -> SomeKey], UNCHANGED key,
         ComputeIndex(p), \A x \in Prims : Current(x)
  PROVE  \A x \in Prims : Current(x)'
<1>1. CASE p \in index
  BY <1>1 DEF ComputeIndex, maps, Current
<1>2. CASE p \notin index
  BY <1>2, RegisterKeepsCurrent DEF ComputeIndex, GroupedOnlyIfIndexed
<1> QED BY <1>1, <1>2

\* With no edit between the halves of a prewarm, every action keeps the grouped
\* prims under their present keys, or about to be dropped.
LEMMA StepKeepsCurrent ==
  ASSUME IInv, CurrentInv, [SerialNext]_vars
  PROVE  CurrentInv'
<1> USE PrimsAssumption
<1>0. /\ GroupsOK /\ GroupedOnlyIfIndexed /\ key \in [Prims -> SomeKey]
      /\ op \in Call /\ warm \in WarmUp
  BY DEF IInv, CallsOK
<1>1. ASSUME NEW p \in Prims, ComputePrimIndex(p) PROVE CurrentInv'
  <2>1. op = Idle /\ ComputeIndex(p) /\ UNCHANGED <<key, op, warm>>
    BY <1>1 DEF ComputePrimIndex
  <2>2. \A x \in Prims : Current(x)
    BY <2>1 DEF CurrentInv, Idle
  <2>3. \A x \in Prims : Current(x)'
    BY <1>0, <2>1, <2>2, ComputeIndexKeepsCurrent
  <2> QED BY <2>1, <2>3 DEF CurrentInv
<1>2. ASSUME NEW S \in Subtrees, NEW then \in PrimOrNone, ~warm.busy, StartDrop(S, then)
      PROVE  CurrentInv'
  <2>1. /\ op = Idle /\ key' \in [Prims -> SomeKey] /\ \A p \in Prims \ S : key'[p] = key[p]
        /\ op'.kind = "drop" /\ op'.drops = S \cap index /\ UNCHANGED <<maps, warm>>
    BY <1>2 DEF StartDrop, Edited
  <2>2. ASSUME NEW p \in Prims \ (S \cap index) PROVE Current(p)'
    <3>1. CASE p \notin S
      BY <2>1, <3>1 DEF CurrentInv, Current, Idle, maps
    <3>2. CASE p \notin index
      BY <1>0, <2>1, <3>2 DEF GroupedOnlyIfIndexed, Current, maps
    <3> QED BY <2>2, <3>1, <3>2
  <2> QED BY <1>2, <2>1, <2>2 DEF CurrentInv
<1>3. ASSUME ClearAll, ~warm.busy PROVE CurrentInv'
  <2>1. op = Idle /\ UNCHANGED <<op, warm>> /\ \A p \in Prims : prototype_of'[p] = None
    BY <1>3 DEF ClearAll, ClearGroups
  <2> QED BY <1>3, <2>1 DEF CurrentInv, Current, Idle
<1>4. ASSUME DropIndex PROVE CurrentInv'
  <2>1. PICK p \in op.drops : DropInstancing(p) /\ op' = [op EXCEPT !.drops = @ \ {p}]
    BY <1>4 DEF DropIndex
  <2>2. op.kind = "drop" /\ op'.kind = "drop" /\ op'.drops = op.drops \ {p} /\ p \in Prims
    BY <1>0, <1>4, <2>1 DEF DropIndex, Call
  <2>3. UNCHANGED <<key, warm>>
    BY <1>4 DEF DropIndex
  <2>4. ASSUME NEW x \in Prims \ op'.drops PROVE Current(x)'
    <3>1. CASE x = p
      BY <1>0, <2>1, <2>2, <3>1, DropKeepsGroups DEF Current
    <3>2. CASE x # p /\ prototype_of'[x] # None
      <4>1. /\ prototype_of'[x] = prototype_of[x]
            /\ \A k \in Keys : prototype_by_key[k] = prototype_of[x] => prototype_by_key'[k] = prototype_of[x]
        BY <1>0, <2>1, <2>2, <3>2, DropKeepsGroups
      <4>2. Current(x) /\ key[x] \in SomeKey
        BY <1>0, <2>2, <2>4, <3>2 DEF CurrentInv
      <4> QED BY <2>3, <3>2, <4>1, <4>2 DEF Current, SomeKey
    <3>3. CASE prototype_of'[x] = None
      BY <3>3 DEF Current
    <3> QED BY <3>1, <3>2, <3>3
  <2> QED BY <2>2, <2>3, <2>4 DEF CurrentInv
<1>5. ASSUME EndDrop PROVE CurrentInv'
  <2>1. /\ op.kind = "drop" /\ op.drops = {} /\ op' = Idle /\ UNCHANGED <<key, warm>>
        /\ (op.then = None /\ UNCHANGED <<index, maps>>) \/ (op.then \in Prims /\ ComputeIndex(op.then))
    <3>1. op.then \in PrimOrNone
      BY <1>0 DEF Call
    <3> QED BY <1>5, <3>1 DEF EndDrop, PrimOrNone
  <2>2. \A x \in Prims : Current(x)
    BY <2>1 DEF CurrentInv
  <2>3. \A x \in Prims : Current(x)'
    <3>1. CASE op.then = None /\ UNCHANGED <<index, maps>>
      BY <2>1, <2>2, <3>1 DEF Current, maps
    <3>2. CASE op.then \in Prims /\ ComputeIndex(op.then)
      BY <1>0, <2>1, <2>2, <3>2, ComputeIndexKeepsCurrent
    <3> QED BY <2>1, <3>1, <3>2
  <2> QED BY <2>1, <2>3 DEF CurrentInv, Idle
<1>6. ASSUME MergeWorkerIndex PROVE CurrentInv'
  <2>1. op.kind = "merge" /\ op' = [op EXCEPT !.todo = Tail(@)] /\ UNCHANGED <<key, warm>>
    BY <1>6 DEF MergeWorkerIndex
  <2>2. warm.key = key /\ \A x \in Prims : Current(x)
    BY <2>1 DEF CurrentInv
  <2>3. op'.kind = op.kind /\ op'.drops = op.drops
    BY <1>0, <2>1 DEF Call
  <2>4. PICK p \in Prims : p = Head(op.todo)
    BY <1>0, <1>6 DEF MergeWorkerIndex, Call
  <2>5. IF p \in index THEN UNCHANGED maps ELSE RegisterInstance(p, key[p], TRUE)
    BY <1>6, <2>2, <2>4 DEF MergeWorkerIndex
  <2>6. \A x \in Prims : Current(x)'
    <3>1. CASE p \in index
      BY <2>1, <2>2, <2>5, <3>1 DEF maps, Current
    <3>2. CASE p \notin index
      BY <1>0, <2>1, <2>2, <2>5, <3>2, RegisterKeepsCurrent DEF GroupedOnlyIfIndexed
    <3> QED BY <3>1, <3>2
  <2> QED BY <2>1, <2>3, <2>6 DEF CurrentInv
<1>7. ASSUME EndMerge \/ PrewarmRelock \/ \E paths \in PrewarmPaths : PrewarmBegin(paths) PROVE CurrentInv'
  <2>1. UNCHANGED <<key, maps>> /\ op'.drops = {} /\ op.drops = {}
    BY <1>7 DEF EndMerge, PrewarmRelock, PrewarmBegin, Idle, CurrentInv
  <2>2. \A x \in Prims : Current(x)'
    BY <2>1 DEF CurrentInv, Current, maps
  <2>3. /\ op'.kind # "drop"
        /\ op'.kind = "merge" => warm'.busy
        /\ warm'.busy => warm'.key = key
    BY <1>7 DEF EndMerge, PrewarmRelock, PrewarmBegin, Idle, Cold, CurrentInv
  <2> QED BY <2>1, <2>2, <2>3 DEF CurrentInv
<1>8. ASSUME UNCHANGED vars PROVE CurrentInv'
  BY <1>8 DEF vars, maps, CurrentInv, Current
<1> QED
  <2>1. CASE Edit /\ ~warm.busy
    BY <1>2, <1>3, <2>1 DEF Edit, Invalidate, LoadPayload, PrimOrNone
  <2> QED BY <1>1, <1>4, <1>5, <1>6, <1>7, <1>8, <2>1 DEF SerialNext, Query, Prewarm

\* Whatever is loaded, unloaded, selected, reloaded and prewarmed in turn, a prim
\* is grouped by the sources it has now.  Edits during a prewarm are excluded,
\* and must be: with them it is false.
THEOREM GroupsFollowSources == SerialSpec => []GroupedByCurrentKey
<1>1. Init => IInv /\ CurrentInv
  BY InitEstablishesInv DEF Init, CurrentInv, Current, Idle, Cold
<1>2. IInv /\ CurrentInv /\ [SerialNext]_vars => IInv' /\ CurrentInv'
  BY StepKeepsInv, StepKeepsCurrent DEF SerialNext, IndexNext
<1>3. CurrentInv => GroupedByCurrentKey
  BY DEF CurrentInv, Current, GroupedByCurrentKey, Idle
<1> QED BY <1>1, <1>2, <1>3, PTL DEF SerialSpec
-----------------------------------------------------------------------------
(* The whole interface: types, and what each call does to the maps.          *)

MapsTyped == MapsOK /\ instance_key_order \in Seq(Keys)

\* Every call but TrimTransientCaches changes the maps in one of these ways.
Untrimmed == Query \/ Edit \/ Prewarm \/ Locked \/ BuildStage

\* Outside TrimTransientCaches the four maps change in three ways only: a prim
\* is registered, a prim is dropped, or all groups are cleared with the order of
\* discovery.
LEMMA MapSteps ==
  ASSUME TypeOK, [Untrimmed]_vars
  PROVE  \/ UNCHANGED maps
         \/ \E p \in Prims, k \in SomeKey, b \in BOOLEAN : RegisterInstance(p, k, b)
         \/ \E p \in Prims : DropInstancing(p)
         \/ ClearGroups /\ instance_key_order' = << >>
<1> DEFINE Registers == \E p \in Prims, k \in SomeKey, b \in BOOLEAN : RegisterInstance(p, k, b)
<1>0. key \in [Prims -> SomeKey] /\ warm.key \in [Prims -> SomeKey] /\ op.todo \in Seq(Prims)
      /\ op.then \in PrimOrNone /\ op.drops \subseteq Prims
  BY DEF TypeOK
<1>1. ASSUME NEW p \in Prims, ComputeIndex(p) PROVE UNCHANGED maps \/ Registers
  BY <1>0, <1>1 DEF ComputeIndex
<1>2. CASE Query
  BY <1>1, <1>2 DEF Query, ComputePrimIndex
<1>3. CASE Edit \/ BuildStage
  BY <1>3 DEF Edit, Invalidate, LoadPayload, StartDrop, ClearAll, BuildStage
<1>4. CASE Prewarm \/ EndWalk \/ EndMerge \/ UNCHANGED vars
  BY <1>4 DEF Prewarm, PrewarmRelock, PrewarmBegin, EndWalk, EndMerge, vars
<1>5. CASE DropIndex
  BY <1>0, <1>5 DEF DropIndex
<1>6. CASE EndDrop
  <2>1. CASE UNCHANGED maps
    BY <2>1
  <2>2. CASE op.then # None /\ ComputeIndex(op.then)
    BY <1>0, <1>1, <2>2 DEF PrimOrNone
  <2> QED BY <1>6, <2>1, <2>2 DEF EndDrop
<1>7. CASE Visit
  <2>1. Head(op.todo) \in Prims
    BY <1>0, <1>7 DEF Visit
  <2> QED BY <1>0, <1>7, <2>1 DEF Visit
<1>8. CASE MergeWorkerIndex
  <2>1. Head(op.todo) \in Prims
    BY <1>0, <1>8 DEF MergeWorkerIndex
  <2> QED BY <1>0, <1>8, <2>1 DEF MergeWorkerIndex
<1> QED BY <1>2, <1>3, <1>4, <1>5, <1>6, <1>7, <1>8 DEF Untrimmed, Locked

\* Registering an instance, in either order of election.
LEMMA RegisterKeepsTypes ==
  ASSUME MapsTyped, NEW p \in Prims, NEW k \in SomeKey, NEW b \in BOOLEAN, RegisterInstance(p, k, b)
  PROVE  MapsTyped'
<1> USE PrimsAssumption
<1>1. CASE UNCHANGED maps
  BY <1>1 DEF maps, MapsTyped, MapsOK
<1>2. CASE ~UNCHANGED maps
  <2> DEFINE q == prototype_by_key[k]
  <2>1. k \in Keys /\ AssignPrototype(p, k, b)
    BY <1>2 DEF RegisterInstance, SomeKey
  <2>2. q \in PrimOrNone
    BY <2>1 DEF MapsTyped, MapsOK
  <2>3. Seed(p, k) \/ (q \in Prims /\ Demote(p, k, q)) \/ (q \in Prims /\ Join(p, q))
    BY <1>2, <2>1, <2>2 DEF AssignPrototype, PrimOrNone
  <2> HIDE DEF q
  <2>4. CASE Seed(p, k)
    BY <2>1, <2>4 DEF Seed, Push, MapsTyped, MapsOK, Bag, PrimOrNone
  <2>5. CASE q \in Prims /\ Join(p, q)
    BY <2>5 DEF Join, Push, MapsTyped, MapsOK, Bag, PrimOrNone
  <2>6. CASE q \in Prims /\ Demote(p, k, q)
    <3> DEFINE group == IF prototype_of[p] = q THEN instances_by_prototype[q] ELSE Push(p, q)[q]
    <3>1. group \in Bag
      BY <2>6 DEF Push, MapsTyped, MapsOK, Bag
    <3>2. /\ prototype_by_key' = [prototype_by_key EXCEPT ![k] = p]
          /\ prototype_of' = [x \in Prims |-> IF group[x] > 0 THEN p ELSE prototype_of[x]]
          /\ instances_by_prototype' = [instances_by_prototype EXCEPT ![q] = EmptyBag, ![p] = group]
          /\ UNCHANGED instance_key_order
      BY <2>6 DEF Demote
    <3> HIDE DEF group
    <3> QED BY <3>1, <3>2 DEF MapsTyped, MapsOK, Bag, EmptyBag, PrimOrNone
  <2> QED BY <2>3, <2>4, <2>5, <2>6
<1> QED BY <1>1, <1>2

\* What remains listed after a departure: the keys that were not retired, in
\* the order that they had.
LEMMA KeysLeft ==
  ASSUME instance_key_order \in Seq(Keys), NEW D
  PROVE  /\ Unlist(D) \in Seq(Keys)
         /\ \E h : Lists!Picks(instance_key_order, Keys \ Retired(D), Len(instance_key_order), Unlist(D), h)
<1>1. Unlist(D) = Lists!Kept(instance_key_order, Keys \ Retired(D))
  BY DEF Unlist, Kept, Lists!Kept
<1> QED BY <1>1, Lists!KeptIsSubsequence

\* A departure.
LEMMA DropKeepsTypes ==
  ASSUME MapsTyped, NEW p \in Prims, DropInstancing(p)
  PROVE  MapsTyped'
<1> DEFINE G == Visited(p)
           D == Dissolved(p, G)
<1>1. LeaveGroups(p, G)
  BY DEF DropInstancing
<1>2. /\ prototype_by_key' = [k \in Keys |-> IF k \in Retired(D) THEN None ELSE prototype_by_key[k]]
      /\ prototype_of' = [x \in Prims |-> IF x \in Orphans(p, D) THEN None ELSE prototype_of[x]]
      /\ instances_by_prototype' =
           [q \in Prims |-> IF q \in D THEN EmptyBag
                            ELSE IF q \in G THEN [instances_by_prototype[q] EXCEPT ![p] = 0]
                            ELSE instances_by_prototype[q]]
      /\ instance_key_order' = Unlist(D)
  BY <1>1 DEF LeaveGroups
<1> HIDE DEF G, D
<1>3. instance_key_order' \in Seq(Keys)
  BY <1>2, KeysLeft DEF MapsTyped
<1> QED BY <1>2, <1>3 DEF MapsTyped, MapsOK, Bag, EmptyBag, PrimOrNone

\* The type invariant, with the part about the four maps by itself.
LEMMA TypesOfMaps == TypeOK <=> /\ MapsTyped
                                /\ key \in [Prims -> SomeKey]
                                /\ index \subseteq Prims
                                /\ op \in [kind : {"idle", "drop", "walk", "merge"}, drops : SUBSET Prims,
                                           todo : Seq(Prims), then : PrimOrNone]
                                /\ warm \in WarmUp
BY DEF TypeOK, MapsTyped, MapsOK, WarmUp

\* Every action of the whole interface keeps the types.
LEMMA StepKeepsTypes == TypeOK /\ [Next]_vars => TypeOK'
<1> SUFFICES ASSUME TypeOK, [Next]_vars PROVE TypeOK'
  OBVIOUS
<1> USE PrimsAssumption, InputsAssumption
<1> DEFINE AnyCall == [kind : {"idle", "drop", "walk", "merge"}, drops : SUBSET Prims,
                       todo : Seq(Prims), then : PrimOrNone]
<1>0. /\ MapsTyped /\ key \in [Prims -> SomeKey] /\ index \subseteq Prims
      /\ op \in AnyCall /\ warm \in WarmUp
  BY TypesOfMaps
<1>1. MapsTyped'
  <2>1. CASE UNCHANGED maps
    BY <1>0, <2>1 DEF maps, MapsTyped, MapsOK
  <2>2. CASE ClearGroups /\ (instance_key_order' = << >> \/ UNCHANGED instance_key_order)
    <3>1. << >> \in Seq(Keys) /\ instance_key_order \in Seq(Keys)
      BY <1>0 DEF MapsTyped
    <3>2. instance_key_order' \in Seq(Keys)
      BY <2>2, <3>1
    <3> QED BY <2>2, <3>2 DEF ClearGroups, MapsTyped, MapsOK, Bag, EmptyBag, PrimOrNone
  <2>3. Trim \/ [Untrimmed]_vars
    BY DEF Next, Untrimmed
  <2> QED BY <1>0, <2>1, <2>2, <2>3, MapSteps, RegisterKeepsTypes, DropKeepsTypes DEF Trim
<1>2. << >> \in Seq(Prims) /\ Idle \in AnyCall /\ Cold \in WarmUp
  BY IdleIsACall DEF Call
<1>3. \A s \in Seq(Prims) : s # << >> => Head(s) \in Prims /\ Tail(s) \in Seq(Prims)
  OBVIOUS
<1>4. key' \in [Prims -> SomeKey] /\ index' \subseteq Prims /\ op' \in AnyCall /\ warm' \in WarmUp
  <2>1. ASSUME NEW p \in Prims, ComputeIndex(p) PROVE index' \subseteq Prims
    BY <1>0, <2>1 DEF ComputeIndex
  <2>2. CASE Query
    BY <1>0, <2>1, <2>2 DEF Query, ComputePrimIndex
  <2>3. CASE Edit
    <3>1. ASSUME NEW S \in Subtrees, NEW then \in PrimOrNone, StartDrop(S, then)
          PROVE  key' \in [Prims -> SomeKey] /\ index' = index /\ op' \in AnyCall /\ warm' = warm
      BY <1>0, <1>2, <3>1 DEF StartDrop, Edited
    <3>2. CASE ClearAll
      BY <1>0, <3>2 DEF ClearAll
    <3> QED BY <1>0, <2>3, <3>1, <3>2 DEF Edit, Invalidate, LoadPayload, PrimOrNone
  <2>4. CASE DropIndex
    <3>1. op' = [op EXCEPT !.drops = op'.drops] /\ op'.drops \subseteq Prims /\ index' \subseteq Prims
      BY <1>0, <2>4 DEF DropIndex
    <3> QED BY <1>0, <2>4, <3>1 DEF DropIndex
  <2>5. CASE EndDrop
    <3>1. op.then \in PrimOrNone
      BY <1>0
    <3>2. index' \subseteq Prims
      BY <1>0, <2>1, <2>5, <3>1 DEF EndDrop, PrimOrNone
    <3> QED BY <1>0, <1>2, <2>5, <3>2 DEF EndDrop
  <2>6. CASE Visit
    <3>1. op' = [op EXCEPT !.todo = Tail(op.todo)] /\ Tail(op.todo) \in Seq(Prims)
      BY <1>0, <1>3, <2>6 DEF Visit
    <3> QED BY <1>0, <2>6, <3>1 DEF Visit
  <2>7. CASE MergeWorkerIndex
    <3>1. /\ op' = [op EXCEPT !.todo = Tail(op.todo)] /\ Tail(op.todo) \in Seq(Prims)
          /\ index' = index \cup {Head(op.todo)} /\ Head(op.todo) \in Prims
      BY <1>0, <1>3, <2>7 DEF MergeWorkerIndex
    <3> QED BY <1>0, <2>7, <3>1 DEF MergeWorkerIndex
  <2>8. CASE EndWalk \/ EndMerge \/ UNCHANGED vars
    BY <1>0, <1>2, <2>8 DEF EndWalk, EndMerge, vars
  <2>9. CASE PrewarmRelock
    <3>1. warm.paths \in Seq(Prims)
      BY <1>0 DEF WarmUp
    <3> QED BY <1>0, <2>9, <3>1 DEF PrewarmRelock, PrimOrNone
  <2>10. ASSUME NEW paths \in PrewarmPaths, PrewarmBegin(paths)
         PROVE  key' \in [Prims -> SomeKey] /\ index' \subseteq Prims /\ op' \in AnyCall /\ warm' \in WarmUp
    BY <1>0, <2>10 DEF PrewarmBegin, WarmUp
  <2>11. CASE BuildStage
    <3>1. op' = [kind |-> "walk", drops |-> {}, todo |-> NamespaceOrder, then |-> None]
      BY <2>11 DEF BuildStage
    <3>2. op' \in AnyCall
      BY <3>1 DEF PrimOrNone
    <3> QED BY <1>0, <2>11, <3>2 DEF BuildStage
  <2>12. CASE Trim
    BY <1>0, <2>12 DEF Trim
  <2> QED BY <2>2, <2>3, <2>4, <2>5, <2>6, <2>7, <2>8, <2>9, <2>10, <2>11, <2>12
    DEF Next, Locked, Prewarm
<1> QED
  <2>1. MapsTyped' /\ key' \in [Prims -> SomeKey] /\ index' \subseteq Prims /\ op' \in AnyCall /\ warm' \in WarmUp
    BY <1>1, <1>4
  <2> QED BY <2>1 DEF TypeOK, MapsTyped, MapsOK, WarmUp

\* The initial state is typed.
LEMMA InitTypes == Init => TypeOK
BY InitEstablishesInv, IdleIsACall DEF Init, TypeOK, Call, WarmUp, IInv, GroupsOK, MapsOK

\* Every call leaves the maps well typed: keys are listed where keys belong, and
\* prims where prims belong (the whole interface of the cache).
THEOREM TypeCorrect == Spec => []TypeOK
BY InitTypes, StepKeepsTypes, PTL DEF Spec

-----------------------------------------------------------------------------
(* The list of keys follows the map of keys.                                 *)

\* OrderMirrorsKeys, position by position.
LEMMA OrderByPosition ==
  ASSUME instance_key_order \in Seq(Keys)
  PROVE  OrderMirrorsKeys <=>
           /\ \A i \in 1 .. Len(instance_key_order) : prototype_by_key[instance_key_order[i]] # None
           /\ \A k \in Keys : prototype_by_key[k] # None =>
                \E i \in 1 .. Len(instance_key_order) : instance_key_order[i] = k
           /\ \A i, j \in 1 .. Len(instance_key_order) : instance_key_order[i] = instance_key_order[j] => i = j
<1>1. DOMAIN instance_key_order = 1 .. Len(instance_key_order)
  OBVIOUS
<1>2. \A i \in 1 .. Len(instance_key_order) : instance_key_order[i] \in Keys
  OBVIOUS
<1> QED BY <1>1, <1>2 DEF OrderMirrorsKeys

\* A new key goes to the end, a take-over keeps its key where it is.
LEMMA RegisterKeepsOrder ==
  ASSUME MapsTyped, OrderMirrorsKeys, NEW p \in Prims, NEW k \in SomeKey, NEW b \in BOOLEAN,
         RegisterInstance(p, k, b)
  PROVE  OrderMirrorsKeys'
<1> USE PrimsAssumption
<1>0. MapsOK /\ instance_key_order \in Seq(Keys) /\ MapsTyped'
  BY RegisterKeepsTypes DEF MapsTyped
<1>1. CASE UNCHANGED maps
  BY <1>1 DEF maps, OrderMirrorsKeys
<1>2. CASE ~UNCHANGED maps
  <2>1. k \in Keys /\ AssignPrototype(p, k, b)
    BY <1>2 DEF RegisterInstance, SomeKey
  <2>2. \/ prototype_by_key[k] = None /\ Seed(p, k)
        \/ prototype_by_key[k] # None /\ \E q : Demote(p, k, q)
        \/ \E q : Join(p, q)
    BY <1>2, <2>1 DEF AssignPrototype
  <2>3. CASE prototype_by_key[k] = None /\ Seed(p, k)
    <3>1. /\ prototype_by_key' = [prototype_by_key EXCEPT ![k] = p]
          /\ instance_key_order' = Append(instance_key_order, k)
      BY <2>3 DEF Seed
    <3> DEFINE n == Len(instance_key_order)
    <3>2. /\ n \in Nat /\ Len(instance_key_order') = n + 1 /\ instance_key_order'[n + 1] = k
          /\ \A i \in 1 .. n : instance_key_order'[i] = instance_key_order[i] /\ instance_key_order[i] \in Keys
      BY <1>0, <2>1, <3>1
    <3> HIDE DEF n
    <3>3. /\ \A i \in 1 .. n : prototype_by_key[instance_key_order[i]] # None
          /\ \A l \in Keys : prototype_by_key[l] # None => \E i \in 1 .. n : instance_key_order[i] = l
          /\ \A i, j \in 1 .. n : instance_key_order[i] = instance_key_order[j] => i = j
      BY <1>0, OrderByPosition DEF n
    <3>4. \A i \in 1 .. n : instance_key_order[i] # k
      BY <2>3, <3>3
    <3>5. \A i \in 1 .. n + 1 : i = n + 1 \/ i \in 1 .. n
      BY <3>2
    <3>6. /\ prototype_by_key'[k] = p
          /\ \A l \in Keys : l # k => prototype_by_key'[l] = prototype_by_key[l]
      BY <1>0, <2>1, <3>1 DEF MapsOK
    <3>7. \A i \in 1 .. n + 1 : prototype_by_key'[instance_key_order'[i]] # None
      BY <3>2, <3>3, <3>4, <3>5, <3>6
    <3>8. ASSUME NEW l \in Keys, prototype_by_key'[l] # None
          PROVE  \E i \in 1 .. n + 1 : instance_key_order'[i] = l
      <4>1. CASE l = k
        BY <3>2, <4>1
      <4>2. CASE l # k
        <5>1. PICK i \in 1 .. n : instance_key_order[i] = l
          BY <3>3, <3>6, <3>8, <4>2
        <5>2. i \in 1 .. n + 1
          BY <3>2
        <5> QED BY <3>2, <5>1, <5>2
      <4> QED BY <4>1, <4>2
    <3>9. \A i, j \in 1 .. n + 1 : instance_key_order'[i] = instance_key_order'[j] => i = j
      BY <3>2, <3>3, <3>4, <3>5
    <3>10. OrderMirrorsKeys'
      <4>1. instance_key_order' \in Seq(Keys)
        BY <1>0 DEF MapsTyped
      <4>2. DOMAIN instance_key_order' = 1 .. n + 1 /\ \A i \in 1 .. n + 1 : instance_key_order'[i] \in Keys
        BY <3>2, <4>1
      <4> QED BY <3>7, <3>8, <3>9, <4>2 DEF OrderMirrorsKeys
    <3> QED BY <3>10
  <2>4. CASE prototype_by_key[k] # None /\ \E q : Demote(p, k, q)
    <3>1. prototype_by_key' = [prototype_by_key EXCEPT ![k] = p] /\ UNCHANGED instance_key_order
      BY <2>4 DEF Demote
    <3>2. \A l \in Keys : prototype_by_key'[l] # None <=> prototype_by_key[l] # None
      BY <1>0, <2>1, <2>4, <3>1 DEF MapsOK
    <3> QED BY <3>1, <3>2 DEF OrderMirrorsKeys
  <2>5. CASE \E q : Join(p, q)
    BY <2>5 DEF Join, OrderMirrorsKeys
  <2> QED BY <2>2, <2>3, <2>4, <2>5
<1> QED BY <1>1, <1>2

\* A dissolved group takes its key off the list, wherever the key stands.
LEMMA DropKeepsOrder ==
  ASSUME MapsTyped, OrderMirrorsKeys, NEW p \in Prims, DropInstancing(p)
  PROVE  OrderMirrorsKeys'
<1> DEFINE D == Dissolved(p, Visited(p))
           n == Len(instance_key_order)
           m == Len(instance_key_order')
<1>0. MapsOK /\ instance_key_order \in Seq(Keys) /\ n \in Nat
  BY DEF MapsTyped
<1>1. /\ prototype_by_key' = [k \in Keys |-> IF k \in Retired(D) THEN None ELSE prototype_by_key[k]]
      /\ instance_key_order' = Unlist(D)
  BY DEF DropInstancing, LeaveGroups
<1> HIDE DEF D
<1>2. instance_key_order' \in Seq(Keys) /\ m \in Nat /\ DOMAIN instance_key_order' = 1 .. m
  <2>1. instance_key_order' \in Seq(Keys)
    BY <1>0, <1>1, KeysLeft
  <2> QED BY <2>1
<1>3. PICK h : Lists!Picks(instance_key_order, Keys \ Retired(D), n, instance_key_order', h)
  BY <1>0, <1>1, KeysLeft
<1> HIDE DEF n, m
<1>4. /\ \A j \in 1 .. m : /\ h[j] \in 1 .. n /\ instance_key_order'[j] = instance_key_order[h[j]]
                           /\ instance_key_order'[j] \in Keys /\ instance_key_order'[j] \notin Retired(D)
      /\ \A i, j \in 1 .. m : i < j => h[i] < h[j]
      /\ \A i \in 1 .. n : instance_key_order[i] \in Keys \ Retired(D) => \E j \in 1 .. m : h[j] = i
  BY <1>3 DEF Lists!Picks, m
<1>5. /\ \A i \in 1 .. n : prototype_by_key[instance_key_order[i]] # None /\ instance_key_order[i] \in Keys
      /\ \A k \in Keys : prototype_by_key[k] # None => \E i \in 1 .. n : instance_key_order[i] = k
      /\ \A i, j \in 1 .. n : instance_key_order[i] = instance_key_order[j] => i = j
  BY <1>0, OrderByPosition DEF n
<1>6. \A j \in 1 .. m : prototype_by_key'[instance_key_order'[j]] # None
  BY <1>1, <1>4, <1>5
<1>7. ASSUME NEW k \in Keys, prototype_by_key'[k] # None
      PROVE  \E j \in 1 .. m : instance_key_order'[j] = k
  <2>1. k \notin Retired(D) /\ prototype_by_key[k] # None
    BY <1>1, <1>7
  <2>2. PICK i \in 1 .. n : instance_key_order[i] = k
    BY <1>5, <2>1
  <2> QED BY <1>4, <2>1, <2>2
<1>8. ASSUME NEW i \in 1 .. m, NEW j \in 1 .. m, instance_key_order'[i] = instance_key_order'[j]
      PROVE  i = j
  <2>1. h[i] = h[j] /\ h[i] \in 1 .. n /\ i \in Nat /\ j \in Nat
    BY <1>2, <1>4, <1>5, <1>8
  <2>2. ~(i < j) /\ ~(j < i)
    BY <1>0, <1>4, <2>1
  <2> QED BY <2>1, <2>2
<1> QED BY <1>2, <1>4, <1>6, <1>7, <1>8 DEF OrderMirrorsKeys

\* Of all the calls only TrimTransientCaches leaves a list that does not match.
LEMMA StepKeepsOrder ==
  ASSUME TypeOK, OrderMirrorsKeys, [Untrimmed]_vars
  PROVE  OrderMirrorsKeys'
<1>0. MapsTyped
  BY TypesOfMaps
<1>1. CASE UNCHANGED maps
  BY <1>1 DEF maps, OrderMirrorsKeys
<1>2. CASE ClearGroups /\ instance_key_order' = << >>
  BY <1>2 DEF ClearGroups, OrderMirrorsKeys
<1> QED BY <1>0, <1>1, <1>2, MapSteps, RegisterKeepsOrder, DropKeepsOrder

\* Whatever is indexed, edited, dropped and merged, instance_key_order lists the
\* keys of prototype_by_key, each once (cache-specs-instances.inc: "mirrors
\* prototype_by_key's keys").
THEOREM OrderFollowsKeys == IndexSpec => []OrderMirrorsKeys
<1>1. Init => TypeOK /\ OrderMirrorsKeys
  BY InitTypes DEF Init, OrderMirrorsKeys
<1>2. [IndexNext]_vars => [Untrimmed]_vars /\ [Next]_vars
  BY DEF IndexNext, Untrimmed, Next, Locked
<1>3. TypeOK /\ OrderMirrorsKeys /\ [IndexNext]_vars => TypeOK' /\ OrderMirrorsKeys'
  BY <1>2, StepKeepsTypes, StepKeepsOrder
<1> QED BY <1>1, <1>3, PTL DEF IndexSpec

-----------------------------------------------------------------------------
(* BuildStage, whatever calls came before: the maps after n prims.           *)

\* The first of the n prims visited so far that has this key.
FoundAt(k, n) == {i \in 1 .. n : key[NamespaceOrder[i]] = k}
Leader(k, n)  == IF FoundAt(k, n) = {} THEN None
                 ELSE NamespaceOrder[CHOOSE i \in FoundAt(k, n) : \A j \in FoundAt(k, n) : i <= j]
IsVisited(p, n) == \E i \in 1 .. n : NamespaceOrder[i] = p

\* The groups are those of the first n prims, in the order of their discovery.
GroupsOfFirst(n) ==
  /\ \A k \in Keys : prototype_by_key[k] = Leader(k, n)
  /\ \A p \in Prims : prototype_of[p] = IF key[p] # NoKey /\ IsVisited(p, n) THEN Leader(key[p], n) ELSE None
  /\ MembershipAgrees
  /\ OrderMirrorsKeys
  /\ \A i, j \in DOMAIN instance_key_order : i < j =>
       \E a, b \in 1 .. n : /\ a < b
                            /\ Leader(instance_key_order[i], n) = NamespaceOrder[a]
                            /\ Leader(instance_key_order[j], n) = NamespaceOrder[b]

Done == Len(NamespaceOrder) - Len(op.todo)
WalkInv == op.kind = "walk" =>
  /\ Len(op.todo) <= Len(NamespaceOrder)
  /\ \A i \in 1 .. Len(op.todo) : op.todo[i] = NamespaceOrder[Done + i]
  /\ GroupsOfFirst(Done)

\* A key that was found has a first place.
LEMMA LeaderIsFirst ==
  ASSUME NEW k, NEW n \in 0 .. Len(NamespaceOrder), FoundAt(k, n) # {}
  PROVE  \E a \in FoundAt(k, n) : /\ \A j \in FoundAt(k, n) : a <= j
                                  /\ Leader(k, n) = NamespaceOrder[a]
<1>1. FoundAt(k, n) \in SUBSET Nat
  BY DEF FoundAt
<1>2. \E a \in FoundAt(k, n) : \A j \in FoundAt(k, n) : a <= j
  BY <1>1, Lists!LeastNatural
<1> DEFINE a == CHOOSE i \in FoundAt(k, n) : \A j \in FoundAt(k, n) : i <= j
<1>3. a \in FoundAt(k, n) /\ \A j \in FoundAt(k, n) : a <= j
  BY <1>2
<1>4. Leader(k, n) = NamespaceOrder[a]
  BY DEF Leader
<1> QED BY <1>3, <1>4

\* One more prim: it leads its key if no earlier prim does.
LEMMA LeaderOfNext ==
  ASSUME NEW k, NEW n \in 0 .. Len(NamespaceOrder) - 1
  PROVE  Leader(k, n + 1) = IF Leader(k, n) # None THEN Leader(k, n)
                            ELSE IF key[NamespaceOrder[n + 1]] = k THEN NamespaceOrder[n + 1] ELSE None
<1> USE PrimsAssumption, InputsAssumption
<1>0. /\ Len(NamespaceOrder) \in Nat /\ n \in Nat /\ n \in 0 .. Len(NamespaceOrder)
      /\ n + 1 \in 0 .. Len(NamespaceOrder) /\ n + 1 \in 1 .. Len(NamespaceOrder)
  OBVIOUS
<1>1. \A i \in 1 .. n : NamespaceOrder[i] \in Prims
  BY <1>0
<1>2. FoundAt(k, n + 1) = FoundAt(k, n) \cup (IF key[NamespaceOrder[n + 1]] = k THEN {n + 1} ELSE {})
  BY <1>0 DEF FoundAt
<1>3. CASE FoundAt(k, n) = {}
  <2>1. Leader(k, n) = None
    BY <1>3 DEF Leader
  <2>2. CASE key[NamespaceOrder[n + 1]] = k
    <3>1. FoundAt(k, n + 1) = {n + 1}
      BY <1>2, <1>3, <2>2
    <3>2. Leader(k, n + 1) = NamespaceOrder[n + 1]
      BY <1>0, <3>1, LeaderIsFirst
    <3> QED BY <2>1, <2>2, <3>2
  <2>3. CASE key[NamespaceOrder[n + 1]] # k
    BY <1>2, <1>3, <2>1, <2>3 DEF Leader
  <2> QED BY <2>2, <2>3
<1>4. CASE FoundAt(k, n) # {}
  <2>1. PICK a \in FoundAt(k, n) : (\A j \in FoundAt(k, n) : a <= j) /\ Leader(k, n) = NamespaceOrder[a]
    BY <1>0, <1>4, LeaderIsFirst
  <2>2. a \in 1 .. n /\ a < n + 1 /\ a \in FoundAt(k, n + 1)
    BY <1>0, <1>2 DEF FoundAt
  <2>3. PICK b \in FoundAt(k, n + 1) : (\A j \in FoundAt(k, n + 1) : b <= j) /\ Leader(k, n + 1) = NamespaceOrder[b]
    BY <1>0, <2>2, LeaderIsFirst
  <2>4. b \in Nat /\ b <= a
    BY <2>2, <2>3 DEF FoundAt
  <2>5. b \in FoundAt(k, n)
    BY <1>0, <1>2, <2>2, <2>3, <2>4
  <2>6. a = b
    BY <2>1, <2>2, <2>4, <2>5
  <2>7. Leader(k, n) # None
    BY <1>1, <2>1, <2>2
  <2> QED BY <2>1, <2>3, <2>6, <2>7
<1> QED BY <1>3, <1>4

\* A leader stands among the prims that were visited.
LEMMA LeaderIsVisited ==
  ASSUME NEW k, NEW n \in 0 .. Len(NamespaceOrder), Leader(k, n) # None
  PROVE  \E a \in 1 .. n : Leader(k, n) = NamespaceOrder[a] /\ NamespaceOrder[a] \in Prims
<1>1. FoundAt(k, n) # {}
  BY DEF Leader
<1>2. PICK a \in FoundAt(k, n) : Leader(k, n) = NamespaceOrder[a]
  BY <1>1, LeaderIsFirst
<1>3. a \in 1 .. n /\ a \in 1 .. Len(NamespaceOrder)
  BY DEF FoundAt
<1> QED BY <1>2, <1>3, InputsAssumption

\* The maps are those of no prim when BuildStage begins.
LEMMA BuildStageBeginsWalk == ASSUME TypeOK, BuildStage PROVE WalkInv'
<1> USE PrimsAssumption, InputsAssumption
<1>1. /\ op' = [kind |-> "walk", drops |-> {}, todo |-> NamespaceOrder, then |-> None]
      /\ ClearGroups /\ instance_key_order' = << >> /\ key' = key
  BY DEF BuildStage
<1>2. op'.todo = NamespaceOrder /\ Len(NamespaceOrder) \in Nat
  BY <1>1
<1>3. Done' = 0
  BY <1>2 DEF Done
<1>4. \A k : FoundAt(k, 0)' = {} /\ Leader(k, 0)' = None
  BY DEF FoundAt, Leader
<1>5. GroupsOfFirst(0)'
  <2>1. \A k \in Keys : prototype_by_key'[k] = Leader(k, 0)'
    BY <1>1, <1>4 DEF ClearGroups
  <2>2. \A p \in Prims : prototype_of'[p] = None
    BY <1>1 DEF ClearGroups
  <2>3. MembershipAgrees'
    BY <1>1 DEF ClearGroups, MembershipAgrees, EmptyBag
  <2>4. OrderMirrorsKeys'
    BY <1>1 DEF ClearGroups, OrderMirrorsKeys
  <2>5. DOMAIN instance_key_order' = {}
    BY <1>1
  <2> QED BY <1>4, <2>1, <2>2, <2>3, <2>4, <2>5 DEF GroupsOfFirst
<1>6. \A i \in 1 .. Len(op'.todo) : op'.todo[i] = NamespaceOrder[0 + i]
  BY <1>2
<1> QED BY <1>2, <1>3, <1>5, <1>6 DEF WalkInv

\* The prim visited next is new, and the walk registers it behind the others.
LEMMA NextPrim ==
  ASSUME TypeOK, NEW n \in 0 .. Len(NamespaceOrder) - 1, GroupsOfFirst(n),
         NEW p, p = NamespaceOrder[n + 1]
  PROVE  /\ p \in Prims /\ ~IsVisited(p, n) /\ prototype_of[p] = None
         /\ \A x \in Prims : IsVisited(x, n + 1) <=> IsVisited(x, n) \/ x = p
         /\ \A q \in Prims : instances_by_prototype[q][p] = 0
         /\ \A k : Leader(k, n) # p
<1> USE PrimsAssumption, InputsAssumption
<1>0. /\ n \in Nat /\ n + 1 \in 1 .. Len(NamespaceOrder) /\ DOMAIN NamespaceOrder = 1 .. Len(NamespaceOrder)
      /\ n \in 0 .. Len(NamespaceOrder)
  OBVIOUS
<1>1. p \in Prims
  BY <1>0
<1>2. \A i \in 1 .. n : i \in 1 .. Len(NamespaceOrder) /\ i # n + 1 /\ i \in 1 .. n + 1
  BY <1>0
<1>3. \A i \in 1 .. n : NamespaceOrder[i] # p
  BY <1>0, <1>2, NamespaceOrderAssumption
<1>4. ~IsVisited(p, n) /\ \A x \in Prims : IsVisited(x, n + 1) <=> IsVisited(x, n) \/ x = p
  BY <1>0, <1>2, <1>3 DEF IsVisited
<1>5. prototype_of[p] = None
  BY <1>1, <1>4 DEF GroupsOfFirst
<1>6. \A q \in Prims : instances_by_prototype[q][p] = 0
  BY <1>1, <1>5 DEF GroupsOfFirst, MembershipAgrees
<1>7. ASSUME NEW k PROVE Leader(k, n) # p
  BY <1>0, <1>1, <1>3, LeaderIsVisited
<1> QED BY <1>1, <1>4, <1>5, <1>6, <1>7

\* A walk that has found the groups of the first n prims and visits the next one
\* has found those of the first n + 1: the prim founds a group, or joins the one
\* its key has.
LEMMA VisitExtendsGroups ==
  ASSUME TypeOK, NEW n \in 0 .. Len(NamespaceOrder) - 1, GroupsOfFirst(n),
         NEW p, p = NamespaceOrder[n + 1], RegisterInstance(p, key[p], FALSE), UNCHANGED key
  PROVE  GroupsOfFirst(n + 1)'
<1> USE PrimsAssumption, KeysAssumption
<1> DEFINE own == key[p]
<1>0. /\ MapsTyped /\ MapsOK /\ instance_key_order \in Seq(Keys) /\ key \in [Prims -> SomeKey]
      /\ n \in 0 .. Len(NamespaceOrder) /\ n + 1 \in 0 .. Len(NamespaceOrder) /\ n \in Nat
      /\ DOMAIN instance_key_order = 1 .. Len(instance_key_order)
  BY InputsAssumption, TypesOfMaps DEF MapsTyped
<1>1. /\ p \in Prims /\ ~IsVisited(p, n) /\ prototype_of[p] = None
      /\ \A x \in Prims : IsVisited(x, n + 1) <=> IsVisited(x, n) \/ x = p
      /\ \A q \in Prims : instances_by_prototype[q][p] = 0
      /\ \A k : Leader(k, n) # p
  BY NextPrim
<1>2. \A k : Leader(k, n + 1) = IF Leader(k, n) # None THEN Leader(k, n) ELSE IF own = k THEN p ELSE None
  BY LeaderOfNext
<1>3. \A k, m : Leader(k, m)' = Leader(k, m)
  BY DEF Leader, FoundAt
<1>4. /\ \A k \in Keys : prototype_by_key[k] = Leader(k, n)
      /\ \A x \in Prims : prototype_of[x] = IF key[x] # NoKey /\ IsVisited(x, n) THEN Leader(key[x], n) ELSE None
      /\ MembershipAgrees /\ OrderMirrorsKeys
  BY DEF GroupsOfFirst
<1>5. \A x \in Prims : IsVisited(x, n) /\ key[x] # NoKey => Leader(key[x], n) # None
  <2> SUFFICES ASSUME NEW x \in Prims, IsVisited(x, n), key[x] # NoKey PROVE Leader(key[x], n) # None
    OBVIOUS
  <2>1. PICK i \in 1 .. n : NamespaceOrder[i] = x
    BY DEF IsVisited
  <2>2. FoundAt(key[x], n) # {}
    BY <2>1 DEF FoundAt
  <2>3. PICK a \in FoundAt(key[x], n) : Leader(key[x], n) = NamespaceOrder[a]
    BY <1>0, <2>2, LeaderIsFirst
  <2>4. a \in 1 .. Len(NamespaceOrder)
    BY <1>0, <2>3 DEF FoundAt
  <2> QED BY <2>3, <2>4, InputsAssumption
<1>6. OrderMirrorsKeys'
  BY <1>0, <1>1, <1>4, RegisterKeepsOrder
\* The keys listed before keep their leaders.
<1>7. ASSUME NEW i \in 1 .. Len(instance_key_order)
      PROVE  /\ Leader(instance_key_order[i], n + 1) = Leader(instance_key_order[i], n)
             /\ \E a \in 1 .. n : Leader(instance_key_order[i], n) = NamespaceOrder[a]
  <2>1. instance_key_order[i] \in Keys /\ prototype_by_key[instance_key_order[i]] # None
    BY <1>0, <1>4, OrderByPosition
  <2>2. Leader(instance_key_order[i], n) # None
    BY <1>4, <2>1
  <2> QED BY <1>0, <1>2, <2>2, LeaderIsVisited
<1>8. ASSUME NEW i \in DOMAIN instance_key_order, NEW j \in DOMAIN instance_key_order, i < j
      PROVE  \E a, b \in 1 .. n + 1 : /\ a < b
                                      /\ Leader(instance_key_order[i], n + 1) = NamespaceOrder[a]
                                      /\ Leader(instance_key_order[j], n + 1) = NamespaceOrder[b]
  <2>1. PICK a \in 1 .. n, b \in 1 .. n : /\ a < b
                                          /\ Leader(instance_key_order[i], n) = NamespaceOrder[a]
                                          /\ Leader(instance_key_order[j], n) = NamespaceOrder[b]
    BY <1>8 DEF GroupsOfFirst
  <2>2. a \in 1 .. n + 1 /\ b \in 1 .. n + 1
    BY <1>0
  <2> QED BY <1>0, <1>7, <1>8, <2>1, <2>2
<1>9. CASE own = NoKey
  <2>1. UNCHANGED maps
    BY <1>9 DEF RegisterInstance
  <2>2. \A k \in Keys : Leader(k, n + 1) = Leader(k, n)
    BY <1>2, <1>9
  <2>3. \A k \in Keys : prototype_by_key'[k] = Leader(k, n + 1)'
    BY <1>3, <1>4, <2>1, <2>2 DEF maps
  <2>4. ASSUME NEW x \in Prims
        PROVE  prototype_of'[x] = IF key[x] # NoKey /\ IsVisited(x, n + 1) THEN Leader(key[x], n + 1) ELSE None
    <3>1. prototype_of'[x] = prototype_of[x] /\ key[x] \in SomeKey
      BY <1>0, <2>1 DEF maps
    <3> QED BY <1>1, <1>4, <1>9, <2>2, <3>1 DEF SomeKey
  <2>5. MembershipAgrees' /\ instance_key_order' = instance_key_order
    BY <1>4, <2>1 DEF maps, MembershipAgrees
  <2> QED BY <1>3, <1>6, <1>8, <2>3, <2>4, <2>5 DEF GroupsOfFirst, IsVisited
<1>10. CASE own # NoKey
  <2> DEFINE q == prototype_by_key[own]
  <2>1. own \in Keys /\ q = Leader(own, n) /\ q # p
    BY <1>0, <1>1, <1>4, <1>10 DEF SomeKey
  <2>2. (q = None /\ Seed(p, own)) \/ (q # None /\ Join(p, q))
    BY <1>1, <1>10, <2>1 DEF RegisterInstance, AssignPrototype
  <2>3. q \in PrimOrNone
    BY <1>0, <2>1 DEF MapsOK
  <2> HIDE DEF q, own
  <2>4. CASE q = None /\ Seed(p, own)
    <3>1. /\ prototype_by_key' = [prototype_by_key EXCEPT ![own] = p]
          /\ prototype_of' = [prototype_of EXCEPT ![p] = p]
          /\ instances_by_prototype' = Push(p, p)
          /\ instance_key_order' = Append(instance_key_order, own)
      BY <2>4 DEF Seed
    <3>2. Leader(own, n + 1) = p /\ \A k : k # own => Leader(k, n + 1) = Leader(k, n)
      BY <1>2, <2>1, <2>4
    <3>3. \A k \in Keys : prototype_by_key'[k] = Leader(k, n + 1)
      BY <1>0, <1>4, <2>1, <3>1, <3>2 DEF MapsOK
    <3>4. ASSUME NEW x \in Prims
          PROVE  prototype_of'[x] = IF key[x] # NoKey /\ IsVisited(x, n + 1) THEN Leader(key[x], n + 1) ELSE None
      <4>1. prototype_of'[x] = IF x = p THEN p ELSE prototype_of[x]
        BY <1>0, <3>1 DEF MapsOK
      <4>2. CASE x = p
        BY <1>1, <1>10, <3>2, <4>1, <4>2 DEF own
      <4>3. CASE x # p
        <5>1. IsVisited(x, n) /\ key[x] # NoKey => key[x] # own
          BY <1>5, <2>1, <2>4
        <5> QED BY <1>1, <1>4, <3>2, <4>1, <4>3, <5>1
      <4> QED BY <4>2, <4>3
    <3>5. MembershipAgrees'
      <4>1. ASSUME NEW x \in Prims, NEW r \in Prims
            PROVE  instances_by_prototype'[r][x] = IF r = p /\ x = p THEN 1 ELSE instances_by_prototype[r][x]
        BY <1>0, <1>1, <3>1 DEF Push, MapsOK, Bag
      <4> QED BY <1>0, <1>1, <1>4, <3>1, <4>1 DEF MembershipAgrees, MapsOK
    <3>6. ASSUME NEW i \in DOMAIN instance_key_order', NEW j \in DOMAIN instance_key_order', i < j
          PROVE  \E a, b \in 1 .. n + 1 : /\ a < b
                                          /\ Leader(instance_key_order'[i], n + 1) = NamespaceOrder[a]
                                          /\ Leader(instance_key_order'[j], n + 1) = NamespaceOrder[b]
      <4> DEFINE m == Len(instance_key_order)
      <4>1. /\ m \in Nat /\ DOMAIN instance_key_order' = 1 .. m + 1 /\ instance_key_order'[m + 1] = own
            /\ \A l \in 1 .. m : instance_key_order'[l] = instance_key_order[l]
        BY <1>0, <2>1, <3>1
      <4> HIDE DEF m
      <4>2. i \in 1 .. m /\ (j \in 1 .. m \/ j = m + 1)
        BY <3>6, <4>1
      <4>3. CASE j \in 1 .. m
        BY <1>0, <1>8, <3>6, <4>1, <4>2, <4>3 DEF m
      <4>4. CASE j = m + 1
        <5>1. PICK a \in 1 .. n : Leader(instance_key_order[i], n) = NamespaceOrder[a]
          BY <1>7, <4>2 DEF m
        <5>2. Leader(instance_key_order'[i], n + 1) = NamespaceOrder[a]
          BY <1>7, <4>1, <4>2, <5>1 DEF m
        <5>3. Leader(instance_key_order'[j], n + 1) = NamespaceOrder[n + 1]
          BY <3>2, <4>1, <4>4
        <5>4. a \in 1 .. n + 1 /\ n + 1 \in 1 .. n + 1 /\ a < n + 1
          BY <1>0
        <5> QED BY <5>2, <5>3, <5>4
      <4> QED BY <4>2, <4>3, <4>4
    <3> QED BY <1>3, <1>6, <3>3, <3>4, <3>5, <3>6 DEF GroupsOfFirst, IsVisited
  <2>5. CASE q # None /\ Join(p, q)
    <3>1. /\ prototype_of' = [prototype_of EXCEPT ![p] = q]
          /\ instances_by_prototype' = Push(p, q)
          /\ UNCHANGED <<prototype_by_key, instance_key_order>>
      BY <2>5 DEF Join
    <3>2. q \in Prims /\ \A k : Leader(k, n + 1) = Leader(k, n)
      BY <1>2, <2>1, <2>3, <2>5 DEF PrimOrNone
    <3>3. \A k \in Keys : prototype_by_key'[k] = Leader(k, n + 1)
      BY <1>4, <3>1, <3>2
    <3>4. ASSUME NEW x \in Prims
          PROVE  prototype_of'[x] = IF key[x] # NoKey /\ IsVisited(x, n + 1) THEN Leader(key[x], n + 1) ELSE None
      <4>1. prototype_of'[x] = IF x = p THEN q ELSE prototype_of[x]
        BY <1>0, <3>1 DEF MapsOK
      <4>2. CASE x = p
        BY <1>1, <1>10, <2>1, <3>2, <4>1, <4>2 DEF own
      <4>3. CASE x # p
        BY <1>1, <1>4, <3>2, <4>1, <4>3
      <4> QED BY <4>2, <4>3
    <3>5. MembershipAgrees'
      <4>1. prototype_of' = [prototype_of EXCEPT ![p] = q] /\ prototype_of \in [Prims -> PrimOrNone]
        BY <1>0, <3>1 DEF MapsOK
      <4>2. /\ instances_by_prototype \in [Prims -> [Prims -> Nat]]
            /\ instances_by_prototype' = [instances_by_prototype EXCEPT ![q][p] = @ + 1]
            /\ instances_by_prototype[q][p] = 0
        BY <1>0, <1>1, <3>1, <3>2 DEF Push, MapsOK, Bag
      <4>3. ASSUME NEW x \in Prims, NEW r \in Prims
            PROVE  instances_by_prototype'[r][x] = IF prototype_of'[x] = r THEN 1 ELSE 0
        <5>1. instances_by_prototype[r][x] = IF prototype_of[x] = r THEN 1 ELSE 0
          BY <1>4 DEF MembershipAgrees
        <5>2. CASE r # q
          <6>1. instances_by_prototype'[r] = instances_by_prototype[r]
            BY <4>2, <5>2
          <6>2. x = p => prototype_of[x] # r
            BY <1>1
          <6> QED BY <1>1, <4>1, <5>1, <5>2, <6>1, <6>2
        <5>3. CASE r = q /\ x # p
          <6>1. instances_by_prototype'[r][x] = instances_by_prototype[r][x]
            BY <1>1, <3>2, <4>2, <5>3
          <6> QED BY <1>1, <4>1, <5>1, <5>3, <6>1
        <5>4. CASE r = q /\ x = p
          <6>1. instances_by_prototype'[q][p] = 1
            BY <1>1, <3>2, <4>2
          <6> QED BY <1>1, <4>1, <5>4, <6>1
        <5> QED BY <5>2, <5>3, <5>4
      <4> QED BY <4>3 DEF MembershipAgrees
    <3> QED BY <1>3, <1>6, <1>8, <3>1, <3>3, <3>4, <3>5 DEF GroupsOfFirst, IsVisited
  <2> QED BY <2>2, <2>4, <2>5
<1> QED BY <1>9, <1>10

\* What GroupsOfFirst and StageGroups say is a matter of the keys and the maps.
LEMMA GroupsReadMaps ==
  ASSUME UNCHANGED <<key, maps>>
  PROVE  /\ \A n : GroupsOfFirst(n) => GroupsOfFirst(n)'
         /\ StageGroups => StageGroups'
<1>1. /\ prototype_by_key' = prototype_by_key /\ prototype_of' = prototype_of
      /\ instances_by_prototype' = instances_by_prototype
      /\ instance_key_order' = instance_key_order /\ key' = key
  BY DEF maps
<1>2. (MembershipAgrees => MembershipAgrees') /\ (OrderMirrorsKeys => OrderMirrorsKeys')
  BY <1>1 DEF MembershipAgrees, OrderMirrorsKeys
<1>3. ASSUME NEW n, GroupsOfFirst(n) PROVE GroupsOfFirst(n)'
  <2>1. \A k : Leader(k, n)' = Leader(k, n)
    BY <1>1 DEF Leader, FoundAt
  <2>2. /\ \A k \in Keys : prototype_by_key[k] = Leader(k, n)
        /\ \A p \in Prims : prototype_of[p] = IF key[p] # NoKey /\ IsVisited(p, n) THEN Leader(key[p], n) ELSE None
        /\ MembershipAgrees'
        /\ OrderMirrorsKeys'
        /\ \A i, j \in DOMAIN instance_key_order : i < j =>
             \E a, b \in 1 .. n : /\ a < b
                                  /\ Leader(instance_key_order[i], n) = NamespaceOrder[a]
                                  /\ Leader(instance_key_order[j], n) = NamespaceOrder[b]
    BY <1>2, <1>3 DEF GroupsOfFirst
  <2>3. \A p : IsVisited(p, n)' <=> IsVisited(p, n)
    BY DEF IsVisited
  <2> QED BY <1>1, <2>1, <2>2, <2>3 DEF GroupsOfFirst
<1>4. ASSUME StageGroups PROVE StageGroups'
  <2>1. \A k : FirstOf(k)' = FirstOf(k)
    BY <1>1 DEF FirstOf
  <2> QED BY <1>1, <1>2, <1>4, <2>1 DEF StageGroups
<1> QED BY <1>3, <1>4

\* One visit of the walk keeps what the walk has reached.
LEMMA VisitKeepsWalk == ASSUME TypeOK, WalkInv, Visit PROVE WalkInv'
<1> USE PrimsAssumption, InputsAssumption
<1>0. PICK n, p : n = Done /\ p = Head(op.todo)
  OBVIOUS
<1>1. /\ op.kind = "walk" /\ op.todo # << >> /\ op.todo \in Seq(Prims)
      /\ op'.todo = Tail(op.todo) /\ op'.kind = "walk"
      /\ RegisterInstance(p, key[p], FALSE) /\ UNCHANGED key
  BY <1>0 DEF Visit, TypeOK
<1>2. /\ Len(op.todo) \in Nat \ {0} /\ Len(op'.todo) = Len(op.todo) - 1
      /\ p = op.todo[1] /\ \A i \in 1 .. Len(op'.todo) : op'.todo[i] = op.todo[i + 1]
  BY <1>0, <1>1
<1>3. /\ Len(op.todo) <= Len(NamespaceOrder)
      /\ \A i \in 1 .. Len(op.todo) : op.todo[i] = NamespaceOrder[n + i]
      /\ GroupsOfFirst(n)
  BY <1>0, <1>1 DEF WalkInv
<1>4. /\ n \in 0 .. Len(NamespaceOrder) - 1 /\ n = Len(NamespaceOrder) - Len(op.todo)
      /\ Done' = n + 1 /\ Len(NamespaceOrder) \in Nat
  BY <1>0, <1>2, <1>3 DEF Done
<1>5. p = NamespaceOrder[n + 1]
  BY <1>2, <1>3
<1>6. GroupsOfFirst(n + 1)'
  <2>1. GroupsOfFirst(n) /\ RegisterInstance(p, key[p], FALSE) /\ UNCHANGED key
    BY <1>1, <1>3
  <2>2. n \in 0 .. Len(NamespaceOrder) - 1
    BY <1>4
  <2> QED BY <1>5, <2>1, <2>2, VisitExtendsGroups
<1>7. \A i \in 1 .. Len(op'.todo) : op'.todo[i] = NamespaceOrder[(n + 1) + i]
  <2> SUFFICES ASSUME NEW i \in 1 .. Len(op'.todo) PROVE op'.todo[i] = NamespaceOrder[(n + 1) + i]
    OBVIOUS
  <2>1. i + 1 \in 1 .. Len(op.todo) /\ n + (i + 1) = (n + 1) + i
    BY <1>2, <1>4
  <2> QED BY <1>2, <1>3, <2>1
<1>8. Len(op'.todo) <= Len(NamespaceOrder)
  BY <1>2, <1>3, <1>4
<1>9. GroupsOfFirst(Done)'
  BY <1>4, <1>6
<1> QED BY <1>4, <1>7, <1>8, <1>9 DEF WalkInv

\* Only BuildStage starts a walk, and only a visit moves it on.
LEMMA WalkSteps ==
  ASSUME TypeOK, [Next]_vars, op'.kind = "walk"
  PROVE  \/ BuildStage
         \/ op.kind = "walk" /\ Visit
         \/ UNCHANGED vars
<1>1. op \in [kind : {"idle", "drop", "walk", "merge"}, drops : SUBSET Prims,
              todo : Seq(Prims), then : PrimOrNone]
  BY DEF TypeOK
<1>2. CASE Query
  BY <1>2 DEF Query, ComputePrimIndex, Idle
<1>3. CASE Edit
  BY <1>3 DEF Edit, Invalidate, LoadPayload, StartDrop, ClearAll, Idle
<1>4. CASE Prewarm
  BY <1>4 DEF Prewarm, PrewarmBegin, PrewarmRelock, Idle
<1>5. CASE DropIndex
  <2>1. op.kind = "drop" /\ \E p \in op.drops : op' = [op EXCEPT !.drops = @ \ {p}]
    BY <1>5 DEF DropIndex
  <2> QED BY <1>1, <2>1
<1>6. CASE EndDrop \/ EndWalk \/ EndMerge
  BY <1>6 DEF EndDrop, EndWalk, EndMerge, Idle
<1>7. CASE MergeWorkerIndex
  BY <1>1, <1>7 DEF MergeWorkerIndex
<1>8. CASE Trim
  BY <1>8 DEF Trim, Idle
<1> QED BY <1>1, <1>2, <1>3, <1>4, <1>5, <1>6, <1>7, <1>8 DEF Next, Locked, Visit

\* Every call keeps what the walk in progress has reached.
LEMMA StepKeepsWalk == TypeOK /\ WalkInv /\ [Next]_vars => WalkInv'
<1> SUFFICES ASSUME TypeOK, WalkInv, [Next]_vars PROVE WalkInv'
  OBVIOUS
<1>1. CASE op'.kind # "walk"
  BY <1>1 DEF WalkInv
<1>2. CASE op'.kind = "walk"
  <2>1. CASE BuildStage
    BY <2>1, BuildStageBeginsWalk
  <2>2. CASE Visit
    BY <2>2, VisitKeepsWalk
  <2>3. CASE UNCHANGED vars
    <3>1. UNCHANGED <<key, maps>> /\ op' = op
      BY <2>3 DEF vars
    <3>2. WalkInv' <=> (op.kind = "walk" =>
             /\ Len(op.todo) <= Len(NamespaceOrder)
             /\ \A i \in 1 .. Len(op.todo) : op.todo[i] = NamespaceOrder[Done + i]
             /\ GroupsOfFirst(Done)')
      BY <3>1 DEF WalkInv, Done
    <3>3. PICK n : n = Done
      OBVIOUS
    <3>4. Done' = n
      BY <3>1, <3>3 DEF Done
    <3>5. GroupsOfFirst(n) => GroupsOfFirst(n)'
      BY <3>1, GroupsReadMaps
    <3> QED BY <3>2, <3>3, <3>4, <3>5 DEF WalkInv
  <2> QED BY <1>2, <2>1, <2>2, <2>3, WalkSteps
<1> QED BY <1>1, <1>2

\* A walk over every prim has found the groups of the scene.
LEMMA WholeWalkFindsGroups ==
  ASSUME TypeOK, GroupsOfFirst(Len(NamespaceOrder)) PROVE StageGroups
<1> USE PrimsAssumption, InputsAssumption
<1> DEFINE n == Len(NamespaceOrder)
<1>0. n \in Nat /\ DOMAIN NamespaceOrder = 1 .. n /\ n \in 0 .. n
  OBVIOUS
<1>1. \A k : FirstOf(k) = Leader(k, n)
  BY <1>0 DEF FirstOf, Leader, FoundAt
<1>2. \A p \in Prims : IsVisited(p, n)
  BY <1>0, NamespaceOrderAssumption DEF IsVisited
<1>3. ASSUME NEW a \in 1 .. n PROVE Position(NamespaceOrder[a]) = a
  BY <1>0, NamespaceOrderAssumption DEF Position
<1>4. ASSUME NEW i \in DOMAIN instance_key_order, NEW j \in DOMAIN instance_key_order, i < j
      PROVE  Position(FirstOf(instance_key_order[i])) < Position(FirstOf(instance_key_order[j]))
  <2>1. PICK a \in 1 .. n, b \in 1 .. n : /\ a < b
                                          /\ Leader(instance_key_order[i], n) = NamespaceOrder[a]
                                          /\ Leader(instance_key_order[j], n) = NamespaceOrder[b]
    BY <1>4 DEF GroupsOfFirst
  <2>2. /\ FirstOf(instance_key_order[i]) = NamespaceOrder[a]
        /\ FirstOf(instance_key_order[j]) = NamespaceOrder[b]
    BY <1>1, <2>1
  <2>3. Position(NamespaceOrder[a]) = a /\ Position(NamespaceOrder[b]) = b
    BY <1>3
  <2> QED BY <2>1, <2>2, <2>3
<1>5. \A p \in Prims : prototype_of[p] = IF key[p] = NoKey THEN None ELSE FirstOf(key[p])
  BY <1>1, <1>2 DEF GroupsOfFirst
<1>6. \A k \in Keys : prototype_by_key[k] = FirstOf(k)
  BY <1>1 DEF GroupsOfFirst
<1> HIDE DEF n
<1> QED BY <1>4, <1>5, <1>6 DEF StageGroups, GroupsOfFirst

\* The step that ends a walk leaves the groups of the scene.
LEMMA WalkEndsExact ==
  ASSUME TypeOK, WalkInv, [Next]_vars, op.kind = "walk", op' = Idle PROVE StageGroups'
<1> USE PrimsAssumption, InputsAssumption
<1>1. op # Idle /\ op'.kind = "idle"
  BY DEF Idle
<1>2. EndWalk
  <2>1. op.todo \in Seq(Prims) /\ op \in [kind : {"idle", "drop", "walk", "merge"}, drops : SUBSET Prims,
                                           todo : Seq(Prims), then : PrimOrNone]
    BY DEF TypeOK
  <2>2. ~UNCHANGED vars
    BY <1>1 DEF vars
  <2>3. ~Query /\ ~Edit /\ ~Prewarm /\ ~BuildStage /\ ~Trim
    BY <1>1 DEF Query, ComputePrimIndex, Edit, Invalidate, LoadPayload, StartDrop, ClearAll,
                Prewarm, PrewarmBegin, PrewarmRelock, BuildStage, Trim
  <2>4. ~DropIndex /\ ~EndDrop /\ ~MergeWorkerIndex /\ ~EndMerge
    BY DEF DropIndex, EndDrop, MergeWorkerIndex, EndMerge
  <2>5. ~Visit
    <3>1. Visit => op'.kind = "walk"
      BY <2>1 DEF Visit
    <3> QED BY <1>1, <3>1
  <2> QED BY <2>2, <2>3, <2>4, <2>5 DEF Next, Locked
<1>3. op.todo = << >> /\ UNCHANGED <<key, maps>>
  BY <1>2 DEF EndWalk
<1>4. Done = Len(NamespaceOrder)
  BY <1>3 DEF Done
<1>5. StageGroups
  BY <1>4, WholeWalkFindsGroups DEF WalkInv
<1> QED BY <1>3, <1>5, GroupsReadMaps

\* The action property: a BuildStage that ends leaves exactly the groups of the
\* scene as it is then, whatever calls, trims and prewarms came before it.
THEOREM StageGroupsAreExact == Spec => BuildStageIsExact
<1>1. Init => TypeOK /\ WalkInv
  BY InitTypes DEF Init, WalkInv, Idle
<1>2. TypeOK /\ WalkInv /\ [Next]_vars => TypeOK' /\ WalkInv'
  BY StepKeepsTypes, StepKeepsWalk
<1>3. TypeOK /\ WalkInv /\ [Next]_vars => [op.kind = "walk" /\ op' = Idle => StageGroups']_vars
  BY WalkEndsExact
<1> QED BY <1>1, <1>2, <1>3, PTL DEF Spec, BuildStageIsExact
=============================================================================
