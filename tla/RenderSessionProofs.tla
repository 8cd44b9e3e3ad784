------------------------ MODULE RenderSessionProofs ------------------------
(***************************************************************************)
(* Proofs about RenderSession for any set of prims and any number of       *)
(* revisions: ids are never given out twice, and, as long as no edit       *)
(* changes the material that a mesh which stays is shown with, incremental *)
(* updates leave nothing out.                                              *)
(***************************************************************************)
EXTENDS RenderSession, SequenceTheorems, FiniteSetTheorems, TLAPS

-----------------------------------------------------------------------------
(* Paths. *)

\* A path is at or above another when its names are the first names of the
\* other.
LEMMA PrefixByNames ==
  ASSUME NEW p \in Prims, NEW q \in Prims
  PROVE  IsPrefix(p, q) <=> Len(p) <= Len(q) /\ \A i \in 1 .. Len(p) : p[i] = q[i]
<1>1. /\ p \in Seq(STRING) /\ q \in Seq(STRING) /\ Len(p) \in Nat /\ Len(q) \in Nat
      /\ \A i \in 1 .. Len(p) : p[i] \in STRING
      /\ \A i \in 1 .. Len(q) : q[i] \in STRING
  BY PrimsAssumption, LenProperties, ElementOfSeq
<1>2. /\ SubSeq(p, 1, Len(p)) \in Seq(STRING) /\ Len(SubSeq(p, 1, Len(p))) = Len(p)
      /\ \A i \in 1 .. Len(p) : SubSeq(p, 1, Len(p))[i] = p[i]
  BY <1>1, SubSeqProperties
<1>3. ASSUME Len(p) <= Len(q)
      PROVE  /\ SubSeq(q, 1, Len(p)) \in Seq(STRING) /\ Len(SubSeq(q, 1, Len(p))) = Len(p)
             /\ \A i \in 1 .. Len(p) : SubSeq(q, 1, Len(p))[i] = q[i]
  BY <1>1, <1>3, SubSeqProperties
<1>4. ASSUME Len(p) <= Len(q), \A i \in 1 .. Len(p) : p[i] = q[i]
      PROVE  SubSeq(p, 1, Len(p)) = SubSeq(q, 1, Len(p))
  <2> HIDE DEF IsPrefix
  <2>1. \A i \in 1 .. Len(p) : SubSeq(p, 1, Len(p))[i] = SubSeq(q, 1, Len(p))[i]
    BY <1>2, <1>3, <1>4
  <2> QED
    BY <1>2, <1>3, <1>4, <2>1, SeqEqual
<1> QED
  BY <1>2, <1>3, <1>4 DEF IsPrefix

\* A path is at itself.
LEMMA PrefixReflexive == \A p \in Prims : IsPrefix(p, p)
BY PrefixByNames, PrimsAssumption

\* What is under a path is under all that this path is under.
LEMMA PrefixTransitive ==
  ASSUME NEW p \in Prims, NEW q \in Prims, NEW r \in Prims, IsPrefix(p, q), IsPrefix(q, r)
  PROVE  IsPrefix(p, r)
<1>1. Len(p) \in Nat /\ Len(q) \in Nat /\ Len(r) \in Nat
  BY PrimsAssumption, LenProperties
<1> QED
  BY <1>1, PrefixByNames

\* Two prefixes of one path are prefixes of each other.
LEMMA PrefixesCompare ==
  ASSUME NEW p \in Prims, NEW q \in Prims, NEW r \in Prims, IsPrefix(p, r), IsPrefix(q, r)
  PROVE  IsPrefix(p, q) \/ IsPrefix(q, p)
<1>1. Len(p) \in Nat /\ Len(q) \in Nat /\ Len(r) \in Nat
  BY PrimsAssumption, LenProperties
<1> QED
  BY <1>1, PrefixByNames

\* The parent of a path: a proper prefix, and the longest one.
LEMMA ParentIsAbove ==
  ASSUME NEW p \in Prims, Len(p) # 1
  PROVE  /\ Front(p) \in Prims /\ ~IsPrefix(p, Front(p))
         /\ \A q \in Prims : IsPrefix(q, p) => q = p \/ IsPrefix(q, Front(p))
<1> DEFINE f == Front(p)
<1>1. p \in Seq(STRING) /\ Len(p) \in Nat /\ Len(p) > 1 /\ f \in Prims
  BY PrimsAssumption, LenProperties
<1>2. \A i \in 1 .. Len(p) : p[i] \in STRING
  BY <1>1, ElementOfSeq
<1>3. Len(f) = Len(p) - 1 /\ \A i \in 1 .. Len(p) - 1 : f[i] = p[i]
  BY <1>1, <1>2, SubSeqProperties DEF Front
<1>4. ASSUME NEW q \in Prims, IsPrefix(q, p), q # p PROVE IsPrefix(q, f)
  <2>1. /\ q \in Seq(STRING) /\ Len(q) \in Nat /\ Len(q) <= Len(p)
        /\ \A i \in 1 .. Len(q) : q[i] = p[i]
    BY <1>4, PrefixByNames, PrimsAssumption, LenProperties
  <2>2. Len(q) # Len(p)
    BY <1>1, <1>4, <2>1, SeqEqual
  <2> HIDE DEF f
  <2> QED
    BY <1>1, <1>3, <2>1, <2>2, PrefixByNames
<1>5. ~IsPrefix(p, f)
  <2> HIDE DEF f
  <2> QED BY <1>1, <1>3, PrefixByNames
<1> QED
  BY <1>1, <1>4, <1>5

\* The parent of a prim is above it.
LEMMA FrontIsPrefix == \A p \in Prims : Len(p) # 1 => IsPrefix(Front(p), p)
<1> SUFFICES ASSUME NEW p \in Prims, Len(p) # 1 PROVE IsPrefix(Front(p), p)
  OBVIOUS
<1>1. Front(p) \in Prims /\ Len(p) \in Nat /\ Len(p) > 1 /\ \A i \in 1 .. Len(p) : p[i] \in STRING
  BY PrimsAssumption, LenProperties, ElementOfSeq
<1>2. Len(Front(p)) = Len(p) - 1 /\ \A i \in 1 .. Len(p) - 1 : Front(p)[i] = p[i]
  BY <1>1, SubSeqProperties DEF Front
<1> QED
  BY <1>1, <1>2, PrefixByNames

\* Nothing but itself is above a root prim.
LEMMA OnlyPrefixOfOne ==
  ASSUME NEW p \in Prims, NEW q \in Prims, Len(p) = 1, IsPrefix(q, p)
  PROVE  q = p
<1>1. p \in Seq(STRING) /\ q \in Seq(STRING) /\ Len(q) >= 1 /\ Len(q) \in Nat
  <2>1. \A r \in Prims : r \in Seq(STRING) /\ (Len(r) = 1 \/ Len(r) > 1)
    BY PrimsAssumption
  <2>2. Len(q) \in Nat
    BY <2>1, LenProperties
  <2> QED
    BY <2>1, <2>2
<1>2. Len(q) <= Len(p) /\ \A i \in 1 .. Len(q) : q[i] = p[i]
  BY PrefixByNames
<1>3. Len(q) = Len(p)
  BY <1>1, <1>2
<1> QED
  BY <1>1, <1>2, <1>3, SeqEqual

-----------------------------------------------------------------------------
(* Stages, and what one edit does to one. *)

\* A prim has all its ancestors and the properties of its type.
IsScene(s) ==
  /\ DOMAIN s \subseteq Prims /\ s = [p \in DOMAIN s |-> s[p]]
  /\ \A p \in DOMAIN s : s[p] = [n \in Properties[TypeOf[p]] |-> s[p][n]]
  /\ \A p \in DOMAIN s : \A a \in Prims : IsPrefix(a, p) => a \in DOMAIN s

\* A subtree came or went.
Moved(old, new, p) ==
  /\ p \in Structural(old, new) \cap Prims
  /\ \A q \in DOMAIN old \cap DOMAIN new : new[q] = old[q]
  /\ \A q \in (DOMAIN old \cup DOMAIN new) \ (DOMAIN old \cap DOMAIN new) : IsPrefix(p, q)

\* A property was given a value.
Changed(old, new, p, n) ==
  /\ p \in DOMAIN old /\ DOMAIN new = DOMAIN old /\ n \in Edited \cap Properties[TypeOf[p]]
  /\ \A q \in DOMAIN old : \A m \in Properties[TypeOf[q]] :
       q # p \/ m # n => new[q][m] = old[q][m]

Edits(s) == {next \in SetProperty(s) \cup RemovePrim(s) \cup AddPrim(s) : KeepsBindings(s, next)}

\* The prims that edits add have one of four types, each with its properties.
LEMMA TypesOfPrims ==
  \A p \in Prims : /\ TypeOf[p] \in {"Xform", "Mesh", "Material", "Shader"}
                   /\ Properties[TypeOf[p]] \subseteq {"xformOp", "points", "material:binding", "inputs:tint"}
BY PrimsAssumption DEF Properties

\* An edit of a value changes one property of one prim.
LEMMA SetPropertyShape ==
  ASSUME NEW old, IsScene(old), NEW new \in SetProperty(old)
  PROVE  IsScene(new) /\ \E p \in Prims : \E n \in Edited : Changed(old, new, p, n)
<1>1. PICK p \in DOMAIN old : \E m \in Edited \cap DOMAIN old[p] : \E v \in Values :
        new = [old EXCEPT ![p][m] = v]
  BY DEF SetProperty
<1>2. PICK n \in Edited \cap DOMAIN old[p] : \E v \in Values : new = [old EXCEPT ![p][n] = v]
  BY <1>1
<1>3. PICK v \in Values : new = [old EXCEPT ![p][n] = v]
  BY <1>2
<1>4. DOMAIN old[p] = Properties[TypeOf[p]] /\ n \in Properties[TypeOf[p]] /\ p \in Prims
  BY <1>2 DEF IsScene
<1>5. /\ DOMAIN new = DOMAIN old
      /\ \A q \in DOMAIN old : q # p => new[q] = old[q]
      /\ new[p] = [old[p] EXCEPT ![n] = v]
  BY <1>3 DEF IsScene
<1>6. new = [q \in DOMAIN new |-> new[q]]
  BY <1>3
<1>7. \A m \in Properties[TypeOf[p]] : new[p][m] = IF m = n THEN v ELSE old[p][m]
  BY <1>4, <1>5
<1>8. \A q \in DOMAIN new : new[q] = [m \in Properties[TypeOf[q]] |-> new[q][m]]
  <2> SUFFICES ASSUME NEW q \in DOMAIN new
               PROVE  new[q] = [m \in Properties[TypeOf[q]] |-> new[q][m]]
    OBVIOUS
  <2>1. CASE q = p
    BY <1>4, <1>5, <2>1
  <2>2. CASE q # p
    BY <1>5, <2>2 DEF IsScene
  <2> QED
    BY <2>1, <2>2
<1>9. Changed(old, new, p, n)
  BY <1>2, <1>4, <1>5, <1>7 DEF Changed
<1> QED
  BY <1>2, <1>4, <1>5, <1>6, <1>8, <1>9 DEF IsScene

\* A removal takes away a prim and all under it.
LEMMA RemovePrimShape ==
  ASSUME NEW old, IsScene(old), NEW new \in RemovePrim(old)
  PROVE  IsScene(new) /\ \E p \in Prims : Moved(old, new, p)
<1>1. PICK p \in DOMAIN old : new = Restrict(old, DOMAIN old \ At(p))
  BY DEF RemovePrim
<1>2. /\ p \in Prims /\ DOMAIN new = DOMAIN old \ At(p) /\ new = [q \in DOMAIN new |-> new[q]]
      /\ \A q \in DOMAIN new : new[q] = old[q]
  BY <1>1 DEF Restrict, IsScene
<1>3. \A q \in DOMAIN new : \A a \in Prims : IsPrefix(a, q) => a \in DOMAIN new
  BY <1>2, PrefixTransitive DEF IsScene, At
<1>4. IsScene(new)
  BY <1>2, <1>3 DEF IsScene
<1>5. p \in Structural(old, new)
  <2>1. p \in DOMAIN old \ DOMAIN new
    BY <1>2, PrefixReflexive DEF At
  <2>2. Len(p) = 1 \/ Front(p) \in DOMAIN old \cap DOMAIN new
    <3>1. CASE Len(p) # 1
      <4>1. Front(p) \in Prims /\ ~IsPrefix(p, Front(p)) /\ IsPrefix(Front(p), p)
        <5>1. Front(p) \in Prims /\ ~IsPrefix(p, Front(p))
          BY <1>2, <3>1, ParentIsAbove
        <5> QED
          BY <1>2, <3>1, <5>1, FrontIsPrefix
      <4> QED
        BY <1>2, <4>1 DEF IsScene, At
    <3> QED
      BY <3>1
  <2> QED
    BY <1>2, <2>1, <2>2 DEF Structural
<1> QED
  BY <1>2, <1>4, <1>5 DEF Moved, At, IsScene

\* An addition brings a prim and all under it.
LEMMA AddPrimShape ==
  ASSUME NEW old, IsScene(old), NEW new \in AddPrim(old)
  PROVE  IsScene(new) /\ \E p \in Prims : Moved(old, new, p)
<1>0. PICK b \in Values :
        new \in {[q \in At(p) \cup DOMAIN old |-> IF q \in At(p) THEN Made(At(p), b)[q] ELSE old[q]] :
                   p \in {q \in Prims \ DOMAIN old : Len(q) = 1 \/ Front(q) \in DOMAIN old}}
  BY DEF AddPrim
<1>1. PICK p \in Prims \ DOMAIN old :
        /\ Len(p) = 1 \/ Front(p) \in DOMAIN old
        /\ new = [q \in At(p) \cup DOMAIN old |-> IF q \in At(p) THEN Made(At(p), b)[q] ELSE old[q]]
  BY <1>0
<1>2. \A q \in At(p) : q \in Prims /\ IsPrefix(p, q) /\ q \notin DOMAIN old
  BY <1>1 DEF At, IsScene
<1>4. /\ DOMAIN new = At(p) \cup DOMAIN old /\ new = [q \in DOMAIN new |-> new[q]]
      /\ \A q \in DOMAIN old : new[q] = old[q]
      /\ \A q \in At(p) : new[q] = [n \in Properties[TypeOf[q]] |-> IF n = "material:binding" THEN b ELSE 0]
  BY <1>1, <1>2 DEF Made
<1>5. \A q \in DOMAIN new : \A a \in Prims : IsPrefix(a, q) => a \in DOMAIN new
  <2> SUFFICES ASSUME NEW q \in At(p), NEW a \in Prims, IsPrefix(a, q)
               PROVE  a \in DOMAIN new
    BY <1>4 DEF IsScene
  <2>1. IsPrefix(p, a) \/ IsPrefix(a, p)
    BY <1>1, <1>2, PrefixesCompare
  <2>2. CASE IsPrefix(p, a)
    BY <1>4, <2>2 DEF At
  <2>3. CASE IsPrefix(a, p) /\ a # p
    <3>1. CASE Len(p) # 1
      BY <1>1, <1>4, <2>3, <3>1, ParentIsAbove DEF IsScene
    <3>2. CASE Len(p) = 1
      BY <1>1, <2>3, <3>2, OnlyPrefixOfOne
    <3> QED
      BY <3>1, <3>2
  <2>4. p \in DOMAIN new
    BY <1>1, <1>4, PrefixReflexive DEF At
  <2> QED
    BY <2>1, <2>2, <2>3, <2>4
<1>6. IsScene(new)
  <2>1. \A q \in DOMAIN new : new[q] = [n \in Properties[TypeOf[q]] |-> new[q][n]]
    BY <1>4 DEF IsScene
  <2> QED
    BY <1>2, <1>4, <1>5, <2>1 DEF IsScene
<1>7. p \in Structural(old, new)
  <2>1. p \in DOMAIN new \ DOMAIN old
    BY <1>1, <1>4, PrefixReflexive DEF At
  <2> QED
    BY <1>1, <1>4, <2>1 DEF Structural
<1> QED
  BY <1>1, <1>2, <1>4, <1>6, <1>7 DEF Moved

-----------------------------------------------------------------------------
(* What a change set makes a renderer re-send, and what it leaves out. *)

Kinds == {"Node", "Mesh", "Material"}

\* The change set names a change that affects the resource.
Named(r, set) == \E c \in set : KindAffected(r.kind, c.flags) /\ PathRelated(r.key, c.path)

\* A resource stands for a prim of the scene, of the type that its kind is made
\* from.
LEMMA ResourceShape ==
  ASSUME NEW s, IsScene(s), NEW r \in Resources(s)
  PROVE  /\ r.kind \in Kinds /\ r.key \in DOMAIN s /\ r.key \in Prims
         /\ r = [kind |-> r.kind, key |-> r.key]
         /\ r.kind = "Node" => TypeOf[r.key] \in {"Xform", "Mesh"}
         /\ r.kind = "Mesh" => TypeOf[r.key] = "Mesh"
         /\ r.kind = "Material" => TypeOf[r.key] = "Material"
BY DEF Resources, PrimsOf, Kinds, IsScene

\* Prims keep their types, so what is a resource in one scene is one in each
\* scene that has its prim.
LEMMA ResourceByKey ==
  ASSUME NEW s, NEW t, IsScene(s), NEW r \in Resources(s), r.key \in DOMAIN t
  PROVE  r \in Resources(t)
BY ResourceShape DEF Resources, PrimsOf, Kinds

\* A subtree that came or went is reported, with effect on every kind, to all
\* that is above or below it.
LEMMA MoveIsNamed ==
  ASSUME NEW old, NEW new, NEW p, Moved(old, new, p)
  PROVE  /\ \E c \in BuildStageChangeSet(old, new) : "Resync" \in c.flags
         /\ \A r : r.kind \in Kinds /\ PathRelated(r.key, p)
                     => Named(r, BuildStageChangeSet(old, new))
<1> DEFINE c == [path |-> p, flags |-> {f \in {"Resync"} : p \in Resynced(old, new)} \cup
                   UNION {ClassifyPropertyChange(p, n) : n \in Modified(p, old, new)}]
<1>1. p \in Prims /\ p \in Resynced(old, new)
  BY PrefixReflexive DEF Moved, Resynced
<1>2. c \in BuildStageChangeSet(old, new)
  BY <1>1 DEF BuildStageChangeSet
<1>3. "Resync" \in c.flags /\ c.path = p
  BY <1>1
<1> HIDE DEF c
<1> QED
  BY <1>2, <1>3 DEF Named, KindAffected, Kinds

\* A property that was given another value is reported with its flags.
LEMMA ChangeIsNamed ==
  ASSUME NEW old, NEW new, IsScene(old), IsScene(new), NEW p \in Prims, NEW n \in Edited,
         Changed(old, new, p, n), new[p][n] # old[p][n],
         NEW r, KindAffected(r.kind, ClassifyPropertyChange(p, n)), PathRelated(r.key, p)
  PROVE  Named(r, BuildStageChangeSet(old, new))
<1> DEFINE c == [path |-> p, flags |-> {f \in {"Resync"} : p \in Resynced(old, new)} \cup
                   UNION {ClassifyPropertyChange(p, m) : m \in Modified(p, old, new)}]
<1>1. n \in Modified(p, old, new)
  BY DEF Changed, Modified, IsScene
<1>2. c \in BuildStageChangeSet(old, new)
  BY <1>1 DEF BuildStageChangeSet
<1>3. ClassifyPropertyChange(p, n) \subseteq c.flags /\ c.path = p
  BY <1>1
<1> HIDE DEF c
<1> QED
  BY <1>2, <1>3 DEF Named, KindAffected

\* What a resource reads decides what it is; what a mesh reads as its binding
\* decides only which material it is shown with.
LEMMA ContentByReads ==
  ASSUME NEW old, NEW new, IsScene(old), IsScene(new), KeepsBindings(old, new),
         NEW r \in Resources(old), r \in Resources(new), Reads(r, old) = Reads(r, new),
         \A x \in Reads(r, new) : x[2] # "material:binding" => new[x[1]][x[2]] = old[x[1]][x[2]]
  PROVE  Content(r, new) = Content(r, old)
<1>1. ASSUME NEW x \in Reads(r, new), x[2] = "material:binding"
      PROVE  Read(x, new) = Read(x, old)
  <2>1. r.kind = "Mesh" /\ x = <<r.key, "material:binding">>
    BY <1>1, ResourceShape DEF Reads, Kinds
  <2>2. x \in Bindings(old) /\ x \in Bindings(new)
    BY <2>1, ResourceShape DEF Bindings, PrimsOf
  <2> QED
    BY <2>2 DEF KeepsBindings
<1>2. \A x \in Reads(r, new) : x[2] # "material:binding" => Read(x, new) = Read(x, old)
  BY DEF Read, Unbound
<1> QED
  BY <1>1, <1>2 DEF Content

\* A prim added or removed leaves the resources that are neither above nor below
\* it as they were.
LEMMA MoveKeepsUnrelated ==
  ASSUME NEW old, NEW new, IsScene(old), IsScene(new), KeepsBindings(old, new),
         NEW p \in Prims, Moved(old, new, p),
         NEW r \in Resources(old), r \in Resources(new), ~PathRelated(r.key, p)
  PROVE  Content(r, new) = Content(r, old)
<1>1. /\ r.kind \in Kinds /\ r.key \in Prims
      /\ r.key \in DOMAIN old /\ r.key \in DOMAIN new
  BY ResourceShape
<1>2. ~IsPrefix(p, r.key) /\ ~IsPrefix(r.key, p)
  BY DEF PathRelated
<1>3. ASSUME NEW q \in DOMAIN old \cup DOMAIN new, IsPrefix(q, r.key) \/ IsPrefix(r.key, q)
      PROVE  q \in DOMAIN old /\ q \in DOMAIN new
  <2>1. q \in Prims
    BY DEF IsScene
  <2>2. ~IsPrefix(p, q)
    BY <1>1, <1>2, <1>3, <2>1, PrefixTransitive, PrefixesCompare
  <2> QED
    BY <2>2 DEF Moved
<1>4. Reads(r, old) = Reads(r, new)
  <2>1. CASE r.kind = "Node"
    BY <1>3, <2>1 DEF Reads, PrimsOf
  <2>2. CASE r.kind = "Mesh"
    BY <2>2 DEF Reads
  <2>3. CASE r.kind = "Material"
    BY <1>3, <2>3 DEF Reads, PrimsOf, At
  <2> QED
    BY <1>1, <2>1, <2>2, <2>3 DEF Kinds
<1>5. \A x \in Reads(r, new) : x[1] \in DOMAIN new
  BY <1>1 DEF Reads, Kinds, PrimsOf
<1>6. \A x \in Reads(r, new) : x[1] \in DOMAIN old
  <2>1. \A x \in Reads(r, old) : x[1] \in DOMAIN old
    BY <1>1 DEF Reads, Kinds, PrimsOf
  <2> QED
    BY <1>4, <2>1
<1>7. \A x \in Reads(r, new) : new[x[1]][x[2]] = old[x[1]][x[2]]
  BY <1>5, <1>6 DEF Moved
<1> QED
  BY <1>4, <1>7, ContentByReads

\* A resource reads properties of prims of the scene, and every change of one of
\* them but a binding is classified as affecting its kind, on a path related to
\* its own.
LEMMA ReadsAreProperties ==
  ASSUME NEW s, IsScene(s), NEW r \in Resources(s), NEW x \in Reads(r, s)
  PROVE  /\ x = <<x[1], x[2]>> /\ x[1] \in DOMAIN s /\ x[2] \in Properties[TypeOf[x[1]]]
         /\ x[2] # "material:binding" =>
              KindAffected(r.kind, ClassifyPropertyChange(x[1], x[2])) /\ PathRelated(r.key, x[1])
<1> USE DEF KindAffected, KindFlags, ClassifyPropertyChange, NameFlags, PathRelated, PrimsOf, Properties
<1>1. r.kind \in Kinds /\ r.key \in DOMAIN s /\ r.key \in Prims /\ IsPrefix(r.key, r.key)
  BY ResourceShape, PrefixReflexive
<1>2. CASE r.kind = "Node"
  <2>1. PICK q \in PrimsOf(s, {"Xform", "Mesh"}) : x = <<q, "xformOp">> /\ IsPrefix(q, r.key)
    BY <1>2 DEF Reads
  <2>2. KindAffected(r.kind, ClassifyPropertyChange(q, "xformOp"))
    BY <1>2
  <2> QED
    BY <2>1, <2>2
<1>3. CASE r.kind = "Mesh"
  <2>1. x[1] = r.key /\ x[2] \in {"points", "material:binding"} /\ x = <<x[1], x[2]>>
    BY <1>3 DEF Reads
  <2>2. TypeOf[r.key] = "Mesh"
    BY <1>3, ResourceShape
  <2>3. KindAffected(r.kind, ClassifyPropertyChange(r.key, "points"))
    BY <1>3
  <2> QED
    BY <1>1, <2>1, <2>2, <2>3
<1>4. CASE r.kind = "Material"
  <2>1. PICK q \in PrimsOf(s, {"Shader"}) : x = <<q, "inputs:tint">> /\ IsPrefix(r.key, q)
    BY <1>4 DEF Reads, At
  <2>2. KindAffected(r.kind, ClassifyPropertyChange(q, "inputs:tint"))
    BY <1>4
  <2> QED
    BY <2>1, <2>2
<1> QED
  BY <1>1, <1>2, <1>3, <1>4 DEF Kinds

\* A changed property leaves what a resource is made of alone when its class
\* does not affect the kind or its path is unrelated to the key.
LEMMA ChangeKeepsUnaffected ==
  ASSUME NEW old, NEW new, IsScene(old), IsScene(new), KeepsBindings(old, new),
         NEW p \in Prims, NEW n \in Edited, Changed(old, new, p, n),
         NEW r \in Resources(old), r \in Resources(new),
         \/ new[p][n] = old[p][n]
         \/ ~KindAffected(r.kind, ClassifyPropertyChange(p, n))
         \/ ~PathRelated(r.key, p)
  PROVE  Content(r, new) = Content(r, old)
<1>1. DOMAIN new = DOMAIN old
  BY DEF Changed
<1>2. Reads(r, old) = Reads(r, new)
  BY <1>1, ResourceShape DEF Reads, PrimsOf, Kinds
<1>3. ASSUME NEW x \in Reads(r, new), x[2] # "material:binding"
      PROVE  new[x[1]][x[2]] = old[x[1]][x[2]]
  <2>1. /\ x[1] \in DOMAIN old /\ x[2] \in Properties[TypeOf[x[1]]]
        /\ KindAffected(r.kind, ClassifyPropertyChange(x[1], x[2])) /\ PathRelated(r.key, x[1])
    BY <1>1, <1>3, ReadsAreProperties
  <2>2. CASE x[1] = p /\ x[2] = n
    BY <2>1, <2>2
  <2>3. CASE x[1] # p \/ x[2] # n
    BY <2>1, <2>3 DEF Changed
  <2> QED
    BY <2>2, <2>3
<1> QED
  BY <1>2, <1>3, ContentByReads

\* The heart of incremental updates: what the change set of an edit does not
\* name is there already, with the same content.
LEMMA UnnamedIsKept ==
  ASSUME NEW old, IsScene(old), NEW new \in Edits(old)
  PROVE  /\ IsScene(new)
         /\ \A r \in Resources(new) :
              \/ Named(r, BuildStageChangeSet(old, new))
              \/ r \in Resources(old) /\ Content(r, new) = Content(r, old)
         /\ (\A c \in BuildStageChangeSet(old, new) : "Resync" \notin c.flags)
              => Resources(new) = Resources(old)
<1>0. KeepsBindings(old, new)
  BY DEF Edits
<1>1. CASE new \in SetProperty(old)
  <2>1. IsScene(new)
    BY <1>1, SetPropertyShape
  <2>2. PICK p \in Prims, n \in Edited : Changed(old, new, p, n)
    BY <1>1, SetPropertyShape
  <2>3. Resources(new) = Resources(old)
    BY <2>2 DEF Changed, Resources, PrimsOf
  <2>4. ASSUME NEW r \in Resources(new), ~Named(r, BuildStageChangeSet(old, new))
        PROVE  Content(r, new) = Content(r, old)
    BY <1>0, <2>1, <2>2, <2>3, <2>4, ChangeIsNamed, ChangeKeepsUnaffected
  <2> QED
    BY <2>1, <2>3, <2>4
<1>2. CASE new \in RemovePrim(old) \cup AddPrim(old)
  <2>1. IsScene(new)
    BY <1>2, RemovePrimShape, AddPrimShape
  <2>2. PICK p \in Prims : Moved(old, new, p)
    BY <1>2, RemovePrimShape, AddPrimShape
  <2>3. ASSUME NEW r \in Resources(new), ~Named(r, BuildStageChangeSet(old, new))
        PROVE  r \in Resources(old) /\ Content(r, new) = Content(r, old)
    <3>1. ~PathRelated(r.key, p)
      BY <2>1, <2>2, <2>3, MoveIsNamed, ResourceShape
    <3>2. r.key \in DOMAIN old
      BY <2>1, <2>2, <3>1, ResourceShape DEF Moved, PathRelated
    <3>3. r \in Resources(old)
      BY <2>1, <3>2, ResourceByKey
    <3> QED
      BY <1>0, <2>1, <2>2, <3>1, <3>3, MoveKeepsUnrelated
  <2>4. \E c \in BuildStageChangeSet(old, new) : "Resync" \in c.flags
    BY <2>2, MoveIsNamed
  <2> QED
    BY <2>1, <2>3, <2>4
<1> QED
  BY <1>1, <1>2 DEF Edits
-----------------------------------------------------------------------------
(* Ids. *)

\* Every id in use was given out, to one resource, and the sink knows none for
\* another resource.
IdsInv ==
  /\ DOMAIN stage \subseteq Prims
  /\ next_id \in Nat
  /\ \A r \in DOMAIN ids : ids[r] \in Nat /\ ids[r] < next_id
  /\ \A r, s \in DOMAIN ids : ids[r] = ids[s] => r = s
  /\ \A x \in known : x[1] \in Nat /\ x[1] < next_id
  /\ \A x \in known : \A r \in DOMAIN ids : x[1] = ids[r] => x[2] = r
  /\ IdsNameOneResource

\* A scene has finitely many resources, so they can be given ids one by one.
LEMMA ResourcesFinite ==
  ASSUME NEW s, DOMAIN s \subseteq Prims
  PROVE  IsFiniteSet(Resources(s))
<1> DEFINE D == {"Node", "Mesh", "Material"} \X Prims
           f == [x \in D |-> [kind |-> x[1], key |-> x[2]]]
<1>1. IsFiniteSet({"Node", "Mesh", "Material"})
  <2>1. IsFiniteSet({} \cup {"Node"} \cup {"Mesh"} \cup {"Material"})
    BY FS_EmptySet, FS_AddElement
  <2>2. {} \cup {"Node"} \cup {"Mesh"} \cup {"Material"} = {"Node", "Mesh", "Material"}
    OBVIOUS
  <2> QED
    BY <2>1, <2>2
<1>2. IsFiniteSet(D)
  BY <1>1, PrimsAssumption, FS_Product
<1>3. f \in Surjection(D, Range(f))
  BY DEF Surjection, Range
<1>4. IsFiniteSet(Range(f))
  BY <1>2, <1>3, FS_Surjection
<1>5. Resources(s) \subseteq Range(f)
  <2> SUFFICES ASSUME NEW r \in Resources(s) PROVE r \in Range(f)
    OBVIOUS
  <2>1. PICK k \in {"Node", "Mesh", "Material"}, p \in Prims : r = [kind |-> k, key |-> p]
    BY DEF Resources, PrimsOf
  <2>2. <<k, p>> \in D /\ f[<<k, p>>] = r
    BY <2>1
  <2> QED
    BY <2>2 DEF Range
<1> QED
  BY <1>4, <1>5, FS_Subset

\* The numbering of a finite set reaches each of its elements.
LEMMA SeqReachesAll ==
  ASSUME NEW S, IsFiniteSet(S), NEW e \in S
  PROVE  \E i \in 0 .. Cardinality(S) - 1 : SetToSeq(S)[i + 1] = e
<1> DEFINE n == Cardinality(S)
           f == SetToSeq(S)
<1>1. n \in Nat /\ ExistsBijection(1 .. n, S)
  BY FS_CardinalityType
<1>2. \E g \in [1 .. n -> S] : IsInjective(g)
  BY <1>1 DEF ExistsBijection, Bijection, Injection
<1>3. f \in [1 .. n -> S] /\ IsInjective(f)
  BY <1>2 DEF SetToSeq
<1>4. f \in Injection(1 .. n, S)
  BY <1>3 DEF Injection
<1>5. Cardinality(1 .. n) = n
  BY <1>1, FS_Interval
<1>6. f \in Surjection(1 .. n, S)
  BY <1>4, <1>5, FS_Injection
<1>7. PICK j \in 1 .. n : f[j] = e
  BY <1>6 DEF Surjection
<1>8. j - 1 \in 0 .. n - 1 /\ (j - 1) + 1 = j
  BY <1>1, <1>7
<1> QED
  BY <1>7, <1>8

\* What IdFor gives: the old id, or one of the next, a different one to each.
LEMMA IdForGives ==
  ASSUME IdsInv
  PROVE  /\ Cardinality(New) \in Nat
         /\ \A r \in DOMAIN ids : IdFor(r) = ids[r]
         /\ \A r \in New : IdFor(r) \in next_id .. next_id + Cardinality(New) - 1
         /\ \A r, s \in New : IdFor(r) = IdFor(s) => r = s
<1> DEFINE n == Cardinality(New)
           place(r) == CHOOSE i \in 0 .. n - 1 : SetToSeq(New)[i + 1] = r
<1>1. IsFiniteSet(New) /\ n \in Nat
  BY ResourcesFinite, FS_Subset, FS_CardinalityType DEF New, IdsInv
<1>2. \A r \in New : place(r) \in 0 .. n - 1 /\ SetToSeq(New)[place(r) + 1] = r
  <2> SUFFICES ASSUME NEW r \in New
               PROVE  place(r) \in 0 .. n - 1 /\ SetToSeq(New)[place(r) + 1] = r
    OBVIOUS
  <2>1. \E i \in 0 .. n - 1 : SetToSeq(New)[i + 1] = r
    BY <1>1, SeqReachesAll
  <2> QED
    BY <2>1
<1>3. \A r \in New : IdFor(r) = next_id + place(r)
  BY DEF IdFor, FirstId, New
<1>4. \A r \in DOMAIN ids : IdFor(r) = ids[r]
  BY DEF IdFor
<1> HIDE DEF place, n
<1>5. \A r \in New : IdFor(r) \in next_id .. next_id + n - 1
  BY <1>1, <1>2, <1>3 DEF IdsInv
<1>6. ASSUME NEW r \in New, NEW s \in New, IdFor(r) = IdFor(s) PROVE r = s
  <2>1. place(r) = place(s)
    BY <1>1, <1>2, <1>3, <1>6 DEF IdsInv
  <2> QED
    BY <1>2, <2>1
<1> QED
  BY <1>1, <1>4, <1>5, <1>6 DEF n

\* An update gives every resource of the stage an id of its own that the sink
\* knows for no other.
LEMMA GivenIds ==
  ASSUME IdsInv
  PROVE  /\ \A r \in Resources(stage) : IdFor(r) \in Nat /\ IdFor(r) < next_id + Cardinality(New)
         /\ \A r, s \in Resources(stage) : IdFor(r) = IdFor(s) => r = s
         /\ \A x \in known : \A r \in Resources(stage) : x[1] = IdFor(r) => x[2] = r
<1>1. \A r \in Resources(stage) : r \in New \/ r \in DOMAIN ids
  BY DEF New
<1>2. next_id \in Nat /\ Cardinality(New) \in Nat
  BY IdForGives DEF IdsInv
<1>3. \A r \in DOMAIN ids : IdFor(r) = ids[r] /\ ids[r] \in Nat /\ ids[r] < next_id
  BY IdForGives DEF IdsInv
<1>4. \A r \in New : IdFor(r) \in Nat /\ next_id <= IdFor(r) /\ IdFor(r) < next_id + Cardinality(New)
  BY <1>2, IdForGives
<1>5. ASSUME NEW r \in Resources(stage)
      PROVE  IdFor(r) \in Nat /\ IdFor(r) < next_id + Cardinality(New)
  BY <1>1, <1>2, <1>3, <1>4
<1>6. ASSUME NEW r \in Resources(stage), NEW s \in Resources(stage), IdFor(r) = IdFor(s)
      PROVE  r = s
  <2>1. CASE r \in New /\ s \in New
    BY <1>6, <2>1, IdForGives
  <2>2. CASE r \in DOMAIN ids /\ s \in DOMAIN ids
    BY <1>3, <1>6, <2>2 DEF IdsInv
  <2>3. ~(r \in New /\ s \in DOMAIN ids) /\ ~(r \in DOMAIN ids /\ s \in New)
    BY <1>2, <1>3, <1>4, <1>6
  <2> QED
    BY <1>1, <2>1, <2>2, <2>3
<1>7. ASSUME NEW x \in known, NEW r \in Resources(stage), x[1] = IdFor(r) PROVE x[2] = r
  <2>1. x[1] \in Nat /\ x[1] < next_id
    BY DEF IdsInv
  <2>2. r \in DOMAIN ids
    BY <1>1, <1>2, <1>4, <1>7, <2>1
  <2> QED
    BY <1>3, <1>7, <2>2 DEF IdsInv
<1> QED
  BY <1>5, <1>6, <1>7

\* No edit leads out of the set of prims.
LEMMA EditsKeepPrims ==
  ASSUME NEW s, DOMAIN s \subseteq Prims, NEW t \in SetProperty(s) \cup RemovePrim(s) \cup AddPrim(s)
  PROVE  DOMAIN t \subseteq Prims
<1>1. CASE t \in SetProperty(s)
  BY <1>1 DEF SetProperty
<1>2. CASE t \in RemovePrim(s)
  BY <1>2 DEF RemovePrim, Restrict
<1>3. CASE t \in AddPrim(s)
  <2>1. PICK b \in Values :
          t \in {[q \in At(p) \cup DOMAIN s |-> IF q \in At(p) THEN Made(At(p), b)[q] ELSE s[q]] :
                   p \in {q \in Prims \ DOMAIN s : Len(q) = 1 \/ Front(q) \in DOMAIN s}}
    BY <1>3 DEF AddPrim
  <2> QED
    BY <2>1 DEF At
<1> QED
  BY <1>1, <1>2, <1>3

\* The session's part of an update that is not refused.
LEMMA ApplyGives ==
  ASSUME IdsInv, Apply
  PROVE  /\ ids' = [r \in Resources(stage) |-> IdFor(r)]
         /\ next_id' = next_id + Cardinality(New)
         /\ \A x \in known' : x \in known \/ \E r \in Resources(stage) : x = <<IdFor(r), r>>
         /\ stage' = stage /\ shown' = stage /\ revision' = published
         /\ published' = published /\ changes' = changes
BY DEF Apply

\* An update, also one that is aborted, gives new resources ids that were never
\* given.
LEMMA ApplyKeepsIds ==
  ASSUME IdsInv, Apply
  PROVE  IdsInv'
<1> DEFINE n == next_id + Cardinality(New)
<1>1. /\ DOMAIN ids' = Resources(stage) /\ next_id' = n /\ stage' = stage
      /\ \A r \in Resources(stage) : ids'[r] = IdFor(r)
      /\ \A x \in known' : x \in known \/ \E r \in Resources(stage) : x = <<IdFor(r), r>>
  BY ApplyGives
<1>2. n \in Nat /\ next_id <= n
  BY IdForGives DEF IdsInv
<1>3. /\ \A r \in Resources(stage) : IdFor(r) \in Nat /\ IdFor(r) < n
      /\ \A r, s \in Resources(stage) : IdFor(r) = IdFor(s) => r = s
      /\ \A x \in known : \A r \in Resources(stage) : x[1] = IdFor(r) => x[2] = r
  BY GivenIds
<1> HIDE DEF n
<1>4. \A x \in known' : x[1] \in Nat /\ x[1] < n
  <2>1. \A x \in known : x[1] \in Nat /\ x[1] < n
    BY <1>2 DEF IdsInv
  <2> QED
    BY <1>1, <1>3, <2>1
<1>5. \A x \in known' : \A r \in Resources(stage) : x[1] = IdFor(r) => x[2] = r
  BY <1>1, <1>3
<1>6. IdsNameOneResource'
  <2> SUFFICES ASSUME NEW x \in known', NEW y \in known', x[1] = y[1] PROVE x[2] = y[2]
    BY DEF IdsNameOneResource
  <2>1. CASE x \in known /\ y \in known
    BY <2>1 DEF IdsInv, IdsNameOneResource
  <2>2. CASE x \notin known \/ y \notin known
    BY <1>1, <1>5, <2>2
  <2> QED
    BY <2>1, <2>2
<1> QED
  BY <1>1, <1>2, <1>3, <1>4, <1>5, <1>6 DEF IdsInv

\* Every step keeps the ids in order.
LEMMA NextKeepsIds ==
  ASSUME IdsInv, [Next]_vars
  PROVE  IdsInv'
<1>1. CASE Publish
  <2>1. /\ stage' \in SetProperty(stage) \cup RemovePrim(stage) \cup AddPrim(stage)
        /\ UNCHANGED <<ids, next_id, known>>
    BY <1>1 DEF Publish
  <2>2. DOMAIN stage' \subseteq Prims
    BY <2>1, EditsKeepPrims DEF IdsInv
  <2> QED
    BY <2>1, <2>2 DEF IdsInv, IdsNameOneResource
<1>2. CASE Apply
  BY <1>2, ApplyKeepsIds
<1>3. CASE ApplyNoOp
  BY <1>3 DEF ApplyNoOp, IdsInv, IdsNameOneResource
<1>4. CASE AbortUpdate
  <2>1. UNCHANGED <<stage, ids, known>>
    BY <1>4 DEF AbortUpdate
  <2>2. next_id' \in Nat /\ next_id <= next_id'
    BY <1>4, IdForGives DEF AbortUpdate, IdsInv
  <2> QED
    BY <2>1, <2>2 DEF IdsInv, IdsNameOneResource
<1>5. CASE Reset
  BY <1>5 DEF Reset, IdsInv, IdsNameOneResource
<1>6. CASE UNCHANGED vars
  BY <1>6 DEF vars, IdsInv, IdsNameOneResource
<1> QED
  BY <1>1, <1>2, <1>3, <1>4, <1>5, <1>6 DEF Next

\* An id that the sink of RenderSession::Apply was given never stands for
\* another resource, whatever was removed, aborted or converted anew.
THEOREM IdsAreLasting == Spec => []IdsNameOneResource
<1>1. Init => IdsInv
  BY DEF Init, IdsInv, IdsNameOneResource, Unedited, Made
<1>2. IdsInv /\ [Next]_vars => IdsInv'
  BY NextKeepsIds
<1>3. IdsInv => IdsNameOneResource
  BY DEF IdsInv
<1> QED
  BY <1>1, <1>2, <1>3, PTL DEF Spec

-----------------------------------------------------------------------------
(* The sink. *)

\* The session knows the scene it shows; if the stage is one edit ahead of it,
\* the change set is that edit's.
BaseInv ==
  /\ IsScene(stage) /\ IsScene(shown)
  /\ revision \in Nat /\ published \in Nat /\ revision <= published
  /\ revision > 0 /\ revision = published => shown = stage
  /\ revision > 0 /\ published = revision + 1 =>
       stage \in Edits(shown) /\ changes = BuildStageChangeSet(shown, stage)

SyncInv == IdsInv /\ BaseInv /\ SinkInStep

\* Before the first update the sink has nothing.
LEMMA InitSync == Init => SyncInv
<1> SUFFICES ASSUME Init PROVE SyncInv
  OBVIOUS
<1>1. IdsInv
  BY DEF Init, IdsInv, IdsNameOneResource, Unedited, Made
<1>2. IsScene(Unedited(Prims))
  BY PrimsAssumption DEF IsScene, Unedited, Made, Properties
<1>3. BaseInv
  BY <1>2 DEF Init, BaseInv
<1>4. SinkInStep
  BY DEF Init, SinkInStep
<1> QED
  BY <1>1, <1>3, <1>4 DEF SyncInv

\* A new revision carries a change set that names what differs from the one
\* before.
LEMMA PublishKeepsSync ==
  ASSUME ~Rebinds, SyncInv, Publish
  PROVE  SyncInv'
<1>1. /\ stage' \in Edits(stage) /\ changes' = BuildStageChangeSet(stage, stage')
      /\ published' = published + 1
      /\ UNCHANGED <<revision, ids, next_id, sink, shown, known>>
  BY DEF Publish, Edits
<1>2. IsScene(stage')
  BY <1>1, UnnamedIsKept DEF SyncInv, BaseInv
<1>3. BaseInv'
  BY <1>1, <1>2 DEF SyncInv, BaseInv
<1>4. SinkInStep'
  BY <1>1 DEF SyncInv, SinkInStep
<1> QED
  BY <1>3, <1>4, NextKeepsIds DEF SyncInv, Next

\* What the sink has after an update that is not refused: every resource of the
\* stage under its id, upserted with its content or, if it was there, as it was.
LEMMA ApplyFillsSink ==
  ASSUME SyncInv, Apply,
         \A r \in Resources(stage) :
           \/ IsAffected(r, FullResync)
           \/ r \in DOMAIN ids /\ ids[r] \in DOMAIN sink /\ sink[ids[r]] = Content(r, stage)
  PROVE  SinkInStep'
<1> DEFINE given == [r \in Resources(stage) |-> IdFor(r)]
           upserted == {r \in Resources(stage) : IsAffected(r, FullResync)}
           of == [r \in upserted |-> given[r]]
           kept == Retained(Range(given))
<1>1. /\ ids' = given /\ shown' = stage
      /\ sink' = [i \in kept \cup Range(of) |->
                    IF i \in Range(of) THEN Content(CHOOSE r \in upserted : of[r] = i, stage)
                    ELSE sink[i]]
  BY DEF Apply
<1>2. \A r, s \in Resources(stage) : given[r] = given[s] => r = s
  BY GivenIds DEF SyncInv
<1>3. Range(of) \subseteq Range(given) /\ kept \subseteq Range(given) /\ kept \subseteq DOMAIN sink
  BY DEF Range, Retained
<1>4. \A r \in upserted : given[r] \in Range(of) /\ (CHOOSE s \in upserted : of[s] = given[r]) = r
  BY <1>2 DEF Range
<1>5. \A r \in Resources(stage) : r \notin upserted =>
        given[r] \notin Range(of) /\ given[r] \in kept /\ sink[given[r]] = Content(r, stage)
  <2> SUFFICES ASSUME NEW r \in Resources(stage), r \notin upserted
               PROVE  given[r] \notin Range(of) /\ given[r] \in kept
                      /\ sink[given[r]] = Content(r, stage)
    OBVIOUS
  <2>1. r \in DOMAIN ids /\ ids[r] \in DOMAIN sink /\ sink[ids[r]] = Content(r, stage)
    OBVIOUS
  <2>2. given[r] = ids[r]
    BY <2>1, IdForGives DEF SyncInv
  <2>3. given[r] \notin Range(of)
    BY <1>2 DEF Range
  <2> QED
    BY <2>1, <2>2, <2>3 DEF Retained, Range
<1> HIDE DEF upserted, kept, of, given
<1>6. DOMAIN given = Resources(stage) /\ Range(given) = {given[r] : r \in Resources(stage)}
  BY DEF given, Range
<1>7. upserted \subseteq Resources(stage)
  BY DEF upserted
<1>8. DOMAIN sink' = kept \cup Range(of)
  BY <1>1
<1>9. DOMAIN sink' = Range(given)
  BY <1>3, <1>4, <1>5, <1>6, <1>8
<1>10. \A r \in Resources(stage) : sink'[given[r]] = Content(r, stage)
  BY <1>1, <1>4, <1>5, <1>6, <1>8
<1> QED
  BY <1>1, <1>6, <1>9, <1>10 DEF SinkInStep

\* An update, by whatever path it takes, leaves the sink with what the revision
\* has.
LEMMA ApplyKeepsSync ==
  ASSUME SyncInv, Apply
  PROVE  SyncInv'
<1>1. /\ stage' = stage /\ shown' = stage /\ revision' = published
      /\ published' = published /\ changes' = changes /\ revision < published
  BY ApplyGives DEF SyncInv, Apply
<1>2. BaseInv'
  BY <1>1 DEF SyncInv, BaseInv
<1>3. ASSUME NEW r \in Resources(stage), ~IsAffected(r, FullResync)
      PROVE  r \in DOMAIN ids /\ ids[r] \in DOMAIN sink /\ sink[ids[r]] = Content(r, stage)
  <2>1. ~FullResync /\ ~Named(r, changes)
    BY <1>3 DEF IsAffected, Named
  <2>2. /\ revision > 0 /\ stage \in Edits(shown) /\ IsScene(shown)
        /\ changes = BuildStageChangeSet(shown, stage)
    BY <2>1 DEF FullResync, SyncInv, BaseInv
  <2>3. r \in Resources(shown) /\ Content(r, stage) = Content(r, shown)
    BY <2>1, <2>2, UnnamedIsKept
  <2> QED
    BY <2>2, <2>3 DEF SyncInv, SinkInStep, Range
<1>4. SinkInStep'
  BY <1>3, ApplyFillsSink
<1> QED
  BY <1>2, <1>4, NextKeepsIds DEF SyncInv, Next

\* A revision taken for one without effect has none.
LEMMA NoOpKeepsSync ==
  ASSUME SyncInv, ApplyNoOp
  PROVE  SyncInv'
<1>1. /\ stage' = stage /\ shown' = stage /\ revision' = published /\ revision < published
      /\ UNCHANGED <<published, changes, ids, next_id, sink, known>>
      /\ ~FullResync /\ ~HasRenderEffect
  BY DEF ApplyNoOp
<1>2. BaseInv'
  BY <1>1 DEF SyncInv, BaseInv
<1>3. /\ revision > 0 /\ stage \in Edits(shown) /\ IsScene(shown)
      /\ changes = BuildStageChangeSet(shown, stage)
  BY <1>1 DEF FullResync, SyncInv, BaseInv
<1>4. /\ DOMAIN ids = Resources(shown) /\ DOMAIN sink = Range(ids)
      /\ \A r \in DOMAIN ids : sink[ids[r]] = Content(r, shown)
  BY <1>3 DEF SyncInv, SinkInStep
<1>5. Resources(stage) = Resources(shown)
  BY <1>1, <1>3, UnnamedIsKept DEF HasRenderEffect
<1>6. \A r \in DOMAIN ids : ~Named(r, changes)
  BY <1>1 DEF HasRenderEffect, Named
<1>7. \A r \in DOMAIN ids : Content(r, stage) = Content(r, shown)
  BY <1>3, <1>4, <1>5, <1>6, UnnamedIsKept
<1>8. SinkInStep'
  BY <1>1, <1>4, <1>5, <1>7 DEF SinkInStep
<1> QED
  BY <1>2, <1>8, <1>1, NextKeepsIds DEF SyncInv, Next

\* Every step keeps the sink in step.
LEMMA NextKeepsSync ==
  ASSUME ~Rebinds, SyncInv, [Next]_vars
  PROVE  SyncInv'
<1>1. CASE AbortUpdate
  <2>1. UNCHANGED <<stage, published, changes, revision, ids, sink, shown, known>>
    BY <1>1 DEF AbortUpdate
  <2> QED
    BY <1>1, <2>1, NextKeepsIds DEF SyncInv, BaseInv, SinkInStep, Next
<1>2. CASE Reset
  <2>1. UNCHANGED <<stage, published, changes, shown>> /\ revision' = 0
    BY <1>2 DEF Reset
  <2>2. BaseInv' /\ SinkInStep'
    BY <2>1 DEF SyncInv, BaseInv, SinkInStep
  <2> QED
    BY <1>2, <2>2, NextKeepsIds DEF SyncInv, Next
<1>3. CASE UNCHANGED vars
  BY <1>3, NextKeepsIds DEF vars, SyncInv, BaseInv, SinkInStep
<1> QED
  BY <1>1, <1>2, <1>3, PublishKeepsSync, ApplyKeepsSync, NoOpKeepsSync DEF Next

\* As long as no edit changes the material that a mesh which stays is shown with,
\* be it by its binding or by the material that comes or goes, the sink has after
\* every update exactly what converting the revision gives, in any scene: what
\* RenderSession::Apply leaves out of an incremental update it has already.
THEOREM NothingIsLeftOut ==
  ASSUME ~Rebinds
  PROVE  Spec => []SinkInStep
<1>1. Init => SyncInv
  BY InitSync
<1>2. SyncInv /\ [Next]_vars => SyncInv'
  BY NextKeepsSync
<1>3. SyncInv => SinkInStep
  BY DEF SyncInv
<1> QED
  BY <1>1, <1>2, <1>3, PTL DEF Spec

-----------------------------------------------------------------------------
(* The session as the renderer sees it: Mirror.                              *)

\* The sink was told of every resource that is in use.
ToldInv == published > 0 /\ \A r \in DOMAIN ids : <<ids[r], r>> \in known

MirrorInv == SyncInv /\ ToldInv

\* What an update leaves out is in use already.
LEMMA UnaffectedIsInUse ==
  ASSUME SyncInv,
         NEW r \in Resources(stage), ~IsAffected(r, FullResync)
  PROVE  r \in DOMAIN ids
<1>1. ~FullResync /\ ~Named(r, changes)
  BY DEF IsAffected, Named
<1>2. /\ revision > 0 /\ stage \in Edits(shown) /\ IsScene(shown)
      /\ changes = BuildStageChangeSet(shown, stage)
  BY <1>1 DEF FullResync, SyncInv, BaseInv
<1> QED BY <1>1, <1>2, UnnamedIsKept DEF SyncInv, SinkInStep

\* After an update the sink was told of exactly the resources of the stage and
\* of what it was told before.
LEMMA ApplyTells ==
  ASSUME MirrorInv, Apply
  PROVE  known' = known \cup {<<ids'[r], r>> : r \in Resources(stage)}
<1> DEFINE given == [r \in Resources(stage) |-> IdFor(r)]
           upserted == {r \in Resources(stage) : IsAffected(r, FullResync)}
           of == [r \in upserted |-> given[r]]
<1>1. ids' = given /\ known' = known \cup {<<of[r], r>> : r \in upserted}
  BY DEF Apply
<1>2. ASSUME NEW r \in Resources(stage), r \notin upserted PROVE <<ids'[r], r>> \in known
  <2>1. r \in DOMAIN ids
    BY <1>2, UnaffectedIsInUse DEF MirrorInv
  <2>2. ids'[r] = ids[r]
    BY <1>1, <2>1, IdForGives DEF MirrorInv, SyncInv
  <2> QED BY <2>1, <2>2 DEF MirrorInv, ToldInv
<1>3. \A r \in upserted : of[r] = ids'[r]
  BY <1>1
<1> QED BY <1>1, <1>2, <1>3

\* The sink was told of what it has, at every moment.
LEMMA NextKeepsTold ==
  ASSUME ~Rebinds, MirrorInv, [Next]_vars
  PROVE  MirrorInv'
<1>1. ToldInv'
  <2>0. published \in Nat /\ published > 0
    BY DEF MirrorInv, ToldInv, SyncInv, BaseInv
  <2>1. CASE Publish
    BY <2>0, <2>1 DEF Publish, MirrorInv, ToldInv
  <2>2. CASE Apply
    <3>1. DOMAIN ids' = Resources(stage) /\ published' = published
      BY <2>2, ApplyGives DEF MirrorInv, SyncInv
    <3> QED BY <2>0, <2>2, <3>1, ApplyTells DEF ToldInv
  <2>3. CASE ApplyNoOp \/ AbortUpdate \/ UNCHANGED vars
    BY <2>3 DEF ApplyNoOp, AbortUpdate, vars, MirrorInv, ToldInv
  <2>4. CASE Reset
    BY <2>0, <2>4 DEF Reset, ToldInv
  <2> QED BY <2>1, <2>2, <2>3, <2>4 DEF Next
<1> QED BY <1>1, NextKeepsSync DEF MirrorInv

\* Which ids an update gives.
LEMMA ApplyIdentifies ==
  ASSUME MirrorInv, Apply
  PROVE  Image!Identify
<1>1. ids' = [r \in Resources(stage) |-> IdFor(r)]
  BY ApplyGives DEF MirrorInv, SyncInv
<1>2. \A r, s \in Resources(stage) : ids'[r] = ids'[s] => r = s
  BY <1>1, GivenIds DEF MirrorInv, SyncInv
<1>3. \A r \in Resources(stage) : r \in DOMAIN ids => ids'[r] = ids[r]
  BY <1>1, IdForGives DEF MirrorInv, SyncInv
<1>4. ASSUME NEW r \in Resources(stage), r \notin DOMAIN ids, NEW x \in known PROVE x[1] # ids'[r]
  <2>1. r \in New
    BY <1>4 DEF New
  <2>2. /\ ids'[r] \in next_id .. next_id + Cardinality(New) - 1 /\ Cardinality(New) \in Nat
        /\ next_id \in Nat /\ x[1] \in Nat /\ x[1] < next_id
    BY <1>1, <1>4, <2>1, IdForGives DEF MirrorInv, SyncInv, IdsInv
  <2> QED BY <2>2
<1> QED BY <1>1, <1>2, <1>3, <1>4 DEF Image!Identify

\* An update, whatever of it is sent, is the renderer's step to the scene.
LEMMA ApplyIsUpdate ==
  ASSUME MirrorInv, MirrorInv', Apply
  PROVE  Image!Update
<1> DEFINE scene == [r \in Resources(stage) |-> Content(r, stage)]
<1>1. /\ revision < published /\ revision' = published /\ published' = published
      /\ published > 0 /\ published \in Nat /\ stage' = stage /\ shown' = stage
  BY ApplyGives DEF MirrorInv, ToldInv, SyncInv, BaseInv, Apply
<1>2. /\ DOMAIN ids' = Resources(stage) /\ DOMAIN sink' = Range(ids')
      /\ \A r \in DOMAIN ids' : sink'[ids'[r]] = Content(r, stage)
  BY <1>1 DEF MirrorInv, SyncInv, SinkInStep
<1>3. known' = known \cup {<<ids'[r], r>> : r \in Resources(stage)}
  BY ApplyTells
<1>4. Image!Identify
  BY ApplyIdentifies
<1>5. DOMAIN sink' = {ids'[r] : r \in Resources(stage)}
  BY <1>2 DEF Range
<1>6. (revision < published) = TRUE /\ (revision' < published') = FALSE
  BY <1>1
<1> QED BY <1>1, <1>2, <1>3, <1>4, <1>5, <1>6 DEF Image!Update

\* A revision without effect is an update that has nothing to send.
LEMMA NoOpIsUpdate ==
  ASSUME MirrorInv, MirrorInv', ApplyNoOp
  PROVE  Image!Update
<1>1. /\ revision < published /\ revision' = published /\ published' = published
      /\ published > 0 /\ published \in Nat /\ stage' = stage /\ shown' = stage
      /\ UNCHANGED <<ids, sink, known>>
  BY DEF ApplyNoOp, MirrorInv, ToldInv, SyncInv, BaseInv
<1>2. /\ DOMAIN ids = Resources(stage) /\ DOMAIN sink = Range(ids)
      /\ \A r \in DOMAIN ids : sink[ids[r]] = Content(r, stage)
  BY <1>1 DEF MirrorInv, SyncInv, SinkInStep
<1>3. known = known \cup {<<ids[r], r>> : r \in Resources(stage)}
  BY <1>2 DEF MirrorInv, ToldInv
<1>4. Image!Identify
  BY <1>1, <1>2 DEF Image!Identify, MirrorInv, SyncInv, IdsInv
<1>5. DOMAIN sink = {ids[r] : r \in Resources(stage)}
  BY <1>2 DEF Range
<1>6. (revision < published) = TRUE /\ (revision' < published') = FALSE
  BY <1>1
<1> QED BY <1>1, <1>2, <1>3, <1>4, <1>5, <1>6 DEF Image!Update

\* As long as no edit changes the material that a mesh which stays is shown with,
\* the session implements Mirror:
\* an update of all, of the changed part or of nothing takes the renderer to the
\* scene as it is in one step, and resources that stay keep their ids.
THEOREM SessionImplementsMirror ==
  ASSUME ~Rebinds
  PROVE  Spec => ImplementsMirror
<1>1. Init => MirrorInv
  <2>1. Init => ToldInv
    BY DEF Init, ToldInv
  <2> QED BY <2>1, InitSync DEF MirrorInv
<1>2. MirrorInv /\ [Next]_vars => MirrorInv'
  BY NextKeepsTold
<1>3. Init => Image!Init
  BY DEF Init, Image!Init, Image!Empty
<1>4. MirrorInv /\ MirrorInv' /\ [Next]_vars => [Image!Next]_(Image!vars)
  <2> SUFFICES ASSUME MirrorInv, MirrorInv', [Next]_vars
               PROVE  Image!Next \/ UNCHANGED Image!vars
    OBVIOUS
  <2>1. revision \in Nat /\ published \in Nat /\ revision <= published /\ published > 0
    BY DEF MirrorInv, ToldInv, SyncInv, BaseInv
  <2>2. CASE Publish
    <3>1. (revision' < published') = TRUE /\ UNCHANGED <<ids, known, sink>>
      BY <2>1, <2>2 DEF Publish
    <3> QED BY <3>1 DEF Image!Next, Image!Publish
  <2>3. CASE Apply
    BY <2>3, ApplyIsUpdate DEF Image!Next
  <2>4. CASE ApplyNoOp
    BY <2>4, NoOpIsUpdate DEF Image!Next
  <2>5. CASE AbortUpdate \/ UNCHANGED vars
    <3>1. UNCHANGED <<stage, revision, published, ids, known, sink>>
      BY <2>5 DEF AbortUpdate, vars
    <3>2. UNCHANGED [r \in Resources(stage) |-> Content(r, stage)]
      BY <3>1 DEF Resources, PrimsOf, Content, Reads, Read, Unbound
    <3> QED BY <3>1, <3>2 DEF Image!vars
  <2>6. CASE Reset
    <3>1. /\ (revision' < published') = TRUE /\ ids' = << >> /\ known' = {} /\ sink' = << >>
          /\ stage' = stage
      BY <2>1, <2>6 DEF Reset
    <3> QED BY <3>1 DEF Image!Next, Image!Reset, Image!Empty
  <2> QED BY <2>2, <2>3, <2>4, <2>5, <2>6 DEF Next
<1> QED BY <1>1, <1>2, <1>3, <1>4, PTL DEF Spec, ImplementsMirror, Image!Spec
=============================================================================
