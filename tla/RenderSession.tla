--------------------------- MODULE RenderSession ---------------------------
(***************************************************************************)
(* tydra::next::RenderSession (src/tydra/next/render-session.cc), which    *)
(* keeps the resources of a sink, say a GPU renderer, in step with the     *)
(* revisions of a stage.  With the change set of the next revision         *)
(* (BuildStageChangeSet, src/next/lightusd-next.cc) it sends only the      *)
(* resources that the changes affect, and otherwise all of them.           *)
(*                                                                         *)
(* A prim path is the sequence of its names.  A stage maps the prims it    *)
(* has to the values of their properties, and a resource has as its        *)
(* content the values it is converted from.  Resources refer to others by  *)
(* position too; the sink gets the whole catalog for that with every       *)
(* update, and it is left out here.                                        *)
(***************************************************************************)
EXTENDS Naturals, FiniteSets, Functions, SequencesExt

CONSTANTS Prims,        \* paths; with a path also its parent
          TypeOf,       \* their types
          Edited,       \* the properties that edits may change
          MaterialOf,   \* the material that a mesh names if it has a binding
          Rebinds,      \* may an edit change the material that a mesh is shown with?
          MaxRevision,  \* bound
          MaxId         \* the greatest RenderId, which is not given out

ASSUME PrimsAssumption == /\ IsFiniteSet(Prims) /\ Prims \subseteq Seq(STRING)
                          /\ \A p \in Prims : Len(p) = 1 \/ (Len(p) > 1 /\ Front(p) \in Prims)
                          /\ TypeOf \in [Prims -> {"Xform", "Mesh", "Material", "Shader"}]
ASSUME RebindsAssumption == Rebinds \in BOOLEAN
ASSUME BoundsAssumption == MaxRevision \in Nat \ {0} /\ MaxId \in Nat \ {0}

VARIABLES stage, published, changes,  \* the last revision and its change set
          revision, ids, next_id,     \* RenderSession::Impl
          sink,                       \* what the sink has, by id
          shown,                      \* the stage at the session's revision
          known                       \* the resources the sink was told of, with their ids

vars == <<stage, published, changes, revision, ids, next_id, sink, shown, known>>

At(p) == {q \in Prims : IsPrefix(p, q)}  \* the subtree of p

-----------------------------------------------------------------------------
(***************************************************************************)
(* Stages and what the converter makes of them.                            *)
(***************************************************************************)
Properties == [Xform |-> {"xformOp"}, Mesh |-> {"xformOp", "points", "material:binding"},
               Material |-> {}, Shader |-> {"inputs:tint"}]
Values == {0, 1}

Authored(p) == [Properties[TypeOf[p]] -> Values]

\* Prims as they were made, their meshes bound (b = 1) or not.
Made(P, b)  == [p \in P |-> [n \in Properties[TypeOf[p]] |-> IF n = "material:binding" THEN b ELSE 0]]
Unedited(P) == Made(P, 0)

PrimsOf(s, types) == {p \in DOMAIN s : TypeOf[p] \in types}

\* RenderSceneConverter::Convert, with the keys by which resources are known.
Resources(s) ==
       {[kind |-> "Node", key |-> p]     : p \in PrimsOf(s, {"Xform", "Mesh"})}
  \cup {[kind |-> "Mesh", key |-> p]     : p \in PrimsOf(s, {"Mesh"})}
  \cup {[kind |-> "Material", key |-> p] : p \in PrimsOf(s, {"Material"})}

\* The properties that a resource is converted from: a node has its global
\* transform, a material its shaders.
Reads(r, s) ==
  CASE r.kind = "Node"     -> {<<p, "xformOp">> : p \in {q \in PrimsOf(s, {"Xform", "Mesh"}) : IsPrefix(q, r.key)}}
    [] r.kind = "Mesh"     -> {<<r.key, n>> : n \in {"points", "material:binding"}}
    [] r.kind = "Material" -> {<<p, "inputs:tint">> : p \in PrimsOf(s, {"Shader"}) \cap At(r.key)}

\* A binding to a material that the stage does not have gives the default, as
\* no binding does.
Unbound(x, s)  == x[2] = "material:binding" /\ MaterialOf[x[1]] \notin PrimsOf(s, {"Material"})
Read(x, s)     == IF Unbound(x, s) THEN 0 ELSE s[x[1]][x[2]]
Content(r, s)  == [x \in Reads(r, s) |-> Read(x, s)]

-----------------------------------------------------------------------------
(***************************************************************************)
(* Change sets.                                                            *)
(***************************************************************************)
\* ClassifyPropertyChange: by the property's name and its prim's type.
NameFlags == [n \in {"xformOp", "points", "material:binding", "inputs:tint"} |->
                CASE n = "xformOp" -> {"Transform"}
                  [] n = "points"  -> {"Topology"}
                  [] OTHER         -> {"Material"}]
TypeFlags == [Xform |-> {}, Mesh |-> {}, Material |-> {"Material"}, Shader |-> {"Material"}]

ClassifyPropertyChange(p, n) == NameFlags[n] \cup TypeFlags[TypeOf[p]]

\* Diff reports a prim that was added or removed at its parent, and reports the
\* ancestors of one as modified.
Structural(old, new) == {p \in (DOMAIN old \cup DOMAIN new) \ (DOMAIN old \cap DOMAIN new) :
                           Len(p) = 1 \/ Front(p) \in DOMAIN old \cap DOMAIN new}
Resynced(old, new)   == {p \in Prims : \E q \in Structural(old, new) : IsPrefix(p, q)}

Modified(p, old, new) == IF p \in DOMAIN old \cap DOMAIN new
                         THEN {n \in DOMAIN new[p] : old[p][n] # new[p][n]} ELSE {}

BuildStageChangeSet(old, new) ==
  {[path |-> p, flags |-> {f \in {"Resync"} : p \in Resynced(old, new)} \cup
                          UNION {ClassifyPropertyChange(p, n) : n \in Modified(p, old, new)}] :
   p \in {q \in Prims : q \in Resynced(old, new) \/ Modified(q, old, new) # {}}}

\* Which changes affect which resources.
KindFlags ==
  [Node     |-> {"Transform", "Visibility", "Metadata"},
   Mesh     |-> {"Topology", "Primvar", "Transform", "Animation", "Visibility"},
   Material |-> {"Material"}]

KindAffected(kind, flags) == flags \cap (KindFlags[kind] \cup {"Resync"}) # {}

\* Mutant: only resources below the path.
PathBelow(key, changed)   == IsPrefix(changed, key)
PathRelated(key, changed) == IsPrefix(changed, key) \/ IsPrefix(key, changed)

IsAffected(r, full) ==
  full \/ \E c \in changes : KindAffected(r.kind, c.flags) /\ PathRelated(r.key, c.path)

HasRenderEffect ==
  \E c \in changes : \/ "Resync" \in c.flags
                     \/ \E r \in DOMAIN ids : KindAffected(r.kind, c.flags) /\ PathRelated(r.key, c.path)

-----------------------------------------------------------------------------
(***************************************************************************)
(* The session.                                                            *)
(***************************************************************************)
New == Resources(stage) \ DOMAIN ids

\* Mutant: numbers new resources after those in use.
IdsInUse == Cardinality(DOMAIN ids) + 1
FirstId  == next_id

\* Mutant: gives every resource the next id.
IdAnew(r) == FirstId + (CHOOSE i \in 0 .. Cardinality(Resources(stage)) - 1 :
                          SetToSeq(Resources(stage))[i + 1] = r)

\* IdFor: a key keeps its id, a new one gets the next.
IdFor(r) == IF r \in DOMAIN ids THEN ids[r]
            ELSE FirstId + (CHOOSE i \in 0 .. Cardinality(New) - 1 : SetToSeq(New)[i + 1] = r)

Retained(given) == DOMAIN sink \cap given

FullResync == revision = 0 \/ published # revision + 1

\* The sink accepts the update: the affected resources are upserted, and those
\* that are gone are removed.
Apply ==
  /\ revision < published
  /\ FullResync \/ HasRenderEffect
  /\ next_id + Cardinality(New) <= MaxId
  /\ LET given == [r \in Resources(stage) |-> IdFor(r)]
         upserted == {r \in Resources(stage) : IsAffected(r, FullResync)}
         of == [r \in upserted |-> given[r]]
         kept == Retained(Range(given))
     IN  /\ ids' = given
         /\ sink' = [i \in kept \cup Range(of) |->
                       IF i \in Range(of) THEN Content(CHOOSE r \in upserted : of[r] = i, stage)
                       ELSE sink[i]]
         /\ known' = known \cup {<<of[r], r>> : r \in upserted}
  /\ next_id' = next_id + Cardinality(New)
  /\ revision' = published /\ shown' = stage
  /\ UNCHANGED <<stage, published, changes>>

\* A revision without effect on what is rendered: only the number moves on.
ApplyNoOp ==
  /\ revision < published /\ ~FullResync /\ ~HasRenderEffect
  /\ revision' = published /\ shown' = stage
  /\ UNCHANGED <<stage, published, changes, ids, next_id, sink, known>>

\* The conversion fails, the sink rejects the update at some point, or there
\* are no more ids: the sink keeps what it had, and some ids were given out.
AbortUpdate ==
  /\ revision < published
  /\ \E n \in 0 .. Cardinality(New) : next_id + n <= MaxId /\ next_id' = next_id + n
  /\ UNCHANGED <<stage, published, changes, revision, ids, sink, shown, known>>

\* The client starts over with an empty sink.
Reset ==
  /\ revision' = 0 /\ ids' = << >> /\ next_id' = 1 /\ sink' = << >> /\ known' = {}
  /\ UNCHANGED <<stage, published, changes, shown>>

(***************************************************************************)
(* The stage is edited; the client may skip a revision.                    *)
(***************************************************************************)
SetProperty(s) == UNION {{[s EXCEPT ![p][n] = v] : n \in Edited \cap DOMAIN s[p], v \in Values} :
                         p \in DOMAIN s}
RemovePrim(s)  == {Restrict(s, DOMAIN s \ At(p)) : p \in DOMAIN s}
AddPrim(s)     == UNION {{[q \in At(p) \cup DOMAIN s |-> IF q \in At(p) THEN Made(At(p), b)[q] ELSE s[q]] :
                          p \in {q \in Prims \ DOMAIN s : Len(q) = 1 \/ Front(q) \in DOMAIN s}} : b \in Values}

\* Each mesh that stays has the material it had.
Bindings(s) == {<<p, "material:binding">> : p \in PrimsOf(s, {"Mesh"})}
KeepsBindings(old, new) == \A x \in Bindings(old) \cap Bindings(new) : Read(x, new) = Read(x, old)

Publish ==
  /\ published < MaxRevision
  /\ \E next \in SetProperty(stage) \cup RemovePrim(stage) \cup AddPrim(stage) :
       /\ Rebinds \/ KeepsBindings(stage, next)
       /\ stage' = next
       /\ changes' = BuildStageChangeSet(stage, next)
  /\ published' = published + 1
  /\ UNCHANGED <<revision, ids, next_id, sink, shown, known>>

Init ==
  /\ stage = Unedited(Prims) /\ published = 1 /\ changes = {}
  /\ revision = 0 /\ ids = << >> /\ next_id = 1
  /\ sink = << >> /\ shown = stage /\ known = {}

Next == Publish \/ Apply \/ ApplyNoOp \/ AbortUpdate \/ Reset

Spec == Init /\ [][Next]_vars

-----------------------------------------------------------------------------
(***************************************************************************)
(* Properties.                                                             *)
(***************************************************************************)
\* An id the sink was given never stands for another resource, also not after
\* the first was removed or after updates that were aborted: next_id of
\* RenderSession::Impl only grows until Reset, when the sink is empty.
IdsNameOneResource == \A x, y \in known : x[1] = y[1] => x[2] = y[2]

\* After every update, whether of the changed part, of all or of nothing, the
\* sink has each resource of the revision under its id with the content that
\* converting the revision gives: what RenderSession::Apply leaves out is what
\* the sink has already.
SinkInStep ==
  revision > 0 =>
    /\ DOMAIN ids = Resources(shown)
    /\ DOMAIN sink = Range(ids)
    /\ \A r \in DOMAIN ids : sink[ids[r]] = Content(r, shown)

\* To the renderer an update is one step from the scene it had to the scene as
\* it is, whether RenderSession::Apply sends all resources, those that a change
\* set affects, or none; a rejected or failed one is no step at all, and a
\* resource that stays keeps its id through all of it.
Image == INSTANCE Mirror WITH
           scene <- [r \in Resources(stage) |-> Content(r, stage)],
           behind <- revision < published, told <- known
ImplementsMirror == Image!Spec
=============================================================================
