------------------------- MODULE StageSessionProofs -------------------------
(***************************************************************************)
(* Proofs about module StageSession.  The session's settings and cache do  *)
(* not depend on what was published, so SettingsInv is inductive with the  *)
(* types of those variables alone.  What was published is the subject of   *)
(* PublishedInv, for which an edit counts only as one of four kinds: it    *)
(* publishes, it is refused, or it returns the last result again, with the *)
(* last change set or an empty one.                                        *)
(***************************************************************************)
EXTENDS StageSession, FiniteSetTheorems, TLAPS

-----------------------------------------------------------------------------
(***************************************************************************)
(* The inductive invariant.                                                *)
(***************************************************************************)
SettingsType ==
  /\ disk \in 1 .. MaxVersion
  /\ open \in BOOLEAN /\ retiring \in BOOLEAN
  /\ cache \in Caches \cup {NoCache}
  /\ released \in Settings \cup {NoCache}
  /\ asked \in Settings

\* Two sets of layers are never in the session and its retiring thread.
LayersApart == retiring => cache = NoCache

SettingsInv ==
  /\ SettingsType
  /\ SettingsKept /\ LayersApart
  /\ cache # NoCache => released = NoCache

\* A session that is being built has the default settings, and the root is only
\* reloaded while the session is open.
BuildingInv ==
  /\ opening \in {"no", "file", "root"}
  /\ replacement \in Caches \cup {NoCache}
  /\ opening = "no" => replacement = NoCache
  /\ opening # "no" => /\ replacement \in Caches
                       /\ replacement.rules = DefaultRules /\ replacement.selections = DefaultSelections
  /\ opening = "root" => open

PublishedType ==
  /\ revision \in 0 .. MaxRevision
  /\ last_changes \in Changes
  /\ stage \in Objects
  /\ heap \in [Objects -> [scene : Scenes, stripped : BOOLEAN]]
  /\ returned \in {"nothing", "success", "failure"}
  /\ retained \subseteq Results
  /\ IsFiniteSet(retained) /\ Cardinality(retained) <= MaxRetained
  /\ render \in [revision : 0 .. MaxRevision, picture : Scenes \cup {Mixed}]

\* A later edit may publish.
Alive == open \/ cache # NoCache \/ released # NoCache

\* If a change set, kept with revision "to", starts from revision "at", then
\* it starts from the scene that revision has.
StartsFrom(changes, to, at, scene) ==
  ~changes.full /\ changes.base = at /\ 0 < at /\ at < to => changes.from = scene

RevisionsBounded ==
  /\ render.revision <= revision /\ last_changes.base <= revision
  /\ \A r \in retained : r.revision <= revision /\ r.changes.base <= revision

\* What the change sets start from: the revision on show, or one retained.
RetainedOnRender   == \A r \in retained : StartsFrom(r.changes, r.revision, render.revision, render.picture)
RetainedOnRetained == \A r, q \in retained : StartsFrom(r.changes, r.revision, q.revision, heap[q.stage].scene)
LastOnRender       == StartsFrom(last_changes, revision, render.revision, render.picture)
LastOnRetained     == \A q \in retained : StartsFrom(last_changes, revision, q.revision, heap[q.stage].scene)

\* While the session may publish, the current revision has one scene.
RenderCurrent   == Alive /\ 0 < revision /\ render.revision = revision => render.picture = heap[stage].scene
RetainedCurrent == Alive /\ 0 < revision =>
                     \A r \in retained : r.revision = revision => heap[r.stage].scene = heap[stage].scene

ChainInv == /\ RevisionsBounded
            /\ RetainedOnRender /\ RetainedOnRetained /\ LastOnRender /\ LastOnRetained
            /\ RenderCurrent /\ RetainedCurrent

PublishedInv == PublishedType /\ SnapshotsNeverChange /\ ChainInv /\ NeverMixed

-----------------------------------------------------------------------------
(***************************************************************************)
(* The settings and the cache.                                             *)
(***************************************************************************)
\* The settings and the cache that a file is opened with have their types.
LEMMA DefaultsTyped == /\ Defaults \in Settings
                       /\ disk \in 1 .. MaxVersion => OpenedCache \in Caches
BY DefaultsAssumption DEF Defaults, OpenedCache, Settings, Caches

\* A session that was just made has the default settings.
LEMMA SettingsInit == Init => SettingsInv
<1> SUFFICES ASSUME Init PROVE SettingsInv
  OBVIOUS
<1>1. disk = 1 /\ open = FALSE /\ cache = NoCache /\ released = NoCache /\ retiring = FALSE /\ asked = Defaults
  BY DEF Init
<1>2. 1 \in 1 .. MaxVersion
  BY BoundsAssumption
<1>3. SettingsType
  BY <1>1, <1>2, DefaultsTyped DEF SettingsType
<1> QED BY <1>1, <1>3 DEF SettingsInv, SettingsKept, LayersApart

\* An edit with cache c: whatever it sets, the cache ends with what is asked for.
LEMMA EditCacheSettings == ASSUME SettingsInv, EditCache, UNCHANGED disk PROVE SettingsInv'
<1>1. PICK c \in Caches : /\ RestoreCompositionCache(c)
                          /\ \/ SetPayloads(c) \/ SetVariantSelections(c) \/ ClearAbsentSelection(c)
                             \/ RebuildStage(c) \/ ReloadLayer(c)
  BY DEF EditCache
<1>2. /\ released' = NoCache /\ retiring' = FALSE
      /\ asked = [rules |-> c.rules, selections |-> c.selections]
  <2>1. CASE cache # NoCache /\ c = cache /\ UNCHANGED <<released, retiring>>
    BY <2>1 DEF SettingsInv, SettingsType, SettingsKept, LayersApart
  <2>2. CASE /\ cache = NoCache /\ released # NoCache
             /\ c = Restored
             /\ released' = NoCache /\ WaitForRetiringCache
    BY <2>2 DEF SettingsInv, SettingsType, SettingsKept, Restored, Settings, WaitForRetiringCache
  <2> QED BY <1>1, <2>1, <2>2 DEF RestoreCompositionCache
<1>3. cache' \in Caches /\ asked' = [rules |-> cache'.rules, selections |-> cache'.selections]
  <2>1. CASE SetPayloads(c)
    <3>1. PICK r \in Rules : asked' = [asked EXCEPT !.rules = r] /\ cache' = [c EXCEPT !.rules = r]
      BY <2>1 DEF SetPayloads, Rebuild
    <3> QED BY <1>2, <3>1 DEF Caches
  <2>2. CASE SetVariantSelections(c)
    <3>1. PICK s \in Selections : asked' = [asked EXCEPT !.selections = s] /\ cache' = [c EXCEPT !.selections = s]
      BY <2>2 DEF SetVariantSelections, Rebuild
    <3> QED BY <1>2, <3>1 DEF Caches
  <2>3. CASE ClearAbsentSelection(c)
    BY <1>2, <2>3 DEF ClearAbsentSelection
  <2>4. CASE RebuildStage(c)
    BY <1>2, <2>4 DEF RebuildStage, Rebuild
  <2>5. CASE ReloadLayer(c)
    <3>1. asked' = asked /\ \E n \in 0 .. MaxVersion : cache' = [c EXCEPT !.layers = n] \/ cache' = c
      BY <2>5, BoundsAssumption DEF ReloadLayer, Rebuild, SettingsInv, SettingsType
    <3> QED BY <1>2, <3>1 DEF Caches
  <2> QED BY <1>1, <2>1, <2>2, <2>3, <2>4, <2>5
<1>4. asked' \in Settings
  BY <1>3 DEF Caches, Settings
<1>5. open' = open
  BY DEF EditCache
<1> QED BY <1>2, <1>3, <1>4, <1>5 DEF SettingsInv, SettingsType, SettingsKept, LayersApart

\* No cache, or one that nobody has edited.
FreshCache(c) == \/ c = NoCache
                 \/ c \in Caches /\ c.rules = DefaultRules /\ c.selections = DefaultSelections

\* A session that starts over, with the file's composition or without.
LEMMA StartOverSettings ==
  ASSUME SettingsInv, UNCHANGED disk, open' \in BOOLEAN,
         FreshCache(cache'),
         released' = NoCache, retiring' = FALSE, asked' = Defaults
  PROVE  SettingsInv'
<1>1. disk \in 1 .. MaxVersion
  BY DEF SettingsInv, SettingsType
<1>2. asked' \in Settings /\ cache' \in Caches \cup {NoCache}
  BY <1>1, DefaultsTyped DEF FreshCache
<1>3. SettingsKept'
  BY DEF SettingsKept, Defaults, FreshCache
<1> QED BY <1>1, <1>2, <1>3 DEF SettingsInv, SettingsType, LayersApart

\* What becomes of the old cache and settings when a root layer is reloaded.
SettingsStay  == cache' = cache /\ released' = released /\ retiring' = retiring /\ asked' = asked
StartsOver(c) == cache' = c /\ released' = NoCache /\ retiring' = FALSE /\ asked' = Defaults

\* Each edit keeps the settings and the cache in step.
LEMMA EditSettings == ASSUME SettingsInv, Edit PROVE SettingsInv'
<1>1. UNCHANGED disk
  BY DEF Edit
<1>2. CASE EditCache
  BY <1>1, <1>2, EditCacheSettings
<1>3. CASE RestoreFails
  BY <1>1, <1>3 DEF RestoreFails, WaitForRetiringCache, SettingsInv, SettingsType, SettingsKept, LayersApart
<1>4. CASE Refused
  BY <1>1, <1>4 DEF Refused, SettingsInv, SettingsType, SettingsKept, LayersApart
<1>5. CASE RebuildUncomposed
  BY <1>1, <1>5 DEF RebuildUncomposed, SettingsInv, SettingsType, SettingsKept, LayersApart
<1>6. CASE ReloadUncomposedRoot
  <2>1. CASE SettingsStay
    BY <1>1, <1>6, <2>1 DEF ReloadUncomposedRoot, SettingsStay, SettingsInv, SettingsType, SettingsKept, LayersApart
  <2>2. CASE StartsOver(NoCache)
    <3>1. open' \in BOOLEAN
      BY <1>6 DEF ReloadUncomposedRoot, SettingsInv, SettingsType
    <3>2. FreshCache(cache')
      BY <2>2 DEF FreshCache, StartsOver
    <3>3. released' = NoCache /\ retiring' = FALSE /\ asked' = Defaults
      BY <2>2 DEF StartsOver
    <3> QED BY <1>1, <3>1, <3>2, <3>3, StartOverSettings
  <2>3. SettingsStay \/ StartsOver(NoCache)
    BY <1>6 DEF ReloadUncomposedRoot, WaitForRetiringCache, SettingsStay, StartsOver
  <2> QED BY <2>1, <2>2, <2>3
<1> QED BY <1>2, <1>3, <1>4, <1>5, <1>6 DEF Edit

\* A new session has the default settings, when it takes the place of the old one.
LEMMA FinishSettings ==
  ASSUME SettingsInv, BuildingInv, OpenUncomposed \/ FinishOpen \/ FinishReloadRoot PROVE SettingsInv'
<1>1. CASE OpenUncomposed \/ FinishOpen
  <2>1. /\ released' = NoCache /\ retiring' = FALSE /\ asked' = Defaults /\ disk' = disk
        /\ open' \in BOOLEAN
    BY <1>1, NamesAssumption DEF OpenUncomposed, FinishOpen, TakePlace, WaitForRetiringCache
  <2>2. FreshCache(cache')
    BY <1>1 DEF OpenUncomposed, FinishOpen, TakePlace, BuildingInv, FreshCache
  <2> QED BY <2>1, <2>2, StartOverSettings
<1>2. CASE FinishReloadRoot
  <2>1. disk' = disk /\ open' \in BOOLEAN
    BY <1>2 DEF FinishReloadRoot, SettingsInv, SettingsType
  <2>2. CASE SettingsStay
    BY <1>2, <2>1, <2>2 DEF SettingsStay, SettingsInv, SettingsType, SettingsKept, LayersApart
  <2>3. CASE StartsOver(replacement)
    <3>1. FreshCache(cache')
      BY <1>2, <2>3 DEF StartsOver, FinishReloadRoot, BuildingInv, FreshCache
    <3>2. released' = NoCache /\ retiring' = FALSE /\ asked' = Defaults
      BY <2>3 DEF StartsOver
    <3> QED BY <2>1, <3>1, <3>2, StartOverSettings
  <2>4. SettingsStay \/ StartsOver(replacement)
    BY <1>2 DEF FinishReloadRoot, WaitForRetiringCache, SettingsStay, StartsOver
  <2> QED BY <2>2, <2>3, <2>4
<1> QED BY <1>1, <1>2

\* Every step keeps the settings and the cache in step.
LEMMA SettingsStep == ASSUME SettingsInv, BuildingInv, [Next]_vars PROVE SettingsInv'
<1>1. CASE Edit
  BY <1>1, EditSettings
<1>2. CASE OpenUncomposed \/ FinishOpen \/ FinishReloadRoot
  BY <1>2, FinishSettings
<1>3. CASE TakeStage
  BY <1>3, DefaultsTyped DEF TakeStage, SettingsInv, SettingsType, SettingsKept, LayersApart
<1>4. CASE ReleaseCompositionCache
  <2>1. released' \in Settings /\ released' = asked
    BY <1>4 DEF ReleaseCompositionCache, SettingsInv, SettingsType, SettingsKept, Caches, Settings
  <2> QED BY <1>4, <2>1
      DEF ReleaseCompositionCache, SettingsInv, SettingsType, SettingsKept, LayersApart
<1>5. CASE CacheRetired
  BY <1>5 DEF CacheRetired, SettingsInv, SettingsType, SettingsKept, LayersApart
<1>6. CASE EditFile
  BY <1>6, BoundsAssumption DEF EditFile, session, SettingsInv, SettingsType, SettingsKept, LayersApart
<1>7. CASE \/ ReleaseStaticGeometryArrays \/ GetSnapshot \/ Discard \/ ApplyUpdate
           \/ BeginOpen \/ BeginReloadRoot \/ UNCHANGED vars
  <2>1. UNCHANGED <<disk, open, cache, released, retiring, asked>>
    BY <1>7 DEF ReleaseStaticGeometryArrays, GetSnapshot, Discard, ApplyUpdate, BeginOpen, BeginReloadRoot,
                vars, session
  <2> QED BY <2>1 DEF SettingsInv, SettingsType, SettingsKept, LayersApart
<1> QED BY <1>1, <1>2, <1>3, <1>4, <1>5, <1>6, <1>7 DEF Next, Call

\* Every step keeps the session that is being built as its step began it.
LEMMA BuildingStep == ASSUME SettingsInv, BuildingInv, [Next]_vars PROVE BuildingInv'
<1>1. CASE opening = "no" /\ UNCHANGED building
  BY <1>1 DEF building, BuildingInv
<1>2. CASE BeginOpen \/ BeginReloadRoot
  <2>1. OpenedCache \in Caches
    BY DefaultsTyped DEF SettingsInv, SettingsType
  <2>2. OpenedCache.rules = DefaultRules /\ OpenedCache.selections = DefaultSelections
    BY DEF OpenedCache
  <2> QED BY <1>2, <2>1, <2>2 DEF BeginOpen, BeginReloadRoot, BuildingInv, session
<1>3. CASE FinishOpen \/ FinishReloadRoot
  BY <1>3 DEF FinishOpen, FinishReloadRoot, BuildingInv
<1>4. CASE (CacheRetired \/ EditFile \/ UNCHANGED vars) /\ UNCHANGED building
  BY <1>4 DEF CacheRetired, EditFile, vars, session, building, BuildingInv
<1>5. UNCHANGED vars => UNCHANGED building
  BY DEF vars
<1> QED BY <1>1, <1>2, <1>3, <1>4, <1>5 DEF Next

\* At first no session is being built.
LEMMA BuildingInit == Init => BuildingInv
BY DEF Init, BuildingInv

\* The settings, the cache and the session being built, in every reachable state.
LEMMA SettingsInvariant == Spec => [](SettingsInv /\ BuildingInv)
<1>1. Init => SettingsInv /\ BuildingInv
  BY SettingsInit, BuildingInit
<1>2. SettingsInv /\ BuildingInv /\ [Next]_vars => (SettingsInv /\ BuildingInv)'
  BY SettingsStep, BuildingStep
<1> QED BY <1>1, <1>2, PTL DEF Spec

\* The cache, or what is kept of a released one, has the rules and selections
\* that were asked for.
THEOREM SettingsSurvive == Spec => []SettingsKept
<1>1. SettingsInv => SettingsKept
  BY DEF SettingsInv
<1> QED BY <1>1, SettingsInvariant, PTL

\* Whatever was released, restored, opened or reloaded, and however long the
\* retiring thread takes: one set of parsed layers is in memory, or two while a
\* new session is built beside the old one.
THEOREM LayersAreBounded == Spec => []LayerSetsBounded
<1>1. SettingsInv /\ BuildingInv => LayerSetsBounded
  <2> SUFFICES ASSUME SettingsInv, BuildingInv PROVE LayerSetsBounded
    OBVIOUS
  <2>1. One(cache # NoCache) + One(retiring) <= 1 /\ One(cache # NoCache) + One(retiring) \in Nat
    BY DEF SettingsInv, SettingsType, LayersApart, One
  <2>2. One(replacement # NoCache) \in {0, 1} /\ (opening = "no" => One(replacement # NoCache) = 0)
    BY DEF BuildingInv, One
  <2> QED BY <2>1, <2>2 DEF LayerSetsBounded, LayerSets
<1> QED BY <1>1, SettingsInvariant, PTL

-----------------------------------------------------------------------------
(***************************************************************************)
(* What was published: the shape of the steps.                             *)
(***************************************************************************)
Contents  == [scene : Scenes, stripped : BOOLEAN]
Bounded(R) == R \subseteq Results /\ IsFiniteSet(R) /\ Cardinality(R) <= MaxRetained

\* The result that an edit returns.
NewResult == [revision |-> revision', stage |-> stage', seen |-> heap'[stage'], changes |-> last_changes']

PublishingEdit == Alive /\ \E scene \in Scenes : Publish(scene) /\ (Success \/ (LateCancel /\ Failure))
RefusedEdit    == (Alive' => Alive) /\ NotPublished /\ Failure
RepeatedEdit   == Alive /\ NotPublished /\ Success
EmptyEdit      == /\ Alive
                  /\ last_changes' = [base |-> revision, new |-> revision,
                                      full |-> FALSE, from |-> heap[stage].scene]
                  /\ UNCHANGED <<revision, stage, heap>>
                  /\ Success

\* With at most MaxRetained results held, some object is held by none.
LEMMA SpareIsFree ==
  ASSUME NEW R, Bounded(R)
  PROVE  Spare(R) \in Objects /\ Spare(R) \notin Held(R)
<1>1. IsFiniteSet(Objects) /\ Cardinality(Objects) = MaxRetained + 2 /\ MaxRetained + 2 \in Int
  BY FS_Interval, BoundsAssumption DEF Objects
<1>2. Cardinality(R) < Cardinality(Objects)
  BY <1>1, FS_CardinalityType, BoundsAssumption DEF Bounded
<1>3. \E o \in Objects : o \notin Held(R)
  <2> SUFFICES ASSUME \A o \in Objects : o \in Held(R) PROVE FALSE
    OBVIOUS
  <2> DEFINE holder == [o \in Objects |-> CHOOSE r \in R : r.stage = o]
  <2>1. \A o \in Objects : holder[o] \in R /\ holder[o].stage = o
    BY DEF Held
  <2>2. holder \in [Objects -> R]
    BY <2>1
  <2> HIDE DEF holder
  <2>3. IsFiniteSet(R)
    BY DEF Bounded
  <2>4. \E x, y \in Objects : x # y /\ holder[x] = holder[y]
    BY <1>1, <1>2, <2>2, <2>3, FS_PigeonHole
  <2> QED BY <2>1, <2>4
<1> QED BY <1>3 DEF Spare

\* A new stage object leaves those of the results R alone.
LEMMA ResetStageSpares ==
  ASSUME PublishedType, NEW content \in Contents, NEW R \in SUBSET retained,
         Bounded(R), ResetStage(content, R)
  PROVE  /\ stage' \in Objects /\ heap' \in [Objects -> Contents]
         /\ heap'[stage'] = content
         /\ \A r \in R : heap'[r.stage] = heap[r.stage]
<1>1. stage' \in Objects /\ stage' \notin Held(R) /\ stage' = Spare(R)
  BY SpareIsFree DEF ResetStage
<1>2. Of(Empty) \in Contents
  BY DEF Of, Contents, Scenes
<1>3. heap \in [Objects -> Contents]
  BY DEF PublishedType, Contents
<1>4. heap' = [o \in Objects |-> IF o = stage' THEN content
                                 ELSE IF o \in Held(R) THEN heap[o] ELSE Of(Empty)]
  BY <1>1 DEF ResetStage
<1>5. heap' \in [Objects -> Contents]
  BY <1>2, <1>3, <1>4
<1>6. ASSUME NEW r \in R PROVE heap'[r.stage] = heap[r.stage]
  <2>1. r.stage \in Objects /\ r.stage \in Held(R)
    BY DEF PublishedType, Results, Held
  <2> QED BY <1>1, <1>4, <2>1
<1> QED BY <1>1, <1>4, <1>5, <1>6

\* PublishedType, with what is said of the retained results named.
LEMMA RetainedBounded == PublishedType <=> /\ Bounded(retained)
                                           /\ revision \in 0 .. MaxRevision
                                           /\ last_changes \in Changes
                                           /\ stage \in Objects
                                           /\ heap \in [Objects -> Contents]
                                           /\ returned \in {"nothing", "success", "failure"}
                                           /\ render \in [revision : 0 .. MaxRevision, picture : Scenes \cup {Mixed}]
BY DEF PublishedType, Bounded, Contents

\* The client keeps at most the new result, and never too many.
LEMMA KeepBounded ==
  ASSUME Bounded(retained), NEW r \in Results, Keep(r)
  PROVE  Bounded(retained') /\ retained' \subseteq retained \cup {r}
<1>1. CASE retained' = retained
  BY <1>1
<1>2. CASE Cardinality(retained) < MaxRetained /\ retained' = retained \cup {r}
  <2>1. IsFiniteSet(retained') /\ Cardinality(retained') <= Cardinality(retained) + 1
    <3>1. IsFiniteSet(retained)
      BY DEF Bounded
    <3>2. Cardinality(retained) \in Nat
      BY <3>1, FS_CardinalityType
    <3>3. /\ IsFiniteSet(retained \cup {r})
          /\ Cardinality(retained \cup {r}) = IF r \in retained THEN Cardinality(retained) ELSE Cardinality(retained) + 1
      BY <3>1, FS_AddElement
    <3> QED BY <1>2, <3>2, <3>3
  <2>2. Cardinality(retained') \in Nat /\ Cardinality(retained) \in Nat
    BY <2>1, FS_CardinalityType DEF Bounded
  <2>3. Cardinality(retained') <= MaxRetained
    BY <1>2, <2>1, <2>2, BoundsAssumption
  <2> QED BY <1>2, <2>1, <2>3 DEF Bounded
<1> QED BY <1>1, <1>2 DEF Keep

\* Every edit is of one of the four kinds, and leaves the renderer alone.
LEMMA EditKinds ==
  ASSUME SettingsInv, Edit
  PROVE  /\ render' = render
         /\ PublishingEdit \/ RefusedEdit \/ RepeatedEdit \/ EmptyEdit
<1>1. render' = render
  BY DEF Edit
<1>2. ASSUME NEW c \in Caches, Alive, Rebuild(c) PROVE PublishingEdit \/ RefusedEdit
  <2>1. c \in Scenes
    BY DEF Scenes
  <2>2. CASE NotPublished /\ Failure
    BY <1>2, <2>2 DEF RefusedEdit
  <2>3. CASE Publish(c) /\ (Success \/ (LateCancel /\ Failure))
    BY <1>2, <2>1, <2>3 DEF PublishingEdit
  <2> QED BY <1>2, <2>2, <2>3 DEF Rebuild
<1>3. CASE EditCache
  <2>1. PICK c \in Caches : /\ RestoreCompositionCache(c)
                            /\ \/ SetPayloads(c) \/ SetVariantSelections(c) \/ ClearAbsentSelection(c)
                               \/ RebuildStage(c) \/ ReloadLayer(c)
    BY <1>3 DEF EditCache
  <2>2. Alive
    BY <2>1 DEF RestoreCompositionCache, Alive
  <2>3. disk \in 0 .. MaxVersion /\ 0 \in 0 .. MaxVersion
    BY BoundsAssumption DEF SettingsInv, SettingsType
  <2>4. CASE SetPayloads(c)
    <3>1. PICK r \in Rules : Rebuild([c EXCEPT !.rules = r])
      BY <2>4 DEF SetPayloads
    <3>2. [c EXCEPT !.rules = r] \in Caches
      BY DEF Caches
    <3> QED BY <1>1, <1>2, <2>2, <3>1, <3>2
  <2>5. CASE SetVariantSelections(c)
    <3>1. PICK s \in Selections : Rebuild([c EXCEPT !.selections = s])
      BY <2>5 DEF SetVariantSelections
    <3>2. [c EXCEPT !.selections = s] \in Caches
      BY DEF Caches
    <3> QED BY <1>1, <1>2, <2>2, <3>1, <3>2
  <2>6. CASE ClearAbsentSelection(c)
    BY <1>1, <2>2, <2>6 DEF ClearAbsentSelection, EmptyEdit
  <2>7. CASE RebuildStage(c)
    BY <1>1, <1>2, <2>2, <2>7 DEF RebuildStage
  <2>8. CASE ReloadLayer(c)
    <3>1. [c EXCEPT !.layers = disk] \in Caches
      BY <2>3 DEF Caches
    <3>2. CASE Rebuild([c EXCEPT !.layers = disk])
      BY <1>1, <1>2, <2>2, <3>1, <3>2
    <3>3. CASE NotPublished /\ Failure
      BY <1>1, <2>2, <3>3 DEF RefusedEdit
    <3> QED BY <2>8, <3>2, <3>3 DEF ReloadLayer
  <2> QED BY <2>1, <2>4, <2>5, <2>6, <2>7, <2>8
<1>4. CASE RestoreFails
  BY <1>1, <1>4 DEF RestoreFails, RefusedEdit, Alive
<1>5. CASE Refused
  BY <1>1, <1>5 DEF Refused, RefusedEdit, Alive
<1>6. CASE RebuildUncomposed
  BY <1>1, <1>6 DEF RebuildUncomposed, RepeatedEdit, Alive
<1>7. CASE ReloadUncomposedRoot
  <2>1. Plain \in Scenes
    BY DEF Scenes
  <2>2. CASE Publish(Plain) /\ Success
    BY <1>1, <1>7, <2>1, <2>2 DEF ReloadUncomposedRoot, PublishingEdit, Alive
  <2>3. CASE NotPublished /\ Failure
    BY <1>1, <1>7, <2>3 DEF ReloadUncomposedRoot, RefusedEdit, Alive
  <2> QED BY <1>7, <2>2, <2>3 DEF ReloadUncomposedRoot
<1> QED BY <1>1, <1>3, <1>4, <1>5, <1>6, <1>7 DEF Edit

\* The end of the reload of a composed root is one of two of them.
LEMMA FinishReloadKinds ==
  ASSUME SettingsInv, BuildingInv, FinishReloadRoot
  PROVE  render' = render /\ (PublishingEdit \/ RefusedEdit)
<1>1. render' = render /\ Alive /\ replacement \in Scenes
  BY DEF FinishReloadRoot, BuildingInv, Alive, Scenes
<1>2. CASE Publish(replacement) /\ Success
  BY <1>1, <1>2 DEF PublishingEdit
<1>3. CASE NotPublished /\ Failure
  BY <1>1, <1>3 DEF RefusedEdit
<1> QED BY <1>1, <1>2, <1>3 DEF FinishReloadRoot

-----------------------------------------------------------------------------
(***************************************************************************)
(* What was published: the four kinds of edit.                             *)
(***************************************************************************)
\* The parts of a retained result.
LEMMA RetainedTyped ==
  ASSUME PublishedType, NEW r \in retained
  PROVE  /\ r.revision \in Nat /\ r.changes.base \in Nat /\ r.changes \in Changes
         /\ r.stage \in Objects /\ r.seen \in Contents
         /\ heap[r.stage] \in Contents /\ heap[r.stage].scene \in Scenes
BY BoundsAssumption DEF PublishedType, Results, Changes, Contents

\* The parts of the state that the proofs compare.
LEMMA NumbersTyped ==
  ASSUME PublishedType
  PROVE  /\ revision \in Nat /\ render.revision \in Nat /\ last_changes.base \in Nat
         /\ heap[stage] \in Contents /\ heap[stage].scene \in Scenes
BY BoundsAssumption DEF PublishedType, Changes, Contents

\* The new result is later than every other; what it starts from is what the
\* current revision has, in the renderer and in the results of that revision.
LEMMA PublishingStep ==
  ASSUME PublishedInv, PublishingEdit, render' = render
  PROVE  PublishedInv'
<1> DEFINE n == NewResult
<1>1. PICK scene \in Scenes : Publish(scene) /\ (Success \/ Failure)
  BY DEF PublishingEdit
<1>2. /\ Alive /\ PublishedType /\ SnapshotsNeverChange /\ NeverMixed
      /\ RevisionsBounded /\ RetainedOnRender /\ RetainedOnRetained
      /\ RenderCurrent /\ RetainedCurrent
  BY DEF PublishingEdit, PublishedInv, ChainInv
<1>3. /\ revision' = revision + 1 /\ revision' \in 0 .. MaxRevision
      /\ last_changes' = [base |-> revision, new |-> revision + 1,
                          full |-> revision = 0, from |-> heap[stage].scene]
  BY <1>1, <1>2, NumbersTyped, BoundsAssumption DEF Publish
<1>4. last_changes' \in Changes
  BY <1>2, <1>3, NumbersTyped DEF Changes
<1>5. Bounded(retained)
  BY <1>2, RetainedBounded
<1>6. Of(scene) \in Contents
  BY DEF Of, Contents
<1>7. /\ stage' \in Objects /\ heap' \in [Objects -> Contents] /\ heap'[stage'] = Of(scene)
      /\ \A r \in retained : heap'[r.stage] = heap[r.stage]
  BY <1>1, <1>2, <1>5, <1>6, ResetStageSpares DEF Publish
<1>8. /\ n \in Results /\ n.revision = revision + 1 /\ n.changes = last_changes'
      /\ n.stage = stage' /\ n.seen = heap'[stage']
  BY <1>3, <1>4, <1>7 DEF NewResult, Results, Contents
<1>9. Bounded(retained') /\ retained' \subseteq retained \cup {n}
  <2>1. CASE Success
    BY <1>5, <1>8, <2>1, KeepBounded DEF Success, NewResult
  <2>2. CASE Failure
    BY <1>5, <2>2 DEF Failure
  <2> QED BY <1>1, <2>1, <2>2
<1> HIDE DEF n
<1>10. returned' \in {"nothing", "success", "failure"}
  BY <1>1 DEF Success, Failure
<1>11. PublishedType'
  BY <1>2, <1>3, <1>4, <1>7, <1>9, <1>10 DEF PublishedType, Bounded, Contents
<1>12. SnapshotsNeverChange'
  BY <1>2, <1>7, <1>8, <1>9 DEF SnapshotsNeverChange
<1>13. RevisionsBounded'
  BY <1>2, <1>3, <1>8, <1>9, RetainedTyped, NumbersTyped DEF RevisionsBounded
<1>14. n.changes.base = revision /\ n.changes.full = (revision = 0) /\ n.changes.from = heap[stage].scene
  BY <1>3, <1>8
<1>15. RetainedOnRender'
  <2>1. StartsFrom(n.changes, n.revision, render.revision, render.picture)
    BY <1>2, <1>8, <1>14, NumbersTyped DEF StartsFrom, RenderCurrent
  <2> QED BY <1>2, <1>9, <2>1 DEF RetainedOnRender
<1>16. RetainedOnRetained'
  <2> SUFFICES ASSUME NEW r \in retained', NEW q \in retained'
               PROVE  StartsFrom(r.changes, r.revision, q.revision, heap'[q.stage].scene)
    BY DEF RetainedOnRetained
  <2>1. CASE r \in retained /\ q \in retained
    BY <1>2, <1>7, <2>1 DEF RetainedOnRetained
  <2>2. CASE r = n /\ q \in retained
    BY <1>2, <1>7, <1>8, <1>14, <2>2, RetainedTyped, NumbersTyped DEF StartsFrom, RetainedCurrent
  <2>3. CASE q = n
    BY <1>2, <1>8, <1>9, <1>14, <2>3, RetainedTyped, NumbersTyped DEF StartsFrom, RevisionsBounded
  <2> QED BY <1>9, <2>1, <2>2, <2>3
<1>17. LastOnRender'
  BY <1>2, <1>3, NumbersTyped DEF LastOnRender, StartsFrom, RenderCurrent
<1>18. LastOnRetained'
  <2> SUFFICES ASSUME NEW q \in retained'
               PROVE  StartsFrom(last_changes', revision', q.revision, heap'[q.stage].scene)
    BY DEF LastOnRetained
  <2>1. CASE q \in retained
    BY <1>2, <1>3, <1>7, <2>1, RetainedTyped, NumbersTyped DEF StartsFrom, RetainedCurrent
  <2>2. CASE q = n
    BY <1>2, <1>3, <1>8, <2>2, NumbersTyped DEF StartsFrom
  <2> QED BY <1>9, <2>1, <2>2
<1>19. RenderCurrent'
  BY <1>2, <1>3, NumbersTyped DEF RenderCurrent, RevisionsBounded
<1>20. RetainedCurrent'
  BY <1>2, <1>3, <1>8, <1>9, RetainedTyped, NumbersTyped DEF RetainedCurrent, RevisionsBounded
<1>21. NeverMixed'
  BY <1>2 DEF NeverMixed
<1> QED BY <1>11, <1>12, <1>13, <1>15, <1>16, <1>17, <1>18, <1>19, <1>20, <1>21 DEF PublishedInv, ChainInv

\* A refused edit changes nothing that was published.
LEMMA RefusedStep ==
  ASSUME PublishedInv, RefusedEdit, render' = render
  PROVE  PublishedInv'
<1>1. /\ UNCHANGED <<revision, last_changes, stage, heap, retained, render>> /\ (Alive' => Alive)
      /\ returned' \in {"nothing", "success", "failure"}
  BY DEF RefusedEdit, NotPublished, Failure
<1>2. PublishedType' /\ SnapshotsNeverChange' /\ NeverMixed'
  BY <1>1 DEF PublishedInv, PublishedType, SnapshotsNeverChange, NeverMixed
<1>3. ChainInv'
  BY <1>1 DEF PublishedInv, ChainInv, RevisionsBounded, RetainedOnRender, RetainedOnRetained,
              LastOnRender, LastOnRetained, RenderCurrent, RetainedCurrent
<1> QED BY <1>2, <1>3 DEF PublishedInv

\* The last result once more, or one that says nothing has changed.
LEMMA RepeatingStep ==
  ASSUME PublishedInv, RepeatedEdit \/ EmptyEdit, render' = render
  PROVE  PublishedInv'
<1> DEFINE n == NewResult
<1>1. /\ Alive /\ PublishedType /\ SnapshotsNeverChange /\ NeverMixed
      /\ RevisionsBounded /\ RetainedOnRender /\ RetainedOnRetained /\ LastOnRender /\ LastOnRetained
      /\ RenderCurrent /\ RetainedCurrent
  BY DEF RepeatedEdit, EmptyEdit, PublishedInv, ChainInv
<1>2. UNCHANGED <<revision, stage, heap>> /\ Success
  BY DEF RepeatedEdit, EmptyEdit, NotPublished
<1>3. \/ last_changes' = last_changes
      \/ last_changes' = [base |-> revision, new |-> revision, full |-> FALSE, from |-> heap[stage].scene]
  BY DEF RepeatedEdit, EmptyEdit, NotPublished
<1>4. last_changes' \in Changes
  <2>1. last_changes \in Changes
    BY <1>1 DEF PublishedType
  <2>2. revision \in Nat /\ heap[stage].scene \in Scenes
    BY <1>1, NumbersTyped
  <2>3. [base |-> revision, new |-> revision, full |-> FALSE, from |-> heap[stage].scene] \in Changes
    BY <2>2 DEF Changes
  <2> QED BY <1>3, <2>1, <2>3
<1>5. Bounded(retained)
  BY <1>1, RetainedBounded
<1>6. /\ n \in Results /\ n.revision = revision /\ n.changes = last_changes'
      /\ n.stage = stage /\ n.seen = heap[stage]
  BY <1>1, <1>2, <1>4 DEF NewResult, Results, PublishedType
<1>7. Bounded(retained') /\ retained' \subseteq retained \cup {n}
  BY <1>2, <1>5, <1>6, KeepBounded DEF Success, NewResult
<1> HIDE DEF n
<1>8. PublishedType'
  BY <1>1, <1>2, <1>4, <1>7 DEF PublishedType, Bounded, Success
<1>9. SnapshotsNeverChange' /\ NeverMixed'
  BY <1>1, <1>2, <1>6, <1>7 DEF SnapshotsNeverChange, NeverMixed
<1>10. last_changes'.base \in Nat /\ last_changes'.base <= revision
  BY <1>1, <1>3, <1>4, NumbersTyped DEF RevisionsBounded, Changes
<1>11. RevisionsBounded'
  BY <1>1, <1>2, <1>6, <1>7, <1>10, RetainedTyped, NumbersTyped DEF RevisionsBounded
<1>12. LastOnRender'
  BY <1>1, <1>2, <1>3, NumbersTyped DEF LastOnRender, StartsFrom
<1>13. \A q \in retained : StartsFrom(last_changes', revision, q.revision, heap[q.stage].scene)
  BY <1>1, <1>3, RetainedTyped, NumbersTyped DEF LastOnRetained, StartsFrom
<1>14. StartsFrom(last_changes', revision, n.revision, heap[n.stage].scene)
  BY <1>1, <1>6, NumbersTyped DEF StartsFrom
<1>15. LastOnRetained'
  BY <1>2, <1>7, <1>13, <1>14 DEF LastOnRetained
<1>16. RetainedOnRender'
  BY <1>1, <1>2, <1>6, <1>7, <1>12 DEF RetainedOnRender, LastOnRender
<1>17. RetainedOnRetained'
  <2> SUFFICES ASSUME NEW r \in retained', NEW q \in retained'
               PROVE  StartsFrom(r.changes, r.revision, q.revision, heap[q.stage].scene)
    BY <1>2 DEF RetainedOnRetained
  <2>1. CASE r \in retained /\ q \in retained
    BY <1>1, <2>1 DEF RetainedOnRetained
  <2>2. CASE r = n
    BY <1>6, <1>7, <1>13, <1>14, <2>2
  <2>3. CASE r \in retained /\ q = n
    BY <1>1, <1>6, <2>3, RetainedTyped, NumbersTyped DEF StartsFrom, RevisionsBounded
  <2> QED BY <1>7, <2>1, <2>2, <2>3
<1>18. RenderCurrent' /\ RetainedCurrent'
  BY <1>1, <1>2, <1>6, <1>7 DEF RenderCurrent, RetainedCurrent
<1> QED BY <1>8, <1>9, <1>11, <1>12, <1>15, <1>16, <1>17, <1>18 DEF PublishedInv, ChainInv

-----------------------------------------------------------------------------
(***************************************************************************)
(* What was published: the other calls, and the theorems.                  *)
(***************************************************************************)
\* Steps that neither publish nor show anything.
LEMMA QuietStep ==
  ASSUME PublishedInv, Alive' => Alive, returned' \in {"nothing", "success", "failure"},
         UNCHANGED <<revision, last_changes, stage, heap, render>>,
         retained' \subseteq retained
  PROVE  PublishedInv'
<1>1. PublishedType'
  <2>1. IsFiniteSet(retained') /\ Cardinality(retained') <= Cardinality(retained)
    BY FS_Subset DEF PublishedInv, PublishedType
  <2>2. Cardinality(retained') <= MaxRetained
    BY <2>1, FS_CardinalityType, BoundsAssumption DEF PublishedInv, PublishedType
  <2> QED BY <2>1, <2>2 DEF PublishedInv, PublishedType
<1>2. SnapshotsNeverChange' /\ NeverMixed'
  BY DEF PublishedInv, SnapshotsNeverChange, NeverMixed
<1>3. ChainInv'
  BY DEF PublishedInv, ChainInv, RevisionsBounded, RetainedOnRender, RetainedOnRetained,
         LastOnRender, LastOnRetained, RenderCurrent, RetainedCurrent
<1> QED BY <1>1, <1>2, <1>3 DEF PublishedInv

\* The session starts over: nothing is retained and nothing is on show.
LEMMA StartOverStep ==
  ASSUME BuildingInv, PublishedInv, OpenUncomposed \/ FinishOpen PROVE PublishedInv'
<1>1. /\ retained' = {} /\ render' = [revision |-> 0, picture |-> Empty]
      /\ returned' = "nothing"
  BY DEF OpenUncomposed, FinishOpen, TakePlace, ClientStartsOver, NotAnEdit
<1>2. PICK n \in {0, 1}, scene \in Scenes : Opened(n, scene)
  <2>1. Plain \in Scenes /\ Empty \in Scenes /\ (FinishOpen => replacement \in Scenes)
    BY DEF Scenes, FinishOpen, BuildingInv
  <2> QED BY <2>1 DEF OpenUncomposed, FinishOpen
<1>3. Bounded({})
  BY FS_EmptySet, BoundsAssumption DEF Bounded
<1>4. Of(scene) \in Contents
  BY DEF Of, Contents
<1>5. stage' \in Objects /\ heap' \in [Objects -> Contents]
  BY <1>2, <1>3, <1>4, ResetStageSpares DEF Opened, PublishedInv
<1>6. revision' = n /\ last_changes' = [base |-> 0, new |-> n, full |-> n > 0, from |-> Empty]
  BY <1>2 DEF Opened, NoChanges
<1>7. Empty \in Scenes /\ Empty # Mixed
  BY NamesAssumption DEF Scenes
<1>8. last_changes' \in Changes /\ revision' \in 0 .. MaxRevision
  BY <1>6, <1>7, BoundsAssumption DEF Changes
<1>9. render' \in [revision : 0 .. MaxRevision, picture : Scenes \cup {Mixed}]
  BY <1>1, <1>7, BoundsAssumption
<1>10. PublishedType'
  BY <1>1, <1>3, <1>5, <1>8, <1>9 DEF PublishedType, Bounded, Contents
<1>11. SnapshotsNeverChange' /\ NeverMixed'
  BY <1>1, <1>7 DEF SnapshotsNeverChange, NeverMixed
<1>12. ChainInv'
  BY <1>1, <1>6 DEF ChainInv, RevisionsBounded, RetainedOnRender, RetainedOnRetained,
     LastOnRender, LastOnRetained, RenderCurrent, RetainedCurrent, StartsFrom
<1> QED BY <1>10, <1>11, <1>12 DEF PublishedInv

\* The client lets go of its results and resets the renderer.
LEMMA BeginOpenStep == ASSUME PublishedInv, BeginOpen PROVE PublishedInv'
<1>1. /\ retained' = {} /\ render' = [revision |-> 0, picture |-> Empty] /\ returned' = "nothing"
      /\ UNCHANGED <<revision, last_changes, stage, heap>>
  BY DEF BeginOpen, ClientStartsOver, NotAnEdit, session
<1>2. Bounded({}) /\ Empty \in Scenes /\ Empty # Mixed
  BY FS_EmptySet, BoundsAssumption, NamesAssumption DEF Bounded, Scenes
<1>3. PublishedType'
  <2>1. render' \in [revision : 0 .. MaxRevision, picture : Scenes \cup {Mixed}]
    BY <1>1, <1>2, BoundsAssumption
  <2> QED BY <1>1, <1>2, <2>1 DEF PublishedInv, PublishedType, Bounded
<1>4. SnapshotsNeverChange' /\ NeverMixed'
  BY <1>1, <1>2 DEF SnapshotsNeverChange, NeverMixed
<1>5. ChainInv'
  BY <1>1, NumbersTyped DEF PublishedInv, ChainInv, RevisionsBounded, RetainedOnRender, RetainedOnRetained,
     LastOnRender, LastOnRetained, RenderCurrent, RetainedCurrent, StartsFrom
<1> QED BY <1>3, <1>4, <1>5 DEF PublishedInv

\* The session's object is replaced or stripped; those retained are not.
LEMMA ObjectStep ==
  ASSUME PublishedInv, stage' \in Objects, heap' \in [Objects -> Contents],
         \A r \in retained : heap'[r.stage] = heap[r.stage],
         ~Alive' \/ ((Alive' => Alive) /\ heap'[stage'].scene = heap[stage].scene),
         returned' \in {"nothing", "success", "failure"},
         UNCHANGED <<revision, last_changes, retained, render>>
  PROVE  PublishedInv'
<1>1. PublishedType'
  BY DEF PublishedInv, PublishedType, Contents
<1>2. SnapshotsNeverChange' /\ NeverMixed'
  BY DEF PublishedInv, SnapshotsNeverChange, NeverMixed
<1>3. RevisionsBounded' /\ RetainedOnRender' /\ LastOnRender'
  BY DEF PublishedInv, ChainInv, RevisionsBounded, RetainedOnRender, LastOnRender
<1>4. RetainedOnRetained' /\ LastOnRetained'
  BY DEF PublishedInv, ChainInv, RetainedOnRetained, LastOnRetained
<1>5. RenderCurrent' /\ RetainedCurrent'
  BY DEF PublishedInv, ChainInv, RenderCurrent, RetainedCurrent
<1> QED BY <1>1, <1>2, <1>3, <1>4, <1>5 DEF PublishedInv, ChainInv

\* The stage that is moved out leaves a session that publishes no more.
LEMMA TakeStageStep == ASSUME PublishedInv, TakeStage PROVE PublishedInv'
<1>1. /\ ~Alive' /\ returned' = "nothing"
      /\ UNCHANGED <<revision, last_changes, retained, render>>
  BY DEF TakeStage, Alive, NotAnEdit
<1>2. Bounded(retained) /\ Of(Empty) \in Contents
  BY RetainedBounded DEF PublishedInv, Of, Contents, Scenes
<1>3. /\ stage' \in Objects /\ heap' \in [Objects -> Contents]
      /\ \A r \in retained : heap'[r.stage] = heap[r.stage]
  BY <1>2, ResetStageSpares DEF TakeStage, PublishedInv
<1> QED BY <1>1, <1>3, ObjectStep

\* Stripping changes the object, not the scene.
LEMMA ReleaseGeometryStep == ASSUME PublishedInv, ReleaseStaticGeometryArrays PROVE PublishedInv'
<1>1. /\ (Alive' => Alive) /\ returned' = "nothing"
      /\ UNCHANGED <<revision, last_changes, retained, render>>
  BY DEF ReleaseStaticGeometryArrays, Alive, NotAnEdit
<1>2. Stripped \in Contents /\ Stripped.scene = heap[stage].scene
  BY NumbersTyped DEF PublishedInv, Stripped, Contents
<1>3. /\ stage' \in Objects /\ heap' \in [Objects -> Contents] /\ heap'[stage'] = Stripped
      /\ \A r \in retained : heap'[r.stage] = heap[r.stage]
  <2>1. CASE Shared
    <3>1. ResetStage(Stripped, retained) /\ Bounded(retained)
      BY <2>1, RetainedBounded DEF ReleaseStaticGeometryArrays, Strip, PublishedInv
    <3> QED BY <1>2, <3>1, ResetStageSpares DEF PublishedInv
  <2>2. CASE ~Shared
    <3>1. heap' = [heap EXCEPT ![stage] = Stripped] /\ stage' = stage
      BY <2>2 DEF ReleaseStaticGeometryArrays, Strip
    <3>2. stage \in Objects /\ heap \in [Objects -> Contents]
      BY DEF PublishedInv, PublishedType, Contents
    <3>3. \A r \in retained : r.stage # stage
      BY <2>2 DEF Shared
    <3>4. \A r \in retained : r.stage \in Objects
      BY RetainedTyped DEF PublishedInv
    <3> QED BY <1>2, <3>1, <3>2, <3>3, <3>4
  <2> QED BY <2>1, <2>2
<1> QED BY <1>1, <1>2, <1>3, ObjectStep

\* A snapshot of the current revision starts from nothing.
LEMMA GetSnapshotStep == ASSUME PublishedInv, GetSnapshot PROVE PublishedInv'
<1> DEFINE n == [revision |-> revision, stage |-> stage, seen |-> heap[stage],
                 changes |-> [base |-> 0, new |-> revision, full |-> TRUE, from |-> Empty]]
<1>1. /\ Cardinality(retained) < MaxRetained /\ retained' = retained \cup {n}
      /\ returned' = "nothing" /\ (Alive' => Alive)
      /\ UNCHANGED <<revision, last_changes, stage, heap, render>>
  BY DEF GetSnapshot, session, Alive, NotAnEdit
<1>2. /\ PublishedType /\ SnapshotsNeverChange /\ NeverMixed
      /\ RevisionsBounded /\ RetainedOnRender /\ RetainedOnRetained /\ LastOnRender /\ LastOnRetained
      /\ RenderCurrent /\ RetainedCurrent
  BY DEF PublishedInv, ChainInv
<1>3. Bounded(retained)
  BY <1>2, RetainedBounded
<1>4. n \in Results
  <2>1. n.changes \in Changes
    BY <1>2, NumbersTyped DEF Changes, Scenes
  <2>2. heap[stage] \in [scene : Scenes, stripped : BOOLEAN] /\ stage \in Objects /\ revision \in 0 .. MaxRevision
    BY <1>2 DEF PublishedType
  <2> QED BY <2>1, <2>2 DEF Results
<1>5. /\ n.revision = revision /\ n.stage = stage /\ n.seen = heap[stage]
      /\ n.changes.full = TRUE /\ n.changes.base = 0
  OBVIOUS
<1> HIDE DEF n
<1>6. Bounded(retained')
  BY <1>1, <1>3, <1>4, KeepBounded DEF Keep
<1>7. PublishedType'
  BY <1>1, <1>2, <1>6 DEF PublishedType, Bounded
<1>8. SnapshotsNeverChange' /\ NeverMixed'
  BY <1>1, <1>2, <1>5 DEF SnapshotsNeverChange, NeverMixed
<1>9. RevisionsBounded'
  BY <1>1, <1>2, <1>5, NumbersTyped DEF RevisionsBounded
<1>10. RetainedOnRender' /\ LastOnRender'
  BY <1>1, <1>2, <1>5 DEF RetainedOnRender, LastOnRender, StartsFrom
<1>11. RetainedOnRetained'
  <2> SUFFICES ASSUME NEW r \in retained', NEW q \in retained'
               PROVE  StartsFrom(r.changes, r.revision, q.revision, heap[q.stage].scene)
    BY <1>1 DEF RetainedOnRetained
  <2>1. CASE r \in retained /\ q \in retained
    BY <1>2, <2>1 DEF RetainedOnRetained
  <2>2. CASE r = n
    BY <1>5, <2>2 DEF StartsFrom
  <2>3. CASE r \in retained /\ q = n
    BY <1>2, <1>5, <2>3, RetainedTyped, NumbersTyped DEF StartsFrom, RevisionsBounded
  <2> QED BY <1>1, <2>1, <2>2, <2>3
<1>12. LastOnRetained'
  BY <1>1, <1>2, <1>5, NumbersTyped DEF LastOnRetained, StartsFrom
<1>13. RenderCurrent' /\ RetainedCurrent'
  BY <1>1, <1>2, <1>5 DEF RenderCurrent, RetainedCurrent
<1> QED BY <1>7, <1>8, <1>9, <1>10, <1>11, <1>12, <1>13 DEF PublishedInv, ChainInv

\* The renderer takes the place of the result it shows.
LEMMA ApplyUpdateStep == ASSUME PublishedInv, ApplyUpdate PROVE PublishedInv'
<1>1. PICK r \in retained : /\ render.revision = 0 \/ r.revision > render.revision
                            /\ render' = [revision |-> r.revision, picture |-> Picture(r)]
  BY DEF ApplyUpdate
<1>2. /\ UNCHANGED <<revision, last_changes, stage, heap, retained>>
      /\ returned' = "nothing" /\ (Alive' => Alive)
  BY DEF ApplyUpdate, session, Alive, NotAnEdit
<1>3. /\ PublishedType /\ SnapshotsNeverChange /\ NeverMixed
      /\ RevisionsBounded /\ RetainedOnRender /\ RetainedOnRetained /\ LastOnRender /\ LastOnRetained
      /\ RenderCurrent /\ RetainedCurrent
  BY DEF PublishedInv, ChainInv
<1>4. Full(r) \/ render.picture = r.changes.from
  <2> SUFFICES ASSUME ~Full(r) PROVE render.picture = r.changes.from
    OBVIOUS
  <2>1. /\ ~r.changes.full /\ r.changes.base = render.revision
        /\ 0 < render.revision /\ render.revision < r.revision
    BY <1>1, <1>3, RetainedTyped, NumbersTyped DEF Full
  <2> QED BY <1>3, <2>1 DEF RetainedOnRender, StartsFrom
<1>5. render'.revision = r.revision /\ render'.picture = heap[r.stage].scene
  BY <1>1, <1>4 DEF Picture
<1>6. heap[r.stage].scene \in Scenes /\ r.revision \in 0 .. MaxRevision
  BY <1>3, RetainedTyped DEF PublishedType, Results
<1>7. PublishedType'
  <2>1. render' \in [revision : 0 .. MaxRevision, picture : Scenes \cup {Mixed}]
    BY <1>1, <1>5, <1>6
  <2> QED BY <1>2, <1>3, <2>1 DEF PublishedType
<1>8. SnapshotsNeverChange' /\ NeverMixed'
  BY <1>2, <1>3, <1>5, <1>6, NamesAssumption DEF SnapshotsNeverChange, NeverMixed
<1>9. RevisionsBounded'
  BY <1>2, <1>3, <1>5 DEF RevisionsBounded
<1>10. RetainedOnRender' /\ LastOnRender'
  BY <1>2, <1>3, <1>5 DEF RetainedOnRender, RetainedOnRetained, LastOnRender, LastOnRetained
<1>11. RetainedOnRetained' /\ LastOnRetained'
  BY <1>2, <1>3 DEF RetainedOnRetained, LastOnRetained
<1>12. RenderCurrent' /\ RetainedCurrent'
  BY <1>2, <1>3, <1>5 DEF RenderCurrent, RetainedCurrent
<1> QED BY <1>7, <1>8, <1>9, <1>10, <1>11, <1>12 DEF PublishedInv, ChainInv

\* Nothing was published at first.
LEMMA PublishedInit == Init => PublishedInv
<1> SUFFICES ASSUME Init PROVE PublishedInv
  OBVIOUS
<1>1. /\ revision = 0 /\ last_changes = NoChanges /\ stage = 1 /\ heap = [o \in Objects |-> Of(Empty)]
      /\ returned = "nothing" /\ retained = {} /\ render = [revision |-> 0, picture |-> Empty]
  BY DEF Init
<1>2. Empty \in Scenes /\ Empty # Mixed /\ 0 \in 0 .. MaxRevision /\ 1 \in Objects
  BY NamesAssumption, BoundsAssumption DEF Scenes, Objects
<1>3. Of(Empty) \in Contents /\ NoChanges \in Changes
  BY <1>2 DEF Of, Contents, NoChanges, Changes
<1>4. Bounded({})
  BY FS_EmptySet, BoundsAssumption DEF Bounded
<1>5. PublishedType
  BY <1>1, <1>2, <1>3, <1>4 DEF PublishedType, Bounded, Contents
<1>6. SnapshotsNeverChange /\ NeverMixed
  BY <1>1, <1>2 DEF SnapshotsNeverChange, NeverMixed
<1>7. ChainInv
  BY <1>1 DEF NoChanges, ChainInv, RevisionsBounded, RetainedOnRender, RetainedOnRetained,
     LastOnRender, LastOnRetained, RenderCurrent, RetainedCurrent, StartsFrom
<1> QED BY <1>5, <1>6, <1>7 DEF PublishedInv

\* Every step keeps what was published.
LEMMA PublishedStep == ASSUME SettingsInv, BuildingInv, PublishedInv, [Next]_vars PROVE PublishedInv'
<1>1. CASE Edit \/ FinishReloadRoot
  BY <1>1, EditKinds, FinishReloadKinds, PublishingStep, RefusedStep, RepeatingStep
<1>2. CASE OpenUncomposed \/ FinishOpen \/ BeginOpen
  BY <1>2, StartOverStep, BeginOpenStep
<1>3. CASE TakeStage
  BY <1>3, TakeStageStep
<1>4. CASE ReleaseStaticGeometryArrays
  BY <1>4, ReleaseGeometryStep
<1>5. CASE GetSnapshot
  BY <1>5, GetSnapshotStep
<1>6. CASE ApplyUpdate
  BY <1>6, ApplyUpdateStep
<1>7. CASE ReleaseCompositionCache \/ CacheRetired \/ Discard \/ EditFile \/ BeginReloadRoot
  <2>1. /\ (Alive' => Alive) /\ returned' = "nothing" /\ retained' \subseteq retained
        /\ UNCHANGED <<revision, last_changes, stage, heap, render>>
    BY <1>7 DEF ReleaseCompositionCache, CacheRetired, Discard, EditFile, BeginReloadRoot, session, Alive, NotAnEdit
  <2> QED BY <2>1, QuietStep
<1>8. CASE UNCHANGED vars
  <2>1. /\ (Alive' => Alive) /\ returned' \in {"nothing", "success", "failure"} /\ retained' \subseteq retained
        /\ UNCHANGED <<revision, last_changes, stage, heap, render>>
    BY <1>8 DEF vars, session, Alive, PublishedInv, PublishedType
  <2> QED BY <2>1, QuietStep
<1> QED BY <1>1, <1>2, <1>3, <1>4, <1>5, <1>6, <1>7, <1>8 DEF Next, Call

\* The parts of the inductive invariant hold in every reachable state.
THEOREM InductiveInvariant == Spec => [](SettingsInv /\ BuildingInv /\ PublishedInv)
<1>1. Init => SettingsInv /\ BuildingInv /\ PublishedInv
  BY SettingsInit, BuildingInit, PublishedInit
<1>2. SettingsInv /\ BuildingInv /\ PublishedInv /\ [Next]_vars => (SettingsInv /\ BuildingInv /\ PublishedInv)'
  BY SettingsStep, BuildingStep, PublishedStep
<1> QED BY <1>1, <1>2, PTL DEF Spec

\* Every variable of the session, the client and the renderer keeps its type.
THEOREM TypeCorrect == Spec => []TypeOK
<1>1. SettingsInv /\ BuildingInv /\ PublishedInv => TypeOK
  BY DEF SettingsInv, SettingsType, BuildingInv, PublishedInv, PublishedType, TypeOK
<1> QED BY <1>1, InductiveInvariant, PTL

\* A snapshot never changes once it was taken.
THEOREM SnapshotsAreImmutable == Spec => []SnapshotsNeverChange
<1>1. PublishedInv => SnapshotsNeverChange
  BY DEF PublishedInv
<1> QED BY <1>1, InductiveInvariant, PTL

\* The renderer never shows parts of different scenes.
THEOREM PictureIsOfOneScene == Spec => []NeverMixed
<1>1. PublishedInv => NeverMixed
  BY DEF PublishedInv
<1> QED BY <1>1, InductiveInvariant, PTL

\* If no callback refuses the last report, an edit that fails has published
\* nothing.
THEOREM FailuresPublishNothing == ASSUME LateCancel = FALSE PROVE Spec => FailurePublishesNothing
<1> DEFINE Kept == returned' = "failure" => UNCHANGED <<revision, stage>>
<1>1. ASSUME SettingsInv, BuildingInv, [Next]_vars PROVE Kept \/ UNCHANGED vars
  <2>1. CASE Edit \/ FinishReloadRoot
    <3>1. PublishingEdit \/ RefusedEdit \/ RepeatedEdit \/ EmptyEdit
      BY <1>1, <2>1, EditKinds, FinishReloadKinds
    <3> QED BY <3>1 DEF PublishingEdit, RefusedEdit, RepeatedEdit, EmptyEdit, Success, NotPublished
  <2>2. CASE \/ OpenUncomposed \/ BeginOpen \/ FinishOpen \/ BeginReloadRoot
             \/ TakeStage \/ ReleaseCompositionCache \/ CacheRetired
             \/ ReleaseStaticGeometryArrays \/ GetSnapshot \/ Discard
             \/ EditFile \/ ApplyUpdate
    <3>1. returned' = "nothing"
      BY <2>2 DEF OpenUncomposed, BeginOpen, FinishOpen, BeginReloadRoot, TakePlace, TakeStage,
         ReleaseCompositionCache, CacheRetired, ReleaseStaticGeometryArrays,
         GetSnapshot, Discard, EditFile, ApplyUpdate, NotAnEdit
    <3> QED BY <3>1
  <2> QED BY <1>1, <2>1, <2>2 DEF Next, Call
<1>2. SettingsInv /\ BuildingInv /\ [Next]_vars => [Kept]_vars
  BY <1>1
<1> HIDE DEF Kept
<1>3. Spec => [][Kept]_vars
  BY <1>2, SettingsInvariant, PTL DEF Spec
<1> QED BY <1>3 DEF Kept, FailurePublishesNothing

-----------------------------------------------------------------------------
(***************************************************************************)
(* The session implements Document.                                        *)
(***************************************************************************)
\* The copies that the client of the document has.
CopyOf(r, h)  == [revision |-> r.revision, content |-> h[r.stage]]
Copies(R, h)  == {CopyOf(r, h) : r \in R}

\* Steps that leave the retained objects alone leave the copies alone.
LEMMA SameCopies ==
  ASSUME NEW R, NEW h, NEW g, \A r \in R : g[r.stage] = h[r.stage]
  PROVE  Copies(R, g) = Copies(R, h)
BY DEF Copies, CopyOf

\* With one more result, one more copy.
LEMMA OneMoreCopy ==
  ASSUME NEW R, NEW h, NEW n PROVE Copies(R \cup {n}, h) = Copies(R, h) \cup {CopyOf(n, h)}
BY DEF Copies, CopyOf

\* The client keeps the new result or not: it has a new copy or not.
LEMMA KeptCopies ==
  ASSUME Success, \A r \in retained : heap'[r.stage] = heap[r.stage]
  PROVE  Copies(retained', heap') \in {Copies(retained, heap), Copies(retained, heap) \cup {Contract!Copy'}}
<1>1. retained' \in {retained, retained \cup {NewResult}}
  BY DEF Success, Keep, NewResult
<1>2. CopyOf(NewResult, heap') = Contract!Copy'
  BY DEF CopyOf, NewResult, Contract!Copy
<1>3. Copies(retained, heap') = Copies(retained, heap)
  BY SameCopies
<1> QED BY <1>1, <1>2, <1>3, OneMoreCopy

\* A publication is one of the document.
LEMMA PublishContract ==
  ASSUME PublishedInv, NEW S, NEW scene \in Scenes \cap S, Publish(scene), Success \/ Failure, render' = render
  PROVE  Contract!Publish(S)
<1>1. Bounded(retained) /\ Of(scene) \in Contents
  BY RetainedBounded DEF PublishedInv, Of, Contents
<1>2. heap'[stage'] = Of(scene) /\ \A r \in retained : heap'[r.stage] = heap[r.stage]
  BY <1>1, ResetStageSpares DEF Publish, PublishedInv
<1>3. Copies(retained', heap') \in {Copies(retained, heap), Copies(retained, heap) \cup {Contract!Copy'}}
  <2>1. CASE Success
    BY <1>2, <2>1, KeptCopies
  <2>2. CASE Failure
    BY <1>2, <2>2, SameCopies DEF Failure
  <2> QED BY <2>1, <2>2
<1>4. heap'[stage'] = Contract!Whole(scene)
  BY <1>2 DEF Of, Contract!Whole
<1>5. revision' = revision + 1
  BY DEF Publish
<1> QED BY <1>3, <1>4, <1>5 DEF Contract!Publish, Copies, CopyOf

\* A rebuild publishes what was asked for or nothing.
LEMMA RebuildContract ==
  ASSUME PublishedInv, NEW s \in Settings, asked' = s, render' = render,
         NEW c \in Caches, c.rules = s.rules, c.selections = s.selections, Rebuild(c)
  PROVE  Contract!Edit(s)
<1>1. PICK S : S = ScenesBy[s]
  OBVIOUS
<1>2. c \in Scenes \cap S
  BY <1>1 DEF ScenesBy, Scenes
<1>3. CASE NotPublished /\ Failure
  BY <1>3 DEF NotPublished, Failure, Contract!Edit
<1>4. CASE Publish(c) /\ (Success \/ (LateCancel /\ Failure))
  <2>1. Contract!Publish(S)
    BY <1>2, <1>4, PublishContract
  <2> QED BY <1>1, <2>1 DEF Contract!Edit, Contract!Publish
<1> QED BY <1>3, <1>4 DEF Rebuild

\* The last result once more is a copy of the document as it is.
LEMMA RepeatContract ==
  ASSUME Success, UNCHANGED <<revision, stage, heap, asked, render>>
  PROVE  Contract!Next \/ UNCHANGED Contract!vars
<1>1. Copies(retained', heap') \in {Copies(retained, heap), Copies(retained, heap) \cup {Contract!Copy'}}
  BY KeptCopies
<1>2. Contract!Copy' = Contract!Copy
  BY DEF Contract!Copy
<1>3. CASE Copies(retained', heap') = Copies(retained, heap)
  BY <1>3 DEF Contract!vars, Copies, CopyOf
<1>4. CASE Copies(retained', heap') = Copies(retained, heap) \cup {Contract!Copy}
  <2>1. Contract!TakeCopy
    BY <1>4 DEF Contract!TakeCopy, Copies, CopyOf
  <2> QED BY <2>1 DEF Contract!Next
<1> QED BY <1>1, <1>2, <1>3, <1>4

\* Asking again for what was asked for is asking for one of the rules.
LEMMA AskedAgain ==
  ASSUME SettingsInv, NEW s, s = asked, Contract!Edit(s) PROVE Contract!Next
<1>1. asked.rules \in Rules /\ s = [asked EXCEPT !.rules = asked.rules]
  BY DEF SettingsInv, SettingsType, Settings
<1>2. \E r \in Rules : Contract!Edit([asked EXCEPT !.rules = r])
  BY <1>1 DEF Contract!Edit, Contract!Publish
<1> QED BY <1>2 DEF Contract!Next

\* An edit, and the cache it restores, are an edit of the document.
LEMMA EditCacheContract ==
  ASSUME SettingsInv, PublishedInv, EditCache, UNCHANGED render
  PROVE  Contract!Next \/ UNCHANGED Contract!vars
<1>1. PICK c \in Caches : /\ RestoreCompositionCache(c)
                          /\ \/ SetPayloads(c) \/ SetVariantSelections(c) \/ ClearAbsentSelection(c)
                             \/ RebuildStage(c) \/ ReloadLayer(c)
  BY DEF EditCache
<1>2. asked = [rules |-> c.rules, selections |-> c.selections] /\ asked \in Settings
  <2>1. CASE cache # NoCache /\ c = cache
    BY <2>1 DEF SettingsInv, SettingsType, SettingsKept
  <2>2. CASE released # NoCache /\ c = Restored
    BY <2>2 DEF SettingsInv, SettingsType, SettingsKept, Restored, Settings
  <2> QED BY <1>1, <2>1, <2>2 DEF RestoreCompositionCache
<1>3. CASE SetPayloads(c)
  <2>1. PICK r \in Rules : asked' = [asked EXCEPT !.rules = r] /\ Rebuild([c EXCEPT !.rules = r])
    BY <1>3 DEF SetPayloads
  <2>2. [c EXCEPT !.rules = r] \in Caches /\ asked' \in Settings
    BY <1>2, <2>1 DEF Caches, Settings
  <2>3. PICK t \in Settings, d \in Caches : t = asked' /\ d = [c EXCEPT !.rules = r]
    BY <2>2
  <2>4. d.rules = t.rules /\ d.selections = t.selections
    BY <1>2, <2>1, <2>3 DEF Caches
  <2>5. Contract!Edit(t)
    BY <2>1, <2>3, <2>4, RebuildContract
  <2> QED BY <2>1, <2>3, <2>5 DEF Contract!Next, Contract!Edit, Contract!Publish
<1>4. CASE SetVariantSelections(c)
  <2>1. PICK s \in Selections : asked' = [asked EXCEPT !.selections = s] /\ Rebuild([c EXCEPT !.selections = s])
    BY <1>4 DEF SetVariantSelections
  <2>2. [c EXCEPT !.selections = s] \in Caches /\ asked' \in Settings
    BY <1>2, <2>1 DEF Caches, Settings
  <2>3. PICK t \in Settings, d \in Caches : t = asked' /\ d = [c EXCEPT !.selections = s]
    BY <2>2
  <2>4. d.rules = t.rules /\ d.selections = t.selections
    BY <1>2, <2>1, <2>3 DEF Caches
  <2>5. Contract!Edit(t)
    BY <2>1, <2>3, <2>4, RebuildContract
  <2> QED BY <2>1, <2>3, <2>5 DEF Contract!Next, Contract!Edit, Contract!Publish
<1>5. CASE ClearAbsentSelection(c)
  BY <1>5, RepeatContract DEF ClearAbsentSelection
<1>6. ASSUME NEW d \in Caches, d.rules = c.rules, d.selections = c.selections, Rebuild(d), asked' = asked
      PROVE  Contract!Next
  <2>1. PICK s \in Settings : s = asked
    BY <1>2
  <2>2. d.rules = s.rules /\ d.selections = s.selections
    BY <1>2, <1>6, <2>1
  <2>3. Contract!Edit(s)
    BY <1>6, <2>1, <2>2, RebuildContract
  <2> QED BY <2>1, <2>3, AskedAgain
<1>7. CASE RebuildStage(c)
  BY <1>6, <1>7 DEF RebuildStage
<1>8. CASE ReloadLayer(c)
  <2>1. CASE Rebuild([c EXCEPT !.layers = disk])
    <3>1. [c EXCEPT !.layers = disk] \in Caches
      BY BoundsAssumption DEF SettingsInv, SettingsType, Caches
    <3>2. [c EXCEPT !.layers = disk].rules = c.rules /\ [c EXCEPT !.layers = disk].selections = c.selections
      BY DEF Caches
    <3> QED BY <1>6, <1>8, <2>1, <3>1, <3>2 DEF ReloadLayer
  <2>2. CASE NotPublished /\ Failure
    BY <1>8, <2>2 DEF ReloadLayer, NotPublished, Failure, Contract!vars
  <2> QED BY <1>8, <2>1, <2>2 DEF ReloadLayer
<1> QED BY <1>1, <1>3, <1>4, <1>5, <1>7, <1>8

\* The root read again is the document's file read again.
LEMMA ReloadRootContract ==
  ASSUME PublishedInv, NEW scene \in Scenes \cap (ScenesBy[Defaults] \cup {Plain}), UNCHANGED render,
         \/ Publish(scene) /\ asked' = Defaults /\ Success
         \/ NotPublished /\ Failure /\ asked' = asked
  PROVE  Contract!Next \/ UNCHANGED Contract!vars
<1>1. CASE NotPublished /\ Failure /\ asked' = asked
  BY <1>1 DEF NotPublished, Failure, Contract!vars
<1>2. CASE Publish(scene) /\ asked' = Defaults /\ Success
  <2>1. Contract!Publish(ScenesBy[Defaults] \cup {Plain})
    BY <1>2, PublishContract
  <2>2. Contract!ReloadRoot
    BY <1>2, <2>1 DEF Contract!ReloadRoot
  <2> QED BY <2>2 DEF Contract!Next
<1> QED BY <1>1, <1>2

\* What a new session composes is what the default settings give.
LEMMA ReplacementScene ==
  ASSUME BuildingInv, opening # "no"
  PROVE  replacement \in Scenes \cap ScenesBy[Defaults]
<1>1. replacement \in Caches /\ Defaults \in Settings
  BY DefaultsTyped DEF BuildingInv
<1> QED BY <1>1 DEF BuildingInv, Scenes, ScenesBy, Defaults

\* Every edit is an edit of the document, a copy of it, or nothing.
LEMMA EditContract ==
  ASSUME SettingsInv, PublishedInv, Edit PROVE Contract!Next \/ UNCHANGED Contract!vars
<1>1. UNCHANGED render
  BY DEF Edit
<1>2. CASE EditCache
  BY <1>1, <1>2, EditCacheContract
<1>3. CASE RestoreFails \/ Refused
  BY <1>1, <1>3 DEF RestoreFails, Refused, NotPublished, Failure, Contract!vars
<1>4. CASE RebuildUncomposed
  BY <1>1, <1>4, RepeatContract DEF RebuildUncomposed, NotPublished
<1>5. CASE ReloadUncomposedRoot
  <2>1. Plain \in Scenes \cap (ScenesBy[Defaults] \cup {Plain})
    BY DEF Scenes
  <2> QED BY <1>1, <1>5, <2>1, ReloadRootContract DEF ReloadUncomposedRoot
<1> QED BY <1>2, <1>3, <1>4, <1>5 DEF Edit

\* So is the end of the reload of a composed root.
LEMMA FinishReloadContract ==
  ASSUME BuildingInv, PublishedInv, FinishReloadRoot PROVE Contract!Next \/ UNCHANGED Contract!vars
<1>1. opening # "no"
  BY DEF FinishReloadRoot
<1>2. PICK scene \in Scenes \cap (ScenesBy[Defaults] \cup {Plain}) : scene = replacement
  BY <1>1, ReplacementScene
<1>3. /\ UNCHANGED render
      /\ \/ Publish(scene) /\ asked' = Defaults /\ Success
         \/ NotPublished /\ Failure /\ asked' = asked
  BY <1>2 DEF FinishReloadRoot
<1> QED BY <1>3, ReloadRootContract

\* A file that was opened is another document.
LEMMA OpenContract ==
  ASSUME BuildingInv, PublishedInv, OpenUncomposed \/ FinishOpen PROVE Contract!Next
<1>1. /\ retained' = {} /\ render' = [revision |-> 0, picture |-> Empty] /\ asked' = Defaults
      /\ \/ Opened(0, Empty) \/ Opened(1, Plain)
         \/ opening # "no" /\ Opened(1, replacement)
  BY DEF OpenUncomposed, FinishOpen, TakePlace, ClientStartsOver
<1>2. opening # "no" => replacement \in Scenes \cap ScenesBy[Defaults]
  BY ReplacementScene
<1>4. ASSUME NEW n, NEW scene \in Scenes, Opened(n, scene)
      PROVE  revision' = n /\ heap'[stage'] = Contract!Whole(scene)
  <2>1. Bounded({}) /\ Of(scene) \in Contents
    BY FS_EmptySet, BoundsAssumption DEF Bounded, Of, Contents
  <2> QED BY <1>4, <2>1, ResetStageSpares DEF Opened, PublishedInv, Of, Contract!Whole
<1>5. \/ revision' = 0 /\ heap'[stage'] = Contract!Whole(Empty)
      \/ revision' = 1 /\ \E scene \in ScenesBy[Defaults] \cup {Plain} : heap'[stage'] = Contract!Whole(scene)
  BY <1>1, <1>2, <1>4 DEF Scenes
<1>6. Contract!Open
  BY <1>1, <1>5 DEF Contract!Open
<1> QED BY <1>6 DEF Contract!Next

\* The stage moved out, or stripped under the snapshots that share it.
LEMMA ObjectContract ==
  ASSUME PublishedInv, TakeStage \/ ReleaseStaticGeometryArrays PROVE Contract!Next
<1>1. Bounded(retained) /\ Of(Empty) \in Contents /\ Stripped \in Contents
  BY RetainedBounded, NumbersTyped DEF PublishedInv, Of, Contents, Scenes, Stripped
<1>2. CASE TakeStage
  <2>1. heap'[stage'] = Of(Empty) /\ \A r \in retained : heap'[r.stage] = heap[r.stage]
    BY <1>1, <1>2, ResetStageSpares DEF TakeStage, PublishedInv
  <2>2. Copies(retained', heap') = Copies(retained, heap)
    BY <1>2, <2>1, SameCopies DEF TakeStage
  <2>3. Contract!Take
    BY <1>2, <2>1, <2>2 DEF TakeStage, Contract!Take, Contract!Whole, Of, Copies, CopyOf
  <2> QED BY <2>3 DEF Contract!Next
<1>3. CASE ReleaseStaticGeometryArrays
  <2>1. heap'[stage'] = Stripped /\ \A r \in retained : heap'[r.stage] = heap[r.stage]
    <3>1. CASE Shared
      BY <1>1, <1>3, <3>1, ResetStageSpares DEF ReleaseStaticGeometryArrays, Strip, PublishedInv
    <3>2. CASE ~Shared
      <4>1. heap' = [heap EXCEPT ![stage] = Stripped] /\ stage' = stage
        BY <1>3, <3>2 DEF ReleaseStaticGeometryArrays, Strip
      <4>2. stage \in Objects /\ heap \in [Objects -> Contents]
        BY DEF PublishedInv, PublishedType, Contents
      <4>3. \A r \in retained : r.stage # stage
        BY <3>2 DEF Shared
      <4>4. \A r \in retained : r.stage \in Objects
        BY RetainedTyped DEF PublishedInv
      <4> QED BY <4>1, <4>2, <4>3, <4>4
    <3> QED BY <3>1, <3>2
  <2>2. Copies(retained', heap') = Copies(retained, heap)
    BY <1>3, <2>1, SameCopies DEF ReleaseStaticGeometryArrays
  <2>3. Contract!Strip
    BY <1>3, <2>1, <2>2 DEF ReleaseStaticGeometryArrays, Stripped, Contract!Strip, Copies, CopyOf
  <2> QED BY <2>3 DEF Contract!Next
<1> QED BY <1>2, <1>3

\* A snapshot is a copy.
LEMMA GetSnapshotContract == ASSUME GetSnapshot PROVE Contract!Next
<1> DEFINE n == [revision |-> revision, stage |-> stage, seen |-> heap[stage],
                 changes |-> [base |-> 0, new |-> revision, full |-> TRUE, from |-> Empty]]
<1>1. retained' = retained \cup {n} /\ UNCHANGED <<revision, stage, heap, asked, render>>
  BY DEF GetSnapshot, session
<1>2. CopyOf(n, heap) = Contract!Copy
  BY DEF CopyOf, Contract!Copy
<1> HIDE DEF n
<1>3. Copies(retained', heap') = Copies(retained, heap) \cup {Contract!Copy}
  BY <1>1, <1>2, OneMoreCopy
<1>4. Contract!TakeCopy
  BY <1>1, <1>3 DEF Contract!TakeCopy, Copies, CopyOf
<1> QED BY <1>4 DEF Contract!Next

\* Whether the update was of everything or of what a change set lists, the
\* renderer then shows the whole of the result.
LEMMA ApplyUpdateContract == ASSUME PublishedInv, ApplyUpdate PROVE Contract!Next
<1>1. PICK r \in retained : /\ render.revision = 0 \/ r.revision > render.revision
                            /\ render' = [revision |-> r.revision, picture |-> Picture(r)]
  BY DEF ApplyUpdate
<1>2. PublishedType /\ RetainedOnRender
  BY DEF PublishedInv, ChainInv
<1>3. Full(r) \/ render.picture = r.changes.from
  BY <1>1, <1>2, RetainedTyped, NumbersTyped DEF Full, RetainedOnRender, StartsFrom
<1>4. Picture(r) = CopyOf(r, heap).content.scene /\ r.revision = CopyOf(r, heap).revision
  BY <1>3 DEF Picture, CopyOf
<1>5. CopyOf(r, heap) \in Copies(retained, heap)
  BY DEF Copies
<1>6. \E x \in Copies(retained, heap) :
        /\ render.revision = 0 \/ x.revision > render.revision
        /\ render' = [revision |-> x.revision, picture |-> x.content.scene]
  BY <1>1, <1>4, <1>5
<1>7. UNCHANGED <<revision, stage, heap, asked, retained>>
  BY DEF ApplyUpdate, session
<1>8. Contract!Show
  BY <1>6, <1>7 DEF Contract!Show, Copies, CopyOf
<1> QED BY <1>8 DEF Contract!Next

\* The session, with its stage objects, its cache and its change sets, is to its
\* client and to the renderer one document: releasing the cache, sharing stage
\* objects and sending only what changed cannot be seen.
THEOREM SessionImplementsDocument == Spec => ImplementsDocument
<1>1. Init => Contract!Init
  <2> SUFFICES ASSUME Init PROVE Contract!Init
    OBVIOUS
  <2>1. heap[stage] = Contract!Whole(Empty)
    BY BoundsAssumption DEF Init, Objects, Of, Contract!Whole
  <2> QED BY <2>1 DEF Init, Contract!Init
<1>2. SettingsInv /\ BuildingInv /\ PublishedInv /\ [Next]_vars => [Contract!Next]_Contract!vars
  <2> SUFFICES ASSUME SettingsInv, BuildingInv, PublishedInv, [Next]_vars PROVE Contract!Next \/ UNCHANGED Contract!vars
    OBVIOUS
  <2>1. CASE Edit \/ FinishReloadRoot
    BY <2>1, EditContract, FinishReloadContract
  <2>2. CASE OpenUncomposed \/ FinishOpen
    BY <2>2, OpenContract
  <2>3. CASE TakeStage \/ ReleaseStaticGeometryArrays
    BY <2>3, ObjectContract
  <2>4. CASE GetSnapshot
    BY <2>4, GetSnapshotContract
  <2>5. CASE Discard
    <3>1. Copies(retained', heap') \subseteq Copies(retained, heap) /\ UNCHANGED <<revision, stage, heap, asked, render>>
      BY <2>5 DEF Discard, session, Copies
    <3>2. Contract!Discard
      BY <3>1 DEF Contract!Discard, Copies, CopyOf
    <3> QED BY <3>2 DEF Contract!Next
  <2>6. CASE ApplyUpdate
    BY <2>6, ApplyUpdateContract
  <2>7. CASE ReleaseCompositionCache \/ CacheRetired \/ EditFile \/ BeginReloadRoot \/ UNCHANGED vars
    <3>1. UNCHANGED <<revision, stage, heap, asked, render, retained>>
      BY <2>7 DEF ReleaseCompositionCache, CacheRetired, EditFile, BeginReloadRoot, vars, session
    <3> QED BY <3>1 DEF Contract!vars
  <2>8. CASE BeginOpen
    <3>1. Contract!Leave
      BY <2>8 DEF BeginOpen, ClientStartsOver, session, Contract!Leave
    <3> QED BY <3>1 DEF Contract!Next
  <2> QED BY <2>1, <2>2, <2>3, <2>4, <2>5, <2>6, <2>7, <2>8 DEF Next, Call
<1> QED BY <1>1, <1>2, InductiveInvariant, PTL DEF Spec, ImplementsDocument, Contract!Spec

=============================================================================
