---------------------------- MODULE StageSession ----------------------------
(***************************************************************************)
(* lightusd::next::StageSession (src/next/lightusd-next.cc): a document    *)
(* that is edited by recomposing it, publishes each composition as a       *)
(* revisioned immutable snapshot with the changes since the last one, and  *)
(* may give its composition cache away and restore it from the files; and  *)
(* the consumer of what it publishes, tydra::next::RenderSession           *)
(* (src/tydra/next/render-session.cc).                                     *)
(*                                                                         *)
(* A call is one step: the class is used by one thread.  Two are split,    *)
(* OpenFile and the ReloadLayer of the root: they parse and compose a new  *)
(* session beside the old one, whose cache or retiring thread lives until  *)
(* the new one takes its place.  The client keeps any of the results it    *)
(* got and hands them to the renderer late or not at all.  A change set is *)
(* reduced to the scene it starts from; what it lists, and whether that is *)
(* all that must be sent, is module RenderSession.                         *)
(***************************************************************************)
EXTENDS Naturals, FiniteSets

CONSTANTS Rules, DefaultRules,            \* payload load rules
          Selections, DefaultSelections,  \* variant selections
          Plain,       \* the scene of a root layer that needs no composition
          Empty,       \* the scene of a new Stage
          Mixed,       \* a picture whose parts are of different scenes
          NoCache,     \* a null pointer
          LateCancel,  \* may the progress callback refuse the last report?
          MaxVersion, MaxRevision, MaxRetained  \* bounds

ASSUME DefaultsAssumption == DefaultRules \in Rules /\ DefaultSelections \in Selections
ASSUME BoundsAssumption   == /\ MaxVersion \in Nat \ {0} /\ MaxRevision \in Nat \ {0}
                             /\ MaxRetained \in Nat

VARIABLES disk,      \* the version of the dependency files
          open, revision, last_changes,
          cache,     \* the composition cache: its rules and selections and the
                     \* version of the layers it parsed (0: ReloadLayer failed
                     \* after clearing the layer stacks)
          released,  \* the rules and selections of a released cache
          retiring,  \* retiring_cache_thread is still destroying a cache
          opening,   \* "file" or "root" while OpenFile or the ReloadLayer of
                     \* the root builds a new session, or "no"
          replacement,  \* the composition cache of that new session
          stage,     \* the stage object published
          heap,      \* what stage objects hold
          returned,  \* what the last call, if an edit, returned
          retained,  \* results and snapshots the client keeps
          asked,     \* the rules and selections asked for since the file was opened
          render     \* RenderSession: the revision it is at and the scene of
                     \* the resources it has sent to its sink

session  == <<open, revision, last_changes, cache, released, retiring, stage, heap>>
building == <<opening, replacement>>
vars     == <<disk, session, building, returned, retained, asked, render>>

Settings == [rules : Rules, selections : Selections]
Caches   == [rules : Rules, selections : Selections, layers : 0 .. MaxVersion]
Scenes   == Caches \cup {Plain, Empty}

ASSUME NamesAssumption == LateCancel \in BOOLEAN /\ Mixed \notin Scenes

Objects  == 1 .. MaxRetained + 2
Changes  == [base : Nat, new : Nat, full : BOOLEAN, from : Scenes]
Results  == [revision : 0 .. MaxRevision, stage : Objects,
             seen : [scene : Scenes, stripped : BOOLEAN], changes : Changes]

TypeOK ==
  /\ disk \in 1 .. MaxVersion
  /\ open \in BOOLEAN /\ retiring \in BOOLEAN
  /\ revision \in 0 .. MaxRevision
  /\ last_changes \in Changes
  /\ cache \in Caches \cup {NoCache}
  /\ released \in Settings \cup {NoCache}
  /\ opening \in {"no", "file", "root"}
  /\ replacement \in Caches \cup {NoCache}
  /\ stage \in Objects
  /\ heap \in [Objects -> [scene : Scenes, stripped : BOOLEAN]]
  /\ returned \in {"nothing", "success", "failure"}
  /\ retained \subseteq Results /\ Cardinality(retained) <= MaxRetained
  /\ asked \in Settings
  /\ render \in [revision : 0 .. MaxRevision, picture : Scenes \cup {Mixed}]

(***************************************************************************)
(* Stage objects.  The session and each retained result hold a shared_ptr; *)
(* an object nobody holds is gone (its slot reads as a new Stage).         *)
(***************************************************************************)
Of(scene)  == [scene |-> scene, stripped |-> FALSE]
NoChanges  == [base |-> 0, new |-> 0, full |-> FALSE, from |-> Empty]
Shared     == \E r \in retained : r.stage = stage   \* use_count() # 1
Held(R)    == {r.stage : r \in R}
Spare(R)   == CHOOSE o \in Objects : o \notin Held(R)

\* stage.reset(new Stage(...)), with the results of R held by the client.
ResetStage(content, R) ==
  /\ stage' = Spare(R)
  /\ heap' = [o \in Objects |-> IF o = Spare(R) THEN content
                                ELSE IF o \in Held(R) THEN heap[o] ELSE Of(Empty)]

\* The client keeps the result it is given, or drops it.
Keep(r) == retained' = retained \/ (Cardinality(retained) < MaxRetained /\ retained' = retained \cup {r})

(***************************************************************************)
(* The end of an edit: Impl::Rebuild and EditResult.                       *)
(***************************************************************************)
Failure == returned' = "failure" /\ UNCHANGED retained

Success == /\ returned' = "success"
           /\ Keep([revision |-> revision', stage |-> stage', seen |-> heap'[stage'],
                    changes |-> last_changes'])

\* Composition fails or is cancelled, or the stage exceeds the memory budget.
NotPublished == UNCHANGED <<revision, last_changes, stage, heap>>

Publish(scene) ==
  /\ revision < MaxRevision
  /\ revision' = revision + 1
  /\ last_changes' = [base |-> revision, new |-> revision + 1,
                      full |-> revision = 0, from |-> heap[stage].scene]
  /\ ResetStage(Of(scene), retained)

\* BuildStage may fail, the result may exceed the memory budget, and the
\* progress callback may cancel: at the start, which publishes nothing, or at
\* the last report, when the new stage is already in place.  Without a layer
\* stack (layers = 0) BuildStage reads the first of an empty vector: undefined,
\* and the model makes no such step.
Rebuild(c) ==
  /\ c.layers > 0
  /\ cache' = c
  /\ \/ NotPublished /\ Failure
     \/ Publish(c) /\ (Success \/ (LateCancel /\ Failure))

(***************************************************************************)
(* Edits.  Each first restores the cache if it was released: it reloads    *)
(* the files and applies the rules and selections kept.                    *)
(***************************************************************************)
\* Mutant: the load rules are not applied again.
RestoredWithoutRules == [rules |-> DefaultRules, selections |-> released.selections, layers |-> disk]

Restored == [rules |-> released.rules, selections |-> released.selections, layers |-> disk]

\* Mutant: does not wait for the thread that destroys the old layers.
WaitForNothing == UNCHANGED retiring
WaitForRetiringCache == retiring' = FALSE

\* The edit goes on with cache c.
RestoreCompositionCache(c) ==
  \/ cache # NoCache /\ c = cache /\ UNCHANGED <<released, retiring>>
  \/ /\ cache = NoCache /\ released # NoCache
     /\ c = Restored
     /\ released' = NoCache /\ WaitForRetiringCache

\* There is nothing to restore, or the files cannot be loaded.
RestoreFails ==
  /\ cache = NoCache
  /\ IF released # NoCache THEN WaitForRetiringCache ELSE UNCHANGED retiring
  /\ Failure /\ NotPublished
  /\ UNCHANGED <<open, cache, released, asked>>

\* A bad argument, or a session that is not open.
Refused == Failure /\ NotPublished /\ UNCHANGED <<open, cache, released, retiring, asked>>

\* LoadPayload, LoadPayloads and UnloadPayload.  The cache takes the rules
\* whatever becomes of the rebuild.
SetPayloads(c) == \E r \in Rules : /\ asked' = [asked EXCEPT !.rules = r]
                                  /\ Rebuild([c EXCEPT !.rules = r])

\* SetVariantSelection and SetVariantSelections, and ClearVariantSelection
\* when the path has a selection.
SetVariantSelections(c) == \E s \in Selections : /\ asked' = [asked EXCEPT !.selections = s]
                                                /\ Rebuild([c EXCEPT !.selections = s])

\* ClearVariantSelection of a path without one: an empty change set.
ClearAbsentSelection(c) ==
  /\ cache' = c
  /\ last_changes' = [base |-> revision, new |-> revision,
                      full |-> FALSE, from |-> heap[stage].scene]
  /\ UNCHANGED <<revision, stage, heap, asked>>
  /\ Success

RebuildStage(c) == open /\ Rebuild(c) /\ UNCHANGED asked

\* Rebuild of a stage that was not composed returns the last result again.
RebuildUncomposed ==
  /\ open /\ cache = NoCache /\ released = NoCache
  /\ NotPublished /\ Success
  /\ UNCHANGED <<open, cache, released, retiring, asked>>

\* ReloadLayer of a dependency.  When it does not parse the cache is as before;
\* when the root's sublayers cannot be stacked again the stack table is empty.
ReloadLayer(c) ==
  /\ open
  /\ \/ Rebuild([c EXCEPT !.layers = disk])
     \/ cache' = c /\ NotPublished /\ Failure
     \/ cache' = [c EXCEPT !.layers = 0] /\ NotPublished /\ Failure
  /\ UNCHANGED asked

EditCache == /\ \E c \in Caches :
                  /\ RestoreCompositionCache(c)
                  /\ \/ SetPayloads(c) \/ SetVariantSelections(c) \/ ClearAbsentSelection(c)
                     \/ RebuildStage(c) \/ ReloadLayer(c)
             /\ UNCHANGED open

Defaults    == [rules |-> DefaultRules, selections |-> DefaultSelections]
OpenedCache == [rules |-> DefaultRules, selections |-> DefaultSelections, layers |-> disk]

\* ReloadLayer of the root, when it is plain, missing or refused now.  A second
\* session opens the file, and its state replaces this one's under the next
\* revision; or it fails and is dropped.
ReloadUncomposedRoot ==
  /\ open
  /\ \/ /\ Publish(Plain)
        /\ cache' = NoCache
        /\ released' = NoCache /\ WaitForRetiringCache /\ asked' = Defaults
        /\ Success
     \/ /\ NotPublished /\ Failure
        /\ UNCHANGED <<cache, released, retiring, asked>>
  /\ UNCHANGED open

Edit == /\ EditCache \/ RestoreFails \/ Refused \/ RebuildUncomposed \/ ReloadUncomposedRoot
        /\ UNCHANGED <<disk, render>>

(***************************************************************************)
(* The other calls of the session.  What they do to the client's results   *)
(* is said here too.                                                       *)
(***************************************************************************)
NotAnEdit == returned' = "nothing"

Opened(published, scene) ==
  /\ revision' = published
  /\ last_changes' = [NoChanges EXCEPT !.new = published, !.full = published > 0]
  /\ ResetStage(Of(scene), {})

\* The client drops what it had and resets the renderer.
ClientStartsOver == retained' = {} /\ render' = [revision |-> 0, picture |-> Empty]

\* impl_ = std::move(next): the old session's retiring thread is joined and its
\* cache destroyed.
TakePlace(c) ==
  /\ ClientStartsOver
  /\ cache' = c /\ released' = NoCache /\ WaitForRetiringCache /\ asked' = Defaults
  /\ NotAnEdit
  /\ UNCHANGED disk

\* The session starts over at revision 1, or 0, closed, if nothing was published.
\* The root layer is missing, refused or plain: no cache is made.
OpenUncomposed ==
  /\ TakePlace(NoCache)
  /\ \/ open' = FALSE /\ Opened(0, Empty)
     \/ open' \in BOOLEAN /\ Opened(1, Plain)

\* Or it is composed: its layers are parsed while those of the old session are
\* in memory.
BeginOpen ==
  /\ opening' = "file" /\ replacement' = OpenedCache
  /\ ClientStartsOver
  /\ NotAnEdit
  /\ UNCHANGED <<disk, session, asked>>

FinishOpen ==
  /\ opening = "file"
  /\ opening' = "no" /\ replacement' = NoCache
  /\ TakePlace(replacement)
  /\ \/ open' = FALSE /\ Opened(0, Empty)
     \/ open' \in {TRUE, ~LateCancel} /\ Opened(1, replacement)

\* The same for a composed root that ReloadLayer is asked for.
BeginReloadRoot ==
  /\ open
  /\ opening' = "root" /\ replacement' = OpenedCache
  /\ NotAnEdit
  /\ UNCHANGED <<disk, session, retained, asked, render>>

FinishReloadRoot ==
  /\ opening = "root"
  /\ opening' = "no" /\ replacement' = NoCache
  /\ \/ /\ Publish(replacement)
        /\ cache' = replacement
        /\ released' = NoCache /\ WaitForRetiringCache /\ asked' = Defaults
        /\ Success
     \/ /\ NotPublished /\ Failure
        /\ UNCHANGED <<cache, released, retiring, asked>>
  /\ UNCHANGED <<disk, open, render>>

\* The stage goes to the caller: moved out, or cloned if a snapshot shares it.
TakeStage ==
  /\ open' = FALSE /\ cache' = NoCache /\ released' = NoCache /\ asked' = Defaults
  /\ ResetStage(Of(Empty), retained)
  /\ NotAnEdit
  /\ UNCHANGED <<disk, revision, last_changes, retiring, retained, render>>

ReleaseCompositionCache ==
  /\ cache # NoCache
  /\ released' = [rules |-> cache.rules, selections |-> cache.selections]
  /\ cache' = NoCache
  /\ retiring' = TRUE
  /\ NotAnEdit
  /\ UNCHANGED <<disk, open, revision, last_changes, stage, heap, retained, asked, render>>

CacheRetired == /\ retiring /\ retiring' = FALSE
                /\ NotAnEdit
                /\ UNCHANGED <<disk, open, revision, last_changes, cache, released, stage, heap, retained, asked, render>>

Stripped == [scene |-> heap[stage].scene, stripped |-> TRUE]

\* Mutant: strips the object that snapshots share.
StripInPlace == heap' = [heap EXCEPT ![stage] = Stripped] /\ UNCHANGED stage

\* EnsureUniqueStage, then the arrays are dropped from the session's object.
Strip == IF Shared THEN ResetStage(Stripped, retained)
         ELSE heap' = [heap EXCEPT ![stage] = Stripped] /\ UNCHANGED stage

ReleaseStaticGeometryArrays ==
  /\ open /\ (cache # NoCache \/ released # NoCache)
  /\ Strip
  /\ NotAnEdit
  /\ UNCHANGED <<disk, open, revision, last_changes, cache, released, retiring, retained, asked, render>>

\* GetSnapshot, kept with the change set that RenderSession::Initialize makes.
GetSnapshot ==
  /\ revision > 0 /\ Cardinality(retained) < MaxRetained
  /\ retained' = retained \cup
       {[revision |-> revision, stage |-> stage, seen |-> heap[stage],
         changes |-> [base |-> 0, new |-> revision, full |-> TRUE, from |-> Empty]]}
  /\ NotAnEdit
  /\ UNCHANGED <<disk, session, asked, render>>

Discard == /\ \E r \in retained : retained' = retained \ {r}
           /\ NotAnEdit
           /\ UNCHANGED <<disk, session, asked, render>>

EditFile == /\ disk < MaxVersion /\ disk' = disk + 1
            /\ NotAnEdit
            /\ UNCHANGED <<session, retained, asked, render>>

(***************************************************************************)
(* RenderSession::Apply of a retained result.  When the snapshot is not    *)
(* newer, the conversion fails or the sink rejects the update, nothing     *)
(* changes.  Otherwise all resources are sent, or those the change set     *)
(* touches; a change set without render effect sends none.                 *)
(***************************************************************************)
\* Mutant: trusts the change set to start at the revision on show.
FullTrusting(r) == render.revision = 0 \/ r.changes.full
Full(r) == \/ render.revision = 0 \/ r.changes.full
           \/ r.changes.base # render.revision \/ r.changes.new # r.revision

Picture(r) == IF Full(r) \/ render.picture = r.changes.from
              THEN heap[r.stage].scene ELSE Mixed

ApplyUpdate ==
  /\ \E r \in retained :
       /\ render.revision = 0 \/ r.revision > render.revision
       /\ render' = [revision |-> r.revision, picture |-> Picture(r)]
  /\ NotAnEdit
  /\ UNCHANGED <<disk, session, retained, asked>>

(***************************************************************************)
(* The specification.                                                      *)
(***************************************************************************)
Init ==
  /\ disk = 1
  /\ open = FALSE /\ revision = 0 /\ last_changes = NoChanges
  /\ cache = NoCache /\ released = NoCache /\ retiring = FALSE
  /\ opening = "no" /\ replacement = NoCache
  /\ stage = 1 /\ heap = [o \in Objects |-> Of(Empty)]
  /\ returned = "nothing"
  /\ retained = {} /\ asked = Defaults
  /\ render = [revision |-> 0, picture |-> Empty]

\* While a new session is built only the files and the retiring thread go on.
Call == \/ Edit
        \/ OpenUncomposed \/ TakeStage \/ ReleaseCompositionCache
        \/ ReleaseStaticGeometryArrays \/ GetSnapshot \/ Discard \/ ApplyUpdate

Next == \/ opening = "no" /\ Call /\ UNCHANGED building
        \/ opening = "no" /\ (BeginOpen \/ BeginReloadRoot)
        \/ FinishOpen \/ FinishReloadRoot
        \/ (CacheRetired \/ EditFile) /\ UNCHANGED building

Spec == Init /\ [][Next]_vars

(***************************************************************************)
(* Properties.                                                             *)
(***************************************************************************)
\* A snapshot never changes once it was taken: publishing, stripping geometry
\* and moving the stage out all leave the objects that snapshots share alone.
SnapshotsNeverChange == \A r \in retained : heap[r.stage] = r.seen

\* An incremental update is only made on top of the revision its change set
\* starts from, so the renderer never shows parts of different scenes,
\* whatever results it was not given or was given late.
NeverMixed == render.picture # Mixed

\* The cache, or what is kept of a released one, has the rules and selections
\* that were asked for: giving memory back does not show in the next edit.
SettingsKept == /\ cache # NoCache => asked = [rules |-> cache.rules, selections |-> cache.selections]
                /\ released # NoCache => asked = released

\* The sets of parsed layers in memory: of the session, of the cache that the
\* retiring thread destroys, and of the session that is being built.
One(b) == IF b THEN 1 ELSE 0
LayerSets == One(cache # NoCache) + One(retiring) + One(replacement # NoCache)

\* An edit works on one set of parsed layers: a cache that was given away is
\* destroyed before it is restored.  Opening a file, or reloading the root, has a
\* second set beside that of the session it replaces, and never a third.
LayerSetsBounded == LayerSets <= IF opening = "no" THEN 1 ELSE 2

\* Whatever objects snapshots share, wherever the composition cache is, and
\* whichever change sets reach the renderer late or never: to the client the
\* session is one document, whose revisions compose what was asked for, whose
\* copies are values, and of which the renderer shows one copy at a time.
ScenesBy == [s \in Settings |-> {c \in Caches : c.rules = s.rules /\ c.selections = s.selections}]
Contract == INSTANCE Document WITH
              ScenesOf <- ScenesBy, settings <- asked, content <- heap[stage], shown <- render,
              copies <- {[revision |-> r.revision, content |-> heap[r.stage]] : r \in retained}
ImplementsDocument == Contract!Spec

\* An edit that reports failure has published nothing.
FailurePublishesNothing == [][returned' = "failure" => UNCHANGED <<revision, stage>>]_vars
=============================================================================
