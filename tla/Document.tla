------------------------------ MODULE Document ------------------------------
(***************************************************************************)
(* What StageSession promises its client: one document, edited by setting  *)
(* how it is composed.  Copies of it are values: there are no stage        *)
(* objects that somebody shares, no composition cache that can be given    *)
(* away, and no change set between a copy and its picture.                 *)
(***************************************************************************)
EXTENDS Naturals

CONSTANTS Rules, Selections,  \* what an edit sets
          Defaults,           \* the settings a file is opened with
          ScenesOf,           \* ScenesOf[s]: the scenes that settings s may give
          Plain, Empty        \* an uncomposed root layer; no scene at all

VARIABLES settings,  \* as asked for since the file was opened
          revision,  \* the number of the last publication
          content,   \* the document
          copies,    \* the copies that the client has
          shown      \* the revision that a renderer shows, and its scene

vars == <<settings, revision, content, copies, shown>>

Whole(scene) == [scene |-> scene, stripped |-> FALSE]
Copy == [revision |-> revision, content |-> content]

Init == /\ settings = Defaults
        /\ revision = 0 /\ content = Whole(Empty) /\ copies = {}
        /\ shown = [revision |-> 0, picture |-> Empty]

\* The next revision has one of these scenes; the client may get a copy.
Publish(scenes) == /\ revision' = revision + 1
                   /\ \E scene \in scenes : content' = Whole(scene)
                   /\ copies' \in {copies, copies \cup {Copy'}}
                   /\ UNCHANGED shown

\* An edit publishes what its settings compose, or nothing.
Edit(s) == /\ settings' = s
           /\ UNCHANGED <<revision, content, copies, shown>> \/ Publish(ScenesOf[s])

\* The file is read again: the settings are lost, the revisions go on.
ReloadRoot == /\ settings' = Defaults
              /\ Publish(ScenesOf[Defaults] \cup {Plain})

TakeCopy == UNCHANGED <<settings, revision, content, shown>> /\ copies' = copies \cup {Copy}

Discard == UNCHANGED <<settings, revision, content, shown>> /\ copies' \subseteq copies

\* The geometry arrays are dropped, from the document only.
Strip == /\ content' = [scene |-> content.scene, stripped |-> TRUE]
         /\ UNCHANGED <<settings, revision, copies, shown>>

\* The document is given to the caller.
Take == /\ settings' = Defaults /\ content' = Whole(Empty)
        /\ UNCHANGED <<revision, copies, shown>>

\* The client lets go of its copies and resets its renderer.
Leave == /\ copies' = {} /\ shown' = [revision |-> 0, picture |-> Empty]
         /\ UNCHANGED <<settings, revision, content>>

\* Another file: revisions, copies and renderer start over.
Open == /\ settings' = Defaults
        /\ \/ revision' = 0 /\ content' = Whole(Empty)
           \/ revision' = 1 /\ \E scene \in ScenesOf[Defaults] \cup {Plain} : content' = Whole(scene)
        /\ copies' = {} /\ shown' = [revision |-> 0, picture |-> Empty]

\* The renderer goes forward to a copy and shows all of that copy.
Show == /\ \E c \in copies :
             /\ shown.revision = 0 \/ c.revision > shown.revision
             /\ shown' = [revision |-> c.revision, picture |-> c.content.scene]
        /\ UNCHANGED <<settings, revision, content, copies>>

Next == \/ Discard \/ Leave \/ TakeCopy \/ Strip \/ Take \/ Open \/ Show \/ ReloadRoot
        \/ \E r \in Rules : Edit([settings EXCEPT !.rules = r])
        \/ \E s \in Selections : Edit([settings EXCEPT !.selections = s])

Spec == Init /\ [][Next]_vars
=============================================================================
