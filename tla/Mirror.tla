------------------------------- MODULE Mirror -------------------------------
(***************************************************************************)
(* What a RenderSession promises the renderer behind its sink: after an    *)
(* update it has the scene as it is, under ids that stay with their        *)
(* resources and are not given to others, and between updates nothing      *)
(* moves.  How little of the scene an update sends does not show.          *)
(***************************************************************************)
VARIABLES scene,   \* the resources of the stage with their contents
          behind,  \* the stage may have changed since the last update
          ids,     \* the ids of the resources that the renderer has
          told,    \* all ids it was ever told, with their resources
          sink     \* the contents of what it has, by id

vars == <<scene, behind, ids, told, sink>>

Empty == /\ behind = TRUE
         /\ ids = << >> /\ told = {} /\ sink = << >>

Init == Empty

\* The stage becomes any other.
Publish == /\ behind' = TRUE
           /\ UNCHANGED <<ids, told, sink>>

\* A resource keeps its id; a new one gets an id that was never told.
Identify == /\ DOMAIN ids' = DOMAIN scene
            /\ \A r, s \in DOMAIN scene : ids'[r] = ids'[s] => r = s
            /\ \A r \in DOMAIN scene : IF r \in DOMAIN ids THEN ids'[r] = ids[r]
                                       ELSE \A x \in told : x[1] # ids'[r]

Update == /\ behind = TRUE /\ behind' = FALSE
          /\ Identify
          /\ told' = told \cup {<<ids'[r], r>> : r \in DOMAIN scene}
          /\ DOMAIN sink' = {ids'[r] : r \in DOMAIN scene}
          /\ \A r \in DOMAIN scene : sink'[ids'[r]] = scene[r]
          /\ UNCHANGED scene

\* The renderer starts over.
Reset == Empty' /\ UNCHANGED scene

Next == Publish \/ Update \/ Reset

Spec == Init /\ [][Next]_vars
=============================================================================
