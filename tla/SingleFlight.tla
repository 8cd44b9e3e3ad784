---------------------------- MODULE SingleFlight ----------------------------
(***************************************************************************)
(* What LayerRegistry promises the threads that call GetOrLoad: whoever    *)
(* asks for a path while it is being loaded is answered together with all  *)
(* others, at one moment, with one and the same layer, and this is the     *)
(* layer that later callers find.                                          *)
(***************************************************************************)
CONSTANTS Threads, Paths, NoPath,
          Layers, NoLayer,  \* what a load yields; a load that fails
          Preloaded,        \* the layer of a Preload
          Unanswered

VARIABLES cached,  \* the layer that a caller finds at once, per path
          asked,   \* the path that each thread waits for
          answer   \* what the load it waits for has given

vars == <<cached, asked, answer>>

Waiting(p) == {t \in Threads : asked[t] = p /\ answer[t] = Unanswered}

Init == /\ cached = [p \in Paths |-> NoLayer]
        /\ asked = [t \in Threads |-> NoPath]
        /\ answer = [t \in Threads |-> Unanswered]

Ask(t, p) == /\ asked[t] = NoPath /\ cached[p] = NoLayer
             /\ asked' = [asked EXCEPT ![t] = p]
             /\ UNCHANGED <<cached, answer>>

\* The load ends: with a layer, or with none.  A layer preloaded meanwhile stays.
Complete(p) ==
  /\ cached[p] \in {NoLayer, Preloaded}
  /\ \E t \in Waiting(p) : LET layer == answer'[t] IN
       /\ layer \in Layers \cup {NoLayer}
       /\ answer' = [u \in Threads |-> IF u \in Waiting(p) THEN layer ELSE answer[u]]
       /\ cached' = [cached EXCEPT ![p] = IF @ = NoLayer THEN layer ELSE @]
  /\ UNCHANGED asked

Return(t) == /\ answer[t] # Unanswered
             /\ asked' = [asked EXCEPT ![t] = NoPath]
             /\ answer' = [answer EXCEPT ![t] = Unanswered]
             /\ UNCHANGED cached

Preload(p) == /\ cached' = [cached EXCEPT ![p] = Preloaded]
              /\ UNCHANGED <<asked, answer>>

Evict(P) == /\ cached' = [p \in Paths |-> IF p \in P THEN NoLayer ELSE cached[p]]
            /\ UNCHANGED <<asked, answer>>

Next == \/ \E t \in Threads : Return(t) \/ \E p \in Paths : Ask(t, p)
        \/ \E p \in Paths : Preload(p) \/ Complete(p)
        \/ \E P \in SUBSET Paths : Evict(P)

Spec == Init /\ [][Next]_vars
=============================================================================
