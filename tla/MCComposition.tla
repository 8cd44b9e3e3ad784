--------------------------- MODULE MCComposition ---------------------------
(* Small scenes for Composition: a root stack 0 and a referenced stack 1,  *)
(* with two or three arcs between them.                                   *)
EXTENDS Composition, FiniteSetsExt

A == <<"A">>   AB == <<"A", "B">>   P == <<"P">>   PB == <<"P", "B">>
C == <<"C">>   CB == <<"C", "B">>   X == <<"X">>   XB == <<"X", "B">>

Sites == ({0} \X {A, AB, P, PB, C, CB}) \cup ({1} \X {X, XB, C, CB})
To(stack, path) == [asset |-> stack, path |-> path]
NoArcs == [inherits |-> <<>>, references |-> <<>>, payloads |-> <<>>,
           specializes |-> <<>>]

\* Arcs as <<site, list, target>>.
Arcs == {<<<<0, A>>, "inherits", To(-1, C)>>,
         <<<<0, A>>, "references", To(1, X)>>,
         <<<<0, A>>, "references", To(-1, P)>>,
         <<<<0, A>>, "payloads", To(1, X)>>,
         <<<<0, A>>, "specializes", To(-1, C)>>,
         <<<<0, AB>>, "references", To(-1, P)>>,
         <<<<0, AB>>, "payloads", To(1, C)>>,
         <<<<0, P>>, "payloads", To(1, X)>>,
         <<<<0, PB>>, "references", To(-1, A)>>,
         <<<<0, C>>, "references", To(1, X)>>,
         <<<<0, C>>, "payloads", To(1, X)>>,
         <<<<0, P>>, "references", To(1, XB)>>,
         <<<<0, P>>, "references", To(1, CB)>>,
         <<<<1, C>>, "payloads", To(-1, X)>>,
         <<<<1, X>>, "payloads", To(-1, C)>>,
         <<<<1, X>>, "inherits", To(-1, C)>>,
         <<<<1, X>>, "specializes", To(-1, C)>>,
         <<<<1, XB>>, "inherits", To(-1, C)>>,
         <<<<1, XB>>, "inherits", To(-1, CB)>>}

SceneOf(sites, arcs) ==
    [s \in sites |->
        [l \in DOMAIN NoArcs |->
            SetToSeq({a[3] : a \in {b \in arcs : b[1] = s /\ b[2] = l}})]]
Scene(arcs) == SceneOf(Sites, arcs)

\* Arcs to PB where the root stack authors nothing at PB: it is there by the
\* reference of P alone.
ToBare == {<<<<0, A>>, list, To(-1, PB)>> : list \in {"inherits", "references", "specializes"}}
BareScenes ==
    {SceneOf(Sites \ {<<0, PB>>}, {arc, other, <<<<0, P>>, "references", To(1, X)>>}) :
        arc \in ToBare, other \in {a \in Arcs : a[1] # <<0, PB>>}}

MCScenes == {Scene(arcs) : arcs \in kSubset(3, Arcs) \cup kSubset(2, Arcs)} \cup BareScenes

\* Rules are edited in the scenes with two arcs, one of them a payload.
RuledScenes ==
    {Scene(arcs) : arcs \in {two \in kSubset(2, Arcs) :
        \E a \in two : a[2] = "payloads"}}
MCMaxRules(sc) == IF sc \in RuledScenes THEN 1 ELSE 0
MCPaths == {A, AB, C}
MCRuleSets == {<<>>, A :> "None"}
MCNameOrder == <<"A", "B", "C", "P", "X">>

\* Two root prims with a payload each.
PayloadScenes ==
    {Scene({<<<<0, A>>, "payloads", To(1, X)>>, <<<<0, P>>, "payloads", To(1, X)>>})}
RootPaths == {A, P}
TwoRules(sc) == 2
===========================================================================
