------------------------- MODULE NamespaceMapping -------------------------
(***************************************************************************)
(* The map function of the next pcp (src/src/next/pcp/                     *)
(* namespace-mapping.hh): how a path of the namespace an arc was crossed   *)
(* into is written in the namespace it was crossed from.                   *)
(*                                                                         *)
(* A path is the sequence of its prim names, <<>> the pseudo-root.  Pairs  *)
(* that drop a target (an empty second member) are made by relocates only, *)
(* and variant content sites by variants only: neither is modelled.        *)
(***************************************************************************)
EXTENDS Naturals, Sequences, SequencesExt, Subsequence

AtOrUnder(path, prefix) == IsPrefix(prefix, path)

\* A mapping: its (source, target) pairs and how targets outside them behave.
Identity == [pairs |-> <<>>, crosses |-> FALSE, intra |-> FALSE]
Rename(from, to) ==
    [pairs |-> << <<from, to>> >>, crosses |-> FALSE, intra |-> FALSE]
ArcMapping(from, to) == [Rename(from, to) EXCEPT !.crosses = TRUE]
ClassMapping(from, to) == [ArcMapping(from, to) EXCEPT !.intra = TRUE]

\* The pairs whose side (1 source, 2 target) holds the path, and the one of
\* them with the longest prefix, the first of equals.
Matches(m, path, side) ==
    {i \in DOMAIN m.pairs : AtOrUnder(path, m.pairs[i][side])}
Longest(m, path, side) ==
    CHOOSE i \in Matches(m, path, side) :
        \A j \in Matches(m, path, side) :
            \/ Len(m.pairs[j][side]) < Len(m.pairs[i][side])
            \/ Len(m.pairs[j][side]) = Len(m.pairs[i][side]) /\ i <= j

\* The path with the prefix of one side replaced by the other side's.
Moved(path, from, to) == to \o SubSeq(path, Len(from) + 1, Len(path))

Apply(m, path) ==
    IF Matches(m, path, 1) = {} THEN path
    ELSE LET p == m.pairs[Longest(m, path, 1)] IN Moved(path, p[1], p[2])

ReverseApply(m, path) ==
    IF Matches(m, path, 2) = {} THEN path
    ELSE LET p == m.pairs[Longest(m, path, 2)] IN Moved(path, p[2], p[1])

---------------------------------------------------------------------------

\* The pairs that map a deeper slice than the path.
StrictlyBelow(m, path) == Kept(m.pairs, {p \in ToSet(m.pairs) : IsStrictPrefix(path, p[1])})

\* Mutant: the inner pair keeps its target.
CarriedUnmapped(outer, in) ==
    LET below == StrictlyBelow(outer, in[2])
    IN  <<in>> \o [i \in DOMAIN below |-> <<Moved(below[i][1], in[2], in[1]), below[i][2]>>]
\* What becomes of one inner pair: it is carried through outer, and each
\* outer pair strictly below its target is pulled back under its source.
Carried(outer, in) ==
    LET below == StrictlyBelow(outer, in[2])
    IN  << <<in[1], Apply(outer, in[2])>> >>
        \o [i \in DOMAIN below |-> <<Moved(below[i][1], in[2], in[1]), below[i][2]>>]

\* Whether paths under an outer pair's source reach outer unchanged by inner.
PassesThrough(inner, o) ==
    \A i \in DOMAIN inner.pairs :
        LET in == inner.pairs[i]
        IN  IF inner.intra \/ AtOrUnder(in[1], in[2])
            THEN ~AtOrUnder(o[1], in[1])
            ELSE /\ ~AtOrUnder(o[1], in[1])
                 /\ ~AtOrUnder(o[1], in[2])
                 /\ ~AtOrUnder(in[1], o[1])

\* The outer pairs that stay as they are.
Through(outer, inner) == Kept(outer.pairs, {o \in ToSet(outer.pairs) : PassesThrough(inner, o)})

\* outer maps mid to root, inner maps deep to mid; the result deep to root.
Compose(outer, inner) ==
    IF inner.pairs = <<>> THEN outer
    ELSE IF outer.pairs = <<>> THEN inner
    ELSE [crosses |-> outer.crosses \/ inner.crosses,
          intra |-> \/ inner.intra /\ (outer.intra \/ ~outer.crosses)
                    \/ outer.intra /\ (inner.intra \/ ~inner.crosses),
          pairs |-> FlattenSeq([i \in DOMAIN inner.pairs |->
                                    Carried(outer, inner.pairs[i])])
                    \o Through(outer, inner)]
===========================================================================
