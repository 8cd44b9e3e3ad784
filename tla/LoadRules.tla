----------------------------- MODULE LoadRules -----------------------------
(***************************************************************************)
(* Payload load rules (src/src/next/pcp/load-rules.hh and .cc): a rule set *)
(* has at most one rule per path, and a path without a governing rule      *)
(* falls back on the base policy.                                          *)
(***************************************************************************)
EXTENDS Naturals, Sequences, SequencesExt

Rules == {"All", "Only", "None"}

\* Every rule at or under the path is replaced by this one.
ReplaceSubtree(rules, path, rule) ==
    [p \in {q \in DOMAIN rules : ~IsPrefix(path, q)} \cup {path} |->
        IF p = path THEN rule ELSE rules[p]]

\* The closest rule at the path or above it.
Governing(rules, path) == {p \in DOMAIN rules : IsPrefix(p, path)}
Closest(rules, path) ==
    CHOOSE p \in Governing(rules, path) :
        \A q \in Governing(rules, path) : Len(q) <= Len(p)

\* Whether something strictly below the path is loaded.
LeadsToLoaded(rules, path) ==
    \E p \in DOMAIN rules : IsStrictPrefix(path, p) /\ rules[p] # "None"

GetEffect(rules, path) ==
    LET governed == Governing(rules, path) # {}
        best == Closest(rules, path)
    IN  IF governed /\ rules[best] = "All" THEN "All"
        ELSE IF governed /\ best = path /\ rules[best] = "Only" THEN "Only"
        ELSE IF LeadsToLoaded(rules, path) THEN "Only"
        ELSE IF governed THEN "None"
        ELSE "Default"
===========================================================================
