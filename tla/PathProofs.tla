----------------------------- MODULE PathProofs -----------------------------
(***************************************************************************)
(* What payload rules decide, for every rule set and every path: the       *)
(* effect of an edit on the paths at, under, above and beside the one that *)
(* it names.  Before that, the subsequences that the models are built      *)
(* with, by an induction on their length.  After it, what Compose makes of *)
(* two namespace mappings.                                                 *)
(***************************************************************************)
EXTENDS LoadRules, NamespaceMapping, WellFoundedInduction, TLAPS

\* A set of naturals has a least member.
LEMMA LeastNatural ==
  ASSUME NEW S \in SUBSET Nat, S # {}
  PROVE  \E n \in S : \A m \in S : n <= m
<1> DEFINE Below == OpToRel(<, Nat)
<1>1. IsWellFoundedOn(Below, Nat)
  BY NatLessThanWellFounded
<1>2. \A m, n \in Nat : m < n => <<m, n>> \in Below
  BY DEF OpToRel
<1> HIDE DEF Below
<1>3. PICK n \in S : \A m \in S : ~(<<m, n>> \in Below)
  BY <1>1, WFMin
<1>4. ASSUME NEW m \in S PROVE n <= m
  <2>1. m \in Nat /\ n \in Nat
    OBVIOUS
  <2>2. ~(m < n)
    BY <1>2, <1>3, <2>1
  <2> QED BY <2>1, <2>2
<1> QED BY <1>4

\* Induction, for a set in place of a predicate.
LEMMA Induction ==
  ASSUME NEW Q \in SUBSET Nat, 0 \in Q, \A n \in Q : n + 1 \in Q
  PROVE  Nat \subseteq Q
<1> SUFFICES ASSUME Nat \ Q # {} PROVE FALSE
  OBVIOUS
<1>1. PICK n \in Nat \ Q : \A m \in Nat \ Q : n <= m
  BY LeastNatural
<1>2. n # 0 /\ n - 1 \in Nat /\ n - 1 \in Q
  BY <1>1
<1> QED BY <1>1, <1>2

\* What kept[n] is in terms of the function on shorter prefixes.
Step(s, T, f, n) == IF n = 0 THEN << >> ELSE IF s[n] \in T THEN Append(f[n - 1], s[n]) ELSE f[n - 1]

\* The recursive function that Kept reads exists.
LEMMA KeptIsDefined ==
  ASSUME NEW s, NEW T, NEW n \in Nat
  PROVE  \E f : f = [i \in 0 .. n |-> Step(s, T, f, i)]
<1> DEFINE Good(m) == \E f : f = [i \in 0 .. m |-> Step(s, T, f, i)]
           Q == {m \in Nat : Good(m)}
<1>1. 0 \in Q
  <2> DEFINE f == [i \in 0 .. 0 |-> << >>]
  <2>1. f = [i \in 0 .. 0 |-> Step(s, T, f, i)]
    BY DEF Step
  <2> QED BY <2>1
<1>2. ASSUME NEW m \in Q PROVE m + 1 \in Q
  <2>1. PICK f : f = [i \in 0 .. m |-> Step(s, T, f, i)]
    OBVIOUS
  <2> DEFINE g == [i \in 0 .. m + 1 |-> IF i = m + 1 THEN Step(s, T, f, i) ELSE f[i]]
  <2>2. ASSUME NEW i \in 0 .. m + 1 PROVE g[i] = Step(s, T, g, i)
    <3>1. CASE i = m + 1
      <4>1. g[i] = Step(s, T, f, i) /\ g[i - 1] = f[i - 1]
        BY <3>1
      <4> QED BY <3>1, <4>1 DEF Step
    <3>2. CASE i # m + 1
      <4>0. i \in 0 .. m /\ m \in Nat
        BY <3>2
      <4>1. g[i] = f[i]
        BY <3>2
      <4>2. f[i] = Step(s, T, f, i)
        BY <2>1, <4>0
      <4>3. i # 0 => i - 1 \in 0 .. m /\ i - 1 # m + 1 /\ i - 1 \in 0 .. m + 1
        BY <4>0
      <4>4. i # 0 => g[i - 1] = f[i - 1]
        BY <4>3
      <4> HIDE DEF g
      <4> QED BY <4>1, <4>2, <4>4 DEF Step
    <3> QED BY <3>1, <3>2
  <2>3. g = [i \in 0 .. m + 1 |-> Step(s, T, g, i)]
    <3>1. g = [i \in 0 .. m + 1 |-> g[i]]
      OBVIOUS
    <3> HIDE DEF g
    <3> QED BY <2>2, <3>1
  <2> HIDE DEF g
  <2>4. Good(m + 1)
    BY <2>3
  <2> HIDE DEF Good
  <2> QED BY <2>4
<1> HIDE DEF Q
<1>3. Nat \subseteq Q
  BY <1>1, <1>2, Induction DEF Q
<1> QED BY <1>3 DEF Q

\* The result, position by position: h takes each to the position it is from.
Picks(s, T, n, t, h) ==
  /\ h \in [1 .. Len(t) -> 1 .. n]
  /\ \A j \in 1 .. Len(t) : t[j] = s[h[j]] /\ s[h[j]] \in T
  /\ \A i, j \in 1 .. Len(t) : i < j => h[i] < h[j]
  /\ \A m \in 1 .. n : s[m] \in T => \E j \in 1 .. Len(t) : h[j] = m

\* One more element of s: it is kept or it is not.
LEMMA PickNext ==
  ASSUME NEW S, NEW s \in Seq(S), NEW T, NEW n \in 0 .. Len(s) - 1, NEW t \in Seq(S), NEW h,
         Picks(s, T, n, t, h),
         NEW u, u = IF s[n + 1] \in T THEN Append(t, s[n + 1]) ELSE t
  PROVE  u \in Seq(S) /\ \E g : Picks(s, T, n + 1, u, g)
<1>0. n \in Nat /\ Len(s) \in Nat /\ Len(t) \in Nat /\ n + 1 \in 1 .. Len(s) /\ s[n + 1] \in S
  OBVIOUS
<1>1. CASE s[n + 1] \notin T
  <2>1. u = t
    BY <1>1
  <2>2. Picks(s, T, n + 1, t, h)
    <3>1. h \in [1 .. Len(t) -> 1 .. n + 1]
      BY <1>0 DEF Picks
    <3>2. \A m \in 1 .. n + 1 : s[m] \in T => \E j \in 1 .. Len(t) : h[j] = m
      BY <1>0, <1>1 DEF Picks
    <3> QED BY <3>1, <3>2 DEF Picks
  <2> QED BY <2>1, <2>2
<1>2. CASE s[n + 1] \in T
  <2> DEFINE l == Len(t) + 1
             g == [j \in 1 .. l |-> IF j = l THEN n + 1 ELSE h[j]]
  <2>1. u \in Seq(S) /\ Len(u) = l /\ u[l] = s[n + 1] /\ \A j \in 1 .. Len(t) : u[j] = t[j]
    BY <1>0, <1>2
  <2>2. /\ \A j \in 1 .. Len(t) : h[j] \in 1 .. n /\ t[j] = s[h[j]] /\ s[h[j]] \in T
        /\ \A i, j \in 1 .. Len(t) : i < j => h[i] < h[j]
        /\ \A m \in 1 .. n : s[m] \in T => \E j \in 1 .. Len(t) : h[j] = m
    BY DEF Picks
  <2>3. \A j \in 1 .. Len(t) : g[j] = h[j] /\ j \in 1 .. l
    BY <1>0
  <2>4. g[l] = n + 1 /\ l \in 1 .. l /\ l \in Nat
    BY <1>0
  <2>5. \A j \in 1 .. l : j = l \/ j \in 1 .. Len(t)
    BY <1>0
  <2>6. \A j \in 1 .. l : g[j] \in 1 .. n + 1
    <3> HIDE DEF g, l
    <3> SUFFICES ASSUME NEW j \in 1 .. l PROVE g[j] \in 1 .. n + 1
      OBVIOUS
    <3>1. CASE j = l
      BY <1>0, <2>4, <3>1
    <3>2. CASE j \in 1 .. Len(t)
      <4>1. g[j] \in 1 .. n
        BY <2>2, <2>3, <3>2
      <4> QED BY <1>0, <4>1
    <3> QED BY <2>5, <3>1, <3>2
  <2>7. g \in [1 .. l -> 1 .. n + 1]
    <3>1. g = [j \in 1 .. l |-> g[j]]
      OBVIOUS
    <3> HIDE DEF g, l
    <3> QED BY <2>6, <3>1
  <2> HIDE DEF g, l
  <2>8. \A j \in 1 .. l : u[j] = s[g[j]] /\ s[g[j]] \in T
    BY <1>2, <2>1, <2>2, <2>3, <2>4, <2>5
  <2>9. \A i, j \in 1 .. l : i < j => g[i] < g[j]
    <3> SUFFICES ASSUME NEW i \in 1 .. l, NEW j \in 1 .. l, i < j PROVE g[i] < g[j]
      OBVIOUS
    <3>1. i \in 1 .. Len(t)
      BY <2>4, <2>5
    <3>2. CASE j = l
      BY <1>0, <2>2, <2>3, <2>4, <3>1, <3>2
    <3>3. CASE j \in 1 .. Len(t)
      BY <2>2, <2>3, <3>1, <3>3
    <3> QED BY <2>5, <3>2, <3>3
  <2>10. \A m \in 1 .. n + 1 : s[m] \in T => \E j \in 1 .. l : g[j] = m
    <3> SUFFICES ASSUME NEW m \in 1 .. n + 1, s[m] \in T PROVE \E j \in 1 .. l : g[j] = m
      OBVIOUS
    <3>1. CASE m = n + 1
      BY <2>4, <3>1
    <3>2. CASE m \in 1 .. n
      BY <2>2, <2>3, <3>2
    <3> QED BY <1>0, <3>1, <3>2
  <2>11. Picks(s, T, n + 1, u, g)
    BY <2>1, <2>7, <2>8, <2>9, <2>10 DEF Picks
  <2> QED BY <2>1, <2>11
<1> QED BY <1>1, <1>2

\* Kept(s, T) is the subsequence of the members of T.
THEOREM KeptIsSubsequence ==
  ASSUME NEW S, NEW s \in Seq(S), NEW T
  PROVE  Kept(s, T) \in Seq(S) /\ \E h : Picks(s, T, Len(s), Kept(s, T), h)
<1> DEFINE f == CHOOSE g : g = [i \in 0 .. Len(s) |-> Step(s, T, g, i)]
           Good(n) == n <= Len(s) => f[n] \in Seq(S) /\ \E h : Picks(s, T, n, f[n], h)
           Q == {n \in Nat : Good(n)}
<1>0. Len(s) \in Nat
  OBVIOUS
<1>1. f = [i \in 0 .. Len(s) |-> Step(s, T, f, i)]
  BY <1>0, KeptIsDefined
<1>2. Kept(s, T) = f[Len(s)]
  BY DEF Kept, Step
<1> HIDE DEF f
<1>3. 0 \in Q
  <2>1. f[0] = << >>
    BY <1>0, <1>1 DEF Step
  <2>2. Picks(s, T, 0, << >>, [j \in 1 .. 0 |-> 0])
    BY DEF Picks
  <2>3. Good(0)
    BY <1>0, <2>1, <2>2
  <2> HIDE DEF Good
  <2> QED BY <2>3
<1>4. ASSUME NEW n \in Q PROVE n + 1 \in Q
  <2> SUFFICES ASSUME n + 1 <= Len(s) PROVE Good(n + 1)
    OBVIOUS
  <2>1. n \in 0 .. Len(s) - 1
    BY <1>0
  <2>2. f[n] \in Seq(S) /\ \E h : Picks(s, T, n, f[n], h)
    BY <1>0
  <2>3. f[n + 1] = IF s[n + 1] \in T THEN Append(f[n], s[n + 1]) ELSE f[n]
    <3>1. n + 1 \in 0 .. Len(s) /\ n + 1 # 0 /\ (n + 1) - 1 = n
      BY <1>0, <2>1
    <3> QED BY <1>1, <3>1 DEF Step
  <2> QED BY <2>1, <2>2, <2>3, PickNext
<1> HIDE DEF Q
<1>5. Len(s) \in Q
  BY <1>0, <1>3, <1>4, Induction DEF Q
<1> QED BY <1>0, <1>2, <1>5 DEF Q
-----------------------------------------------------------------------------
Path(Name) == Seq(Name)
RuleSet(Name) == UNION {[S -> Rules] : S \in SUBSET Path(Name)}

-----------------------------------------------------------------------------
\* A prefix agrees with the path at each of its positions.
LEMMA PrefixByPosition ==
  ASSUME NEW Name, NEW p \in Path(Name), NEW q \in Path(Name)
  PROVE  IsPrefix(p, q) <=> Len(p) <= Len(q) /\ \A i \in 1..Len(p) : p[i] = q[i]
<1>1. CASE Len(p) > Len(q)
  BY <1>1 DEF IsPrefix, Path
<1>2. CASE Len(p) <= Len(q)
  <2>1. SubSeq(p, 1, Len(p)) = [i \in 1..Len(p) |-> p[i]]
    BY DEF Path
  <2>2. SubSeq(q, 1, Len(p)) = [i \in 1..Len(p) |-> q[i]]
    BY <1>2 DEF Path
  <2> QED BY <1>2, <2>1, <2>2 DEF IsPrefix
<1> QED BY <1>1, <1>2 DEF Path

\* Paths with the same names are the same path.
LEMMA PathExtensionality ==
  ASSUME NEW Name, NEW p \in Path(Name), NEW q \in Path(Name),
         Len(p) = Len(q), \A i \in 1..Len(p) : p[i] = q[i]
  PROVE  p = q
<1>1. p = [i \in 1..Len(p) |-> p[i]] /\ q = [i \in 1..Len(q) |-> q[i]]
  BY DEF Path
<1> QED BY <1>1

\* "At or under" is a partial order, and the ancestors of a path are ordered
\* by their length.
LEMMA PrefixOrder ==
  ASSUME NEW Name, NEW p \in Path(Name), NEW q \in Path(Name), NEW r \in Path(Name)
  PROVE  /\ IsPrefix(p, p)
         /\ IsPrefix(p, q) /\ IsPrefix(q, r) => IsPrefix(p, r)
         /\ IsPrefix(p, q) /\ IsPrefix(q, p) => p = q
         /\ IsPrefix(p, q) /\ Len(p) = Len(q) => p = q
         /\ IsPrefix(p, r) /\ IsPrefix(q, r) /\ Len(p) <= Len(q) => IsPrefix(p, q)
<1>0. Len(p) \in Nat /\ Len(q) \in Nat /\ Len(r) \in Nat
  BY DEF Path
<1>1. IsPrefix(p, p)
  BY <1>0, PrefixByPosition
<1>2. IsPrefix(p, q) /\ IsPrefix(q, r) => IsPrefix(p, r)
  BY <1>0, PrefixByPosition
<1>3. IsPrefix(p, q) /\ Len(p) = Len(q) => p = q
  BY <1>0, PrefixByPosition, PathExtensionality
<1>4. IsPrefix(p, q) /\ IsPrefix(q, p) => p = q
  BY <1>0, <1>3, PrefixByPosition
<1>5. IsPrefix(p, r) /\ IsPrefix(q, r) /\ Len(p) <= Len(q) => IsPrefix(p, q)
  BY <1>0, PrefixByPosition
<1> QED BY <1>1, <1>2, <1>3, <1>4, <1>5

\* A governed path has a closest rule, and only one.
LEMMA ClosestExists ==
  ASSUME NEW Name, NEW rules \in RuleSet(Name), NEW q \in Path(Name),
         Governing(rules, q) # {}
  PROVE  /\ Closest(rules, q) \in Governing(rules, q)
         /\ \A g \in Governing(rules, q) : Len(g) <= Len(Closest(rules, q))
<1> DEFINE G == Governing(rules, q)
           Slack == {Len(q) - Len(g) : g \in G}
<1>1. G \subseteq Path(Name) /\ Len(q) \in Nat
  BY DEF Governing, RuleSet, Path
<1>2. \A g \in G : Len(g) \in Nat /\ Len(g) <= Len(q)
  BY <1>1, PrefixByPosition DEF Governing, Path
<1>3. Slack \subseteq Nat /\ Slack # {}
  BY <1>1, <1>2
<1>4. PICK n \in Slack : \A m \in Slack : n <= m
  BY <1>3, LeastNatural
<1>5. PICK b \in G : n = Len(q) - Len(b)
  OBVIOUS
<1>6. ASSUME NEW g \in G PROVE Len(g) <= Len(b)
  <2>1. n <= Len(q) - Len(g)
    BY <1>4
  <2> HIDE DEF G, Slack
  <2> QED BY <1>1, <1>2, <1>5, <2>1
<1> QED BY <1>5, <1>6 DEF Closest

-----------------------------------------------------------------------------
\* What ReplaceSubtree leaves: the rules that are not at or under the path, and
\* the new one.
LEMMA ReplacedRules ==
  ASSUME NEW Name, NEW rules \in RuleSet(Name), NEW p \in Path(Name),
         NEW rule \in Rules
  PROVE  /\ ReplaceSubtree(rules, p, rule) \in RuleSet(Name)
         /\ ReplaceSubtree(rules, p, rule)[p] = rule
         /\ \A q \in DOMAIN ReplaceSubtree(rules, p, rule) :
               q = p \/ (q \in DOMAIN rules /\ ~IsPrefix(p, q))
         /\ p \in DOMAIN ReplaceSubtree(rules, p, rule)
         /\ \A q \in DOMAIN rules : ~IsPrefix(p, q) =>
               /\ q \in DOMAIN ReplaceSubtree(rules, p, rule)
               /\ q # p
               /\ ReplaceSubtree(rules, p, rule)[q] = rules[q]
<1> DEFINE kept == {q \in DOMAIN rules : ~IsPrefix(p, q)}
           new == ReplaceSubtree(rules, p, rule)
<1>1. DOMAIN rules \subseteq Path(Name) /\ \A q \in DOMAIN rules : rules[q] \in Rules
  BY DEF RuleSet
<1>2. p \notin kept
  BY PrefixOrder
<1>3. new = [q \in kept \cup {p} |-> IF q = p THEN rule ELSE rules[q]]
  BY DEF ReplaceSubtree
<1> HIDE DEF new
<1>4. new \in [kept \cup {p} -> Rules]
  BY <1>1, <1>3
<1>5. new \in RuleSet(Name)
  BY <1>1, <1>4 DEF RuleSet
<1>6. new[p] = rule /\ \A q \in kept : new[q] = rules[q]
  BY <1>2, <1>3
<1> QED BY <1>2, <1>4, <1>5, <1>6 DEF new

\* After an edit the paths at and under the one it names are governed by the new
\* rule, whatever rules there were above and below.
LEMMA EditGoverns ==
  ASSUME NEW Name, NEW rules \in RuleSet(Name), NEW p \in Path(Name),
         NEW rule \in Rules, NEW q \in Path(Name), IsPrefix(p, q)
  PROVE  LET new == ReplaceSubtree(rules, p, rule)
         IN  /\ p \in Governing(new, q)
             /\ Closest(new, q) = p
             /\ ~LeadsToLoaded(new, q)
<1> DEFINE new == ReplaceSubtree(rules, p, rule)
<1>1. new \in RuleSet(Name) /\ p \in Governing(new, q)
  BY ReplacedRules DEF Governing
<1>2. /\ Closest(new, q) \in Governing(new, q)
      /\ Len(p) <= Len(Closest(new, q))
  BY <1>1, ClosestExists
<1>3. Closest(new, q) \in Path(Name) /\ IsPrefix(Closest(new, q), q)
  BY <1>1, <1>2 DEF Governing, RuleSet
<1>4. IsPrefix(p, Closest(new, q))
  BY <1>2, <1>3, PrefixOrder
<1>5. Closest(new, q) = p
  BY <1>2, <1>4, ReplacedRules DEF Governing
<1>6. ASSUME NEW d \in DOMAIN new, IsStrictPrefix(q, d) PROVE FALSE
  <2>1. d \in Path(Name) /\ IsPrefix(q, d) /\ d # q
    BY <1>1, <1>6 DEF RuleSet, IsStrictPrefix
  <2>2. IsPrefix(p, d)
    BY <2>1, PrefixOrder
  <2>3. d = p
    BY <2>2, ReplacedRules
  <2> QED BY <2>1, <2>3, PrefixOrder
<1> QED BY <1>1, <1>5, <1>6 DEF LeadsToLoaded

\* LoadWithDescendants: everything at and under the path is loaded.
THEOREM LoadReachesDescendants ==
  ASSUME NEW Name, NEW rules \in RuleSet(Name), NEW p \in Path(Name),
         NEW q \in Path(Name), IsPrefix(p, q)
  PROVE  GetEffect(ReplaceSubtree(rules, p, "All"), q) = "All"
<1> DEFINE new == ReplaceSubtree(rules, p, "All")
<1>1. /\ p \in Governing(new, q) /\ Closest(new, q) = p /\ new[p] = "All"
  BY EditGoverns, ReplacedRules DEF Rules
<1> QED BY <1>1 DEF GetEffect

\* LoadWithoutDescendants: the path is loaded and nothing under it.
THEOREM LoadAloneStopsThere ==
  ASSUME NEW Name, NEW rules \in RuleSet(Name), NEW p \in Path(Name),
         NEW q \in Path(Name), IsPrefix(p, q)
  PROVE  GetEffect(ReplaceSubtree(rules, p, "Only"), q) = IF q = p THEN "Only" ELSE "None"
<1> DEFINE new == ReplaceSubtree(rules, p, "Only")
<1>1. /\ p \in Governing(new, q) /\ Closest(new, q) = p /\ new[p] = "Only"
      /\ ~LeadsToLoaded(new, q)
  BY EditGoverns, ReplacedRules DEF Rules
<1> QED BY <1>1 DEF GetEffect

\* Unload: nothing at or under the path is loaded, however much of it was.
THEOREM UnloadReachesDescendants ==
  ASSUME NEW Name, NEW rules \in RuleSet(Name), NEW p \in Path(Name),
         NEW q \in Path(Name), IsPrefix(p, q)
  PROVE  GetEffect(ReplaceSubtree(rules, p, "None"), q) = "None"
<1> DEFINE new == ReplaceSubtree(rules, p, "None")
<1>1. /\ p \in Governing(new, q) /\ Closest(new, q) = p /\ new[p] = "None"
      /\ ~LeadsToLoaded(new, q)
  BY EditGoverns, ReplacedRules DEF Rules
<1> QED BY <1>1 DEF GetEffect

\* A load makes every prim above it loaded too, also one that was unloaded: a
\* prim under an absent payload could not be composed.
THEOREM LoadReachesAncestors ==
  ASSUME NEW Name, NEW rules \in RuleSet(Name), NEW p \in Path(Name),
         NEW rule \in {"All", "Only"}, NEW q \in Path(Name), IsStrictPrefix(q, p)
  PROVE  GetEffect(ReplaceSubtree(rules, p, rule), q) \in {"All", "Only"}
<1> DEFINE new == ReplaceSubtree(rules, p, rule)
<1>1. p \in DOMAIN new /\ new[p] # "None"
  BY ReplacedRules DEF Rules
<1>2. LeadsToLoaded(new, q)
  BY <1>1 DEF LeadsToLoaded
<1>3. GetEffect(new, q) \in {"All", "Only"}
  <2> HIDE DEF new
  <2> QED BY <1>2 DEF GetEffect
<1> QED BY <1>3

\* An edit is local: a path beside the one it names keeps its effect.
THEOREM EditIsLocal ==
  ASSUME NEW Name, NEW rules \in RuleSet(Name), NEW p \in Path(Name),
         NEW rule \in Rules, NEW q \in Path(Name), ~IsPrefix(p, q), ~IsPrefix(q, p)
  PROVE  GetEffect(ReplaceSubtree(rules, p, rule), q) = GetEffect(rules, q)
<1> DEFINE new == ReplaceSubtree(rules, p, rule)
<1>1. new \in RuleSet(Name) /\ DOMAIN rules \subseteq Path(Name)
      /\ DOMAIN new \subseteq Path(Name)
  BY ReplacedRules DEF RuleSet
<1>2. Governing(new, q) = Governing(rules, q)
  <2>1. ASSUME NEW g \in DOMAIN rules, IsPrefix(g, q) PROVE ~IsPrefix(p, g)
    BY <1>1, <2>1, PrefixOrder
  <2> QED BY <2>1, ReplacedRules DEF Governing
<1>3. \A g \in Governing(rules, q) : new[g] = rules[g]
  <2>1. ASSUME NEW g \in Governing(rules, q) PROVE ~IsPrefix(p, g)
    BY <1>1, PrefixOrder DEF Governing
  <2> QED BY <2>1, ReplacedRules DEF Governing
<1>4. Closest(new, q) = Closest(rules, q)
  BY <1>2 DEF Closest
<1>5. Governing(rules, q) # {} => new[Closest(rules, q)] = rules[Closest(rules, q)]
  BY <1>3, ClosestExists
<1>6. LeadsToLoaded(new, q) <=> LeadsToLoaded(rules, q)
  <2>1. ASSUME NEW d \in Path(Name), IsPrefix(q, d) PROVE d # p /\ ~IsPrefix(p, d)
    <3>1. d # p
      BY <2>1
    <3>2. ASSUME IsPrefix(p, d) PROVE FALSE
      <4>1. Len(p) <= Len(q) \/ Len(q) <= Len(p)
        BY DEF Path
      <4> QED BY <2>1, <3>2, <4>1, PrefixOrder
    <3> QED BY <3>1, <3>2
  <2> QED BY <1>1, <2>1, ReplacedRules DEF LeadsToLoaded, IsStrictPrefix
<1>7. GetEffect(new, q) = GetEffect(rules, q)
  <2> HIDE DEF new
  <2> QED BY <1>2, <1>4, <1>5, <1>6 DEF GetEffect
<1> QED BY <1>7


-----------------------------------------------------------------------------
(* Mappings of paths over arcs.                                             *)

Mapping(Name) ==
  [pairs : Seq(Path(Name) \X Path(Name)), crosses : BOOLEAN, intra : BOOLEAN]

\* A path moved from one prefix to another: its length and its names.
LEMMA MovedNames ==
  ASSUME NEW Name, NEW x \in Path(Name), NEW a \in Path(Name), NEW b \in Path(Name),
         IsPrefix(a, x)
  PROVE  /\ Moved(x, a, b) \in Path(Name)
         /\ Len(Moved(x, a, b)) = Len(b) + Len(x) - Len(a)
         /\ \A i \in 1 .. Len(b) : Moved(x, a, b)[i] = b[i]
         /\ \A i \in 1 .. Len(b) + Len(x) - Len(a) :
              i > Len(b) => Moved(x, a, b)[i] = x[i - Len(b) + Len(a)]
         /\ IsPrefix(b, Moved(x, a, b))
<1> DEFINE rest == SubSeq(x, Len(a) + 1, Len(x))
<1>0. Len(x) \in Nat /\ Len(a) \in Nat /\ Len(b) \in Nat /\ Len(a) <= Len(x)
  BY PrefixByPosition DEF Path
<1>1. rest \in Seq(Name) /\ Len(rest) = Len(x) - Len(a)
  BY <1>0 DEF Path
<1>2. \A i \in 1 .. Len(x) - Len(a) : rest[i] = x[i + Len(a)]
  BY <1>0 DEF Path
<1> HIDE DEF rest
<1>3. Moved(x, a, b) = b \o rest
  BY DEF Moved, rest
<1>4. b \o rest \in Path(Name) /\ Len(b \o rest) = Len(b) + Len(rest)
  BY <1>1 DEF Path
<1>5. \A i \in 1 .. Len(b) : (b \o rest)[i] = b[i]
  BY <1>1 DEF Path
<1>6. \A i \in 1 .. Len(b) + Len(rest) : i > Len(b) => (b \o rest)[i] = rest[i - Len(b)]
  BY <1>1 DEF Path
<1>7. ASSUME NEW i \in 1 .. Len(b) + Len(x) - Len(a), i > Len(b)
      PROVE  Moved(x, a, b)[i] = x[i - Len(b) + Len(a)]
  <2>1. i - Len(b) \in 1 .. Len(x) - Len(a) /\ i \in 1 .. Len(b) + Len(rest)
    BY <1>0, <1>1, <1>7
  <2> QED BY <1>2, <1>3, <1>6, <1>7, <2>1
<1>8. IsPrefix(b, Moved(x, a, b))
  <2>1. /\ Moved(x, a, b) \in Path(Name) /\ Len(b) <= Len(Moved(x, a, b))
        /\ \A i \in 1 .. Len(b) : b[i] = Moved(x, a, b)[i]
    BY <1>0, <1>1, <1>3, <1>4, <1>5
  <2> QED BY <2>1, PrefixByPosition
<1> QED BY <1>0, <1>1, <1>3, <1>4, <1>5, <1>7, <1>8

\* Moving a path from a to b moves what it is under with it.
LEMMA MovedTogether ==
  ASSUME NEW Name, NEW x \in Path(Name), NEW a \in Path(Name), NEW b \in Path(Name),
         NEW o \in Path(Name), IsPrefix(a, x), IsPrefix(b, o)
  PROVE  IsPrefix(o, Moved(x, a, b)) <=> IsPrefix(Moved(o, b, a), x)
<1> DEFINE y == Moved(x, a, b)
           d == Moved(o, b, a)
<1>0. /\ Len(x) \in Nat /\ Len(a) \in Nat /\ Len(b) \in Nat /\ Len(o) \in Nat
      /\ Len(a) <= Len(x) /\ Len(b) <= Len(o)
  BY PrefixByPosition DEF Path
<1>1. /\ y \in Path(Name) /\ Len(y) = Len(b) + Len(x) - Len(a)
      /\ \A i \in 1 .. Len(b) : y[i] = b[i]
      /\ \A i \in 1 .. Len(b) + Len(x) - Len(a) : i > Len(b) => y[i] = x[i - Len(b) + Len(a)]
  BY MovedNames
<1>2. /\ d \in Path(Name) /\ Len(d) = Len(a) + Len(o) - Len(b)
      /\ \A i \in 1 .. Len(a) : d[i] = a[i]
      /\ \A i \in 1 .. Len(a) + Len(o) - Len(b) : i > Len(a) => d[i] = o[i - Len(a) + Len(b)]
  BY MovedNames
<1>3. /\ \A i \in 1 .. Len(a) : x[i] = a[i]
      /\ \A i \in 1 .. Len(b) : o[i] = b[i]
  BY PrefixByPosition
<1> HIDE DEF y, d
<1>4. ASSUME IsPrefix(o, y) PROVE IsPrefix(d, x)
  <2>1. Len(o) <= Len(y) /\ \A i \in 1 .. Len(o) : o[i] = y[i]
    BY <1>1, <1>4, PrefixByPosition
  <2>2. ASSUME NEW i \in 1 .. Len(d), i > Len(a) PROVE d[i] = x[i]
    <3> DEFINE j == i - Len(a) + Len(b)
    <3>1. j \in 1 .. Len(o) /\ j \in 1 .. Len(y) /\ j > Len(b) /\ j - Len(b) + Len(a) = i
      BY <1>0, <1>1, <1>2, <2>1, <2>2
    <3>2. d[i] = o[j]
      BY <1>2, <2>2
    <3>3. y[j] = x[j - Len(b) + Len(a)]
      BY <1>1, <3>1
    <3> HIDE DEF j
    <3> QED BY <2>1, <3>1, <3>2, <3>3
  <2>3. Len(d) <= Len(x)
    BY <1>0, <1>1, <1>2, <2>1
  <2>4. \A i \in 1 .. Len(d) : d[i] = x[i]
    BY <1>0, <1>2, <1>3, <2>2
  <2> QED BY <1>2, <2>3, <2>4, PrefixByPosition
<1>5. ASSUME IsPrefix(d, x) PROVE IsPrefix(o, y)
  <2>1. Len(d) <= Len(x) /\ \A i \in 1 .. Len(d) : d[i] = x[i]
    BY <1>2, <1>5, PrefixByPosition
  <2>2. ASSUME NEW j \in 1 .. Len(o), j > Len(b) PROVE o[j] = y[j]
    <3> DEFINE i == j - Len(b) + Len(a)
    <3>1. i \in 1 .. Len(d) /\ j \in 1 .. Len(y) /\ i > Len(a) /\ i - Len(a) + Len(b) = j
      BY <1>0, <1>1, <1>2, <2>1, <2>2
    <3>2. y[j] = x[i]
      BY <1>1, <2>2, <3>1
    <3>3. d[i] = o[i - Len(a) + Len(b)]
      BY <1>2, <3>1
    <3> HIDE DEF i
    <3> QED BY <2>1, <3>1, <3>2, <3>3
  <2>3. Len(o) <= Len(y)
    BY <1>0, <1>1, <1>2, <2>1
  <2>4. ASSUME NEW j \in 1 .. Len(o) PROVE o[j] = y[j]
    <3>1. CASE j > Len(b)
      BY <2>2, <3>1
    <3>2. CASE ~(j > Len(b))
      <4>1. j \in 1 .. Len(b)
        BY <1>0, <3>2
      <4> QED BY <1>1, <1>3, <4>1
    <3> QED BY <3>1, <3>2
  <2> QED BY <1>1, <2>3, <2>4, PrefixByPosition
<1> QED BY <1>4, <1>5 DEF y, d

\* Moving a path twice, the second time from a prefix below where the first
\* brought it, or from one above, is one move.
LEMMA MovedTwice ==
  ASSUME NEW Name, NEW x \in Path(Name), NEW a \in Path(Name), NEW b \in Path(Name),
         NEW o \in Path(Name), NEW t \in Path(Name), IsPrefix(a, x)
  PROVE  /\ IsPrefix(b, o) /\ IsPrefix(o, Moved(x, a, b)) =>
              Moved(Moved(x, a, b), o, t) = Moved(x, Moved(o, b, a), t)
         /\ IsPrefix(o, b) =>
              /\ IsPrefix(o, Moved(x, a, b))
              /\ Moved(Moved(x, a, b), o, t) = Moved(x, a, Moved(b, o, t))
<1> DEFINE y == Moved(x, a, b)
<1>0. /\ Len(x) \in Nat /\ Len(a) \in Nat /\ Len(b) \in Nat /\ Len(o) \in Nat /\ Len(t) \in Nat
      /\ Len(a) <= Len(x)
  BY PrefixByPosition DEF Path
<1>1. /\ y \in Path(Name) /\ Len(y) = Len(b) + Len(x) - Len(a) /\ IsPrefix(b, y)
      /\ \A i \in 1 .. Len(b) : y[i] = b[i]
      /\ \A i \in 1 .. Len(b) + Len(x) - Len(a) : i > Len(b) => y[i] = x[i - Len(b) + Len(a)]
  BY MovedNames
<1>2. ASSUME IsPrefix(b, o), IsPrefix(o, Moved(x, a, b))
      PROVE  Moved(Moved(x, a, b), o, t) = Moved(x, Moved(o, b, a), t)
  <2> DEFINE d == Moved(o, b, a)
             l == Moved(y, o, t)
             r == Moved(x, d, t)
  <2>1. d \in Path(Name) /\ Len(d) = Len(a) + Len(o) - Len(b)
    BY <1>2, MovedNames
  <2>2. IsPrefix(d, x) /\ Len(b) <= Len(o) /\ Len(o) <= Len(y)
    BY <1>1, <1>2, MovedTogether, PrefixByPosition
  <2> HIDE DEF d, y
  <2>3. /\ l \in Path(Name) /\ Len(l) = Len(t) + Len(y) - Len(o)
        /\ \A i \in 1 .. Len(t) : l[i] = t[i]
        /\ \A i \in 1 .. Len(t) + Len(y) - Len(o) : i > Len(t) => l[i] = y[i - Len(t) + Len(o)]
    <3>1. y \in Path(Name) /\ IsPrefix(o, y)
      BY <1>1, <1>2 DEF y
    <3> QED BY <3>1, MovedNames
  <2>4. /\ r \in Path(Name) /\ Len(r) = Len(t) + Len(x) - Len(d)
        /\ \A i \in 1 .. Len(t) : r[i] = t[i]
        /\ \A i \in 1 .. Len(t) + Len(x) - Len(d) : i > Len(t) => r[i] = x[i - Len(t) + Len(d)]
    <3>1. d \in Path(Name) /\ IsPrefix(d, x)
      BY <2>1, <2>2
    <3> QED BY <3>1, MovedNames
  <2> HIDE DEF l, r
  <2>5. Len(l) = Len(r)
    BY <1>0, <1>1, <2>1, <2>3, <2>4
  <2>6. ASSUME NEW i \in 1 .. Len(l) PROVE l[i] = r[i]
    <3>1. CASE i <= Len(t)
      <4>1. i \in 1 .. Len(t)
        BY <1>0, <3>1
      <4> QED BY <2>3, <2>4, <4>1
    <3>2. CASE i > Len(t)
      <4>1. l[i] = y[i - Len(t) + Len(o)]
        BY <2>3, <3>2
      <4>2. r[i] = x[i - Len(t) + Len(d)]
        BY <2>4, <2>5, <3>2
      <4> DEFINE j == i - Len(t) + Len(o)
      <4>3. j \in 1 .. Len(b) + Len(x) - Len(a) /\ j > Len(b)
        BY <1>0, <1>1, <2>2, <2>3, <3>2
      <4>4. j - Len(b) + Len(a) = i - Len(t) + Len(d)
        BY <1>0, <2>1, <2>3, <3>2
      <4> HIDE DEF j
      <4>5. y[j] = x[j - Len(b) + Len(a)]
        BY <1>1, <4>3
      <4> QED BY <4>1, <4>2, <4>4, <4>5 DEF j
    <3> QED BY <1>0, <2>3, <3>1, <3>2
  <2> QED BY <2>3, <2>4, <2>5, <2>6, PathExtensionality DEF l, r, y, d
<1>3. ASSUME IsPrefix(o, b)
      PROVE  /\ IsPrefix(o, Moved(x, a, b))
             /\ Moved(Moved(x, a, b), o, t) = Moved(x, a, Moved(b, o, t))
  <2> DEFINE e == Moved(b, o, t)
             l == Moved(y, o, t)
             r == Moved(x, a, e)
  <2>1. /\ e \in Path(Name) /\ Len(e) = Len(t) + Len(b) - Len(o)
        /\ \A i \in 1 .. Len(t) : e[i] = t[i]
        /\ \A i \in 1 .. Len(t) + Len(b) - Len(o) : i > Len(t) => e[i] = b[i - Len(t) + Len(o)]
    BY <1>3, MovedNames
  <2>2. IsPrefix(o, y) /\ Len(o) <= Len(b)
    BY <1>1, <1>3, PrefixOrder, PrefixByPosition
  <2> HIDE DEF e, y
  <2>3. /\ l \in Path(Name) /\ Len(l) = Len(t) + Len(y) - Len(o)
        /\ \A i \in 1 .. Len(t) : l[i] = t[i]
        /\ \A i \in 1 .. Len(t) + Len(y) - Len(o) : i > Len(t) => l[i] = y[i - Len(t) + Len(o)]
    <3>1. y \in Path(Name) /\ IsPrefix(o, y)
      BY <1>1, <2>2
    <3> QED BY <3>1, MovedNames
  <2>4. /\ r \in Path(Name) /\ Len(r) = Len(e) + Len(x) - Len(a)
        /\ \A i \in 1 .. Len(e) : r[i] = e[i]
        /\ \A i \in 1 .. Len(e) + Len(x) - Len(a) : i > Len(e) => r[i] = x[i - Len(e) + Len(a)]
    <3>1. e \in Path(Name)
      BY <2>1
    <3> QED BY <3>1, MovedNames
  <2> HIDE DEF l, r
  <2>5. Len(l) = Len(r)
    BY <1>0, <1>1, <2>1, <2>3, <2>4
  <2>6. ASSUME NEW i \in 1 .. Len(l) PROVE l[i] = r[i]
    <3>1. CASE i <= Len(t)
      <4>1. i \in 1 .. Len(t) /\ i \in 1 .. Len(e)
        BY <1>0, <2>1, <2>2, <3>1
      <4> QED BY <2>1, <2>3, <2>4, <4>1
    <3>2. CASE i > Len(t) /\ i <= Len(e)
      <4> DEFINE j == i - Len(t) + Len(o)
      <4>1. i \in 1 .. Len(e) /\ j \in 1 .. Len(b)
        BY <1>0, <2>1, <2>2, <3>2
      <4>2. l[i] = y[j] /\ y[j] = b[j]
        BY <1>1, <2>3, <3>2, <4>1
      <4>3. r[i] = e[i] /\ e[i] = b[j]
        BY <2>1, <2>4, <3>2, <4>1
      <4> QED BY <4>2, <4>3
    <3>3. CASE i > Len(e)
      <4> DEFINE j == i - Len(t) + Len(o)
      <4>1. j \in 1 .. Len(b) + Len(x) - Len(a) /\ j > Len(b) /\ i > Len(t)
        BY <1>0, <1>1, <2>1, <2>2, <2>3, <3>3
      <4>2. j - Len(b) + Len(a) = i - Len(e) + Len(a)
        BY <1>0, <2>1, <2>3
      <4>3. l[i] = y[j]
        BY <2>3, <4>1
      <4>4. r[i] = x[i - Len(e) + Len(a)]
        BY <2>4, <2>5, <3>3
      <4> HIDE DEF j
      <4>5. y[j] = x[j - Len(b) + Len(a)]
        BY <1>1, <4>1
      <4> QED BY <4>2, <4>3, <4>4, <4>5
    <3> QED BY <1>0, <2>1, <2>3, <3>1, <3>2, <3>3
  <2>7. l = r
    BY <2>3, <2>4, <2>5, <2>6, PathExtensionality
  <2> QED BY <2>2, <2>7 DEF l, r, y, e
<1> QED BY <1>2, <1>3

\* A path moved from one prefix to another and back is where it was.
LEMMA MovedBack ==
  ASSUME NEW Name, NEW x \in Path(Name), NEW p \in Path(Name), NEW q \in Path(Name),
         IsPrefix(p, x)
  PROVE  Moved(Moved(x, p, q), q, p) = x
<1> DEFINE y == Moved(x, p, q)
           z == Moved(y, q, p)
<1>0. Len(x) \in Nat /\ Len(p) \in Nat /\ Len(q) \in Nat /\ Len(p) <= Len(x)
  BY PrefixByPosition DEF Path
<1>1. /\ y \in Path(Name) /\ Len(y) = Len(q) + Len(x) - Len(p)
      /\ \A i \in 1 .. Len(q) + Len(x) - Len(p) : i > Len(q) => y[i] = x[i - Len(q) + Len(p)]
      /\ IsPrefix(q, y)
  BY MovedNames
<1> HIDE DEF y
<1>2. /\ z \in Path(Name) /\ Len(z) = Len(p) + Len(y) - Len(q)
      /\ \A i \in 1 .. Len(p) : z[i] = p[i]
      /\ \A i \in 1 .. Len(p) + Len(y) - Len(q) : i > Len(p) => z[i] = y[i - Len(p) + Len(q)]
  <2>1. y \in Path(Name) /\ IsPrefix(q, y)
    BY <1>1
  <2> HIDE DEF z
  <2>2. ASSUME NEW w \in Path(Name), IsPrefix(q, w)
        PROVE  /\ Moved(w, q, p) \in Path(Name) /\ Len(Moved(w, q, p)) = Len(p) + Len(w) - Len(q)
               /\ \A i \in 1 .. Len(p) : Moved(w, q, p)[i] = p[i]
               /\ \A i \in 1 .. Len(p) + Len(w) - Len(q) :
                    i > Len(p) => Moved(w, q, p)[i] = w[i - Len(p) + Len(q)]
    BY <2>2, MovedNames
  <2> QED BY <2>1, <2>2 DEF z
<1> HIDE DEF z
<1>3. ASSUME NEW i \in 1 .. Len(z) PROVE z[i] = x[i]
  <2>1. CASE i <= Len(p)
    <3>1. i \in 1 .. Len(p)
      BY <1>0, <2>1
    <3> QED BY <1>2, <3>1, PrefixByPosition
  <2>2. CASE i > Len(p)
    <3> DEFINE j == i - Len(p) + Len(q)
    <3>1. z[i] = y[j]
      BY <1>2, <2>2
    <3>2. j \in 1 .. Len(q) + Len(x) - Len(p) /\ j > Len(q) /\ j - Len(q) + Len(p) = i
      BY <1>0, <1>1, <1>2, <2>2
    <3> HIDE DEF j
    <3>3. y[j] = x[j - Len(q) + Len(p)]
      BY <1>1, <3>2
    <3> QED BY <3>1, <3>2, <3>3
  <2> QED BY <1>0, <1>2, <2>1, <2>2
<1>4. Len(z) = Len(x)
  BY <1>0, <1>1, <1>2
<1>5. z = x
  BY <1>2, <1>3, <1>4, PathExtensionality
<1> QED BY <1>5 DEF z, y

\* What MatchSource and MatchTarget look for: a matching pair, none longer, none
\* of the same length before it.
IsLongest(m, path, side, i) ==
  /\ i \in Matches(m, path, side)
  /\ \A j \in Matches(m, path, side) :
        \/ Len(m.pairs[j][side]) < Len(m.pairs[i][side])
        \/ Len(m.pairs[j][side]) = Len(m.pairs[i][side]) /\ i <= j

\* There is exactly one such pair if any matches.
LEMMA LongestIsUnique ==
  ASSUME NEW Name, NEW m \in Mapping(Name), NEW path \in Path(Name), NEW side \in {1, 2}
  PROVE  /\ Matches(m, path, side) # {} => IsLongest(m, path, side, Longest(m, path, side))
         /\ \A i : IsLongest(m, path, side, i) => Longest(m, path, side) = i
<1> DEFINE M == Matches(m, path, side)
           L(i) == Len(m.pairs[i][side])
<1>0. /\ Len(path) \in Nat
      /\ \A i \in DOMAIN m.pairs : m.pairs[i][side] \in Path(Name)
  BY DEF Mapping, Path
<1>1. \A i \in M : i \in Nat /\ L(i) \in Nat /\ L(i) <= Len(path)
  <2> TAKE i \in M
  <2>1. i \in DOMAIN m.pairs /\ IsPrefix(m.pairs[i][side], path)
    BY DEF Matches, AtOrUnder
  <2>2. DOMAIN m.pairs \subseteq Nat
    BY DEF Mapping
  <2> QED BY <1>0, <2>1, <2>2, PrefixByPosition DEF Path
<1>2. ASSUME M # {} PROVE \E i : IsLongest(m, path, side, i)
  <2> DEFINE Slack == {Len(path) - L(i) : i \in M}
  <2> HIDE DEF M
  <2>1. Slack \subseteq Nat /\ Slack # {}
    BY <1>0, <1>1, <1>2
  <2>2. PICK n \in Slack : \A k \in Slack : n <= k
    BY <2>1, LeastNatural
  <2> DEFINE Best == {i \in M : L(i) = Len(path) - n}
  <2>3. Best \subseteq Nat /\ Best # {}
    BY <1>0, <1>1, <2>1
  <2>4. PICK i \in Best : \A j \in Best : i <= j
    BY <2>3, LeastNatural
  <2>5. ASSUME NEW j \in M PROVE L(j) < L(i) \/ (L(j) = L(i) /\ i <= j)
    <3>1. n <= Len(path) - L(j) /\ L(i) = Len(path) - n /\ n \in Nat
      BY <2>1, <2>2, <2>4
    <3>2. L(j) = L(i) => j \in Best
      BY <3>1
    <3> HIDE DEF L, Best
    <3>3. L(j) <= L(i)
      BY <1>0, <1>1, <3>1
    <3>4. i \in Best /\ L(i) \in Nat /\ L(j) \in Nat
      BY <1>0, <1>1, <2>3, <3>1 DEF Best
    <3> QED BY <2>4, <3>2, <3>3, <3>4
  <2>6. i \in M
    BY <2>4
  <2> QED BY <2>5, <2>6 DEF IsLongest, M
<1>3. ASSUME NEW i, NEW j, IsLongest(m, path, side, i), IsLongest(m, path, side, j) PROVE i = j
  <2>1. i \in M /\ j \in M
    BY <1>3 DEF IsLongest
  <2>2. /\ L(j) < L(i) \/ (L(j) = L(i) /\ i <= j)
        /\ L(i) < L(j) \/ (L(i) = L(j) /\ j <= i)
    BY <1>3, <2>1 DEF IsLongest
  <2> HIDE DEF M, L
  <2> QED BY <1>1, <2>1, <2>2
<1>4. Longest(m, path, side) = CHOOSE i : IsLongest(m, path, side, i)
  BY DEF Longest, IsLongest
<1> QED BY <1>2, <1>3, <1>4 DEF IsLongest

\* Two sequences joined.
LEMMA Joined ==
  ASSUME NEW S, NEW s \in Seq(S), NEW t \in Seq(S), NEW r, r = s \o t
  PROVE  /\ r \in Seq(S) /\ Len(r) = Len(s) + Len(t)
         /\ \A i \in 1 .. Len(s) : r[i] = s[i]
         /\ \A i \in 1 .. Len(t) : r[Len(s) + i] = t[i]
<1>1. r \in Seq(S) /\ Len(r) = Len(s) + Len(t) /\ \A i \in 1 .. Len(s) : r[i] = s[i]
  OBVIOUS
<1>2. ASSUME NEW i \in 1 .. Len(t) PROVE r[Len(s) + i] = t[i]
  <2>1. /\ Len(s) + i \in 1 .. Len(s) + Len(t) /\ Len(s) + i > Len(s)
        /\ (Len(s) + i) - Len(s) = i
    OBVIOUS
  <2> QED BY <2>1
<1> QED BY <1>1, <1>2

\* A sequence with one element put before it.
LEMMA OneBefore ==
  ASSUME NEW S, NEW s \in Seq(S), NEW e \in S, NEW r, r = << e >> \o s
  PROVE  /\ r \in Seq(S) /\ Len(r) = 1 + Len(s) /\ r[1] = e
         /\ \A i \in 1 .. Len(s) : r[1 + i] = s[i]
<1>1. << e >> \in Seq(S) /\ Len(<< e >>) = 1 /\ << e >>[1] = e
  OBVIOUS
<1>2. r \in Seq(S) /\ Len(r) = 1 + Len(s) /\ r[1] = e
  BY <1>1
<1>3. \A i \in 1 .. Len(s) : r[1 + i] = s[i]
  <2> TAKE i \in 1 .. Len(s)
  <2>1. 1 + i \in 1 .. 1 + Len(s) /\ 1 + i > 1 /\ (1 + i) - 1 = i
    OBVIOUS
  <2> QED BY <1>1, <2>1
<1> QED BY <1>2, <1>3

\* What Compose makes of an inner mapping of one pair: the pair carried through
\* outer, then the outer pairs below its target, then those that pass through.
ComposedPairs(outer, a, b, pairs, below, through) ==
  /\ Len(pairs) = 1 + Len(below) + Len(through)
  /\ pairs[1] = <<a, Apply(outer, b)>>
  /\ \A i \in 1 .. Len(below) : pairs[1 + i] = <<Moved(below[i][1], b, a), below[i][2]>>
  /\ \A i \in 1 .. Len(through) : pairs[1 + Len(below) + i] = through[i]

\* What is left of a pair of the inner mapping: the pair, and the outer pairs
\* below its target.
CarriedSo(Name, outer, a, b, below, carried) ==
  /\ below \in Seq(Path(Name) \X Path(Name))
  /\ \A i \in 1 .. Len(below) : /\ IsPrefix(b, below[i][1]) /\ b # below[i][1]
                                /\ \E j \in DOMAIN outer.pairs : outer.pairs[j] = below[i]
  /\ carried \in Seq(Path(Name) \X Path(Name))
  /\ Len(carried) = 1 + Len(below)
  /\ carried[1] = <<a, Apply(outer, b)>>
  /\ \A i \in 1 .. Len(below) : carried[1 + i] = <<Moved(below[i][1], b, a), below[i][2]>>

LEMMA CarriedPairs ==
  ASSUME NEW Name, NEW outer \in Mapping(Name), NEW a \in Path(Name), NEW b \in Path(Name),
         NEW below, below = StrictlyBelow(outer, b)
  PROVE  CarriedSo(Name, outer, a, b, below, Carried(outer, <<a, b>>))
<1> DEFINE P == Path(Name) \X Path(Name)
           carried == Carried(outer, <<a, b>>)
           B == {p \in ToSet(outer.pairs) : IsStrictPrefix(b, p[1])}
           pulled == [i \in DOMAIN below |-> <<Moved(below[i][1], b, a), below[i][2]>>]
<1>0. outer.pairs \in Seq(P)
  BY DEF Mapping
<1>1. below = Kept(outer.pairs, B)
  BY DEF StrictlyBelow
<1>2. /\ below \in Seq(P) /\ \E h : Picks(outer.pairs, B, Len(outer.pairs), below, h)
  BY <1>0, <1>1, KeptIsSubsequence
<1>3. \A i \in DOMAIN below :
        /\ IsPrefix(b, below[i][1]) /\ b # below[i][1] /\ below[i] \in P
        /\ \E j \in DOMAIN outer.pairs : outer.pairs[j] = below[i]
  <2> TAKE i \in DOMAIN below
  <2>1. below[i] \in B /\ \E j \in DOMAIN outer.pairs : outer.pairs[j] = below[i]
    <3>2. i \in 1 .. Len(below)
      BY <1>2
    <3> HIDE DEF B
    <3>3. PICK h : Picks(outer.pairs, B, Len(outer.pairs), below, h)
      BY <1>2
    <3>4. below[i] \in B /\ h[i] \in 1 .. Len(outer.pairs) /\ outer.pairs[h[i]] = below[i]
      BY <3>2, <3>3 DEF Picks
    <3> QED BY <1>0, <3>4
  <2> QED BY <1>2, <2>1 DEF IsStrictPrefix
<1>4. carried = << <<a, Apply(outer, b)>> >> \o pulled
  BY DEF Carried
<1> HIDE DEF B
<1>5. pulled \in Seq(P) /\ Len(pulled) = Len(below)
  <2>1. \A i \in DOMAIN below : <<Moved(below[i][1], b, a), below[i][2]>> \in P
    <3> TAKE i \in DOMAIN below
    <3>1. below[i][1] \in Path(Name) /\ below[i][2] \in Path(Name)
      BY <1>3
    <3>2. Moved(below[i][1], b, a) \in Path(Name)
      BY <1>3, <3>1, MovedNames
    <3> QED BY <3>1, <3>2
  <2> QED BY <1>2, <2>1
<1>6. Apply(outer, b) \in Path(Name)
  <2>1. CASE Matches(outer, b, 1) = {}
    BY <2>1 DEF Apply
  <2>2. CASE Matches(outer, b, 1) # {}
    <3> DEFINE p == outer.pairs[Longest(outer, b, 1)]
    <3>1. Longest(outer, b, 1) \in Matches(outer, b, 1)
      BY <2>2, LongestIsUnique DEF IsLongest
    <3>2. p \in P /\ IsPrefix(p[1], b)
      BY <1>0, <3>1 DEF Matches, AtOrUnder
    <3> HIDE DEF p
    <3>3. p[1] \in Path(Name) /\ p[2] \in Path(Name)
      BY <3>2
    <3>4. Moved(b, p[1], p[2]) \in Path(Name)
      BY <3>2, <3>3, MovedNames
    <3> QED BY <2>2, <3>4 DEF Apply, p
  <2> QED BY <2>1, <2>2
<1> HIDE DEF pulled
<1>7. /\ carried \in Seq(P) /\ Len(carried) = 1 + Len(below)
      /\ carried[1] = <<a, Apply(outer, b)>>
      /\ \A i \in 1 .. Len(below) : carried[1 + i] = pulled[i]
  <2> DEFINE e == <<a, Apply(outer, b)>>
  <2>1. e \in P
    BY <1>6
  <2>2. carried = << e >> \o pulled
    BY <1>4
  <2> HIDE DEF e, carried, P
  <2>3. /\ carried \in Seq(P) /\ Len(carried) = 1 + Len(pulled) /\ carried[1] = e
        /\ \A i \in 1 .. Len(pulled) : carried[1 + i] = pulled[i]
    BY <1>5, <2>1, <2>2, OneBefore
  <2> QED BY <1>5, <2>3 DEF e
<1>8. \A i \in 1 .. Len(below) : pulled[i] = <<Moved(below[i][1], b, a), below[i][2]>>
  BY <1>2 DEF pulled
<1>9. \A i \in 1 .. Len(below) : i \in DOMAIN below
  BY <1>2
<1>10. carried \in Seq(P) /\ Len(carried) = 1 + Len(below) /\ carried[1] = <<a, Apply(outer, b)>>
  BY <1>7
<1>11. \A i \in 1 .. Len(below) : carried[1 + i] = <<Moved(below[i][1], b, a), below[i][2]>>
  BY <1>7, <1>8
<1>12. CarriedSo(Name, outer, a, b, below, carried)
  BY <1>2, <1>3, <1>9, <1>10, <1>11 DEF CarriedSo
<1> QED BY <1>12 DEF carried

\* It makes these pairs.
LEMMA ComposeWithOnePair ==
  ASSUME NEW Name, NEW outer \in Mapping(Name), NEW inner \in Mapping(Name),
         NEW a \in Path(Name), NEW b \in Path(Name), inner.pairs = << <<a, b>> >>,
         outer.pairs # << >>,
         NEW c, c = Compose(outer, inner),
         NEW below, below = StrictlyBelow(outer, b),
         NEW through, through = Through(outer, inner)
  PROVE  /\ c \in Mapping(Name)
         /\ below \in Seq(Path(Name) \X Path(Name)) /\ through \in Seq(Path(Name) \X Path(Name))
         /\ ComposedPairs(outer, a, b, c.pairs, below, through)
<1> DEFINE P == Path(Name) \X Path(Name)
           carried == Carried(outer, <<a, b>>)
<1>0. outer.pairs \in Seq(P)
  BY DEF Mapping
<1>1. /\ below \in Seq(P) /\ carried \in Seq(P) /\ Len(carried) = 1 + Len(below)
      /\ carried[1] = <<a, Apply(outer, b)>>
      /\ \A i \in 1 .. Len(below) : carried[1 + i] = <<Moved(below[i][1], b, a), below[i][2]>>
  <2>1. CarriedSo(Name, outer, a, b, below, carried)
    BY CarriedPairs
  <2> HIDE DEF carried
  <2> QED BY <2>1 DEF CarriedSo
<1>2. through \in Seq(P)
  BY <1>0, KeptIsSubsequence DEF Through
<1> HIDE DEF carried
<1>8. FlattenSeq([i \in DOMAIN inner.pairs |-> Carried(outer, inner.pairs[i])]) = carried
  <2> DEFINE s == [i \in DOMAIN inner.pairs |-> Carried(outer, inner.pairs[i])]
             f == [i \in 1 .. 1 |-> carried]
  <2>1. s = << carried >>
    BY DEF carried
  <2> HIDE DEF s
  <2>2. Len(s) = 1 /\ s[1] = carried
    BY <2>1
  <2>3. f = [i \in 1 .. Len(s) |-> IF i = 1 THEN s[i] ELSE f[i - 1] \o s[i]]
    BY <2>2
  <2>4. \A g : g = [i \in 1 .. Len(s) |-> IF i = 1 THEN s[i] ELSE g[i - 1] \o s[i]] => g[Len(s)] = carried
    BY <2>2
  <2> HIDE DEF f
  <2>5. FlattenSeq(s) = carried
    BY <2>2, <2>3, <2>4 DEF FlattenSeq
  <2> QED BY <2>5 DEF s
<1>9. c.pairs = carried \o through
  <2>1. inner.pairs # << >>
    OBVIOUS
  <2>2. c.pairs = FlattenSeq([i \in DOMAIN inner.pairs |-> Carried(outer, inner.pairs[i])]) \o through
    BY <2>1 DEF Compose
  <2> QED BY <1>8, <2>2
<1>10. /\ c.pairs \in Seq(P) /\ Len(c.pairs) = 1 + Len(below) + Len(through)
       /\ \A i \in 1 .. 1 + Len(below) : c.pairs[i] = carried[i]
       /\ \A i \in 1 .. Len(through) : c.pairs[1 + Len(below) + i] = through[i]
  <2> HIDE DEF P
  <2>1. Len(carried) \in Nat
    BY <1>1
  <2>2. /\ c.pairs \in Seq(P) /\ Len(c.pairs) = Len(carried) + Len(through)
        /\ \A i \in 1 .. Len(carried) : c.pairs[i] = carried[i]
        /\ \A i \in 1 .. Len(through) : c.pairs[Len(carried) + i] = through[i]
    <3>1. carried \in Seq(P) /\ through \in Seq(P)
      BY <1>1, <1>2
    <3> QED BY <1>9, <3>1, Joined
  <2> QED BY <1>1, <2>2
<1>11. c \in Mapping(Name)
  <2>1. c = [crosses |-> c.crosses, intra |-> c.intra, pairs |-> c.pairs]
    BY DEF Compose
  <2>2. c.crosses \in BOOLEAN /\ c.intra \in BOOLEAN
    BY DEF Compose, Mapping
    <2> QED BY <1>10, <2>1, <2>2 DEF Mapping
<1>12. \A i \in 1 .. Len(below) : 1 + i \in 1 .. 1 + Len(below)
  BY <1>1
<1>13. 1 \in 1 .. 1 + Len(below)
  BY <1>1
<1>14. /\ c.pairs[1] = <<a, Apply(outer, b)>>
       /\ \A i \in 1 .. Len(below) : c.pairs[1 + i] = <<Moved(below[i][1], b, a), below[i][2]>>
  BY <1>1, <1>10, <1>12, <1>13
<1> QED BY <1>1, <1>2, <1>10, <1>11, <1>14 DEF ComposedPairs

\* How the lengths of paths compare, before a move and after it.
LEMMA LengthOrder ==
  /\ \A k, m, n \in Nat : k < m /\ m < n => k < n
  /\ \A u, v, k, m \in Nat : /\ k < m => u + k - v < u + m - v
                             /\ k = m => u + k - v = u + m - v
OBVIOUS

\* A match of a pair that passes through is shorter than every match of the
\* inner mapping: where the inner mapping applies at all, it decides.
LEMMA PassedThroughIsAbove ==
  ASSUME NEW Name, NEW inner \in Mapping(Name), NEW a \in Path(Name),
         NEW k \in DOMAIN inner.pairs, inner.pairs[k][1] = a,
         NEW o \in Path(Name) \X Path(Name), PassesThrough(inner, o),
         NEW x \in Path(Name), IsPrefix(a, x), IsPrefix(o[1], x)
  PROVE  Len(o[1]) < Len(a)
<1>1. ~IsPrefix(a, o[1])
  BY DEF PassesThrough, AtOrUnder
<1>2. Len(a) \in Nat /\ Len(o[1]) \in Nat /\ o[1] \in Path(Name)
  BY DEF Path
<1>3. ~(Len(a) <= Len(o[1]))
  BY <1>1, <1>2, PrefixOrder
<1> QED BY <1>2, <1>3

\* A mapping of one pair, and its way back.
LEMMA OnePairActs ==
  ASSUME NEW Name, NEW m \in Mapping(Name), NEW a \in Path(Name), NEW b \in Path(Name),
         m.pairs = << <<a, b>> >>, NEW x \in Path(Name)
  PROVE  /\ IsPrefix(a, x) => Apply(m, x) = Moved(x, a, b)
         /\ IsPrefix(b, x) => ReverseApply(m, x) = Moved(x, b, a)
<1>1. ASSUME IsPrefix(a, x) PROVE Apply(m, x) = Moved(x, a, b)
  <2>1. IsLongest(m, x, 1, 1)
    BY <1>1 DEF IsLongest, Matches, AtOrUnder
  <2>2. Longest(m, x, 1) = 1 /\ Matches(m, x, 1) # {}
    BY <2>1, LongestIsUnique DEF IsLongest
  <2> QED BY <2>2 DEF Apply
<1>2. ASSUME IsPrefix(b, x) PROVE ReverseApply(m, x) = Moved(x, b, a)
  <2>1. IsLongest(m, x, 2, 1)
    BY <1>2 DEF IsLongest, Matches, AtOrUnder
  <2>2. Longest(m, x, 2) = 1 /\ Matches(m, x, 2) # {}
    BY <2>1, LongestIsUnique DEF IsLongest
  <2> QED BY <2>2 DEF ReverseApply
<1> QED BY <1>1, <1>2

\* At and under the source of an arc, the mapping that Compose makes is the
\* mapping of the arc and then the outer one.
THEOREM ComposeActsInTurn ==
  ASSUME NEW Name, NEW outer \in Mapping(Name), NEW inner \in Mapping(Name),
         NEW a \in Path(Name), NEW b \in Path(Name), inner.pairs = << <<a, b>> >>,
         NEW x \in Path(Name), IsPrefix(a, x)
  PROVE  Apply(Compose(outer, inner), x) = Apply(outer, Apply(inner, x))
<1> DEFINE y == Moved(x, a, b)
           P == Path(Name) \X Path(Name)
<1>1. Apply(inner, x) = y
  BY OnePairActs
<1>2. y \in Path(Name) /\ Len(y) = Len(b) + Len(x) - Len(a) /\ IsPrefix(b, y)
  BY MovedNames
<1> HIDE DEF y
<1>3. CASE outer.pairs = << >>
  <2>1. Compose(outer, inner) = inner
    BY <1>3 DEF Compose
  <2>2. Matches(outer, y, 1) = {}
    BY <1>3 DEF Matches
  <2> QED BY <1>1, <2>1, <2>2 DEF Apply
<1>4. CASE outer.pairs # << >>
  <2> DEFINE T == {o \in ToSet(outer.pairs) : PassesThrough(inner, o)}
             B == {p \in ToSet(outer.pairs) : IsStrictPrefix(b, p[1])}
  <2>1. PICK c : c = Compose(outer, inner)
    OBVIOUS
  <2>2. PICK below : below = StrictlyBelow(outer, b)
    OBVIOUS
  <2>3. PICK through : through = Through(outer, inner)
    OBVIOUS
  <2>a. /\ c \in Mapping(Name) /\ below \in Seq(P) /\ through \in Seq(P)
        /\ ComposedPairs(outer, a, b, c.pairs, below, through)
    BY <1>4, <2>1, <2>2, <2>3, ComposeWithOnePair
  <2>4. /\ c \in Mapping(Name) /\ below \in Seq(P) /\ through \in Seq(P)
        /\ Len(c.pairs) = 1 + Len(below) + Len(through)
        /\ c.pairs[1] = <<a, Apply(outer, b)>>
        /\ \A i \in 1 .. Len(below) : c.pairs[1 + i] = <<Moved(below[i][1], b, a), below[i][2]>>
        /\ \A i \in 1 .. Len(through) : c.pairs[1 + Len(below) + i] = through[i]
    BY <2>a DEF ComposedPairs
  <2>5. outer.pairs \in Seq(P) /\ c.pairs \in Seq(P)
    BY <2>4 DEF Mapping
  <2>6. PICK h : Picks(outer.pairs, B, Len(outer.pairs), below, h)
    BY <2>2, <2>5, KeptIsSubsequence DEF StrictlyBelow
  <2>7. \A i \in 1 .. Len(through) : through[i] \in P /\ PassesThrough(inner, through[i])
    <3>1. PICK g : Picks(outer.pairs, T, Len(outer.pairs), through, g)
      BY <2>3, <2>5, KeptIsSubsequence DEF Through
    <3>2. \A i \in 1 .. Len(through) : through[i] \in T
      <4> HIDE DEF T
      <4> QED BY <3>1 DEF Picks
    <3> QED BY <2>4, <3>2
  <2>8. /\ Len(x) \in Nat /\ Len(a) \in Nat /\ Len(b) \in Nat
        /\ Len(below) \in Nat /\ Len(through) \in Nat
    BY <2>4 DEF Path
  \* A pair pulled back matches as the outer one it is from.
  <2>9. ASSUME NEW i \in 1 .. Len(below)
        PROVE  /\ h[i] \in DOMAIN outer.pairs /\ outer.pairs[h[i]] = below[i]
               /\ below[i][1] \in Path(Name) /\ below[i][2] \in Path(Name)
               /\ IsPrefix(b, below[i][1]) /\ Len(b) < Len(below[i][1])
               /\ c.pairs[1 + i][1] = Moved(below[i][1], b, a) /\ c.pairs[1 + i][2] = below[i][2]
               /\ Len(c.pairs[1 + i][1]) = Len(a) + Len(below[i][1]) - Len(b)
               /\ h[i] \in Matches(outer, y, 1) <=> 1 + i \in Matches(c, x, 1)
    <3>1. h[i] \in 1 .. Len(outer.pairs) /\ outer.pairs[h[i]] = below[i] /\ below[i] \in B
      BY <2>6 DEF Picks
    <3>2. below[i][1] \in Path(Name) /\ below[i][2] \in Path(Name) /\ h[i] \in DOMAIN outer.pairs
      BY <2>4, <2>5, <3>1
    <3>3. IsPrefix(b, below[i][1]) /\ b # below[i][1]
      BY <3>1 DEF IsStrictPrefix
    <3>4. Len(b) < Len(below[i][1])
      <4>1. Len(b) <= Len(below[i][1]) /\ Len(below[i][1]) # Len(b)
        BY <3>2, <3>3, PrefixByPosition, PrefixOrder
      <4> QED BY <3>2, <4>1, <2>8 DEF Path
    <3>5. /\ c.pairs[1 + i][1] = Moved(below[i][1], b, a) /\ c.pairs[1 + i][2] = below[i][2]
      <4>1. c.pairs[1 + i] = <<Moved(below[i][1], b, a), below[i][2]>>
        BY <2>4
      <4> QED BY <4>1
    <3>6. Len(c.pairs[1 + i][1]) = Len(a) + Len(below[i][1]) - Len(b)
      <4>1. Len(Moved(below[i][1], b, a)) = Len(a) + Len(below[i][1]) - Len(b)
        <5>1. PICK s \in Path(Name) : s = below[i][1]
          BY <3>2
        <5>2. IsPrefix(b, s)
          BY <3>3, <5>1
        <5>3. Len(Moved(s, b, a)) = Len(a) + Len(s) - Len(b)
          BY <5>2, MovedNames
        <5> QED BY <5>1, <5>3
      <4> QED BY <3>5, <4>1
    <3>7. h[i] \in Matches(outer, y, 1) <=> IsPrefix(below[i][1], y)
      BY <3>1, <3>2 DEF Matches, AtOrUnder
    <3>8. 1 + i \in Matches(c, x, 1) <=> IsPrefix(Moved(below[i][1], b, a), x)
      <4>1. 1 + i \in DOMAIN c.pairs
        BY <2>4, <2>5, <2>8
      <4> QED BY <3>5, <4>1 DEF Matches, AtOrUnder
    <3>9. IsPrefix(below[i][1], y) <=> IsPrefix(Moved(below[i][1], b, a), x)
      BY <3>2, <3>3, MovedTogether DEF y
    <3> QED BY <3>1, <3>2, <3>3, <3>4, <3>5, <3>6, <3>7, <3>8, <3>9
  \* A pair of the result is one of the three sorts.
  <2>10. \A l \in Matches(c, x, 1) : /\ l \in 1 .. Len(c.pairs)
                                    /\ \/ l = 1
                                       \/ \E i \in 1 .. Len(below) : l = 1 + i
                                       \/ Len(c.pairs[l][1]) < Len(a)
    <3> TAKE l \in Matches(c, x, 1)
    <3>1. l \in 1 .. Len(c.pairs) /\ IsPrefix(c.pairs[l][1], x)
      BY <2>5 DEF Matches, AtOrUnder
    <3>2. CASE l > 1 + Len(below)
      <4> DEFINE i == l - 1 - Len(below)
      <4>1. i \in 1 .. Len(through) /\ l = 1 + Len(below) + i
        BY <2>4, <2>8, <3>1, <3>2
      <4> HIDE DEF i
      <4>2. c.pairs[l] = through[i]
        BY <2>4, <4>1
      <4>3. 1 \in DOMAIN inner.pairs /\ inner.pairs[1][1] = a
        OBVIOUS
      <4> QED BY <2>7, <3>1, <4>1, <4>2, <4>3, PassedThroughIsAbove
    <3>3. CASE l > 1 /\ ~(l > 1 + Len(below))
      <4>1. l - 1 \in 1 .. Len(below) /\ l = 1 + (l - 1)
        BY <2>8, <3>1, <3>3
      <4> QED BY <3>1, <4>1
    <3> QED BY <3>1, <3>2, <3>3
  \* The outer mapping has a pair for the path that the arc's own pair is above.
  <2>11. CASE \E j \in Matches(outer, y, 1) : Len(b) < Len(outer.pairs[j][1])
    <3> DEFINE j == Longest(outer, y, 1)
    <3>1. IsLongest(outer, y, 1, j)
      BY <1>2, <2>11, LongestIsUnique
    <3> HIDE DEF j
    <3>2. /\ j \in 1 .. Len(outer.pairs) /\ j \in Matches(outer, y, 1)
          /\ outer.pairs[j] \in P /\ IsPrefix(outer.pairs[j][1], y)
      BY <2>5, <3>1 DEF IsLongest, Matches, AtOrUnder
    <3>3. Len(b) < Len(outer.pairs[j][1])
      <4>1. PICK k \in Matches(outer, y, 1) : Len(b) < Len(outer.pairs[k][1])
        BY <2>11
      <4>2. outer.pairs[k] \in P
        BY <2>5 DEF Matches
      <4>3. Len(outer.pairs[k][1]) <= Len(outer.pairs[j][1])
        <5>1. \/ Len(outer.pairs[k][1]) < Len(outer.pairs[j][1])
              \/ Len(outer.pairs[k][1]) = Len(outer.pairs[j][1])
          BY <3>1 DEF IsLongest
        <5>2. Len(outer.pairs[k][1]) \in Nat /\ Len(outer.pairs[j][1]) \in Nat
          BY <3>2, <4>2 DEF Path
        <5> QED BY <5>1, <5>2
      <4>4. Len(outer.pairs[k][1]) \in Nat /\ Len(outer.pairs[j][1]) \in Nat
        BY <3>2, <4>2 DEF Path
      <4>5. CASE Len(outer.pairs[k][1]) < Len(outer.pairs[j][1])
        BY <2>8, <4>1, <4>4, <4>5, LengthOrder
      <4>6. CASE Len(outer.pairs[k][1]) = Len(outer.pairs[j][1])
        BY <4>1, <4>6
      <4> QED BY <4>3, <4>4, <4>5, <4>6
    <3>4. outer.pairs[j] \in B
      <4>1. IsPrefix(b, outer.pairs[j][1])
        <5>1. PICK d \in Path(Name) : d = outer.pairs[j][1]
          BY <3>2
        <5>2. Len(b) <= Len(d)
          BY <2>8, <3>3, <5>1 DEF Path
        <5>3. IsPrefix(b, y) /\ IsPrefix(d, y) /\ y \in Path(Name)
          BY <1>2, <3>2, <5>1
        <5>4. IsPrefix(b, d)
          BY <5>2, <5>3, PrefixOrder
        <5> QED BY <5>1, <5>4
      <4>2. outer.pairs[j] \in ToSet(outer.pairs)
        BY <3>2, <2>5 DEF ToSet
      <4>3. b # outer.pairs[j][1]
        BY <2>8, <3>3
      <4> QED BY <4>1, <4>2, <4>3 DEF IsStrictPrefix
    <3>5. PICK i \in 1 .. Len(below) : h[i] = j
      <4> HIDE DEF B
      <4> QED BY <2>6, <3>2, <3>4 DEF Picks
    <3>6. 1 + i \in Matches(c, x, 1)
      BY <2>9, <3>2, <3>5
    <3>7. ASSUME NEW l \in Matches(c, x, 1)
          PROVE  \/ Len(c.pairs[l][1]) < Len(c.pairs[1 + i][1])
                 \/ Len(c.pairs[l][1]) = Len(c.pairs[1 + i][1]) /\ 1 + i <= l
      <4>0. /\ Len(below[i][1]) \in Nat /\ Len(b) < Len(below[i][1])
            /\ Len(c.pairs[1 + i][1]) = Len(a) + Len(below[i][1]) - Len(b)
        BY <2>9 DEF Path
      <4>1. CASE l = 1
        <5>1. c.pairs[l][1] = a
          BY <2>4, <4>1
        <5> QED BY <2>8, <4>0, <5>1
      <4>2. CASE Len(c.pairs[l][1]) < Len(a)
        <5>1. l \in 1 .. Len(c.pairs) /\ c.pairs[l] \in P
          BY <2>5, <2>10
        <5>2. Len(c.pairs[l][1]) \in Nat
          BY <5>1 DEF Path
        <5>3. Len(a) < Len(c.pairs[1 + i][1]) /\ Len(c.pairs[1 + i][1]) \in Nat
          BY <2>8, <4>0
        <5>4. Len(c.pairs[l][1]) < Len(c.pairs[1 + i][1])
          BY <2>8, <4>2, <5>2, <5>3, LengthOrder
        <5> QED BY <5>4
      <4>3. ASSUME NEW k \in 1 .. Len(below), l = 1 + k
            PROVE  \/ Len(c.pairs[l][1]) < Len(c.pairs[1 + i][1])
                   \/ Len(c.pairs[l][1]) = Len(c.pairs[1 + i][1]) /\ 1 + i <= l
        <5>1. /\ h[k] \in Matches(outer, y, 1) /\ outer.pairs[h[k]] = below[k]
              /\ outer.pairs[j] = below[i] /\ Len(below[k][1]) \in Nat
              /\ Len(c.pairs[l][1]) = Len(a) + Len(below[k][1]) - Len(b)
          <6>1. /\ outer.pairs[h[k]] = below[k] /\ below[k][1] \in Path(Name)
                /\ Len(c.pairs[1 + k][1]) = Len(a) + Len(below[k][1]) - Len(b)
                /\ h[k] \in Matches(outer, y, 1) <=> 1 + k \in Matches(c, x, 1)
            BY <2>9
          <6>2. outer.pairs[j] = below[i]
            BY <2>9, <3>5
          <6>3. 1 + k \in Matches(c, x, 1) /\ c.pairs[l] = c.pairs[1 + k]
            BY <4>3
          <6>4. Len(below[k][1]) \in Nat
            BY <6>1 DEF Path
          <6> QED BY <6>1, <6>2, <6>3, <6>4
        <5>2. \/ Len(below[k][1]) < Len(below[i][1])
              \/ Len(below[k][1]) = Len(below[i][1]) /\ j <= h[k]
          BY <3>1, <5>1 DEF IsLongest
        <5>3. k < i => h[k] < h[i]
          <6> HIDE DEF B
          <6> QED BY <2>6 DEF Picks
        <5>4. h[k] \in Nat /\ h[i] \in Nat
          BY <2>5, <2>9
        <5>5. j <= h[k] => i <= k
          BY <2>8, <3>5, <5>3, <5>4
        <5>6. /\ Len(below[k][1]) < Len(below[i][1]) => Len(c.pairs[l][1]) < Len(c.pairs[1 + i][1])
              /\ Len(below[k][1]) = Len(below[i][1]) => Len(c.pairs[l][1]) = Len(c.pairs[1 + i][1])
          <6>1. Len(below[k][1]) \in Nat /\ Len(c.pairs[l][1]) = Len(a) + Len(below[k][1]) - Len(b)
            BY <5>1
          <6>2. /\ Len(below[i][1]) \in Nat /\ Len(a) \in Nat /\ Len(b) \in Nat
                /\ Len(c.pairs[1 + i][1]) = Len(a) + Len(below[i][1]) - Len(b)
            BY <2>8, <4>0
          <6>3. /\ Len(below[k][1]) < Len(below[i][1])
                     => Len(a) + Len(below[k][1]) - Len(b) < Len(a) + Len(below[i][1]) - Len(b)
                /\ Len(below[k][1]) = Len(below[i][1])
                     => Len(a) + Len(below[k][1]) - Len(b) = Len(a) + Len(below[i][1]) - Len(b)
            BY <6>1, <6>2, LengthOrder
          <6> QED BY <6>1, <6>2, <6>3
        <5>7. i <= k => 1 + i <= l
          BY <2>8, <4>3
        <5> QED BY <5>2, <5>5, <5>6, <5>7
      <4> QED BY <2>10, <4>1, <4>2, <4>3
    <3>8. Longest(c, x, 1) = 1 + i /\ Matches(c, x, 1) # {}
      <4>1. IsLongest(c, x, 1, 1 + i)
        BY <3>6, <3>7 DEF IsLongest
      <4> QED BY <2>4, <3>6, <4>1, LongestIsUnique
    <3>9. Apply(c, x) = Moved(x, Moved(below[i][1], b, a), below[i][2])
      BY <2>9, <3>8 DEF Apply
    <3>10. Apply(outer, y) = Moved(y, below[i][1], below[i][2])
      <4>1. outer.pairs[j] = below[i]
        BY <2>9, <3>5
      <4> QED BY <3>2, <4>1 DEF Apply, j
    <3>11. Moved(y, below[i][1], below[i][2]) = Moved(x, Moved(below[i][1], b, a), below[i][2])
      <4>1. IsPrefix(below[i][1], y) /\ IsPrefix(b, below[i][1])
        BY <2>9, <3>2, <3>5
      <4> QED BY <2>9, <4>1, MovedTwice DEF y
    <3> QED BY <1>1, <2>1, <3>9, <3>10, <3>11
  \* It has none but those for the arc's target or above.
  <2>12. CASE ~ \E j \in Matches(outer, y, 1) : Len(b) < Len(outer.pairs[j][1])
    <3>1. 1 \in Matches(c, x, 1) /\ c.pairs[1][1] = a /\ c.pairs[1][2] = Apply(outer, b)
      BY <2>4, <2>5, <2>8 DEF Matches, AtOrUnder
    <3>2. ASSUME NEW l \in Matches(c, x, 1), l # 1 PROVE Len(c.pairs[l][1]) < Len(a)
      <4>1. SUFFICES ASSUME NEW i \in 1 .. Len(below), l = 1 + i PROVE FALSE
        BY <2>10, <3>2
      <4>2. h[i] \in Matches(outer, y, 1) /\ Len(b) < Len(outer.pairs[h[i]][1])
        BY <2>9, <4>1
      <4> QED BY <2>12, <4>2
    <3>3. Longest(c, x, 1) = 1
      <4>1. IsLongest(c, x, 1, 1)
        BY <3>1, <3>2, <2>10 DEF IsLongest
      <4> QED BY <2>4, <4>1, LongestIsUnique
    <3>4. Apply(c, x) = Moved(x, a, Apply(outer, b))
      BY <3>1, <3>3 DEF Apply
    <3>5. Matches(outer, y, 1) = Matches(outer, b, 1)
      <4>1. ASSUME NEW j \in DOMAIN outer.pairs
            PROVE  j \in Matches(outer, y, 1) <=> j \in Matches(outer, b, 1)
        <5>1. outer.pairs[j][1] \in Path(Name) /\ Len(outer.pairs[j][1]) \in Nat
          BY <2>5 DEF Path
        <5>2. ASSUME IsPrefix(outer.pairs[j][1], b) PROVE IsPrefix(outer.pairs[j][1], y)
          BY <1>2, <5>1, <5>2, PrefixOrder
        <5>3. ASSUME IsPrefix(outer.pairs[j][1], y) PROVE IsPrefix(outer.pairs[j][1], b)
          <6>1. j \in Matches(outer, y, 1)
            BY <5>3 DEF Matches, AtOrUnder
          <6>2. Len(outer.pairs[j][1]) <= Len(b)
            BY <2>8, <2>12, <5>1, <6>1
          <6> QED BY <1>2, <5>1, <5>3, <6>2, PrefixOrder
        <5> QED BY <5>2, <5>3 DEF Matches, AtOrUnder
      <4> QED BY <4>1 DEF Matches
    <3>6. Longest(outer, y, 1) = Longest(outer, b, 1)
      BY <3>5 DEF Longest
    <3>7. CASE Matches(outer, b, 1) = {}
      BY <1>1, <2>1, <3>4, <3>5, <3>7 DEF Apply, y
    <3>8. CASE Matches(outer, b, 1) # {}
      <4> DEFINE p == outer.pairs[Longest(outer, b, 1)]
      <4>1. Longest(outer, b, 1) \in Matches(outer, b, 1)
        BY <3>8, LongestIsUnique DEF IsLongest
      <4>2. p \in P /\ IsPrefix(p[1], b)
        BY <2>5, <4>1 DEF Matches, AtOrUnder
      <4>3. /\ Apply(outer, b) = Moved(b, p[1], p[2])
            /\ Apply(outer, y) = Moved(y, p[1], p[2])
        BY <3>5, <3>6, <3>8 DEF Apply
      <4> HIDE DEF p
      <4>4. p[1] \in Path(Name) /\ p[2] \in Path(Name)
        BY <4>2
      <4>5. Moved(y, p[1], p[2]) = Moved(x, a, Moved(b, p[1], p[2]))
        BY <4>2, <4>4, MovedTwice DEF y
      <4> QED BY <1>1, <2>1, <3>4, <4>3, <4>5
    <3> QED BY <3>7, <3>8
  <2> QED BY <2>11, <2>12
<1> QED BY <1>3, <1>4

\* ReverseApply of the mapping of an arc undoes Apply at and under the source,
\* and Apply undoes it at and under the target: an implied class is looked for at
\* the very site that the arc maps to it.
THEOREM ArcMappingInverts ==
  ASSUME NEW Name, NEW m \in Mapping(Name), NEW a \in Path(Name), NEW b \in Path(Name),
         m.pairs = << <<a, b>> >>, NEW x \in Path(Name)
  PROVE  /\ IsPrefix(a, x) => ReverseApply(m, Apply(m, x)) = x
         /\ IsPrefix(b, x) => Apply(m, ReverseApply(m, x)) = x
<1>1. ASSUME NEW p \in Path(Name), NEW q \in Path(Name), IsPrefix(p, x)
      PROVE  /\ Moved(x, p, q) \in Path(Name) /\ IsPrefix(q, Moved(x, p, q))
             /\ Moved(Moved(x, p, q), q, p) = x
  BY <1>1, MovedNames, MovedBack
<1>2. ASSUME IsPrefix(a, x) PROVE ReverseApply(m, Apply(m, x)) = x
  <2>1. /\ Apply(m, x) = Moved(x, a, b) /\ Moved(x, a, b) \in Path(Name)
        /\ IsPrefix(b, Moved(x, a, b))
    BY <1>1, <1>2, OnePairActs
  <2> QED BY <1>1, <1>2, <2>1, OnePairActs
<1>3. ASSUME IsPrefix(b, x) PROVE Apply(m, ReverseApply(m, x)) = x
  <2>1. /\ ReverseApply(m, x) = Moved(x, b, a) /\ Moved(x, b, a) \in Path(Name)
        /\ IsPrefix(a, Moved(x, b, a))
    BY <1>1, <1>3, OnePairActs
  <2> QED BY <1>1, <1>3, <2>1, OnePairActs
<1> QED BY <1>2, <1>3

\* The step that SourcesMapHome rests on.  The mapping that ProcessArc composes
\* for an arc followed from a source takes the path the arc names to the very
\* prim that the source contributes to, for arcs and local classes alike.
THEOREM ArcTargetMapsHome ==
  ASSUME NEW Name, NEW outer \in Mapping(Name), NEW site \in Path(Name),
         NEW target \in Path(Name), NEW prim, Apply(outer, site) = prim
  PROVE  /\ Apply(Compose(outer, ArcMapping(target, site)), target) = prim
         /\ Apply(Compose(outer, ClassMapping(target, site)), target) = prim
<1>1. ASSUME NEW m \in Mapping(Name), m.pairs = << <<target, site>> >>
      PROVE  Apply(Compose(outer, m), target) = prim
  <2>1. IsPrefix(target, target)
    BY PrefixOrder
  <2>2. Apply(Compose(outer, m), target) = Apply(outer, Apply(m, target))
    BY <1>1, <2>1, ComposeActsInTurn
  <2>3. Apply(m, target) = Moved(target, target, site)
    BY <1>1, <2>1, OnePairActs
  <2>4. Moved(target, target, site) = site
    <3>1. /\ Moved(target, target, site) \in Path(Name)
          /\ Len(Moved(target, target, site)) = Len(site) + Len(target) - Len(target)
          /\ \A i \in 1 .. Len(site) : Moved(target, target, site)[i] = site[i]
      BY <2>1, MovedNames
    <3>2. Len(Moved(target, target, site)) = Len(site)
      BY <3>1 DEF Path
    <3> QED BY <3>1, <3>2, PathExtensionality
  <2> QED BY <2>2, <2>3, <2>4
<1>2. ArcMapping(target, site) \in Mapping(Name) /\ ClassMapping(target, site) \in Mapping(Name)
  <2>1. << <<target, site>> >> \in Seq(Path(Name) \X Path(Name))
    OBVIOUS
  <2> QED BY <2>1 DEF Mapping, ArcMapping, ClassMapping, Rename
<1>3. /\ ArcMapping(target, site).pairs = << <<target, site>> >>
      /\ ClassMapping(target, site).pairs = << <<target, site>> >>
  BY DEF ArcMapping, ClassMapping, Rename
<1> QED BY <1>1, <1>2, <1>3
-----------------------------------------------------------------------------
(* Mappings of several pairs: those of sources that arcs of an ancestor     *)
(* brought, when they are entered or taken over (EnterTarget, Adopt).       *)

\* What flatten[i] is in terms of the function on shorter prefixes.
FlattenStep(seqs, f, i) == IF i = 1 THEN seqs[i] ELSE f[i - 1] \o seqs[i]

\* The recursive function that FlattenSeq reads exists.
LEMMA FlattenIsDefined ==
  ASSUME NEW seqs, NEW n \in Nat
  PROVE  \E f : f = [i \in 1 .. n |-> FlattenStep(seqs, f, i)]
<1> DEFINE Good(m) == \E f : f = [i \in 1 .. m |-> FlattenStep(seqs, f, i)]
           Q == {m \in Nat : Good(m)}
<1>1. 0 \in Q
  <2> DEFINE f == [i \in 1 .. 0 |-> << >>]
  <2>1. f = [i \in 1 .. 0 |-> FlattenStep(seqs, f, i)]
    OBVIOUS
  <2> QED BY <2>1
<1>2. ASSUME NEW m \in Q PROVE m + 1 \in Q
  <2>1. PICK f : f = [i \in 1 .. m |-> FlattenStep(seqs, f, i)]
    OBVIOUS
  <2> DEFINE g == [i \in 1 .. m + 1 |-> IF i = m + 1 THEN FlattenStep(seqs, f, i) ELSE f[i]]
  <2>2. ASSUME NEW i \in 1 .. m + 1 PROVE g[i] = FlattenStep(seqs, g, i)
    <3>1. CASE i = m + 1
      <4>1. i # 1 => i - 1 \in 1 .. m /\ i - 1 # m + 1
        BY <3>1
      <4>2. g[i] = FlattenStep(seqs, f, i) /\ (i # 1 => g[i - 1] = f[i - 1])
        BY <3>1, <4>1
      <4> HIDE DEF g
      <4> QED BY <4>2 DEF FlattenStep
    <3>2. CASE i # m + 1
      <4>0. i \in 1 .. m /\ m \in Nat
        BY <3>2
      <4>1. g[i] = f[i]
        BY <3>2
      <4>2. f[i] = FlattenStep(seqs, f, i)
        BY <2>1, <4>0
      <4>3. i # 1 => i - 1 \in 1 .. m /\ i - 1 # m + 1 /\ i - 1 \in 1 .. m + 1
        BY <4>0
      <4>4. i # 1 => g[i - 1] = f[i - 1]
        BY <4>3
      <4> HIDE DEF g
      <4> QED BY <4>1, <4>2, <4>4 DEF FlattenStep
    <3> QED BY <3>1, <3>2
  <2>3. g = [i \in 1 .. m + 1 |-> FlattenStep(seqs, g, i)]
    <3>1. g = [i \in 1 .. m + 1 |-> g[i]]
      OBVIOUS
    <3> HIDE DEF g
    <3> QED BY <2>2, <3>1
  <2> HIDE DEF g
  <2>4. Good(m + 1)
    BY <2>3
  <2> HIDE DEF Good
  <2> QED BY <2>4
<1> HIDE DEF Q
<1>3. Nat \subseteq Q
  BY <1>1, <1>2, Induction DEF Q
<1> QED BY <1>3 DEF Q

\* The result, position by position: the k-th sequence begins behind off[k].
Blocks(seqs, n, flat, off) ==
  /\ off \in [1 .. n -> Nat]
  /\ \A k \in 1 .. n : \A l \in 1 .. Len(seqs[k]) :
        off[k] + l \in 1 .. Len(flat) /\ flat[off[k] + l] = seqs[k][l]
  /\ \A i \in 1 .. Len(flat) : \E k \in 1 .. n : \E l \in 1 .. Len(seqs[k]) : i = off[k] + l
  /\ \A k, m \in 1 .. n : k < m => off[k] + Len(seqs[k]) <= off[m]

\* One more sequence.
LEMMA NextBlock ==
  ASSUME NEW S, NEW seqs \in Seq(Seq(S)), NEW n \in Nat, n + 1 <= Len(seqs),
         NEW flat \in Seq(S), NEW off, Blocks(seqs, n, flat, off),
         \A k \in 1 .. n : off[k] + Len(seqs[k]) <= Len(flat)
  PROVE  /\ flat \o seqs[n + 1] \in Seq(S)
         /\ \E g : /\ Blocks(seqs, n + 1, flat \o seqs[n + 1], g)
                   /\ \A k \in 1 .. n + 1 : g[k] + Len(seqs[k]) <= Len(flat \o seqs[n + 1])
<1> DEFINE next == seqs[n + 1]
           g == [k \in 1 .. n + 1 |-> IF k = n + 1 THEN Len(flat) ELSE off[k]]
<1>1. next \in Seq(S) /\ Len(next) \in Nat /\ Len(flat) \in Nat
  OBVIOUS
<1>2. \A k \in 1 .. n + 1 : seqs[k] \in Seq(S) /\ Len(seqs[k]) \in Nat
  OBVIOUS
<1> HIDE DEF next
<1>3. PICK r : r = flat \o next
  OBVIOUS
<1>4. /\ r \in Seq(S) /\ Len(r) = Len(flat) + Len(next)
      /\ \A i \in 1 .. Len(flat) : r[i] = flat[i]
      /\ \A i \in 1 .. Len(next) : r[Len(flat) + i] = next[i]
  BY <1>1, <1>3, Joined
<1>5. g[n + 1] = Len(flat) /\ \A k \in 1 .. n : g[k] = off[k]
  OBVIOUS
<1>6. g \in [1 .. n + 1 -> Nat]
  BY <1>1 DEF Blocks
<1> HIDE DEF g
<1>7. /\ off \in [1 .. n -> Nat]
      /\ \A k \in 1 .. n : \A l \in 1 .. Len(seqs[k]) :
            off[k] + l \in 1 .. Len(flat) /\ flat[off[k] + l] = seqs[k][l]
      /\ \A i \in 1 .. Len(flat) : \E k \in 1 .. n : \E l \in 1 .. Len(seqs[k]) : i = off[k] + l
      /\ \A k, m \in 1 .. n : k < m => off[k] + Len(seqs[k]) <= off[m]
  BY DEF Blocks
<1>8. \A k \in 1 .. n + 1 : k = n + 1 \/ k \in 1 .. n
  OBVIOUS
<1>9. ASSUME NEW k \in 1 .. n + 1, NEW l \in 1 .. Len(seqs[k])
      PROVE  g[k] + l \in 1 .. Len(r) /\ r[g[k] + l] = seqs[k][l]
  <2>1. CASE k = n + 1
    <3>1. g[k] = Len(flat) /\ l \in 1 .. Len(next)
      BY <1>5, <2>1 DEF next
    <3>2. r[Len(flat) + l] = next[l]
      BY <1>4, <3>1
    <3>3. Len(flat) + l \in 1 .. Len(flat) + Len(next)
      BY <1>1, <3>1
    <3> QED BY <1>4, <2>1, <3>1, <3>2, <3>3 DEF next
  <2>2. CASE k \in 1 .. n
    <3>1. off[k] + l \in 1 .. Len(flat) /\ flat[off[k] + l] = seqs[k][l] /\ g[k] = off[k]
      BY <1>5, <1>7, <2>2
    <3>2. off[k] + l \in 1 .. Len(r)
      BY <1>1, <1>4, <3>1
    <3> QED BY <1>4, <3>1, <3>2
  <2> QED BY <1>8, <2>1, <2>2
<1>10. ASSUME NEW i \in 1 .. Len(r)
       PROVE  \E k \in 1 .. n + 1 : \E l \in 1 .. Len(seqs[k]) : i = g[k] + l
  <2>1. CASE i \in 1 .. Len(flat)
    <3>1. PICK k \in 1 .. n : \E l \in 1 .. Len(seqs[k]) : i = off[k] + l
      BY <1>7, <2>1
    <3>2. k \in 1 .. n + 1 /\ g[k] = off[k]
      BY <1>5
    <3> QED BY <3>1, <3>2
  <2>2. CASE i \notin 1 .. Len(flat)
    <3>1. i - Len(flat) \in 1 .. Len(next) /\ i = Len(flat) + (i - Len(flat)) /\ n + 1 \in 1 .. n + 1
      BY <1>1, <1>4, <2>2
    <3> QED BY <1>5, <3>1 DEF next
  <2> QED BY <2>1, <2>2
<1>11. ASSUME NEW k \in 1 .. n + 1 PROVE g[k] + Len(seqs[k]) <= Len(r)
  <2>1. CASE k = n + 1
    BY <1>1, <1>4, <1>5, <2>1 DEF next
  <2>2. CASE k \in 1 .. n
    <3>1. g[k] + Len(seqs[k]) <= Len(flat) /\ g[k] \in Nat
      BY <1>5, <1>6, <2>2
    <3>2. Len(flat) <= Len(r) /\ Len(r) \in Nat
      BY <1>1, <1>4
    <3>3. Len(seqs[k]) \in Nat
      BY <1>2
    <3>4. \A u, v, w, z \in Nat : u + v <= w /\ w <= z => u + v <= z
      OBVIOUS
    <3> QED BY <1>1, <3>1, <3>2, <3>3, <3>4
  <2> QED BY <1>8, <2>1, <2>2
<1>12. ASSUME NEW k \in 1 .. n + 1, NEW m \in 1 .. n + 1, k < m
       PROVE  g[k] + Len(seqs[k]) <= g[m]
  <2>1. k \in 1 .. n
    BY <1>12
  <2>2. CASE m = n + 1
    BY <1>5, <2>1, <2>2
  <2>3. CASE m \in 1 .. n
    BY <1>5, <1>7, <1>12, <2>1, <2>3
  <2> QED BY <1>8, <2>2, <2>3
<1>13. Blocks(seqs, n + 1, r, g)
  BY <1>6, <1>9, <1>10, <1>12 DEF Blocks
<1>14. r \in Seq(S) /\ \A k \in 1 .. n + 1 : g[k] + Len(seqs[k]) <= Len(r)
  BY <1>4, <1>11
<1> QED BY <1>3, <1>13, <1>14 DEF next

\* FlattenSeq puts the sequences behind each other.
LEMMA FlattenIsBlocks ==
  ASSUME NEW S, NEW seqs \in Seq(Seq(S)), seqs # << >>
  PROVE  FlattenSeq(seqs) \in Seq(S) /\ \E off : Blocks(seqs, Len(seqs), FlattenSeq(seqs), off)
<1> DEFINE f == CHOOSE g : g = [i \in 1 .. Len(seqs) |-> FlattenStep(seqs, g, i)]
           So(n, off) == /\ Blocks(seqs, n, f[n], off)
                         /\ \A k \in 1 .. n : off[k] + Len(seqs[k]) <= Len(f[n])
           Good(n) == n + 1 <= Len(seqs) => f[n + 1] \in Seq(S) /\ \E off : So(n + 1, off)
           Q == {n \in Nat : Good(n)}
<1>0. Len(seqs) \in Nat /\ Len(seqs) # 0 /\ \A k \in 1 .. Len(seqs) : seqs[k] \in Seq(S)
  OBVIOUS
<1>1. f = [i \in 1 .. Len(seqs) |-> FlattenStep(seqs, f, i)]
  BY <1>0, FlattenIsDefined
<1>2. FlattenSeq(seqs) = f[Len(seqs)]
  BY <1>0 DEF FlattenSeq, FlattenStep
<1> HIDE DEF f
<1>3. 0 \in Q
  <2>1. f[1] = seqs[1] /\ 1 \in 1 .. Len(seqs) /\ seqs[1] \in Seq(S) /\ Len(seqs[1]) \in Nat
    <3>1. 1 \in 1 .. Len(seqs)
      BY <1>0
    <3> QED BY <1>0, <1>1, <3>1 DEF FlattenStep
  <2> DEFINE off == [k \in 1 .. 1 |-> 0]
  <2>2. off \in [1 .. 1 -> Nat] /\ off[1] = 0
    OBVIOUS
  <2>3. \A k \in 1 .. 1 : k = 1
    OBVIOUS
  <2> HIDE DEF off
  <2>4. So(1, off)
    BY <2>1, <2>2, <2>3 DEF Blocks
  <2>5. 0 + 1 = 1
    OBVIOUS
  <2> HIDE DEF So
  <2>6. Good(0)
    BY <2>1, <2>4, <2>5
  <2> QED BY <2>6
<1>4. ASSUME NEW n \in Q PROVE n + 1 \in Q
  <2> SUFFICES ASSUME n + 2 <= Len(seqs) PROVE Good(n + 1)
    <3>1. n + 1 \in Nat /\ (n + 1) + 1 = n + 2
      OBVIOUS
    <3> QED BY <3>1
  <2>1. n \in Nat /\ n + 1 <= Len(seqs) /\ (n + 1) + 1 = n + 2
    BY <1>0
  <2>2. f[n + 1] \in Seq(S) /\ \E off : So(n + 1, off)
    BY <2>1
  <2>3. f[n + 2] = f[n + 1] \o seqs[n + 2]
    <3>1. n + 2 \in 1 .. Len(seqs) /\ n + 2 # 1 /\ (n + 2) - 1 = n + 1
      BY <1>0, <2>1
    <3> QED BY <1>1, <3>1 DEF FlattenStep
  <2>4. PICK off : Blocks(seqs, n + 1, f[n + 1], off) /\ \A k \in 1 .. n + 1 : off[k] + Len(seqs[k]) <= Len(f[n + 1])
    BY <2>2
  <2>5. /\ f[n + 1] \o seqs[(n + 1) + 1] \in Seq(S)
        /\ \E g : /\ Blocks(seqs, (n + 1) + 1, f[n + 1] \o seqs[(n + 1) + 1], g)
                  /\ \A k \in 1 .. (n + 1) + 1 : g[k] + Len(seqs[k]) <= Len(f[n + 1] \o seqs[(n + 1) + 1])
    <3>1. n + 1 \in Nat /\ (n + 1) + 1 <= Len(seqs)
      BY <2>1
    <3> QED BY <2>2, <2>4, <3>1, NextBlock
  <2>6. f[(n + 1) + 1] \in Seq(S) /\ \E g : So((n + 1) + 1, g)
    BY <2>1, <2>3, <2>5
  <2> QED BY <2>6
<1> HIDE DEF Q
<1>5. Len(seqs) - 1 \in Q
  <2>1. Len(seqs) - 1 \in Nat
    BY <1>0
  <2> QED BY <1>3, <1>4, <2>1, Induction DEF Q
<1>6. (Len(seqs) - 1) + 1 = Len(seqs)
  BY <1>0
<1>7. Good(Len(seqs) - 1)
  BY <1>5 DEF Q
<1> QED BY <1>0, <1>2, <1>6, <1>7

\* The match of x in some pairs that the longest source decides for.
BestOf(block, x, l) ==
  /\ l \in 1 .. Len(block) /\ IsPrefix(block[l][1], x)
  /\ \A m \in 1 .. Len(block) :
        IsPrefix(block[m][1], x) => \/ Len(block[m][1]) < Len(block[l][1])
                                    \/ Len(block[m][1]) = Len(block[l][1]) /\ l <= m

\* The best match in what is left of one pair acts like the pair and then the
\* outer mapping, and is no shorter than the pair.
LEMMA BlockActs ==
  ASSUME NEW Name, NEW outer \in Mapping(Name), outer.pairs # << >>,
         NEW a \in Path(Name), NEW b \in Path(Name), NEW x \in Path(Name), IsPrefix(a, x),
         NEW block, block = Carried(outer, <<a, b>>),
         NEW l, BestOf(block, x, l)
  PROVE  Moved(x, block[l][1], block[l][2]) = Apply(outer, Moved(x, a, b))
<1> /\ l \in 1 .. Len(block) /\ IsPrefix(block[l][1], x)
    /\ \A m \in 1 .. Len(block) :
          IsPrefix(block[m][1], x) => \/ Len(block[m][1]) < Len(block[l][1])
                                      \/ Len(block[m][1]) = Len(block[l][1]) /\ l <= m
  BY DEF BestOf
<1> DEFINE P == Path(Name) \X Path(Name)
           inner == Rename(a, b)
<1>1. inner \in Mapping(Name) /\ inner.pairs = << <<a, b>> >>
  <2>1. << <<a, b>> >> \in Seq(P)
    OBVIOUS
  <2> QED BY <2>1 DEF Mapping, Rename
<1> HIDE DEF inner
<1>2. PICK c : c = Compose(outer, inner)
  OBVIOUS
<1>3. PICK below : below = StrictlyBelow(outer, b)
  OBVIOUS
<1>4. PICK through : through = Through(outer, inner)
  OBVIOUS
<1>5. /\ c \in Mapping(Name) /\ through \in Seq(P)
      /\ ComposedPairs(outer, a, b, c.pairs, below, through)
  BY <1>1, <1>2, <1>3, <1>4, ComposeWithOnePair
<1>6. CarriedSo(Name, outer, a, b, below, block)
  BY <1>3, CarriedPairs
<1>7. /\ Len(below) \in Nat /\ Len(through) \in Nat /\ Len(block) = 1 + Len(below)
      /\ Len(c.pairs) = Len(block) + Len(through)
  <2>1. Len(below) \in Nat /\ Len(block) = 1 + Len(below)
    BY <1>6 DEF CarriedSo
  <2>2. Len(through) \in Nat /\ Len(c.pairs) = 1 + Len(below) + Len(through)
    BY <1>5 DEF ComposedPairs
  <2> QED BY <2>1, <2>2
<1>8. \A m \in 1 .. Len(block) : c.pairs[m] = block[m]
  <2> TAKE m \in 1 .. Len(block)
  <2>1. CASE m = 1
    BY <1>5, <1>6, <2>1 DEF CarriedSo, ComposedPairs
  <2>2. CASE m # 1
    <3>1. m - 1 \in 1 .. Len(below) /\ m = 1 + (m - 1)
      BY <1>7, <2>2
    <3>2. \A i \in 1 .. Len(below) : c.pairs[1 + i] = block[1 + i]
      BY <1>5, <1>6 DEF CarriedSo, ComposedPairs
    <3> QED BY <3>1, <3>2
  <2> QED BY <2>1, <2>2
<1>9. \A m \in 1 .. Len(c.pairs) :
        m \notin 1 .. Len(block) => c.pairs[m] \in P /\ PassesThrough(inner, c.pairs[m])
  <2> TAKE m \in 1 .. Len(c.pairs)
  <2> SUFFICES ASSUME m \notin 1 .. Len(block) PROVE c.pairs[m] \in P /\ PassesThrough(inner, c.pairs[m])
    OBVIOUS
  <2> DEFINE i == m - 1 - Len(below)
             T == {o \in ToSet(outer.pairs) : PassesThrough(inner, o)}
  <2>1. i \in 1 .. Len(through) /\ m = 1 + Len(below) + i
    <3>1. m \in Nat /\ m <= 1 + Len(below) + Len(through) /\ 1 + Len(below) < m
      BY <1>7
    <3>2. Len(below) \in Nat /\ Len(through) \in Nat
      BY <1>7
    <3>3. \A u, v, w \in Nat : u <= 1 + v + w /\ 1 + v < u =>
                                u - 1 - v \in 1 .. w /\ u = 1 + v + (u - 1 - v)
      OBVIOUS
    <3> QED BY <3>1, <3>2, <3>3
  <2> HIDE DEF i
  <2>2. c.pairs[m] = through[i]
    BY <1>5, <2>1 DEF ComposedPairs
  <2>3. outer.pairs \in Seq(P)
    BY DEF Mapping
  <2>4. PICK h : Picks(outer.pairs, T, Len(outer.pairs), through, h)
    BY <1>4, <2>3, KeptIsSubsequence DEF Through
  <2>5. through[i] \in T
    <3> HIDE DEF T
    <3> QED BY <2>1, <2>4 DEF Picks
  <2> QED BY <1>5, <2>1, <2>2, <2>5
<1>10. \A m \in 1 .. Len(block) : block[m] \in P
  BY <1>6 DEF CarriedSo
<1>11. Len(a) <= Len(block[l][1]) /\ Len(a) \in Nat /\ Len(block[l][1]) \in Nat
  <2>1. 1 \in 1 .. Len(block) /\ block[1][1] = a
    BY <1>6, <1>7 DEF CarriedSo
  <2>2. Len(a) \in Nat /\ Len(block[l][1]) \in Nat
    BY <1>10 DEF Path
  <2> QED BY <2>1, <2>2
<1>12. ASSUME NEW m \in Matches(c, x, 1)
       PROVE  \/ Len(c.pairs[m][1]) < Len(c.pairs[l][1])
              \/ Len(c.pairs[m][1]) = Len(c.pairs[l][1]) /\ l <= m
  <2>1. m \in 1 .. Len(c.pairs) /\ IsPrefix(c.pairs[m][1], x)
    BY <1>5 DEF Matches, AtOrUnder, Mapping
  <2>2. CASE m \in 1 .. Len(block)
    BY <1>8, <2>1, <2>2
  <2>3. CASE m \notin 1 .. Len(block)
    <3>1. c.pairs[m] \in P /\ PassesThrough(inner, c.pairs[m])
      BY <1>9, <2>1, <2>3
    <3>2. 1 \in DOMAIN inner.pairs /\ inner.pairs[1][1] = a
      BY <1>1
    <3>3. Len(c.pairs[m][1]) < Len(a)
      BY <1>1, <2>1, <3>1, <3>2, PassedThroughIsAbove
    <3>4. Len(c.pairs[m][1]) \in Nat
      BY <3>1 DEF Path
    <3>5. c.pairs[l] = block[l]
      BY <1>8
    <3> QED BY <1>11, <3>3, <3>4, <3>5
  <2> QED BY <2>2, <2>3
<1>13. l \in Matches(c, x, 1)
  <2>1. l \in DOMAIN c.pairs
    BY <1>5, <1>7 DEF Mapping
  <2> QED BY <1>8, <2>1 DEF Matches, AtOrUnder
<1>14. Longest(c, x, 1) = l
  <2>1. IsLongest(c, x, 1, l)
    BY <1>12, <1>13 DEF IsLongest
  <2> QED BY <1>5, <2>1, LongestIsUnique
<1>15. Apply(c, x) = Moved(x, block[l][1], block[l][2])
  BY <1>8, <1>13, <1>14 DEF Apply
<1>16. Apply(c, x) = Apply(outer, Apply(inner, x)) /\ Apply(inner, x) = Moved(x, a, b)
  BY <1>1, <1>2, ComposeActsInTurn, OnePairActs
<1> QED BY <1>15, <1>16

\* What is left of a pair is at or under its source, and nothing but the pair
\* itself applies to x if no outer pair is on the way down to where it moves x.
LEMMA BlockIsBelow ==
  ASSUME NEW Name, NEW outer \in Mapping(Name),
         NEW a \in Path(Name), NEW b \in Path(Name), NEW x \in Path(Name),
         NEW block, block = Carried(outer, <<a, b>>),
         NEW l \in 1 .. Len(block), IsPrefix(block[l][1], x)
  PROVE  /\ IsPrefix(a, x)
         /\ l = 1 \/ \E j \in DOMAIN outer.pairs : /\ IsStrictPrefix(b, outer.pairs[j][1])
                                                  /\ IsPrefix(outer.pairs[j][1], Moved(x, a, b))
<1>1. PICK below : below = StrictlyBelow(outer, b)
  OBVIOUS
<1>2. CarriedSo(Name, outer, a, b, below, block)
  BY <1>1, CarriedPairs
<1>3. CASE l = 1
  <2>1. block[l][1] = a
    BY <1>2, <1>3 DEF CarriedSo
  <2> QED BY <1>3, <2>1
<1>4. CASE l # 1
  <2>1. PICK i \in 1 .. Len(below) : l = 1 + i
    <3>1. l - 1 \in 1 .. Len(below) /\ l = 1 + (l - 1)
      BY <1>2, <1>4 DEF CarriedSo
    <3> QED BY <3>1
  <2>2. /\ below[i] \in Path(Name) \X Path(Name)
        /\ IsPrefix(b, below[i][1]) /\ b # below[i][1]
        /\ \E j \in DOMAIN outer.pairs : outer.pairs[j] = below[i]
        /\ block[l] = <<Moved(below[i][1], b, a), below[i][2]>>
    <3>1. below \in Seq(Path(Name) \X Path(Name))
      BY <1>2 DEF CarriedSo
    <3>2. below[i] \in Path(Name) \X Path(Name)
      BY <3>1
    <3>3. block[l] = <<Moved(below[i][1], b, a), below[i][2]>>
      BY <1>2, <2>1 DEF CarriedSo
    <3>4. IsPrefix(b, below[i][1]) /\ b # below[i][1] /\ \E j \in DOMAIN outer.pairs : outer.pairs[j] = below[i]
      BY <1>2 DEF CarriedSo
    <3> QED BY <3>2, <3>3, <3>4
  <2>3. PICK o \in Path(Name) : o = below[i][1]
    BY <2>2
  <2>4. block[l][1] = Moved(o, b, a) /\ IsPrefix(b, o) /\ b # o
    BY <2>2, <2>3
  <2>5. /\ Moved(o, b, a) \in Path(Name) /\ Len(Moved(o, b, a)) = Len(a) + Len(o) - Len(b)
        /\ \A n \in 1 .. Len(a) : Moved(o, b, a)[n] = a[n]
    BY <2>4, MovedNames
  <2>6. Len(b) <= Len(o) /\ Len(a) \in Nat /\ Len(b) \in Nat /\ Len(o) \in Nat
    BY <2>4, PrefixByPosition DEF Path
  <2>7. IsPrefix(a, Moved(o, b, a))
    <3>1. Len(a) <= Len(Moved(o, b, a))
      BY <2>5, <2>6
    <3> QED BY <2>5, <3>1, PrefixByPosition
  <2>8. IsPrefix(a, x)
    BY <2>4, <2>5, <2>7, PrefixOrder
  <2>9. IsPrefix(o, Moved(x, a, b))
    BY <2>4, <2>8, MovedTogether
  <2> QED BY <2>2, <2>3, <2>4, <2>8, <2>9 DEF IsStrictPrefix
<1> QED BY <1>3, <1>4

\* The pairs of the inner mapping that apply to x agree on where it goes, or
\* no pair of the outer mapping is on the way down to where they would move it.
Coherent(outer, inner, x) ==
  \A k \in Matches(inner, x, 1) :
    LET to == Moved(x, inner.pairs[k][1], inner.pairs[k][2])
    IN  \/ to = Apply(inner, x)
        \/ ~\E j \in DOMAIN outer.pairs :
              IsStrictPrefix(inner.pairs[k][2], outer.pairs[j][1]) /\ IsPrefix(outer.pairs[j][1], to)

\* Where the inner mapping applies and the two cohere, Compose makes the one
\* after the other, whatever pairs both have and in whatever order.
THEOREM ComposeActsWhenCoherent ==
  ASSUME NEW Name, NEW outer \in Mapping(Name), NEW inner \in Mapping(Name),
         NEW x \in Path(Name), Matches(inner, x, 1) # {}, Coherent(outer, inner, x)
  PROVE  Apply(Compose(outer, inner), x) = Apply(outer, Apply(inner, x))
<1> DEFINE P == Path(Name) \X Path(Name)
           y == Apply(inner, x)
           best == Longest(inner, x, 1)
           a == inner.pairs[best][1]
<1>1. inner.pairs \in Seq(P) /\ outer.pairs \in Seq(P) /\ inner.pairs # << >>
  BY DEF Mapping, Matches
<1>2. IsLongest(inner, x, 1, best) /\ best \in 1 .. Len(inner.pairs) /\ IsPrefix(a, x)
  <2>1. IsLongest(inner, x, 1, best)
    BY LongestIsUnique
  <2>2. best \in Matches(inner, x, 1)
    BY <2>1 DEF IsLongest
  <2> HIDE DEF best
  <2>3. best \in DOMAIN inner.pairs /\ IsPrefix(inner.pairs[best][1], x)
    BY <2>2 DEF Matches, AtOrUnder
  <2> QED BY <1>1, <2>1, <2>3
<1>3. y = Moved(x, a, inner.pairs[best][2])
  BY DEF Apply
<1> HIDE DEF best, y
<1>a. inner.pairs[best] \in P /\ a \in Path(Name) /\ inner.pairs[best][1] = a
  <2>1. inner.pairs[best] \in P
    BY <1>1, <1>2
  <2> QED BY <2>1
<1> HIDE DEF a
<1>4. CASE outer.pairs = << >>
  <2>1. Compose(outer, inner) = inner
    BY <1>1, <1>4 DEF Compose
  <2>2. Matches(outer, y, 1) = {}
    BY <1>4 DEF Matches
  <2> QED BY <2>1, <2>2 DEF Apply, y
<1>5. CASE outer.pairs # << >>
  <2> DEFINE seqs == [k \in DOMAIN inner.pairs |-> Carried(outer, inner.pairs[k])]
             n == Len(inner.pairs)
             T == {o \in ToSet(outer.pairs) : PassesThrough(inner, o)}
  <2>1. \A k \in 1 .. n : /\ inner.pairs[k] \in P
                          /\ inner.pairs[k] = <<inner.pairs[k][1], inner.pairs[k][2]>>
                          /\ inner.pairs[k][1] \in Path(Name) /\ inner.pairs[k][2] \in Path(Name)
    BY <1>1
  <2>2. ASSUME NEW k \in 1 .. n
        PROVE  /\ seqs[k] = Carried(outer, <<inner.pairs[k][1], inner.pairs[k][2]>>)
               /\ seqs[k] \in Seq(P) /\ 1 <= Len(seqs[k]) /\ seqs[k][1][1] = inner.pairs[k][1]
    <3>1. seqs[k] = Carried(outer, <<inner.pairs[k][1], inner.pairs[k][2]>>)
      <4>1. k \in DOMAIN inner.pairs
        BY <1>1
      <4>2. seqs[k] = Carried(outer, inner.pairs[k])
        BY <4>1
      <4>3. inner.pairs[k] = <<inner.pairs[k][1], inner.pairs[k][2]>>
        BY <2>1
      <4> HIDE DEF seqs
      <4> QED BY <4>2, <4>3
    <3> HIDE DEF seqs
    <3>2. PICK below : below = StrictlyBelow(outer, inner.pairs[k][2])
      OBVIOUS
    <3>3. CarriedSo(Name, outer, inner.pairs[k][1], inner.pairs[k][2], below, seqs[k])
      BY <2>1, <3>1, <3>2, CarriedPairs
    <3> QED BY <3>1, <3>3 DEF CarriedSo
  <2>3. seqs \in Seq(Seq(P)) /\ Len(seqs) = n /\ n \in Nat /\ seqs # << >>
    <3>1. DOMAIN inner.pairs = 1 .. n /\ n \in Nat /\ n # 0
      BY <1>1
    <3>2. seqs = [k \in 1 .. n |-> seqs[k]]
      BY <3>1
    <3> HIDE DEF seqs
    <3>3. \A k \in 1 .. n : seqs[k] \in Seq(P)
      BY <2>2
    <3>4. seqs \in [1 .. n -> Seq(P)]
      BY <3>2, <3>3
    <3>5. seqs \in Seq(Seq(P)) /\ Len(seqs) = n
      BY <3>1, <3>4
    <3> QED BY <3>1, <3>5
  <2>4. PICK c : c = Compose(outer, inner)
    OBVIOUS
  <2>5. PICK flat : flat = FlattenSeq(seqs)
    OBVIOUS
  <2>6. PICK through : through = Through(outer, inner)
    OBVIOUS
  <2>7. c.pairs = flat \o through /\ c.crosses \in BOOLEAN /\ c.intra \in BOOLEAN
        /\ c = [crosses |-> c.crosses, intra |-> c.intra, pairs |-> c.pairs]
    BY <1>1, <1>5, <2>4, <2>5, <2>6 DEF Compose, Mapping
  <2> HIDE DEF seqs
  <2>8. flat \in Seq(P) /\ \E off : Blocks(seqs, n, flat, off)
    BY <2>3, <2>5, FlattenIsBlocks
  <2>9. PICK off : Blocks(seqs, n, flat, off)
    BY <2>8
  <2>10. /\ off \in [1 .. n -> Nat]
         /\ \A k \in 1 .. n : \A l \in 1 .. Len(seqs[k]) :
               off[k] + l \in 1 .. Len(flat) /\ flat[off[k] + l] = seqs[k][l]
         /\ \A i \in 1 .. Len(flat) : \E k \in 1 .. n : \E l \in 1 .. Len(seqs[k]) : i = off[k] + l
         /\ \A k, m \in 1 .. n : k < m => off[k] + Len(seqs[k]) <= off[m]
    BY <2>9 DEF Blocks
  <2>11. through \in Seq(P) /\ \A i \in 1 .. Len(through) : PassesThrough(inner, through[i])
    <3>1. through \in Seq(P) /\ \E h : Picks(outer.pairs, T, Len(outer.pairs), through, h)
      BY <1>1, <2>6, KeptIsSubsequence DEF Through
    <3>2. \A i \in 1 .. Len(through) : through[i] \in T
      <4> HIDE DEF T
      <4> QED BY <3>1 DEF Picks
    <3> QED BY <3>1, <3>2
  <2>12. /\ c.pairs \in Seq(P) /\ Len(c.pairs) = Len(flat) + Len(through)
         /\ \A i \in 1 .. Len(flat) : c.pairs[i] = flat[i]
         /\ \A i \in 1 .. Len(through) : c.pairs[Len(flat) + i] = through[i]
    BY <2>7, <2>8, <2>11, Joined
  <2>13. c \in Mapping(Name)
    BY <2>7, <2>12 DEF Mapping
  <2>14. Len(flat) \in Nat /\ Len(through) \in Nat /\ \A k \in 1 .. n : off[k] \in Nat /\ Len(seqs[k]) \in Nat
    BY <2>2, <2>8, <2>10, <2>11
  \* A place in a block is one in the result.
  <2>15. ASSUME NEW k \in 1 .. n, NEW l \in 1 .. Len(seqs[k])
         PROVE  /\ off[k] + l \in DOMAIN c.pairs /\ c.pairs[off[k] + l] = seqs[k][l]
                /\ off[k] + l \in Matches(c, x, 1) <=> IsPrefix(seqs[k][l][1], x)
    <3>1. off[k] + l \in 1 .. Len(flat) /\ flat[off[k] + l] = seqs[k][l]
      BY <2>10
    <3>2. off[k] + l \in 1 .. Len(c.pairs)
      BY <2>12, <2>14, <3>1
    <3>3. off[k] + l \in DOMAIN c.pairs /\ c.pairs[off[k] + l] = seqs[k][l]
      <4>1. DOMAIN c.pairs = 1 .. Len(c.pairs)
        BY <2>12
      <4>2. c.pairs[off[k] + l] = flat[off[k] + l]
        BY <2>12, <3>1
      <4> QED BY <3>1, <3>2, <4>1, <4>2
    <3> QED BY <3>3 DEF Matches, AtOrUnder
  <2>16. off[best] + 1 \in Matches(c, x, 1) /\ c.pairs[off[best] + 1][1] = a
    <3>1. 1 <= Len(seqs[best]) /\ Len(seqs[best]) \in Nat /\ seqs[best][1][1] = a
      BY <1>2, <1>a, <2>2, <2>14
    <3>2. 1 \in 1 .. Len(seqs[best])
      BY <3>1
    <3> QED BY <1>2, <2>15, <3>1, <3>2
  <2> DEFINE last == Longest(c, x, 1)
  <2>17. IsLongest(c, x, 1, last)
    BY <2>13, <2>16, LongestIsUnique
  <2>18. Apply(c, x) = Moved(x, c.pairs[last][1], c.pairs[last][2])
    BY <2>16 DEF Apply
  <2> HIDE DEF last
  <2>19. /\ last \in 1 .. Len(c.pairs) /\ IsPrefix(c.pairs[last][1], x) /\ c.pairs[last] \in P
         /\ last \in Matches(c, x, 1)
    BY <2>12, <2>17 DEF IsLongest, Matches, AtOrUnder
  <2>20. Len(a) \in Nat /\ Len(c.pairs[last][1]) \in Nat /\ Len(a) <= Len(c.pairs[last][1])
    <3>1. Len(a) \in Nat /\ Len(c.pairs[last][1]) \in Nat
      BY <1>a, <2>19 DEF Path
    <3>2. Len(a) < Len(c.pairs[last][1]) \/ Len(a) = Len(c.pairs[last][1])
      BY <2>16, <2>17 DEF IsLongest
    <3> QED BY <3>1, <3>2
  <2>21. last \in 1 .. Len(flat)
    <3> SUFFICES ASSUME last \notin 1 .. Len(flat) PROVE FALSE
      OBVIOUS
    <3> DEFINE i == last - Len(flat)
    <3>1. i \in 1 .. Len(through) /\ last = Len(flat) + i
      BY <2>12, <2>14, <2>19
    <3> HIDE DEF i
    <3>2. PassesThrough(inner, c.pairs[last])
      BY <2>11, <2>12, <3>1
    <3>3. best \in DOMAIN inner.pairs /\ a \in Path(Name) /\ inner.pairs[best][1] = a
      BY <1>1, <1>2, <1>a
    <3>4. Len(c.pairs[last][1]) < Len(a)
      BY <1>2, <2>19, <3>2, <3>3, PassedThroughIsAbove
    <3> QED BY <2>20, <3>4
  <2>22. PICK k \in 1 .. n : \E l \in 1 .. Len(seqs[k]) : last = off[k] + l
    BY <2>10, <2>21
  <2>23. PICK l \in 1 .. Len(seqs[k]) : last = off[k] + l
    BY <2>22
  <2>p. PICK ak \in Path(Name), bk \in Path(Name) : inner.pairs[k] = <<ak, bk>>
    BY <2>1
  <2>q. PICK block : block = seqs[k]
    OBVIOUS
  <2>b. /\ block = Carried(outer, <<ak, bk>>) /\ inner.pairs[k][1] = ak /\ inner.pairs[k][2] = bk
        /\ block[1][1] = ak /\ l \in 1 .. Len(block)
    <3>1. inner.pairs[k][1] = ak /\ inner.pairs[k][2] = bk
      BY <2>p
    <3>2. /\ seqs[k] = Carried(outer, <<inner.pairs[k][1], inner.pairs[k][2]>>)
          /\ seqs[k][1][1] = inner.pairs[k][1]
      BY <2>2
    <3> QED BY <2>q, <3>1, <3>2
  <2> DEFINE to == Moved(x, ak, bk)
  <2>24. c.pairs[last] = block[l] /\ IsPrefix(block[l][1], x)
    BY <2>15, <2>19, <2>23, <2>q
  <2>25. /\ IsPrefix(ak, x)
         /\ l = 1 \/ \E j \in DOMAIN outer.pairs : /\ IsStrictPrefix(bk, outer.pairs[j][1])
                                                  /\ IsPrefix(outer.pairs[j][1], to)
    BY <2>b, <2>24, BlockIsBelow
  <2>26. k \in Matches(inner, x, 1)
    <3>1. k \in DOMAIN inner.pairs
      BY <1>1
    <3> QED BY <2>b, <2>25, <3>1 DEF Matches, AtOrUnder
  <2>27. ASSUME NEW m \in 1 .. Len(block), IsPrefix(block[m][1], x)
         PROVE  \/ Len(block[m][1]) < Len(block[l][1])
                \/ Len(block[m][1]) = Len(block[l][1]) /\ l <= m
    <3>1. off[k] + m \in Matches(c, x, 1) /\ c.pairs[off[k] + m] = block[m]
      BY <2>15, <2>27, <2>q
    <3>2. \/ Len(block[m][1]) < Len(block[l][1])
          \/ Len(block[m][1]) = Len(block[l][1]) /\ last <= off[k] + m
      BY <2>17, <2>24, <3>1 DEF IsLongest
    <3>3. off[k] \in Nat /\ l \in Nat /\ m \in Nat
      BY <2>14
    <3>4. last <= off[k] + m => l <= m
      BY <2>23, <3>3
    <3> QED BY <3>2, <3>4
  <2>28. Apply(c, x) = Apply(outer, to)
    <3>0. BestOf(block, x, l)
      BY <2>b, <2>24, <2>27 DEF BestOf
    <3>1. Moved(x, block[l][1], block[l][2]) = Apply(outer, to)
      BY <1>5, <2>b, <2>25, <3>0, BlockActs
    <3> QED BY <2>18, <2>24, <3>1
  <2>29. CASE to = y
    BY <2>4, <2>28, <2>29 DEF y
  <2>30. CASE to # y
    <3>1. l = 1
      BY <2>25, <2>26, <2>30, <2>b DEF Coherent, y
    <3>2. c.pairs[last][1] = ak
      BY <2>b, <2>24, <3>1
    <3>3. Len(ak) = Len(a) /\ best <= k
      <4>1. \/ Len(ak) < Len(a)
            \/ Len(ak) = Len(a) /\ best <= k
        BY <1>2, <1>a, <2>26, <2>b DEF IsLongest
      <4>2. Len(ak) \in Nat /\ Len(a) \in Nat /\ Len(a) <= Len(ak)
        BY <2>20, <3>2
      <4> QED BY <4>1, <4>2
    <3>4. best # k
      BY <1>3, <1>a, <2>30, <2>b
    <3>5. off[best] + Len(seqs[best]) <= off[k] /\ 1 <= Len(seqs[best])
      <4>1. best < k
        BY <1>2, <2>3, <3>3, <3>4
      <4> QED BY <1>2, <2>2, <2>10, <4>1
    <3>6. last <= off[best] + 1
      <4>1. \/ Len(a) < Len(ak)
            \/ Len(a) = Len(ak) /\ last <= off[best] + 1
        BY <2>16, <2>17, <3>2 DEF IsLongest
      <4>2. Len(a) \in Nat
        BY <2>20
      <4> QED BY <3>3, <4>1, <4>2
    <3>7. off[best] \in Nat /\ off[k] \in Nat /\ Len(seqs[best]) \in Nat
      BY <1>2, <2>14
    <3>8. \A u, v, w \in Nat : ~(u + w <= v /\ 1 <= w /\ v + 1 <= u + 1)
      OBVIOUS
    <3> QED BY <2>23, <3>1, <3>5, <3>6, <3>7, <3>8
  <2> QED BY <2>29, <2>30
<1> QED BY <1>4, <1>5

\* A source that is entered, or taken over, with a mapping of no pair or one that
\* applies to its site.
LEMMA SourceActsInTurn ==
  ASSUME NEW Name, NEW outer \in Mapping(Name), NEW inner \in Mapping(Name), NEW x \in Path(Name),
         inner.pairs = << >> \/ Matches(inner, x, 1) # {}, Coherent(outer, inner, x)
  PROVE  Apply(Compose(outer, inner), x) = Apply(outer, Apply(inner, x))
<1>1. CASE inner.pairs = << >>
  <2>1. Compose(outer, inner) = outer /\ Matches(inner, x, 1) = {}
    BY <1>1 DEF Compose, Matches
  <2> QED BY <2>1 DEF Apply
<1>2. CASE Matches(inner, x, 1) # {}
  BY <1>2, ComposeActsWhenCoherent
<1> QED BY <1>1, <1>2

\* The mapping of one pair, and what it makes of an outer one.
LEMMA OnePairComposes ==
  ASSUME NEW Name, NEW a \in Path(Name), NEW b \in Path(Name),
         NEW m \in {Rename(a, b), ArcMapping(a, b), ClassMapping(a, b)}
  PROVE  /\ m \in Mapping(Name) /\ m.pairs = << <<a, b>> >> /\ Apply(m, a) = b
         /\ \A outer \in Mapping(Name) : Compose(outer, m) \in Mapping(Name)
<1>1. m \in Mapping(Name) /\ m.pairs = << <<a, b>> >>
  <2>1. << <<a, b>> >> \in Seq(Path(Name) \X Path(Name))
    OBVIOUS
  <2>2. Rename(a, b) \in Mapping(Name) /\ Rename(a, b).pairs = << <<a, b>> >>
    BY <2>1 DEF Mapping, Rename
  <2>3. ArcMapping(a, b) \in Mapping(Name) /\ ArcMapping(a, b).pairs = << <<a, b>> >>
    BY <2>1 DEF Mapping, ArcMapping, Rename
  <2>4. ClassMapping(a, b) \in Mapping(Name) /\ ClassMapping(a, b).pairs = << <<a, b>> >>
    BY <2>1 DEF Mapping, ClassMapping, ArcMapping, Rename
  <2> QED BY <2>2, <2>3, <2>4
<1>2. Apply(m, a) = b
  <2>1. IsPrefix(a, a) /\ IsPrefix(b, b)
    BY PrefixOrder
  <2>2. Apply(m, a) = Moved(a, a, b)
    BY <1>1, <2>1, OnePairActs
  <2>3. /\ Moved(a, a, b) \in Path(Name) /\ Len(Moved(a, a, b)) = Len(b) + Len(a) - Len(a)
        /\ \A i \in 1 .. Len(b) : Moved(a, a, b)[i] = b[i]
    BY <2>1, MovedNames
  <2>4. Len(Moved(a, a, b)) = Len(b)
    BY <2>3 DEF Path
  <2> QED BY <2>2, <2>3, <2>4, PathExtensionality
<1>3. ASSUME NEW outer \in Mapping(Name) PROVE Compose(outer, m) \in Mapping(Name)
  <2>1. CASE outer.pairs = << >>
    BY <1>1, <2>1 DEF Compose
  <2>2. CASE outer.pairs # << >>
    BY <1>1, <2>2, ComposeWithOnePair
  <2> QED BY <2>1, <2>2
<1> QED BY <1>1, <1>2, <1>3

\* The step of SourcesMapHome at a source of the target of an arc (EnterTarget):
\* what an arc of the target's ancestors brought to the target's site is mapped,
\* over that arc and this one, to the prim that this one's source contributes to.
THEOREM EnteredTargetMapsHome ==
  ASSUME NEW Name, NEW outer \in Mapping(Name), NEW site \in Path(Name),
         NEW target \in Path(Name), NEW prim, Apply(outer, site) = prim,
         NEW arc \in {ArcMapping(target, site), ClassMapping(target, site)},
         NEW inner \in Mapping(Name), NEW entered \in Path(Name),
         inner.pairs = << >> \/ Matches(inner, entered, 1) # {},
         Apply(inner, entered) = target,
         Coherent(Compose(outer, arc), inner, entered)
  PROVE  Apply(Compose(Compose(outer, arc), inner), entered) = prim
<1>1. Compose(outer, arc) \in Mapping(Name)
  BY OnePairComposes
<1>2. Apply(Compose(outer, arc), target) = prim
  BY ArcTargetMapsHome
<1>3. PICK seed \in Mapping(Name) : seed = Compose(outer, arc)
  BY <1>1
<1>4. Coherent(seed, inner, entered)
  BY <1>3
<1>5. Apply(Compose(seed, inner), entered) = Apply(seed, Apply(inner, entered))
  BY <1>4, SourceActsInTurn
<1> QED BY <1>2, <1>3, <1>5

\* The step of SourcesMapHome at a source that another composed prim has and this
\* one takes over (Adopt, ImplySpecialize).
THEOREM AdoptedSourceMapsHome ==
  ASSUME NEW Name, NEW there \in Path(Name), NEW here \in Path(Name),
         NEW via \in {ArcMapping(there, here), Rename(there, here)},
         NEW inner \in Mapping(Name), NEW site \in Path(Name),
         inner.pairs = << >> \/ Matches(inner, site, 1) # {},
         Apply(inner, site) = there, Coherent(via, inner, site)
  PROVE  Apply(Compose(via, inner), site) = here
<1>1. via \in Mapping(Name) /\ Apply(via, there) = here
  BY OnePairComposes
<1>2. Apply(Compose(via, inner), site) = Apply(via, Apply(inner, site))
  BY <1>1, SourceActsInTurn
<1> QED BY <1>1, <1>2

MapsFrom(m, site) == \E i \in DOMAIN m.pairs : m.pairs[i][1] = site

\* The step of SourcesMapHome at a child (DeriveChildSources): the mapping of a
\* source takes the child of its site to the child of the prim, unless it has a
\* pair of its own for the child.
THEOREM ChildMapsHome ==
  ASSUME NEW Name, NEW m \in Mapping(Name), NEW site \in Path(Name), NEW cn \in Name,
         ~MapsFrom(m, Append(site, cn))
  PROVE  Apply(m, Append(site, cn)) = Append(Apply(m, site), cn)
<1> DEFINE child == Append(site, cn)
<1>0. /\ child \in Path(Name) /\ Len(child) = Len(site) + 1 /\ Len(site) \in Nat
      /\ child[Len(site) + 1] = cn /\ \A i \in 1 .. Len(site) : child[i] = site[i]
  BY DEF Path
<1> HIDE DEF child
<1>1. \A j \in DOMAIN m.pairs : m.pairs[j] \in Path(Name) \X Path(Name)
  BY DEF Mapping
<1>2. ASSUME NEW a \in Path(Name), a # child
      PROVE  IsPrefix(a, child) <=> IsPrefix(a, site)
  <2>1. Len(a) \in Nat
    BY DEF Path
  <2>2. ASSUME IsPrefix(a, site) PROVE IsPrefix(a, child)
    <3>1. Len(a) <= Len(site) /\ \A i \in 1 .. Len(a) : a[i] = site[i]
      BY <2>2, PrefixByPosition
    <3>2. Len(a) <= Len(child) /\ \A i \in 1 .. Len(a) : a[i] = child[i]
      BY <1>0, <2>1, <3>1
    <3> QED BY <1>0, <3>2, PrefixByPosition
  <2>3. ASSUME IsPrefix(a, child) PROVE IsPrefix(a, site)
    <3>1. Len(a) <= Len(child) /\ \A i \in 1 .. Len(a) : a[i] = child[i]
      BY <1>0, <2>3, PrefixByPosition
    <3>2. Len(a) # Len(child)
      BY <1>0, <1>2, <2>3, PrefixOrder
    <3>3. Len(a) <= Len(site) /\ \A i \in 1 .. Len(a) : a[i] = site[i]
      BY <1>0, <2>1, <3>1, <3>2
    <3> QED BY <3>3, PrefixByPosition
  <2> QED BY <2>2, <2>3
<1>3. Matches(m, child, 1) = Matches(m, site, 1)
  <2>1. \A j \in DOMAIN m.pairs : IsPrefix(m.pairs[j][1], child) <=> IsPrefix(m.pairs[j][1], site)
    <3> TAKE j \in DOMAIN m.pairs
    <3>1. m.pairs[j][1] \in Path(Name) /\ m.pairs[j][1] # child
      BY <1>1 DEF MapsFrom, child
    <3> QED BY <1>2, <3>1
  <2> QED BY <2>1 DEF Matches, AtOrUnder
<1>4. Longest(m, child, 1) = Longest(m, site, 1)
  BY <1>3 DEF Longest
<1>5. CASE Matches(m, site, 1) = {}
  BY <1>3, <1>5 DEF Apply, child
<1>6. CASE Matches(m, site, 1) # {}
  <2>1. PICK p : p = m.pairs[Longest(m, site, 1)]
    OBVIOUS
  <2>2. Longest(m, site, 1) \in Matches(m, site, 1)
    BY <1>6, LongestIsUnique DEF IsLongest
  <2>3. p \in Path(Name) \X Path(Name) /\ IsPrefix(p[1], site) /\ IsPrefix(p[1], child)
    BY <1>1, <1>3, <2>1, <2>2 DEF Matches, AtOrUnder
  <2>4. PICK a \in Path(Name), b \in Path(Name) : p = <<a, b>>
    BY <2>3
  <2>5. Apply(m, child) = Moved(child, a, b) /\ Apply(m, site) = Moved(site, a, b)
    <3>1. p[1] = a /\ p[2] = b
      BY <2>4
    <3>2. Apply(m, site) = Moved(site, p[1], p[2])
      BY <1>6, <2>1 DEF Apply
    <3>3. Matches(m, child, 1) # {} /\ p = m.pairs[Longest(m, child, 1)]
      BY <1>3, <1>4, <1>6, <2>1
    <3>4. Apply(m, child) = Moved(child, p[1], p[2])
      BY <3>3 DEF Apply
    <3> QED BY <3>1, <3>2, <3>4
  <2>6. IsPrefix(a, site) /\ IsPrefix(a, child)
    BY <2>3, <2>4
  <2> DEFINE u == Moved(child, a, b)
             v == Moved(site, a, b)
  <2>7. /\ u \in Path(Name) /\ Len(u) = Len(b) + Len(child) - Len(a)
        /\ \A i \in 1 .. Len(b) : u[i] = b[i]
        /\ \A i \in 1 .. Len(b) + Len(child) - Len(a) :
              i > Len(b) => u[i] = child[i - Len(b) + Len(a)]
    <3>1. child \in Path(Name)
      BY <1>0
    <3> QED BY <2>6, <3>1, MovedNames
  <2>8. /\ v \in Path(Name) /\ Len(v) = Len(b) + Len(site) - Len(a)
        /\ \A i \in 1 .. Len(b) : v[i] = b[i]
        /\ \A i \in 1 .. Len(b) + Len(site) - Len(a) :
              i > Len(b) => v[i] = site[i - Len(b) + Len(a)]
    BY <2>6, MovedNames
  <2> HIDE DEF u, v
  <2>9. Len(a) \in Nat /\ Len(b) \in Nat /\ Len(a) <= Len(site)
    BY <2>6, PrefixByPosition DEF Path
  <2>10. u = Append(v, cn)
    <3> DEFINE w == Append(v, cn)
    <3>1. /\ w \in Path(Name) /\ Len(w) = Len(v) + 1 /\ w[Len(v) + 1] = cn
          /\ \A i \in 1 .. Len(v) : w[i] = v[i]
      BY <2>8 DEF Path
    <3> HIDE DEF w
    <3>2. Len(u) = Len(w)
      BY <1>0, <2>7, <2>8, <2>9, <3>1
    <3>3. ASSUME NEW i \in 1 .. Len(u) PROVE u[i] = w[i]
      <4>1. CASE i \in 1 .. Len(b)
        <5>1. i \in 1 .. Len(v)
          BY <2>8, <2>9, <1>0, <4>1
        <5> QED BY <2>7, <2>8, <3>1, <4>1, <5>1
      <4>2. CASE i > Len(b) /\ i <= Len(v)
        <5>1. i \in 1 .. Len(v) /\ i \in 1 .. Len(b) + Len(site) - Len(a)
          BY <2>8, <2>9, <1>0, <4>2
        <5>2. i - Len(b) + Len(a) \in 1 .. Len(site)
          BY <2>8, <2>9, <1>0, <4>2
        <5>3. u[i] = child[i - Len(b) + Len(a)] /\ v[i] = site[i - Len(b) + Len(a)]
          BY <2>7, <2>8, <4>2, <5>1
        <5> QED BY <1>0, <3>1, <5>1, <5>2, <5>3
      <4>3. CASE i > Len(v)
        <5>1. i = Len(v) + 1 /\ i > Len(b) /\ i - Len(b) + Len(a) = Len(site) + 1
          BY <1>0, <2>7, <2>8, <2>9, <4>3
        <5> QED BY <1>0, <2>7, <3>1, <5>1
      <4> QED BY <2>8, <2>9, <4>1, <4>2, <4>3
    <3> QED BY <2>7, <3>1, <3>2, <3>3, PathExtensionality DEF w
  <2> QED BY <2>5, <2>10 DEF u, v, child
<1> QED BY <1>5, <1>6

=============================================================================
