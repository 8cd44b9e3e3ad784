---------------------------- MODULE Subsequence ----------------------------
(***************************************************************************)
(* What is left of a vector when some of its elements are removed: the     *)
(* others in their order (erase and remove on a std::vector, and loops     *)
(* that copy what passes a test).  A recursive function in place of        *)
(* SelectSeq, whose definition the prover does not expand.                 *)
(***************************************************************************)
EXTENDS Naturals, Sequences

\* The subsequence of the elements of s that are in T.
Kept(s, T) ==
  LET kept[n \in 0 .. Len(s)] ==
        IF n = 0 THEN << >>
        ELSE IF s[n] \in T THEN Append(kept[n - 1], s[n])
        ELSE kept[n - 1]
  IN kept[Len(s)]
=============================================================================
