---------------------------- MODULE MCInstancing ----------------------------
EXTENDS Instancing, TLC

MCPrims          == 1 .. 3
MCSubtrees       == {{1}, {2, 3}, {1, 3}}
MCNamespaceOrder == <<3, 1, 2>>        \* not the order of the paths
MCPrewarmPaths   == {<<1, 2, 3>>, <<3, 2>>}
\* For the runs of the whole interface.
MCFewSubtrees    == {{1}, {2, 3}}
MCOnePrewarm     == {<<1, 2>>}
Symmetry         == Permutations(Keys)
=============================================================================
