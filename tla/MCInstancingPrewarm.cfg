CONSTANTS
  Prims <- MCPrims
  Keys = {k, l}
  NoKey = NoKey
  None = None
  Subtrees <- MCSubtrees
  NamespaceOrder <- MCNamespaceOrder
  PrewarmPaths <- MCPrewarmPaths
  MaxOrder = 1
SYMMETRY Symmetry
SPECIFICATION IndexSpec
INVARIANTS
  GroupedByCurrentKey
