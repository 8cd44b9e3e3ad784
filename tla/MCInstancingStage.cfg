CONSTANTS
  Prims <- MCPrims
  Keys = {k, l}
  NoKey = NoKey
  None = None
  Subtrees <- MCFewSubtrees
  NamespaceOrder <- MCNamespaceOrder
  PrewarmPaths <- MCOnePrewarm
  MaxOrder = 1
SYMMETRY Symmetry
SPECIFICATION Spec
PROPERTIES
  BuildStageIsExact
