CONSTANTS
  Prims <- MCPrims
  TypeOf <- MCTypeOf
  Edited = {"material:binding"}
  MaterialOf <- MCMaterialOf
  Rebinds = TRUE
  MaxRevision = 4
  MaxId = 9
SPECIFICATION Spec
INVARIANTS
  SinkInStep
CHECK_DEADLOCK FALSE
