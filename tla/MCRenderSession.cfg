CONSTANTS
  Prims <- MCPrims
  TypeOf <- MCTypeOf
  Edited = {"xformOp", "points", "inputs:tint", "material:binding"}
  MaterialOf <- MCMaterialOf
  Rebinds = FALSE
  MaxRevision = 4
  MaxId = 9
SPECIFICATION Spec
INVARIANTS
  IdsNameOneResource
  SinkInStep
PROPERTY ImplementsMirror
CHECK_DEADLOCK FALSE
