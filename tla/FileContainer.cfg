CONSTANTS
  Value = {v1, v2}
  NoData = NoData
  NoLimits = NoLimits
  MaxBlocks = 3
  MaxCrashes = 2
SPECIFICATION Spec
SYMMETRY MCSymmetry
CHECK_DEADLOCK FALSE
INVARIANTS AlwaysRecoverable
PROPERTIES ImplementsFileList CompletesAsAsked
