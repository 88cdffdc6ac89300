CONSTANTS
  String <- MCString
  HashValue <- MCHashValue
  InitialSize = 2
  SmallSize <- MCSmallSize

SPECIFICATION Spec

INVARIANTS
  ChainsPartition

PROPERTIES
  InternerSpec
