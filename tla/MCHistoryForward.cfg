CONSTANTS
  File = {f1, f2}
  NoFile = NoFile
  MaxOffset = 1
  MaximumLocations = 2

SPECIFICATION Spec

INVARIANTS
  ForwardFinds
