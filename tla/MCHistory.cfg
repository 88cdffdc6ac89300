CONSTANTS
  File = {f1, f2}
  NoFile = NoFile
  MaxOffset = 1
  MaximumLocations = 3

SPECIFICATION Spec

INVARIANTS
  NoRepeat

PROPERTIES
  BackAndForwardUndo

CHECK_DEADLOCK FALSE
