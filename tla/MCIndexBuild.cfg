CONSTANTS
  PathOf <- MCPathOf
  NameOf <- MCNameOf
  Occurrence <- MCOccurrence
  PathType = 7
  Unlisted = {7, 8}
  NoType = 9
  Definition = 2
  Declaration = 1
  MaxOccurrences = 3
  MaxUnits = 2

SPECIFICATION Spec

INVARIANTS
  CachesAgree
  FinalizedIsCanonical
  NavigatorFinds

PROPERTIES
  ReadOnlyStays
  FactIndexSpec

CHECK_DEADLOCK FALSE
