CONSTANTS
  Base = 2
  MaxValue = 3
  Width = 2
  MaxRows = 3

SPECIFICATION Spec

INVARIANTS
  IteratesRows
  Brackets
  AnswerComplete

PROPERTIES
  Termination

CHECK_DEADLOCK FALSE
