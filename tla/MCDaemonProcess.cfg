CONSTANTS
  Thread = {t1, t2}
  NoThread = NoThread
  Proc = {p1, p2}
  NoProc = NoProc
  Master = Master
  MaxDeaths = 2

SPECIFICATION Spec

INVARIANTS
  NoLeak
  MasterHoldsItsEnds

PROPERTIES
  Termination
  NoOrphans

CHECK_DEADLOCK FALSE
