CONSTANTS
  m = m  w = w
  d1 = d1  d2 = d2  d3 = d3
  p1 = p1  p2 = p2  p3 = p3
  t1 = t1  t2 = t2  t3 = t3
  hdr = hdr  a = a  b = b  c = c  oldH = oldH  oldA = oldA
  Thread = {m, w}
  MainThread = m
  NoThread = NoThread
  Daemon = {d1, d2, d3}
  Writer = {d1, d2, d3}
  NoDaemon = NoDaemon
  NoWriter = NoDaemon
  NSource = 3
  Path = {p1, p2, p3, t1, t2, t3}
  Hash = {hdr, a, b, c, oldH, oldA}
  ZeroHash = ZeroHash
  NewEntry <- MCNewEntry
  OldEntry <- MCOldEntry
  TempPath <- MCTempPath
  IdxPath <- MCIdxPath
  MaxCrashes = 2
  Indexed = {1, 2, 3}

SPECIFICATION FairSpec

INVARIANTS
  TypeOK
  OneOwner
  NoLostDaemon
  PoolBound
  RequestsMatch
  NoTornRead
  DeterministicMerge
  NothingLeftBehind
  AbortHasCause
  OldIndexKept

PROPERTIES
  PoolSpec
  Termination
