SPECIFICATION FairSpec
CONSTANTS
  Thread = {p1, p2, p3}
  DB = {d1, d2, d3}
  NoDB = nodb
  Free = free
CHECK_DEADLOCK FALSE
INVARIANTS TypeOK OneOpenDB StuckOnClosed
PROPERTIES NoRetiredDB ConnectEnds
