SPECIFICATION MigrateSpec
CONSTANTS
  Conn = {c1, c2}
  Table = {t1, t2}
  IntTable = {}
  Gen = {g1, g2}
  Row = {r1}
  MaxInt = 1
  IntPk <- MCIntPk
  OtherPk = {k1}
  Val = {v1}
  Root = root
  Nil = nil
  Resolves = FALSE
SYMMETRY SchemaSymmetry
CHECK_DEADLOCK FALSE
INVARIANT TablesHaveOneName
PROPERTY SnapshotIsolation
