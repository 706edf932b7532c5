SPECIFICATION MigrateSpec
CONSTANTS
  Conn = {c1}
  Table = {t1, t2}
  IntTable = {t1, t2}
  Gen = {g1}
  Row = {r1, r2}
  MaxInt = 1
  IntPk <- MCIntPk
  OtherPk = {}
  Val = {v1}
  Root = root
  Nil = nil
  Resolves = FALSE
SYMMETRY SchemaSymmetry
CHECK_DEADLOCK FALSE
INVARIANT SeqAhead
