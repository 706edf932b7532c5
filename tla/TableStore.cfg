SPECIFICATION SceneSpec
CONSTANTS
  Conn = {c1, c2}
  Table = {t1}
  IntTable = {t1}
  Gen = {g1, g2}
  Row = {r1, r2, r3}
  MaxInt = 3
  IntPk <- MCIntPk
  OtherPk = {}
  Val = {v1, v2}
  Root = root
  Nil = nil
  Resolves = TRUE
SYMMETRY Symmetry
CHECK_DEADLOCK FALSE
INVARIANTS TypeOK SeqAhead
PROPERTIES GeneratedKeysAreNew SeqNeverRewinds SnapshotIsolation
