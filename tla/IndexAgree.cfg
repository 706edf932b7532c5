SPECIFICATION Spec
CONSTANTS
  Conn = {c1, c2}
  Index = {i1, i2}
  Nil = nil
SYMMETRY Symmetry
CHECK_DEADLOCK FALSE
INVARIANT CatalogAgrees
