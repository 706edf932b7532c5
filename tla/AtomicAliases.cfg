SPECIFICATION BlockSpec
CONSTANTS
  Alias = {a1, a2}
  Write = {w1, w2}
  MaxDepth = 2
  MaxSid = 1
  NoSid = nosid
SYMMETRY Symmetry
CHECK_DEADLOCK FALSE
INVARIANT NothingEarly
