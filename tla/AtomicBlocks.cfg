SPECIFICATION Spec
CONSTANTS
  Alias = {a1}
  Write = {w1, w2, w3}
  MaxDepth = 3
  MaxSid = 3
  NoSid = nosid
SYMMETRY Symmetry
CHECK_DEADLOCK FALSE
INVARIANTS TypeOK NothingEarly VoidNeverStored StackHandles FlagsAgree
PROPERTY ExitRestores
