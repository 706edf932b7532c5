SPECIFICATION RetrySpec
CONSTANTS
  Alias = {a1}
  Write = {w1, w2, w3}
  MaxDepth = 3
  MaxSid = 4
  NoSid = nosid

CHECK_DEADLOCK FALSE
PROPERTY FailureEnds
