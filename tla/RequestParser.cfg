SPECIFICATION Spec
CONSTANTS
  Messages <- AllMessages
  MaxBody = 4
  CutCrLf = FALSE
INVARIANTS ParsedAsSent ParsedInFull
\* nothing follows a request that is not parsed to its end
CHECK_DEADLOCK FALSE
