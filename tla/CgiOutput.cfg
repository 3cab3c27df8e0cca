SPECIFICATION Spec
CONSTANTS
  Outputs <- SomeOutputs
  MaxBody = 4
  CutCrLf = FALSE
  CutLine = FALSE
INVARIANT PageIsServed
