SPECIFICATION Spec
CONSTANTS
  u1 = u1
  u2 = u2
  Users <- MCUsers
  Connections = {1, 2, 3}
  Owner <- MCOwner
  MaxSecond = 2
  Rand <- MCRand
  Others = {12}
  SessionFirst = TRUE
INVARIANTS SessionIsKnown SharedOnlyWithinASecond
PROPERTY PresentedSessionIsKept
