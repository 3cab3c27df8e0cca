SPECIFICATION Spec
CONSTANTS
  Clients = {c1, c2}
  Pids = {1, 2}
  MaxPipes = 4
  MaxFds = 7
  Programs = {"python", "php"}
  Missing = {"php"}
INVARIANT ServerSurvives
CHECK_DEADLOCK FALSE
