SPECIFICATION FairSpec
CONSTANTS
  Clients = {c1}
  TIMEOUT_CONNECTION = 1
  TIMEOUT_CGI = 1
  MaxInbox = 2
  MaxOutput = 2
  StorageFails = FALSE
  ResetAfterFin = FALSE
PROPERTIES CgiEventuallyStops HangUpIsCleanedUp StalledRequestIsAnswered SigintStops
\* the server stops after SIGINT
CHECK_DEADLOCK FALSE
