SPECIFICATION FairSpec
CONSTANTS
  Clients = {c1}
  TIMEOUT_CONNECTION = 0
  TIMEOUT_CGI = 0
  MaxInbox = 1
  MaxOutput = 1
  StorageFails = FALSE
  ResetAfterFin = FALSE
PROPERTY EveryHangUpIsCleanedUp
\* the server stops after SIGINT
CHECK_DEADLOCK FALSE
