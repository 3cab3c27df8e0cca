SPECIFICATION Spec
CONSTANTS
  Clients = {c1, c2}
  TIMEOUT_CONNECTION = 0
  TIMEOUT_CGI = 0
  MaxInbox = 1
  MaxOutput = 1
  StorageFails = FALSE
  ResetAfterFin = FALSE
SYMMETRY ClientSymmetry
INVARIANTS PollingModeMatchesState NoDanglingEvent NoStrayScript FilledOnce EventsAreSound
\* the server stops after SIGINT
CHECK_DEADLOCK FALSE
PROPERTIES TimedOutIsFinal LivePeerIsKept ImplementsHttpConnection
