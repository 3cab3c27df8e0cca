SPECIFICATION Spec
CONSTANTS
  Files <- MCFiles
  Ports <- MCPorts
INVARIANTS ParsedAsWritten UniqueServers DropsOnlyDuplicates ListenersAreWatched
PROPERTY PortConflictsAreForeign
