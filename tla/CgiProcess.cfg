SPECIFICATION FairSpec
CONSTANTS
  Clients = {c1, c2}
  Pids = {1, 2}
  MaxPipes = 4
  MaxFds = 7
  Programs = {"python", "php"}
  Missing = {"python"}
INVARIANTS OnlyItsScriptWrites HoldsWhatItNeeds ScriptsHoldTheirOutput WatchedIsOwnedOrHeld
PROPERTIES KillHitsItsOwn StaleRegistrationsEnd
CHECK_DEADLOCK FALSE
