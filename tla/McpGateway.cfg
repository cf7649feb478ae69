SPECIFICATION FairSpec
CONSTANTS
  Threshold = 2
  Tools = {"account", "search"}
  Builtin = {"account"}
  Owners = {"o1", "o2"}
  Endpoints = {"e1", "e2"}
  Stored <- MCStored
  Calls = {1, 2, 3}
  MaxRegistrations = 1
  MaxRestarts = 1
INVARIANTS BreakersSound SettledOnAnswer RegistrySound
PROPERTIES OwnerKept EverythingEnds
CHECK_DEADLOCK FALSE
