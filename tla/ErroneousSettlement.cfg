SPECIFICATION Spec
CONSTANTS
  Threshold = 2
  Tools = {"account", "search"}
  Builtin = {"account"}
  Owners = {"o1", "o2"}
  Endpoints = {"e1"}
  Stored <- MCStored
  Calls = {1}
  MaxRegistrations = 1
  MaxRestarts = 1
INVARIANTS NoErroneousSettlement
CHECK_DEADLOCK FALSE
