SPECIFICATION FairSpec
CONSTANTS
  N = 2
  Daemons = {"sentinel", "service"}
  MaxFaults = 2
  MaxRestarts = 1
  MaxDrains = 2
  MaxNonce = 3
  Steps = {1, 2}
  BotOf <- MCBotOf
  RelayerOf <- MCRelayerOf
INVARIANTS NoncesSound RunsArePaid
PROPERTIES NoOverfunding GasArrives
CHECK_DEADLOCK FALSE
