SPECIFICATION MCGatewaySpec
CONSTANTS
  s1 = s1
  s2 = s2
  Shells <- TwoShells
  Pids = {1, 2}
  MaxAttempts = 1
  MaxBirths = 3
  MaxCommands = 3
  MaxInterrupts = 1
  Clients = {"buzztalkd", "demo", "app", "desktop"}
  MaxQueued = 4
INVARIANTS DaemonIsKnown RestartIsComing
PROPERTIES SparesStrangers OffStops SteadyListening StopsInTheEnd
CHECK_DEADLOCK FALSE
