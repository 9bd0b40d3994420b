SPECIFICATION HostSpec
CONSTANTS
  Clients = {"desktop"}
  MaxQueued = 3
INVARIANTS UiFollowsThePipeline
CHECK_DEADLOCK FALSE
