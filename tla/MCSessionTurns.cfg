SPECIFICATION HFairSpec
CONSTANTS
  MaxTurn = 3
  MaxSession = 2
  w1 = w1
  Text <- OneText
  NoText = NoText
  TickLengths = {1}
  IdleTimeout = 2
  MaxUtterance = 2
  FinalizeTimeout = 1
  AgentResponseTimeout = 1
  RetractionWindow = 1
  PreRollFrames = 1
INVARIANTS TurnStructure NoPrematureEnd WordsAreKept
PROPERTIES TurnsAreSettled SubmittedOnce ImplementsLifecycle
