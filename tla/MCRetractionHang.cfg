SPECIFICATION PFairSpec
CONSTANTS
  MaxTurn = 2
  MaxSession = 1
  Text <- Utterances
  NoText = NoText
  TickLengths = {0, 1}
  IdleTimeout = 1
  MaxUtterance = 1
  FinalizeTimeout = 1
  AgentResponseTimeout = 1
  RetractionWindow = 1
  PreRollFrames = 1
  SttCapacity = 1
  Lead = 1
  DeadCaptureFinals = 2
  MaxChunks = 1
  MaxPhrases = 1
  Pieces = {1}
  MaxBehind = 1
  Hazards = {"barge-in"}
PROPERTIES ReplyEnds
