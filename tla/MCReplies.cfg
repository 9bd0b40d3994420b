SPECIFICATION PSpec
CONSTANTS
  MaxTurn = 2
  MaxSession = 2
  Text <- Utterances
  NoText = NoText
  TickLengths = {0, 1}
  IdleTimeout = 1
  MaxUtterance = 1
  FinalizeTimeout = 1
  AgentResponseTimeout = 1
  RetractionWindow = 1
  PreRollFrames = 1
  SttCapacity = 1
  Lead = 2
  DeadCaptureFinals = 2
  MaxChunks = 1
  MaxPhrases = 1
  Pieces = {1, 3}
  MaxBehind = 1
  Hazards = {"device", "late reply", "stt missing", "synthesis error", "tts missing"}
PROPERTIES WholeReplyHeard WordsOfTheTurn
