SPECIFICATION MCSpeechSpec
CONSTANTS
  FirstChunkMax = 1
  MinClauseSplit = 2
  HardCap = 3
  AbsoluteCap = 4
  Reply <- SmallTexts
  Tokens <- CountTokens
  MaxTokens = 3
  MaxFrames <- FramesOf
  FramesAfterEos <- TailOf
  DecoderChunk = 2
  PreRollFrames = 3
  MaxWindow = 3
  Interval = 2
  LongInterval = 3
  BackoffThreshold = 2
  QueueCapacity = 2
  MaxFrame = 6
  MaxTurn = 3
  MaxSession = 2
INVARIANTS PhrasesAreWellCut NothingUnsaid PromptsFit TextIsOfItsTime SeenWordsAreKept
CHECK_DEADLOCK FALSE
