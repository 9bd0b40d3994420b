SPECIFICATION DetectionSpec
CONSTANTS
  MaxTurn = 3
  MaxSession = 1
  w1 = w1
  Text <- OneText
  NoText = NoText
  TickLengths = {1}
  IdleTimeout = 1
  MaxUtterance = 1
  FinalizeTimeout = 1
  AgentResponseTimeout = 1
  RetractionWindow = 1
  PreRollFrames = 1
  Shape = {"flat", "bright"}
  MinVoicedFrames = 2
  HangoverFrames = 3
  ConfirmWindow = 3
  ConfirmCount = 2
  WarmupFrames = 4
  BargeInHangover = 2
INVARIANTS NeitherIsDeaf SilenceEndsSpokenTurn
PROPERTIES InterruptedByUnbrokenSpeech
