SPECIFICATION MCAudioSpec
CONSTANTS
  Native = 2
  Offers <- SmallOffers
  Refusals = {0}
  FrameSamples = 2
  CaptureCapacity = 3
  RefCapacity = 3
  PlaybackCapacity = 2
  MaxDeviceFrames = 5
  MaxPush = 2
  MaxEngines = 2
  d1 = d1
  d2 = d2
  Device = {d1, d2}
  Watched = {"in"}
  MicStallTimeout = 3
  DeviceCheckInterval = 2
  TickTimes = {1}
  WatchHazards = {"factory fails", "dead capture"}
INVARIANTS EverySampleAccounted PairsMatch
PROPERTIES HealthyEngineIsLeftAlone FailedStreamIsReplaced
