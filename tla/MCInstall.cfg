SPECIFICATION InstallSpec
CONSTANTS
  i1 = i1
  i2 = i2
  Installers <- TwoInstallers
  Extracted = {"model", "tokens"}
  TtsCount = 1
  MaxRuns = 3
  MaxFaults = 2
INVARIANTS InstalledTogether
PROPERTIES NeverHalfInstalled RerunHeals
CHECK_DEADLOCK FALSE
