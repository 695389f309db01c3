SPECIFICATION RecoverySpec
CONSTANTS
  FanConfig <- McFanConfig
  Safety <- McSafety
  CriticalFullSpeed = TRUE
  FailureLimit = 1
  CriticalTemperature = 90
  FanModesAvailable = TRUE
  InitWritesModes = TRUE
  Presets <- NoPresets
  DefaultPreset = "auto"
  Commands = {"set"}
  SetScopes <- CpuAndUnknown
  SetPercents = {20}
  Observations <- RecoverySamples
  Seeds <- NoSeeds
  Reads <- Reliable
  Writes <- GpuMayFail
  ModeWrites <- Reliable
  Saves = {TRUE}
PROPERTIES FailedWritesAreRetried
