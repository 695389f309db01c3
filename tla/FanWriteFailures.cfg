SPECIFICATION Spec
CONSTANTS
  FanConfig <- McFanConfig
  Safety <- McSafety
  CriticalFullSpeed = TRUE
  FailureLimit = 2
  CriticalTemperature = 90
  FanModesAvailable = TRUE
  InitWritesModes = TRUE
  Presets <- NoPresets
  DefaultPreset = "auto"
  Commands = {"set"}
  SetScopes <- GpuOnly
  SetPercents = {20}
  Observations <- WarmSample
  Seeds <- NoSeeds
  Reads <- Reliable
  Writes <- GpuMayFail
  ModeWrites <- Reliable
  Saves = {TRUE}
PROPERTIES
  GlobalConditionsCoolBothFans
