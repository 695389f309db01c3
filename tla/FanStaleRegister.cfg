SPECIFICATION Spec
CONSTANTS
  FanConfig <- McFanConfig
  Safety <- McSafety
  CriticalFullSpeed = TRUE
  FailureLimit = 2
  CriticalTemperature = 90
  FanModesAvailable = TRUE
  InitWritesModes = TRUE
  Presets <- NoPresets
  DefaultPreset = "firmware-auto"
  Commands = {"set"}
  SetScopes <- AllScopes
  SetPercents = {20}
  Observations <- MildSamples
  Seeds <- NoSeeds
  Reads <- Reliable
  Writes <- Reliable
  ModeWrites <- Reliable
  Saves = {TRUE}
INVARIANTS RegisterFollowsPercent
