SPECIFICATION Spec
CONSTANTS
  FanConfig <- McFanConfig
  Safety <- McSafety
  CriticalFullSpeed = FALSE
  FailureLimit = 2
  CriticalTemperature = 90
  FanModesAvailable = TRUE
  InitWritesModes = TRUE
  Presets <- NoPresets
  DefaultPreset = "none"
  Commands = {"set"}
  SetScopes <- AllScopes
  SetPercents = {1}
  Observations <- ThermalSamples
  Seeds <- NoSeeds
  Reads <- Reliable
  Writes <- Reliable
  ModeWrites <- Reliable
  Saves = {TRUE}
PROPERTIES MinimumSpeedHeld
