SPECIFICATION Spec
CONSTANTS
  FanConfig <- McFanConfig
  Safety <- McSafety
  CriticalFullSpeed = TRUE
  FailureLimit = 2
  CriticalTemperature = 90
  FanModesAvailable = TRUE
  InitWritesModes = TRUE
  Presets <- OnePreset
  DefaultPreset = "quiet"
  Commands = {"preset", "crash"}
  SetScopes <- AllScopes
  SetPercents = {20}
  Observations <- MildSamples
  Seeds <- NoSeeds
  Reads <- Reliable
  Writes <- Reliable
  ModeWrites <- Reliable
  Saves = {TRUE}
PROPERTIES PresetSurvivesRestart
