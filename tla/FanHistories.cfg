SPECIFICATION Spec
CONSTANTS
  FanConfig <- McFanConfig
  Safety <- McSafety
  CriticalFullSpeed = TRUE
  FailureLimit = 2
  CriticalTemperature = 90
  FanModesAvailable = TRUE
  InitWritesModes = TRUE
  Presets <- OnePreset
  DefaultPreset = "quiet"
  Commands = {"set", "preset", "auto", "fan-mode", "coolboost", "keyboard", "resume", "stop", "crash", "suspend"}
  SetScopes <- AllScopes
  SetPercents = {20}
  Observations <- ThermalSamples
  Seeds <- WarmSeeds
  Reads <- Reliable
  Writes <- Reliable
  ModeWrites <- Reliable
  Saves = {TRUE}
INVARIANTS
  ChoiceIsSaved
  TargetsAreSaved
  TurboIsReported
  FirmwareOwnsWhenSafe
PROPERTIES
  RestartKeepsTargets
  ResumeRestoresControl
  OverrideTakesControl
  MinimumSpeedHeld
  PolledConditionsCoolBothFans
  CriticalSpeedHeld
  RampBounded
