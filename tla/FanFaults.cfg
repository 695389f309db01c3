SPECIFICATION Spec
CONSTANTS
  FanConfig <- McFanConfig
  Safety <- McSafety
  CriticalFullSpeed = TRUE
  FailureLimit = 2
  CriticalTemperature = 90
  FanModesAvailable = TRUE
  InitWritesModes = TRUE
  Presets <- NoPresets
  DefaultPreset = "firmware-auto"
  Commands = {"set", "firmware-auto", "coolboost"}
  SetScopes <- CpuAndUnknown
  SetPercents = {20}
  Observations <- WarmSample
  Seeds <- NoSeeds
  Reads <- CpuMayFail
  Writes <- GpuMayFail
  ModeWrites <- GpuMayFail
  Saves = {TRUE}
INVARIANTS
  TypeOK
PROPERTIES
  PolledConditionsCoolBothFans
  CommandsHeedGlobalConditions
  ControlIsOwned
  RegisterStaysInStep
