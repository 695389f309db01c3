SPECIFICATION RecoverySpec
CONSTANTS
  FanConfig <- McFanConfig
  Safety <- McSafety
  CriticalFullSpeed = TRUE
  FailureLimit = 1
  CriticalTemperature = 90
  FanModesAvailable = TRUE
  InitWritesModes = TRUE
  Presets <- NoPresets
  DefaultPreset = "auto"
  Commands = {"set", "auto", "firmware-auto"}
  SetScopes <- GpuOnly
  SetPercents = {20}
  Observations <- RecoverySamples
  Seeds <- NoSeeds
  Reads <- CpuMayFail
  Writes <- Reliable
  ModeWrites <- Reliable
  Saves = {TRUE}
PROPERTIES
  HeatIsAnswered
  SafetyIsReleased
  FirmwareRegainsFans
  AutoSettlesOnCurve
