SPECIFICATION RecoverySpec
CONSTANTS
  FanConfig <- McFanConfig
  Safety <- McSafety
  CriticalFullSpeed = TRUE
  FailureLimit = 2
  CriticalTemperature = 90
  FanModesAvailable = TRUE
  InitWritesModes = TRUE
  Presets <- NoPresets
  DefaultPreset = "firmware-auto"
  Commands = {}
  SetScopes <- CpuAndUnknown
  SetPercents = {20}
  Observations <- RecoverySamples
  Seeds <- NoSeeds
  Reads <- Reliable
  Writes <- Reliable
  ModeWrites <- GpuMayFail
  Saves = {TRUE}
PROPERTIES FirmwareRegainsFans
