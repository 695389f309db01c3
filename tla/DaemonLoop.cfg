SPECIFICATION Spec
CONSTANTS
  MinValue = 0
  MaxValue = 2
  LedMax = 0
  KbAvailable = TRUE
  TimeoutSupported = TRUE
  TimeoutDefault = FALSE
  Profiles <- McProfiles
  AcProfile = "balanced"
  BatteryProfile = "quiet"
  AutoDefault = FALSE
  FakeSource = "unknown"
  Names <- McNames
  Numerals <- McNumerals
  Decimals <- McDecimals
  Printed <- McPrinted
  TooLong <- McTooLong
  Clients = {"owner", "guest"}
  Silent = {"guest"}
  Peer <- McPeer
  GroupExists = TRUE
  InputLines <- McLines
  SupplySets <- McSupplies
  KbOutcomes <- McOutcomes
  ProfileWrites = {TRUE, FALSE}
  Saves = {TRUE}
INVARIANTS
  TypeOK
  SettingsSurviveRestart
  ClientAndDaemonAgree
PROPERTIES
  GuestsChangeNothing
  PollsGoOn
  ClientsAnswered
  StopEnds
  LightReturns
  DimsWhenIdle
  ProfileFollowsSource
