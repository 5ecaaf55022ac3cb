SPECIFICATION HeatingSpec
CONSTANTS
  NumValves = 2
  Configs <- AllConfigs
  TestLengths = {1}
  CurveTemps = {40}
  Overrides = {0, 50}
  MaxCurveTemp = 90
  NumRooms = 2
  Sensor = {"living", "bath"}
  SensorOf <- MCSensorOf
  Programs = {"home", "away"}
  EnabledIn <- MCEnabledIn
  ValvesOf <- MCValvesOf
  FreshFor = 0
  WatchdogFor = 3
INVARIANTS
  HeatingTypeOK
  OutputsFollowState
  EmsFollowsState
  NoFiringWhilePreheating
  TestLeavesNothingOn
  NeverHeatsBlind
  HeatReachesRooms
  SupplyHonoursOverride
PROPERTIES
  ComesToRest
  DemandIsServed
  SilenceEnds
  ManualTestsEnd
