SPECIFICATION WarmSpec
CONSTANTS
  NumValves = 2
  Configs <- OnoffConfigs
  TestLengths = {1}
  CurveTemps = {40}
  Overrides = {0}
  MaxCurveTemp = 90
  NumRooms = 2
  Sensor = {"living", "bath", "garage"}
  SensorOf <- MCSensorOf
  Programs = {"home"}
  EnabledIn <- MCEnabledIn
  ValvesOf <- MCValvesOf
  FreshFor = 0
  WatchdogFor = 3
PROPERTY StartsOnWarmValves
