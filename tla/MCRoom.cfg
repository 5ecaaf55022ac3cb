SPECIFICATION Spec
CONSTANTS
  BufferSize = 3
  FreshFor = 1
  ValidFor = 2
  Base = 2000
  MarginUp = 20
  MarginDown = 20
  Settings <- MCSettings
  Readings = {1700, 2050}
  OverrideTemps = {1500, 2300}
  OverrideLengths = {0, 2}
  Times = {700, 1200, 2300}
  Days = {0, 1}
PROPERTIES
  MissingExactlyWhenStale
  VerdictIsTrue
  ColdRoomAsksForHeat
