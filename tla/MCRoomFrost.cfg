SPECIFICATION Spec
CONSTANTS
  BufferSize = 10
  FreshFor = 3
  ValidFor = 5
  Base = 500
  MarginUp = 20
  MarginDown = 20
  Settings <- NoSettings
  Readings <- FrostReadings
  OverrideTemps = {1500}
  OverrideLengths = {2}
  Times = {1200}
  Days = {0}
PROPERTY ClosesOnlyWarmRooms
