SPECIFICATION SensingSpec
CONSTANTS
  ScanTime = 1
  ScanInterval = 1
  WatchdogFor = 4
  Clock = 6
  Cycles = {1, 2}
  Interval = 2
  Temps <- MCTemps
  MaxTasks = 1
  Sources = {"openweather", "ems"}
  Curve <- MCCurve
  Readings <- MCReadings
INVARIANTS
  OneFetchAtATime
  NoRestartWhileHeard
  CurveStaysBetweenPoints
PROPERTIES
  ScansDoNotOverlap
  ScanningGoesOn
  WeatherIsUsed
