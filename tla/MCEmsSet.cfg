SPECIFICATION SetSpec
CONSTANTS
  Enabled = {TRUE}
  Temps = {40, 60}
  MaxQueue = 3
  MaxTx = 1
  CounterMod = 3
  StartupReads = 1
  DetailReads = 1
  MaxInbox = 1
  MaxBacklog = 3
INVARIANT BoilerUsesLastTemperature
