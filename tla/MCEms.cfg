SPECIFICATION Spec
CONSTANTS
  Enabled = {TRUE, FALSE}
  Temps = {40}
  MaxQueue = 3
  MaxTx = 1
  CounterMod = 4
  StartupReads = 1
  DetailReads = 1
  MaxInbox = 1
  MaxBacklog = 3
INVARIANTS
  TypeOK
  NewestHeatObeyed
PROPERTIES
  ChannelSpec
  SendsWithinLimit
