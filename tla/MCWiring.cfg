SPECIFICATION WiringSpec
CONSTANTS
  d1 = d1
  d2 = d2
  b1 = b1
  b2 = b2
  hall = hall
  bath = bath
  Nowhere = Nowhere
  Unnamed = Unnamed
  Unknown = Unknown
  Broken = Broken
  Device = {d1, d2}
  Pin = {0, 1}
  Builtin = {b1, b2}
  Label = {hall, bath}
  MaxValves = 2
  Port <- MCPort
  Settings <- MCSettings
INVARIANTS
  RelaysFollow
  NamesMeanTheirCircuits
PROPERTIES
  RelaysMoveAsTold
