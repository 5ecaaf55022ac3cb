SPECIFICATION MonitorSpec
CONSTANTS
  Powers = {0, 1}
  Flows = {0, 1}
  Nominal = 1
  PublishEvery = 1
  Sizes = {127, 128, 16384}
  MaxBurned = 2
  MaxDrawn = 1
  MaxInbox = 1
INVARIANTS
  SumsAreTrue
  BrokerKeepsInStep
  WireIsTrusted
PROPERTIES
  Spec
  ReadingsAreWhole
