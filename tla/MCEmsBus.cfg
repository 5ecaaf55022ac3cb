SPECIFICATION Spec
CONSTANTS
  OwnId = "own"
  Attached = {"thermostat"}
  Telegrams = {3, 4}
  MaxSize = 3
  MaxWaiting = 1
  RingSize = 4
  MaxEvents = 2
  MaxCuts = 0
INVARIANTS
  TypeOK
  StaysInStep
PROPERTY ForwardedIsSent
