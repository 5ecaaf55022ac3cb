SPECIFICATION ServiceSpec
CONSTANTS
  Name = {"default", "holiday"}
  Default = "default"
  Body = {"cosy"}
  ImageBody = "cosy"
  JoinTime = 1
  CycleTime = 2
INVARIANTS
  RunsWhatIsStored
  RoomsRemain
  SuccessMeansWhole
PROPERTY StaysReachable
