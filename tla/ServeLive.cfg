SPECIFICATION FairSpec
CONSTANTS
  Bits = {1, 2}
  AllowMask = {1, 2}
  LevelMasks = {{2}}
  PulseMasks = {{1}}
  LinkFaults = TRUE
  FrameLoss = FALSE
  RpcFails = TRUE
  DataHold = 6
INVARIANTS
  HardExitHarmless
PROPERTIES
  DeadManFires
  PulseEnds
  FaultEndsLoop
  ShutdownEnds
