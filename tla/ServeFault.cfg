SPECIFICATION Spec
CONSTANTS
  Bits = {1, 2}
  AllowMask = {1, 2}
  LevelMasks = {{2}}
  PulseMasks = {{1}}
  LinkFaults = TRUE
  FrameLoss = FALSE
  RpcFails = FALSE
  DataHold = 6
INVARIANT HeldBeforeStop
