SPECIFICATION Spec
CONSTANTS
  Bits = {1, 2, 3}
  AllowMask = {1, 2}
  LevelMasks = {{2}, {2, 3}}
  PulseMasks = {{1}, {1, 3}}
  LinkFaults = TRUE
  FrameLoss = TRUE
  RpcFails = TRUE
  DataHold = 6
INVARIANTS
  WithinAllowMask
  HeldUnlessRefused
  VerifiedStaysSafe
