SPECIFICATION Spec
CONSTANTS
  Values = {zero}
  Zero = zero
  Unset = unset
  Refused = refused
  MaxTimeouts = 2
  MaxStarts = 1
  CounterMod = 6
  CounterStep = 2
  FaultRestart = FALSE
  RxErrors = TRUE
  SendErrors = FALSE
  InputStatuses = {"good", "bad"}
  LinkMayDie = FALSE
INVARIANTS
  FaultJustified
  FaultRemembered
  ListenerInSync
PROPERTIES
  FaultFramesBad
  WireInSequence
