SPECIFICATION Spec
CONSTANTS
  Values = {zero, cmd}
  Zero = zero
  Unset = unset
  Refused = refused
  MaxTimeouts = 0
  MaxStarts = 2
  CounterMod = 2
  CounterStep = 2
  FaultRestart = TRUE
  RxErrors = TRUE
  SendErrors = TRUE
  InputStatuses = {"good"}
  LinkMayDie = FALSE
INVARIANT NoStaleByte
