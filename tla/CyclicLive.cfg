SPECIFICATION FairSpec
CONSTANTS
  Values = {zero}
  Zero = zero
  Unset = unset
  Refused = refused
  MaxTimeouts = 2
  MaxStarts = 1
  CounterMod = 2
  CounterStep = 2
  FaultRestart = FALSE
  RxErrors = FALSE
  SendErrors = FALSE
  InputStatuses = {"good"}
  LinkMayDie = TRUE
PROPERTIES
  StopReturns
  SilenceEscalates
