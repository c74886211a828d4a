CONSTANTS
  Topologies <- MCTopologies
  Gsdmls <- MCGsdmls
  Fittings <- MCFittings
  MaxConns = 3
  PACED_READ_RETRIES = 2
SPECIFICATION Spec
INVARIANTS NothingLeft TakenFromSafe LayoutAgrees
CHECK_DEADLOCK FALSE
