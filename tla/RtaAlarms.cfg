SPECIFICATION FairSpec
CONSTANTS
  MaxAlarms = 5
  Malformed = {2}
  SeqMod = 3
  Retries = 2
  DeviceRetries = 2
  ChannelCap = 4
  LossBudget = 2
  MaxOvertakes = 1
  OwnerStops = TRUE
  RecvErrors = TRUE
INVARIANTS
  AcksFollowDelivery
  ConfirmedWasAccepted
PROPERTIES
  DeliversInOrder
  AlarmsAnswered
\* Once every alarm is answered nothing is left to happen.
CHECK_DEADLOCK FALSE
