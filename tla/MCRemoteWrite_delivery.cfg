SPECIFICATION Spec
CONSTANTS
  u1 = u1
  u2 = u2
  Users = {u1, u2}
  Observed = u1
  MaxPending = 2
  MaxWrites = 3
  MaxSignIns = 1
  MaxFaults = 2
INVARIANTS
  TypeOK
  HardAssertsHold
  CompletionsTrue
  OwnCredentials
  DrainedAtRest
PROPERTIES
  DeliveryKept
CHECK_DEADLOCK FALSE
