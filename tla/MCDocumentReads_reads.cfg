SPECIFICATION Spec
CONSTANTS
  q1 = q1
  q2 = q2
  r1 = r1
  r2 = r2
  t = t
  Queries = {q1,q2}
  Reads = {r1,r2,t}
  Tables = {t}
  QueryOf <- BesideTable
  Changing = {q1}
  MaxVersion = 1
  MaxFaults = 1
INVARIANTS
  TypeOK
  HardAssertsHold
  AnsweredOnce
  SyncedAnswersFresh
  ResumableIsCached
  ResponsesCounted
  UnknownIsTimed
  AnsweredAtRest
CHECK_DEADLOCK FALSE
