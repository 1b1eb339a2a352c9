SPECIFICATION FairSpec
CONSTANTS
  d1 = d1 d2 = d2 u1 = u1 u2 = u2 e1 = e1 e2 = e2 s1 = s1 s2 = s2
  Devices = {d1, d2}
  Users = {u1, u2}
  Owner <- TwoUsers
  Registered = {u1, u2}
  Events = {e1}
  Capacity <- TwoPlaces
  Screens = {s1}
  MaxTaps = 2
  MaxRestarts = 1
  Rejectable = {"updateEventMaxMemberCount", "updateEventMembersCount"}
INVARIANTS HalfEntriesExplained
PROPERTIES RowsConverge PersistedEntryArrives
