SPECIFICATION Spec
CONSTANTS
  d1 = d1 d2 = d2 u1 = u1 u2 = u2 e1 = e1 e2 = e2 s1 = s1 s2 = s2
  Devices = {d1}
  Users = {u1}
  Owner <- OneDevice
  Registered = {u1}
  Events = {e1}
  Capacity <- TwoPlaces
  Screens = {s1, s2}
  MaxTaps = 2
  MaxRestarts = 0
  Rejectable = {}
PROPERTIES NoSecondEntry
