SPECIFICATION SessionSpec
CONSTANTS
  d1 = d1 d2 = d2 m1 = m1 m2 = m2 c1 = c1 c2 = c2 x1 = x1 x2 = x2
  Devices = {d1, d2}
  Emails = {m1, m2}
  Calls = {c1, c2}
  Updates = {x1, x2}
  MaxRestarts = 1
  Refusable = TRUE
SYMMETRY SessionSymmetry
CHECK_DEADLOCK FALSE
INVARIANTS SessionTypeOK OneProfileWrite HalfSignUpsExplained UpdatesFindProfile
