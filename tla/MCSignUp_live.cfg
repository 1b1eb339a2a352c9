SPECIFICATION FairSpec
CONSTANTS
  d1 = d1 d2 = d2 m1 = m1 m2 = m2 c1 = c1 c2 = c2 c3 = c3
  Devices = {d1}
  Emails = {m1, m2}
  Calls = {c1, c2, c3}
  MaxRestarts = 1
  Refusable = TRUE
INVARIANTS TypeOK WelcomeExplained
PROPERTIES SignUpCompletes
