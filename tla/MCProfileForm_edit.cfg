SPECIFICATION FairSpec
CONSTANTS
  d1 = d1
  Devices = {d1}
  Texts = {"", "a"}
  Refusable = TRUE
  MaxOpens = 2
  MaxCompletes = 2
  MaxRestarts = 1
INVARIANTS TypeOK ReadYourWrites GroupNumberLossExplained
PROPERTIES SavesArrive
