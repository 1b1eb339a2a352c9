SPECIFICATION FairSpec
CONSTANTS
  d1 = d1 e1 = e1 e2 = e2 x = x
  Devices = {d1}
  Events = {e1, e2, x}
  Imported = {x}
  ListThere = FALSE
  MaxRestarts = 1
  Refusable = {"addDocument", "createdEvents"}
INVARIANTS TypeOK CreatedEventsExist OrphansExplained StudentProfileHolds
PROPERTIES EventsGetListed
