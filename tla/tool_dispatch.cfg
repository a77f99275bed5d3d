SPECIFICATION FairSpec
CONSTANTS
  t1 = t1
  t2 = t2
  d1 = d1
  d2 = d2
  r1 = r1
  Tools = {t1, t2}
  Calls = {d1, d2}
  Removers = {r1}
  MaxSlots = 1
  EventCap = 2
  MaxAdds = 2
  Drains = {TRUE, FALSE}
INVARIANTS TypeOK SlotsConserved DrainWaits AnnouncedAgrees
PROPERTIES RemoveReturns

