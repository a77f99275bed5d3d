SPECIFICATION Spec
CONSTANTS
  t1 = t1
  t2 = t2
  d1 = d1
  d2 = d2
  r1 = r1
  Tools = {t1}
  Calls = {d1}
  Removers = {r1}
  MaxSlots = 1
  EventCap = 2
  MaxAdds = 1
  Drains = {TRUE}
PROPERTIES DrainLeavesNone
