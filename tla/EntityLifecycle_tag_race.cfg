\* A tag is set while an entity is created.
SPECIFICATION Spec
CONSTANTS
  Key = {k1}
  NoRow = NoRow
  Req = {r1, r2}
  Data = {d1}
  BadData = {}
  NoData = NoData
  Tag = {t1}
  NoTag = NoTag
  NoCall = NoCall
  ExpiringKeys = {}
  MaxFaults = 0
  MaxOld = 1
INVARIANTS
  ProcessingMeansInProgress
CHECK_DEADLOCK FALSE
