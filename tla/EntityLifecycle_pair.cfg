\* Two requests of any kind on one entity, with an expiry and one fault.
SPECIFICATION Spec
CONSTANTS
  Key = {k1}
  NoRow = NoRow
  Req = {r1, r2}
  Data = {d1, d2}
  BadData = {}
  NoData = NoData
  Tag = {t1}
  NoTag = NoTag
  NoCall = NoCall
  ExpiringKeys = {k1}
  MaxFaults = 1
  MaxOld = 1
SYMMETRY Alike
INVARIANTS
  TypeOK
  VersionIdentifiesRow
  StuckExplained
  SerialConsistent
PROPERTIES
  ImplementsContract
CHECK_DEADLOCK FALSE
