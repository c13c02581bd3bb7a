\* Every request ends; the routes as they are, data that is rejected included.
SPECIFICATION FairSpec
CONSTANTS
  Key = {k1}
  NoRow = NoRow
  Req = {r1, r2}
  Data = {d1, bad}
  BadData = {bad}
  NoData = NoData
  Tag = {}
  NoTag = NoTag
  NoCall = NoCall
  ExpiringKeys = {k1}
  MaxFaults = 1
  MaxOld = 1
PROPERTIES
  ImplementsContract
  ServedConditionalWrite
  RequestsEnd
CHECK_DEADLOCK FALSE
