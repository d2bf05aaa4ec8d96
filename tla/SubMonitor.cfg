SPECIFICATION Spec
CONSTANTS
  p1 = p1 p2 = p2 u1 = u1 w1 = w1 w2 = w2
  Posts = {p1, p2}
  Users = {u1}
  Author <- OneAuthor
  Workers = {w1, w2}
  MaxOrders = 1
  Reposts = {p1}
  Checkable = {p1, p2}
  Promoters = {u1}
  HighVolume = {u1}
  Exempt <- NobodyExempt
  AllSettings <- StrictSettings
  Refused = {}
  MaxRetries = 1
  MaxFaults = 1
PROPERTIES LedgerSpec
INVARIANTS TypeOK RecordedIsOrdered Justified OneVersion
SYMMETRY Symmetry
