SPECIFICATION Spec
CONSTANTS
  p1 = p1 p2 = p2 u1 = u1 w1 = w1 w2 = w2
  Posts = {p1, p2}
  Users = {u1}
  Author <- OneAuthor
  Workers = {w1, w2}
  MaxOrders = 1
  Reposts = {}
  Checkable = {p1, p2}
  Promoters = {u1}
  HighVolume = {}
  Exempt <- NobodyExempt
  AllSettings <- PromoterSettings
  Refused = {}
  MaxRetries = 0
  MaxFaults = 0
PROPERTIES PromotersCaught
CHECK_DEADLOCK FALSE
