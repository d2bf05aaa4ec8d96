SPECIFICATION FairSpec
CONSTANTS
  p1 = p1 p2 = p2 u1 = u1 w1 = w1 w2 = w2
  Posts = {p1}
  Users = {u1}
  Author <- OneAuthor
  Workers = {w1}
  MaxOrders = 2
  Reposts = {}
  Checkable = {p1}
  Promoters = {u1}
  HighVolume = {u1}
  Exempt <- NobodyExempt
  AllSettings <- MildSettings
  Refused = {"oc", "ban"}
  MaxRetries = 1
  MaxFaults = 1
PROPERTIES EventuallySettled
