SPECIFICATION Spec
CONSTANTS
  w1 = w1 w2 = w2
  MaxId = 3
  Window = 2
  Chunk = 1
  JobLimit = 2
  Workers = {w1}
  Monitored = {}
  Searched = {2, 3}
  Galleries = {2}
  Refusable = {}
  Removable = {3}
  MaxRetries = 2
  Expiry = {}
  QueueLimit = 1
  MaxFaults = 0
PROPERTIES GivenUpUnprocessed
