SPECIFICATION Spec
CONSTANTS
  w1 = w1 w2 = w2
  MaxId = 3
  Window = 3
  Chunk = 1
  JobLimit = 2
  Workers = {w1, w2}
  Monitored = {3}
  Searched = {2, 3}
  Galleries = {2}
  Refusable = {}
  Removable = {3}
  MaxRetries = 1
  Expiry = {"fetch"}
  QueueLimit = 0
  MaxFaults = 1
INVARIANTS TypeOK ResumeSafe SavedIsChecked
PROPERTIES StoreSpec
