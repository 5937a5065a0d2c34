CONSTANTS
  t1 = t1  t2 = t2  k1 = k1  k2 = k2
  Tasks = {t1, t2}
  Kind <- AllDiscover
  Refresher = refresher
  Keys = {k1, k2}
  Seeds <- OneSeed
  Listings <- AddsSecond
  Dead = {}
  Flaky = {}
  MaxConflicts = 0
  DiscoverReps = FALSE
  MaxRetries = 0
  One = 4
  Inc = 1
  Floor = 1
SPECIFICATION Spec
INVARIANTS NoDuplicate
