CONSTANTS
  t1 = t1  t2 = t2  k1 = k1  k2 = k2
  Tasks = {t1, t2}
  Kind <- ReadAndDiscover
  Refresher = refresher
  Keys = {k1, k2}
  Seeds <- OneSeed
  Listings <- AddsHeavy
  Dead = {k2}
  Flaky = {}
  MaxConflicts = 1
  DiscoverReps = FALSE
  MaxRetries = 2
  One = 4
  Inc = 1
  Floor = 1
SPECIFICATION FairSpec
INVARIANTS TransportComing DeadRepSurvived
PROPERTIES CallsReturn WeightsConverge DestroyIsFinal
