CONSTANTS
  r1 = r1  r2 = r2  r3 = r3  a = a  b = b  c1 = c1  c2 = c2
  RepOrder <- Order
  Staples <- Tied
  Accounts <- Contended
  Callers = {c1}
  MaxFaults = 2
SPECIFICATION Spec
PROPERTIES SyncedMeansAdvanced
