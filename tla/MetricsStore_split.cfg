CONSTANTS
  Calls = {c1, c2, c3}
  LastDay = 1
  MaxFaults = 1
SPECIFICATION StoreSpec
INVARIANT TornCostsOneRecord
