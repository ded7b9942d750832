\* Liveness under fair background tasks (no symmetry): failover between two
\* configs, administrators who add and take credit and change the limit.
CONSTANTS
  Slots = {s1, s2}
  Amounts <- AddOrTake
  Limits <- TwoLimits
  Costs <- FreeOrNot
  MaxCost = 1
  MaxConfigs = 2
  MaxRows = 1
  MaxEntries = 1
  NULL = NULL
SPECIFICATION FairSpec
PROPERTY RowSettles
