SPECIFICATION FairSpec
CONSTANTS
  Surfaces = {inputs, pool}
  Detached = {pool}
  Tolerant = {pool}
  MaxVersion = 2
  MaxFlying = 1
INVARIANTS TypeOK
PROPERTIES NothingGoesBack StatsConverge
CHECK_DEADLOCK FALSE
