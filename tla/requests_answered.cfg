SPECIFICATION FairSpec
CONSTANTS
  r1 = r1
  r2 = r2
  r3 = r3
  Requests = {r1, r2, r3}
  Rows = {1, 2, 3, 4, 5}
  Uniques = {6, 7}
  Counters = {8}
  SaleRows = {9}
  OpeningRows = {1, 2}
  PoolSize = 3
  Scenes <- SmallScenes
INVARIANTS LocksInv CirclesNeedDisorder LossesAreReal
PROPERTIES RequestsAnswered
