SPECIFICATION Spec
CONSTANTS
  c1 = c1  c2 = c2  k1 = k1  k2 = k2  p1 = p1  p2 = p2  home = home  work = work
  None = None
  Calls = {c1}
  Tools <- CartTools
  ConfIds = {k1,k2}
  PayIds = {p1}
  Addresses = {home}
  FoodBaskets <- TwoOutlets
  Groceries <- NoGrocery
  OrderCap = 5
  ImMin = 1
  ConfirmTTL = 1
  PayWindow = 1
  RebuildWindow = 1
  MaxTime = 1
  MaxRestarts = 1
  MaxLost = 1
  MaxForeign = 0
INVARIANTS PlacedAsConfirmed PlacedNeverSeeds
SYMMETRY Names
CHECK_DEADLOCK FALSE
