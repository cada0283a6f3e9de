SPECIFICATION Spec
CONSTANTS
  c1 = c1  c2 = c2  k1 = k1  k2 = k2  p1 = p1  p2 = p2  home = home  work = work
  None = None
  Calls = {c1}
  Tools <- OrderTools
  ConfIds = {k1}
  PayIds = {p1}
  Addresses = {home}
  FoodBaskets <- NoFood
  Groceries <- OneGrocery
  OrderCap = 5
  ImMin = 1
  ConfirmTTL = 1
  PayWindow = 1
  RebuildWindow = 1
  MaxTime = 2
  MaxRestarts = 1
  MaxLost = 0
  MaxForeign = 0
INVARIANT NothingWasCharged
CHECK_DEADLOCK FALSE
