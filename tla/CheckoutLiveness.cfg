SPECIFICATION FairSpec
CONSTANTS
  k1 = k1
  k2 = k2
  o1 = o1
  o2 = o2
  o3 = o3
  h1 = h1
  h2 = h2
  c1 = c1
  c2 = c2
  None = None
  Keys = {k1}
  Orders = {o1, o2}
  Handlers = {h1, h2}
  Customers = {c1}
  Stock = 1
  Balance = 1
  MaxRetries = 1
  MaxCrashes = 1
  Settings <- Dying
PROPERTIES LearnsOfOrder
CHECK_DEADLOCK FALSE
