SPECIFICATION Spec
CONSTANTS
  r1 = r1
  r2 = r2
  c1 = c1
  c2 = c2
  q1 = q1
  q2 = q2
  j1 = j1
  j2 = j2
  None = None
  Riders = {r1, r2}
  Couriers = {}
  Requests = {q1, q2}
  Jobs = {j1, j2}
  Methods = {"platform_logistics", "external_logistics", "seller_delivery"}
  Policy = {"autoSwitch", "sellerDelivery"}
  Scheduled = {TRUE, FALSE}
  Online = {TRUE, FALSE}
  Endpoints = {}
  Crashes = TRUE
  MaxAttempts = 2
  MaxReassign = 1
SYMMETRY MCPerms
INVARIANTS TypeOK UnpaidGoesNowhere LiveOrderHoldsStock
PROPERTIES FollowsLifecycle
CHECK_DEADLOCK FALSE
