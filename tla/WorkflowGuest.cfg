SPECIFICATION Spec
CONSTANTS
  r1 = r1
  r2 = r2
  c1 = c1
  c2 = c2
  q1 = q1
  q2 = q2
  j1 = j1
  j2 = j2
  None = None
  Riders = {r1}
  Couriers = {c1, c2}
  Requests = {q1, q2}
  Jobs = {j1, j2}
  Methods = {"platform_logistics"}
  Policy = {"customerPickup"}
  Scheduled = {FALSE}
  Online = {FALSE}
  Endpoints = {"updateStatus"}
  Crashes = FALSE
  MaxAttempts = 2
  MaxReassign = 0
SYMMETRY MCPerms
INVARIANTS OneAssignee NobodyHoldsOfferedOrder
PROPERTIES SearchNotCutShort
CHECK_DEADLOCK FALSE
