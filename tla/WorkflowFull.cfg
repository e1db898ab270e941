SPECIFICATION Spec
CONSTANTS
  r1 = r1
  r2 = r2
  c1 = c1
  c2 = c2
  q1 = q1
  q2 = q2
  j1 = j1
  j2 = j2
  None = None
  Riders = {r1, r2}
  Couriers = {}
  Requests = {q1}
  Jobs = {j1}
  Methods = {"platform_logistics"}
  Policy = {"sellerDelivery"}
  Scheduled = {TRUE}
  Online = {FALSE}
  Endpoints = {"reschedule", "selfLogistics", "adminOverride"}
  Crashes = FALSE
  MaxAttempts = 1
  MaxReassign = 1
SYMMETRY MCPerms
PROPERTIES RiderKept ApprovalSparesRider
CHECK_DEADLOCK FALSE
