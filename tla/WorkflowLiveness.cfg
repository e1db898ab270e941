SPECIFICATION FairSpec
CONSTANTS
  r1 = r1
  r2 = r2
  c1 = c1
  c2 = c2
  q1 = q1
  q2 = q2
  j1 = j1
  j2 = j2
  None = None
  Riders = {r1}
  Couriers = {c1}
  Requests = {q1}
  Jobs = {j1, j2}
  Methods = {"platform_logistics"}
  Policy = {}
  Scheduled = {FALSE}
  Online = {FALSE}
  Endpoints = {"dispute", "validateOtp", "updateRider"}
  Crashes = FALSE
  MaxAttempts = 2
  MaxReassign = 0
PROPERTIES SellerDecisionEnds SearchEnds CancelledGivesBack
CHECK_DEADLOCK FALSE
