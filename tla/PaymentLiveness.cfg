SPECIFICATION FairSpec
CONSTANTS
  o1 = o1
  o2 = o2
  g1 = g1
  g2 = g2
  c1 = c1
  c2 = c2
  h1 = h1
  h2 = h2
  None = None
  Orders = {o1, o2}
  Payments = {g1}
  Charges = {c1}
  Handlers = {h1, h2}
  Events = {"captured"}
  Signatures = {TRUE}
  Mortal = {"verify"}
PROPERTIES CapturedIsHandled
CHECK_DEADLOCK FALSE
