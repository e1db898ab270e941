SPECIFICATION Spec
CONSTANTS
  o1 = o1
  o2 = o2
  g1 = g1
  g2 = g2
  c1 = c1
  c2 = c2
  h1 = h1
  h2 = h2
  None = None
  Orders = {o1}
  Payments = {g1, g2}
  Charges = {c1, c2}
  Handlers = {h1, h2}
  Events = {"authorized", "captured", "paid", "failed", "refunded"}
  Signatures = {TRUE, FALSE}
  Mortal = {"verify", "webhook", "checkout", "job"}
SYMMETRY MCPaymentPerms
INVARIANTS TypeOK MovedOnce AcceptedIsFunded
PROPERTIES ReportsSpareOrders
CHECK_DEADLOCK FALSE
