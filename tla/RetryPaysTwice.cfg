SPECIFICATION Spec
CONSTANTS
  q1 = q1
  q2 = q2
  q3 = q3
  k1 = k1
  k2 = k2
  h1 = h1
  h2 = h2
  None = None
  Payouts = {q1, q2}
  Keys = {k1, k2}
  Handlers = {h1}
  Settings <- OnlyAnswerLost
INVARIANTS PaidOnce
CHECK_DEADLOCK FALSE
