SPECIFICATION FairSpec
CONSTANTS
  h1 = h1
  h2 = h2
  RiderOrders = {1, 2}
  StoreOrders = {3, 4}
  Cash <- RidersCash
  Commission = 2
  Balance = 1
  MaxPayments = 2
  MaxAmount = 4
  MaxCrashes = 1
  Handlers = {h1, h2}
  Settings <- MCSettings
INVARIANTS TypeOK CashAccounted RemitsWhatWasPaid CommissionAccounted
PROPERTIES CashIsCounted RemittanceIsApplied
CHECK_DEADLOCK FALSE
