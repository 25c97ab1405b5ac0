\* The generator sends three orders on two instruments.
CONSTANTS
  MAX_TICKER_LENGTH = 2
  Half = 8
  OrderIds = {1, 2, 3}
  UserIds = {0}
  None = None
  INSTRUMENTS <- TwoTickers
  Prices = {1}
  Volumes = {1, 2}
  USER_ID = 0
  MaxOrders = 3
  MaxInbound = 1
SPECIFICATION GeneratorSpec
INVARIANTS BookMirrored CancelledOrdersLeave
CHECK_DEADLOCK FALSE
