\* Two users with one instrument, one of whom may cancel what is not theirs.
CONSTANTS
  MAX_TICKER_LENGTH = 2
  Half = 8
  OrderIds = {1, 2}
  UserIds = {0, 1}
  None = None
  INSTRUMENTS <- OneTicker
  Prices = {1}
  Volumes = {1}
  USER_ID = 0
  MaxOrders = 2
  MaxInbound = 1
SPECIFICATION UsersSpec
INVARIANT BookMirrored
CHECK_DEADLOCK FALSE
