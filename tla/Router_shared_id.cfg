\* Two clients who may use the same order id at the same time.
CONSTANTS
  Half = 8
  OrderIds = {i1, i2}
  UserIds = {u1, u2}
  None = None
  Tickers = {ES}
  INSTRUMENTS = {ES}
  Prices = {1, 2}
  Volumes = {1}
  MaxOrders = 3
  ReuseLiveIds = TRUE
SPECIFICATION Spec
SYMMETRY Symmetry
INVARIANT OnlyOwnerCancels
