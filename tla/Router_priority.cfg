\* One client whose orders never reuse a resting id: the book's behaviour.
CONSTANTS
  Half = 8
  OrderIds = {i1, i2, i3}
  UserIds = {u1}
  None = None
  Tickers = {ES}
  INSTRUMENTS = {ES}
  Prices <- BookPrices
  Volumes = {1, 2}
  MaxOrders = 4
  ReuseLiveIds = FALSE
SPECIFICATION Spec
SYMMETRY Symmetry
INVARIANTS NeverCrossed MidWithinSpread IndexExact VolumeConserved
PROPERTIES PriceTimePriority ImplementsLimitOrderBook
