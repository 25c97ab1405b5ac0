\* Two users whose orders cross, queues of one element.
CONSTANTS
  Half = 8
  OrderIds = {i1}
  UserIds = {u1, u2}
  None = None
  Tickers = {ES}
  INSTRUMENTS = {ES}
  Prices = {1}
  Volumes = {1, 2}
  QUEUE_CAPACITY = 1
  MaxOrders = 3
  MaxCancels = 0
SPECIFICATION Spec
SYMMETRY Symmetry
INVARIANTS TypeOK PositionsReconcile FeedReconciles TradesFollowTheirOrders OrderlyStop MidKnownAtSettlement
