\* What a stopped thread leaves in its queue.
CONSTANTS
  Half = 8
  OrderIds = {i1}
  UserIds = {u1}
  None = None
  Tickers = {ES}
  INSTRUMENTS = {ES}
  Prices = {1}
  Volumes = {1}
  QUEUE_CAPACITY = 1
  MaxOrders = 2
  MaxCancels = 0
SPECIFICATION Spec
INVARIANT StoppedDrained
