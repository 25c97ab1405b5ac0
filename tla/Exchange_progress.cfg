\* One user, queues of one element: progress and shutdown.
CONSTANTS
  Half = 8
  OrderIds = {i1}
  UserIds = {u1}
  None = None
  Tickers = {ES, XX}
  INSTRUMENTS = {ES}
  Prices = {1}
  Volumes = {1}
  QUEUE_CAPACITY = 1
  MaxOrders = 2
  MaxCancels = 1
SPECIFICATION FairSpec
PROPERTIES ShutdownCompletes WorkDrains
