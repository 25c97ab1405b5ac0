\* Two clients, two instruments and an unlisted ticker, orders without volume.
CONSTANTS
  Half = 8
  OrderIds = {i1, i2}
  UserIds = {u1, u2}
  None = None
  Tickers = {ES, NQ, XX}
  INSTRUMENTS = {ES, NQ}
  Prices = {1}
  Volumes <- AnyVolumes
  MaxOrders = 3
  ReuseLiveIds = FALSE
SPECIFICATION FairSpec
INVARIANTS TypeOK OnlyOwnerCancels IndexExact MidKnownOnceTraded VolumeConserved
 
