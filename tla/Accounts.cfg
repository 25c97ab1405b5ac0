CONSTANTS
  Participants = {0, 1}
  UserIds = {0, 1, 9}
  Tickers = {"ES"}
  Prices = {2, 7}
  Volumes = {1, 3}
  None = None
  MaxTrades = 4
SPECIFICATION Spec
CHECK_DEADLOCK FALSE
INVARIANTS TypeOK RealizedMatchesCash EquityMarkedToMid PositionsSumToZero CostWithinTradedPrices
