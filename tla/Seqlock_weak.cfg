\* The order that release stores and acquire loads guarantee, and no more.
CONSTANTS
  Readers = {r1}
  Words <- MCWords
  Data = {0, 1}
  Storable <- MCStorable
  InitialValue <- MCInitialValue
  None = None
  InOrder = FALSE
  MaxStores = 2
SPECIFICATION SeqlockSpec
INVARIANT NoTornLoad
