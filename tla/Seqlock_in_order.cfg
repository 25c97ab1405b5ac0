\* Program order, one reader: readers do not write anything another one reads.
CONSTANTS
  Readers = {r1}
  Words <- MCWords
  Data = {0, 1}
  Storable <- MCStorable
  InitialValue <- MCInitialValue
  None = None
  InOrder = TRUE
  MaxStores = 3
SPECIFICATION FairSeqlockSpec
INVARIANTS  SequenceProtocol
PROPERTIES ImplementsAtomicRegister LoadReturnsOnceWriterPauses
