\* A ring of four entries, so three items: full, empty and wrapped in every position.
SPECIFICATION MonitorSpec
CONSTANTS
  FIFO_MAX_ITEMS = 4
  Zeroed = zero
  Items = {zero, a, b}
INVARIANTS
  FifoInv
  NoRacingCopies
  HeldItemStays
PROPERTIES
  ImplementsQueue
  HandedOutOnce
