\* A rejected push and the read that should tell of it.
SPECIFICATION Spec
CONSTANTS
  FIFO_MAX_ITEMS = 2
  Zeroed = zero
  Items = {zero, a}
PROPERTY
  LostReported
