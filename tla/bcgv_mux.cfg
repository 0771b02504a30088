\* The MUX side at the code's own turn of ids, with no command given.
SPECIFICATION Spec
CONSTANTS
  TIMER_MAX = 4
  ACKNOWLEDGEMENT_DELAY = 1
  BLINKING_DELAY = 1
  WAITING_DELAY = 0
  MUX_ID_MAX = 100
  LOW_FUEL_THRESHOLD = 5
  BgfAddresses = {11}
  Commands <- Idle
  FrameSizes = {1}
  MuxFrames <- Reports
  Losses = {0, 1, 99, 100}
  MAX_BATCH = 1
CHECK_DEADLOCK FALSE
INVARIANTS
  TypeOK
  DashboardShowsVehicle
PROPERTY
  GapsReported
