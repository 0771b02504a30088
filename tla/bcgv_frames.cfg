\* The serial number the frames for the BGF carry.
SPECIFICATION Spec
CONSTANTS
  TIMER_MAX = 4
  ACKNOWLEDGEMENT_DELAY = 2
  BLINKING_DELAY = 2
  WAITING_DELAY = 1
  MUX_ID_MAX = 1
  LOW_FUEL_THRESHOLD = 5
  BgfAddresses = {11}
  Commands <- Idle
  FrameSizes = {2}
  MuxFrames <- Quiet
  Losses = {0}
  MAX_BATCH = 1
CHECK_DEADLOCK FALSE
INVARIANT
  FramesAddressTheBgf
