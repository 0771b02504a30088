\* The loop over automata, answers and frames.  The BGF answers to its own serial
\* number and, so that there are answers, to the one the frames carry.
SPECIFICATION FairMonitorSpec
CONSTANTS
  TIMER_MAX = 4
  ACKNOWLEDGEMENT_DELAY = 2
  BLINKING_DELAY = 2
  WAITING_DELAY = 1
  MUX_ID_MAX = 1
  LOW_FUEL_THRESHOLD = 5
  BgfAddresses = {2, 11}
  Commands <- Changing
  FrameSizes = {2}
  MuxFrames <- Quiet
  Losses = {0}
  MAX_BATCH = 2
CHECK_DEADLOCK FALSE
INVARIANTS
  BcgvInv
  AcknowledgedOnlyIfHeard
  FramesFollowCommands
  LightsShownAreSent
  WarningsShownAsCommanded
  GivenUpInTime
PROPERTIES
  CommandedLightsGiveUp
  DevicesSupervised
  ImplementsComponents
