\* One acknowledged blinker, at the code's own delays.
SPECIFICATION FairSpec
CONSTANTS
  TIMER_MAX = 255
  ACKNOWLEDGEMENT_DELAY = 100
  BLINKING_DELAY = 100
  Blinkers = {"left_blinker"}
PROPERTY AcknowledgedBlinkerBlinks
