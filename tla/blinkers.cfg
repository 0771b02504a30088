\* Both blinkers, at small delays.
SPECIFICATION MonitorSpec
CONSTANTS
  TIMER_MAX = 5
  ACKNOWLEDGEMENT_DELAY = 2
  BLINKING_DELAY = 2
  Blinkers = {"left_blinker", "right_blinker"}
INVARIANTS
  BlinkersInv
  FaultDetectedInTime
  RefusalBounded
  SettledInTime
PROPERTIES
  WarningsIndicatorGoesOutByBlinker
  ImplementsSupervisedLamp
