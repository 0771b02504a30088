\* The supervision of the sidelights, at the code's own delay and timer width.
SPECIFICATION MonitorSpec
CONSTANTS
  TIMER_MAX = 255
  ACKNOWLEDGEMENT_DELAY = 100
  Lights = {"sidelights"}
INVARIANT EveryFaultDetectedInTime
