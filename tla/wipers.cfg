\* The wipers at the code's own delay and timer width.
SPECIFICATION FairMonitorSpec
CONSTANTS
  TIMER_MAX = 255
  WAITING_DELAY = 200
INVARIANTS
  WipersInv
  WipeServedInTime
  WashServedInTime
PROPERTIES
  WaitIsExact
  WipingResumes
