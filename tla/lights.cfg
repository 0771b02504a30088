\* A light with a timer next to the sidelights, at small delays.
SPECIFICATION FairMonitorSpec
CONSTANTS
  TIMER_MAX = 15
  ACKNOWLEDGEMENT_DELAY = 6
  Lights = {"headlights", "sidelights"}
INVARIANTS
  LightsInv
  FaultDetectedInTime
  RefusalBounded
  SettledInTime
  SidelightsNeverRefused
PROPERTIES
  IndicatorNeedsAcknowledgement
  DarkOnlyByFault
  CommandSettles
  ImplementsSupervisedLamp
