---------------------------- MODULE BcgvMonitor -----------------------------
(***************************************************************************)
(* The body controller with the counters of LightsMonitor, BlinkersMonitor *)
(* and WipersMonitor: what the automata promise in calls, of the loop that *)
(* makes one call of each per cycle and of the frames that cross it.       *)
(***************************************************************************)
EXTENDS Bcgv

VARIABLES
  lights_answered, lights_unconfirmed, lights_refused, lights_unanswered,
  blinkers_answered, blinkers_unconfirmed, blinkers_refused, blinkers_unanswered,
  waited, wipeIgnored, washIgnored

LM == INSTANCE LightsMonitor WITH
  fsm <- lights_fsm, timer <- lights_timer, in <- lights_in,
  acknowledgement <- lights_ack, out <- lights_out, indicator <- lights_ind,
  answered <- lights_answered, unconfirmed <- lights_unconfirmed,
  refused <- lights_refused, unanswered <- lights_unanswered

BM == INSTANCE BlinkersMonitor WITH
  fsm <- blinkers_fsm, timer <- blinkers_timer, in <- blinkers_in,
  acknowledgement <- blinkers_ack, out <- blinkers_out,
  answered <- blinkers_answered, unconfirmed <- blinkers_unconfirmed,
  refused <- blinkers_refused, unanswered <- blinkers_unanswered

WM == INSTANCE WipersMonitor WITH fsm <- wipers_fsm, timer <- wipers_timer

lightsMonitor   == <<lights_answered, <<lights_unconfirmed, lights_refused, lights_unanswered>>>>
blinkersMonitor ==
  <<blinkers_answered, <<blinkers_unconfirmed, blinkers_refused, blinkers_unanswered>>>>
wipersMonitor   == <<waited, wipeIgnored, washIgnored>>

mvars == <<vars, lightsMonitor, blinkersMonitor, wipersMonitor>>

MonitorInit == Init /\ LM!MonitorInit /\ BM!MonitorInit /\ WM!MonitorInit

\* The device whose answer the loop decodes next, if the next frame is one.
Answering ==
  IF /\ pc = "decode" /\ received # <<>>
     /\ Head(received).from = "bgf" /\ Head(received).size >= 2
    THEN {BgfDevice[Head(received).id]} ELSE {}

\* A step of the loop, counted for the automaton it runs or the device that answers.
MonitorNext ==
  /\ Next
  /\ \/ pc \in Lights /\ LM!Counted(pc)
     \/ \E l \in Lights \cap Answering : LM!Answered(l)
     \/ Lights \cap ({pc} \cup Answering) = {} /\ UNCHANGED lightsMonitor
  /\ \/ pc \in Blinkers /\ BM!Counted(pc)
     \/ \E b \in Blinkers \cap Answering : BM!Answered(b)
     \/ Blinkers \cap ({pc} \cup Answering) = {} /\ UNCHANGED blinkersMonitor
  /\ IF pc = "wipers" THEN WM!Counted ELSE UNCHANGED wipersMonitor

MonitorSpec == MonitorInit /\ [][MonitorNext]_mvars

\* The MUX sends a frame every 10 ms and the loop has a thread of its own.
FairMonitorSpec == MonitorSpec /\ WF_vars(Cycle)

-----------------------------------------------------------------------------
Unanswered(d) == IF d \in Lights THEN lights_unanswered[d] ELSE blinkers_unanswered[d]

\* A device the BGF has accepted no frame for is given up once its command has been on
\* for TIMER_MAX + 2 cycles in a row: with nothing heard, the README's lights that do
\* not stay on.
GivenUpInTime ==
  \A d \in Supervised : d \notin heard /\ Unanswered(d) > TIMER_MAX + 1 => Failed(d)
=============================================================================
