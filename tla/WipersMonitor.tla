--------------------------- MODULE WipersMonitor ----------------------------
(***************************************************************************)
(* FsmWipers with counters of compute_wipers() calls, which the code does  *)
(* not keep: they give its promises in cycles.                             *)
(***************************************************************************)
EXTENDS FsmWipers

VARIABLES
  waited,         \* calls in a row that left the automaton in WAIT
  wipeIgnored,    \* calls in a row that saw only the wipers commanded, and did not wipe
  washIgnored     \* calls in a row that saw the washer commanded, and did not wash

monitor == <<waited, wipeIgnored, washIgnored>>

mvars == <<vars, monitor>>

\* The counters saturate here, above every bound claimed of them.
Saturation == TIMER_MAX + 2

Count(c, event) == IF ~event THEN 0 ELSE IF c = Saturation THEN c ELSE c + 1

MonitorTypeOK ==
  /\ TypeOK
  /\ waited \in 0 .. Saturation
  /\ wipeIgnored \in 0 .. Saturation
  /\ washIgnored \in 0 .. Saturation

MonitorInit == Init /\ waited = 0 /\ wipeIgnored = 0 /\ washIgnored = 0

\* What a call of compute_wipers() is counted as.
Counted ==
  /\ waited' = Count(waited, fsm' = WAIT)
  /\ wipeIgnored' = Count(wipeIgnored, wipers_in /\ ~washer_fluid_in /\ ~wipers_out')
  /\ washIgnored' = Count(washIgnored, washer_fluid_in /\ ~washer_fluid_out')

MonitorCompute == Compute_wipers /\ Counted

MonitorNext == (Decode_commodos /\ UNCHANGED monitor) \/ MonitorCompute

MonitorSpec == MonitorInit /\ [][MonitorNext]_mvars

FairMonitorSpec == MonitorSpec /\ WF_mvars(MonitorCompute)

-----------------------------------------------------------------------------
\* After a wash the windscreen is left alone for WAITING_DELAY + 1 calls, neither
\* more nor less: WAIT is left for OFF exactly then, and cut short by a wash only.
WaitIsExact ==
  [][fsm = WAIT /\ fsm' # WAIT =>
       \/ fsm' = OFF /\ waited = WAITING_DELAY + 1
       \/ fsm' = WASH /\ washer_fluid_in /\ waited <= WAITING_DELAY]_mvars

\* A wiping command is ignored (in WAIT, which it does not leave, and in the call
\* that times out) for WAITING_DELAY + 2 calls at most.
WipeServedInTime == wipeIgnored <= WAITING_DELAY + 2

\* A washing command is ignored for at most one call: the one whose event is the
\* timeout, which hides the command.
WashServedInTime == washIgnored <= 1

\* The strengthening the three are proved from.
WipersInv ==
  /\ MonitorTypeOK
  /\ IF fsm = WAIT THEN timer = waited /\ timer \in 1 .. WAITING_DELAY + 1
                   ELSE waited = 0
  /\ wipeIgnored > 0 => \/ fsm = WAIT /\ wipeIgnored <= timer
                        \/ fsm = OFF /\ wipeIgnored <= WAITING_DELAY + 2
  /\ washIgnored > 0 => fsm = OFF /\ washIgnored = 1
=============================================================================
