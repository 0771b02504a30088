-------------------------- MODULE BlinkersMonitor ---------------------------
(***************************************************************************)
(* FsmBlinkers with counters of compute_<blinker>() calls per blinker,     *)
(* which the code does not keep: they give its promises in cycles.         *)
(* Whether an answer came is recorded where it arrives, apart from the     *)
(* flag that the code keeps of it.                                         *)
(***************************************************************************)
EXTENDS FsmBlinkers

VARIABLES
  answered,       \* the BGF's answer was decoded since the blinker's last call
  unconfirmed,    \* calls in a row that left the blinker driven and unacknowledged
  refused,        \* calls in a row that left the blinker in OFF in spite of a command,
                  \* with no answer since the call before
  unanswered      \* calls in a row that saw a command, with no answer since the one before

counters == <<unconfirmed, refused, unanswered>>

monitor == <<answered, counters>>

mvars == <<vars, monitor>>

\* The counters saturate here, above every bound claimed of them.
Saturation == TIMER_MAX + 2

Count(c, event) == IF ~event THEN 0 ELSE IF c = Saturation THEN c ELSE c + 1

MonitorTypeOK ==
  /\ TypeOK
  /\ answered \in [Blinkers -> BOOLEAN]
  /\ unconfirmed \in [Blinkers -> 0 .. Saturation]
  /\ refused \in [Blinkers -> 0 .. Saturation]
  /\ unanswered \in [Blinkers -> 0 .. Saturation]

MonitorInit ==
  /\ Init
  /\ answered = [b \in Blinkers |-> FALSE]
  /\ unconfirmed = [b \in Blinkers |-> 0]
  /\ refused = [b \in Blinkers |-> 0]
  /\ unanswered = [b \in Blinkers |-> 0]

\* What a call of compute_<blinker>() is counted as.
Counted(b) ==
  /\ unconfirmed' = [unconfirmed EXCEPT ![b] = Count(@, fsm'[b] = ACTIVE_ON)]
  /\ refused' = [refused EXCEPT
                   ![b] = Count(@, fsm'[b] = OFF /\ Commanded(b) /\ ~answered[b])]
  /\ unanswered' = [unanswered EXCEPT ![b] = Count(@, Commanded(b) /\ ~answered[b])]
  /\ answered' = [answered EXCEPT ![b] = FALSE]

\* An answer's arrival.
Answered(b) ==
  /\ answered' = [answered EXCEPT ![b] = TRUE]
  /\ UNCHANGED counters

MonitorCompute(b) == Compute(b) /\ Counted(b)

MonitorNext ==
  \/ Decode_commodos /\ UNCHANGED monitor
  \/ \E b \in Blinkers : Decode_bgf(b) /\ Answered(b)
  \/ \E b \in Blinkers : MonitorCompute(b)

MonitorSpec == MonitorInit /\ [][MonitorNext]_mvars

-----------------------------------------------------------------------------
\* A driven blinker whose acknowledgement does not come is given up after at most
\* ACKNOWLEDGEMENT_DELAY + 1 calls, on its own command or on the warnings'.
FaultDetectedInTime ==
  \A b \in Blinkers : unconfirmed[b] <= ACKNOWLEDGEMENT_DELAY + 1

\* The timer that runs on in OFF can make compute_<blinker>() ignore a command, but
\* for no more calls than the timer has values above the delay; an answer to an OFF
\* frame can, in the call that follows it and in none after that.
RefusalBounded ==
  \A b \in Blinkers : refused[b] <= TIMER_MAX - ACKNOWLEDGEMENT_DELAY

\* Commanded, by its own lever or by the warnings, and not answered for more calls in
\* a row than the timer has values, a blinker is confirmed or given up: the command
\* may move from one of the two to the other meanwhile.
SettledInTime ==
  \A b \in Blinkers :
    unanswered[b] > TIMER_MAX + 1 => fsm[b] \in {ACTIVE_ON_ACKNOWLEDGED, ERROR}

-----------------------------------------------------------------------------
\* The blinkers implement supervised lamps just as the lights do: lit is steadily
\* lit.  The two dark phases, which are not reached, are mapped to "dark".
Phase(state) == CASE state \in {OFF, ACTIVE_OFF, ACTIVE_OFF_ACKNOWLEDGED} -> "dark"
                  [] state = ACTIVE_ON              -> "lit"
                  [] state = ACTIVE_ON_ACKNOWLEDGED -> "confirmed"
                  [] state = ERROR                  -> "failed"

Lamp == INSTANCE SupervisedLamp WITH
  Lamps     <- Blinkers,
  Deadline  <- ACKNOWLEDGEMENT_DELAY,
  requested <- [b \in Blinkers |-> Commanded(b)],
  phase     <- [b \in Blinkers |-> Phase(fsm[b])],
  watch     <- [b \in Blinkers |-> IF fsm[b] = ACTIVE_ON THEN timer[b] ELSE 0]

\* Every step of the blinkers is a step of the supervised lamps, or changes none: a
\* commanded blinker goes dark by a fault only, and a confirmed one not at all.
ImplementsSupervisedLamp == Lamp!Spec

\* The strengthening the properties above are proved from.  An acknowledgement is kept
\* until the blinker's next call and no longer.  A blinker is driven in its two Shining
\* states and is in neither dark phase.  In ACTIVE_ON the timer is the count of
\* unconfirmed calls; in OFF it is ahead of the refused calls by more than the delay,
\* or has just wrapped and lets the next command in; and no call without an answer goes
\* uncounted in either.
BlinkerInv(b) ==
  /\ acknowledgement[b] = answered[b]
  /\ fsm[b] \notin {ACTIVE_OFF, ACTIVE_OFF_ACKNOWLEDGED}
  /\ out[b] <=> fsm[b] \in Shining
  /\ IF fsm[b] = ACTIVE_ON THEN /\ timer[b] = unconfirmed[b]
                                /\ timer[b] \in 1 .. ACKNOWLEDGEMENT_DELAY + 1
                           ELSE unconfirmed[b] = 0
  /\ refused[b] > 0 =>
       /\ fsm[b] = OFF
       /\ \/ timer[b] > ACKNOWLEDGEMENT_DELAY + refused[b]
          \/ timer[b] = 0 /\ refused[b] <= TIMER_MAX - ACKNOWLEDGEMENT_DELAY
  /\ fsm[b] = OFF => unanswered[b] = refused[b]
  /\ fsm[b] = ACTIVE_ON =>
       unanswered[b] <= TIMER_MAX - ACKNOWLEDGEMENT_DELAY + unconfirmed[b]

BlinkersInv == MonitorTypeOK /\ \A b \in Blinkers : BlinkerInv(b)
=============================================================================
