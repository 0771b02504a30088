--------------------------- MODULE SupervisedLamp ---------------------------
(***************************************************************************)
(* What a supervised light promises, without the automaton's timer that    *)
(* runs and wraps in every state: a lamp is lit only on request, is put    *)
(* out as soon as the request is gone, and a lit lamp is confirmed, put    *)
(* out or declared failed within Deadline + 1 cycles of being lit.  When a *)
(* requested lamp is lit is left open.  A failed lamp stays failed.        *)
(***************************************************************************)
EXTENDS Integers

CONSTANTS Lamps, Deadline

VARIABLES requested, phase, watch    \* watch: cycles since the lamp was lit

vars == <<requested, phase, watch>>

Phases == {"dark", "lit", "confirmed", "failed"}

Init ==
  /\ requested = [l \in Lamps |-> FALSE]
  /\ phase = [l \in Lamps |-> "dark"]
  /\ watch = [l \in Lamps |-> 0]

Request ==
  /\ requested' \in [Lamps -> BOOLEAN]
  /\ UNCHANGED <<phase, watch>>

Become(l, p, w) ==
  /\ phase' = [phase EXCEPT ![l] = p]
  /\ watch' = [watch EXCEPT ![l] = w]
  /\ UNCHANGED requested

Light(l)   == phase[l] = "dark" /\ requested[l] /\ Become(l, "lit", 1)
Wait(l)    == phase[l] = "lit" /\ requested[l] /\ watch[l] <= Deadline
              /\ Become(l, "lit", watch[l] + 1)
Confirm(l) == phase[l] = "lit" /\ requested[l] /\ Become(l, "confirmed", 0)
Fail(l)    == phase[l] = "lit" /\ requested[l] /\ watch[l] = Deadline + 1
              /\ Become(l, "failed", 0)
Douse(l)   == phase[l] \in {"lit", "confirmed"} /\ ~requested[l] /\ Become(l, "dark", 0)

Next == Request \/ \E l \in Lamps : Light(l) \/ Wait(l) \/ Confirm(l) \/ Fail(l) \/ Douse(l)

Spec == Init /\ [][Next]_vars
=============================================================================
