------------------------------- MODULE MCBcgv -------------------------------
(***************************************************************************)
(* What the commodos and the MUX are made to send in the runs of the body  *)
(* controller.                                                             *)
(***************************************************************************)
EXTENDS Bcgv

\* Lights, blinkers and wipers are switched on and off again, a blinker by its own lever,
\* by the warnings and by one after the other.
Changing == { {"headlights", "left_blinker"}, {"sidelights", "warnings", "wipers"} }

Idle == { {} }

\* A vehicle with nothing to report but little fuel.
Quiet ==
  { [mileage |-> <<0, 0, 1, 0>>, speed |-> 50, frame_flags |-> {}, motor_flags |-> {},
     tank_level |-> 4, motor_speed |-> <<0, 0, 0, 9>>, battery_flags |-> {}] }

\* The levels on both sides of the threshold and of the domain, motor speeds of one and
\* two bytes and out of the domain, and every flag up without its neighbours.
Reports ==
  Quiet \cup
  { [mileage |-> <<127, 1, 200, 255>>, speed |-> 255, frame_flags |-> {0}, motor_flags |-> {1},
     tank_level |-> 41, motor_speed |-> <<0, 0, 39, 16>>, battery_flags |-> {1}],
    [mileage |-> <<0, 255, 0, 3>>, speed |-> 0, frame_flags |-> {1}, motor_flags |-> {0, 2},
     tank_level |-> 5, motor_speed |-> <<0, 0, 39, 17>>, battery_flags |-> {0}],
    [mileage |-> <<0, 0, 0, 7>>, speed |-> 1, frame_flags |-> {2, 7}, motor_flags |-> {2, 3},
     tank_level |-> 40, motor_speed |-> <<1, 0, 0, 5>>, battery_flags |-> {2}] }
=============================================================================
