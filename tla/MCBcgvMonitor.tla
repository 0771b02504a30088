--------------------------- MODULE MCBcgvMonitor ---------------------------
(***************************************************************************)
(* The runs of the body controller that count the automata's calls, with   *)
(* the inputs of MCBcgv.                                                   *)
(***************************************************************************)
EXTENDS BcgvMonitor, MCBcgv
=============================================================================
