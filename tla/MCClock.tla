------------------------------ MODULE MCClock --------------------------------
(* Clock with a small counter, for TLC. *)
EXTENDS Clock

CONSTANTS curtime, timelast
TwoVars == {curtime, timelast}
=============================================================================
