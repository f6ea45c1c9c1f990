------------------------------ MODULE MCConMsg -------------------------------
(* The ring of buffers with few buffers, for TLC. *)
EXTENDS ConMsg

CONSTANTS f1, f2, f3
ThreeFrames == {f1, f2, f3}
=============================================================================
