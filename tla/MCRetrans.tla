----------------------------- MODULE MCRetrans -------------------------------
(* The retransmission list with two messages, for TLC. *)
EXTENDS Retrans

CONSTANTS i1, i2
TwoIds == {i1, i2}
=============================================================================
