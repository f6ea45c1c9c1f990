----------------------------- MODULE MCCasanNet ------------------------------
(* Instances of CasanNet for TLC, on the time scale of MCCasan. *)
EXTENDS CasanNet

CONSTANTS m1, m2

OneMaster == {m1}
TwoMasters == {m1, m2}
TwoHelloIds == {7, 8}
OneHelloId == {7}
SomeTtls == {4}
OneMtu == {5}
Regular == {1, 2}
=============================================================================
