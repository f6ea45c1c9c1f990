------------------------------ MODULE MCOptions ------------------------------
(* Values on both sides of the size of staticval_, for TLC. *)
EXTENDS Options, TLC

CONSTANTS h1, h2, b1, b2, b3, b4

TwoHandles  == {h1, h2}
FourBlocks  == {b1, b2, b3, b4}
Symmetry    == Permutations(TwoHandles) \cup Permutations(FourBlocks)

\* MO_Etag, which is not empty, and MO_Content_Format.
SomeCodes   == {4, 12}
EtagOnly    == {4}

\* The longest static value, the shortest other one, and another.
SomeValues  == {[len |-> 8, data |-> "a"], [len |-> 9, data |-> "b"],
                [len |-> 300, data |-> "c"]}
=============================================================================
