------------------------------ MODULE MCCasan --------------------------------
(****************************************************************************)
(* Instances of Casan for TLC.  The timers are scaled down: a unit stands   *)
(* for half a second, and the maximal waiting times are shortened.          *)
(****************************************************************************)
EXTENDS Casan, TLC

\* Addresses, and the permutations of them: no definition orders addresses.
CONSTANTS m1, m2

OneMaster  == {m1}
TwoMasters == {m1, m2}
Symmetry   == Permutations(TwoMasters)

OneHelloId  == {7}
TwoHelloIds == {7, 8}

\* A TTL which is renewed once, and one which is renewed several times.
ShortTtl == {3}
BothTtls == {3, 8}

\* Below DiscoverMtu, usable, and above the default.
TwoMtus   == {3, 5}

OnTime == {0, 1}
Late   == {0, 1, 4}
=============================================================================
