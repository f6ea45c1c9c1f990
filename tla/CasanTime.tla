------------------------------ MODULE CasanTime ------------------------------
(****************************************************************************)
(* The two timers of the CASAN engine (libraries/Casan/time.c).             *)
(*                                                                          *)
(* A timer only keeps timepoints: it is asked, at each turn of the engine   *)
(* loop, whether its event is due.  Times are naturals; time.c keeps them   *)
(* in 64 bits, and module Clock shows how sync_time extends the 32-bit      *)
(* hardware counter to such a time.                                         *)
(*                                                                          *)
(* Definitions named Faulty... in this project are variants with a bug, of  *)
(* the definition that follows them.  No specification uses them: they are  *)
(* substituted by hand to see that the properties tell them apart.          *)
(****************************************************************************)
EXTENDS Integers

CONSTANTS
    TIMER_WAIT_START,    \* first delay between two Discovers
    TIMER_WAIT_INC,      \* growth of that delay
    TIMER_WAIT_INC_MAX,  \* its upper bound
    TIMER_WAIT_MAX,      \* how long a slave waits for a known master
    TIMER_RENEW_MIN      \* smallest delay between two renewal Discovers

ASSUME TimerAssumption ==
    {TIMER_WAIT_START, TIMER_WAIT_INC, TIMER_WAIT_INC_MAX,
     TIMER_WAIT_MAX, TIMER_RENEW_MIN} \subseteq Nat \ {0}

Time == Nat

\* Twait and Trenew have the same fields (mid_ of Trenew is never used).
Timer == [next: Time, inc: Time, limit: Time]

\* A timer field of the engine before its first initTwait or initTrenew: the
\* C pointer is uninitialised, and -1 is no timepoint.
NoTimer == [next |-> -1, inc |-> -1, limit |-> -1]

\* What both next...() functions test, and what the expired...() ones test.
Due(timer, cur) == cur >= timer.next

FaultyExpired(timer, cur) == cur > timer.limit  \* one unit late
Expired(timer, cur) == cur >= timer.limit

----------------------------------------------------------------------------
(* Twait: Discovers of a slave which is not associated.                     *)

InitTwait(cur) ==
    [next  |-> cur + TIMER_WAIT_START,
     inc   |-> TIMER_WAIT_START,
     limit |-> cur + TIMER_WAIT_MAX]

\* The timer after a call of nextTwait which answered true.
AdvanceTwait(tw) ==
    LET grown == tw.inc + TIMER_WAIT_INC
        inc   == IF grown > TIMER_WAIT_INC_MAX THEN TIMER_WAIT_INC_MAX ELSE grown
    IN  [tw EXCEPT !.inc = inc, !.next = @ + inc]

----------------------------------------------------------------------------
(* Trenew: the association of a slave, and its renewal from half time on.   *)

\* Faulty: the renewal begins when it is too late.
FaultyInitTrenew(cur, sttl) ==
    [next |-> cur + sttl, inc |-> sttl \div 2, limit |-> cur + sttl]

InitTrenew(cur, sttl) ==
    [next  |-> cur + (sttl \div 2),
     inc   |-> sttl \div 2,
     limit |-> cur + sttl]

\* Faulty: without the smallest delay.
FaultyAdvanceTrenew(tr) ==
    LET half == tr.inc \div 2 IN [tr EXCEPT !.inc = half, !.next = @ + half]

\* The timer after a call of nextTrenew which answered true.
AdvanceTrenew(tr) ==
    LET half == tr.inc \div 2
        inc  == IF half <= TIMER_RENEW_MIN THEN TIMER_RENEW_MIN ELSE half
    IN  [tr EXCEPT !.inc = inc, !.next = @ + inc]

=============================================================================
