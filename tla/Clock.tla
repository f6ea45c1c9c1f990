------------------------------- MODULE Clock ---------------------------------
(****************************************************************************)
(* sync_time of libraries/Casan/time.c: a time value of twice the width of  *)
(* the hardware counter, kept up to date by looking at the counter from     *)
(* time to time.  The counter rolls over; the value must not.               *)
(*                                                                          *)
(* A time is written [high, low] as TIME_HIGH and TIME_LOW split it.        *)
(* Several variables are synchronized, each at its own pace: curtime at     *)
(* every turn of loop(), timelast of a queued message at every              *)
(* retransmission.                                                          *)
(****************************************************************************)
EXTENDS Integers

CONSTANTS
    W,        \* number of values of the counter: 2^32 for clock_time()
    Vars,     \* the time variables the program synchronizes
    MaxGap,   \* longest time between two synchronizations of a variable
    Rollovers \* bound on the rollovers of the counter

\* time.h: "time synchronization cannot work if calls to this function are
\* spaced with more than ~50 days", that is a whole turn of the counter.
ASSUME ClockAssumption ==
    W \in Nat \ {0} /\ MaxGap \in 0..(W - 1) /\ Rollovers \in Nat

VARIABLES
    hw,    \* elapsed time: the counter, hw.low, and how often it rolled over
    time,  \* the value of each variable
    seen,  \* history: the elapsed time when the variable was synchronized
    gap    \* history: the time since then

clockvars == <<hw, time, seen, gap>>

Stamp == [high: Nat, low: 0..(W - 1)]

\* Faulty: without the rollover.
FaultySyncTime(cur, ms) == [cur EXCEPT !.low = ms]

\* clock_time() only shows the low part of the elapsed time.
SyncTime(cur, ms) ==
    [high |-> IF ms < cur.low THEN cur.high + 1 ELSE cur.high, low |-> ms]

----------------------------------------------------------------------------

\* initCasan sets curtime to 0; the program starts before the first rollover.
ClockInit ==
    /\ hw = [high |-> 0, low |-> 0]
    /\ time = [v \in Vars |-> [high |-> 0, low |-> 0]]
    /\ seen = time
    /\ gap = [v \in Vars |-> 0]

\* One unit of time passes.
Tick ==
    /\ \A v \in Vars : gap[v] < MaxGap
    /\ IF hw.low = W - 1
       THEN hw.high < Rollovers /\ hw' = [high |-> hw.high + 1, low |-> 0]
       ELSE hw' = [hw EXCEPT !.low = @ + 1]
    /\ gap' = [v \in Vars |-> gap[v] + 1]
    /\ UNCHANGED <<time, seen>>

Sync(v) ==
    /\ time' = [time EXCEPT ![v] = SyncTime(@, hw.low)]
    /\ seen' = [seen EXCEPT ![v] = hw]
    /\ gap'  = [gap EXCEPT ![v] = 0]
    /\ UNCHANGED hw

ClockNext == Tick \/ \E v \in Vars : Sync(v)

ClockSpec == ClockInit /\ [][ClockNext]_clockvars

----------------------------------------------------------------------------
(* Properties.                                                              *)

ClockTypeOK ==
    /\ hw \in Stamp
    /\ time \in [Vars -> Stamp]
    /\ seen \in [Vars -> Stamp]
    /\ gap \in [Vars -> 0..MaxGap]

\* A synchronized variable holds the elapsed time of its synchronization,
\* high part included, although sync_time only ever saw the counter.
Exact == time = seen

Before(s, t) == s.high < t.high \/ (s.high = t.high /\ s.low <= t.low)

\* No synchronization sets a variable back, even across a rollover of the
\* counter, so that a timepoint once passed stays passed.
NeverBack == [][\A v \in Vars : Before(time[v], time'[v])]_clockvars

=============================================================================
