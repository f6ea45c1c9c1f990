---------------------------- MODULE Retrans_proofs ----------------------------
(****************************************************************************)
(* Proofs about the retransmission list of module Retrans, for every set of *)
(* messages, timeout, number of retransmissions and horizon.                *)
(*                                                                          *)
(* Two things are assumed of the environment, and named: loop() is called   *)
(* at least once in a TIMEOUT, and the clock is far from its last value.    *)
(* The argument follows one message from a transmission to the next: the    *)
(* interval between timelast and timenext doubles, less what the call that  *)
(* sent it was late, and timenext is at most the sum of the timeouts later  *)
(* than the first transmission.                                             *)
(****************************************************************************)
EXTENDS Retrans, FiniteSetTheorems, TLAPS

Punctual == MaxGap <= TIMEOUT

\* The sum of all the timeouts, and of the one nobody waits for.
NoOverflow == Horizon + (2^(MAX_RETRANSMIT + 1) - 1) * TIMEOUT < W

\* The sum of the first n timeouts, and what is left of the next one when each
\* call of loop() has been as late as it may.
Sum(n) == (2^n - 1) * TIMEOUT
Least(n) == 2^n * (TIMEOUT - MaxGap) + MaxGap

\* An entry e whose message was sent first at time f, at time t when the last
\* call of loop() was at time l.
EntryOK(e, f, t, l) ==
    LET n == e.ntrans
        d == e.timenext - e.timelast
    IN  /\ e.timelast \in f..t
        /\ d >= Least(n) /\ d <= Sum(n) + TIMEOUT
        /\ e.timenext <= f + Sum(n + 1)
        /\ e.timelast <= f + Sum(n) + MaxGap
        /\ n < MAX_RETRANSMIT => l <= e.timenext
        /\ n = MAX_RETRANSMIT => l <= e.timelast

IInv ==
    /\ TypeOK
    /\ turn <= now /\ now <= turn + MaxGap
    /\ \A id \in DOMAIN retransq : EntryOK(retransq[id], first[id], now, turn)

----------------------------------------------------------------------------
(* Powers of two.                                                           *)

\* The subsets of a set with one element more are those without it and those
\* with it.
LEMMA PowerOfTwo ==
    ASSUME NEW n \in Nat
    PROVE  2^n \in Nat \ {0} /\ 2^(n + 1) = 2 * 2^n
<1>. DEFINE A == 1..n
            B == 1..(n + 1)
            With == {T \cup {n + 1} : T \in SUBSET A}
<1>1. /\ IsFiniteSet(A) /\ Cardinality(A) = n
      /\ IsFiniteSet(B) /\ Cardinality(B) = n + 1
    <2>1. /\ IsFiniteSet(A) /\ Cardinality(A) = IF 1 > n THEN 0 ELSE n - 1 + 1
          /\ IsFiniteSet(B) /\ Cardinality(B) = IF 1 > n + 1 THEN 0 ELSE (n + 1) - 1 + 1
        BY FS_Interval
    <2>. QED BY <2>1
<1>2. /\ IsFiniteSet(SUBSET A) /\ Cardinality(SUBSET A) = 2^n
      /\ Cardinality(SUBSET B) = 2^(n + 1)
    BY <1>1, FS_SUBSET
<1>3. SUBSET B = (SUBSET A) \cup With /\ (SUBSET A) \cap With = {}
    <2>1. n + 1 \notin A /\ B = A \cup {n + 1}
        OBVIOUS
    <2>2. ASSUME NEW T \in SUBSET B PROVE T \in (SUBSET A) \cup With
        <3>1. CASE n + 1 \in T
            <4>1. T \ {n + 1} \in SUBSET A /\ T = (T \ {n + 1}) \cup {n + 1}
                BY <2>1, <3>1
            <4>. QED BY <4>1
        <3>2. CASE n + 1 \notin T
            BY <2>1, <3>2
        <3>. QED BY <3>1, <3>2
    <2>. HIDE DEF A, B
    <2>3. With \subseteq SUBSET B /\ SUBSET A \subseteq SUBSET B
        BY <2>1
    <2>4. (SUBSET A) \cap With = {}
        BY <2>1
    <2>. HIDE DEF With
    <2>. QED BY <2>2, <2>3, <2>4
<1>4. IsFiniteSet(With) /\ Cardinality(With) = 2^n
    <2>. DEFINE g == [T \in SUBSET A |-> T \cup {n + 1}]
    <2>1. n + 1 \notin A
        OBVIOUS
    <2>. HIDE DEF A
    <2>2. g \in Bijection(SUBSET A, With)
        <3>1. g \in [SUBSET A -> With]
            OBVIOUS
        <3>2. \A T \in With : \E U \in SUBSET A : g[U] = T
            OBVIOUS
        <3>3. ASSUME NEW T \in SUBSET A, NEW U \in SUBSET A, g[T] = g[U]
              PROVE  T = U
            <4>1. T \cup {n + 1} = U \cup {n + 1}
                BY <3>3
            <4>. QED BY <2>1, <4>1
        <3>. HIDE DEF g, With
        <3>. QED BY <3>1, <3>2, <3>3 DEF Bijection, Injection, Surjection, IsInjective
    <2>3. ExistsBijection(SUBSET A, With)
        BY <2>2 DEF ExistsBijection
    <2>. QED BY <1>2, <2>3, FS_Bijection
<1>5. Cardinality(SUBSET B) =
        Cardinality(SUBSET A) + Cardinality(With) - Cardinality((SUBSET A) \cap With)
    <2>. HIDE DEF A, B, With
    <2>. QED BY <1>2, <1>3, <1>4, FS_Union
<1>6. Cardinality((SUBSET A) \cap With) = 0
    BY <1>3, FS_EmptySet
<1>7. 2^n \in Nat /\ 2^n # 0
    <2>. HIDE DEF A
    <2>1. Cardinality(SUBSET A) \in Nat
        BY <1>2, FS_CardinalityType
    <2>2. {} \in SUBSET A
        OBVIOUS
    <2>3. Cardinality(SUBSET A) # 0
        BY <1>2, <2>2, FS_EmptySet
    <2>. QED BY <1>2, <2>1, <2>3
<1>. HIDE DEF A, B, With
<1>. QED BY <1>2, <1>4, <1>5, <1>6, <1>7

LEMMA PowerOfZero == 2^0 = 1
<1>1. IsFiniteSet({}) /\ Cardinality({}) = 0
    BY FS_EmptySet
<1>2. Cardinality(SUBSET {}) = 2^0
    BY <1>1, FS_SUBSET
<1>3. SUBSET {} = {{}}
    OBVIOUS
<1>4. Cardinality({{}}) = 1
    BY FS_Singleton
<1>. QED BY <1>2, <1>3, <1>4

LEMMA PowersGrow ==
    ASSUME NEW m \in Nat, NEW n \in 0..m
    PROVE  2^n <= 2^m
<1>. DEFINE A == 1..n
            B == 1..m
<1>1. /\ IsFiniteSet(A) /\ Cardinality(A) = IF 1 > n THEN 0 ELSE n - 1 + 1
      /\ IsFiniteSet(B) /\ Cardinality(B) = IF 1 > m THEN 0 ELSE m - 1 + 1
    BY FS_Interval
<1>2. Cardinality(A) = n /\ Cardinality(B) = m
    BY <1>1
<1>3. SUBSET A \subseteq SUBSET B
    OBVIOUS
<1>. HIDE DEF A, B
<1>4. /\ Cardinality(SUBSET A) = 2^n
      /\ IsFiniteSet(SUBSET B) /\ Cardinality(SUBSET B) = 2^m
    BY <1>1, <1>2, FS_SUBSET
<1>5. Cardinality(SUBSET A) <= Cardinality(SUBSET B)
    BY <1>3, <1>4, FS_Subset
<1>. QED BY <1>4, <1>5

----------------------------------------------------------------------------
(* Sums of timeouts.                                                        *)

LEMMA Sums ==
    ASSUME NEW n \in Nat
    PROVE  /\ Sum(n) \in Nat /\ Sum(0) = 0
           /\ Sum(n + 1) = 2 * Sum(n) + TIMEOUT
<1>1. TIMEOUT \in Nat
    BY RetransAssumption
<1>. DEFINE p == 2^n
<1>2. p \in Nat \ {0} /\ 2^(n + 1) = 2 * p /\ 2^0 = 1
    BY PowerOfTwo, PowerOfZero
<1>. HIDE DEF p
<1>3. (2 * p - 1) * TIMEOUT = 2 * ((p - 1) * TIMEOUT) + TIMEOUT
    BY <1>1, <1>2
<1>4. (p - 1) * TIMEOUT \in Nat /\ (1 - 1) * TIMEOUT = 0
    BY <1>1, <1>2
<1>. QED BY <1>2, <1>3, <1>4 DEF Sum, p

LEMMA SumsGrow ==
    ASSUME NEW m \in Nat, NEW n \in 0..m
    PROVE  Sum(n) <= Sum(m)
<1>. DEFINE p == 2^n
            q == 2^m
<1>1. p \in Nat /\ q \in Nat /\ p <= q /\ TIMEOUT \in Nat
    BY PowerOfTwo, PowersGrow, RetransAssumption
<1>. HIDE DEF p, q
<1>2. (q - 1) * TIMEOUT = (p - 1) * TIMEOUT + (q - p) * TIMEOUT /\ (q - p) * TIMEOUT \in Nat
    BY <1>1
<1>3. (p - 1) * TIMEOUT \in Int
    BY <1>1
<1>. QED BY <1>2, <1>3 DEF Sum, p, q

LEMMA Leasts ==
    ASSUME Punctual, NEW n \in Nat
    PROVE  /\ Least(n) \in Nat /\ Least(n) >= MaxGap /\ Least(0) = TIMEOUT
           /\ Least(n + 1) = 2 * Least(n) - MaxGap
<1>. DEFINE p == 2^n
            x == TIMEOUT - MaxGap
<1>1. TIMEOUT \in Nat /\ MaxGap \in Nat /\ x \in Nat /\ x + MaxGap = TIMEOUT
    BY RetransAssumption DEF Punctual
<1>2. p \in Nat \ {0} /\ 2^(n + 1) = 2 * p /\ 2^0 = 1
    BY PowerOfTwo, PowerOfZero
<1>. HIDE DEF p, x
<1>3. (2 * p) * x = 2 * (p * x) /\ p * x \in Nat /\ 1 * x = x
    BY <1>1, <1>2
<1>4. Least(n) = p * x + MaxGap /\ Least(n + 1) = (2 * p) * x + MaxGap /\ Least(0) = 1 * x + MaxGap
    BY <1>2 DEF Least, p, x
<1>. QED BY <1>1, <1>3, <1>4

----------------------------------------------------------------------------
(* One message.                                                             *)

\* A message which has just been sent for the first time.
LEMMA NewEntryOK ==
    ASSUME Punctual, NoOverflow, NEW t \in 0..Horizon, NEW l \in 0..t,
           NEW e, e = [timelast |-> t, timenext |-> (t + TIMEOUT) % W, ntrans |-> 0]
    PROVE  e \in Entry /\ EntryOK(e, t, t, l)
<1>1. /\ TIMEOUT \in Nat \ {0} /\ MAX_RETRANSMIT \in Nat \ {0} /\ MaxGap \in Nat \ {0}
      /\ W \in Nat /\ Horizon \in Nat
    BY RetransAssumption
<1>2. Sum(0) = 0 /\ Sum(1) = TIMEOUT /\ Least(0) = TIMEOUT
    BY Sums, Leasts
<1>3. t + TIMEOUT < W
    <2>1. Sum(1) <= Sum(MAX_RETRANSMIT + 1) /\ Sum(MAX_RETRANSMIT + 1) \in Nat
        <3>. DEFINE m == MAX_RETRANSMIT + 1
        <3>1. m \in Nat /\ 1 \in 0..m
            BY <1>1
        <3>. HIDE DEF m
        <3>2. Sum(1) <= Sum(m) /\ Sum(m) \in Nat
            BY <3>1, SumsGrow, Sums
        <3>. QED BY <3>2 DEF m
    <2>2. Horizon + Sum(MAX_RETRANSMIT + 1) < W
        BY DEF NoOverflow, Sum
    <2>. QED BY <1>1, <1>2, <2>1, <2>2
<1>4. (t + TIMEOUT) % W = t + TIMEOUT
    BY <1>1, <1>3
<1>5. e = [timelast |-> t, timenext |-> t + TIMEOUT, ntrans |-> 0]
    BY <1>4
<1>6. e.timelast = t /\ e.timenext = t + TIMEOUT /\ e.ntrans = 0
    BY <1>5
<1>7. e \in Entry
    BY <1>1, <1>3, <1>5 DEF Entry
<1>. QED BY <1>1, <1>2, <1>6, <1>7 DEF EntryOK

\* A message stays as it is while the clock goes on.
LEMMA WaitingEntryOK ==
    ASSUME NEW f \in Nat, NEW t \in Nat, NEW l, NEW e \in Entry, EntryOK(e, f, t, l)
    PROVE  EntryOK(e, f, t + 1, l)
BY DEF EntryOK, Entry

\* At a call of loop() a message which is not due stays as it is.
LEMMA KeptEntryOK ==
    ASSUME now \in Nat, NEW f \in Nat, NEW l, NEW e \in Entry, EntryOK(e, f, now, l),
           ~Exhausted(e), ~DueAgain(e)
    PROVE  EntryOK(e, f, now, now)
<1>1. MAX_RETRANSMIT \in Nat /\ e.ntrans \in Nat /\ e.timenext \in Nat
    BY RetransAssumption DEF Entry
<1>2. e.ntrans < MAX_RETRANSMIT /\ e.ntrans # MAX_RETRANSMIT /\ now <= e.timenext
    BY <1>1 DEF Exhausted, DueAgain
<1>. QED BY <1>2 DEF EntryOK

\* A message which is due is sent again: the next interval is twice the last one
\* less what this call is late, and the sum of the timeouts is kept.
LEMMA SentAgainOK ==
    ASSUME Punctual, NoOverflow, now \in 0..Horizon, NEW f \in 0..now, NEW l \in Nat,
           now <= l + MaxGap, NEW e \in Entry, EntryOK(e, f, now, l), DueAgain(e)
    PROVE  /\ SentAgain(e) \in Entry /\ EntryOK(SentAgain(e), f, now, now)
           /\ now - e.timelast > Least(e.ntrans)
<1>. DEFINE n == e.ntrans
            d == e.timenext - e.timelast
            m == MAX_RETRANSMIT + 1
            next == e.timenext + 2 * d
<1>1. /\ TIMEOUT \in Nat \ {0} /\ MAX_RETRANSMIT \in Nat \ {0} /\ MaxGap \in Nat \ {0}
      /\ W \in Nat /\ Horizon \in Nat /\ now \in Nat /\ f \in Nat
    BY RetransAssumption
<1>2. e.timelast \in Nat /\ e.timenext \in Nat /\ n \in Nat
    BY DEF Entry
<1>3. n < MAX_RETRANSMIT /\ e.timenext < now
    BY <1>1, <1>2 DEF DueAgain, Exhausted
<1>4. n + 1 \in 0..MAX_RETRANSMIT /\ m \in Nat /\ n + 2 \in 0..m /\ (n + 1) + 1 = n + 2
    BY <1>1, <1>2, <1>3
<1>5. /\ e.timelast \in f..now /\ d >= Least(n) /\ d <= Sum(n) + TIMEOUT
      /\ e.timenext <= f + Sum(n + 1) /\ l <= e.timenext
    BY <1>3 DEF EntryOK
<1>6. /\ Sum(n) \in Nat /\ Sum(n + 1) = 2 * Sum(n) + TIMEOUT
      /\ Sum(n + 2) = 2 * Sum(n + 1) + TIMEOUT
    <2>. HIDE DEF n
    <2>1. n + 1 \in Nat
        BY <1>2
    <2>. QED BY <1>2, <1>4, <2>1, Sums
<1>7. Least(n) \in Nat /\ Least(n) >= MaxGap /\ Least(n + 1) = 2 * Least(n) - MaxGap
    <2>. HIDE DEF n
    <2>. QED BY <1>2, Leasts
<1>8. Least(n + 1) >= MaxGap
    BY <1>1, <1>7
<1>9. next \in Nat /\ next <= f + Sum(n + 2) /\ next < W
    <2>1. Sum(n + 2) <= Sum(m) /\ Sum(m) \in Nat
        <3>. DEFINE k == n + 2
        <3>. HIDE DEF k, m
        <3>1. Sum(k) <= Sum(m) /\ Sum(m) \in Nat
            BY <1>4, SumsGrow, Sums DEF k
        <3>. QED BY <3>1 DEF k
    <2>2. Horizon + Sum(m) < W
        BY DEF NoOverflow, Sum
    <2>. HIDE DEF n, m
    <2>3. d \in Nat
        BY <1>1, <1>2, <1>5, <1>7
    <2>4. next <= f + Sum(n + 2)
        BY <1>1, <1>2, <1>5, <1>6, <2>3
    <2>. QED BY <1>1, <1>2, <1>6, <2>1, <2>2, <2>3, <2>4
<1>10. SentAgain(e) = [timelast |-> now, timenext |-> next, ntrans |-> n + 1]
    <2>1. next % W = next
        <3>. HIDE DEF next
        <3>. QED BY <1>1, <1>9
    <2>. QED BY <2>1 DEF SentAgain
<1>11. now <= e.timenext + MaxGap
    BY <1>1, <1>2, <1>5
<1>12. next - now >= Least(n + 1) /\ next - now <= Sum(n + 1) + TIMEOUT
    <2>. HIDE DEF n
    <2>. QED BY <1>1, <1>2, <1>3, <1>5, <1>6, <1>7, <1>11
<1>13. now <= f + Sum(n + 1) + MaxGap
    <2>. HIDE DEF n
    <2>. QED BY <1>1, <1>2, <1>5, <1>6, <1>11
<1>14. now <= next
    <2>. HIDE DEF n, next
    <2>. QED BY <1>1, <1>7, <1>8, <1>9, <1>12
<1>. DEFINE s == SentAgain(e)
<1>15. s.timelast = now /\ s.timenext = next /\ s.ntrans = n + 1
    BY <1>10
<1>16. s \in Entry
    <2>1. now < W
        BY RetransAssumption
    <2>. HIDE DEF next, n
    <2>. QED BY <1>1, <1>4, <1>9, <1>10, <2>1 DEF Entry
<1>17. EntryOK(s, f, now, now)
    <2>. HIDE DEF s, n, next
    <2>. QED BY <1>1, <1>4, <1>9, <1>12, <1>13, <1>14, <1>15 DEF EntryOK
<1>18. now - e.timelast > Least(n)
    <2>. HIDE DEF n
    <2>. QED BY <1>1, <1>2, <1>3, <1>5, <1>7
<1>. QED BY <1>16, <1>17, <1>18

----------------------------------------------------------------------------
(* The invariant.                                                           *)

LEMMA InitOK == Init => IInv
BY RetransAssumption DEF Init, IInv, TypeOK, Empty

LEMMA TickOK == IInv /\ Tick => IInv'
<1>. SUFFICES ASSUME IInv, Tick PROVE IInv'
    OBVIOUS
<1>1. /\ now' = now + 1 /\ turn' = turn /\ retransq' = retransq /\ first' = first
      /\ master' = master /\ sent' = {} /\ now < Horizon /\ now < turn + MaxGap
    BY DEF Tick
<1>2. now \in Nat /\ turn \in Nat /\ Horizon \in Nat /\ MaxGap \in Nat
    BY RetransAssumption DEF IInv, TypeOK
<1>3. TypeOK'
    BY <1>1, <1>2 DEF IInv, TypeOK, Entry
<1>4. ASSUME NEW id \in DOMAIN retransq
      PROVE  EntryOK(retransq[id], first[id], now + 1, turn)
    <2>1. retransq[id] \in Entry /\ first[id] \in Nat /\ EntryOK(retransq[id], first[id], now, turn)
        BY <1>2 DEF IInv, TypeOK
    <2>. QED BY <1>2, <2>1, WaitingEntryOK
<1>. QED BY <1>1, <1>2, <1>3, <1>4 DEF IInv

LEMMA AddOK ==
    ASSUME Punctual, NoOverflow, IInv, NEW id \in Ids, AddRetrans(id)
    PROVE  IInv'
<1>. DEFINE e == [timelast |-> now, timenext |-> (now + TIMEOUT) % W, ntrans |-> 0]
<1>1. /\ now \in 0..Horizon /\ turn \in 0..now /\ turn \in Nat /\ now \in Nat
    BY RetransAssumption DEF IInv, TypeOK
<1>2. e \in Entry /\ EntryOK(e, now, now, turn)
    BY <1>1, NewEntryOK
<1>. HIDE DEF e
<1>3. /\ retransq' = [i \in DOMAIN retransq \cup {id} |-> IF i = id THEN e ELSE retransq[i]]
      /\ first' = [i \in DOMAIN first \cup {id} |-> IF i = id THEN now ELSE first[i]]
      /\ sent' = {} /\ now' = now /\ turn' = turn /\ master' = master
    BY DEF AddRetrans, e
<1>4. DOMAIN first = DOMAIN retransq /\ DOMAIN retransq \subseteq Ids
    BY DEF IInv, TypeOK
<1>5. ASSUME NEW i \in DOMAIN retransq'
      PROVE  /\ retransq'[i] \in Entry /\ first'[i] \in 0..now
             /\ EntryOK(retransq'[i], first'[i], now, turn)
    <2>1. CASE i = id
        BY <1>1, <1>2, <1>3, <1>4, <2>1
    <2>2. CASE i # id
        <3>1. i \in DOMAIN retransq /\ retransq'[i] = retransq[i] /\ first'[i] = first[i]
            BY <1>3, <1>4, <2>2
        <3>. QED BY <3>1 DEF IInv, TypeOK
    <2>. QED BY <2>1, <2>2
<1>6. TypeOK'
    BY <1>3, <1>4, <1>5 DEF IInv, TypeOK, Entry
<1>. QED BY <1>3, <1>5, <1>6 DEF IInv

\* What a call of loop() makes of a message it keeps.
LEMMA TurnEntryOK ==
    ASSUME Punctual, NoOverflow, IInv, NEW acked, Turn(acked), NEW id \in DOMAIN retransq'
    PROVE  /\ id \in DOMAIN retransq /\ retransq'[id] \in Entry
           /\ first'[id] = first[id] /\ EntryOK(retransq'[id], first[id], now, now)
<1>. DEFINE e == retransq[id]
<1>1. master /\ id \in DOMAIN Pass(retransq) /\ retransq'[id] = Pass(retransq)[id]
    BY DEF Turn, Without, LoopRetrans, Restrict, Empty
<1>2. /\ id \in DOMAIN retransq /\ ~Exhausted(e)
      /\ retransq'[id] = IF DueAgain(e) THEN SentAgain(e) ELSE e
    BY <1>1 DEF Pass
<1>3. first'[id] = first[id]
    BY <1>2 DEF Turn, Restrict, IInv, TypeOK
<1>4. /\ e \in Entry /\ first[id] \in 0..now /\ EntryOK(e, first[id], now, turn)
      /\ now \in 0..Horizon /\ now \in Nat /\ turn \in Nat /\ now <= turn + MaxGap
      /\ first[id] \in Nat
    BY <1>2, RetransAssumption DEF IInv, TypeOK
<1>. HIDE DEF e
<1>5. CASE DueAgain(e)
    BY <1>2, <1>3, <1>4, <1>5, SentAgainOK
<1>6. CASE ~DueAgain(e)
    BY <1>2, <1>3, <1>4, <1>6, KeptEntryOK
<1>. QED BY <1>5, <1>6

LEMMA TurnOK ==
    ASSUME Punctual, NoOverflow, IInv, NEW acked, Turn(acked)
    PROVE  IInv'
<1>1. /\ turn' = now /\ now' = now /\ master' \in BOOLEAN /\ sent' \subseteq DOMAIN retransq
      /\ now \in 0..Horizon /\ now \in Nat /\ MaxGap \in Nat
    BY RetransAssumption DEF Turn, IInv, TypeOK
<1>2. DOMAIN retransq' \subseteq DOMAIN retransq
    BY TurnEntryOK
<1>3. DOMAIN first' = DOMAIN retransq' /\ DOMAIN retransq \subseteq Ids
    <2>1. first' = Restrict(first, DOMAIN retransq')
        BY DEF Turn
    <2>. QED BY <1>2, <2>1 DEF IInv, TypeOK, Restrict
<1>4. ASSUME NEW id \in DOMAIN retransq'
      PROVE  /\ retransq'[id] \in Entry /\ first'[id] \in 0..now
             /\ EntryOK(retransq'[id], first'[id], now, now)
    BY <1>2, TurnEntryOK DEF IInv, TypeOK
<1>5. TypeOK'
    BY <1>1, <1>2, <1>3, <1>4 DEF TypeOK, Entry
<1>. QED BY <1>1, <1>4, <1>5 DEF IInv

LEMMA ResetOK == IInv /\ ResetRetrans => IInv'
BY DEF IInv, TypeOK, ResetRetrans, Empty, EntryOK

LEMMA NextOK ==
    ASSUME Punctual, NoOverflow, IInv, [Next]_vars
    PROVE  IInv'
<1>1. CASE Tick
    BY <1>1, TickOK
<1>2. ASSUME NEW id \in Ids, AddRetrans(id) PROVE IInv'
    BY <1>2, AddOK
<1>3. ASSUME NEW acked, Turn(acked) PROVE IInv'
    BY <1>3, TurnOK
<1>4. CASE ResetRetrans
    BY <1>4, ResetOK
<1>5. CASE UNCHANGED vars
    BY <1>5 DEF vars, IInv, TypeOK, EntryOK, Entry
<1>. QED BY <1>1, <1>2, <1>3, <1>4, <1>5 DEF Next

----------------------------------------------------------------------------
(* The theorems.                                                            *)

\* The list is a list of pending messages, and each of its entries is where its
\* retransmissions have brought it: IInv holds in every state.
THEOREM InvariantHolds ==
    ASSUME Punctual, NoOverflow
    PROVE  Spec => []IInv
<1>1. IInv /\ [Next]_vars => IInv'
    BY NextOK
<1>. QED BY <1>1, InitOK, PTL DEF Spec

\* Whatever the timeout and the number of retransmissions, no message stays in
\* the list much longer than the sum of its timeouts.
THEOREM MessagesLeave ==
    ASSUME Punctual, NoOverflow
    PROVE  Spec => []MessagesExpire
<1>1. ASSUME IInv, NEW id \in DOMAIN retransq
      PROVE  turn <= first[id] + (2^MAX_RETRANSMIT - 1) * TIMEOUT + MaxGap
    <2>. DEFINE e == retransq[id]
                f == first[id]
                n == e.ntrans
                m == MAX_RETRANSMIT
    <2>1. /\ e \in Entry /\ f \in Nat /\ EntryOK(e, f, now, turn)
          /\ turn \in Nat /\ now \in Nat /\ m \in Nat /\ MaxGap \in Nat
        BY <1>1, RetransAssumption DEF IInv, TypeOK
    <2>2. n \in 0..m /\ e.timelast \in Nat /\ e.timenext \in Nat
        BY <2>1 DEF Entry
    <2>. HIDE DEF f, e, m
    <2>3. /\ e.timenext <= f + Sum(n + 1) /\ e.timelast <= f + Sum(n) + MaxGap
          /\ n < m => turn <= e.timenext
          /\ n = m => turn <= e.timelast
        BY <2>1 DEF EntryOK, m
    <2>. HIDE DEF n
    <2>4. Sum(m) \in Nat /\ (n < m => Sum(n + 1) \in Nat /\ Sum(n + 1) <= Sum(m))
        <3>1. n < m => n + 1 \in 0..m /\ n + 1 \in Nat
            BY <2>1, <2>2
        <3>. QED BY <2>1, <3>1, Sums, SumsGrow
    <2>5. turn <= f + Sum(m) + MaxGap
        <3>1. CASE n < m
            BY <2>1, <2>2, <2>3, <2>4, <3>1
        <3>2. CASE n = m
            BY <2>1, <2>2, <2>3, <2>4, <3>2
        <3>. QED BY <2>1, <2>2, <3>1, <3>2
    <2>. QED BY <2>5 DEF Sum, f, m
<1>2. IInv => MessagesExpire
    BY <1>1 DEF MessagesExpire
<1>. QED BY <1>2, InvariantHolds, PTL

\* Whatever the timeout and the number of retransmissions, the intervals between
\* the transmissions of a message double, less what the calls of loop() are late.
THEOREM IntervalsDouble ==
    ASSUME Punctual, NoOverflow
    PROVE  Spec => BackoffKept
<1>. DEFINE Kept ==
         \A id \in sent' :
            now' - retransq[id].timelast >
               2^retransq[id].ntrans * (TIMEOUT - MaxGap) + MaxGap
<1>1. ASSUME IInv, NEW acked, Turn(acked) PROVE Kept
    <2>1. ASSUME NEW id \in sent'
          PROVE  now' - retransq[id].timelast > Least(retransq[id].ntrans)
        <3>1. id \in DOMAIN retransq /\ DueAgain(retransq[id]) /\ now' = now
            BY <1>1, <2>1 DEF Turn
        <3>2. /\ retransq[id] \in Entry /\ first[id] \in 0..now
              /\ EntryOK(retransq[id], first[id], now, turn)
              /\ now \in 0..Horizon /\ turn \in Nat /\ now <= turn + MaxGap
            BY <1>1, <3>1, RetransAssumption DEF IInv, TypeOK
        <3>. QED BY <3>1, <3>2, SentAgainOK
    <2>. QED BY <2>1 DEF Least
<1>2. ASSUME IInv, [Next]_vars PROVE [Kept]_vars
    <2>1. CASE sent' = {}
        BY <2>1
    <2>. HIDE DEF Kept
    <2>. QED BY <1>1, <1>2, <2>1 DEF Next, Tick, AddRetrans, ResetRetrans
<1>3. IInv /\ [Next]_vars => [Kept]_vars
    BY <1>2
<1>. QED BY <1>3, InvariantHolds, PTL DEF Spec, BackoffKept

=============================================================================
