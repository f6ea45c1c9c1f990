----------------------------- MODULE Codec_proofs -----------------------------
(****************************************************************************)
(* The encoding of a message, for all tokens, options, payloads and sizes.  *)
(*                                                                          *)
(* push_option opens one place in a sorted list (PushPlace); so the list is *)
(* always a permutation of the pushed options that keeps the order of those *)
(* with the same code (Follows).  The sums of coap_size and the             *)
(* concatenations of coap_encode are functions that follow their own values *)
(* (Recursion), and grow alike: that gives the place at[k] where the k-th   *)
(* option ends (Layout).  The receiver, when it has read k options, is at   *)
(* that place (Reads), and finds the next option there (OptionRead), or the *)
(* payload.                                                                 *)
(****************************************************************************)
EXTENDS Codec, SequenceTheorems, WellFoundedInduction, TLAPS

----------------------------------------------------------------------------
(* Induction and recursion up to a number.                                  *)

\* What holds of 0 and is passed on holds up to n.
LEMMA UpTo ==
    ASSUME NEW n \in Nat, NEW S, 0 \in S,
           \A k \in 0..(n - 1) : k \in S => k + 1 \in S
    PROVE  \A k \in 0..n : k \in S
<1>. DEFINE I == {k \in 0..n : k \notin S}
<1>. SUFFICES ASSUME I # {} PROVE FALSE
    OBVIOUS
<1>1. I \subseteq Nat
    OBVIOUS
<1>2. PICK x \in I : \A y \in I : ~(<<y, x>> \in OpToRel(<, Nat))
    <2>. HIDE DEF I
    <2>. QED BY <1>1, NatLessThanWellFounded, WFMin, Zenon
<1>3. x \in 0..n /\ x \notin S /\ \A y \in I : ~(y < x)
    <2>1. x \in Nat /\ \A y \in I : y \in Nat
        BY <1>1
    <2>. HIDE DEF I
    <2>2. \A y \in I : ~(y < x)
        BY <1>2, <2>1 DEF OpToRel
    <2>. QED BY <2>2 DEF I
<1>4. x - 1 \in 0..(n - 1) /\ x - 1 \in 0..n
    BY <1>3
<1>5. x - 1 \in S
    BY <1>3, <1>4
<1>. QED BY <1>3, <1>4, <1>5

\* A function defined from its value before.
Steps(T, n) == [T \X (1..n) -> T]
Iterates(g, base, step, n) ==
    g[0] = base /\ \A k \in 1..n : g[k] = step[<<g[k - 1], k>>]

LEMMA Recursion ==
    ASSUME NEW n \in Nat, NEW T, NEW base \in T, NEW step \in Steps(T, n)
    PROVE  \E g \in [0..n -> T] : Iterates(g, base, step, n)
<1>. USE DEF Steps
<1>. DEFINE Is(g, m) == g[0] = base /\ \A k \in 1..m : g[k] = step[<<g[k - 1], k>>]
            S == {m \in 0..n : \E g \in [0..m -> T] : Is(g, m)}
<1>1. 0 \in S
    <2>. DEFINE g == [k \in 0..0 |-> base]
    <2>1. g \in [0..0 -> T] /\ Is(g, 0)
        OBVIOUS
    <2>. HIDE DEF g, Is
    <2>2. 0 \in 0..n /\ \E f \in [0..0 -> T] : Is(f, 0)
        BY <2>1
    <2>. QED BY <2>2
<1>2. ASSUME NEW m \in 0..(n - 1), m \in S PROVE m + 1 \in S
    <2>1. PICK g \in [0..m -> T] : Is(g, m)
        BY <1>2
    <2>. DEFINE v == step[<<g[m], m + 1>>]
                h == [k \in 0..(m + 1) |-> IF k = m + 1 THEN v ELSE g[k]]
    <2>2. v \in T
        BY <2>1
    <2>. HIDE DEF v
    <2>3. h \in [0..(m + 1) -> T]
        BY <2>2
    <2>4. /\ h[m + 1] = v /\ \A k \in 0..m : h[k] = g[k]
        OBVIOUS
    <2>. HIDE DEF h
    <2>5. ASSUME NEW k \in 1..(m + 1) PROVE h[k] = step[<<h[k - 1], k>>]
        <3>1. k - 1 \in 0..m /\ h[k - 1] = g[k - 1]
            BY <2>4
        <3>2. CASE k = m + 1
            BY <2>4, <3>1, <3>2 DEF v
        <3>3. CASE k # m + 1
            <4>1. k \in 1..m /\ k \in 0..m
                BY <3>3
            <4>. QED BY <2>1, <2>4, <3>1, <4>1
        <3>. QED BY <3>2, <3>3
    <2>6. h[0] = base
        BY <2>1, <2>4
    <2>. QED BY <2>3, <2>5, <2>6
<1>3. n \in S
    <2>. HIDE DEF S
    <2>. QED BY <1>1, <1>2, UpTo
<1>. QED BY <1>3 DEF Iterates

\* The first number of a set.
LEMMA Smallest ==
    ASSUME NEW I, I \subseteq Nat, I # {}
    PROVE  Min(I) \in I /\ \A y \in I : Min(I) <= y
<1>1. PICK x \in I : \A y \in I : ~(<<y, x>> \in OpToRel(<, Nat))
    BY NatLessThanWellFounded, WFMin, Zenon
<1>2. \A y \in I : ~(y < x)
    BY <1>1 DEF OpToRel
<1>3. \A y \in I : x <= y
    BY <1>2
<1>4. \E z \in I : \A y \in I : z <= y
    BY <1>3
<1>. QED BY <1>4 DEF Min

----------------------------------------------------------------------------
(* The list of options.                                                     *)

Sorted(list) == \A j, k \in 1..Len(list) : j < k => list[j].code <= list[k].code

\* Where the options of a list are in the order of their push_option.
Follows(list, push, place) ==
    /\ place \in [1..Len(list) -> 1..Len(push)] /\ Len(push) = Len(list)
    /\ \A k \in 1..Len(list) : list[k] = push[place[k]]
    /\ \A j, k \in 1..Len(list) :
          j < k => /\ list[j].code <= list[k].code /\ place[j] # place[k]
                   /\ list[j].code = list[k].code => place[j] < place[k]
    /\ \A m \in 1..Len(push) : \E k \in 1..Len(list) : place[k] = m

LEMMA CodeType == \A x \in Code : x \in Nat /\ x <= 65535
BY DEF Code

LEMMA OptionType ==
    ASSUME NEW o \in Option
    PROVE  /\ o.code \in Code /\ o.code \in Nat /\ o.val \in Seq(Byte) /\ Len(o.val) \in Nat
           /\ o = [code |-> o.code, val |-> o.val]
<1>1. o.code \in Code /\ o.val \in Seq(Byte) /\ o = [code |-> o.code, val |-> o.val]
    BY DEF Option
<1>2. Len(o.val) \in Nat
    BY <1>1
<1>3. o.code \in Nat
    BY <1>1, CodeType
<1>. QED BY <1>1, <1>2, <1>3

\* push_option opens a place in the list, behind the options whose codes are not
\* greater.
LEMMA PushPlace ==
    ASSUME NEW list \in Seq(Option), NEW o \in Option, Sorted(list)
    PROVE  /\ PushOption(list, o) \in Seq(Option)
           /\ Len(PushOption(list, o)) = Len(list) + 1
           /\ \E p \in 1..(Len(list) + 1) :
                /\ \A k \in 1..Len(list) : k < p <=> list[k].code <= o.code
                /\ \A k \in 1..(Len(list) + 1) :
                      PushOption(list, o)[k] =
                         IF k < p THEN list[k] ELSE IF k = p THEN o ELSE list[k - 1]
<1>. DEFINE I == {k \in 1..Len(list) : list[k].code > o.code}
            place == SelectInSeq(list, LAMBDA p : p.code > o.code)
            t == PushOption(list, o)
            n == Len(list)
<1>1. place = IF I # {} THEN Min(I) ELSE 0
    BY DEF SelectInSeq
<1>2. I # {} => Min(I) \in I /\ \A y \in I : Min(I) <= y
    <2>1. I \subseteq Nat
        OBVIOUS
    <2>. HIDE DEF I
    <2>. QED BY <2>1, Smallest
<1>3. t = IF place = 0 THEN Append(list, o) ELSE InsertAt(list, place, o)
    BY DEF PushOption
<1>4. /\ n \in Nat /\ o.code \in Nat /\ \A k \in 1..n : list[k].code \in Nat
      /\ place = 0 \/ place \in 1..n
    <2>1. \A k \in 1..n : list[k] \in Option
        OBVIOUS
    <2>2. place = 0 \/ place \in 1..n
        BY <1>1, <1>2
    <2>. HIDE DEF place
    <2>. QED BY <2>1, <2>2, OptionType
<1>5. \A k \in 1..n : k \in I <=> list[k].code > o.code
    OBVIOUS
<1>6. place = 0 => \A k \in 1..n : list[k].code <= o.code
    <2>1. place = 0 => I = {}
        BY <1>1, <1>2
    <2>. QED BY <1>4, <1>5, <2>1
<1>7. place # 0 => \A k \in 1..n : k < place <=> list[k].code <= o.code
    <2>1. SUFFICES ASSUME place # 0, NEW k \in 1..n
                   PROVE  k < place <=> list[k].code <= o.code
        BY Zenon
    <2>2. place \in I /\ \A y \in I : place <= y
        BY <1>1, <1>2, <2>1
    <2>. HIDE DEF place, I
    <2>3. list[place].code > o.code /\ place \in 1..n
        BY <1>4, <1>5, <2>1, <2>2
    <2>4. k < place => list[k].code <= o.code
        BY <1>4, <1>5, <2>2, <2>3
    <2>5. k > place => list[place].code <= list[k].code
        BY <2>3 DEF Sorted
    <2>. QED BY <1>4, <2>3, <2>4, <2>5
<1>. HIDE DEF place, t, I
<1>8. CASE place = 0
    <2>1. t = Append(list, o)
        BY <1>3, <1>8
    <2>2. /\ t \in Seq(Option) /\ Len(t) = n + 1
          /\ \A k \in 1..(n + 1) :
                t[k] = IF k < n + 1 THEN list[k] ELSE IF k = n + 1 THEN o ELSE list[k - 1]
        BY <2>1
    <2>3. \A k \in 1..n : k < n + 1 <=> list[k].code <= o.code
        BY <1>4, <1>6, <1>8
    <2>4. n + 1 \in 1..(n + 1)
        BY <1>4
    <2>. HIDE DEF n
    <2>. QED BY <2>2, <2>3, <2>4 DEF t, n
<1>9. CASE place # 0
    <2>. DEFINE a == SubSeq(list, 1, place - 1)
                c == SubSeq(list, place, Len(list))
                b == a \o <<o>>
    <2>1. place \in 1..n
        BY <1>4, <1>9
    <2>2. a \in Seq(Option) /\ Len(a) = place - 1 /\ \A k \in 1..(place - 1) : a[k] = list[k]
        BY <2>1
    <2>3. c \in Seq(Option) /\ Len(c) = n - place + 1
          /\ \A k \in 1..(n - place + 1) : c[k] = list[place + k - 1]
        BY <2>1, SubSeqProperties
    <2>4. t = b \o c
        BY <1>3, <1>9 DEF InsertAt
    <2>. HIDE DEF a, c, n
    <2>5. /\ b \in Seq(Option) /\ Len(b) = place
          /\ \A k \in 1..place : b[k] = IF k < place THEN list[k] ELSE o
        <3>1. b = Append(a, o)
            BY <2>2
        <3>. QED BY <2>1, <2>2, <3>1
    <2>. HIDE DEF b
    <2>6. /\ t \in Seq(Option) /\ Len(t) = n + 1
          /\ \A k \in 1..(n + 1) : t[k] = IF k <= place THEN b[k] ELSE c[k - place]
        <3>1. Len(b) + Len(c) = n + 1
            BY <1>4, <2>1, <2>3, <2>5
        <3>2. /\ b \o c \in Seq(Option) /\ Len(b \o c) = Len(b) + Len(c)
              /\ \A k \in 1..(Len(b) + Len(c)) :
                    (b \o c)[k] = IF k <= Len(b) THEN b[k] ELSE c[k - Len(b)]
            BY <2>3, <2>5, ConcatProperties, Zenon
        <3>. QED BY <2>4, <2>5, <3>1, <3>2
    <2>7. ASSUME NEW k \in 1..(n + 1)
          PROVE  t[k] = IF k < place THEN list[k] ELSE IF k = place THEN o ELSE list[k - 1]
        <3>1. k <= place => t[k] = IF k < place THEN list[k] ELSE o
            BY <1>4, <2>1, <2>5, <2>6
        <3>2. k > place => t[k] = list[k - 1]
            <4>1. SUFFICES ASSUME k > place PROVE t[k] = list[k - 1]
                OBVIOUS
            <4>2. k - place \in 1..(n - place + 1) /\ place + (k - place) - 1 = k - 1
                BY <1>4, <2>1, <4>1
            <4>3. t[k] = c[k - place]
                BY <1>4, <2>1, <2>6, <4>1
            <4>. QED BY <2>3, <4>2, <4>3
        <3>. QED BY <1>4, <2>1, <3>1, <3>2
    <2>8. place \in 1..(n + 1) /\ \A k \in 1..n : k < place <=> list[k].code <= o.code
        BY <1>4, <1>7, <1>9, <2>1
    <2>. QED BY <2>6, <2>7, <2>8 DEF t, n
<1>. QED BY <1>8, <1>9

LEMMA FollowsSorted ==
    ASSUME NEW list, NEW push, NEW place, Follows(list, push, place)
    PROVE  Sorted(list)
BY DEF Follows, Sorted

\* push_option keeps the order: the new option is behind those with its code, and
\* has been pushed after them.
LEMMA PushFollows ==
    ASSUME NEW list \in Seq(Option), NEW push \in Seq(Option), NEW place,
           Follows(list, push, place), NEW o \in Option
    PROVE  \E next : Follows(PushOption(list, o), Append(push, o), next)
<1>. DEFINE n == Len(list)
            longer == PushOption(list, o)
            more == Append(push, o)
<1>1. /\ n \in Nat /\ Len(push) = n /\ place \in [1..n -> 1..n]
      /\ \A k \in 1..n : list[k] = push[place[k]]
      /\ \A j, k \in 1..n :
            j < k => /\ list[j].code <= list[k].code /\ place[j] # place[k]
                     /\ list[j].code = list[k].code => place[j] < place[k]
      /\ \A m \in 1..n : \E k \in 1..n : place[k] = m
    BY DEF Follows
<1>2. o.code \in Nat /\ \A k \in 1..n : list[k].code \in Nat
    <2>1. \A k \in 1..n : list[k] \in Option
        OBVIOUS
    <2>. QED BY <2>1, OptionType
<1>3. longer \in Seq(Option) /\ Len(longer) = n + 1
    BY FollowsSorted, PushPlace
<1>4. PICK p \in 1..(n + 1) :
         /\ \A k \in 1..n : k < p <=> list[k].code <= o.code
         /\ \A k \in 1..(n + 1) :
               longer[k] = IF k < p THEN list[k] ELSE IF k = p THEN o ELSE list[k - 1]
    BY FollowsSorted, PushPlace
<1>5. Len(more) = n + 1 /\ more[n + 1] = o /\ \A m \in 1..n : more[m] = push[m]
    BY <1>1
<1>. HIDE DEF n, longer, more
<1>. DEFINE old(k) == IF k < p THEN k ELSE k - 1
            next == [k \in 1..(n + 1) |-> IF k = p THEN n + 1 ELSE place[old(k)]]
<1>6. ASSUME NEW k \in 1..(n + 1), k # p
      PROVE  /\ old(k) \in 1..n /\ longer[k] = list[old(k)] /\ next[k] = place[old(k)]
             /\ place[old(k)] \in 1..n
    <2>1. old(k) \in 1..n /\ longer[k] = list[old(k)]
        BY <1>1, <1>4, <1>6
    <2>. QED BY <1>1, <1>6, <2>1
<1>7. next[p] = n + 1 /\ longer[p] = o
    BY <1>1, <1>4
<1>8. \A j, k \in 1..(n + 1) : j < k /\ j # p /\ k # p => old(j) < old(k)
    BY <1>1
<1>9. \A k \in 1..(n + 1) : /\ k < p => old(k) = k
                            /\ k > p => ~(old(k) < p)
    BY <1>1
<1>10. next \in [1..(n + 1) -> 1..(n + 1)]
    <2>1. ASSUME NEW k \in 1..(n + 1) PROVE next[k] \in 1..(n + 1)
        <3>1. CASE k = p
            BY <1>1, <1>7, <3>1
        <3>2. CASE k # p
            <4>1. next[k] \in 1..n
                BY <1>6, <3>2
            <4>. QED BY <1>1, <4>1
        <3>. QED BY <3>1, <3>2
    <2>2. next = [k \in 1..(n + 1) |-> next[k]]
        OBVIOUS
    <2>. HIDE DEF next
    <2>. QED BY <2>1, <2>2
<1>11. ASSUME NEW k \in 1..(n + 1) PROVE longer[k] = more[next[k]]
    <2>1. CASE k = p
        BY <1>5, <1>7, <2>1
    <2>2. CASE k # p
        BY <1>1, <1>5, <1>6, <2>2
    <2>. QED BY <2>1, <2>2
<1>12. ASSUME NEW m \in 1..(n + 1) PROVE \E k \in 1..(n + 1) : next[k] = m
    <2>1. CASE m = n + 1
        BY <1>7, <2>1
    <2>2. CASE m # n + 1
        <3>1. m \in 1..n
            BY <1>1, <2>2
        <3>2. PICK k \in 1..n : place[k] = m
            BY <1>1, <3>1
        <3>. DEFINE new == IF k < p THEN k ELSE k + 1
        <3>3. new \in 1..(n + 1) /\ new # p /\ old(new) = k
            <4>1. k \in Int /\ p \in Int
                OBVIOUS
            <4>2. CASE k < p
                <5>1. new = k /\ k # p /\ k \in 1..(n + 1)
                    BY <1>1, <4>1, <4>2
                <5>2. old(k) = k
                    BY <4>2
                <5>. QED BY <5>1, <5>2
            <4>3. CASE ~(k < p)
                <5>1. new = k + 1 /\ ~(new < p) /\ new # p
                    BY <4>1, <4>3
                <5>2. old(k + 1) = (k + 1) - 1
                    BY <4>1, <4>3
                <5>. QED BY <1>1, <4>1, <5>1, <5>2
            <4>. QED BY <4>2, <4>3
        <3>. HIDE DEF new, old, next
        <3>. QED BY <1>6, <3>2, <3>3
    <2>. QED BY <2>1, <2>2
<1>. HIDE DEF next
<1>13. ASSUME NEW j \in 1..(n + 1), NEW k \in 1..(n + 1), j < k
       PROVE  /\ longer[j].code <= longer[k].code /\ next[j] # next[k]
              /\ longer[j].code = longer[k].code => next[j] < next[k]
    <2>1. CASE j = p
        <3>1. k # p /\ k > p
            BY <1>13, <2>1
        <3>2. old(k) \in 1..n /\ longer[k] = list[old(k)] /\ next[k] \in 1..n /\ ~(old(k) < p)
            BY <1>6, <1>9, <3>1
        <3>3. list[old(k)].code > o.code
            <4>. HIDE DEF old
            <4>1. ~(list[old(k)].code <= o.code)
                BY <1>4, <3>2
            <4>. QED BY <1>2, <3>2, <4>1
        <3>. HIDE DEF old
        <3>4. o.code <= longer[k].code /\ o.code # longer[k].code
            BY <1>2, <3>2, <3>3
        <3>5. next[j] = n + 1 /\ longer[j] = o
            BY <1>7, <2>1
        <3>6. next[j] # next[k]
            <4>1. n \in Nat /\ next[k] \in 1..n
                BY <1>1, <3>2
            <4>. QED BY <3>5, <4>1
        <3>. QED BY <3>4, <3>5, <3>6
    <2>2. CASE k = p
        <3>1. j # p /\ j < p
            BY <1>13, <2>2
        <3>2. old(j) = j /\ j \in 1..n /\ longer[j] = list[j] /\ next[j] \in 1..n
            BY <1>6, <1>9, <3>1
        <3>3. list[j].code <= o.code
            BY <1>4, <3>1, <3>2
        <3>4. next[k] = n + 1 /\ longer[k] = o
            BY <1>7, <2>2
        <3>5. next[j] # next[k] /\ next[j] < next[k]
            <4>1. n \in Nat /\ next[j] \in 1..n
                BY <1>1, <3>2
            <4>. QED BY <3>4, <4>1
        <3>6. longer[j].code <= longer[k].code
            BY <3>2, <3>3, <3>4
        <3>. QED BY <3>5, <3>6
    <2>3. CASE j # p /\ k # p
        <3>1. /\ old(j) \in 1..n /\ longer[j] = list[old(j)] /\ next[j] = place[old(j)]
              /\ old(k) \in 1..n /\ longer[k] = list[old(k)] /\ next[k] = place[old(k)]
              /\ old(j) < old(k)
            BY <1>6, <1>8, <1>13, <2>3
        <3>. DEFINE a == old(j)
                    b == old(k)
        <3>2. a \in 1..n /\ b \in 1..n /\ a < b
            BY <3>1
        <3>. HIDE DEF a, b
        <3>3. /\ list[a].code <= list[b].code /\ place[a] # place[b]
              /\ list[a].code = list[b].code => place[a] < place[b]
            BY <1>1, <3>2
        <3>4. /\ longer[j] = list[a] /\ next[j] = place[a]
              /\ longer[k] = list[b] /\ next[k] = place[b]
            BY <3>1 DEF a, b
        <3>. QED BY <3>3, <3>4
    <2>. QED BY <2>1, <2>2, <2>3
<1>14. Follows(longer, more, next)
    BY <1>3, <1>5, <1>10, <1>11, <1>12, <1>13 DEF Follows
<1>. QED BY <1>14 DEF longer, more

\* The first option with a code.
LEMMA FirstIs ==
    ASSUME NEW list \in Seq(Option), NEW code
    PROVE  LET k == First(list, code)
           IN  /\ k = 0 => \A j \in 1..Len(list) : list[j].code # code
               /\ k # 0 => /\ k \in 1..Len(list) /\ list[k].code = code
                           /\ \A j \in 1..Len(list) : list[j].code = code => k <= j
<1>. DEFINE I == {j \in 1..Len(list) : list[j].code = code}
            k == First(list, code)
<1>1. k = IF I # {} THEN Min(I) ELSE 0
    BY DEF First, SelectInSeq
<1>2. I # {} => Min(I) \in I /\ \A y \in I : Min(I) <= y
    <2>1. I \subseteq Nat
        OBVIOUS
    <2>. HIDE DEF I
    <2>. QED BY <2>1, Smallest
<1>3. \A j \in 1..Len(list) : j \in I <=> list[j].code = code
    OBVIOUS
<1>4. I \subseteq 1..Len(list) /\ 0 \notin I
    OBVIOUS
<1>. HIDE DEF I, k
<1>5. CASE I = {}
    BY <1>1, <1>3, <1>5 DEF k
<1>6. CASE I # {}
    BY <1>1, <1>2, <1>3, <1>4, <1>6 DEF k
<1>. QED BY <1>5, <1>6

Renewed(list, code, v) == [list EXCEPT ![First(list, code)].val = v]

\* set_max_age finds the option that was pushed first, and changes no code.
LEMMA ReplaceFollows ==
    ASSUME NEW list \in Seq(Option), NEW push \in Seq(Option), NEW place,
           Follows(list, push, place), NEW code, First(list, code) # 0, NEW v \in Seq(Byte)
    PROVE  /\ Renewed(list, code, v) \in Seq(Option) /\ Renewed(push, code, v) \in Seq(Option)
           /\ Follows(Renewed(list, code, v), Renewed(push, code, v), place)
           /\ Len(Renewed(push, code, v)) = Len(push)
           /\ \A j \in 1..Len(push) : \/ Renewed(push, code, v)[j] = push[j]
                                       \/ Renewed(push, code, v)[j].val = v
<1>. DEFINE k == First(list, code)
            m == First(push, code)
            n == Len(list)
            renewed == [list EXCEPT ![k].val = v]
            after == [push EXCEPT ![m].val = v]
            Same(o) == [code |-> o.code, val |-> v]
<1>1. /\ n \in Nat /\ Len(push) = n /\ place \in [1..n -> 1..n]
      /\ \A j \in 1..n : list[j] = push[place[j]]
      /\ \A j, l \in 1..n :
            j < l => /\ list[j].code <= list[l].code /\ place[j] # place[l]
                     /\ list[j].code = list[l].code => place[j] < place[l]
      /\ \A l \in 1..n : \E j \in 1..n : place[j] = l
    BY DEF Follows
<1>2. /\ k \in 1..n /\ list[k].code = code
      /\ \A j \in 1..n : list[j].code = code => k <= j
    BY FirstIs
<1>3. m # 0 /\ m \in 1..n /\ push[m].code = code /\ m <= place[k]
    <2>1. place[k] \in 1..n /\ push[place[k]].code = code
        BY <1>1, <1>2
    <2>2. /\ m = 0 => \A j \in 1..n : push[j].code # code
          /\ m # 0 => /\ m \in 1..n /\ push[m].code = code
                      /\ \A j \in 1..n : push[j].code = code => m <= j
        BY <1>1, FirstIs
    <2>. HIDE DEF m, k, n
    <2>. QED BY <2>1, <2>2
<1>. HIDE DEF k, m
<1>4. place[k] = m
    <2>1. PICK j \in 1..n : place[j] = m
        BY <1>1, <1>3
    <2>2. list[j].code = code
        BY <1>1, <1>3, <2>1
    <2>3. k < j => place[k] < m
        BY <1>1, <1>2, <2>1, <2>2
    <2>4. k <= j /\ ~(place[k] < m)
        <3>1. place[k] \in 1..n
            BY <1>1, <1>2
        <3>. QED BY <1>1, <1>2, <1>3, <2>1, <2>2, <3>1
    <2>. QED BY <1>2, <2>1, <2>3, <2>4
<1>5. \A j \in 1..n : j # k => place[j] # m
    BY <1>1, <1>2, <1>4
<1>. HIDE DEF n
<1>6. \A o \in Option : [o EXCEPT !.val = v] = Same(o) /\ Same(o) \in Option
                          /\ Same(o).code = o.code
    BY DEF Option
<1>7. /\ renewed \in Seq(Option) /\ Len(renewed) = n
      /\ \A j \in 1..n : renewed[j] = IF j = k THEN Same(list[k]) ELSE list[j]
    <2>. USE DEF n
    <2>1. list[k] \in Option /\ [list[k] EXCEPT !.val = v] = Same(list[k])
        BY <1>2, <1>6
    <2>2. renewed = [list EXCEPT ![k] = [list[k] EXCEPT !.val = v]]
        BY <1>2
    <2>. QED BY <1>2, <1>6, <2>1, <2>2
<1>8. /\ after \in Seq(Option) /\ Len(after) = n
      /\ \A j \in 1..n : after[j] = IF j = m THEN Same(push[m]) ELSE push[j]
    <2>1. push[m] \in Option
        BY <1>1, <1>3
    <2>3. [push[m] EXCEPT !.val = v] = Same(push[m]) /\ Same(push[m]) \in Option
        BY <1>6, <2>1
    <2>2. after = [push EXCEPT ![m] = [push[m] EXCEPT !.val = v]]
        BY <1>1, <1>3
    <2>. DEFINE r == Same(push[m])
    <2>4. after = [push EXCEPT ![m] = r] /\ r \in Option
        BY <2>2, <2>3
    <2>. HIDE DEF r, after
    <2>5. /\ after \in Seq(Option) /\ Len(after) = n
          /\ \A j \in 1..n : after[j] = IF j = m THEN r ELSE push[j]
        BY <1>1, <1>3, <2>4
    <2>. QED BY <2>5 DEF r
<1>9. \A j \in 1..n : renewed[j].code = list[j].code
    BY <1>2, <1>6, <1>7
<1>12. \A j \in 1..n : after[j] = push[j] \/ after[j].val = v
    <2>1. Same(push[m]).val = v
        OBVIOUS
    <2>. HIDE DEF Same, after
    <2>. QED BY <1>8, <2>1
<1>. HIDE DEF renewed, after, Same
<1>10. \A j \in 1..n : renewed[j] = after[place[j]]
    <2>1. list[k] = push[m]
        BY <1>1, <1>2, <1>4
    <2>2. \A j \in 1..n : j # k => after[place[j]] = push[place[j]] /\ push[place[j]] = list[j]
        BY <1>1, <1>5, <1>8
    <2>. QED BY <1>3, <1>4, <1>7, <1>8, <2>1, <2>2
<1>11. Follows(renewed, after, place)
    <2>1. Len(renewed) = n /\ Len(after) = n
        BY <1>7, <1>8
    <2>. QED BY <1>1, <1>9, <1>10, <2>1 DEF Follows
<1>13. renewed = Renewed(list, code, v) /\ after = Renewed(push, code, v)
    BY Zenon DEF renewed, after, k, m, Renewed
<1>. QED BY <1>1, <1>7, <1>8, <1>11, <1>12, <1>13

----------------------------------------------------------------------------
(* Sizes.                                                                   *)

\* The bytes for a delta or a length beside the four bits.
More(n) == IF n >= 269 THEN 2 ELSE IF n >= 13 THEN 1 ELSE 0
SizeOf(list, k) == 1 + More(Delta(list, k)) + More(Len(list[k].val)) + Len(list[k].val)

LEMMA DeltaType ==
    ASSUME NEW list \in Seq(Option), Sorted(list), NEW k \in 1..Len(list)
    PROVE  Delta(list, k) \in Nat /\ Delta(list, k) <= 65535 /\ Len(list[k].val) \in Nat
<1>1. /\ list[k].code \in Nat /\ list[k].code <= 65535 /\ Len(list[k].val) \in Nat
    <2>1. list[k] \in Option
        OBVIOUS
    <2>. QED BY <2>1, OptionType, CodeType
<1>2. CASE k = 1
    BY <1>1, <1>2 DEF Delta
<1>3. CASE k # 1
    <2>1. k - 1 \in 1..Len(list) /\ k - 1 < k
        BY <1>3
    <2>2. list[k - 1] \in Option
        BY <2>1
    <2>3. list[k - 1].code \in Nat
        BY <2>2, OptionType
    <2>4. list[k - 1].code <= list[k].code
        BY <2>1 DEF Sorted
    <2>5. Delta(list, k) = list[k].code - list[k - 1].code
        BY <1>3 DEF Delta
    <2>. QED BY <1>1, <2>3, <2>4, <2>5
<1>. QED BY <1>2, <1>3

\* The four bits of a number, and the bytes that follow, stand for it.
LEMMA NumberType ==
    ASSUME NEW n \in Nat
    PROVE  /\ Nibble(n) \in 0..14 /\ More(n) \in Nat
           /\ Extended(n) \in Seq(Byte) /\ Len(Extended(n)) = More(n)
           /\ More(n) = Width(Nibble(n))
<1>1. \A m \in Nat : m % 256 \in Byte
    BY DEF Byte
<1>2. CASE n >= 269
    <2>. DEFINE hi == ((n - 269) \div 256) % 256
                lo == (n - 269) % 256
    <2>1. n - 269 \in Nat /\ (n - 269) \div 256 \in Nat
        BY <1>2
    <2>2. hi \in Byte /\ lo \in Byte
        BY <1>1, <2>1
    <2>3. Extended(n) = <<hi, lo>> /\ Nibble(n) = 14 /\ More(n) = 2
        BY <1>2 DEF Extended, Nibble, More
    <2>. HIDE DEF hi, lo
    <2>4. <<hi, lo>> \in Seq(Byte) /\ Len(<<hi, lo>>) = 2
        BY <2>2
    <2>. QED BY <2>3, <2>4 DEF Width
<1>3. CASE n < 269 /\ n >= 13
    <2>1. n - 13 \in Byte
        BY <1>3 DEF Byte
    <2>2. Extended(n) = <<n - 13>> /\ Nibble(n) = 13 /\ More(n) = 1
        BY <1>3 DEF Extended, Nibble, More
    <2>3. <<n - 13>> \in Seq(Byte) /\ Len(<<n - 13>>) = 1
        BY <2>1
    <2>. QED BY <2>2, <2>3 DEF Width
<1>4. CASE n < 13
    <2>1. Extended(n) = <<>> /\ Nibble(n) = n /\ More(n) = 0
        BY <1>4 DEF Extended, Nibble, More
    <2>2. <<>> \in Seq(Byte) /\ Len(<<>>) = 0
        OBVIOUS
    <2>. QED BY <1>4, <2>1, <2>2 DEF Width
<1>. QED BY <1>2, <1>3, <1>4

LEMMA ByteConcat ==
    ASSUME NEW s \in Seq(Byte), NEW t \in Seq(Byte)
    PROVE  s \o t \in Seq(Byte) /\ Len(s \o t) = Len(s) + Len(t)
BY ConcatProperties, Zenon

\* The parts of an encoded option.
First8(list, k) == 16 * Nibble(Delta(list, k)) + Nibble(Len(list[k].val))

LEMMA OptionBytes ==
    ASSUME NEW list \in Seq(Option), Sorted(list), NEW k \in 1..Len(list)
    PROVE  /\ First8(list, k) \in Byte /\ <<First8(list, k)>> \in Seq(Byte)
           /\ EncodedOption(list, k) \in Seq(Byte)
           /\ SizeOf(list, k) \in Nat /\ Len(EncodedOption(list, k)) = SizeOf(list, k)
<1>. DEFINE d == Delta(list, k)
            l == Len(list[k].val)
            b == First8(list, k)
            v == list[k].val
<1>1. d \in Nat /\ l \in Nat
    BY DeltaType
<1>2. v \in Seq(Byte)
    <2>1. list[k] \in Option
        OBVIOUS
    <2>. QED BY <2>1, OptionType
<1>. HIDE DEF d, l
<1>3. /\ Nibble(d) \in 0..14 /\ Nibble(l) \in 0..14 /\ More(d) \in Nat /\ More(l) \in Nat
      /\ Extended(d) \in Seq(Byte) /\ Len(Extended(d)) = More(d)
      /\ Extended(l) \in Seq(Byte) /\ Len(Extended(l)) = More(l)
    BY <1>1, NumberType
<1>4. b \in Byte
    <2>. DEFINE hi == Nibble(d)
                lo == Nibble(l)
    <2>1. hi \in 0..14 /\ lo \in 0..14 /\ b = 16 * hi + lo
        BY <1>3 DEF First8, d, l
    <2>. HIDE DEF hi, lo, b
    <2>2. 16 * hi + lo \in 0..255
        BY <2>1
    <2>. QED BY <2>1, <2>2 DEF Byte
<1>. HIDE DEF b, v
<1>5. <<b>> \in Seq(Byte) /\ Len(<<b>>) = 1
    BY <1>4
<1>. DEFINE s == <<b>> \o Extended(d)
            t == s \o Extended(l)
<1>6. s \in Seq(Byte) /\ Len(s) = 1 + More(d)
    BY <1>3, <1>5, ByteConcat
<1>. HIDE DEF s
<1>7. t \in Seq(Byte) /\ Len(t) = 1 + More(d) + More(l)
    BY <1>3, <1>6, ByteConcat
<1>. HIDE DEF t
<1>8. t \o v \in Seq(Byte) /\ Len(t \o v) = 1 + More(d) + More(l) + Len(v)
    BY <1>2, <1>7, ByteConcat
<1>9. EncodedOption(list, k) = t \o v
    BY DEF EncodedOption, t, s, b, d, l, v, First8
<1>10. SizeOf(list, k) = 1 + More(d) + More(l) + Len(v) /\ Len(v) = l
    BY DEF SizeOf, d, l, v
<1>. QED BY <1>1, <1>3, <1>4, <1>5, <1>8, <1>9, <1>10 DEF b

\* The sums of coap_size.
IsSum(f, base, list) ==
    /\ f \in [0..Len(list) -> Nat] /\ f[0] = base
    /\ \A k \in 1..Len(list) : f[k] = f[k - 1] + SizeOf(list, k)

LEMMA CoapSizeDef ==
    ASSUME NEW tok \in Seq(Byte), NEW list \in Seq(Option), Sorted(list)
    PROVE  \E f : /\ IsSum(f, 4 + Len(tok), list)
                  /\ \A paylen, emulpayload :
                        CoapSize(tok, list, paylen, emulpayload) =
                          f[Len(list)] + (IF paylen > 0 \/ emulpayload THEN 1 + paylen ELSE 0)
<1>. DEFINE n == Len(list)
            base == 4 + Len(tok)
            step == [p \in Nat \X (1..n) |-> p[1] + SizeOf(list, p[2])]
            sum == CHOOSE g : g = [k \in 0..n |-> IF k = 0 THEN base
                                                  ELSE g[k - 1] + SizeOf(list, k)]
<1>1. n \in Nat /\ base \in Nat /\ \A k \in 1..n : SizeOf(list, k) \in Nat
    BY OptionBytes
<1>2. step \in Steps(Nat, n)
    BY <1>1 DEF Steps
<1>3. \A v \in Nat, k \in 1..n : step[<<v, k>>] = v + SizeOf(list, k)
    OBVIOUS
<1>4. \A paylen, emulpayload :
         CoapSize(tok, list, paylen, emulpayload) =
            sum[n] + (IF paylen > 0 \/ emulpayload THEN 1 + paylen ELSE 0)
    BY Zenon DEF CoapSize, SizeOf, More
<1>. HIDE DEF n, step, base
<1>5. PICK g \in [0..n -> Nat] : Iterates(g, base, step, n)
    BY <1>1, <1>2, Recursion
<1>6. g[0] = base /\ \A k \in 1..n : g[k] = g[k - 1] + SizeOf(list, k)
    <2>1. \A k \in 1..n : k - 1 \in 0..n /\ g[k - 1] \in Nat
        BY <1>1, <1>5
    <2>. QED BY <1>3, <1>5, <2>1 DEF Iterates
<1>7. g = [k \in 0..n |-> IF k = 0 THEN base ELSE g[k - 1] + SizeOf(list, k)]
    BY <1>1, <1>5, <1>6
<1>8. sum = [k \in 0..n |-> IF k = 0 THEN base ELSE sum[k - 1] + SizeOf(list, k)]
    BY <1>7
<1>. HIDE DEF sum
<1>9. sum[0] = base /\ \A k \in 1..n : sum[k] = sum[k - 1] + SizeOf(list, k)
    BY <1>1, <1>8
<1>10. \A k \in 0..n : sum[k] = g[k]
    <2>. DEFINE S == {k \in 0..n : sum[k] = g[k]}
    <2>1. 0 \in S
        BY <1>1, <1>6, <1>9
    <2>2. ASSUME NEW k \in 0..(n - 1), k \in S PROVE k + 1 \in S
        <3>1. k + 1 \in 1..n /\ (k + 1) - 1 = k /\ k + 1 \in 0..n
            BY <1>1
        <3>. QED BY <1>6, <1>9, <2>2, <3>1
    <2>. HIDE DEF S
    <2>3. \A k \in 0..n : k \in S
        BY <1>1, <2>1, <2>2, UpTo
    <2>. QED BY <2>3 DEF S
<1>11. sum \in [0..n -> Nat]
    BY <1>5, <1>8, <1>10
<1>12. IsSum(sum, base, list)
    BY <1>9, <1>11 DEF IsSum, n
<1>. QED BY <1>4, <1>12 DEF n, base

\* The encoded options, one after the other.
IsFlat(g, seqs) ==
    /\ g \in [0..Len(seqs) -> Seq(Byte)] /\ g[0] = <<>>
    /\ \A k \in 1..Len(seqs) : g[k] = g[k - 1] \o seqs[k]

LEMMA FlattenDef ==
    ASSUME NEW seqs \in Seq(Seq(Byte))
    PROVE  \E g : IsFlat(g, seqs) /\ FlattenSeq(seqs) = g[Len(seqs)]
<1>. DEFINE n == Len(seqs)
            step == [p \in Seq(Byte) \X (1..n) |-> p[1] \o seqs[p[2]]]
            flat == CHOOSE f : f = [k \in 1..n |-> IF k = 1 THEN seqs[k] ELSE f[k - 1] \o seqs[k]]
<1>1. n \in Nat /\ \A k \in 1..n : seqs[k] \in Seq(Byte)
    OBVIOUS
<1>2. step \in Steps(Seq(Byte), n)
    BY <1>1, ByteConcat DEF Steps
<1>3. \A v \in Seq(Byte), k \in 1..n : step[<<v, k>>] = v \o seqs[k]
    OBVIOUS
<1>4. FlattenSeq(seqs) = IF n = 0 THEN seqs ELSE flat[n]
    BY Zenon DEF FlattenSeq
<1>. HIDE DEF n, step
<1>5. PICK g \in [0..n -> Seq(Byte)] : Iterates(g, <<>>, step, n)
    <2>1. <<>> \in Seq(Byte)
        OBVIOUS
    <2>. QED BY <1>1, <1>2, <2>1, Recursion
<1>6. g[0] = <<>> /\ \A k \in 1..n : g[k] = g[k - 1] \o seqs[k]
    <2>1. \A k \in 1..n : k - 1 \in 0..n /\ g[k - 1] \in Seq(Byte)
        BY <1>1, <1>5
    <2>. QED BY <1>3, <1>5, <2>1 DEF Iterates
<1>7. IsFlat(g, seqs)
    BY <1>6 DEF IsFlat, n
<1>8. CASE n = 0
    <2>1. seqs = <<>>
        BY <1>8 DEF n
    <2>. QED BY <1>4, <1>6, <1>7, <1>8, <2>1 DEF n
<1>9. CASE n # 0
    <2>. DEFINE h == [k \in 1..n |-> g[k]]
    <2>1. 1 \in 1..n => h[1] = seqs[1]
        <3>1. SUFFICES ASSUME 1 \in 1..n PROVE g[1] = seqs[1]
            OBVIOUS
        <3>2. g[1] = <<>> \o seqs[1] /\ seqs[1] \in Seq(Byte)
            <4>1. 1 - 1 = 0
                OBVIOUS
            <4>. QED BY <1>1, <1>6, <3>1, <4>1
        <3>. QED BY <3>2
    <2>2. \A k \in 1..n : k # 1 => h[k] = h[k - 1] \o seqs[k]
        <3>1. \A k \in 1..n : k # 1 => k - 1 \in 1..n
            BY <1>1
        <3>. QED BY <1>6, <3>1
    <2>3. h = [k \in 1..n |-> IF k = 1 THEN seqs[k] ELSE h[k - 1] \o seqs[k]]
        <3>. HIDE DEF h
        <3>1. h = [k \in 1..n |-> h[k]]
            BY DEF h
        <3>. QED BY <2>1, <2>2, <3>1
    <2>. HIDE DEF h
    <2>4. flat = [k \in 1..n |-> IF k = 1 THEN seqs[k] ELSE flat[k - 1] \o seqs[k]]
        BY <2>3
    <2>. HIDE DEF flat
    <2>. DEFINE S == {k \in 0..n : k # 0 => flat[k] = g[k]}
    <2>5. 0 \in S
        BY <1>1
    <2>6. ASSUME NEW k \in 0..(n - 1), k \in S PROVE k + 1 \in S
        <3>1. k + 1 \in 1..n /\ (k + 1) - 1 = k /\ k + 1 \in 0..n /\ (k # 0 => k + 1 # 1)
            BY <1>1
        <3>2. CASE k = 0
            <4>1. flat[1] = seqs[1] /\ g[1] = seqs[1]
                BY <2>1, <2>4, <3>1, <3>2 DEF h
            <4>. QED BY <3>1, <3>2, <4>1
        <3>3. CASE k # 0
            <4>1. flat[k + 1] = flat[(k + 1) - 1] \o seqs[k + 1]
                BY <2>4, <3>1, <3>3
            <4>. QED BY <1>6, <2>6, <3>1, <3>3, <4>1
        <3>. QED BY <3>2, <3>3
    <2>. HIDE DEF S
    <2>7. \A k \in 0..n : k \in S
        BY <1>1, <2>5, <2>6, UpTo
    <2>8. flat[n] = g[n]
        BY <1>1, <1>9, <2>7 DEF S
    <2>. QED BY <1>4, <1>7, <1>9, <2>8 DEF n
<1>. QED BY <1>8, <1>9

----------------------------------------------------------------------------
(* Where things are in an encoded message.                                  *)

\* t is in s from place p + 1 on.
Occurs(s, p, t) ==
    p + Len(t) <= Len(s) /\ \A j \in 1..Len(t) : s[p + j] = t[j]

LEMMA ConcatOccurs ==
    ASSUME NEW s \in Seq(Byte), NEW t \in Seq(Byte)
    PROVE  Occurs(s \o t, 0, s) /\ Occurs(s \o t, Len(s), t)
<1>1. /\ Len(s \o t) = Len(s) + Len(t) /\ Len(s) \in Nat /\ Len(t) \in Nat
      /\ \A j \in 1..(Len(s) + Len(t)) :
            (s \o t)[j] = IF j <= Len(s) THEN s[j] ELSE t[j - Len(s)]
    <2>1. Len(s) \in Nat /\ Len(t) \in Nat
        OBVIOUS
    <2>. QED BY <2>1, ConcatProperties, Zenon
<1>. DEFINE c == s \o t
            m == Len(s)
            n == Len(t)
<1>. HIDE DEF c, m, n
<1>2. Len(c) = m + n /\ m \in Nat /\ n \in Nat
      /\ \A j \in 1..(m + n) : c[j] = IF j <= m THEN s[j] ELSE t[j - m]
    BY <1>1 DEF c, m, n
<1>3. ASSUME NEW j \in 1..m PROVE c[0 + j] = s[j]
    <2>1. j \in 1..(m + n) /\ j <= m /\ 0 + j = j
        BY <1>2
    <2>. QED BY <1>2, <2>1
<1>4. ASSUME NEW j \in 1..n PROVE c[m + j] = t[j]
    <2>1. m + j \in 1..(m + n) /\ ~(m + j <= m) /\ (m + j) - m = j
        BY <1>2
    <2>. QED BY <1>2, <2>1
<1>. QED BY <1>2, <1>3, <1>4 DEF Occurs, c, m, n

LEMMA OccursWithin ==
    ASSUME NEW s \in Seq(Byte), NEW t \in Seq(Byte), NEW u \in Seq(Byte),
           NEW p \in Nat, NEW q \in Nat, Occurs(s, p, t), Occurs(t, q, u)
    PROVE  Occurs(s, p + q, u)
<1>1. Len(s) \in Nat /\ Len(t) \in Nat /\ Len(u) \in Nat
    OBVIOUS
<1>2. (p + q) + Len(u) <= Len(s)
    BY <1>1 DEF Occurs
<1>3. ASSUME NEW j \in 1..Len(u) PROVE s[(p + q) + j] = u[j]
    <2>1. q + j \in 1..Len(t) /\ p + (q + j) = (p + q) + j
        BY <1>1 DEF Occurs
    <2>2. t[q + j] = u[j] /\ s[p + (q + j)] = t[q + j]
        BY <2>1 DEF Occurs
    <2>. QED BY <2>1, <2>2
<1>. QED BY <1>2, <1>3 DEF Occurs

LEMMA OccursParts ==
    ASSUME NEW s \in Seq(Byte), NEW t \in Seq(Byte), NEW u \in Seq(Byte), NEW p \in Nat,
           Occurs(s, p, t \o u)
    PROVE  Occurs(s, p, t) /\ Occurs(s, p + Len(t), u)
<1>1. t \o u \in Seq(Byte) /\ Len(t) \in Nat /\ p + 0 = p
    BY ByteConcat
<1>2. Occurs(t \o u, 0, t) /\ Occurs(t \o u, Len(t), u)
    BY ConcatOccurs
<1>3. Occurs(s, p + 0, t)
    <2>1. 0 \in Nat
        OBVIOUS
    <2>. QED BY <1>1, <1>2, <2>1, OccursWithin
<1>4. Occurs(s, p + Len(t), u)
    BY <1>1, <1>2, OccursWithin
<1>. QED BY <1>1, <1>3, <1>4

LEMMA FlatOccurs ==
    ASSUME NEW seqs \in Seq(Seq(Byte)), NEW g, IsFlat(g, seqs), NEW k \in 1..Len(seqs)
    PROVE  Occurs(g[Len(seqs)], Len(g[k - 1]), seqs[k])
<1>. DEFINE n == Len(seqs)
            Within(m, l) == Occurs(g[m], Len(g[l - 1]), seqs[l])
            S == {m \in 0..n : \A l \in 1..m : Within(m, l)}
<1>1. /\ n \in Nat /\ g \in [0..n -> Seq(Byte)]
      /\ \A m \in 1..n : g[m] = g[m - 1] \o seqs[m] /\ seqs[m] \in Seq(Byte)
    <2>1. n \in Nat /\ \A m \in 1..n : seqs[m] \in Seq(Byte)
        OBVIOUS
    <2>. QED BY <2>1, Zenon DEF IsFlat
<1>. HIDE DEF n
<1>2. 0 \in S
    BY <1>1
<1>3. ASSUME NEW m \in 0..(n - 1), m \in S PROVE m + 1 \in S
    <2>1. m + 1 \in 1..n /\ (m + 1) - 1 = m /\ m + 1 \in 0..n /\ m \in 0..n
        BY <1>1
    <2>2. /\ g[m + 1] = g[m] \o seqs[m + 1] /\ g[m] \in Seq(Byte) /\ seqs[m + 1] \in Seq(Byte)
          /\ g[m + 1] \in Seq(Byte)
        BY <1>1, <2>1
    <2>3. Occurs(g[m + 1], 0, g[m]) /\ Occurs(g[m + 1], Len(g[m]), seqs[m + 1])
        BY <2>2, ConcatOccurs
    <2>4. ASSUME NEW l \in 1..(m + 1) PROVE Within(m + 1, l)
        <3>1. CASE l = m + 1
            BY <2>1, <2>3, <3>1
        <3>2. CASE l # m + 1
            <4>1. l \in 1..m /\ l \in 1..n /\ l - 1 \in 0..n
                BY <1>1, <2>1, <3>2
            <4>2. Within(m, l)
                BY <1>3, <4>1
            <4>3. seqs[l] \in Seq(Byte) /\ Len(g[l - 1]) \in Nat
                <5>1. g[l - 1] \in Seq(Byte) /\ seqs[l] \in Seq(Byte)
                    BY <1>1, <4>1
                <5>2. \A u \in Seq(Byte) : Len(u) \in Nat
                    OBVIOUS
                <5>. QED BY <5>1, <5>2
            <4>. DEFINE q == Len(g[l - 1])
                        u == seqs[l]
            <4>4. q \in Nat /\ u \in Seq(Byte) /\ Occurs(g[m], q, u)
                BY <4>2, <4>3
            <4>. HIDE DEF q, u
            <4>5. 0 + q = q /\ 0 \in Nat
                BY <4>4
            <4>6. Occurs(g[m + 1], 0 + q, u)
                BY <2>2, <2>3, <4>4, <4>5, OccursWithin
            <4>. QED BY <4>5, <4>6 DEF q, u
        <3>. QED BY <3>1, <3>2
    <2>. HIDE DEF Within
    <2>. QED BY <2>1, <2>4
<1>. HIDE DEF S
<1>4. \A m \in 0..n : m \in S
    BY <1>1, <1>2, <1>3, UpTo
<1>5. n \in S
    BY <1>1, <1>4
<1>. QED BY <1>5 DEF S, n

\* What follows the options.
Rest(pay) == IF pay = <<>> THEN <<>> ELSE <<255>> \o pay

\* The token, the k-th option (it ends at at[k]) and the payload are where
\* coap_encode has put them.
Layout(bytes, at, tok, list, pay) ==
    LET n == Len(list)
    IN  /\ bytes \in Seq(Byte) /\ at \in [0..n -> Nat]
        /\ Occurs(bytes, 0, tok) /\ at[0] = Len(tok)
        /\ \A k \in 1..n : /\ Occurs(bytes, at[k - 1], EncodedOption(list, k))
                            /\ at[k] = at[k - 1] + SizeOf(list, k)
        /\ Occurs(bytes, at[n], Rest(pay)) /\ Len(bytes) = at[n] + Len(Rest(pay))

LEMMA EncodedLayout ==
    ASSUME NEW tok \in Seq(Byte), NEW list \in Seq(Option), NEW pay \in Seq(Byte), Sorted(list)
    PROVE  LET bytes == Encoded(tok, list, pay).bytes
           IN  /\ 4 + Len(bytes) = CoapSize(tok, list, Len(pay), FALSE)
               /\ \E at : Layout(bytes, at, tok, list, pay)
<1>. DEFINE n == Len(list)
            seqs == [k \in DOMAIN list |-> EncodedOption(list, k)]
            bytes == Encoded(tok, list, pay).bytes
<1>1. /\ n \in Nat /\ seqs \in Seq(Seq(Byte)) /\ Len(seqs) = n
      /\ \A k \in 1..n : /\ seqs[k] = EncodedOption(list, k) /\ seqs[k] \in Seq(Byte)
                          /\ SizeOf(list, k) \in Nat /\ Len(seqs[k]) = SizeOf(list, k)
    <2>1. n \in Nat /\ DOMAIN list = 1..n
        OBVIOUS
    <2>2. \A k \in 1..n : /\ seqs[k] = EncodedOption(list, k) /\ seqs[k] \in Seq(Byte)
                          /\ SizeOf(list, k) \in Nat /\ Len(seqs[k]) = SizeOf(list, k)
        BY <2>1, OptionBytes
    <2>3. seqs = [k \in 1..n |-> seqs[k]]
        BY <2>1
    <2>. HIDE DEF seqs, n
    <2>4. seqs \in Seq(Seq(Byte)) /\ Len(seqs) = n
        <3>. DEFINE T == Seq(Byte)
        <3>1. \A k \in 1..n : seqs[k] \in T
            BY <2>2
        <3>. HIDE DEF T
        <3>2. seqs \in Seq(T) /\ Len(seqs) = n
            BY <2>1, <2>3, <3>1
        <3>. QED BY <3>2 DEF T
    <2>. QED BY <2>1, <2>2, <2>4
<1>. HIDE DEF seqs
<1>2. PICK g : IsFlat(g, seqs) /\ FlattenSeq(seqs) = g[n]
    BY <1>1, FlattenDef
<1>3. /\ g \in [0..n -> Seq(Byte)] /\ g[0] = <<>>
      /\ \A k \in 1..n : g[k] = g[k - 1] \o seqs[k]
    BY <1>1, <1>2, Zenon DEF IsFlat
<1>. DEFINE front == tok \o g[n]
            tail == Rest(pay)
<1>4. bytes = front \o tail
    BY <1>2 DEF Encoded, Rest, seqs
<1>5. /\ tail \in Seq(Byte) /\ g[n] \in Seq(Byte)
      /\ Len(tail) = IF Len(pay) > 0 THEN 1 + Len(pay) ELSE 0
    <2>1. <<255>> \in Seq(Byte) /\ Len(<<255>>) = 1
        BY DEF Byte
    <2>2. <<255>> \o pay \in Seq(Byte) /\ Len(<<255>> \o pay) = 1 + Len(pay)
        BY <2>1, ByteConcat
    <2>3. Len(pay) \in Nat /\ (pay = <<>> <=> Len(pay) = 0) /\ <<>> \in Seq(Byte) /\ Len(<<>>) = 0
        OBVIOUS
    <2>4. g[n] \in Seq(Byte)
        BY <1>1, <1>3
    <2>5. CASE pay = <<>>
        BY <2>3, <2>4, <2>5 DEF Rest
    <2>6. CASE pay # <<>>
        BY <2>2, <2>3, <2>4, <2>6 DEF Rest
    <2>. QED BY <2>5, <2>6
<1>. HIDE DEF tail, n, bytes
<1>6. front \in Seq(Byte) /\ Len(front) = Len(tok) + Len(g[n])
    BY <1>5, ByteConcat
<1>. HIDE DEF front
<1>7. bytes \in Seq(Byte) /\ Len(bytes) = Len(tok) + Len(g[n]) + Len(tail)
    <2>1. Len(front \o tail) = Len(front) + Len(tail) /\ front \o tail \in Seq(Byte)
        BY <1>5, <1>6, ByteConcat
    <2>2. Len(tok) \in Nat /\ Len(g[n]) \in Nat /\ Len(tail) \in Nat
        BY <1>5
    <2>. QED BY <1>4, <1>6, <2>1, <2>2
<1>. DEFINE at == [k \in 0..n |-> Len(tok) + Len(g[k])]
<1>8. \A k \in 0..n : g[k] \in Seq(Byte) /\ Len(g[k]) \in Nat
    BY <1>3
<1>9. at \in [0..n -> Nat] /\ at[0] = Len(tok) /\ at[n] = Len(tok) + Len(g[n])
    BY <1>1, <1>3, <1>8
<1>10. \A k \in 1..n : at[k] = at[k - 1] + SizeOf(list, k) /\ at[k - 1] = Len(tok) + Len(g[k - 1])
    <2>1. SUFFICES ASSUME NEW k \in 1..n
                   PROVE  at[k] = at[k - 1] + SizeOf(list, k) /\ at[k - 1] = Len(tok) + Len(g[k - 1])
        BY Zenon
    <2>2. k - 1 \in 0..n /\ k \in 0..n
        BY <1>1
    <2>3. Len(g[k]) = Len(g[k - 1]) + SizeOf(list, k)
        <3>1. Len(g[k - 1] \o seqs[k]) = Len(g[k - 1]) + Len(seqs[k])
            BY <1>1, <1>8, <2>2, ByteConcat
        <3>. QED BY <1>1, <1>3, <3>1
    <2>4. Len(g[k - 1]) \in Nat /\ SizeOf(list, k) \in Nat /\ Len(tok) \in Nat
        BY <1>1, <1>8, <2>2
    <2>5. at[k] = Len(tok) + Len(g[k]) /\ at[k - 1] = Len(tok) + Len(g[k - 1])
        BY <2>2
    <2>. HIDE DEF at
    <2>. DEFINE a == Len(tok)
                b == Len(g[k - 1])
                c == SizeOf(list, k)
                d == Len(g[k])
    <2>6. /\ a \in Nat /\ b \in Nat /\ c \in Nat /\ d = b + c
          /\ at[k] = a + d /\ at[k - 1] = a + b
        BY <2>3, <2>4, <2>5
    <2>. HIDE DEF a, b, c, d
    <2>7. at[k] = at[k - 1] + c
        BY <2>6
    <2>. QED BY <2>6, <2>7 DEF a, b, c
<1>. HIDE DEF at
<1>11. Occurs(bytes, 0, front) /\ Occurs(bytes, at[n], tail)
    BY <1>4, <1>5, <1>6, <1>9, ConcatOccurs
<1>12. Occurs(bytes, 0, tok) /\ Occurs(bytes, Len(tok), g[n])
    <2>1. Occurs(bytes, 0, tok) /\ Occurs(bytes, 0 + Len(tok), g[n])
        <3>1. Occurs(bytes, 0, tok \o g[n]) /\ 0 \in Nat
            BY <1>11 DEF front
        <3>. QED BY <1>5, <1>7, <3>1, OccursParts
    <2>2. 0 + Len(tok) = Len(tok)
        OBVIOUS
    <2>. QED BY <2>1, <2>2
<1>13. ASSUME NEW k \in 1..n
       PROVE  Occurs(bytes, at[k - 1], EncodedOption(list, k))
    <2>1. Occurs(g[n], Len(g[k - 1]), seqs[k])
        BY <1>1, <1>2, FlatOccurs
    <2>2. k - 1 \in 0..n /\ Len(tok) \in Nat
        BY <1>1
    <2>3. Occurs(bytes, Len(tok) + Len(g[k - 1]), seqs[k])
        BY <1>1, <1>5, <1>7, <1>8, <1>12, <2>1, <2>2, OccursWithin
    <2>. QED BY <1>1, <1>10, <2>3
<1>14. Layout(bytes, at, tok, list, pay)
    BY <1>7, <1>9, <1>10, <1>11, <1>12, <1>13 DEF Layout, n, tail
<1>15. 4 + Len(bytes) = CoapSize(tok, list, Len(pay), FALSE)
    <2>1. PICK f : /\ IsSum(f, 4 + Len(tok), list)
                   /\ \A paylen, emulpayload :
                        CoapSize(tok, list, paylen, emulpayload) =
                          f[n] + (IF paylen > 0 \/ emulpayload THEN 1 + paylen ELSE 0)
        BY CoapSizeDef DEF n
    <2>2. /\ f \in [0..n -> Nat] /\ f[0] = 4 + Len(tok)
          /\ \A k \in 1..n : f[k] = f[k - 1] + SizeOf(list, k)
        BY <2>1, Zenon DEF IsSum, n
    <2>. DEFINE S == {k \in 0..n : f[k] = 4 + at[k]}
    <2>3. 0 \in S
        BY <1>1, <1>9, <2>2
    <2>4. ASSUME NEW k \in 0..(n - 1), k \in S PROVE k + 1 \in S
        <3>1. k + 1 \in 1..n /\ (k + 1) - 1 = k /\ k + 1 \in 0..n /\ k \in 0..n
            BY <1>1
        <3>2. at[k] \in Nat /\ SizeOf(list, k + 1) \in Nat
            BY <1>1, <1>9, <3>1
        <3>3. f[k + 1] = f[k] + SizeOf(list, k + 1) /\ at[k + 1] = at[k] + SizeOf(list, k + 1)
            BY <1>10, <2>2, <3>1
        <3>. QED BY <2>4, <3>1, <3>2, <3>3
    <2>. HIDE DEF S
    <2>5. \A k \in 0..n : k \in S
        BY <1>1, <2>3, <2>4, UpTo
    <2>6. f[n] = 4 + at[n]
        BY <1>1, <2>5 DEF S
    <2>7. CoapSize(tok, list, Len(pay), FALSE) = f[n] + Len(tail)
        BY <1>5, <2>1
    <2>8. Len(tok) \in Nat /\ Len(g[n]) \in Nat /\ Len(tail) \in Nat
        BY <1>5
    <2>. DEFINE a == Len(tok)
                b == Len(g[n])
                c == Len(tail)
                size == CoapSize(tok, list, Len(pay), FALSE)
    <2>9. /\ a \in Nat /\ b \in Nat /\ c \in Nat /\ Len(bytes) = a + b + c
          /\ f[n] = 4 + at[n] /\ at[n] = a + b /\ size = f[n] + c
        BY <1>7, <1>9, <2>6, <2>7, <2>8
    <2>. HIDE DEF a, b, c, size
    <2>10. 4 + Len(bytes) = size
        BY <2>9
    <2>. QED BY <2>10 DEF size
<1>. QED BY <1>14, <1>15 DEF bytes


----------------------------------------------------------------------------
(* What the receiver reads.                                                 *)

LEMMA OccursSub ==
    ASSUME NEW s \in Seq(Byte), NEW t \in Seq(Byte), NEW p \in Nat, Occurs(s, p, t)
    PROVE  SubSeq(s, p + 1, p + Len(t)) = t
<1>. DEFINE m == Len(t)
            u == SubSeq(s, p + 1, p + m)
<1>1. m \in Nat /\ p + m <= Len(s) /\ \A j \in 1..m : s[p + j] = t[j]
    BY DEF Occurs
<1>2. p + 1 \in 1..(Len(s) + 1) /\ p + m \in (p + 1 - 1)..Len(s)
    BY <1>1
<1>3. (p + m) - (p + 1) + 1 = m
    BY <1>1
<1>4. /\ u \in Seq(Byte)
      /\ Len(u) = IF p + 1 <= p + m THEN (p + m) - (p + 1) + 1 ELSE 0
      /\ \A j \in 1..((p + m) - (p + 1) + 1) : u[j] = s[(p + 1) + j - 1]
    <2>. DEFINE a == p + 1
                e == p + m
    <2>1. a \in Int /\ e \in Int /\ \A j \in a..e : s[j] \in Byte
        BY <1>1
    <2>. HIDE DEF a, e
    <2>2. /\ SubSeq(s, a, e) \in Seq(Byte)
          /\ Len(SubSeq(s, a, e)) = IF a <= e THEN e - a + 1 ELSE 0
          /\ \A j \in 1..(e - a + 1) : SubSeq(s, a, e)[j] = s[a + j - 1]
        BY <2>1, SubSeqProperties
    <2>. QED BY <2>2, Zenon DEF a, e, u
<1>. HIDE DEF u
<1>5. \A j \in 1..m : u[j] = t[j]
    <2>1. \A j \in 1..m : (p + 1) + j - 1 = p + j
        BY <1>1
    <2>. QED BY <1>1, <1>3, <1>4, <2>1
<1>6. Len(u) = m
    BY <1>1, <1>4
<1>7. u = t
    BY <1>4, <1>5, <1>6, SeqEqual DEF m
<1>. QED BY <1>7 DEF u, m

LEMMA TwoBytes ==
    ASSUME NEW m \in Nat, NEW q \in 0..255, q = m \div 256
    PROVE  256 * (q % 256) + (m % 256) = m
<1>. DEFINE r == m % 256
<1>1. r \in Int
    BY SMT
<1>2. r = m - 256 * q
    BY SMT
<1>. HIDE DEF r
<1>3. q % 256 = q
    <2>1. \A x \in 0..255 : x % 256 = x
        BY SMT
    <2>. QED BY <2>1
<1>4. 256 * q + r = m
    BY <1>1, <1>2, SMT
<1>5. 256 * (q % 256) + r = m
    BY <1>3, <1>4
<1>. QED BY <1>5 DEF r

\* The longest value of an option, and the greatest difference of codes, that two
\* bytes can tell.
Longest == 65804

\* Two bytes hold what is left of a number up to 65804.
LEMMA NumberRead ==
    ASSUME NEW n \in Nat, n <= Longest, NEW p \in Nat, Occurs(wire.bytes, p, Extended(n))
    PROVE  Value(Nibble(n), p + 1) = n
<1>1. CASE n >= 269
    <2>. DEFINE hi == ((n - 269) \div 256) % 256
                lo == (n - 269) % 256
    <2>1. Extended(n) = <<hi, lo>> /\ Nibble(n) = 14
        BY <1>1 DEF Extended, Nibble
    <2>2. 256 * hi + lo = n - 269
        <3>. DEFINE m == n - 269
                    q == m \div 256
        <3>1. m \in Nat /\ q \in 0..255
            BY <1>1, SMT DEF Longest
        <3>. HIDE DEF m
        <3>2. 256 * (q % 256) + (m % 256) = m
            BY <3>1, TwoBytes
        <3>. QED BY <3>2, Zenon DEF m
    <2>3. hi \in Int /\ lo \in Int
        <3>. DEFINE a == n - 269
                    c == a \div 256
        <3>1. a \in Int /\ c \in Int
            BY SMT
        <3>. HIDE DEF a, c
        <3>2. c % 256 \in Int /\ a % 256 \in Int
            BY <3>1, SMT
        <3>. QED BY <3>2 DEF a, c
    <2>. HIDE DEF hi, lo
    <2>4. wire.bytes[p + 1] = hi /\ wire.bytes[p + 2] = lo
        <3>1. /\ Len(<<hi, lo>>) = 2 /\ <<hi, lo>>[1] = hi /\ <<hi, lo>>[2] = lo
              /\ 1 \in 1..2 /\ 2 \in 1..2
            OBVIOUS
        <3>. QED BY <2>1, <3>1 DEF Occurs
    <2>5. (p + 1) + 1 = p + 2 /\ 14 # 13
        OBVIOUS
    <2>6. Value(14, p + 1) = 256 * wire.bytes[p + 1] + wire.bytes[(p + 1) + 1] + 269
        BY <2>5 DEF Value
    <2>. QED BY <2>1, <2>2, <2>3, <2>4, <2>5, <2>6
<1>2. CASE n < 269 /\ n >= 13
    <2>1. Extended(n) = <<n - 13>> /\ Nibble(n) = 13
        BY <1>2 DEF Extended, Nibble
    <2>2. wire.bytes[p + 1] = n - 13
        <3>1. Len(<<n - 13>>) = 1 /\ <<n - 13>>[1] = n - 13 /\ 1 \in 1..1
            OBVIOUS
        <3>. QED BY <2>1, <3>1 DEF Occurs
    <2>3. Value(13, p + 1) = wire.bytes[p + 1] + 13
        BY DEF Value
    <2>. QED BY <2>1, <2>2, <2>3
<1>3. CASE n < 13
    <2>1. Nibble(n) = n /\ n # 13 /\ n # 14
        BY <1>3 DEF Nibble
    <2>. QED BY <2>1 DEF Value
<1>. QED BY <1>1, <1>2, <1>3

\* The receiver finds the k-th option behind the place p.
LEMMA OptionRead ==
    ASSUME NEW list \in Seq(Option), Sorted(list), NEW k \in 1..Len(list),
           Len(list[k].val) <= Longest, NEW p \in Nat,
           wire.bytes \in Seq(Byte), Occurs(wire.bytes, p, EncodedOption(list, k))
    PROVE  LET delta == wire.bytes[p + 1] \div 16
               len   == wire.bytes[p + 1] % 16
               q     == (p + 1) + 1 + Width(delta)
               start == q + Width(len)
               end   == start + Value(len, q)
           IN  /\ p + 1 <= Len(wire.bytes) /\ wire.bytes[p + 1] # 255
               /\ delta # 15 /\ len # 15
               /\ Value(delta, (p + 1) + 1) = Delta(list, k)
               /\ SubSeq(wire.bytes, start, end - 1) = list[k].val
               /\ end = p + SizeOf(list, k) + 1
<1>. DEFINE d == Delta(list, k)
            l == Len(list[k].val)
            b == First8(list, k)
            v == list[k].val
            bytes == wire.bytes
<1>1. d \in Nat /\ d <= Longest /\ l \in Nat /\ l <= Longest
    <2>1. d \in Nat /\ d <= 65535 /\ l \in Nat
        BY DeltaType
    <2>. HIDE DEF d, l
    <2>2. d <= Longest
        BY <2>1, SMT DEF Longest
    <2>. QED BY <2>1, <2>2 DEF l
<1>2. v \in Seq(Byte)
    <2>1. list[k] \in Option
        OBVIOUS
    <2>. QED BY <2>1, OptionType
<1>3. SizeOf(list, k) = 1 + More(d) + More(l) + l
    BY DEF SizeOf
<1>4. <<b>> \in Seq(Byte) /\ Len(<<b>>) = 1 /\ <<b>>[1] = b
    BY OptionBytes
<1>5. EncodedOption(list, k) = ((<<b>> \o Extended(d)) \o Extended(l)) \o v
    BY DEF EncodedOption, First8
<1>6. b = 16 * Nibble(d) + Nibble(l)
    BY DEF First8
<1>. HIDE DEF d, l, b, v
<1>7. /\ Nibble(d) \in 0..14 /\ Nibble(l) \in 0..14 /\ More(d) \in Nat /\ More(l) \in Nat
      /\ Extended(d) \in Seq(Byte) /\ Len(Extended(d)) = More(d)
      /\ Extended(l) \in Seq(Byte) /\ Len(Extended(l)) = More(l)
      /\ More(d) = Width(Nibble(d)) /\ More(l) = Width(Nibble(l))
    BY <1>1, NumberType
<1>. DEFINE s == <<b>> \o Extended(d)
            t == s \o Extended(l)
<1>8. s \in Seq(Byte) /\ Len(s) = 1 + More(d)
    BY <1>4, <1>7, ByteConcat
<1>9. t \in Seq(Byte) /\ Len(t) = 1 + More(d) + More(l)
    <2>. HIDE DEF s
    <2>. QED BY <1>7, <1>8, ByteConcat
<1>10. Occurs(bytes, p, t) /\ Occurs(bytes, p + Len(t), v)
    <2>1. Occurs(bytes, p, t \o v)
        BY <1>5
    <2>. HIDE DEF t, bytes
    <2>. QED BY <1>2, <1>9, <2>1, OccursParts DEF bytes
<1>11. Occurs(bytes, p, s) /\ Occurs(bytes, p + Len(s), Extended(l))
    <2>. HIDE DEF s, bytes
    <2>. QED BY <1>7, <1>8, <1>10, OccursParts DEF bytes
<1>12. Occurs(bytes, p, <<b>>) /\ Occurs(bytes, p + 1, Extended(d))
    <2>. HIDE DEF bytes
    <2>. QED BY <1>4, <1>7, <1>11, OccursParts DEF bytes
<1>. HIDE DEF s, t
<1>13. p + 1 <= Len(bytes) /\ bytes[p + 1] = b
    <2>1. 1 \in 1..1
        OBVIOUS
    <2>. QED BY <1>4, <1>12, <2>1 DEF Occurs
<1>14. b \div 16 = Nibble(d) /\ b % 16 = Nibble(l) /\ b # 255
    <2>1. ASSUME NEW x \in 0..14, NEW y \in 0..14
          PROVE  /\ (16 * x + y) \div 16 = x /\ (16 * x + y) % 16 = y
                 /\ 16 * x + y # 255
        BY SMT
    <2>. QED BY <1>6, <1>7, <2>1
<1>15. Value(Nibble(d), (p + 1) + 1) = d
    <2>1. p + 1 \in Nat
        OBVIOUS
    <2>. QED BY <1>1, <1>12, <2>1, NumberRead
<1>. DEFINE q == (p + 1) + 1 + Width(Nibble(d))
            start == q + Width(Nibble(l))
<1>. DEFINE md == More(d)
            ml == More(l)
            lt == p + Len(t)
            z == SizeOf(list, k)
<1>16. /\ md \in Nat /\ ml \in Nat /\ l \in Nat /\ l = Len(v)
       /\ p + Len(s) = p + 1 + md /\ lt = p + (1 + md + ml) /\ z = 1 + md + ml + l
       /\ q = (p + 1) + 1 + md /\ start = q + ml
    <2>1. l \in Nat /\ l = Len(v) /\ z = 1 + md + ml + l
        BY <1>1, <1>3, Zenon DEF l, v
    <2>2. md \in Nat /\ ml \in Nat /\ md = Width(Nibble(d)) /\ ml = Width(Nibble(l))
        BY <1>7, Zenon
    <2>3. Len(s) = 1 + md /\ Len(t) = 1 + md + ml
        BY <1>8, <1>9, Zenon
    <2>. HIDE DEF md, ml
    <2>4. q = (p + 1) + 1 + md /\ start = q + ml
        BY <2>2, Zenon
    <2>. HIDE DEF z, q, start
    <2>5. p + Len(s) = p + 1 + md /\ lt = p + (1 + md + ml)
        BY <2>2, <2>3
    <2>. QED BY <2>1, <2>2, <2>4, <2>5
<1>. HIDE DEF md, ml, lt, z, q, start
<1>17. q = (p + Len(s)) + 1 /\ p + Len(s) \in Nat
    BY <1>16
<1>18. start = lt + 1 /\ lt \in Nat /\ (start + l) - 1 = lt + Len(v) /\ start + l = p + z + 1
    BY <1>16
<1>19. Value(Nibble(l), q) = l
    BY <1>1, <1>11, <1>17, NumberRead
<1>20. SubSeq(bytes, start, (start + l) - 1) = v
    <2>1. Occurs(bytes, lt, v) /\ bytes \in Seq(Byte)
        BY <1>10 DEF lt
    <2>2. SubSeq(bytes, lt + 1, lt + Len(v)) = v
        BY <1>2, <1>18, <2>1, OccursSub
    <2>. QED BY <1>18, <2>2
<1>21. Nibble(d) # 15 /\ Nibble(l) # 15
    <2>1. \A x \in 0..14 : x # 15
        OBVIOUS
    <2>. QED BY <1>7, <2>1
<1>22. start + Value(Nibble(l), q) = p + z + 1
    BY <1>18, <1>19
<1>23. SubSeq(bytes, start, (start + Value(Nibble(l), q)) - 1) = v
    BY <1>19, <1>20
<1>. HIDE DEF q
<1>. QED BY <1>13, <1>14, <1>15, <1>21, <1>22, <1>23, Zenon DEF start, q, z, d, v, bytes


\* An option whose code is not smaller than those of the list is pushed to its end.
LEMMA PushLast ==
    ASSUME NEW list \in Seq(Option), NEW o \in Option, Sorted(list),
           \A k \in 1..Len(list) : list[k].code <= o.code
    PROVE  /\ PushOption(list, o) \in Seq(Option)
           /\ Len(PushOption(list, o)) = Len(list) + 1
           /\ PushOption(list, o)[Len(list) + 1] = o
           /\ \A k \in 1..Len(list) : PushOption(list, o)[k] = list[k]
<1>. DEFINE n == Len(list)
            longer == PushOption(list, o)
<1>1. longer \in Seq(Option) /\ Len(longer) = n + 1 /\ n \in Nat
    BY PushPlace
<1>2. PICK p \in 1..(n + 1) :
         /\ \A k \in 1..n : k < p <=> list[k].code <= o.code
         /\ \A k \in 1..(n + 1) :
               longer[k] = IF k < p THEN list[k] ELSE IF k = p THEN o ELSE list[k - 1]
    BY PushPlace
<1>. HIDE DEF longer
<1>3. p = n + 1
    <2>1. ASSUME p # n + 1 PROVE FALSE
        <3>1. p \in 1..n /\ ~(p < p)
            BY <1>1, <2>1
        <3>. QED BY <1>2, <3>1
    <2>. QED BY <2>1
<1>4. longer[n + 1] = o /\ \A k \in 1..n : longer[k] = list[k]
    <2>1. \A k \in 1..n : k \in 1..(n + 1) /\ k < p
        BY <1>1, <1>3
    <2>2. n + 1 \in 1..(n + 1) /\ ~(n + 1 < n + 1)
        BY <1>1
    <2>. QED BY <1>2, <1>3, <2>1, <2>2
<1>. QED BY <1>1, <1>4 DEF longer

----------------------------------------------------------------------------
(* The invariant.                                                           *)

\* The message that is being made.
Built ==
    /\ token \in Tokens /\ payload \in Payloads
    /\ opts \in Seq(Option) /\ pushed \in Seq(Option)
    /\ \E place : Follows(opts, pushed, place)

\* The encoded message is the one that was made, until the receiver is done.
Carried ==
    /\ phase \in {"build", "decode", "done", "toolarge", "rejected"}
    /\ wire.toklen \in 0..7 /\ wire.bytes \in Seq(Byte)
    /\ phase \in {"build", "toolarge"} =>
          i = 1 /\ opt_nb = 0 /\ got = NoMessage /\ wire.bytes = <<>>
    /\ Sent => wire = Encoded(token, opts, payload)

\* The tokens and the values of the options that the format can hold: the length of
\* a token has three bits, that of a value two bytes.
Fitting ==
    /\ \A t \in Tokens : Len(t) < 8
    /\ \A o \in Options : Len(o.val) <= Longest

Fits == \A k \in 1..Len(pushed) : Len(pushed[k].val) <= Longest

\* The receiver has the token and the first k options, and reads what follows them.
Reads(at, k) ==
    /\ Layout(wire.bytes, at, token, opts, payload)
    /\ k \in 0..Len(opts) /\ i = at[k] + 1
    /\ opt_nb = IF k = 0 THEN 0 ELSE opts[k].code
    /\ got = [token |-> token, opts |-> got.opts, payload |-> got.payload]
    /\ got.opts \in Seq(Option) /\ Len(got.opts) = k
    /\ \A j \in 1..k : got.opts[j] = opts[j]
    /\ \/ phase = "decode" /\ got.payload = <<>>
       \/ /\ phase = "done" /\ k = Len(opts)
          /\ IF payload = <<>> THEN got.payload = <<>>
             ELSE \E b \in Beyond : got.payload = payload \o <<b>>

Decoding == Sent => \E at, k : Reads(at, k)

Invariant == Built /\ Carried
FittingInvariant == Invariant /\ Fits /\ Decoding

LEMMA MessageType ==
    /\ \A t \in Tokens : t \in Seq(Byte)
    /\ \A p \in Payloads : p \in Seq(Byte)
    /\ \A o \in Options : o \in Option
    /\ \A enc \in Foreign : enc.toklen \in 0..7 /\ enc.bytes \in Seq(Byte)
    /\ \A b \in Beyond : b \in Byte
<1>1. /\ Tokens \cup Payloads \subseteq Seq(Byte) /\ Options \subseteq Option
      /\ Foreign \subseteq [toklen: 0..7, bytes: Seq(Byte)] /\ Beyond \subseteq Byte
    BY CodecAssumption
<1>2. \A enc \in [toklen: 0..7, bytes: Seq(Byte)] : enc.toklen \in 0..7 /\ enc.bytes \in Seq(Byte)
    OBVIOUS
<1>. QED BY <1>1, <1>2

LEMMA EncodedType ==
    ASSUME NEW tok \in Seq(Byte), NEW list \in Seq(Option), NEW pay \in Seq(Byte), Sorted(list)
    PROVE  LET enc == Encoded(tok, list, pay)
           IN  enc.toklen \in 0..7 /\ enc.bytes \in Seq(Byte) /\ enc.toklen = Len(tok) % 8
<1>1. Encoded(tok, list, pay).bytes \in Seq(Byte)
    BY EncodedLayout DEF Layout
<1>2. Encoded(tok, list, pay).toklen = Len(tok) % 8
    BY Zenon DEF Encoded
<1>3. Len(tok) % 8 \in 0..7
    OBVIOUS
<1>. QED BY <1>1, <1>2, <1>3

LEMMA InitBuilt == Init => Built
<1>. SUFFICES ASSUME Init PROVE Built
    OBVIOUS
<1>1. token \in Tokens /\ payload \in Payloads /\ opts = <<>> /\ pushed = <<>>
    BY DEF Init
<1>2. opts \in Seq(Option) /\ pushed \in Seq(Option) /\ Len(opts) = 0 /\ Len(pushed) = 0
    BY <1>1
<1>. DEFINE place == [k \in 1..0 |-> k]
<1>3. place \in [1..0 -> 1..0] /\ 1..0 = {}
    OBVIOUS
<1>. HIDE DEF place
<1>4. Follows(opts, pushed, place)
    BY <1>2, <1>3 DEF Follows
<1>. QED BY <1>1, <1>2, <1>4 DEF Built

\* push_option and set_max_age.
LEMMA PushBuilt ==
    ASSUME Built, NEW o \in Option, opts' = PushOption(opts, o), pushed' = Append(pushed, o),
           UNCHANGED <<token, payload>>
    PROVE  Built'
<1>1. PICK place : Follows(opts, pushed, place)
    BY DEF Built
<1>2. opts \in Seq(Option) /\ pushed \in Seq(Option) /\ Sorted(opts)
    BY <1>1, FollowsSorted DEF Built
<1>3. opts' \in Seq(Option) /\ pushed' \in Seq(Option)
    BY <1>2, PushPlace
<1>4. \E next : Follows(opts', pushed', next)
    BY <1>1, <1>2, PushFollows
<1>. QED BY <1>3, <1>4 DEF Built

LEMMA AgeOption ==
    ASSUME NEW dur
    PROVE  /\ UintToByte(dur) = <<>> /\ UintToByte(dur) \in Seq(Byte)
           /\ [code |-> MO_Max_Age, val |-> UintToByte(dur)] \in Option
<1>1. UintToByte(dur) = <<>> /\ UintToByte(dur) \in Seq(Byte)
    BY DEF UintToByte
<1>2. MO_Max_Age \in Code
    BY SMT DEF MO_Max_Age, Code
<1>. QED BY <1>1, <1>2 DEF Option

LEMMA MaxAgeStep ==
    ASSUME Built, NEW dur \in Ages, NEW reset \in BOOLEAN, MaxAge(reset, dur)
    PROVE  /\ Built'
           /\ \A k \in 1..Len(pushed') :
                 (k \in 1..Len(pushed) /\ pushed'[k] = pushed[k]) \/ pushed'[k].val = <<>>
<1>. DEFINE v == UintToByte(dur)
            o == [code |-> MO_Max_Age, val |-> v]
            k == First(opts, MO_Max_Age)
            m == First(pushed, MO_Max_Age)
<1>1. v = <<>> /\ v \in Seq(Byte) /\ o \in Option /\ o.val = v
    BY AgeOption
<1>2. /\ opts' = SetMaxAge(opts, reset, dur) /\ UNCHANGED <<token, payload>>
      /\ pushed' = IF k = 0 THEN Append(pushed, o)
                   ELSE IF reset THEN [pushed EXCEPT ![m].val = v] ELSE pushed
    BY Zenon DEF MaxAge
<1>3. opts' = IF k = 0 THEN PushOption(opts, o)
              ELSE IF reset THEN [opts EXCEPT ![k].val = v] ELSE opts
    BY <1>2, Zenon DEF SetMaxAge
<1>4. PICK place : Follows(opts, pushed, place)
    BY DEF Built
<1>5. opts \in Seq(Option) /\ pushed \in Seq(Option)
    BY DEF Built
<1>. HIDE DEF v, o
<1>6. CASE k = 0
    <2>1. opts' = PushOption(opts, o) /\ pushed' = Append(pushed, o)
        BY <1>2, <1>3, <1>6
    <2>2. Built'
        BY <1>1, <1>2, <2>1, PushBuilt
    <2>3. /\ Len(pushed') = Len(pushed) + 1 /\ pushed'[Len(pushed) + 1] = o
          /\ \A j \in 1..Len(pushed) : pushed'[j] = pushed[j]
        BY <1>1, <1>5, <2>1
    <2>4. \A j \in 1..(Len(pushed) + 1) : j \in 1..Len(pushed) \/ j = Len(pushed) + 1
        BY <1>5
    <2>. QED BY <1>1, <2>2, <2>3, <2>4
<1>7. CASE k # 0 /\ reset
    <2>1. opts' = [opts EXCEPT ![k].val = v] /\ pushed' = [pushed EXCEPT ![m].val = v]
        BY <1>2, <1>3, <1>7
    <2>2. /\ opts' \in Seq(Option) /\ pushed' \in Seq(Option) /\ Follows(opts', pushed', place)
          /\ Len(pushed') = Len(pushed)
          /\ \A j \in 1..Len(pushed) : pushed'[j] = pushed[j] \/ pushed'[j].val = v
        <3>. DEFINE r == Renewed(opts, MO_Max_Age, v)
                    p == Renewed(pushed, MO_Max_Age, v)
        <3>1. opts' = r /\ pushed' = p
            BY <2>1, Zenon DEF Renewed
        <3>2. /\ r \in Seq(Option) /\ p \in Seq(Option)
              /\ Follows(r, p, place) /\ Len(p) = Len(pushed)
              /\ \A j \in 1..Len(pushed) : p[j] = pushed[j] \/ p[j].val = v
            <4>1. v \in Seq(Byte) /\ First(opts, MO_Max_Age) # 0
                BY <1>1, <1>7
            <4>. QED BY <1>4, <1>5, <4>1, ReplaceFollows
        <3>. HIDE DEF r, p
        <3>. QED BY <3>1, <3>2
    <2>3. Built'
        BY <1>2, <2>2 DEF Built
    <2>. QED BY <1>1, <2>2, <2>3
<1>8. CASE k # 0 /\ ~reset
    <2>1. opts' = opts /\ pushed' = pushed
        BY <1>2, <1>3, <1>8
    <2>. QED BY <1>2, <2>1 DEF Built
<1>. QED BY <1>6, <1>7, <1>8

LEMMA BuiltStep ==
    ASSUME Built, [Next]_vars
    PROVE  Built'
<1>1. ASSUME UNCHANGED message PROVE Built'
    BY <1>1 DEF message, Built
<1>2. ASSUME NEW o \in Options, Push(o) PROVE Built'
    <2>1. o \in Option
        BY MessageType
    <2>. QED BY <1>2, <2>1, PushBuilt DEF Push
<1>3. ASSUME NEW dur \in Ages, NEW reset \in BOOLEAN, MaxAge(reset, dur) PROVE Built'
    BY <1>3, MaxAgeStep
<1>4. CASE Encode
    BY <1>1, <1>4, Zenon DEF Encode, Decode
<1>5. CASE EncodeFails
    BY <1>1, <1>5, Zenon DEF EncodeFails
<1>6. ASSUME NEW enc \in Foreign, Decode(enc) PROVE Built'
    BY <1>1, <1>6, Zenon DEF Decode
<1>7. CASE DecodeOption
    BY <1>1, <1>7, Zenon DEF DecodeOption
<1>8. CASE DecodeFails
    BY <1>1, <1>8, Zenon DEF DecodeFails
<1>9. CASE DecodePayload
    BY <1>1, <1>9, Zenon DEF DecodePayload
<1>10. CASE UNCHANGED vars
    BY <1>1, <1>10, Zenon DEF vars
<1>. QED BY <1>2, <1>3, <1>4, <1>5, <1>6, <1>7, <1>8, <1>9, <1>10, Zenon DEF Next

LEMMA BuiltType ==
    ASSUME Built
    PROVE  /\ token \in Seq(Byte) /\ payload \in Seq(Byte)
           /\ opts \in Seq(Option) /\ pushed \in Seq(Option) /\ Sorted(opts)
BY MessageType, FollowsSorted DEF Built

LEMMA CarriedStep ==
    ASSUME Built, Carried, [Next]_vars
    PROVE  Carried'
<1>. USE DEF Carried, Sent
<1>1. ASSUME NEW o \in Options, Push(o) PROVE Carried'
    BY <1>1 DEF Push
<1>2. ASSUME NEW dur \in Ages, NEW reset \in BOOLEAN, MaxAge(reset, dur) PROVE Carried'
    BY <1>2, Zenon DEF MaxAge
<1>3. CASE Encode
    <2>. DEFINE enc == Encoded(token, opts, payload)
    <2>1. enc.toklen \in 0..7 /\ enc.bytes \in Seq(Byte)
        BY BuiltType, EncodedType
    <2>2. wire' = enc /\ phase' = "decode" /\ UNCHANGED message
        BY <1>3, Zenon DEF Encode, Decode
    <2>3. wire' = Encoded(token, opts, payload)'
        BY <2>2, Zenon DEF message
    <2>. HIDE DEF enc
    <2>. QED BY <2>1, <2>2, <2>3
<1>4. CASE EncodeFails
    BY <1>4 DEF EncodeFails, message
<1>5. ASSUME NEW enc \in Foreign, Decode(enc) PROVE Carried'
    <2>1. wire' = enc /\ phase' = "decode" /\ wire' \in Foreign
        BY <1>5, Zenon DEF Decode
    <2>. QED BY <2>1, MessageType
<1>6. CASE DecodeOption
    <2>1. phase = "decode" /\ phase' = "decode" /\ UNCHANGED <<message, wire>>
        BY <1>6, Zenon DEF DecodeOption
    <2>. QED BY <2>1 DEF message
<1>7. CASE DecodeFails
    BY <1>7 DEF DecodeFails, message
<1>8. CASE DecodePayload
    <2>1. phase = "decode" /\ phase' = "done" /\ UNCHANGED <<message, wire>>
        BY <1>8, Zenon DEF DecodePayload
    <2>. QED BY <2>1 DEF message
<1>9. CASE UNCHANGED vars
    BY <1>9 DEF vars, message
<1>. QED BY <1>1, <1>2, <1>3, <1>4, <1>5, <1>6, <1>7, <1>8, <1>9, Zenon DEF Next

\* What is said of the messages holds whatever the tokens and the options are.
THEOREM InvariantHolds == Spec => []Invariant
<1>1. Init => Invariant
    <2>1. Init => Carried
        BY DEF Init, Carried, Sent
    <2>. QED BY <2>1, InitBuilt DEF Invariant
<1>2. Invariant /\ [Next]_vars => Invariant'
    BY BuiltStep, CarriedStep, Zenon DEF Invariant
<1>. QED BY <1>1, <1>2, PTL DEF Spec


\* The list of options is sorted, and options with the same code keep the order of
\* their push_option, whatever the options are and however many.
THEOREM OptionsOrdered == Spec => []OptionsInOrder
<1>1. Invariant => OptionsInOrder
    <2>. SUFFICES ASSUME Built PROVE OptionsInOrder
        BY DEF Invariant
    <2>1. PICK place : Follows(opts, pushed, place)
        BY DEF Built
    <2>. DEFINE n == Len(opts)
    <2>2. /\ place \in [1..n -> 1..n] /\ Len(pushed) = n
          /\ \A k \in 1..n : opts[k] = pushed[place[k]]
          /\ \A j, k \in 1..n :
                j < k => /\ opts[j].code <= opts[k].code /\ place[j] # place[k]
                         /\ opts[j].code = opts[k].code => place[j] < place[k]
          /\ \A m \in 1..n : \E k \in 1..n : place[k] = m
        BY <2>1 DEF Follows
    <2>3. DOMAIN opts = 1..n /\ DOMAIN pushed = 1..n /\ n \in Nat
        BY <2>2, BuiltType
    <2>4. \A k \in 1..n : opts[k].code \in Nat
        <3>1. \A k \in 1..n : opts[k] \in Option
            BY BuiltType
        <3>. QED BY <3>1, OptionType
    <2>. HIDE DEF n
    <2>5. \A j, k \in 1..n : place[j] = place[k] => j = k
        <3>1. SUFFICES ASSUME NEW j \in 1..n, NEW k \in 1..n, place[j] = place[k] PROVE j = k
            BY Zenon
        <3>2. ~(j < k) /\ ~(k < j)
            BY <2>2, <3>1
        <3>. QED BY <3>2
    <2>6. place \in Bijection(1..n, 1..n)
        BY <2>2, <2>5 DEF Bijection, Injection, Surjection, IsInjective
    <2>7. \A j, k \in 1..n :
             j < k => \/ opts[j].code < opts[k].code
                      \/ opts[j].code = opts[k].code /\ place[j] < place[k]
        <3>1. SUFFICES ASSUME NEW j \in 1..n, NEW k \in 1..n, j < k
                       PROVE  \/ opts[j].code < opts[k].code
                              \/ opts[j].code = opts[k].code /\ place[j] < place[k]
            BY Zenon
        <3>2. /\ opts[j].code <= opts[k].code
              /\ opts[j].code = opts[k].code => place[j] < place[k]
            BY <2>2, <3>1
        <3>. QED BY <2>4, <3>2
    <2>. QED BY <2>2, <2>3, <2>6, <2>7, Zenon DEF OptionsInOrder
<1>. QED BY <1>1, InvariantHolds, PTL

\* The bytes of an encoded message are those that coap_size counts.
THEOREM SizeCorrect == Spec => []SizeIsExact
<1>1. Invariant => SizeIsExact
    <2>. SUFFICES ASSUME Built, Carried, Sent
                  PROVE  4 + Len(wire.bytes) = CoapSize(token, opts, Len(payload), FALSE)
        BY DEF Invariant, SizeIsExact
    <2>1. wire = Encoded(token, opts, payload)
        BY DEF Carried
    <2>2. /\ token \in Seq(Byte) /\ opts \in Seq(Option) /\ payload \in Seq(Byte)
          /\ Sorted(opts)
        BY BuiltType
    <2>3. 4 + Len(Encoded(token, opts, payload).bytes)
             = CoapSize(token, opts, Len(payload), FALSE)
        BY <2>2, EncodedLayout, Zenon
    <2>. QED BY <2>1, <2>3
<1>. QED BY <1>1, InvariantHolds, PTL

\* avail_space announces the room that there is.
THEOREM SpaceCorrect == Spec => []SpaceIsUsable
<1>1. Invariant => SpaceIsUsable
    <2>. SUFFICES ASSUME Built PROVE SpaceIsUsable
        BY DEF Invariant
    <2>1. /\ token \in Seq(Byte) /\ opts \in Seq(Option) /\ Sorted(opts)
        BY BuiltType
    <2>2. PICK f : /\ IsSum(f, 4 + Len(token), opts)
                   /\ \A paylen, emulpayload :
                        CoapSize(token, opts, paylen, emulpayload) =
                          f[Len(opts)] + (IF paylen > 0 \/ emulpayload THEN 1 + paylen ELSE 0)
        BY <2>1, CoapSizeDef
    <2>. DEFINE sum == f[Len(opts)]
                avail == AvailSpace(token, opts, 0)
    <2>3. sum \in Nat /\ Space \in Nat
        <3>1. Len(opts) \in Nat
            BY <2>1
        <3>2. Len(opts) \in 0..Len(opts)
            BY <3>1
        <3>. QED BY <2>2, <3>2, CodecAssumption DEF IsSum
    <2>4. /\ CoapSize(token, opts, 0, TRUE) = sum + (1 + 0)
          /\ \A m \in Nat : m > 0 => CoapSize(token, opts, m, FALSE) = sum + (1 + m)
        BY <2>2
    <2>. HIDE DEF sum
    <2>5. avail = IF sum + 1 <= Space THEN Space - (sum + 1) ELSE 0
        <3>. DEFINE size == CoapSize(token, opts, 0, TRUE)
        <3>1. avail = IF size <= Space THEN Space - size ELSE 0
            BY Zenon DEF AvailSpace
        <3>. HIDE DEF size, avail
        <3>2. size = sum + 1
            <4>1. size = sum + (1 + 0)
                BY <2>4, Zenon DEF size
            <4>. QED BY <2>3, <4>1
        <3>. QED BY <3>1, <3>2
    <2>. HIDE DEF avail
    <2>6. ASSUME avail > 0
          PROVE  /\ CoapSize(token, opts, avail, FALSE) <= Space
                 /\ CoapSize(token, opts, avail + 1, FALSE) > Space
        <3>1. avail = Space - (sum + 1) /\ avail \in Nat /\ avail + 1 \in Nat /\ avail + 1 > 0
            BY <2>3, <2>5, <2>6
        <3>2. CoapSize(token, opts, avail, FALSE) = sum + (1 + avail)
            BY <2>4, <2>6, <3>1
        <3>3. CoapSize(token, opts, avail + 1, FALSE) = sum + (1 + (avail + 1))
            BY <2>4, <3>1
        <3>4. sum + (1 + avail) <= Space /\ sum + (1 + (avail + 1)) > Space
            BY <2>3, <3>1
        <3>. QED BY <3>2, <3>3, <3>4
    <2>. QED BY <2>6 DEF SpaceIsUsable, avail
<1>. QED BY <1>1, InvariantHolds, PTL

----------------------------------------------------------------------------
(* The way back.                                                            *)

LEMMA FitsStep ==
    ASSUME Fitting, Built, Fits, [Next]_vars
    PROVE  Fits'
<1>1. ASSUME UNCHANGED message PROVE Fits'
    BY <1>1 DEF message, Fits
<1>2. ASSUME NEW o \in Options, Push(o) PROVE Fits'
    <2>1. /\ pushed \in Seq(Option) /\ o \in Option /\ pushed' = Append(pushed, o)
          /\ Len(o.val) <= Longest
        BY <1>2, BuiltType, MessageType DEF Push, Fitting
    <2>2. /\ Len(pushed') = Len(pushed) + 1 /\ pushed'[Len(pushed) + 1] = o
          /\ \A j \in 1..Len(pushed) : pushed'[j] = pushed[j]
          /\ \A j \in 1..(Len(pushed) + 1) : j \in 1..Len(pushed) \/ j = Len(pushed) + 1
        BY <2>1
    <2>. QED BY <2>1, <2>2 DEF Fits
<1>3. ASSUME NEW dur \in Ages, NEW reset \in BOOLEAN, MaxAge(reset, dur) PROVE Fits'
    <2>1. \A k \in 1..Len(pushed') :
             (k \in 1..Len(pushed) /\ pushed'[k] = pushed[k]) \/ pushed'[k].val = <<>>
        BY <1>3, MaxAgeStep
    <2>2. Len(<<>>) <= Longest
        BY SMT DEF Longest
    <2>. QED BY <2>1, <2>2, Zenon DEF Fits
<1>4. CASE Encode
    BY <1>1, <1>4, Zenon DEF Encode, Decode
<1>5. CASE EncodeFails
    BY <1>1, <1>5, Zenon DEF EncodeFails
<1>6. ASSUME NEW enc \in Foreign, Decode(enc) PROVE Fits'
    BY <1>1, <1>6, Zenon DEF Decode
<1>7. CASE DecodeOption
    BY <1>1, <1>7, Zenon DEF DecodeOption
<1>8. CASE DecodeFails
    BY <1>1, <1>8, Zenon DEF DecodeFails
<1>9. CASE DecodePayload
    BY <1>1, <1>9, Zenon DEF DecodePayload
<1>10. CASE UNCHANGED vars
    BY <1>1, <1>10, Zenon DEF vars
<1>. QED BY <1>2, <1>3, <1>4, <1>5, <1>6, <1>7, <1>8, <1>9, <1>10, Zenon DEF Next

LEMMA ValuesFit ==
    ASSUME Built, Fits
    PROVE  \A k \in 1..Len(opts) : Len(opts[k].val) <= Longest
<1>1. PICK place : Follows(opts, pushed, place)
    BY DEF Built
<1>2. /\ place \in [1..Len(opts) -> 1..Len(pushed)]
      /\ \A k \in 1..Len(opts) : opts[k] = pushed[place[k]]
    BY <1>1, Zenon DEF Follows
<1>3. \A k \in 1..Len(opts) : place[k] \in 1..Len(pushed)
    BY <1>2
<1>. QED BY <1>2, <1>3, Zenon DEF Fits

\* Encoding: nothing has been read but the token.
LEMMA EncodeReads ==
    ASSUME Fitting, Built, Carried, Encode
    PROVE  \E at, k : Reads(at, k)'
<1>. DEFINE enc == Encoded(token, opts, payload)
            n == Len(opts)
<1>1. /\ token \in Seq(Byte) /\ opts \in Seq(Option) /\ payload \in Seq(Byte)
      /\ Sorted(opts) /\ n \in Nat
    BY BuiltType
<1>2. PICK at : Layout(enc.bytes, at, token, opts, payload)
    BY <1>1, EncodedLayout
<1>3. enc.bytes \in Seq(Byte) /\ enc.toklen = Len(token)
    <2>1. Len(token) < 8 /\ Len(token) \in Nat
        BY <1>1 DEF Fitting, Built
    <2>2. Len(token) % 8 = Len(token)
        <3>. DEFINE m == Len(token)
        <3>1. m < 8 /\ m \in Nat
            BY <2>1
        <3>. HIDE DEF m
        <3>2. m \in 0..7
            BY <3>1
        <3>3. \A x \in 0..7 : x % 8 = x
            BY SMT
        <3>4. m % 8 = m
            BY <3>2, <3>3
        <3>. QED BY <3>4 DEF m
    <2>. QED BY <1>1, <2>2, EncodedType
<1>4. /\ phase = "build" /\ phase' = "decode" /\ wire' = enc /\ i' = enc.toklen + 1
      /\ got' = [NoMessage EXCEPT !.token = SubSeq(enc.bytes, 1, enc.toklen)]
      /\ UNCHANGED <<message, opt_nb>>
    BY Zenon DEF Encode, Decode
<1>. HIDE DEF enc
<1>5. UNCHANGED <<token, opts, payload, pushed>>
    BY <1>4, Zenon DEF message
<1>6. Occurs(enc.bytes, 0, token) /\ at[0] = Len(token)
    BY <1>2, Zenon DEF Layout
<1>7. SubSeq(enc.bytes, 1, enc.toklen) = token
    <2>1. 0 + 1 = 1 /\ 0 + Len(token) = Len(token) /\ 0 \in Nat
        BY <1>1
    <2>. QED BY <1>1, <1>3, <1>6, <2>1, OccursSub
<1>8. got' = [token |-> token, opts |-> <<>>, payload |-> <<>>]
    BY <1>4, <1>7 DEF NoMessage
<1>9. i' = at[0] + 1 /\ opt_nb' = 0
    BY <1>3, <1>4, <1>6 DEF Carried
<1>10. /\ got'.opts = <<>> /\ got'.payload = <<>> /\ Len(got'.opts) = 0
       /\ got'.opts \in Seq(Option) /\ 1..0 = {}
       /\ got' = [token |-> token, opts |-> got'.opts, payload |-> got'.payload]
    BY <1>8
<1>11. Layout(wire'.bytes, at, token', opts', payload')
    BY <1>2, <1>4, <1>5
<1>12. 0 \in 0..n
    BY <1>1
<1>13. Reads(at, 0)'
    BY <1>4, <1>5, <1>9, <1>10, <1>11, <1>12 DEF Reads
<1>. QED BY <1>13

\* As long as not all options have been read, the next one is there.
LEMMA OptionThere ==
    ASSUME Built, Fits, NEW at, NEW k, Reads(at, k), k # Len(opts)
    PROVE  LET delta == wire.bytes[i] \div 16
               len   == wire.bytes[i] % 16
               q     == i + 1 + Width(delta)
               start == q + Width(len)
               end   == start + Value(len, q)
           IN  /\ k + 1 \in 1..Len(opts) /\ MoreOptions
               /\ delta # 15 /\ len # 15
               /\ opt_nb + Value(delta, i + 1) = opts[k + 1].code
               /\ SubSeq(wire.bytes, start, end - 1) = opts[k + 1].val
               /\ end = at[k + 1] + 1
<1>. DEFINE n == Len(opts)
            p == at[k]
<1>1. /\ opts \in Seq(Option) /\ Sorted(opts) /\ n \in Nat
    BY BuiltType
<1>2. /\ k \in 0..n /\ i = p + 1 /\ opt_nb = IF k = 0 THEN 0 ELSE opts[k].code
      /\ Layout(wire.bytes, at, token, opts, payload)
    BY Zenon DEF Reads
<1>3. k \in Nat /\ k + 1 \in 1..n /\ (k + 1) - 1 = k
    BY <1>1, <1>2
<1>4. /\ wire.bytes \in Seq(Byte) /\ at \in [0..n -> Nat]
      /\ \A j \in 1..n : /\ Occurs(wire.bytes, at[j - 1], EncodedOption(opts, j))
                          /\ at[j] = at[j - 1] + SizeOf(opts, j)
    BY <1>2, Zenon DEF Layout
<1>5. /\ p \in Nat /\ Occurs(wire.bytes, p, EncodedOption(opts, k + 1))
      /\ at[k + 1] = p + SizeOf(opts, k + 1)
    <2>1. p \in Nat
        BY <1>2, <1>4
    <2>2. /\ Occurs(wire.bytes, at[(k + 1) - 1], EncodedOption(opts, k + 1))
          /\ at[k + 1] = at[(k + 1) - 1] + SizeOf(opts, k + 1)
        BY <1>3, <1>4, Zenon
    <2>. QED BY <1>3, <2>1, <2>2
<1>6. Len(opts[k + 1].val) <= Longest
    BY <1>3, ValuesFit
<1>. HIDE DEF p
<1>. DEFINE delta == wire.bytes[p + 1] \div 16
            len   == wire.bytes[p + 1] % 16
            q     == (p + 1) + 1 + Width(delta)
            start == q + Width(len)
            end   == start + Value(len, q)
<1>7. /\ p + 1 <= Len(wire.bytes) /\ wire.bytes[p + 1] # 255
      /\ delta # 15 /\ len # 15
      /\ Value(delta, (p + 1) + 1) = Delta(opts, k + 1)
      /\ SubSeq(wire.bytes, start, end - 1) = opts[k + 1].val
      /\ end = p + SizeOf(opts, k + 1) + 1
    BY <1>1, <1>3, <1>4, <1>5, <1>6, OptionRead
<1>8. opt_nb + Delta(opts, k + 1) = opts[k + 1].code
    <2>1. opts[k + 1] \in Option /\ (k # 0 => opts[k] \in Option)
        BY <1>1, <1>2, <1>3
    <2>2. opts[k + 1].code \in Nat /\ (k # 0 => opts[k].code \in Nat)
        BY <2>1, OptionType
    <2>3. Delta(opts, k + 1) = opts[k + 1].code - (IF k = 0 THEN 0 ELSE opts[k].code)
        BY <1>3 DEF Delta
    <2>. QED BY <1>2, <2>2, <2>3
<1>9. end = at[k + 1] + 1
    <2>1. SizeOf(opts, k + 1) \in Nat
        BY <1>1, <1>3, OptionBytes
    <2>. HIDE DEF end
    <2>. QED BY <1>5, <1>7, <2>1
<1>10. MoreOptions
    BY <1>2, <1>7 DEF MoreOptions
<1>. HIDE DEF start, end, q, delta, len
<1>11. opt_nb + Value(delta, (p + 1) + 1) = opts[k + 1].code
    BY <1>7, <1>8
<1>. QED BY <1>2, <1>3, <1>7, <1>9, <1>10, <1>11, Zenon DEF start, end, q, delta, len

\* When all have been read, the payload is what is left.
LEMMA PayloadThere ==
    ASSUME Built, NEW at, Reads(at, Len(opts))
    PROVE  /\ ~MoreOptions
           /\ payload = <<>> <=> i > Len(wire.bytes)
           /\ payload # <<>> => SubSeq(wire.bytes, i + 1, Len(wire.bytes)) = payload
<1>. DEFINE n == Len(opts)
            p == at[n]
            tail == Rest(payload)
<1>1. payload \in Seq(Byte) /\ n \in Nat /\ n \in 0..n
    BY BuiltType
<1>2. i = p + 1 /\ Layout(wire.bytes, at, token, opts, payload)
    BY Zenon DEF Reads
<1>3. /\ wire.bytes \in Seq(Byte) /\ at \in [0..n -> Nat]
      /\ Occurs(wire.bytes, p, tail) /\ Len(wire.bytes) = p + Len(tail)
    BY <1>2, Zenon DEF Layout
<1>4. p \in Nat
    BY <1>1, <1>3
<1>. HIDE DEF n, p
<1>5. CASE payload = <<>>
    <2>1. Len(tail) = 0
        BY <1>5 DEF Rest
    <2>2. Len(wire.bytes) = p
        BY <1>3, <1>4, <2>1
    <2>3. i > Len(wire.bytes) /\ ~(i <= Len(wire.bytes))
        BY <1>2, <1>4, <2>2
    <2>. QED BY <1>5, <2>3 DEF MoreOptions
<1>6. CASE payload # <<>>
    <2>1. tail = <<255>> \o payload
        BY <1>6, Zenon DEF Rest
    <2>2. <<255>> \in Seq(Byte) /\ Len(<<255>>) = 1 /\ <<255>>[1] = 255
        BY DEF Byte
    <2>. HIDE DEF tail
    <2>3. Len(tail) = 1 + Len(payload)
        BY <1>1, <2>1, <2>2, ByteConcat
    <2>4. Occurs(wire.bytes, p, <<255>>) /\ Occurs(wire.bytes, p + 1, payload)
        <3>. DEFINE b == <<255>>
        <3>1. b \in Seq(Byte) /\ Occurs(wire.bytes, p, b \o payload)
            BY <1>3, <2>1, <2>2
        <3>. HIDE DEF b
        <3>2. Occurs(wire.bytes, p, b) /\ Occurs(wire.bytes, p + Len(b), payload)
            BY <1>1, <1>3, <1>4, <3>1, OccursParts
        <3>. QED BY <2>2, <3>2, Zenon DEF b
    <2>5. p + 1 <= Len(wire.bytes) /\ wire.bytes[p + 1] = 255
        <3>1. 1 \in 1..1
            OBVIOUS
        <3>. QED BY <2>2, <2>4, <3>1 DEF Occurs
    <2>6. SubSeq(wire.bytes, (p + 1) + 1, (p + 1) + Len(payload)) = payload
        <3>1. p + 1 \in Nat
            BY <1>4
        <3>. QED BY <1>1, <1>3, <2>4, <3>1, OccursSub
    <2>7. Len(wire.bytes) = (p + 1) + Len(payload)
        <3>1. Len(payload) \in Nat
            BY <1>1
        <3>. QED BY <1>3, <1>4, <2>3, <3>1
    <2>8. ~(i > Len(wire.bytes)) /\ wire.bytes[i] = 255
        BY <1>2, <1>3, <1>4, <2>5
    <2>9. SubSeq(wire.bytes, i + 1, Len(wire.bytes)) = payload
        BY <1>2, <2>6, <2>7
    <2>. QED BY <1>6, <2>8, <2>9 DEF MoreOptions
<1>. QED BY <1>5, <1>6

LEMMA DecodingStep ==
    ASSUME Fitting, Built, Carried, Fits, Decoding, [Next]_vars
    PROVE  Decoding'
<1>1. ASSUME ~Sent' PROVE Decoding'
    BY <1>1 DEF Decoding
<1>2. ASSUME NEW o \in Options, Push(o) PROVE Decoding'
    <2>1. phase' = "build"
        BY <1>2 DEF Push
    <2>. QED BY <1>1, <2>1 DEF Sent
<1>3. ASSUME NEW dur \in Ages, NEW reset \in BOOLEAN, MaxAge(reset, dur) PROVE Decoding'
    <2>1. phase = "build" /\ phase' = phase
        BY <1>3, Zenon DEF MaxAge
    <2>. QED BY <1>1, <2>1 DEF Sent
<1>4. CASE Encode
    BY <1>4, EncodeReads DEF Decoding
<1>5. CASE EncodeFails
    <2>1. phase' = "toolarge"
        BY <1>5 DEF EncodeFails
    <2>. QED BY <1>1, <2>1 DEF Sent
<1>6. ASSUME NEW enc \in Foreign, Decode(enc) PROVE Decoding'
    <2>1. wire' \in Foreign
        BY <1>6, Zenon DEF Decode
    <2>. QED BY <1>1, <2>1 DEF Sent
<1>7. ASSUME UNCHANGED <<message, wire>>, phase \in {"decode", "done", "rejected"}, Sent'
      PROVE  /\ UNCHANGED <<token, opts, payload, wire>>
             /\ \E at, k : Reads(at, k)
    <2>1. UNCHANGED <<token, opts, payload, wire>>
        BY <1>7, Zenon DEF message
    <2>2. Sent
        BY <1>7, <2>1 DEF Sent
    <2>. QED BY <2>1, <2>2 DEF Decoding
<1>8. CASE DecodeOption /\ Sent'
    <2>. DEFINE delta == wire.bytes[i] \div 16
                len   == wire.bytes[i] % 16
                q     == i + 1 + Width(delta)
                start == q + Width(len)
                code  == opt_nb + Value(delta, i + 1)
                end   == start + Value(len, q)
                o     == [code |-> code, val |-> SubSeq(wire.bytes, start, end - 1)]
    <2>1. /\ phase = "decode" /\ MoreOptions /\ opt_nb' = code /\ i' = end
          /\ got' = [got EXCEPT !.opts = PushOption(@, o)]
          /\ UNCHANGED <<phase, message, wire>>
        BY <1>8, Zenon DEF DecodeOption
    <2>2. PICK at, k : Reads(at, k)
        BY <1>7, <1>8, <2>1
    <2>3. UNCHANGED <<token, opts, payload, wire>>
        BY <1>7, <1>8, <2>1
    <2>4. k # Len(opts)
        BY <2>1, <2>2, PayloadThere
    <2>5. /\ k + 1 \in 1..Len(opts) /\ code = opts[k + 1].code
          /\ SubSeq(wire.bytes, start, end - 1) = opts[k + 1].val /\ end = at[k + 1] + 1
        BY <2>2, <2>4, OptionThere, Zenon
    <2>. HIDE DEF code, start, end
    <2>6. opts[k + 1] \in Option /\ opts \in Seq(Option) /\ Sorted(opts)
        BY <2>5, BuiltType
    <2>7. o = opts[k + 1]
        BY <2>5, <2>6, OptionType, Zenon
    <2>. DEFINE list == got.opts
                longer == PushOption(list, opts[k + 1])
    <2>8. /\ k \in 0..Len(opts) /\ list \in Seq(Option) /\ Len(list) = k
          /\ \A j \in 1..k : list[j] = opts[j]
          /\ got = [token |-> token, opts |-> list, payload |-> got.payload]
          /\ Layout(wire.bytes, at, token, opts, payload)
          /\ phase = "decode" => got.payload = <<>>
        BY <2>2 DEF Reads
    <2>9. /\ k \in Nat /\ \A j \in 1..k : j \in 1..Len(opts) /\ j < k + 1
          /\ Len(opts) \in Nat
        BY <2>5, <2>6, <2>8
    <2>10. Sorted(list) /\ \A j \in 1..k : list[j].code <= opts[k + 1].code
        BY <2>5, <2>6, <2>8, <2>9 DEF Sorted
    <2>11. /\ longer \in Seq(Option) /\ Len(longer) = k + 1 /\ longer[k + 1] = opts[k + 1]
           /\ \A j \in 1..k : longer[j] = list[j]
        BY <2>6, <2>8, <2>10, PushLast
    <2>12. got' = [got EXCEPT !.opts = longer]
        BY <2>1, <2>7, Zenon
    <2>. HIDE DEF list, longer, o
    <2>13. got' = [token |-> token, opts |-> longer, payload |-> <<>>]
        BY <2>1, <2>8, <2>12
    <2>14. \A j \in 1..(k + 1) : longer[j] = opts[j]
        <3>1. \A j \in 1..(k + 1) : j \in 1..k \/ j = k + 1
            BY <2>9
        <3>. QED BY <2>8, <2>11, <3>1
    <2>15. k + 1 \in 0..Len(opts) /\ k + 1 # 0
        BY <2>5, <2>9
    <2>16. got'.opts = longer /\ got'.payload = <<>>
        BY <2>13
    <2>17. opt_nb' = opts[k + 1].code /\ i' = at[k + 1] + 1 /\ phase' = "decode"
        BY <2>1, <2>5
    <2>18. Layout(wire'.bytes, at, token', opts', payload')
        BY <2>3, <2>8
    <2>19. Reads(at, k + 1)'
        BY <2>3, <2>11, <2>13, <2>14, <2>15, <2>16, <2>17, <2>18 DEF Reads
    <2>. QED BY <2>19 DEF Decoding
<1>9. CASE DecodeFails /\ Sent'
    <2>1. /\ phase = "decode" /\ MoreOptions /\ UNCHANGED <<message, wire>>
          /\ 15 \in {wire.bytes[i] \div 16, wire.bytes[i] % 16}
        BY <1>9, Zenon DEF DecodeFails
    <2>2. PICK at, k : Reads(at, k)
        BY <1>7, <1>9, <2>1
    <2>3. k # Len(opts)
        BY <2>1, <2>2, PayloadThere
    <2>4. wire.bytes[i] \div 16 # 15 /\ wire.bytes[i] % 16 # 15
        BY <2>2, <2>3, OptionThere, Zenon
    <2>. QED BY <2>1, <2>4, Zenon
<1>10. CASE DecodePayload /\ Sent'
    <2>1. /\ phase = "decode" /\ ~MoreOptions /\ phase' = "done"
          /\ UNCHANGED <<message, wire, i, opt_nb>>
        BY <1>10, Zenon DEF DecodePayload
    <2>2. PICK b \in Beyond :
             got' = IF i > Len(wire.bytes) THEN got
                    ELSE [got EXCEPT !.payload =
                            SubSeq(wire.bytes, i + 1, Len(wire.bytes)) \o <<b>>]
        BY <1>10, Zenon DEF DecodePayload
    <2>3. PICK at, k : Reads(at, k)
        BY <1>7, <1>10, <2>1
    <2>4. UNCHANGED <<token, opts, payload, wire>>
        BY <1>7, <1>10, <2>1
    <2>5. k = Len(opts)
        BY <2>1, <2>3, OptionThere, Zenon
    <2>6. /\ payload = <<>> <=> i > Len(wire.bytes)
          /\ payload # <<>> => SubSeq(wire.bytes, i + 1, Len(wire.bytes)) = payload
        BY <2>3, <2>5, PayloadThere, Zenon
    <2>7. /\ Layout(wire.bytes, at, token, opts, payload)
          /\ k \in 0..Len(opts) /\ i = at[k] + 1
          /\ opt_nb = IF k = 0 THEN 0 ELSE opts[k].code
          /\ got = [token |-> token, opts |-> got.opts, payload |-> got.payload]
          /\ got.opts \in Seq(Option) /\ Len(got.opts) = k
          /\ \A j \in 1..k : got.opts[j] = opts[j]
          /\ got.payload = <<>>
        BY <2>1, <2>3 DEF Reads
    <2>. DEFINE list == got.opts
                pay == IF payload = <<>> THEN <<>> ELSE payload \o <<b>>
    <2>8. got' = [token |-> token, opts |-> list, payload |-> pay]
        <3>1. CASE payload = <<>>
            BY <2>2, <2>6, <2>7, <3>1
        <3>2. CASE payload # <<>>
            <4>1. got' = [got EXCEPT !.payload = payload \o <<b>>]
                BY <2>2, <2>6, <3>2, Zenon
            <4>2. pay = payload \o <<b>>
                BY <3>2
            <4>3. got = [token |-> token, opts |-> list, payload |-> got.payload]
                BY <2>7
            <4>. HIDE DEF list, pay
            <4>4. got' = [got EXCEPT !.payload = pay]
                BY <4>1, <4>2, Zenon
            <4>. QED BY <4>3, <4>4
        <3>. QED BY <3>1, <3>2
    <2>9. \/ payload = <<>> /\ pay = <<>>
          \/ payload # <<>> /\ pay = payload \o <<b>>
        OBVIOUS
    <2>. HIDE DEF list, pay
    <2>10. got'.opts = list /\ got'.payload = pay
           /\ got' = [token |-> token, opts |-> got'.opts, payload |-> got'.payload]
        BY <2>8
    <2>11. Layout(wire'.bytes, at, token', opts', payload')
        BY <2>4, <2>7
    <2>12. /\ list \in Seq(Option) /\ Len(list) = k /\ \A j \in 1..k : list[j] = opts[j]
        BY <2>7 DEF list
    <2>13. IF payload = <<>> THEN pay = <<>> ELSE \E c \in Beyond : pay = payload \o <<c>>
        BY <2>9
    <2>14. i' = at[k] + 1 /\ opt_nb' = IF k = 0 THEN 0 ELSE opts[k].code
        BY <2>1, <2>7
    <2>15. /\ got'.opts \in Seq(Option) /\ Len(got'.opts) = k
           /\ \A j \in 1..k : got'.opts[j] = opts'[j]
           /\ got' = [token |-> token', opts |-> got'.opts, payload |-> got'.payload]
           /\ IF payload' = <<>> THEN got'.payload = <<>>
              ELSE \E c \in Beyond : got'.payload = payload' \o <<c>>
        BY <2>4, <2>10, <2>12, <2>13
    <2>16. /\ k \in 0..Len(opts') /\ k = Len(opts') /\ phase' = "done"
           /\ i' = at[k] + 1 /\ opt_nb' = IF k = 0 THEN 0 ELSE opts'[k].code
        BY <2>1, <2>4, <2>5, <2>7, <2>14
    <2>. HIDE DEF list
    <2>17. Reads(at, k)'
        BY <2>11, <2>15, <2>16 DEF Reads
    <2>. QED BY <2>17 DEF Decoding
<1>11. CASE UNCHANGED vars
    <2>1. UNCHANGED <<phase, token, opts, payload, wire, i, opt_nb, got>>
        BY <1>11, Zenon DEF vars, message
    <2>. QED BY <2>1 DEF Decoding, Sent, Reads
<1>. QED BY <1>1, <1>2, <1>3, <1>4, <1>5, <1>6, <1>8, <1>9, <1>10, <1>11, Zenon DEF Next

LEMMA FittingInvariantHolds == ASSUME Fitting PROVE Spec => []FittingInvariant
<1>1. Init => Fits /\ Decoding
    <2>1. Init => Fits
        BY DEF Init, Fits
    <2>2. Init => Decoding
        BY DEF Init, Decoding, Sent
    <2>. QED BY <2>1, <2>2
<1>2. Invariant /\ Fits /\ Decoding /\ [Next]_vars => (Fits /\ Decoding)'
    BY FitsStep, DecodingStep, Zenon DEF Invariant
<1>3. Invariant /\ Fits /\ Decoding => FittingInvariant
    BY DEF FittingInvariant
<1>. QED BY <1>1, <1>2, <1>3, InvariantHolds, PTL DEF Spec

\* What coap_encode has written, coap_decode reads: the token, the options in their
\* order and the payload, with one byte more.
THEOREM DecodedAsSent == ASSUME Fitting PROVE Spec => []RoundTrip
<1>1. FittingInvariant => RoundTrip
    <2>. SUFFICES ASSUME Built, Decoding, Sent
                  PROVE  /\ phase # "rejected"
                         /\ phase = "done" =>
                               /\ got.token = token /\ got.opts = opts
                               /\ IF payload = <<>> THEN got.payload = <<>>
                                  ELSE /\ Len(got.payload) = Len(payload) + 1
                                       /\ IsPrefix(payload, got.payload)
        BY Zenon DEF FittingInvariant, Invariant, RoundTrip
    <2>1. PICK at, k : Reads(at, k)
        BY DEF Decoding
    <2>2. phase # "rejected"
        BY <2>1 DEF Reads
    <2>3. ASSUME phase = "done"
          PROVE  /\ got.token = token /\ got.opts = opts
                 /\ IF payload = <<>> THEN got.payload = <<>>
                    ELSE /\ Len(got.payload) = Len(payload) + 1
                         /\ IsPrefix(payload, got.payload)
        <3>1. /\ k = Len(opts) /\ got.opts \in Seq(Option) /\ Len(got.opts) = k
              /\ \A j \in 1..k : got.opts[j] = opts[j]
              /\ got = [token |-> token, opts |-> got.opts, payload |-> got.payload]
              /\ IF payload = <<>> THEN got.payload = <<>>
                 ELSE \E b \in Beyond : got.payload = payload \o <<b>>
            BY <2>1, <2>3, Zenon DEF Reads
        <3>2. opts \in Seq(Option) /\ payload \in Seq(Byte)
            BY BuiltType
        <3>3. got.opts = opts
            BY <3>1, <3>2, SeqEqual
        <3>4. got.token = token
            BY <3>1
        <3>5. ASSUME NEW b \in Beyond, got.payload = payload \o <<b>>
              PROVE  /\ Len(got.payload) = Len(payload) + 1
                     /\ IsPrefix(payload, got.payload)
            <4>1. <<b>> \in Seq(Byte) /\ Len(<<b>>) = 1
                BY MessageType
            <4>. DEFINE c == <<b>>
                        pay == payload \o c
            <4>. HIDE DEF c
            <4>2. pay \in Seq(Byte) /\ Len(pay) = Len(payload) + 1 /\ Occurs(pay, 0, payload)
                BY <3>2, <4>1, ByteConcat, ConcatOccurs DEF c
            <4>. HIDE DEF pay
            <4>3. SubSeq(pay, 1, Len(payload)) = payload
                <5>1. 0 \in Nat /\ 0 + 1 = 1 /\ 0 + Len(payload) = Len(payload)
                    BY <3>2
                <5>. QED BY <3>2, <4>2, <5>1, OccursSub
            <4>4. IsPrefix(payload, pay)
                <5>1. Len(payload) <= Len(pay)
                    BY <3>2, <4>2
                <5>. QED BY <4>3, <5>1 DEF IsPrefix
            <4>. QED BY <3>5, <4>2, <4>4 DEF pay, c
        <3>. QED BY <3>1, <3>3, <3>4, <3>5, Zenon
    <2>. QED BY <2>2, <2>3
<1>. QED BY <1>1, FittingInvariantHolds, PTL

\* The variables have the values they should have.  A token of eight bytes has no
\* room in the header: what is read then is not what was sent.
THEOREM TypeCorrect == ASSUME Fitting PROVE Spec => []TypeOK
<1>1. FittingInvariant => TypeOK
    <2>. SUFFICES ASSUME Built, Carried, Decoding PROVE TypeOK
        BY DEF FittingInvariant, Invariant
    <2>1. /\ phase \in {"build", "decode", "done", "toolarge", "rejected"}
          /\ opts \in Seq(Option) /\ pushed \in Seq(Option)
          /\ wire.bytes \in Seq(Byte) /\ wire.toklen \in 0..7
        BY DEF Built, Carried
    <2>2. ASSUME wire \notin Foreign
          PROVE  /\ i \in 1..(Len(wire.bytes) + 1) /\ opt_nb \in Code
                 /\ got.opts \in Seq(Option) /\ got.payload \in Seq(Byte)
        <3>1. 0 \in Code
            BY SMT DEF Code
        <3>2. CASE ~Sent
            <4>1. i = 1 /\ opt_nb = 0 /\ got = NoMessage /\ wire.bytes = <<>>
                BY <2>2, <3>2 DEF Sent, Carried
            <4>2. i \in 1..(Len(wire.bytes) + 1)
                BY <4>1
            <4>3. got.opts \in Seq(Option) /\ got.payload \in Seq(Byte)
                BY <4>1 DEF NoMessage
            <4>. QED BY <3>1, <4>1, <4>2, <4>3, Zenon
        <3>3. CASE Sent
            <4>1. PICK at, k : Reads(at, k)
                BY <3>3 DEF Decoding
            <4>2. /\ Layout(wire.bytes, at, token, opts, payload)
                  /\ k \in 0..Len(opts) /\ i = at[k] + 1
                  /\ opt_nb = IF k = 0 THEN 0 ELSE opts[k].code
                  /\ got.opts \in Seq(Option)
                BY <4>1, Zenon DEF Reads
            <4>3. token \in Seq(Byte) /\ payload \in Seq(Byte) /\ Sorted(opts) /\ Len(opts) \in Nat
                BY BuiltType
            <4>4. at[k] \in Nat /\ at[k] <= Len(wire.bytes)
                <5>1. /\ at \in [0..Len(opts) -> Nat]
                      /\ Occurs(wire.bytes, 0, token) /\ at[0] = Len(token)
                      /\ \A j \in 1..Len(opts) :
                            /\ Occurs(wire.bytes, at[j - 1], EncodedOption(opts, j))
                            /\ at[j] = at[j - 1] + SizeOf(opts, j)
                    BY <4>2, Zenon DEF Layout
                <5>2. at[k] \in Nat
                    BY <4>2, <5>1
                <5>3. CASE k = 0
                    <6>1. 0 + Len(token) <= Len(wire.bytes) /\ Len(token) \in Nat
                        BY <4>3, <5>1 DEF Occurs
                    <6>. QED BY <5>1, <5>2, <5>3, <6>1
                <5>4. CASE k # 0
                    <6>1. k \in 1..Len(opts)
                        BY <4>2, <5>4
                    <6>2. at[k - 1] + Len(EncodedOption(opts, k)) <= Len(wire.bytes)
                        BY <5>1, <6>1 DEF Occurs
                    <6>3. Len(EncodedOption(opts, k)) = SizeOf(opts, k)
                        BY <2>1, <4>3, <6>1, OptionBytes
                    <6>4. at[k] = at[k - 1] + SizeOf(opts, k)
                        BY <5>1, <6>1
                    <6>. QED BY <5>2, <6>2, <6>3, <6>4
                <5>. QED BY <5>3, <5>4
            <4>5. i \in 1..(Len(wire.bytes) + 1)
                <5>1. Len(wire.bytes) \in Nat
                    BY <2>1
                <5>. QED BY <4>2, <4>4, <5>1
            <4>6. opt_nb \in Code
                <5>1. CASE k = 0
                    BY <3>1, <4>2, <5>1, Zenon
                <5>2. CASE k # 0
                    <6>1. k \in 1..Len(opts)
                        BY <4>2, <5>2
                    <6>2. opts[k] \in Option
                        BY <2>1, <6>1
                    <6>. QED BY <4>2, <5>2, <6>2, OptionType, Zenon
                <5>. QED BY <5>1, <5>2
            <4>7. got.payload \in Seq(Byte)
                <5>1. \/ got.payload = <<>>
                      \/ \E b \in Beyond : got.payload = payload \o <<b>>
                    BY <4>1, Zenon DEF Reads
                <5>2. <<>> \in Seq(Byte)
                    OBVIOUS
                <5>3. ASSUME NEW b \in Beyond PROVE payload \o <<b>> \in Seq(Byte)
                    <6>1. <<b>> \in Seq(Byte)
                        BY MessageType
                    <6>. QED BY <4>3, <6>1, ByteConcat
                <5>. QED BY <5>1, <5>2, <5>3, Zenon
            <4>. QED BY <4>2, <4>5, <4>6, <4>7
        <3>. QED BY <3>2, <3>3
    <2>. QED BY <2>1, <2>2, Zenon DEF TypeOK
<1>. QED BY <1>1, FittingInvariantHolds, PTL

=============================================================================
