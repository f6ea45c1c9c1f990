--------------------------- MODULE Requests_proofs ---------------------------
(****************************************************************************)
(* Proofs about the resources and their observers of module Requests, for   *)
(* every set of resources, names, methods and tokens.                       *)
(*                                                                          *)
(* A resource which nobody has made observable is observed by nobody and    *)
(* watches nothing; that is what lets ohandlerResource start from scratch.  *)
(* The resource which has answered last with an Observe option is in the    *)
(* list, where it cannot be set up again.                                   *)
(*                                                                          *)
(* The text of the list is computed by a loop.  Its functions are defined   *)
(* from their values before (Recursion), and what an iteration keeps holds  *)
(* of the whole loop (UpTo).                                                *)
(****************************************************************************)
EXTENDS Requests, SequenceTheorems, WellFoundedInduction, TLAPS

Attributes ==
    [handlers : SUBSET Methods, trig : BOOLEAN, hooks : BOOLEAN,
     observed : BOOLEAN, serial : Nat, token : Tokens \cup {NoToken}, held : Int]

Balanced(a) ==
    /\ a.hooks => a.held = (IF a.observed THEN 1 ELSE 0)
    /\ ~a.hooks => a.held = 0
    /\ ~a.trig => ~a.observed

AnswerOK ==
    answer.observe # NoObserve =>
        /\ answer.from \in Resource /\ answer.from \in ToSet(reslist)
        /\ res[answer.from].trig =>
              /\ res[answer.from].observed
              /\ res[answer.from].token = answer.token
              /\ res[answer.from].serial >= answer.observe

IInv ==
    /\ reslist \in Seq(Resource)
    /\ res \in [Resource -> Attributes]
    /\ \A r \in Resource : Balanced(res[r])
    /\ answer.observe \in Int /\ AnswerOK

----------------------------------------------------------------------------
(* Observation.                                                             *)

\* observedResource keeps the calls of the hooks in turns, and what it registers
\* is the observer.
LEMMA ObservedSound ==
    ASSUME NEW a \in Attributes, Balanced(a), NEW onoff \in BOOLEAN, NEW token \in Tokens
    PROVE  /\ Observed(a, onoff, token) \in Attributes
           /\ Balanced(Observed(a, onoff, token))
           /\ Observed(a, onoff, token).trig = a.trig
           /\ onoff /\ a.trig => /\ Observed(a, onoff, token).observed
                                 /\ Observed(a, onoff, token).token = token
<1>. DEFINE d == [a EXCEPT !.observed = FALSE, !.held = Unwatch(a)]
            w == [d EXCEPT !.observed = TRUE, !.held = Watch(d),
                           !.serial = 2, !.token = token]
<1>1. Unwatch(a) \in Int /\ (a.hooks => Unwatch(a) = 0) /\ (~a.hooks => Unwatch(a) = 0)
    BY DEF Unwatch, Balanced, Attributes
<1>2. d \in Attributes /\ d.trig = a.trig /\ d.hooks = a.hooks /\ d.held = 0 /\ ~d.observed
    BY <1>1 DEF Attributes
<1>3. Balanced(d)
    BY <1>2 DEF Balanced, Attributes
<1>. HIDE DEF d
<1>4. Watch(d) = IF d.hooks THEN 1 ELSE 0
    BY <1>2 DEF Watch
<1>5. w \in Attributes /\ w.trig = d.trig /\ w.hooks = d.hooks /\ w.held = Watch(d)
      /\ w.observed = TRUE /\ w.token = token
    <2>. DEFINE h == Watch(d)
    <2>1. h \in Int
        BY <1>4
    <2>. HIDE DEF h
    <2>2. [d EXCEPT !.observed = TRUE] \in Attributes
        BY <1>2 DEF Attributes
    <2>3. ASSUME NEW e \in Attributes
          PROVE  [e EXCEPT !.held = h, !.serial = 2, !.token = token] \in Attributes
        BY <2>1 DEF Attributes
    <2>4. w = [[d EXCEPT !.observed = TRUE] EXCEPT !.held = h, !.serial = 2, !.token = token]
        BY DEF w, h
    <2>5. w \in Attributes
        BY <2>2, <2>3, <2>4, Zenon
    <2>. QED BY <1>2, <2>5 DEF Attributes
<1>6. a.trig => Balanced(w)
    BY <1>2, <1>4, <1>5 DEF Balanced
<1>7. Observed(a, onoff, token) = IF ~a.trig THEN a ELSE IF ~onoff THEN d ELSE w
    BY DEF Observed, d
<1>. QED BY <1>2, <1>3, <1>5, <1>6, <1>7

LEMMA SerialSound ==
    ASSUME NEW a \in Attributes, Balanced(a)
    PROVE  /\ NextSerial(a) \in Attributes /\ Balanced(NextSerial(a))
           /\ NextSerial(a).trig = a.trig /\ NextSerial(a).observed = a.observed
           /\ NextSerial(a).token = a.token /\ NextSerial(a).serial = a.serial + 1
<1>1. NextSerial(a) = [a EXCEPT !.serial = a.serial + 1] /\ a.serial + 1 \in Nat
    BY DEF NextSerial, Attributes
<1>. QED BY <1>1 DEF Attributes, Balanced

\* check_observed_resources only moves serial numbers on.
LEMMA CheckSound ==
    ASSUME NEW f \in [Resource -> Attributes], \A r \in Resource : Balanced(f[r]), NEW fired
    PROVE  /\ CheckObserved(f, fired) \in [Resource -> Attributes]
           /\ \A r \in Resource :
                 LET c == CheckObserved(f, fired)[r]
                 IN  /\ Balanced(c) /\ c.trig = f[r].trig /\ c.observed = f[r].observed
                     /\ c.token = f[r].token /\ c.serial >= f[r].serial
<1>. DEFINE g == CheckObserved(f, fired)
<1>1. ASSUME NEW r \in Resource
      PROVE  /\ g[r] \in Attributes /\ Balanced(g[r]) /\ g[r].trig = f[r].trig
             /\ g[r].observed = f[r].observed /\ g[r].token = f[r].token
             /\ g[r].serial >= f[r].serial
    <2>1. g[r] = IF r \in fired THEN NextSerial(f[r]) ELSE f[r]
        BY DEF CheckObserved
    <2>2. f[r] \in Attributes /\ Balanced(f[r]) /\ f[r].serial \in Nat
        BY DEF Attributes
    <2>. HIDE DEF g
    <2>. QED BY <2>1, <2>2, SerialSound
<1>2. g \in [Resource -> Attributes]
    BY <1>1 DEF CheckObserved
<1>. QED BY <1>1, <1>2

----------------------------------------------------------------------------
(* Names.                                                                   *)

\* get_resource returns the first resource with the name, or nothing.
LEMMA FirstWithName ==
    ASSUME NEW list \in Seq(Resource), NEW name
    PROVE  LET k == GetResource(list, name)
           IN  \/ k = 0 /\ \A j \in 1..Len(list) : list[j].name # name
               \/ /\ k \in 1..Len(list) /\ list[k].name = name
                  /\ \A j \in 1..Len(list) : list[j].name = name => k <= j
<1>. DEFINE I == {i \in 1..Len(list) : list[i].name = name}
<1>1. GetResource(list, name) = IF I # {} THEN Min(I) ELSE 0
    BY DEF GetResource, SelectInSeq
<1>2. ASSUME I # {}
      PROVE  \E x \in I : \A y \in I : x <= y
    <2>1. I \subseteq Nat
        OBVIOUS
    <2>. HIDE DEF I
    <2>2. PICK x \in I : \A y \in I : ~(<<y, x>> \in OpToRel(<, Nat))
        BY <1>2, <2>1, NatLessThanWellFounded, WFMin, Zenon
    <2>3. \A y \in I : ~(y < x)
        BY <2>1, <2>2 DEF OpToRel
    <2>. QED BY <2>1, <2>3
<1>3. I # {} => Min(I) \in I /\ \A y \in I : Min(I) <= y
    BY <1>2 DEF Min
<1>. QED BY <1>1, <1>3

\* The first one stays the first when others are added behind.
LEMMA NameKept ==
    ASSUME NEW list \in Seq(Resource), NEW r \in Resource, NEW name,
           GetResource(list, name) # 0
    PROVE  Registered(list, r)[GetResource(Registered(list, r), name)]
              = list[GetResource(list, name)]
<1>. DEFINE longer == Registered(list, r)
            k == GetResource(list, name)
            m == GetResource(longer, name)
<1>1. longer \in Seq(Resource) /\ Len(longer) = Len(list) + 1
      /\ \A j \in 1..Len(list) : longer[j] = list[j]
    BY DEF Registered
<1>2. /\ k \in 1..Len(list) /\ list[k].name = name
      /\ \A j \in 1..Len(list) : list[j].name = name => k <= j
    BY FirstWithName
<1>3. \/ m = 0 /\ \A j \in 1..Len(longer) : longer[j].name # name
      \/ /\ m \in 1..Len(longer) /\ longer[m].name = name
         /\ \A j \in 1..Len(longer) : longer[j].name = name => m <= j
    <2>. HIDE DEF longer
    <2>. QED BY <1>1, FirstWithName
<1>. HIDE DEF longer, k, m
<1>4. k \in 1..Len(longer) /\ longer[k].name = name /\ Len(list) \in Nat
    BY <1>1, <1>2
<1>5. m \in 1..Len(longer) /\ longer[m].name = name /\ m <= k
    BY <1>3, <1>4
<1>6. m \in 1..Len(list) /\ list[m].name = name
    BY <1>1, <1>2, <1>4, <1>5
<1>7. m = k
    BY <1>2, <1>5, <1>6
<1>8. longer[m] = list[k]
    BY <1>1, <1>2, <1>7
<1>. QED BY <1>8 DEF longer, k, m

----------------------------------------------------------------------------
(* Induction and recursion up to a number.                                  *)

\* What holds of 0 and is passed on holds up to n.
LEMMA UpTo ==
    ASSUME NEW n \in Nat, NEW S, 0 \in S,
           \A k \in 0..(n - 1) : k \in S => k + 1 \in S
    PROVE  \A k \in 0..n : k \in S
<1>. DEFINE I == {k \in 0..n : k \notin S}
<1>. SUFFICES ASSUME I # {} PROVE FALSE
    OBVIOUS
<1>1. I \subseteq Nat
    OBVIOUS
<1>2. PICK x \in I : \A y \in I : ~(<<y, x>> \in OpToRel(<, Nat))
    <2>. HIDE DEF I
    <2>. QED BY <1>1, NatLessThanWellFounded, WFMin, Zenon
<1>3. x \in 0..n /\ x \notin S /\ \A y \in I : ~(y < x)
    <2>1. x \in Nat /\ \A y \in I : y \in Nat
        BY <1>1
    <2>. HIDE DEF I
    <2>2. \A y \in I : ~(y < x)
        BY <1>2, <2>1 DEF OpToRel
    <2>. QED BY <2>2 DEF I
<1>4. x - 1 \in 0..(n - 1) /\ x - 1 \in 0..n
    BY <1>3
<1>5. x - 1 \in S
    BY <1>3, <1>4
<1>. QED BY <1>3, <1>4, <1>5

\* A function defined from its value before.
Steps(T, n) == [T \X (1..n) -> T]
Iterates(g, base, step, n) ==
    g[0] = base /\ \A k \in 1..n : g[k] = step[<<g[k - 1], k>>]

LEMMA Recursion ==
    ASSUME NEW n \in Nat, NEW T, NEW base \in T, NEW step \in Steps(T, n)
    PROVE  \E g \in [0..n -> T] : Iterates(g, base, step, n)
<1>. USE DEF Steps
<1>. DEFINE Is(g, m) == g[0] = base /\ \A k \in 1..m : g[k] = step[<<g[k - 1], k>>]
            S == {m \in 0..n : \E g \in [0..m -> T] : Is(g, m)}
<1>1. 0 \in S
    <2>. DEFINE g == [k \in 0..0 |-> base]
    <2>1. g \in [0..0 -> T] /\ Is(g, 0)
        OBVIOUS
    <2>. HIDE DEF g, Is
    <2>2. 0 \in 0..n /\ \E f \in [0..0 -> T] : Is(f, 0)
        BY <2>1
    <2>. QED BY <2>2
<1>2. ASSUME NEW m \in 0..(n - 1), m \in S PROVE m + 1 \in S
    <2>1. PICK g \in [0..m -> T] : Is(g, m)
        BY <1>2
    <2>. DEFINE v == step[<<g[m], m + 1>>]
                h == [k \in 0..(m + 1) |-> IF k = m + 1 THEN v ELSE g[k]]
    <2>2. v \in T
        BY <2>1
    <2>. HIDE DEF v
    <2>3. h \in [0..(m + 1) -> T]
        BY <2>2
    <2>4. /\ h[m + 1] = v /\ \A k \in 0..m : h[k] = g[k]
        OBVIOUS
    <2>. HIDE DEF h
    <2>5. ASSUME NEW k \in 1..(m + 1) PROVE h[k] = step[<<h[k - 1], k>>]
        <3>1. k - 1 \in 0..m /\ h[k - 1] = g[k - 1]
            BY <2>4
        <3>2. CASE k = m + 1
            BY <2>4, <3>1, <3>2 DEF v
        <3>3. CASE k # m + 1
            <4>1. k \in 1..m /\ k \in 0..m
                BY <3>3
            <4>. QED BY <2>1, <2>4, <3>1, <4>1
        <3>. QED BY <3>2, <3>3
    <2>6. h[0] = base
        BY <2>1, <2>4
    <2>. QED BY <2>3, <2>5, <2>6
<1>3. n \in S
    <2>. HIDE DEF S
    <2>. QED BY <1>1, <1>2, UpTo
<1>. QED BY <1>3 DEF Iterates

----------------------------------------------------------------------------
(* The text of a list.                                                      *)

Items(list) == 0..Len(list)

LEMMA ItemType ==
    ASSUME NEW list \in Seq(Resource), NEW k \in Items(list)
    PROVE  Item(list, k) \in Nat /\ Item(list, k) > 0 /\ (k # 0 => Item(list, k) >= 17)
<1>1. k # 0 => list[k] \in Resource
    BY DEF Items
<1>. QED BY <1>1, RequestsAssumption DEF Item

\* The sums of Size.
IsSum(f, list, items, n) ==
    /\ f \in [0..n -> Nat] /\ f[0] = 0
    /\ \A j \in 1..n : f[j] = f[j - 1] + Item(list, items[j])

LEMMA SizeDef ==
    ASSUME NEW list \in Seq(Resource), NEW items \in Seq(Items(list))
    PROVE  \E f : IsSum(f, list, items, Len(items)) /\ Size(list, items) = f[Len(items)]
<1>. DEFINE n == Len(items)
            step == [p \in Nat \X (1..n) |-> p[1] + Item(list, items[p[2]])]
            sum == CHOOSE g : g = [j \in 0..n |-> IF j = 0 THEN 0
                                                  ELSE g[j - 1] + Item(list, items[j])]
<1>1. n \in Nat /\ \A j \in 1..n : Item(list, items[j]) \in Nat
    BY ItemType
<1>2. step \in [Nat \X (1..n) -> Nat]
    BY <1>1
<1>3. \A v \in Nat, j \in 1..n : step[<<v, j>>] = v + Item(list, items[j])
    OBVIOUS
<1>4. Size(list, items) = sum[n]
    BY DEF Size
<1>. HIDE DEF n, step
<1>5. PICK g \in [0..n -> Nat] : g[0] = 0 /\ \A k \in 1..n : g[k] = step[<<g[k - 1], k>>]
    <2>1. 0 \in Nat /\ n \in Nat /\ step \in Steps(Nat, n)
        BY <1>1, <1>2 DEF Steps
    <2>2. \E g \in [0..n -> Nat] : Iterates(g, 0, step, n)
        BY <2>1, Recursion
    <2>. QED BY <2>2 DEF Iterates
<1>6. \A k \in 1..n : g[k] = g[k - 1] + Item(list, items[k])
    <2>1. \A k \in 1..n : k - 1 \in 0..n /\ g[k - 1] \in Nat
        BY <1>1, <1>5
    <2>. QED BY <1>3, <1>5, <2>1
<1>7. g = [j \in 0..n |-> IF j = 0 THEN 0 ELSE g[j - 1] + Item(list, items[j])]
    BY <1>1, <1>5, <1>6
<1>8. sum = [j \in 0..n |-> IF j = 0 THEN 0 ELSE sum[j - 1] + Item(list, items[j])]
    BY <1>7
<1>. HIDE DEF sum
<1>9. sum[0] = 0 /\ \A k \in 1..n : sum[k] = sum[k - 1] + Item(list, items[k])
    BY <1>1, <1>8
<1>10. \A k \in 0..n : sum[k] \in Nat
    <2>. DEFINE S == {k \in 0..n : sum[k] \in Nat}
    <2>1. 0 \in S
        BY <1>1, <1>9
    <2>2. ASSUME NEW k \in 0..(n - 1), k \in S PROVE k + 1 \in S
        <3>1. k + 1 \in 1..n /\ (k + 1) - 1 = k
            BY <1>1
        <3>. QED BY <1>1, <1>9, <2>2, <3>1
    <2>. HIDE DEF S
    <2>3. \A k \in 0..n : k \in S
        BY <1>1, <2>1, <2>2, UpTo
    <2>. QED BY <2>3 DEF S
<1>11. sum \in [0..n -> Nat]
    BY <1>8, <1>10
<1>. QED BY <1>4, <1>9, <1>11 DEF IsSum, n

\* The text that is longer by one item.
LEMMA SizeOfLonger ==
    ASSUME NEW list \in Seq(Resource), NEW items \in Seq(Items(list)), NEW k \in Items(list)
    PROVE  /\ Size(list, items) \in Nat /\ Size(list, <<>>) = 0
           /\ Size(list, Append(items, k)) = Size(list, items) + Item(list, k)
<1>. DEFINE n == Len(items)
            longer == Append(items, k)
<1>1. /\ n \in Nat /\ longer \in Seq(Items(list)) /\ Len(longer) = n + 1
      /\ longer[n + 1] = k /\ \A j \in 1..n : longer[j] = items[j]
    OBVIOUS
<1>2. PICK f : IsSum(f, list, items, n) /\ Size(list, items) = f[n]
    BY SizeDef
<1>. HIDE DEF n, longer
<1>3. PICK g : IsSum(g, list, longer, n + 1) /\ Size(list, longer) = g[n + 1]
    BY <1>1, SizeDef
<1>4. \A j \in 0..n : f[j] = g[j]
    <2>. DEFINE S == {j \in 0..n : f[j] = g[j]}
    <2>1. 0 \in S
        BY <1>1, <1>2, <1>3 DEF IsSum
    <2>2. ASSUME NEW j \in 0..(n - 1), j \in S PROVE j + 1 \in S
        <3>1. j + 1 \in 1..n /\ j + 1 \in 1..(n + 1) /\ (j + 1) - 1 = j
            BY <1>1
        <3>2. f[j + 1] = f[j] + Item(list, items[j + 1])
            BY <1>2, <3>1 DEF IsSum
        <3>3. g[j + 1] = g[j] + Item(list, items[j + 1])
            BY <1>1, <1>3, <3>1 DEF IsSum
        <3>. QED BY <2>2, <3>1, <3>2, <3>3
    <2>. HIDE DEF S
    <2>3. \A j \in 0..n : j \in S
        BY <1>1, <2>1, <2>2, UpTo
    <2>. QED BY <2>3 DEF S
<1>5. g[n + 1] = g[n] + Item(list, k)
    <2>1. n + 1 \in 1..(n + 1) /\ (n + 1) - 1 = n
        BY <1>1
    <2>. QED BY <1>1, <1>3, <2>1 DEF IsSum
<1>6. Size(list, <<>>) = 0
    <2>1. <<>> \in Seq(Items(list)) /\ Len(<<>>) = 0
        OBVIOUS
    <2>2. PICK h : IsSum(h, list, <<>>, 0) /\ Size(list, <<>>) = h[0]
        BY <2>1, SizeDef
    <2>. QED BY <2>2 DEF IsSum
<1>7. f[n] \in Nat
    BY <1>1, <1>2 DEF IsSum
<1>. QED BY <1>1, <1>2, <1>3, <1>4, <1>5, <1>6, <1>7 DEF longer

Texts(list) == [text: Seq(Items(list)), size: Nat, left: BOOLEAN]
Odd(j) == j % 2 = 1

\* Why the loop of get_well_known has been left behind n resources.
CutBefore(list, room, text, n) ==
    /\ n < Len(list)
    /\ (IF n = 0 THEN 0 ELSE Size(list, SubSeq(text, 1, 2 * n - 1)) + 1)
          + list[n + 1].size + 1 > room

Alternates(text) ==
    \A j \in 1..Len(text) : text[j] = IF Odd(j) THEN (j + 1) \div 2 ELSE 0

\* The text after k iterations.
TextOK(list, room, t, k) ==
    /\ t \in Texts(list)
    /\ t.size = Size(list, t.text)
    /\ t.text = <<>> \/ t.size < room
    /\ Alternates(t.text)
    /\ ~t.left => Len(t.text) = IF k = 0 THEN 0 ELSE 2 * k - 1
    /\ t.left => CutBefore(list, room, t.text, (Len(t.text) + 1) \div 2)
    /\ Len(t.text) > 0 => t.size > 0

LEMMA Parity ==
    ASSUME NEW m \in Int
    PROVE  ~Odd(2 * (m - 1)) /\ Odd(2 * m - 1) /\ ((2 * m - 1) + 1) \div 2 = m
BY DEF Odd

LEMMA ListedOK ==
    ASSUME NEW list \in Seq(Resource), NEW room \in Nat, NEW t, NEW k \in 1..Len(list),
           TextOK(list, room, t, k - 1)
    PROVE  TextOK(list, room, Listed(list, room, t, k), k)
<1>. DEFINE u == Listed(list, room, t, k)
            with == IF t.size > 0 THEN Append(t.text, 0) ELSE t.text
            size == IF t.size > 0 THEN t.size + 1 ELSE t.size
            both == Append(with, k)
            n == Len(t.text)
<1>1. /\ t \in Texts(list) /\ t.text \in Seq(Items(list)) /\ t.size \in Nat /\ t.left \in BOOLEAN
      /\ n \in Nat /\ Len(list) \in Nat /\ k \in Items(list) /\ 0 \in Items(list)
      /\ Item(list, k) = list[k].size /\ list[k].size \in Nat /\ list[k].size >= 17
      /\ Item(list, 0) = 1
    <2>1. list[k] \in Resource
        OBVIOUS
    <2>. QED BY <2>1, RequestsAssumption DEF TextOK, Texts, Items, Item
<1>2. CASE t.left
    <2>1. u = t
        <3>1. [t EXCEPT !.left = TRUE] = t
            BY <1>1, <1>2 DEF Texts
        <3>. QED BY <1>2, <3>1 DEF Listed
    <2>. HIDE DEF u
    <2>2. TextOK(list, room, t, k)
        BY <1>2 DEF TextOK
    <2>. QED BY <2>1, <2>2 DEF u
<1>3. CASE ~t.left /\ t.size > 0 /\ t.size + 2 >= room
    <2>1. u = [t EXCEPT !.left = TRUE]
        BY <1>3 DEF Listed
    <2>2. u \in Texts(list) /\ u.text = t.text /\ u.size = t.size /\ u.left
        BY <1>1, <2>1 DEF Texts
    <2>. HIDE DEF u
    <2>3. n = 2 * (k - 1) - 1 /\ k - 1 > 0
        <3>1. t.text = <<>> => t.size = 0
            BY <1>1, SizeOfLonger DEF TextOK
        <3>2. n # 0
            BY <1>1, <1>3, <3>1
        <3>. QED BY <1>1, <1>3, <3>2 DEF TextOK
    <2>4. (n + 1) \div 2 = k - 1 /\ 2 * (k - 1) - 1 = n /\ SubSeq(t.text, 1, n) = t.text
        BY <1>1, <2>3
    <2>5. CutBefore(list, room, t.text, k - 1)
        <3>1. (k - 1) + 1 = k /\ k - 1 < Len(list) /\ k - 1 # 0
            BY <1>1, <2>3
        <3>2. Size(list, t.text) + 1 + list[k].size + 1 > room
            BY <1>1, <1>3 DEF TextOK
        <3>. QED BY <2>4, <3>1, <3>2 DEF CutBefore
    <2>. QED BY <1>3, <2>2, <2>4, <2>5 DEF TextOK, u
<1>4. CASE ~t.left /\ ~(t.size > 0 /\ t.size + 2 >= room)
    <2>1. n = IF k = 1 THEN 0 ELSE 2 * (k - 1) - 1
        BY <1>1, <1>4 DEF TextOK
    <2>2. t.size > 0 <=> k # 1
        <3>1. t.text = <<>> => t.size = 0
            BY <1>1, SizeOfLonger DEF TextOK
        <3>. QED BY <1>1, <2>1, <3>1 DEF TextOK
    <2>. DEFINE l == IF k = 1 THEN 0 ELSE 1
    <2>3. /\ with \in Seq(Items(list)) /\ Len(with) = n + l
          /\ Size(list, with) = size /\ size = t.size + l
          /\ \A j \in 1..n : with[j] = t.text[j]
          /\ k # 1 => with[n + 1] = 0
        <3>1. CASE k = 1
            <4>1. size = t.size /\ with = t.text
                BY <1>1, <2>2, <3>1
            <4>. QED BY <1>1, <3>1, <4>1 DEF TextOK
        <3>2. CASE k # 1
            <4>1. size = t.size + 1 /\ with = Append(t.text, 0)
                BY <1>1, <2>2, <3>2
            <4>2. Size(list, with) = Size(list, t.text) + 1
                BY <1>1, <4>1, SizeOfLonger
            <4>. HIDE DEF with, size
            <4>3. /\ with \in Seq(Items(list)) /\ Len(with) = n + 1
                  /\ with[n + 1] = 0 /\ \A j \in 1..n : with[j] = t.text[j]
                BY <1>1, <4>1
            <4>. QED BY <1>1, <3>2, <4>1, <4>2, <4>3 DEF TextOK
        <3>. QED BY <3>1, <3>2
    <2>4. l \in {0, 1} /\ Len(with) = 2 * (k - 1) /\ size \in Nat
        BY <1>1, <2>1, <2>3
    <2>5. Alternates(with)
        <3>1. ASSUME NEW j \in 1..Len(with)
              PROVE  with[j] = IF Odd(j) THEN (j + 1) \div 2 ELSE 0
            <4>1. CASE j <= n
                BY <1>1, <2>3, <3>1, <4>1 DEF TextOK, Alternates
            <4>2. CASE j > n
                <5>1. k # 1 /\ j = n + 1 /\ j = 2 * (k - 1)
                    BY <1>1, <2>1, <2>3, <2>4, <3>1, <4>2
                <5>2. ~Odd(j)
                    BY <1>1, <5>1, Parity
                <5>. QED BY <2>3, <5>1, <5>2
            <4>. QED BY <1>1, <4>1, <4>2
        <3>. HIDE DEF with
        <3>. QED BY <3>1 DEF Alternates
    <2>6. with = <<>> \/ size < room
        BY <1>1, <1>4, <2>2, <2>3, <2>4
    <2>7. Len(with) > 0 => size > 0
        BY <1>1, <2>2, <2>3, <2>4
    <2>. HIDE DEF with, size, l
    <2>8. CASE ~Fits(list[k], room - size)
        <3>. DEFINE v == [text |-> with, size |-> size, left |-> TRUE]
        <3>1. u = v
            BY <1>4, <2>8 DEF Listed, with, size
        <3>2. v \in Texts(list) /\ v.text = with /\ v.size = size /\ v.left
            BY <2>3, <2>4 DEF Texts
        <3>3. (Len(with) + 1) \div 2 = k - 1 /\ k - 1 < Len(list) /\ (k - 1) + 1 = k
            BY <1>1, <2>4
        <3>4. size + list[k].size + 1 > room
            BY <1>1, <2>4, <2>8 DEF Fits
        <3>5. k # 1 => SubSeq(with, 1, 2 * (k - 1) - 1) = t.text
            <4>1. ASSUME k # 1 PROVE SubSeq(with, 1, n) = t.text
                <5>1. n \in 1..Len(with) /\ Len(SubSeq(with, 1, n)) = n
                      /\ SubSeq(with, 1, n) \in Seq(Items(list))
                      /\ \A j \in 1..n : SubSeq(with, 1, n)[j] = with[j]
                    BY <1>1, <2>1, <2>3, <2>4, <4>1, SubSeqProperties DEF l
                <5>. QED BY <1>1, <2>3, <5>1, SeqEqual
            <4>. QED BY <2>1, <4>1
        <3>6. CutBefore(list, room, with, k - 1)
            <4>1. CASE k = 1
                BY <1>1, <2>2, <2>3, <2>4, <3>3, <3>4, <4>1 DEF CutBefore, l
            <4>2. CASE k # 1
                <5>1. size = Size(list, t.text) + 1 /\ k - 1 # 0
                    BY <1>1, <2>3, <4>2 DEF l, TextOK
                <5>. QED BY <3>3, <3>4, <3>5, <4>2, <5>1 DEF CutBefore
            <4>. QED BY <4>1, <4>2
        <3>. HIDE DEF v
        <3>7. TextOK(list, room, v, k)
            BY <2>3, <2>5, <2>6, <2>7, <3>2, <3>3, <3>6 DEF TextOK
        <3>. QED BY <3>1, <3>7
    <2>9. CASE Fits(list[k], room - size)
        <3>. DEFINE v == [text |-> both, size |-> size + list[k].size, left |-> FALSE]
        <3>1. u = v
            BY <1>4, <2>9 DEF Listed, with, size
        <3>3. /\ both \in Seq(Items(list)) /\ Len(both) = Len(with) + 1
              /\ both[Len(with) + 1] = k /\ \A j \in 1..Len(with) : both[j] = with[j]
            BY <1>1, <2>3
        <3>4. Size(list, both) = size + list[k].size
            BY <1>1, <2>3, SizeOfLonger
        <3>. HIDE DEF both
        <3>5. v \in Texts(list) /\ v.text = both /\ v.size = size + list[k].size /\ ~v.left
            BY <1>1, <2>4, <3>3 DEF Texts
        <3>6. Len(both) = 2 * k - 1 /\ Odd(2 * k - 1) /\ ((2 * k - 1) + 1) \div 2 = k
            BY <1>1, <2>4, <3>3 DEF Odd
        <3>7. Alternates(both)
            <4>1. ASSUME NEW j \in 1..Len(both)
                  PROVE  both[j] = IF Odd(j) THEN (j + 1) \div 2 ELSE 0
                <5>1. CASE j = 2 * k - 1
                    BY <2>4, <3>3, <3>6, <5>1
                <5>2. CASE j # 2 * k - 1
                    <6>1. j \in 1..Len(with)
                        BY <1>1, <2>4, <3>3, <4>1, <5>2
                    <6>. QED BY <2>5, <3>3, <6>1 DEF Alternates
                <5>. QED BY <5>1, <5>2
            <4>. QED BY <4>1 DEF Alternates
        <3>8. size + list[k].size < room /\ size + list[k].size > 0
            BY <1>1, <2>4, <2>9 DEF Fits
        <3>. HIDE DEF v
        <3>9. TextOK(list, room, v, k)
            BY <1>1, <3>4, <3>5, <3>6, <3>7, <3>8 DEF TextOK
        <3>. QED BY <3>1, <3>9
    <2>. QED BY <2>8, <2>9
<1>. QED BY <1>1, <1>2, <1>3, <1>4

\* An iteration of get_well_known makes a text of a text.
LEMMA ListedType ==
    ASSUME NEW list \in Seq(Resource), NEW room \in Nat, NEW t \in Texts(list),
           NEW k \in 1..Len(list)
    PROVE  Listed(list, room, t, k) \in Texts(list)
<1>. DEFINE with == IF t.size > 0 THEN Append(t.text, 0) ELSE t.text
            size == IF t.size > 0 THEN t.size + 1 ELSE t.size
            some == size + list[k].size
<1>1. t.text \in Seq(Items(list)) /\ t.size \in Nat /\ t.left \in BOOLEAN
    BY DEF Texts
<1>2. k \in Items(list) /\ 0 \in Items(list)
    BY DEF Items
<1>3. size \in Nat /\ some \in Nat
    <2>1. list[k].size \in Nat
        BY RequestsAssumption
    <2>2. size \in Nat
        BY <1>1
    <2>. HIDE DEF size
    <2>. QED BY <2>1, <2>2
<1>4. with \in Seq(Items(list)) /\ Append(with, k) \in Seq(Items(list))
    BY <1>1, <1>2
<1>5. \/ Listed(list, room, t, k) = [t EXCEPT !.left = TRUE]
      \/ Listed(list, room, t, k) = [text |-> with, size |-> size, left |-> TRUE]
      \/ Listed(list, room, t, k) = [text |-> Append(with, k), size |-> some, left |-> FALSE]
    BY DEF Listed
<1>6. [t EXCEPT !.left = TRUE] \in Texts(list)
    BY DEF Texts
<1>. HIDE DEF with, size, some
<1>7. /\ [text |-> with, size |-> size, left |-> TRUE] \in Texts(list)
      /\ [text |-> Append(with, k), size |-> some, left |-> FALSE] \in Texts(list)
    BY <1>3, <1>4 DEF Texts
<1>. QED BY <1>5, <1>6, <1>7

\* get_well_known as a whole.
LEMMA WellKnownOK ==
    ASSUME NEW list \in Seq(Resource), NEW room \in Nat
    PROVE  TextOK(list, room, GetWellKnown(list, room), Len(list))
<1>. DEFINE n == Len(list)
            T == Texts(list)
            step == [p \in T \X (1..n) |-> Listed(list, room, p[1], p[2])]
            after == CHOOSE g : g = [k \in 0..n |-> IF k = 0 THEN Nothing
                                                    ELSE Listed(list, room, g[k - 1], k)]
<1>1. n \in Nat /\ Nothing \in T
    BY DEF Nothing, Texts
<1>2. step \in [T \X (1..n) -> T] /\ \A t \in T, k \in 1..n : step[<<t, k>>] = Listed(list, room, t, k)
    BY ListedType
<1>3. GetWellKnown(list, room) = after[n]
    BY DEF GetWellKnown
<1>. HIDE DEF n, T, step
<1>4. PICK g \in [0..n -> T] : g[0] = Nothing /\ \A k \in 1..n : g[k] = step[<<g[k - 1], k>>]
    <2>1. step \in Steps(T, n)
        BY <1>2 DEF Steps
    <2>2. \E g \in [0..n -> T] : Iterates(g, Nothing, step, n)
        BY <1>1, <2>1, Recursion
    <2>. QED BY <2>2 DEF Iterates
<1>5. \A k \in 1..n : g[k] = Listed(list, room, g[k - 1], k)
    <2>1. \A k \in 1..n : k - 1 \in 0..n /\ g[k - 1] \in T
        BY <1>1, <1>4
    <2>. QED BY <1>2, <1>4, <2>1
<1>6. g = [k \in 0..n |-> IF k = 0 THEN Nothing ELSE Listed(list, room, g[k - 1], k)]
    BY <1>1, <1>4, <1>5
<1>7. after = [k \in 0..n |-> IF k = 0 THEN Nothing ELSE Listed(list, room, after[k - 1], k)]
    BY <1>6
<1>. HIDE DEF after
<1>8. after[0] = Nothing /\ \A k \in 1..n : after[k] = Listed(list, room, after[k - 1], k)
    BY <1>1, <1>7
<1>. DEFINE S == {k \in 0..n : TextOK(list, room, after[k], k)}
<1>9. 0 \in S
    <2>1. /\ Nothing.text = <<>> /\ Nothing.size = 0 /\ ~Nothing.left
          /\ Len(Nothing.text) = 0 /\ Nothing \in Texts(list)
        BY DEF Nothing, Texts
    <2>2. Size(list, <<>>) = 0
        <3>1. <<>> \in Seq(Items(list)) /\ 0 \in Items(list)
            BY DEF Items
        <3>. QED BY <3>1, SizeOfLonger
    <2>3. Alternates(Nothing.text)
        BY <2>1 DEF Alternates
    <2>4. TextOK(list, room, Nothing, 0)
        BY <2>1, <2>2, <2>3 DEF TextOK
    <2>. QED BY <1>1, <1>8, <2>4
<1>10. ASSUME NEW k \in 0..(n - 1), k \in S PROVE k + 1 \in S
    <2>1. k + 1 \in 1..n /\ (k + 1) - 1 = k /\ k + 1 \in 0..n
        BY <1>1
    <2>2. k + 1 \in 1..Len(list) /\ after[k + 1] = Listed(list, room, after[k], k + 1)
        BY <1>8, <2>1 DEF n
    <2>3. TextOK(list, room, after[k], (k + 1) - 1)
        BY <1>10, <2>1
    <2>4. TextOK(list, room, after[k + 1], k + 1)
        BY <2>2, <2>3, ListedOK
    <2>. QED BY <2>1, <2>4
<1>. HIDE DEF S
<1>11. \A k \in 0..n : k \in S
    BY <1>1, <1>9, <1>10, UpTo
<1>. QED BY <1>1, <1>3, <1>11 DEF S, n

\* The text of a list whatever its resources and the room.
LEMMA WellKnown ==
    ASSUME reslist \in Seq(Resource)
    PROVE  WellKnownInOrder /\ CutOnlyWhenFull
<1>1. ASSUME NEW room \in Avails
      PROVE  LET t == GetWellKnown(reslist, room)
                 n == (Len(t.text) + 1) \div 2
             IN  /\ t.text = <<>> \/ Size(reslist, t.text) < room
                 /\ \A j \in DOMAIN t.text : t.text[j] = IF j % 2 = 1 THEN (j + 1) \div 2 ELSE 0
                 /\ t.left = (n # Len(reslist))
                 /\ t.left => (IF n = 0 THEN 0 ELSE Size(reslist, SubSeq(t.text, 1, 2 * n - 1)) + 1)
                                + reslist[n + 1].size + 1 > room
    <2>. DEFINE t == GetWellKnown(reslist, room)
                n == (Len(t.text) + 1) \div 2
                m == Len(reslist)
    <2>1. room \in Nat /\ m \in Nat
        BY RequestsAssumption
    <2>2. TextOK(reslist, room, t, m)
        BY <2>1, WellKnownOK
    <2>. HIDE DEF t
    <2>3. t.text \in Seq(Items(reslist)) /\ t.left \in BOOLEAN
        BY <2>2 DEF TextOK, Texts
    <2>4. \A j \in DOMAIN t.text : t.text[j] = IF j % 2 = 1 THEN (j + 1) \div 2 ELSE 0
        BY <2>2, <2>3 DEF TextOK, Alternates, Odd
    <2>5. t.left => CutBefore(reslist, room, t.text, n)
        BY <2>2 DEF TextOK
    <2>6. ~t.left => n = m
        <3>1. ~t.left => Len(t.text) = IF m = 0 THEN 0 ELSE 2 * m - 1
            BY <2>2 DEF TextOK
        <3>2. ((2 * m - 1) + 1) \div 2 = m /\ (0 + 1) \div 2 = 0
            BY <2>1, Parity
        <3>. QED BY <3>1, <3>2
    <2>. HIDE DEF n, m
    <2>7. t.left => n # m
        <3>1. n < m => n # m
            BY <2>1
        <3>. QED BY <2>5, <3>1 DEF CutBefore, m
    <2>8. t.text = <<>> \/ Size(reslist, t.text) < room
        BY <2>2 DEF TextOK
    <2>. QED BY <2>3, <2>4, <2>5, <2>6, <2>7, <2>8 DEF CutBefore, n, m, t
<1>2. WellKnownInOrder
    BY <1>1 DEF WellKnownInOrder
<1>3. CutOnlyWhenFull
    BY <1>1 DEF CutOnlyWhenFull
<1>. QED BY <1>2, <1>3

----------------------------------------------------------------------------
(* The invariant.                                                           *)

LEMMA InitOK == Init => IInv
<1>. SUFFICES ASSUME Init PROVE IInv
    OBVIOUS
<1>1. reslist \in Seq(Resource) /\ answer.observe \in Int /\ AnswerOK
    BY DEF Init, NoAnswer, NoObserve, AnswerOK
<1>2. ASSUME NEW r \in Resource
      PROVE  res[r] \in Attributes /\ Balanced(res[r])
    BY DEF Init, Attributes, Balanced
<1>3. res \in [Resource -> Attributes]
    BY <1>2 DEF Init
<1>. QED BY <1>1, <1>2, <1>3 DEF IInv

\* The application: the resource it sets up is not in the list.
LEMMA SetHandlerOK ==
    ASSUME IInv, NEW r \in Resource, NEW method \in Methods, SetHandler(r, method)
    PROVE  IInv'
<1>. DEFINE b == [res[r] EXCEPT !.handlers = res[r].handlers \cup {method}]
<1>1. res[r] \in Attributes /\ Balanced(res[r])
    BY DEF IInv
<1>2. b \in Attributes
    <2>. DEFINE h == res[r].handlers \cup {method}
    <2>1. h \in SUBSET Methods
        BY <1>1 DEF Attributes
    <2>. HIDE DEF h
    <2>2. [res[r] EXCEPT !.handlers = h] \in Attributes
        BY <1>1, <2>1 DEF Attributes
    <2>. QED BY <2>2 DEF h
<1>3. Balanced(b)
    BY <1>1 DEF Balanced, Attributes
<1>4. res' = [res EXCEPT ![r] = b] /\ reslist' = reslist /\ answer' = answer
    BY DEF SetHandler
<1>5. res' \in [Resource -> Attributes] /\ \A q \in Resource : Balanced(res'[q])
    <2>. HIDE DEF b
    <2>. QED BY <1>2, <1>3, <1>4 DEF IInv
<1>6. AnswerOK'
    <2>1. r \notin ToSet(reslist)
        BY DEF SetHandler
    <2>. HIDE DEF b
    <2>. QED BY <1>4, <2>1 DEF IInv, AnswerOK
<1>. QED BY <1>4, <1>5, <1>6 DEF IInv

LEMMA OHandlerOK ==
    ASSUME IInv, NEW r \in Resource, NEW hooks \in BOOLEAN, OHandler(r, hooks)
    PROVE  IInv'
<1>. DEFINE b == [res[r] EXCEPT !.trig = TRUE, !.hooks = hooks,
                                !.observed = FALSE, !.serial = 0]
<1>1. res[r] \in Attributes /\ Balanced(res[r]) /\ ~res[r].trig
    BY DEF IInv, OHandler
<1>2. b \in Attributes
    BY <1>1 DEF Attributes
<1>3. res[r].held = 0
    BY <1>1 DEF Balanced, Attributes
<1>4. b.held = 0 /\ b.observed = FALSE /\ b.trig = TRUE
    BY <1>1, <1>3 DEF Attributes
<1>5. Balanced(b)
    BY <1>4 DEF Balanced
<1>6. res' = [res EXCEPT ![r] = b] /\ reslist' = reslist /\ answer' = answer
    BY DEF OHandler
<1>7. res' \in [Resource -> Attributes] /\ \A q \in Resource : Balanced(res'[q])
    <2>. HIDE DEF b
    <2>. QED BY <1>2, <1>5, <1>6 DEF IInv
<1>8. AnswerOK'
    <2>1. r \notin ToSet(reslist)
        BY DEF OHandler
    <2>. HIDE DEF b
    <2>. QED BY <1>6, <2>1 DEF IInv, AnswerOK
<1>. QED BY <1>6, <1>7, <1>8 DEF IInv

LEMMA RegisterOK ==
    ASSUME IInv, NEW r \in Resource, RegisterResource(r)
    PROVE  IInv'
<1>1. reslist' \in Seq(Resource) /\ ToSet(reslist) \subseteq ToSet(reslist')
    <2>1. reslist' = Append(reslist, r) /\ reslist \in Seq(Resource)
        BY DEF RegisterResource, Registered, IInv
    <2>. QED BY <2>1 DEF ToSet
<1>2. res' = res /\ answer' = answer
    BY DEF RegisterResource
<1>. QED BY <1>1, <1>2 DEF IInv, AnswerOK

LEMMA ResetOK == IInv /\ Reset => IInv'
BY DEF IInv, Reset, AnswerOK, NoAnswer, NoObserve

\* A call of loop() without a request for a resource.
LEMMA CheckedOK ==
    ASSUME IInv, NEW fired, res' = CheckObserved(res, fired), reslist' = reslist,
           answer' = answer \/ answer'.observe = NoObserve
    PROVE  IInv'
<1>1. /\ res' \in [Resource -> Attributes]
      /\ \A r \in Resource :
            /\ Balanced(res'[r]) /\ res'[r].trig = res[r].trig
            /\ res'[r].observed = res[r].observed /\ res'[r].token = res[r].token
            /\ res'[r].serial >= res[r].serial
    BY CheckSound DEF IInv
<1>2. \A r \in Resource : res[r].serial \in Int /\ res'[r].serial \in Int
    BY <1>1 DEF IInv, Attributes
<1>3. answer'.observe \in Int
    BY DEF IInv, NoObserve
<1>4. AnswerOK'
    BY <1>1, <1>2 DEF IInv, AnswerOK
<1>. QED BY <1>1, <1>3, <1>4 DEF IInv

LEMMA ProcessRequestOK ==
    ASSUME IInv, NEW name \in Names, NEW method \in Methods, NEW token \in Tokens,
           NEW observe \in BOOLEAN, NEW fired,
           ProcessRequest(name, method, token, observe, fired)
    PROVE  IInv'
<1>. DEFINE k == GetResource(reslist, name)
            r == reslist[k]
            seen == Observed(res[r], observe, token)
            next == IF observe THEN NextSerial(seen) ELSE seen
            f == [res EXCEPT ![r] = next]
<1>1. reslist \in Seq(Resource) /\ reslist' = reslist /\ k # 0
    BY DEF IInv, ProcessRequest
<1>2. k \in 1..Len(reslist)
    BY <1>1, FirstWithName
<1>3. r \in Resource /\ r \in ToSet(reslist)
    <2>. HIDE DEF k
    <2>. QED BY <1>1, <1>2 DEF ToSet
<1>4. res' = CheckObserved(f, fired)
    BY DEF ProcessRequest
<1>5. /\ answer'.from = r /\ answer'.token = token
      /\ answer'.observe = (IF observe THEN next.serial ELSE NoObserve)
    BY DEF ProcessRequest
<1>. HIDE DEF k, r
<1>6. res[r] \in Attributes /\ Balanced(res[r])
    BY <1>3 DEF IInv
<1>7. seen \in Attributes /\ Balanced(seen) /\ seen.trig = res[r].trig
      /\ (observe /\ res[r].trig => seen.observed /\ seen.token = token)
    BY <1>6, ObservedSound
<1>. HIDE DEF seen
<1>8. next \in Attributes /\ Balanced(next) /\ next.trig = res[r].trig
      /\ (observe /\ res[r].trig => next.observed /\ next.token = token)
    BY <1>7, SerialSound
<1>9. next.serial \in Int /\ answer'.observe \in Int
    BY <1>5, <1>8 DEF Attributes, NoObserve
<1>. HIDE DEF next
<1>10. f \in [Resource -> Attributes] /\ (\A q \in Resource : Balanced(f[q])) /\ f[r] = next
    BY <1>3, <1>8 DEF IInv
<1>. HIDE DEF f
<1>11. /\ res' \in [Resource -> Attributes]
       /\ \A q \in Resource :
             /\ Balanced(res'[q]) /\ res'[q].trig = f[q].trig
             /\ res'[q].observed = f[q].observed /\ res'[q].token = f[q].token
             /\ res'[q].serial >= f[q].serial
    BY <1>4, <1>10, CheckSound
<1>12. AnswerOK'
    <2>. SUFFICES ASSUME observe
                  PROVE  /\ answer'.from \in Resource /\ answer'.from \in ToSet(reslist')
                         /\ res'[r].trig => /\ res'[r].observed
                                            /\ res'[r].token = answer'.token
                                            /\ res'[r].serial >= answer'.observe
        BY <1>5 DEF AnswerOK
    <2>1. answer'.observe = next.serial
        BY <1>5
    <2>2. res'[r].trig = next.trig /\ res'[r].observed = next.observed
          /\ res'[r].token = next.token /\ res'[r].serial >= next.serial
        BY <1>3, <1>10, <1>11
    <2>. QED BY <1>1, <1>3, <1>5, <1>8, <2>1, <2>2
<1>. QED BY <1>1, <1>9, <1>11, <1>12 DEF IInv

LEMMA NextOK == IInv /\ [Next]_vars => IInv'
<1>. SUFFICES ASSUME IInv, [Next]_vars PROVE IInv'
    OBVIOUS
<1>1. ASSUME NEW r \in Resource,
             \/ RegisterResource(r)
             \/ \E method \in Methods : SetHandler(r, method)
             \/ \E hooks \in BOOLEAN : OHandler(r, hooks)
      PROVE  IInv'
    BY <1>1, RegisterOK, SetHandlerOK, OHandlerOK
<1>2. ASSUME NEW fired \in Firing, Loop(fired)
      PROVE  IInv'
    <2>1. CASE NoRequest(fired)
        BY <2>1, CheckedOK DEF NoRequest
    <2>2. CASE ListResources(fired)
        BY <2>2, CheckedOK DEF ListResources
    <2>3. ASSUME NEW name \in Names, NotFound(name, fired)
          PROVE  IInv'
        BY <2>3, CheckedOK DEF NotFound
    <2>4. ASSUME NEW name \in Names, NEW method \in Methods, NEW token \in Tokens,
                 NEW observe \in BOOLEAN,
                 ProcessRequest(name, method, token, observe, fired)
          PROVE  IInv'
        BY <2>4, ProcessRequestOK
    <2>. QED BY <1>2, <2>1, <2>2, <2>3, <2>4 DEF Loop
<1>3. CASE Reset
    BY <1>3, ResetOK
<1>4. CASE UNCHANGED vars
    BY <1>4 DEF vars, IInv, AnswerOK
<1>. QED BY <1>1, <1>2, <1>3, <1>4 DEF Next

----------------------------------------------------------------------------
(* The theorems.                                                            *)

\* The list, the attributes and the last answer are as they should: IInv holds
\* in every state of the resources and their requests.
THEOREM InvariantHolds == Spec => []IInv
<1>. QED BY InitOK, NextOK, PTL DEF Spec

\* Whatever the resources, requests and registrations, observedResource calls
\* obs_reg_ and obs_dereg_ in turns.
THEOREM RegistrationsCorrect == Spec => []RegistrationsBalanced
<1>1. IInv => RegistrationsBalanced
    BY DEF IInv, RegistrationsBalanced, Balanced
<1>. QED BY <1>1, InvariantHolds, PTL

\* Whatever the triggers, the observer of a resource is the last to have asked
\* for it, and the numbers that follow its answer are greater.
THEOREM ObserverCorrect == Spec => []ObserverIsAnswered
<1>1. IInv => ObserverIsAnswered
    BY DEF IInv, AnswerOK, ObserverIsAnswered
<1>. QED BY <1>1, InvariantHolds, PTL

\* However many resources are registered with the same names, get_resource goes
\* on returning the same one for a name.
THEOREM NamesStable == Spec => NamesAreStable
<1>. DEFINE Stable ==
         \A name \in Names :
            LET k == GetResource(reslist, name)
            IN  k # 0 /\ reslist' # <<>> =>
                   reslist'[GetResource(reslist', name)] = reslist[k]
<1>1. ASSUME IInv, [Next]_vars PROVE Stable
    <2>1. CASE reslist' = reslist
        BY <2>1
    <2>2. CASE reslist' = <<>>
        BY <2>2
    <2>3. ASSUME NEW r \in Resource, RegisterResource(r) PROVE Stable
        BY <1>1, <2>3, NameKept DEF RegisterResource, IInv
    <2>4. ASSUME NEW fired, Loop(fired) PROVE reslist' = reslist
        BY <2>4 DEF Loop, NoRequest, ListResources, NotFound, ProcessRequest
    <2>. HIDE DEF Stable
    <2>. QED BY <1>1, <2>1, <2>2, <2>3, <2>4 DEF Next, SetHandler, OHandler, Reset, vars
<1>2. IInv /\ [Next]_vars => [Stable]_vars
    BY <1>1
<1>. QED BY <1>2, InvariantHolds, PTL DEF Spec, NamesAreStable

\* For every list and room, the text is within the buffer and the resources in
\* it are the first of the list, in order, with a separator between two of them.
THEOREM TextInOrder == Spec => []WellKnownInOrder
<1>1. IInv => WellKnownInOrder
    BY WellKnown DEF IInv
<1>. QED BY <1>1, InvariantHolds, PTL

\* For every list and room, resources are left out only when the next one does
\* not fit, and the caller is told.
THEOREM CutCorrect == Spec => []CutOnlyWhenFull
<1>1. IInv => CutOnlyWhenFull
    BY WellKnown DEF IInv
<1>. QED BY <1>1, InvariantHolds, PTL

=============================================================================
