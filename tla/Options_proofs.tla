---------------------------- MODULE Options_proofs ----------------------------
(****************************************************************************)
(* The ownership of the values of options in module Options, for every set  *)
(* of variables, blocks, codes and values and every length of the list.     *)
(*                                                                          *)
(* A block of an option in use is allocated, since it holds its value; so a *)
(* block malloc returns is nobody else's.  The lemmas say what may be done  *)
(* to a variable and to the list, whatever the function that does it.       *)
(****************************************************************************)
EXTENDS Options, SequenceTheorems, WellFoundedInduction, TLAPS

Val == Values \cup {Empty}
Opt == [code: Nat, len: Nat, optval: Blocks \cup {NoBlock}, staticval: Val, wanted: Val]
Heaps == [Blocks -> Val \cup {Free}]

\* The block of an option, or NoBlock.
Blk(o) == IF o = NoOption THEN NoBlock ELSE o.optval

\* Intact, of an option and a heap.
Kept(hp, o) ==
    /\ o \in Opt
    /\ IF o.optval = NoBlock
       THEN o.staticval = o.wanted /\ o.wanted.len + 1 <= StaticLen
       ELSE hp[o.optval] = o.wanted

Apart(o, p) == Blk(o) = Blk(p) => Blk(o) = NoBlock

\* The variables, the list, and the heap they share.
Sound(hp, vr, ls) ==
    /\ hp \in Heaps
    /\ vr \in [Handles -> Opt \cup {NoOption}]
    /\ ls \in Seq(Opt)
    /\ \A h \in Handles : vr[h] # NoOption => Kept(hp, vr[h])
    /\ \A k \in 1..Len(ls) : Kept(hp, ls[k])
    /\ \A h, g \in Handles : h # g => Apart(vr[h], vr[g])
    /\ \A j, k \in 1..Len(ls) : j # k => Apart(ls[j], ls[k])
    /\ \A h \in Handles, k \in 1..Len(ls) : Apart(vr[h], ls[k])

\* Every allocated block has an owner or is known to be lost.
Accounted(hp, vr, ls, gone) ==
    \A b \in Blocks :
        hp[b] # Free => \/ b \in gone
                        \/ \E h \in Handles : Blk(vr[h]) = b
                        \/ \E k \in 1..Len(ls) : Blk(ls[k]) = b

IInv == Sound(heap, var, list) /\ Accounted(heap, var, list, lost)

----------------------------------------------------------------------------
(* Values and options.                                                      *)

LEMMA ValuesType == \A v \in Val : v.len \in Nat /\ v # Free
BY OptionsAssumption DEF Val, Empty, Free

LEMMA OptIsNoNoOption == NoOption \notin Opt
BY DEF NoOption, Opt, MO_None

LEMMA BlankKept ==
    ASSUME NEW hp, NEW code \in Nat
    PROVE  Blank(code) \in Opt /\ Kept(hp, Blank(code)) /\ Blk(Blank(code)) = NoBlock
<1>1. Blank(code) \in Opt
  BY DEF Blank, Opt, Val, Empty
<1>2. Blk(Blank(code)) = NoBlock
  BY DEF Blk, Blank, NoOption
<1>3. Kept(hp, Blank(code))
  BY <1>1 DEF Kept, Blank, Empty, StaticLen
<1> QED
  BY <1>1, <1>2, <1>3

\* COPY_VAL with what malloc returned.
LEMMA CopyValKept ==
    ASSUME NEW o \in Opt, NEW v \in Val, NEW b \in Blocks \cup {NoBlock}, NEW hp \in Heaps,
           NeedsBlock(v) => b \in Blocks
    PROVE  /\ CopyVal(o, v, b) \in Opt
           /\ Stored(hp, v, b) \in Heaps
           /\ Kept(Stored(hp, v, b), CopyVal(o, v, b))
           /\ Blk(CopyVal(o, v, b)) = IF NeedsBlock(v) THEN b ELSE NoBlock
           /\ \A c \in Blocks : Stored(hp, v, b)[c] = IF NeedsBlock(v) /\ c = b THEN v ELSE hp[c]
<1> DEFINE p == [o EXCEPT !.len = v.len, !.optval = b, !.wanted = v]
           q == [o EXCEPT !.len = v.len, !.optval = NoBlock, !.staticval = v, !.wanted = v]
           w == CopyVal(o, v, b)
           s == Stored(hp, v, b)
<1>1. v.len \in Nat /\ NoBlock \notin Blocks
  BY ValuesType, OptionsAssumption
<1>2. p \in Opt /\ p.optval = b /\ p.wanted = v
  BY <1>1 DEF Opt
<1>3. q \in Opt /\ q.optval = NoBlock /\ q.wanted = v /\ q.staticval = v
  BY <1>1 DEF Opt
<1>4. w = IF NeedsBlock(v) THEN p ELSE q
  BY DEF CopyVal
<1> HIDE DEF p, q, w
<1>5. w \in Opt /\ w # NoOption
  BY <1>2, <1>3, <1>4, OptIsNoNoOption
<1>6. s \in Heaps /\ \A c \in Blocks : s[c] = IF NeedsBlock(v) /\ c = b THEN v ELSE hp[c]
  BY DEF Stored, Heaps
<1> HIDE DEF s
<1>7. CASE NeedsBlock(v)
  <2>1. w.optval = b /\ w.wanted = v /\ b \in Blocks /\ s[b] = v
    BY <1>2, <1>4, <1>6, <1>7
  <2>2. Kept(s, w) /\ Blk(w) = b
    BY <1>1, <1>5, <2>1 DEF Kept, Blk
  <2> QED
    BY <1>5, <1>6, <1>7, <2>2 DEF w, s
<1>8. CASE ~NeedsBlock(v)
  <2>1. w.optval = NoBlock /\ w.wanted = v /\ w.staticval = v /\ v.len + 1 <= StaticLen
    BY <1>1, <1>3, <1>4, <1>8 DEF NeedsBlock, StaticLen
  <2>2. Kept(s, w) /\ Blk(w) = NoBlock
    BY <1>1, <1>5, <2>1 DEF Kept, Blk
  <2> QED
    BY <1>5, <1>6, <1>8, <2>2 DEF w, s
<1> QED
  BY <1>7, <1>8

\* initOptionOption with what malloc returned.
LEMMA CopyOfKept ==
    ASSUME NEW hp \in Heaps, NEW o, Kept(hp, o), NEW b \in Blocks
    PROVE  /\ CopyStored(hp, o, b) \in Heaps
           /\ Kept(CopyStored(hp, o, b), CopyOf(o, b))
           /\ CopyOf(o, b) \in Opt
           /\ Blk(CopyOf(o, b)) = IF o.optval = NoBlock THEN NoBlock ELSE b
           /\ \A c \in Blocks :
                 CopyStored(hp, o, b)[c]
                    = IF o.optval # NoBlock /\ c = b THEN o.wanted ELSE hp[c]
<1>1. o \in Opt /\ NoBlock \notin Blocks /\ o # NoOption /\ o.wanted \in Val
  BY OptionsAssumption, OptIsNoNoOption DEF Kept, Opt
<1>2. CASE o.optval = NoBlock
  BY <1>1, <1>2 DEF CopyOf, CopyStored, Blk
<1>3. CASE o.optval # NoBlock
  <2> DEFINE p == [o EXCEPT !.optval = b]
             s == [hp EXCEPT ![b] = hp[o.optval]]
  <2>1. p \in Opt /\ p.optval = b /\ p.wanted = o.wanted
    BY <1>1 DEF Opt
  <2>2. hp[o.optval] = o.wanted
    BY <1>3 DEF Kept
  <2>3. s \in Heaps /\ \A c \in Blocks : s[c] = IF c = b THEN o.wanted ELSE hp[c]
    BY <1>1, <2>2 DEF Heaps
  <2>4. CopyOf(o, b) = p /\ CopyStored(hp, o, b) = s
    BY <1>3 DEF CopyOf, CopyStored
  <2> HIDE DEF p, s
  <2>5. Kept(s, p) /\ Blk(p) = b
    BY <1>1, <2>1, <2>3, OptIsNoNoOption DEF Kept, Blk
  <2> QED
    BY <1>3, <2>1, <2>3, <2>4, <2>5
<1> QED
  BY <1>2, <1>3

----------------------------------------------------------------------------
(* A variable.                                                              *)

\* What a block needs to be given to an option which had the block old.
Fresh(hp, b, old) == b = NoBlock \/ b = old \/ (b \in Blocks /\ hp[b] = Free)

\* An option of the list or of another variable does not see a change of the
\* block it does not have.
LEMMA KeptStays ==
    ASSUME NEW hp \in Heaps, NEW new \in Heaps, NEW p, NEW old, Kept(hp, p),
           Blk(p) = old => old = NoBlock,
           \A c \in Blocks : new[c] = hp[c] \/ c = old \/ hp[c] = Free
    PROVE  Kept(new, p)
<1>1. p \in Opt /\ Blk(p) = p.optval /\ p.wanted \in Val /\ p.wanted # Free
      /\ p.optval \in Blocks \cup {NoBlock}
  BY OptIsNoNoOption, ValuesType DEF Kept, Blk, Opt
<1>2. CASE p.optval = NoBlock
  BY <1>1, <1>2 DEF Kept
<1>3. CASE p.optval # NoBlock
  BY <1>1, <1>3 DEF Kept
<1> QED
  BY <1>2, <1>3

\* A block malloc returned, or one's own, is not that of another option.
LEMMA FreshApart ==
    ASSUME NEW hp \in Heaps, NEW old, NEW o, NEW p, NEW q,
           p # NoOption => Kept(hp, p), Apart(q, p), old = Blk(q),
           Fresh(hp, Blk(o), old)
    PROVE  Apart(o, p) /\ Apart(p, o)
<1>1. CASE p = NoOption
  BY <1>1 DEF Apart, Blk
<1>2. CASE p # NoOption
  <2>1. p \in Opt /\ Blk(p) = p.optval /\ p.wanted # Free
        /\ (p.optval # NoBlock => hp[p.optval] # Free)
    BY <1>2, ValuesType DEF Kept, Blk, Opt
  <2> QED
    BY <2>1 DEF Apart, Fresh
<1> QED
  BY <1>1, <1>2

LEMMA SetVarSound ==
    ASSUME NEW hp, NEW vr, NEW ls, Sound(hp, vr, ls), NEW h \in Handles,
           NEW o \in Opt \cup {NoOption}, NEW new \in Heaps,
           o # NoOption => Kept(new, o), Fresh(hp, Blk(o), Blk(vr[h])),
           \A c \in Blocks : new[c] = hp[c] \/ c = Blk(vr[h]) \/ hp[c] = Free
    PROVE  Sound(new, [vr EXCEPT ![h] = o], ls)
<1> DEFINE w == [vr EXCEPT ![h] = o]
<1>1. /\ hp \in Heaps /\ vr \in [Handles -> Opt \cup {NoOption}] /\ ls \in Seq(Opt)
      /\ \A g \in Handles : vr[g] # NoOption => Kept(hp, vr[g])
      /\ \A k \in 1..Len(ls) : Kept(hp, ls[k])
      /\ \A g, f \in Handles : g # f => Apart(vr[g], vr[f])
      /\ \A j, k \in 1..Len(ls) : j # k => Apart(ls[j], ls[k])
      /\ \A g \in Handles, k \in 1..Len(ls) : Apart(vr[g], ls[k])
  BY DEF Sound
<1>2. /\ w \in [Handles -> Opt \cup {NoOption}] /\ w[h] = o
      /\ \A g \in Handles : g # h => w[g] = vr[g]
  BY <1>1
<1> HIDE DEF w
<1>3. ASSUME NEW g \in Handles, g # h
      PROVE  /\ vr[g] # NoOption => Kept(new, vr[g])
             /\ Apart(o, vr[g]) /\ Apart(vr[g], o)
  <2>1. Apart(vr[h], vr[g]) /\ Apart(vr[g], vr[h])
    BY <1>1, <1>3
  <2>2. vr[g] # NoOption => Kept(hp, vr[g])
    BY <1>1
  <2>3. Blk(vr[g]) = Blk(vr[h]) => Blk(vr[h]) = NoBlock
    BY <2>1 DEF Apart
  <2>4. vr[g] # NoOption => Kept(new, vr[g])
    BY <1>1, <2>2, <2>3, KeptStays
  <2>5. Apart(o, vr[g]) /\ Apart(vr[g], o)
    BY <1>1, <2>1, <2>2, FreshApart
  <2> QED
    BY <2>4, <2>5
<1>4. ASSUME NEW k \in 1..Len(ls)
      PROVE  Kept(new, ls[k]) /\ Apart(o, ls[k])
  <2>1. Apart(vr[h], ls[k]) /\ Kept(hp, ls[k])
    BY <1>1
  <2>2. Blk(ls[k]) = Blk(vr[h]) => Blk(vr[h]) = NoBlock
    BY <2>1 DEF Apart
  <2>3. Kept(new, ls[k])
    BY <1>1, <2>1, <2>2, KeptStays
  <2>4. Apart(o, ls[k])
    BY <1>1, <2>1, FreshApart
  <2> QED
    BY <2>3, <2>4
<1>5. \A g \in Handles : w[g] # NoOption => Kept(new, w[g])
  BY <1>2, <1>3
<1>6. \A g, f \in Handles : g # f => Apart(w[g], w[f])
  BY <1>1, <1>2, <1>3
<1>7. \A g \in Handles, k \in 1..Len(ls) : Apart(w[g], ls[k])
  BY <1>1, <1>2, <1>4
<1> QED
  BY <1>1, <1>2, <1>4, <1>5, <1>6, <1>7 DEF Sound, w

\* The block of the variable is the only one that may have to be accounted for
\* in another way.
LEMMA SetVarAccounted ==
    ASSUME NEW hp, NEW vr, NEW ls, NEW gone, Sound(hp, vr, ls), Accounted(hp, vr, ls, gone),
           NEW h \in Handles, NEW o, NEW new, NEW left, gone \subseteq left,
           \A c \in Blocks : new[c] # Free =>
                \/ c = Blk(o)
                \/ hp[c] # Free /\ (c = Blk(vr[h]) => c \in left)
    PROVE  Accounted(new, [vr EXCEPT ![h] = o], ls, left)
<1> DEFINE w == [vr EXCEPT ![h] = o]
<1>1. w[h] = o /\ \A g \in Handles : g # h => w[g] = vr[g]
  BY DEF Sound
<1> HIDE DEF w
<1> SUFFICES ASSUME NEW c \in Blocks, new[c] # Free
             PROVE  \/ c \in left
                    \/ \E g \in Handles : Blk(w[g]) = c
                    \/ \E k \in 1..Len(ls) : Blk(ls[k]) = c
  BY DEF Accounted, w
<1>2. CASE c = Blk(o)
  BY <1>1, <1>2
<1>3. CASE hp[c] # Free /\ (c = Blk(vr[h]) => c \in left)
  <2>1. \/ c \in gone
        \/ \E g \in Handles : Blk(vr[g]) = c
        \/ \E k \in 1..Len(ls) : Blk(ls[k]) = c
    BY <1>3 DEF Accounted
  <2>2. ASSUME NEW g \in Handles, Blk(vr[g]) = c
        PROVE  c \in left \/ \E f \in Handles : Blk(w[f]) = c
    BY <1>1, <1>3, <2>2
  <2> QED
    BY <2>1, <2>2
<1> QED
  BY <1>2, <1>3

----------------------------------------------------------------------------
(* The list.                                                                *)

LEMMA Least ==
    ASSUME NEW I, I \subseteq Nat, I # {}
    PROVE  Min(I) \in I
<1>1. PICK x \in I : \A y \in I : ~(<<y, x>> \in OpToRel(<, Nat))
  BY NatLessThanWellFounded, WFMin, Zenon
<1>2. \A y \in I : ~(y < x)
  BY <1>1 DEF OpToRel
<1>3. \A y \in I : x <= y
  BY <1>2
<1> QED
  BY <1>3 DEF Min

\* push_option opens a place in the list.
LEMMA InsertedPlace ==
    ASSUME NEW ls \in Seq(Opt), NEW o \in Opt
    PROVE  /\ Inserted(ls, o) \in Seq(Opt)
           /\ Len(Inserted(ls, o)) = Len(ls) + 1
           /\ \E i \in 1..(Len(ls) + 1) :
                \A k \in 1..(Len(ls) + 1) :
                   Inserted(ls, o)[k] = IF k < i THEN ls[k] ELSE IF k = i THEN o ELSE ls[k - 1]
<1> DEFINE I == {i \in 1..Len(ls) : ls[i].code > o.code}
           place == SelectInSeq(ls, LAMBDA p : p.code > o.code)
           t == Inserted(ls, o)
<1>1. place = IF I # {} THEN Min(I) ELSE 0
  BY DEF SelectInSeq
<1>2. I # {} => Min(I) \in I
  <2>1. I \subseteq Nat
    OBVIOUS
  <2> HIDE DEF I
  <2> QED
    BY <2>1, Least
<1>3. t = IF place = 0 THEN Append(ls, o) ELSE InsertAt(ls, place, o)
  BY DEF Inserted
<1>4. place = 0 \/ place \in 1..Len(ls)
  BY <1>1, <1>2
<1> HIDE DEF place, t
<1>5. CASE place = 0
  <2>1. t = Append(ls, o)
    BY <1>3, <1>5
  <2>2. /\ t \in Seq(Opt) /\ Len(t) = Len(ls) + 1
        /\ \A k \in 1..(Len(ls) + 1) : t[k] = IF k < Len(ls) + 1 THEN ls[k] ELSE o
    BY <2>1
  <2> QED
    BY <2>2 DEF t
<1>6. CASE place # 0
  <2> DEFINE a == SubSeq(ls, 1, place - 1)
             c == SubSeq(ls, place, Len(ls))
             n == Len(ls)
  <2>1. place \in 1..n /\ n \in Nat
    BY <1>4, <1>6
  <2>2. a \in Seq(Opt) /\ Len(a) = place - 1 /\ \A k \in 1..(place - 1) : a[k] = ls[k]
    BY <2>1
  <2>3. c \in Seq(Opt) /\ Len(c) = n - place + 1
        /\ \A k \in 1..(n - place + 1) : c[k] = ls[place + k - 1]
    BY <2>1, SubSeqProperties
  <2>4. t = (a \o <<o>>) \o c
    BY <1>3, <1>6 DEF InsertAt
  <2> HIDE DEF a, c, n
  <2> DEFINE b == a \o <<o>>
  <2>5. /\ b \in Seq(Opt) /\ Len(b) = place
        /\ \A k \in 1..place : b[k] = IF k < place THEN ls[k] ELSE o
    <3>1. b = Append(a, o)
      BY <2>2
    <3> QED
      BY <2>1, <2>2, <3>1
  <2> HIDE DEF b
  <2>6. /\ t \in Seq(Opt) /\ Len(t) = n + 1
        /\ \A k \in 1..(n + 1) : t[k] = IF k <= place THEN b[k] ELSE c[k - place]
    <3>1. t = b \o c
      BY <2>4 DEF b
    <3>2. Len(b) + Len(c) = n + 1
      BY <2>1, <2>3, <2>5
    <3>3. /\ b \o c \in Seq(Opt) /\ Len(b \o c) = Len(b) + Len(c)
          /\ \A k \in 1..(Len(b) + Len(c)) :
                (b \o c)[k] = IF k <= Len(b) THEN b[k] ELSE c[k - Len(b)]
      BY <2>3, <2>5, ConcatProperties, Zenon
    <3>4. /\ t \in Seq(Opt) /\ Len(t) = Len(b) + Len(c)
          /\ \A k \in 1..(Len(b) + Len(c)) : t[k] = IF k <= Len(b) THEN b[k] ELSE c[k - Len(b)]
      BY <3>1, <3>3, Zenon
    <3> QED
      BY <2>5, <3>2, <3>4
  <2>7. ASSUME NEW k \in 1..(n + 1)
        PROVE  t[k] = IF k < place THEN ls[k] ELSE IF k = place THEN o ELSE ls[k - 1]
    <3>1. CASE k <= place
      BY <2>1, <2>5, <2>6, <3>1
    <3>2. CASE k > place
      <4>1. k - place \in 1..(n - place + 1) /\ place + (k - place) - 1 = k - 1
        BY <2>1, <3>2
      <4>2. c[k - place] = ls[k - 1]
        BY <2>3, <4>1
      <4> QED
        BY <2>1, <2>6, <3>2, <4>2
    <3> QED
      BY <2>1, <3>1, <3>2
  <2>8. place \in 1..(n + 1)
    BY <2>1
  <2> QED
    BY <2>6, <2>7, <2>8 DEF n, t
<1> QED
  BY <1>5, <1>6

LEMMA InsertSound ==
    ASSUME NEW hp, NEW vr, NEW ls, NEW gone, Sound(hp, vr, ls), Accounted(hp, vr, ls, gone),
           NEW o \in Opt, NEW new \in Heaps, NEW left, gone \subseteq left,
           Kept(new, o), Fresh(hp, Blk(o), NoBlock),
           \A c \in Blocks : new[c] = hp[c] \/ hp[c] = Free,
           \A c \in Blocks : new[c] # Free => hp[c] # Free \/ c = Blk(o) \/ c \in left
    PROVE  Sound(new, vr, Inserted(ls, o)) /\ Accounted(new, vr, Inserted(ls, o), left)
<1> DEFINE t == Inserted(ls, o)
           n == Len(ls)
<1>1. /\ hp \in Heaps /\ vr \in [Handles -> Opt \cup {NoOption}] /\ ls \in Seq(Opt)
      /\ \A g \in Handles : vr[g] # NoOption => Kept(hp, vr[g])
      /\ \A k \in 1..n : Kept(hp, ls[k])
      /\ \A g, f \in Handles : g # f => Apart(vr[g], vr[f])
      /\ \A j, k \in 1..n : j # k => Apart(ls[j], ls[k])
      /\ \A g \in Handles, k \in 1..n : Apart(vr[g], ls[k])
  BY DEF Sound
<1>2. n \in Nat
  BY <1>1
<1>3. t \in Seq(Opt) /\ Len(t) = n + 1
  BY <1>1, InsertedPlace
<1>4. PICK i \in 1..(n + 1) :
        \A k \in 1..(n + 1) : t[k] = IF k < i THEN ls[k] ELSE IF k = i THEN o ELSE ls[k - 1]
  BY <1>1, InsertedPlace
<1>5. \A k \in 1..(n + 1) : k # i => /\ (IF k < i THEN k ELSE k - 1) \in 1..n
                                     /\ t[k] = ls[IF k < i THEN k ELSE k - 1]
  BY <1>2, <1>4
<1>6. t[i] = o
  BY <1>2, <1>4
<1> HIDE DEF t, n
<1> DEFINE old(k) == IF k < i THEN k ELSE k - 1
<1>7. ASSUME NEW k \in 1..n
      PROVE  Kept(new, ls[k]) /\ Apart(o, ls[k]) /\ Apart(ls[k], o)
  <2>1. Kept(hp, ls[k]) /\ Apart(NoOption, ls[k]) /\ Blk(NoOption) = NoBlock
    BY <1>1 DEF Apart, Blk
  <2>2. Kept(new, ls[k])
    BY <1>1, <2>1, KeptStays
  <2> QED
    BY <1>1, <2>1, <2>2, FreshApart
<1>8. ASSUME NEW g \in Handles
      PROVE  /\ vr[g] # NoOption => Kept(new, vr[g])
             /\ Apart(o, vr[g]) /\ Apart(vr[g], o)
  <2>1. (vr[g] # NoOption => Kept(hp, vr[g])) /\ Apart(NoOption, vr[g])
        /\ Blk(NoOption) = NoBlock
    BY <1>1 DEF Apart, Blk
  <2>2. vr[g] # NoOption => Kept(new, vr[g])
    BY <1>1, <2>1, KeptStays
  <2> QED
    BY <1>1, <2>1, <2>2, FreshApart
<1>9. ASSUME NEW k \in 1..(n + 1)
      PROVE  Kept(new, t[k])
  <2>1. CASE k = i
    BY <1>6, <2>1
  <2>2. CASE k # i
    BY <1>5, <1>7, <2>2
  <2> QED
    BY <2>1, <2>2
<1>10. ASSUME NEW j \in 1..(n + 1), NEW k \in 1..(n + 1), j # k
       PROVE  Apart(t[j], t[k])
  <2>1. CASE j = i
    BY <1>5, <1>6, <1>7, <1>10, <2>1
  <2>2. CASE k = i
    BY <1>5, <1>6, <1>7, <1>10, <2>2
  <2>3. CASE j # i /\ k # i
    <3>1. old(j) \in 1..n /\ old(k) \in 1..n /\ t[j] = ls[old(j)] /\ t[k] = ls[old(k)]
      BY <1>5, <2>3
    <3>2. old(j) # old(k)
      BY <1>2, <1>10, <2>3
    <3> QED
      BY <1>1, <3>1, <3>2
  <2> QED
    BY <2>1, <2>2, <2>3
<1>11. ASSUME NEW g \in Handles, NEW k \in 1..(n + 1)
       PROVE  Apart(vr[g], t[k])
  BY <1>1, <1>5, <1>6, <1>8
<1>12. Sound(new, vr, t)
  BY <1>1, <1>3, <1>8, <1>9, <1>10, <1>11 DEF Sound
<1>13. ASSUME NEW c \in Blocks, new[c] # Free
       PROVE  \/ c \in left
              \/ \E g \in Handles : Blk(vr[g]) = c
              \/ \E k \in 1..(n + 1) : Blk(t[k]) = c
  <2>1. CASE c = Blk(o)
    BY <1>6, <2>1
  <2>2. CASE c \in left
    BY <2>2
  <2>3. CASE hp[c] # Free
    <3>1. \/ c \in gone
          \/ \E g \in Handles : Blk(vr[g]) = c
          \/ \E k \in 1..n : Blk(ls[k]) = c
      BY <2>3 DEF Accounted, n
    <3>2. ASSUME NEW k \in 1..n, Blk(ls[k]) = c
          PROVE  \E j \in 1..(n + 1) : Blk(t[j]) = c
      <4>1. CASE k < i
        <5>1. k \in 1..(n + 1) /\ t[k] = ls[k]
          BY <1>2, <1>4, <4>1
        <5> QED
          BY <3>2, <5>1
      <4>2. CASE k >= i
        <5>1. k + 1 \in 1..(n + 1) /\ ~(k + 1 < i) /\ k + 1 # i /\ (k + 1) - 1 = k
          BY <1>2, <4>2
        <5>2. t[k + 1] = ls[k]
          BY <1>4, <5>1
        <5> QED
          BY <3>2, <5>1, <5>2
      <4> QED
        BY <1>2, <4>1, <4>2
    <3> QED
      BY <3>1, <3>2
  <2> QED
    BY <1>13, <2>1, <2>2, <2>3
<1> QED
  BY <1>3, <1>12, <1>13 DEF Accounted, t

\* The first option moves from the list to a variable without one.
LEMMA PopSound ==
    ASSUME NEW hp, NEW vr, NEW ls, NEW gone, Sound(hp, vr, ls), Accounted(hp, vr, ls, gone),
           NEW h \in Handles, vr[h] = NoOption, ls # <<>>
    PROVE  LET w == [vr EXCEPT ![h] = Head(ls)]
           IN  Sound(hp, w, Tail(ls)) /\ Accounted(hp, w, Tail(ls), gone)
<1> DEFINE w == [vr EXCEPT ![h] = Head(ls)]
           t == Tail(ls)
           n == Len(ls)
<1>1. /\ hp \in Heaps /\ vr \in [Handles -> Opt \cup {NoOption}] /\ ls \in Seq(Opt)
      /\ \A g \in Handles : vr[g] # NoOption => Kept(hp, vr[g])
      /\ \A k \in 1..n : Kept(hp, ls[k])
      /\ \A g, f \in Handles : g # f => Apart(vr[g], vr[f])
      /\ \A j, k \in 1..n : j # k => Apart(ls[j], ls[k])
      /\ \A g \in Handles, k \in 1..n : Apart(vr[g], ls[k])
  BY DEF Sound
<1>2. n \in Nat /\ n > 0 /\ t \in Seq(Opt) /\ Len(t) = n - 1
      /\ (\A k \in 1..(n - 1) : t[k] = ls[k + 1]) /\ Head(ls) = ls[1] /\ ls[1] \in Opt
  BY <1>1, HeadTailProperties
<1>3. /\ w \in [Handles -> Opt \cup {NoOption}] /\ w[h] = ls[1]
      /\ \A g \in Handles : g # h => w[g] = vr[g]
  BY <1>1, <1>2
<1> HIDE DEF w, t, n
<1>4. 1 \in 1..n /\ \A k \in 1..(n - 1) : k + 1 \in 1..n /\ k + 1 # 1
  BY <1>2
<1>5. \A p, q : Apart(p, q) => Apart(q, p)
  BY DEF Apart
<1>6. \A g \in Handles : w[g] # NoOption => Kept(hp, w[g])
  BY <1>1, <1>3, <1>4
<1>7. \A k \in 1..(n - 1) : Kept(hp, t[k])
  BY <1>1, <1>2, <1>4
<1>8. \A g, f \in Handles : g # f => Apart(w[g], w[f])
  BY <1>1, <1>3, <1>4, <1>5
<1>9. ASSUME NEW j \in 1..(n - 1), NEW k \in 1..(n - 1), j # k
      PROVE  Apart(t[j], t[k])
  <2>1. j + 1 # k + 1 /\ j + 1 \in 1..n /\ k + 1 \in 1..n
    BY <1>4, <1>9
  <2> QED
    BY <1>1, <1>2, <2>1
<1>10. \A g \in Handles, k \in 1..(n - 1) : Apart(w[g], t[k])
  BY <1>1, <1>2, <1>3, <1>4
<1>11. Sound(hp, w, t)
  BY <1>1, <1>2, <1>3, <1>6, <1>7, <1>8, <1>9, <1>10 DEF Sound
<1>12. ASSUME NEW c \in Blocks, hp[c] # Free
       PROVE  \/ c \in gone
              \/ \E g \in Handles : Blk(w[g]) = c
              \/ \E k \in 1..(n - 1) : Blk(t[k]) = c
  <2>1. \/ c \in gone
        \/ \E g \in Handles : Blk(vr[g]) = c
        \/ \E k \in 1..n : Blk(ls[k]) = c
    BY <1>12 DEF Accounted, n
  <2>2. ASSUME NEW g \in Handles, Blk(vr[g]) = c
        PROVE  \E f \in Handles : Blk(w[f]) = c
    <3>1. g # h
      BY <2>2, OptionsAssumption DEF Blk
    <3> QED
      BY <1>3, <2>2, <3>1
  <2>3. ASSUME NEW k \in 1..n, Blk(ls[k]) = c
        PROVE  \/ \E g \in Handles : Blk(w[g]) = c
               \/ \E j \in 1..(n - 1) : Blk(t[j]) = c
    <3>1. CASE k = 1
      BY <1>3, <2>3, <3>1
    <3>2. CASE k # 1
      <4>1. k - 1 \in 1..(n - 1) /\ (k - 1) + 1 = k
        BY <1>2, <3>2
      <4>2. t[k - 1] = ls[k]
        BY <1>2, <4>1
      <4> QED
        BY <2>3, <4>1, <4>2
    <3> QED
      BY <3>1, <3>2
  <2> QED
    BY <2>1, <2>2, <2>3
<1> QED
  BY <1>2, <1>11, <1>12 DEF Accounted, w, t

\* An option of the list loses its block, or keeps it.
LEMMA ReplaceSound ==
    ASSUME NEW hp, NEW vr, NEW ls, NEW gone, Sound(hp, vr, ls), Accounted(hp, vr, ls, gone),
           NEW i \in 1..Len(ls), NEW o \in Opt, NEW left, gone \subseteq left,
           Kept(hp, o), Blk(o) = NoBlock \/ Blk(o) = Blk(ls[i]),
           Blk(ls[i]) = Blk(o) \/ Blk(ls[i]) \in left \/ Blk(ls[i]) = NoBlock
    PROVE  Sound(hp, vr, [ls EXCEPT ![i] = o]) /\ Accounted(hp, vr, [ls EXCEPT ![i] = o], left)
<1> DEFINE t == [ls EXCEPT ![i] = o]
           n == Len(ls)
<1>1. /\ hp \in Heaps /\ vr \in [Handles -> Opt \cup {NoOption}] /\ ls \in Seq(Opt)
      /\ \A g \in Handles : vr[g] # NoOption => Kept(hp, vr[g])
      /\ \A k \in 1..n : Kept(hp, ls[k])
      /\ \A g, f \in Handles : g # f => Apart(vr[g], vr[f])
      /\ \A j, k \in 1..n : j # k => Apart(ls[j], ls[k])
      /\ \A g \in Handles, k \in 1..n : Apart(vr[g], ls[k])
  BY DEF Sound
<1>2. t \in Seq(Opt) /\ Len(t) = n /\ t[i] = o /\ \A k \in 1..n : k # i => t[k] = ls[k]
  BY <1>1
<1> HIDE DEF t, n
<1>3. \A p : (Apart(ls[i], p) => Apart(o, p)) /\ (Apart(p, ls[i]) => Apart(p, o))
  BY DEF Apart
<1>4. i \in 1..n
  BY DEF n
<1>5. \A k \in 1..n : Kept(hp, t[k])
  BY <1>1, <1>2
<1>6. \A j, k \in 1..n : j # k => Apart(t[j], t[k])
  BY <1>1, <1>2, <1>3, <1>4
<1>7. \A g \in Handles, k \in 1..n : Apart(vr[g], t[k])
  BY <1>1, <1>2, <1>3, <1>4
<1>8. Sound(hp, vr, t)
  BY <1>1, <1>2, <1>5, <1>6, <1>7 DEF Sound
<1>9. ASSUME NEW c \in Blocks, hp[c] # Free
      PROVE  \/ c \in left
             \/ \E g \in Handles : Blk(vr[g]) = c
             \/ \E k \in 1..n : Blk(t[k]) = c
  <2>1. \/ c \in gone
        \/ \E g \in Handles : Blk(vr[g]) = c
        \/ \E k \in 1..n : Blk(ls[k]) = c
    BY <1>9 DEF Accounted, n
  <2>2. ASSUME NEW k \in 1..n, Blk(ls[k]) = c
        PROVE  c \in left \/ \E j \in 1..n : Blk(t[j]) = c
    BY <1>2, <1>4, <2>2, OptionsAssumption
  <2> QED
    BY <2>1, <2>2
<1> QED
  BY <1>2, <1>8, <1>9 DEF Accounted, t

\* The list is emptied; its blocks may have been freed, or are lost.
LEMMA EmptySound ==
    ASSUME NEW hp, NEW vr, NEW ls, NEW gone, Sound(hp, vr, ls), Accounted(hp, vr, ls, gone),
           NEW new \in Heaps, NEW left, gone \subseteq left,
           \A c \in Blocks : \/ new[c] = hp[c]
                             \/ new[c] = Free /\ \E k \in 1..Len(ls) : Blk(ls[k]) = c,
           \A k \in 1..Len(ls) : Blk(ls[k]) \in Blocks =>
                Blk(ls[k]) \in left \/ new[Blk(ls[k])] = Free
    PROVE  Sound(new, vr, <<>>) /\ Accounted(new, vr, <<>>, left)
<1>1. /\ hp \in Heaps /\ vr \in [Handles -> Opt \cup {NoOption}]
      /\ \A g \in Handles : vr[g] # NoOption => Kept(hp, vr[g])
      /\ \A g, f \in Handles : g # f => Apart(vr[g], vr[f])
      /\ \A g \in Handles, k \in 1..Len(ls) : Apart(vr[g], ls[k])
  BY DEF Sound
<1>2. <<>> \in Seq(Opt) /\ Len(<<>>) = 0
  OBVIOUS
<1>3. ASSUME NEW g \in Handles, vr[g] # NoOption
      PROVE  Kept(new, vr[g])
  <2>1. Kept(hp, vr[g]) /\ vr[g] \in Opt /\ Blk(vr[g]) = vr[g].optval
        /\ vr[g].optval \in Blocks \cup {NoBlock}
    BY <1>1, <1>3, OptIsNoNoOption DEF Kept, Blk, Opt
  <2>2. CASE vr[g].optval = NoBlock
    BY <2>1, <2>2 DEF Kept
  <2>3. CASE vr[g].optval # NoBlock
    <3>1. \A k \in 1..Len(ls) : Blk(ls[k]) # vr[g].optval
      BY <1>1, <2>1, <2>3 DEF Apart
    <3>2. new[vr[g].optval] = hp[vr[g].optval]
      BY <2>1, <2>3, <3>1
    <3> QED
      BY <2>1, <2>3, <3>2 DEF Kept
  <2> QED
    BY <2>2, <2>3
<1>4. Sound(new, vr, <<>>)
  BY <1>1, <1>2, <1>3 DEF Sound
<1>5. ASSUME NEW c \in Blocks, new[c] # Free
      PROVE  c \in left \/ \E g \in Handles : Blk(vr[g]) = c
  <2>1. new[c] = hp[c]
    BY <1>5
  <2>2. \/ c \in gone
        \/ \E g \in Handles : Blk(vr[g]) = c
        \/ \E k \in 1..Len(ls) : Blk(ls[k]) = c
    BY <1>5, <2>1 DEF Accounted
  <2> QED
    BY <1>5, <2>2
<1> QED
  BY <1>4, <1>5 DEF Accounted
----------------------------------------------------------------------------
(* The operations.                                                          *)

LEMMA InitOK == Init => IInv
<1> SUFFICES ASSUME Init PROVE IInv
  OBVIOUS
<1>1. \A h \in Handles : var[h] = NoOption
  BY DEF Init
<1>2. list = <<>> /\ Len(list) = 0 /\ list \in Seq(Opt)
  BY DEF Init
<1>3. heap \in Heaps /\ \A b \in Blocks : heap[b] = Free
  BY DEF Init, Heaps
<1>4. var \in [Handles -> Opt \cup {NoOption}]
  BY DEF Init
<1> QED
  BY <1>1, <1>2, <1>3, <1>4 DEF IInv, Sound, Accounted, Apart, Blk

LEMMA Typed ==
    ASSUME IInv
    PROVE  /\ heap \in Heaps /\ var \in [Handles -> Opt \cup {NoOption}] /\ list \in Seq(Opt)
           /\ \A h \in Handles : var[h] # NoOption =>
                /\ var[h] \in Opt /\ Kept(heap, var[h]) /\ Blk(var[h]) = var[h].optval
                /\ Held(var[h]) = {Blk(var[h])} \ {NoBlock}
           /\ \A k \in 1..Len(list) :
                /\ list[k] \in Opt /\ Kept(heap, list[k]) /\ Blk(list[k]) = list[k].optval
                /\ Held(list[k]) = {Blk(list[k])} \ {NoBlock}
<1>1. \A o \in Opt : Blk(o) = o.optval /\ Held(o) = {Blk(o)} \ {NoBlock}
  BY OptIsNoNoOption DEF Blk, Held
<1> QED
  BY <1>1 DEF IInv, Sound

\* A step that gives the variable h another option, or none.
LEMMA VarStep ==
    ASSUME IInv, NEW h \in Handles, NEW o \in Opt \cup {NoOption}, heap' \in Heaps,
           var' = [var EXCEPT ![h] = o], list' = list, lost \subseteq lost',
           o # NoOption => Kept(heap', o), Fresh(heap, Blk(o), Blk(var[h])),
           \A c \in Blocks : heap'[c] = heap[c] \/ c = Blk(var[h]) \/ heap[c] = Free,
           \A c \in Blocks : heap'[c] # Free =>
                \/ c = Blk(o)
                \/ heap[c] # Free /\ (c = Blk(var[h]) => c \in lost')
    PROVE  IInv'
<1>1. Sound(heap, var, list) /\ Accounted(heap, var, list, lost)
  BY DEF IInv
<1>2. Sound(heap', [var EXCEPT ![h] = o], list)
  BY <1>1, SetVarSound
<1>3. Accounted(heap', [var EXCEPT ![h] = o], list, lost')
  BY <1>1, SetVarAccounted
<1>4. Sound(heap', var', list') /\ Accounted(heap', var', list', lost')
  BY <1>2, <1>3, Zenon
<1> QED
  BY <1>4 DEF IInv

LEMMA NewOK ==
    ASSUME IInv, NEW h \in Handles, NEW code \in Codes \cup {MO_None}, New(h, code)
    PROVE  IInv'
<1>1. code \in Nat
  BY OptionsAssumption DEF MO_None
<1>2. Blank(code) \in Opt /\ Kept(heap, Blank(code)) /\ Blk(Blank(code)) = NoBlock
  BY <1>1, BlankKept
<1>3. Blk(var[h]) = NoBlock /\ NoBlock \notin Blocks /\ heap' = heap /\ heap \in Heaps
  BY Typed, OptionsAssumption DEF New, Blk
<1> QED
  BY <1>2, <1>3, VarStep DEF New, Fresh

\* A value copied to an option that is not in use yet, or to that of h.
LEMMA CopyValStep ==
    ASSUME IInv, NEW h \in Handles, NEW o \in Opt, NEW v \in Val,
           NEW b \in Blocks \cup {NoBlock}, NeedsBlock(v) => b \in Blocks /\ heap[b] = Free,
           var' = [var EXCEPT ![h] = CopyVal(o, v, b)], heap' = Stored(heap, v, b),
           list' = list, lost \subseteq lost', Blk(var[h]) \in Blocks => Blk(var[h]) \in lost'
    PROVE  IInv'
<1> DEFINE p == CopyVal(o, v, b)
<1>1. heap \in Heaps
  BY Typed
<1>2. /\ p \in Opt /\ heap' \in Heaps /\ Kept(heap', p)
      /\ Blk(p) = IF NeedsBlock(v) THEN b ELSE NoBlock
      /\ \A c \in Blocks : heap'[c] = IF NeedsBlock(v) /\ c = b THEN v ELSE heap[c]
  BY <1>1, CopyValKept
<1> HIDE DEF p
<1>3. var' = [var EXCEPT ![h] = p]
  BY DEF p
<1>4. Fresh(heap, Blk(p), Blk(var[h]))
  BY <1>2 DEF Fresh
<1>5. \A c \in Blocks : heap'[c] = heap[c] \/ heap[c] = Free
  BY <1>2
<1>6. \A c \in Blocks : heap'[c] # Free => c = Blk(p) \/ heap'[c] = heap[c]
  BY <1>2
<1>7. \A c \in Blocks : heap'[c] # Free =>
        c = Blk(p) \/ (heap[c] # Free /\ (c = Blk(var[h]) => c \in lost'))
  BY <1>6
<1>8. p \in Opt \cup {NoOption} /\ heap' \in Heaps /\ (p # NoOption => Kept(heap', p))
  BY <1>2
<1>9. \A c \in Blocks : heap'[c] = heap[c] \/ c = Blk(var[h]) \/ heap[c] = Free
  BY <1>5
<1> QED
  BY <1>3, <1>4, <1>7, <1>8, <1>9, VarStep, Zenon

LEMMA InitOpaqueOK ==
    ASSUME IInv, NEW h \in Handles, NEW code \in Codes, NEW v \in Values, NEW b \in Available,
           InitOpaque(h, code, v, b)
    PROVE  IInv'
<1>1. code \in Nat /\ v \in Val /\ b \in Blocks /\ heap[b] = Free /\ NoBlock \notin Blocks
  BY OptionsAssumption DEF Val, Available
<1>2. Blank(code) \in Opt
  BY <1>1, BlankKept
<1>3. Blk(var[h]) = NoBlock
  BY DEF InitOpaque, Blk
<1> QED
  BY <1>1, <1>2, <1>3, CopyValStep DEF InitOpaque

LEMMA SetCodeOK ==
    ASSUME IInv, NEW h \in Handles, NEW code \in Codes, SetCode(h, code)
    PROVE  IInv'
<1> DEFINE o == var[h]
           p == [o EXCEPT !.code = code]
<1>1. /\ heap \in Heaps /\ var \in [Handles -> Opt \cup {NoOption}]
      /\ o \in Opt /\ Kept(heap, o) /\ Blk(o) = o.optval
  BY Typed DEF SetCode
<1>2. code \in Nat
  BY OptionsAssumption
<1>3. p \in Opt /\ p.optval = o.optval /\ p.staticval = o.staticval /\ p.wanted = o.wanted
  BY <1>1, <1>2 DEF Opt
<1>4. var' = [var EXCEPT ![h] = p] /\ heap' = heap /\ list' = list /\ lost' = lost
  BY DEF SetCode
<1> HIDE DEF p
<1>5. Kept(heap, p) /\ Blk(p) = Blk(o)
  BY <1>1, <1>3, OptIsNoNoOption DEF Kept, Blk
<1> QED
  BY <1>1, <1>3, <1>4, <1>5, VarStep DEF Fresh

LEMMA SetOpaqueOK ==
    ASSUME IInv, NEW h \in Handles, NEW v \in Values, NEW b \in Available, SetOpaque(h, v, b)
    PROVE  IInv'
<1>1. v \in Val /\ b \in Blocks /\ heap[b] = Free
  BY DEF Val, Available
<1>2. var[h] \in Opt /\ Held(var[h]) = {Blk(var[h])} \ {NoBlock} /\ NoBlock \notin Blocks
  BY Typed, OptionsAssumption DEF SetOpaque
<1>3. Blk(var[h]) \in Blocks => Blk(var[h]) \in lost'
  BY <1>2 DEF SetOpaque
<1> QED
  BY <1>1, <1>2, <1>3, CopyValStep DEF SetOpaque

LEMMA ResetKept ==
    ASSUME NEW o, Kept(heap, o), heap \in Heaps
    PROVE  /\ Reset(o) \in Opt /\ Kept(heap, Reset(o))
           /\ Blk(Reset(o)) \in {NoBlock, Blk(o)}
<1> DEFINE p == CopyVal(o, Empty, NoBlock)
<1>1. o \in Opt /\ Empty \in Val /\ ~NeedsBlock(Empty)
  BY DEF Kept, Val, NeedsBlock, Empty, StaticLen
<1>2. p \in Opt /\ Kept(Stored(heap, Empty, NoBlock), p) /\ Blk(p) = NoBlock
  BY <1>1, CopyValKept
<1>3. Stored(heap, Empty, NoBlock) = heap
  BY <1>1 DEF Stored
<1> QED
  BY <1>1, <1>2, <1>3 DEF Reset

LEMMA SetIntegerOK ==
    ASSUME IInv, NEW h \in Handles, SetInteger(h)
    PROVE  IInv'
<1> DEFINE p == Reset(var[h])
<1>1. /\ heap \in Heaps /\ Kept(heap, var[h]) /\ NoBlock \notin Blocks
      /\ Held(var[h]) = {Blk(var[h])} \ {NoBlock}
  BY Typed, OptionsAssumption DEF SetInteger
<1>2. p \in Opt /\ Kept(heap, p) /\ Blk(p) \in {NoBlock, Blk(var[h])}
  BY <1>1, ResetKept
<1>3. Held(p) = {Blk(p)} \ {NoBlock}
  BY <1>2, OptIsNoNoOption DEF Blk, Held
<1>4. /\ var' = [var EXCEPT ![h] = p] /\ heap' = heap /\ list' = list
      /\ lost' = lost \cup (Held(var[h]) \ Held(p))
  BY DEF SetInteger
<1> HIDE DEF p
<1>5. Blk(var[h]) \in Blocks => Blk(p) = Blk(var[h]) \/ Blk(var[h]) \in lost'
  BY <1>1, <1>3, <1>4
<1> QED
  BY <1>1, <1>2, <1>4, <1>5, VarStep DEF Fresh

LEMMA FreeOptionOK ==
    ASSUME IInv, NEW h \in Handles, FreeOption(h)
    PROVE  IInv'
<1>1. heap \in Heaps /\ var[h] \in Opt /\ Blk(var[h]) = var[h].optval
  BY Typed DEF FreeOption
<1>2. /\ heap' \in Heaps
      /\ \A c \in Blocks : heap'[c] = IF c = Blk(var[h]) THEN Free ELSE heap[c]
  BY <1>1, OptionsAssumption DEF FreeOption, Freed, Heaps
<1>3. Blk(NoOption) = NoBlock
  BY DEF Blk
<1> QED
  BY <1>2, <1>3, VarStep DEF FreeOption, Fresh

LEMMA CopyOK ==
    ASSUME IInv, NEW h \in Handles, NEW g \in Handles, h # g, NEW b \in Available, Copy(h, g, b)
    PROVE  IInv'
<1> DEFINE hf == Freed(heap, var[h].optval)
           p == CopyOf(var[g], b)
<1>1. /\ heap \in Heaps /\ var[h] \in Opt /\ Blk(var[h]) = var[h].optval
      /\ var[g] \in Opt /\ Kept(heap, var[g]) /\ Blk(var[g]) = var[g].optval
      /\ var[h].optval \in Blocks \cup {NoBlock}
      /\ b \in Blocks /\ heap[b] = Free /\ NoBlock \notin Blocks
  BY Typed, OptionsAssumption DEF Copy, Available, Opt
<1>2. /\ hf \in Heaps
      /\ \A c \in Blocks : hf[c] = IF c = Blk(var[h]) THEN Free ELSE heap[c]
  BY <1>1 DEF Freed, Heaps
<1>3. Blk(var[g]) = Blk(var[h]) => Blk(var[h]) = NoBlock
  BY DEF IInv, Sound, Apart
<1> HIDE DEF hf
<1>4. Kept(hf, var[g])
  BY <1>1, <1>2, <1>3, KeptStays
<1>5. /\ heap' \in Heaps /\ Kept(heap', p) /\ p \in Opt
      /\ Blk(p) = IF var[g].optval = NoBlock THEN NoBlock ELSE b
      /\ \A c \in Blocks :
            heap'[c] = IF var[g].optval # NoBlock /\ c = b THEN var[g].wanted ELSE hf[c]
  <2>1. heap' = CopyStored(hf, var[g], b)
    BY DEF Copy, hf
  <2> QED
    BY <1>1, <1>2, <1>4, <2>1, CopyOfKept
<1>6. var' = [var EXCEPT ![h] = p] /\ list' = list /\ lost' = lost
  BY DEF Copy
<1> HIDE DEF p
<1>7. Fresh(heap, Blk(p), Blk(var[h]))
  BY <1>1, <1>5 DEF Fresh
<1>8. \A c \in Blocks : heap'[c] = heap[c] \/ c = Blk(var[h]) \/ heap[c] = Free
  BY <1>1, <1>2, <1>5
<1>9. \A c \in Blocks : heap'[c] # Free =>
        c = Blk(p) \/ (heap[c] # Free /\ (c = Blk(var[h]) => c \in lost'))
  BY <1>2, <1>5
<1> QED
  BY <1>5, <1>6, <1>7, <1>8, <1>9, VarStep

\* A step that puts a copy of an option into the list.
LEMMA PushCopy ==
    ASSUME IInv, NEW hp \in Heaps, NEW o, Kept(hp, o), NEW b \in Blocks, hp[b] = Free, heap[b] = Free,
           \A c \in Blocks : hp[c] = heap[c] \/ heap[c] = Free,
           \A c \in Blocks : hp[c] # Free => heap[c] # Free \/ c \in lost',
           heap' = CopyStored(hp, o, b), var' = var, list' = Inserted(list, CopyOf(o, b)),
           lost \subseteq lost'
    PROVE  IInv'
<1> DEFINE p == CopyOf(o, b)
<1>1. /\ heap' \in Heaps /\ Kept(heap', p) /\ p \in Opt
      /\ Blk(p) = IF o.optval = NoBlock THEN NoBlock ELSE b
      /\ \A c \in Blocks : heap'[c] = IF o.optval # NoBlock /\ c = b THEN o.wanted ELSE hp[c]
  BY CopyOfKept
<1>2. Sound(heap, var, list) /\ Accounted(heap, var, list, lost)
  BY DEF IInv
<1>3. list' = Inserted(list, p)
  OBVIOUS
<1> HIDE DEF p
<1>4. Fresh(heap, Blk(p), NoBlock)
  BY <1>1 DEF Fresh
<1>5. \A c \in Blocks : heap'[c] = heap[c] \/ heap[c] = Free
  BY <1>1
<1>6. \A c \in Blocks : heap'[c] # Free => heap[c] # Free \/ c = Blk(p) \/ c \in lost'
  BY <1>1
<1>7. Sound(heap', var, Inserted(list, p)) /\ Accounted(heap', var, Inserted(list, p), lost')
  BY <1>1, <1>2, <1>4, <1>5, <1>6, InsertSound
<1>8. Sound(heap', var', list') /\ Accounted(heap', var', list', lost')
  BY <1>3, <1>7, Zenon
<1> QED
  BY <1>8 DEF IInv

LEMMA PushOK ==
    ASSUME IInv, NEW h \in Handles, NEW b \in Available, Push(h, b)
    PROVE  IInv'
<1>1. heap \in Heaps /\ Kept(heap, var[h]) /\ b \in Blocks /\ heap[b] = Free
  BY Typed DEF Push, Available
<1> QED
  BY <1>1, PushCopy DEF Push

LEMMA PopOK ==
    ASSUME IInv, NEW h \in Handles, Pop(h)
    PROVE  IInv'
<1> DEFINE w == [var EXCEPT ![h] = Head(list)]
<1>1. Sound(heap, var, list) /\ Accounted(heap, var, list, lost)
  BY DEF IInv
<1>2. Sound(heap, w, Tail(list)) /\ Accounted(heap, w, Tail(list), lost)
  BY <1>1, PopSound DEF Pop
<1>3. var' = w /\ list' = Tail(list) /\ heap' = heap /\ lost' = lost
  BY DEF Pop
<1> HIDE DEF w
<1>4. Sound(heap', var', list') /\ Accounted(heap', var', list', lost')
  BY <1>2, <1>3, Zenon
<1> QED
  BY <1>4 DEF IInv

LEMMA DecodeOptionOK ==
    ASSUME IInv, NEW code \in Codes, NEW v \in Values, NEW b \in Available, NEW c \in Available,
           b # c, DecodeOption(code, v, b, c)
    PROVE  IInv'
<1> DEFINE o == CopyVal(Blank(code), v, b)
           hp == Stored(heap, v, b)
<1>1. /\ heap \in Heaps /\ code \in Nat /\ v \in Val /\ NoBlock \notin Blocks
      /\ b \in Blocks /\ heap[b] = Free /\ c \in Blocks /\ heap[c] = Free
  BY Typed, OptionsAssumption DEF Available, Val
<1>2. Blank(code) \in Opt
  BY <1>1, BlankKept
<1>3. /\ hp \in Heaps /\ Kept(hp, o) /\ o \in Opt
      /\ Blk(o) = IF NeedsBlock(v) THEN b ELSE NoBlock
      /\ \A d \in Blocks : hp[d] = IF NeedsBlock(v) /\ d = b THEN v ELSE heap[d]
  BY <1>1, <1>2, CopyValKept
<1>4. /\ list' = Inserted(list, CopyOf(o, c)) /\ heap' = CopyStored(hp, o, c)
      /\ lost' = lost \cup Held(o) /\ var' = var
  BY DEF DecodeOption
<1> HIDE DEF o, hp
<1>5. Held(o) = {Blk(o)} \ {NoBlock}
  BY <1>3, OptIsNoNoOption DEF Held, Blk
<1>6. hp[c] = Free
  BY <1>1, <1>3
<1>7. \A d \in Blocks : hp[d] = heap[d] \/ heap[d] = Free
  BY <1>1, <1>3
<1>8. \A d \in Blocks : hp[d] # Free => heap[d] # Free \/ d \in lost'
  BY <1>1, <1>3, <1>4, <1>5
<1>9. lost \subseteq lost'
  BY <1>4
<1> QED
  BY <1>1, <1>3, <1>4, <1>6, <1>7, <1>8, <1>9, PushCopy

LEMMA SetContentFormatOK ==
    ASSUME IInv, NEW reset \in BOOLEAN, SetContentFormat(reset)
    PROVE  IInv'
<1> DEFINE I == {i \in 1..Len(list) : list[i].code = MO_Content_Format}
           k == SelectInSeq(list, LAMBDA o : o.code = MO_Content_Format)
<1>1. k = IF I # {} THEN Min(I) ELSE 0
  BY DEF SelectInSeq
<1>2. I # {} => Min(I) \in I
  <2>1. I \subseteq Nat
    OBVIOUS
  <2> HIDE DEF I
  <2> QED
    BY <2>1, Least
<1>3. k = 0 \/ k \in 1..Len(list)
  BY <1>1, <1>2
<1>4. /\ IF k = 0
         THEN list' = Inserted(list, Blank(MO_Content_Format)) /\ lost' = lost
         ELSE list' = [list EXCEPT ![k] = Reset(list[k])] /\ lost' = lost \cup Held(list[k])
      /\ heap' = heap /\ var' = var
  BY DEF SetContentFormat
<1> HIDE DEF k
<1>5. Sound(heap, var, list) /\ Accounted(heap, var, list, lost) /\ heap \in Heaps
  BY Typed DEF IInv
<1>6. Sound(heap, var, list') /\ Accounted(heap, var, list', lost')
  <2>1. CASE k = 0
    <3>1. /\ Blank(MO_Content_Format) \in Opt /\ Kept(heap, Blank(MO_Content_Format))
          /\ Blk(Blank(MO_Content_Format)) = NoBlock
      BY BlankKept DEF MO_Content_Format
    <3> QED
      BY <1>4, <1>5, <2>1, <3>1, InsertSound DEF Fresh
  <2>2. CASE k \in 1..Len(list)
    <3> DEFINE p == Reset(list[k])
    <3>1. /\ Kept(heap, list[k]) /\ Held(list[k]) = {Blk(list[k])} \ {NoBlock}
      BY <2>2, Typed
    <3>2. p \in Opt /\ Kept(heap, p) /\ Blk(p) \in {NoBlock, Blk(list[k])}
      BY <1>5, <3>1, ResetKept
    <3>3. k # 0
      BY <2>2
    <3>4. list' = [list EXCEPT ![k] = p] /\ lost' = lost \cup Held(list[k])
      BY <1>4, <3>3
    <3> HIDE DEF p
    <3>5. lost \subseteq lost' /\ (Blk(list[k]) \in lost' \/ Blk(list[k]) = NoBlock)
      BY <3>1, <3>4
    <3>6. /\ Sound(heap, var, [list EXCEPT ![k] = p])
          /\ Accounted(heap, var, [list EXCEPT ![k] = p], lost')
      BY <1>5, <2>2, <3>2, <3>5, ReplaceSound
    <3> QED
      BY <3>4, <3>6, Zenon
  <2> QED
    BY <1>3, <2>1, <2>2
<1>7. Sound(heap', var', list') /\ Accounted(heap', var', list', lost')
  BY <1>4, <1>6, Zenon
<1> QED
  BY <1>7 DEF IInv

\* A step that empties the list.
LEMMA EmptyStep ==
    ASSUME IInv, heap' \in Heaps, list' = <<>>, var' = var, lost \subseteq lost',
           \A c \in Blocks : \/ heap'[c] = heap[c]
                             \/ heap'[c] = Free /\ \E k \in 1..Len(list) : Blk(list[k]) = c,
           \A k \in 1..Len(list) : Blk(list[k]) \in Blocks =>
                Blk(list[k]) \in lost' \/ heap'[Blk(list[k])] = Free
    PROVE  IInv'
<1>1. Sound(heap, var, list) /\ Accounted(heap, var, list, lost)
  BY DEF IInv
<1>2. Sound(heap', var, <<>>) /\ Accounted(heap', var, <<>>, lost')
  BY <1>1, EmptySound
<1>3. Sound(heap', var', list') /\ Accounted(heap', var', list', lost')
  BY <1>2, Zenon
<1> QED
  BY <1>3 DEF IInv

LEMMA ResetMsgOK == IInv /\ ResetMsg => IInv'
<1> SUFFICES ASSUME IInv, ResetMsg PROVE IInv'
  OBVIOUS
<1>1. heap \in Heaps /\ DOMAIN list = 1..Len(list)
      /\ \A k \in 1..Len(list) : Blk(list[k]) = list[k].optval
  BY Typed
<1>2. /\ heap' \in Heaps
      /\ \A c \in Blocks : heap'[c] = IF \E k \in 1..Len(list) : Blk(list[k]) = c
                                      THEN Free ELSE heap[c]
  BY <1>1 DEF ResetMsg, Heaps
<1> QED
  BY <1>1, <1>2, EmptyStep DEF ResetMsg

LEMMA FreeMsgOK == IInv /\ FreeMsg => IInv'
<1> SUFFICES ASSUME IInv, FreeMsg PROVE IInv'
  OBVIOUS
<1>1. /\ heap \in Heaps /\ DOMAIN list = 1..Len(list) /\ NoBlock \notin Blocks
      /\ \A k \in 1..Len(list) : Held(list[k]) = {Blk(list[k])} \ {NoBlock}
  BY Typed, OptionsAssumption
<1>2. \A k \in 1..Len(list) : Blk(list[k]) \in Blocks => Blk(list[k]) \in lost'
  BY <1>1 DEF FreeMsg
<1> QED
  BY <1>1, <1>2, EmptyStep DEF FreeMsg

LEMMA NextOK == IInv /\ [Next]_vars => IInv'
<1> SUFFICES ASSUME IInv, [Next]_vars PROVE IInv'
  OBVIOUS
<1>1. CASE UNCHANGED vars
  BY <1>1 DEF vars, IInv
<1>2. ASSUME NEW h \in Handles, \/ \E code \in Codes \cup {MO_None} : New(h, code)
                                \/ \E code \in Codes : SetCode(h, code)
                                \/ SetInteger(h) \/ FreeOption(h) \/ Pop(h)
      PROVE  IInv'
  BY <1>2, NewOK, SetCodeOK, SetIntegerOK, FreeOptionOK, PopOK
<1>3. ASSUME NEW h \in Handles, NEW b \in Available,
             \/ \E v \in Values : SetOpaque(h, v, b) \/ \E code \in Codes : InitOpaque(h, code, v, b)
             \/ \E g \in Handles \ {h} : Copy(h, g, b)
             \/ Push(h, b)
      PROVE  IInv'
  BY <1>3, SetOpaqueOK, InitOpaqueOK, CopyOK, PushOK
<1>4. ASSUME NEW code \in Codes, NEW v \in Values, NEW b \in Available, NEW c \in Available,
             b # c, DecodeOption(code, v, b, c)
      PROVE  IInv'
  BY <1>4, DecodeOptionOK
<1>5. ASSUME NEW reset \in BOOLEAN, SetContentFormat(reset)
      PROVE  IInv'
  BY <1>5, SetContentFormatOK
<1> QED
  BY <1>1, <1>2, <1>3, <1>4, <1>5, ResetMsgOK, FreeMsgOK DEF Next

LEMMA Inductive == Spec => []IInv
<1>1. Init => IInv
  BY InitOK
<1>2. IInv /\ [Next]_vars => IInv'
  BY NextOK
<1> QED
  BY <1>1, <1>2, PTL DEF Spec

----------------------------------------------------------------------------
(* The theorems.                                                            *)

\* No two options in use have the same block, whatever is copied, pushed,
\* popped and freed: freeOption never frees a value of another option, nor
\* the same value twice.
THEOREM OwnershipCorrect == Spec => []BlocksAreOwned
<1>1. IInv => BlocksAreOwned
  <2> SUFFICES ASSUME IInv, NEW p \in Used, NEW q \in Used, p # q
               PROVE  Held(At(p)) \cap Held(At(q)) = {}
    BY DEF BlocksAreOwned
  <2>1. DOMAIN list = 1..Len(list)
    BY Typed
  <2>2. \/ \E h \in Handles : p = <<"var", h>> /\ var[h] # NoOption /\ At(p) = var[h]
        \/ \E k \in 1..Len(list) : p = <<"list", k>> /\ At(p) = list[k]
    BY <2>1 DEF Used, At
  <2>3. \/ \E h \in Handles : q = <<"var", h>> /\ var[h] # NoOption /\ At(q) = var[h]
        \/ \E k \in 1..Len(list) : q = <<"list", k>> /\ At(q) = list[k]
    BY <2>1 DEF Used, At
  <2>4. /\ Held(At(p)) = {Blk(At(p))} \ {NoBlock}
        /\ Held(At(q)) = {Blk(At(q))} \ {NoBlock}
    BY <2>2, <2>3, Typed
  <2>5. Apart(At(p), At(q)) \/ Apart(At(q), At(p))
    BY <2>2, <2>3 DEF IInv, Sound
  <2> QED
    BY <2>4, <2>5 DEF Apart
<1> QED
  BY <1>1, Inductive, PTL

\* The value of an option in use is the one it was given, with room for the
\* null byte get_resource counts on, wherever the option was moved since.
THEOREM ValuesCorrect == Spec => []ValuesAreIntact
<1>1. IInv => ValuesAreIntact
  <2> SUFFICES ASSUME IInv, NEW p \in Used PROVE Intact(At(p))
    BY DEF ValuesAreIntact
  <2>1. DOMAIN list = 1..Len(list)
    BY Typed
  <2>2. \/ \E h \in Handles : var[h] # NoOption /\ At(p) = var[h]
        \/ \E k \in 1..Len(list) : At(p) = list[k]
    BY <2>1 DEF Used, At
  <2>3. Kept(heap, At(p))
    BY <2>2, Typed
  <2> QED
    BY <2>3 DEF Kept, Intact
<1> QED
  BY <1>1, Inductive, PTL

\* The only blocks that are never freed are those of a value replaced, of an
\* option coap_decode made, and of the options of a message given to freeMsg.
THEOREM LossesCorrect == Spec => []NothingElseIsLost
<1>1. IInv => NothingElseIsLost
  <2> SUFFICES ASSUME IInv, NEW b \in Blocks, heap[b] # Free
               PROVE  b \in lost \/ \E p \in Used : b \in Held(At(p))
    BY DEF NothingElseIsLost
  <2>1. DOMAIN list = 1..Len(list) /\ NoBlock \notin Blocks
    BY Typed, OptionsAssumption
  <2>2. \/ b \in lost
        \/ \E h \in Handles : Blk(var[h]) = b
        \/ \E k \in 1..Len(list) : Blk(list[k]) = b
    BY DEF IInv, Accounted
  <2>3. ASSUME NEW h \in Handles, Blk(var[h]) = b
        PROVE  \E p \in Used : b \in Held(At(p))
    <3>1. var[h] # NoOption
      BY <2>1, <2>3 DEF Blk
    <3>2. <<"var", h>> \in Used /\ At(<<"var", h>>) = var[h]
      BY <3>1 DEF Used, At
    <3>3. b \in Held(var[h])
      BY <2>1, <2>3, <3>1, Typed
    <3> QED
      BY <3>2, <3>3
  <2>4. ASSUME NEW k \in 1..Len(list), Blk(list[k]) = b
        PROVE  \E p \in Used : b \in Held(At(p))
    <3>1. <<"list", k>> \in Used /\ At(<<"list", k>>) = list[k]
      BY <2>1 DEF Used, At
    <3>2. b \in Held(list[k])
      BY <2>1, <2>4, Typed
    <3> QED
      BY <3>1, <3>2
  <2> QED
    BY <2>2, <2>3, <2>4
<1> QED
  BY <1>1, Inductive, PTL
=============================================================================
