----------------------------- MODULE Casan_proofs ----------------------------
(****************************************************************************)
(* Proofs about the CASAN engine, for every set of masters, TTLs, MTUs,     *)
(* timer constants and gaps between the calls of loop(): its invariant, how *)
(* often it asks for a renewal, that it implements the slave of module      *)
(* Association, that an association lasts on a network (module CasanNet) as *)
(* long as nothing goes wrong, and that the relative times of CasanNet lose *)
(* nothing.                                                                 *)
(*                                                                          *)
(* Each operator of Casan that stands for a C function has a lemma, which   *)
(* says what the function does to the fields the invariant speaks of; the   *)
(* step of an action only combines the lemmas of the functions it calls.    *)
(****************************************************************************)
EXTENDS CasanNet, FiniteSetTheorems, TLAPS

\* d differs from c at most in the message id and in what concerns sending.
SameButSent(d, c) ==
    /\ d.status = c.status /\ d.master = c.master /\ d.hlid = c.hlid
    /\ d.curmtu = c.curmtu /\ d.l2mtu = c.l2mtu
    /\ d.twait = c.twait /\ d.trenew = c.trenew

\* AnswersHaveDestination, of an engine record.
AirOK(c) ==
    \A i \in DOMAIN c.air : c.air[i].dest = NoMaster => c.air[i].msg = "Discover"

\* The engine after a master was given up, or before one was found.
Clean(c) ==
    /\ c.master = NoMaster /\ c.hlid = UnknownHlid
    /\ c.curmtu = DefMtu /\ c.l2mtu = DefMtu

----------------------------------------------------------------------------
(* Timers.                                                                  *)

LEMMA TimerConstants ==
    /\ TIMER_WAIT_START \in Nat \ {0} /\ TIMER_WAIT_INC \in Nat \ {0}
    /\ TIMER_WAIT_INC_MAX \in Nat \ {0} /\ TIMER_WAIT_MAX \in Nat \ {0}
    /\ TIMER_RENEW_MIN \in Nat \ {0}
BY TimerAssumption

LEMMA InitTwaitType ==
    ASSUME NEW cur \in Time
    PROVE  InitTwait(cur) \in Timer /\ InitTwait(cur).limit = cur + TIMER_WAIT_MAX
<1>1. cur + TIMER_WAIT_START \in Nat /\ cur + TIMER_WAIT_MAX \in Nat
  BY TimerConstants DEF Time
<1> QED
  BY <1>1, TimerConstants DEF Timer, Time, InitTwait

LEMMA InitTrenewType ==
    ASSUME NEW cur \in Time, NEW sttl \in Time
    PROVE  /\ InitTrenew(cur, sttl) \in Timer
           /\ InitTrenew(cur, sttl).limit = cur + sttl
           /\ InitTrenew(cur, sttl).next = cur + (sttl \div 2)
<1>1. sttl \div 2 \in Nat /\ cur + (sttl \div 2) \in Nat /\ cur + sttl \in Nat
  BY DEF Time
<1> QED
  BY <1>1 DEF Timer, Time, InitTrenew

LEMMA AdvanceTypes ==
    ASSUME NEW t \in Timer
    PROVE  /\ AdvanceTwait(t) \in Timer /\ AdvanceTwait(t).limit = t.limit
           /\ AdvanceTrenew(t) \in Timer /\ AdvanceTrenew(t).limit = t.limit
<1>1. ASSUME NEW i \in Nat
      PROVE  /\ [t EXCEPT !.inc = i, !.next = t.next + i] \in Timer
             /\ [t EXCEPT !.inc = i, !.next = t.next + i].limit = t.limit
  <2>1. t.next + i \in Nat
    BY DEF Timer, Time
  <2> QED
    BY <2>1 DEF Timer, Time
<1>2. AdvanceTwait(t) \in Timer /\ AdvanceTwait(t).limit = t.limit
  <2> DEFINE grown == t.inc + TIMER_WAIT_INC
             i == IF grown > TIMER_WAIT_INC_MAX THEN TIMER_WAIT_INC_MAX ELSE grown
  <2>1. i \in Nat
    BY TimerConstants DEF Timer, Time
  <2>2. AdvanceTwait(t) = [t EXCEPT !.inc = i, !.next = t.next + i]
    BY Zenon DEF AdvanceTwait
  <2> HIDE DEF i
  <2>3. /\ [t EXCEPT !.inc = i, !.next = t.next + i] \in Timer
        /\ [t EXCEPT !.inc = i, !.next = t.next + i].limit = t.limit
    BY <1>1, <2>1, Zenon
  <2> QED
    BY <2>2, <2>3, Zenon
<1>3. AdvanceTrenew(t) \in Timer /\ AdvanceTrenew(t).limit = t.limit
  <2> DEFINE half == t.inc \div 2
             i == IF half <= TIMER_RENEW_MIN THEN TIMER_RENEW_MIN ELSE half
  <2>1. i \in Nat
    BY TimerConstants DEF Timer, Time
  <2>2. AdvanceTrenew(t) = [t EXCEPT !.inc = i, !.next = t.next + i]
    BY Zenon DEF AdvanceTrenew
  <2> HIDE DEF i
  <2>3. /\ [t EXCEPT !.inc = i, !.next = t.next + i] \in Timer
        /\ [t EXCEPT !.inc = i, !.next = t.next + i].limit = t.limit
    BY <1>1, <2>1, Zenon
  <2> QED
    BY <2>2, <2>3, Zenon
<1> QED
  BY <1>2, <1>3

LEMMA DefMtuType == DefMtu \in Nat \ {0}
BY CasanAssumption DEF DefMtu

----------------------------------------------------------------------------
(* Sending.                                                                 *)

\* sendMsg only touches the message and what is sent.
LEMMA SendMsgEffect ==
    ASSUME NEW c \in Engine, NEW msg \in {"Discover", "AssocAnswer", "Response"},
           NEW dest \in Masters \cup {NoMaster}, NEW fits \in BOOLEAN,
           AirOK(c), dest = NoMaster => msg = "Discover"
    PROVE  LET d == SendMsg(c, msg, dest, fits)
           IN  d \in Engine /\ SameButSent(d, c) /\ AirOK(d)
<1> DEFINE frame(intact) == [msg |-> msg, dest |-> dest, intact |-> intact]
<1>1. ASSUME NEW intact \in BOOLEAN
      PROVE  /\ Append(c.air, frame(intact)) \in Seq(Frame)
             /\ \A i \in DOMAIN Append(c.air, frame(intact)) :
                   Append(c.air, frame(intact))[i].dest = NoMaster =>
                   Append(c.air, frame(intact))[i].msg = "Discover"
  BY DEF Engine, Frame, AirOK
<1>2. (c.payload # "freed") \in BOOLEAN
  OBVIOUS
<1>3. CASE c.encoded # "null"
  BY <1>1, <1>3 DEF SendMsg, Engine, SameButSent, AirOK
<1>4. CASE c.encoded = "null" /\ fits
  BY <1>1, <1>2, <1>4 DEF SendMsg, Engine, SameButSent, AirOK, Pointer
<1>5. CASE c.encoded = "null" /\ ~fits
  BY <1>5 DEF SendMsg, SameButSent
<1> QED
  BY <1>3, <1>4, <1>5

LEMMA SendDiscoverEffect ==
    ASSUME NEW c \in Engine, AirOK(c)
    PROVE  SendDiscover(c) \in Engine /\ SameButSent(SendDiscover(c), c)
           /\ AirOK(SendDiscover(c))
<1> DEFINE r == [ResetMsg(c) EXCEPT !.curid = (@ + 1) % ID_SPACE]
<1>1. (c.curid + 1) % ID_SPACE \in 0..(ID_SPACE - 1)
  BY CasanAssumption DEF Engine
<1>2. r \in Engine /\ SameButSent(r, c) /\ r.air = c.air
  BY <1>1 DEF ResetMsg, Release, Engine, Pointer, SameButSent
<1>3. (c.l2mtu >= DiscoverMtu) \in BOOLEAN /\ c.master \in Masters \cup {NoMaster}
  BY DEF Engine
<1>4. AirOK(r)
  BY <1>2 DEF AirOK
<1> HIDE DEF r
<1>5. LET d == SendMsg(r, "Discover", c.master, c.l2mtu >= DiscoverMtu)
      IN  d \in Engine /\ SameButSent(d, r) /\ AirOK(d)
  BY <1>2, <1>3, <1>4, SendMsgEffect
<1>6. SendDiscover(c) = SendMsg(r, "Discover", c.master, c.l2mtu >= DiscoverMtu)
  BY DEF SendDiscover, r
<1> QED
  BY <1>2, <1>5, <1>6 DEF SameButSent

LEMMA AnswersEffect ==
    ASSUME NEW c \in Engine, AirOK(c), NEW dest \in Masters, NEW answer,
           c.master # NoMaster
    PROVE  /\ SendAssocAnswer(c, dest) \in Engine
           /\ SameButSent(SendAssocAnswer(c, dest), c) /\ AirOK(SendAssocAnswer(c, dest))
           /\ AnswerRequest(c, answer) \in Engine
           /\ SameButSent(AnswerRequest(c, answer), c) /\ AirOK(AnswerRequest(c, answer))
<1> DEFINE p == [c EXCEPT !.payload = "live"]
           q == IF answer = "NoPayload" THEN c ELSE p
<1>1. p \in Engine /\ SameButSent(p, c) /\ AirOK(p)
  BY DEF Engine, Pointer, SameButSent, AirOK
<1>2. q \in Engine /\ SameButSent(q, c) /\ AirOK(q)
  BY <1>1 DEF SameButSent
<1>3. dest # NoMaster /\ c.master \in Masters \cup {NoMaster}
  BY CasanAssumption DEF Engine
<1> HIDE DEF p, q
<1>4. LET d == SendMsg(p, "AssocAnswer", dest, TRUE)
      IN  d \in Engine /\ SameButSent(d, p) /\ AirOK(d)
  BY <1>1, <1>3, SendMsgEffect
<1>5. LET d == SendMsg(q, "Response", c.master, answer # "TooLarge")
      IN  d \in Engine /\ SameButSent(d, q) /\ AirOK(d)
  BY <1>2, <1>3, SendMsgEffect
<1> QED
  BY <1>1, <1>2, <1>4, <1>5 DEF SendAssocAnswer, AnswerRequest, SameButSent, p, q

----------------------------------------------------------------------------
(* MTU and master handling.                                                 *)

LEMMA NegociateMtuEffect ==
    ASSUME NEW c \in Engine, NEW mtu \in Nat, AirOK(c)
    PROVE  LET d == NegociateMtu(c, mtu)
           IN  /\ d \in Engine /\ AirOK(d)
               /\ d.curmtu = d.l2mtu /\ d.curmtu \in {mtu, DefMtu}
               /\ mtu = 0 => d.curmtu = DefMtu
               /\ d.status = c.status /\ d.master = c.master /\ d.hlid = c.hlid
               /\ d.twait = c.twait /\ d.trenew = c.trenew
<1> DEFINE m == IF mtu > 0 /\ mtu <= DefMtu THEN mtu ELSE DefMtu
<1>1. m \in Nat /\ m \in {mtu, DefMtu} /\ (mtu = 0 => m = DefMtu)
  BY DefMtuType
<1>2. NegociateMtu(c, mtu) = [c EXCEPT !.curmtu = m, !.l2mtu = m]
  BY DEF NegociateMtu
<1> HIDE DEF m
<1> QED
  BY <1>1, <1>2 DEF Engine, AirOK

LEMMA ChangeMasterEffect ==
    ASSUME NEW c \in Engine, NEW src \in Masters, AirOK(c),
           NEW hlid \in HelloIds \cup {UnknownHlid}
    PROVE  LET d == ChangeMaster(c, src, hlid)
           IN  /\ d \in Engine /\ AirOK(d) /\ d.master = src
               /\ d.status = c.status /\ d.curmtu = c.curmtu /\ d.l2mtu = c.l2mtu
               /\ d.twait = c.twait /\ d.trenew = c.trenew
BY DEF ChangeMaster, SameMaster, Engine, AirOK

LEMMA GiveUpEffect ==
    ASSUME NEW c \in Engine, NEW now \in Time, AirOK(c)
    PROVE  LET d == GiveUp(c, now)
           IN  /\ d \in Engine /\ AirOK(d)
               /\ d.status = "WAITING_UNKNOWN" /\ Clean(d)
               /\ d.twait \in Timer
<1> DEFINE r == [c EXCEPT !.master = NoMaster, !.hlid = UnknownHlid]
           n == NegociateMtu(r, 0)
           s == SendDiscover(n)
<1>1. r \in Engine /\ AirOK(r) /\ r.master = NoMaster /\ r.hlid = UnknownHlid
  BY DEF Engine, AirOK
<1> HIDE DEF r
<1>2. n \in Engine /\ AirOK(n) /\ Clean(n)
  BY <1>1, NegociateMtuEffect DEF Clean
<1> HIDE DEF n
<1>3. s \in Engine /\ AirOK(s) /\ Clean(s)
  BY <1>2, SendDiscoverEffect DEF Clean, SameButSent
<1>4. GiveUp(c, now) = [s EXCEPT !.twait = InitTwait(now), !.status = "WAITING_UNKNOWN"]
  BY DEF GiveUp, ResetMaster, ResetMtu, s, n, r
<1>5. InitTwait(now) \in Timer
  BY InitTwaitType
<1> HIDE DEF s
<1> QED
  BY <1>3, <1>4, <1>5 DEF Engine, AirOK, Clean, Status

----------------------------------------------------------------------------
(* The timers at the end of loop().                                         *)

\* d differs from c at most in its timers, the message id and what is sent.
SameMaster2(d, c) ==
    /\ d.master = c.master /\ d.hlid = c.hlid
    /\ d.curmtu = c.curmtu /\ d.l2mtu = c.l2mtu

\* What the timers of RUNNING and RENEW need of the engine they look at.
Renewable(c) ==
    /\ c \in Engine /\ AirOK(c)
    /\ c.status \in Associated => c.trenew \in Timer

LEMMA DiscoverIfDueEffect ==
    ASSUME NEW c \in Engine, NEW now \in Time, AirOK(c), c.twait \in Timer
    PROVE  LET d == DiscoverIfDue(c, now)
           IN  /\ d \in Engine /\ AirOK(d) /\ SameMaster2(d, c)
               /\ d.status = c.status /\ d.trenew = c.trenew /\ d.twait \in Timer
<1> DEFINE a == [c EXCEPT !.twait = AdvanceTwait(@)]
<1>1. AdvanceTwait(c.twait) \in Timer
  BY AdvanceTypes
<1>2. /\ a \in Engine /\ AirOK(a) /\ a.twait \in Timer /\ SameMaster2(a, c)
      /\ a.status = c.status /\ a.trenew = c.trenew
  BY <1>1 DEF Engine, AirOK, SameMaster2
<1> HIDE DEF a
<1>3. LET d == SendDiscover(a)
      IN  d \in Engine /\ SameButSent(d, a) /\ AirOK(d)
  BY <1>2, SendDiscoverEffect
<1>4. DiscoverIfDue(c, now) = IF Due(c.twait, now) THEN SendDiscover(a) ELSE c
  BY DEF DiscoverIfDue, a
<1> QED
  BY <1>2, <1>3, <1>4 DEF SameButSent, SameMaster2

LEMMA AdvanceRenewalEffect ==
    ASSUME NEW c \in Engine, AirOK(c), c.trenew \in Timer
    PROVE  LET d == SendDiscover([c EXCEPT !.trenew = AdvanceTrenew(@)])
           IN  /\ d \in Engine /\ AirOK(d) /\ SameMaster2(d, c)
               /\ d.status = c.status /\ d.twait = c.twait
               /\ d.trenew \in Timer /\ d.trenew.limit = c.trenew.limit
<1> DEFINE a == [c EXCEPT !.trenew = AdvanceTrenew(@)]
<1>1. AdvanceTrenew(c.trenew) \in Timer /\ AdvanceTrenew(c.trenew).limit = c.trenew.limit
  BY AdvanceTypes
<1>2. /\ a \in Engine /\ AirOK(a) /\ SameMaster2(a, c)
      /\ a.status = c.status /\ a.twait = c.twait
      /\ a.trenew \in Timer /\ a.trenew.limit = c.trenew.limit
  BY <1>1 DEF Engine, AirOK, SameMaster2
<1> HIDE DEF a
<1>3. LET d == SendDiscover(a)
      IN  d \in Engine /\ SameButSent(d, a) /\ AirOK(d)
  BY <1>2, SendDiscoverEffect
<1> QED
  BY <1>2, <1>3 DEF SameButSent, SameMaster2, a

LEMMA StartRenewalEffect ==
    ASSUME NEW c, NEW now \in Time, Renewable(c)
    PROVE  LET d == StartRenewal(c, now)
           IN  /\ Renewable(d) /\ SameMaster2(d, c) /\ d.twait = c.twait
               /\ d.trenew.limit = c.trenew.limit
               /\ d.status # "RUNNING" => d.status = c.status \/ d.status = "RENEW"
               /\ d.status \in Associated <=> c.status \in Associated
               /\ d.status = "RUNNING" => d = c /\ ~Due(c.trenew, now)
<1> DEFINE s == SendDiscover([c EXCEPT !.trenew = AdvanceTrenew(@)])
<1>1. CASE c.status = "RUNNING" /\ Due(c.trenew, now)
  <2>1. /\ s \in Engine /\ AirOK(s) /\ SameMaster2(s, c)
        /\ s.twait = c.twait /\ s.trenew \in Timer /\ s.trenew.limit = c.trenew.limit
    BY <1>1, AdvanceRenewalEffect DEF Renewable, Associated
  <2>2. StartRenewal(c, now) = [s EXCEPT !.status = "RENEW"]
    BY <1>1 DEF StartRenewal
  <2> HIDE DEF s
  <2> QED
    BY <1>1, <2>1, <2>2 DEF Renewable, Engine, AirOK, SameMaster2, Status, Associated
<1>2. CASE ~(c.status = "RUNNING" /\ Due(c.trenew, now))
  BY <1>2 DEF StartRenewal, Renewable, SameMaster2, Associated
<1> QED
  BY <1>1, <1>2

LEMMA RepeatRenewalEffect ==
    ASSUME NEW c, NEW now \in Time, Renewable(c)
    PROVE  LET d == RepeatRenewal(c, now)
           IN  /\ Renewable(d) /\ SameMaster2(d, c) /\ d.twait = c.twait
               /\ d.trenew.limit = c.trenew.limit /\ d.status = c.status
               /\ c.status # "RENEW" => d = c
<1>1. CASE c.status = "RENEW" /\ Due(c.trenew, now)
  BY <1>1, AdvanceRenewalEffect DEF RepeatRenewal, Renewable, Associated
<1>2. CASE ~(c.status = "RENEW" /\ Due(c.trenew, now))
  BY <1>2 DEF RepeatRenewal, Renewable, SameMaster2
<1> QED
  BY <1>1, <1>2

\* What the end of loop() makes of an engine: the master is given up, or it is
\* kept and no timer that ends the status is due any more.
LEMMA KeepAssociationEffect ==
    ASSUME NEW c, NEW now \in Time, Renewable(c)
    PROVE  LET d == KeepAssociation(c, now)
           IN  /\ d \in Engine /\ AirOK(d)
               /\ \/ d.status = "WAITING_UNKNOWN" /\ Clean(d) /\ d.twait \in Timer
                  \/ /\ SameMaster2(d, c) /\ d.twait = c.twait
                     /\ c.status \notin Associated => d = c
                     /\ c.status \in Associated =>
                          /\ d.status \in Associated
                          /\ d.trenew \in Timer /\ d.trenew.limit = c.trenew.limit
                     /\ d.status = "RUNNING" => d = c /\ ~Due(d.trenew, now)
                     /\ d.status = "RENEW" => ~Expired(d.trenew, now)
<1> DEFINE c1 == StartRenewal(c, now)
           c2 == RepeatRenewal(c1, now)
<1>1. /\ Renewable(c1) /\ SameMaster2(c1, c) /\ c1.twait = c.twait
      /\ c1.trenew.limit = c.trenew.limit
      /\ c1.status # "RUNNING" => c1.status = c.status \/ c1.status = "RENEW"
      /\ c1.status \in Associated <=> c.status \in Associated
      /\ c1.status = "RUNNING" => c1 = c /\ ~Due(c.trenew, now)
  BY StartRenewalEffect
<1>2. c.status \notin Associated => c1 = c
  BY DEF StartRenewal, Associated
<1>3. /\ Renewable(c2) /\ SameMaster2(c2, c1) /\ c2.twait = c1.twait
      /\ c2.trenew.limit = c1.trenew.limit /\ c2.status = c1.status
      /\ c1.status # "RENEW" => c2 = c1
  BY <1>1, RepeatRenewalEffect
<1>4. KeepAssociation(c, now) = ExpireRenewal(c2, now)
  BY DEF KeepAssociation
<1> HIDE DEF c1, c2
<1>5. CASE c2.status = "RENEW" /\ Expired(c2.trenew, now)
  <2>1. LET d == GiveUp(c2, now)
        IN  /\ d \in Engine /\ AirOK(d)
            /\ d.status = "WAITING_UNKNOWN" /\ Clean(d) /\ d.twait \in Timer
    BY <1>3, GiveUpEffect DEF Renewable
  <2> QED
    BY <1>4, <1>5, <2>1 DEF ExpireRenewal
<1>6. CASE ~(c2.status = "RENEW" /\ Expired(c2.trenew, now))
  <2>1. KeepAssociation(c, now) = c2
    BY <1>4, <1>6 DEF ExpireRenewal
  <2> QED
    BY <1>1, <1>2, <1>3, <1>6, <2>1 DEF Renewable, SameMaster2, Associated
<1> QED
  BY <1>5, <1>6

----------------------------------------------------------------------------
(* The inductive invariant.                                                 *)

\* An engine and the lease it may hold, at any point inside loop().  The link
\* between the renewal timer and the lease is what makes the lease properties
\* inductive.
Good(c, l) ==
    /\ c \in Engine /\ AirOK(c)
    /\ c.status # "COLDSTART" => c.twait \in Timer
    /\ c.status \in Associated =>
         /\ l \in Lease /\ c.trenew \in Timer
         /\ c.trenew.limit = l.start + l.ttl
         /\ c.status = "RUNNING" => c.trenew.next = l.start + (l.ttl \div 2)
    /\ IF c.status \in {"COLDSTART", "WAITING_UNKNOWN"}
       THEN Clean(c)
       ELSE c.master # NoMaster /\ c.l2mtu = c.curmtu
    /\ c.curmtu # DefMtu =>
         c.status \in Associated /\ c.master = l.src /\ c.curmtu = l.mtu

\* The same after loop(): no timer that ends the status is due.
GoodAt(c, l, now) ==
    /\ Good(c, l)
    /\ c.status = "RUNNING" => ~Due(c.trenew, now)
    /\ c.status = "RENEW" => ~Expired(c.trenew, now)

IInv ==
    /\ curtime \in Time
    /\ lease \in Lease \cup {NoLease}
    /\ GoodAt(ca, lease, curtime)

LEMMA MastersAreNotNull == \A m \in Masters : m # NoMaster
BY CasanAssumption

LEMMA FreshGood ==
    ASSUME NEW c, NEW l, Good(c, l)
    PROVE  /\ Good(Fresh(c), l) /\ Fresh(c).air = <<>>
           /\ SameButSent(Fresh(c), c)
<1> DEFINE d == Fresh(c)
<1>1. d \in Engine /\ d.air = <<>> /\ SameButSent(d, c)
  <2>1. <<>> \in Seq(Frame) /\ "null" \in Pointer /\ c \in Engine
    BY DEF Good, Pointer
  <2> QED
    BY <2>1 DEF Fresh, Engine, SameButSent
<1>2. AirOK(d)
  BY <1>1 DEF AirOK
<1> HIDE DEF d
<1>3. Good(d, l)
  BY <1>1, <1>2 DEF Good, SameButSent, Clean
<1> QED
  BY <1>1, <1>3 DEF d

LEMMA MessageFields ==
    ASSUME NEW m \in Messages
    PROVE  /\ m.type \in {"Hello", "Assoc", "Request", "Control", "None"}
           /\ m.type = "Hello" => m.src \in Masters /\ m.hlid \in HelloIds
           /\ m.type = "Assoc" => m.src \in Masters /\ m.ttl \in Ttls /\ m.mtu \in Mtus
           /\ m.type = "Request" => m.src \in Masters
<1>1. CASE m \in [type: {"Hello"}, src: Masters, hlid: HelloIds]
  BY <1>1
<1>2. CASE m \in [type: {"Assoc"}, src: Masters, ttl: Ttls, mtu: Mtus]
  BY <1>2
<1>3. CASE m \in [type: {"Request"}, src: Masters, answer: Answers]
  BY <1>3
<1>4. CASE m \in [type: {"Control"}, src: Masters]
  BY <1>4
<1>5. CASE m = [type |-> "None"]
  BY <1>5
<1> QED
  BY <1>1, <1>2, <1>3, <1>4, <1>5 DEF Messages

LEMMA AssociateGood ==
    ASSUME NEW c, NEW l, Good(c, l), NEW now \in Time, NEW m \in Messages,
           m.type = "Assoc", c.status # "COLDSTART"
    PROVE  /\ Granted(m, now) \in Lease
           /\ GoodAt(Associate(c, m, now), Granted(m, now), now)
           /\ SameMaster(c, m.src) =>
                GoodAt(Renew(c, m, now), Granted(m, now), now)
<1>1. /\ m.src \in Masters /\ m.ttl \in Ttls /\ m.mtu \in Mtus
      /\ m.ttl \in Nat /\ m.ttl >= 2 /\ m.mtu \in Nat \ {0} /\ m.src # NoMaster
  <2>1. m.src \in Masters /\ m.ttl \in Ttls /\ m.mtu \in Mtus
    BY MessageFields, Zenon
  <2>2. m.ttl \in Nat \ {0, 1} /\ m.mtu \in Nat \ {0} /\ m.src # NoMaster
    BY <2>1, CasanAssumption
  <2> QED
    BY <2>1, <2>2
<1>2. Granted(m, now) \in Lease
  BY <1>1 DEF Granted, Lease, Time
<1>3. ASSUME NEW e \in Engine, AirOK(e), e.twait \in Timer, e.master = m.src
      PROVE  LET d == [SendAssocAnswer(NegociateMtu(e, m.mtu), m.src)
                          EXCEPT !.trenew = InitTrenew(now, m.ttl), !.status = "RUNNING"]
             IN  GoodAt(d, Granted(m, now), now)
  <2> DEFINE n == NegociateMtu(e, m.mtu)
             s == SendAssocAnswer(n, m.src)
             t == InitTrenew(now, m.ttl)
             d == [s EXCEPT !.trenew = t, !.status = "RUNNING"]
  <2>1. /\ n \in Engine /\ AirOK(n)
        /\ n.curmtu = n.l2mtu /\ n.curmtu \in {m.mtu, DefMtu}
        /\ n.master = m.src /\ n.twait \in Timer
    BY <1>1, <1>3, NegociateMtuEffect
  <2> HIDE DEF n
  <2>2. s \in Engine /\ SameButSent(s, n) /\ AirOK(s)
    BY <1>1, <2>1, AnswersEffect
  <2> HIDE DEF s
  <2>3. /\ t \in Timer /\ t.limit = now + m.ttl
        /\ t.next = now + (m.ttl \div 2)
    BY <1>1, InitTrenewType DEF Time
  <2>4. ~Due(t, now)
    BY <1>1, <2>3 DEF Due, Time
  <2> HIDE DEF t
  <2>5. /\ d \in Engine /\ AirOK(d) /\ d.status = "RUNNING" /\ d.trenew = t
        /\ d.master = m.src /\ d.twait \in Timer
        /\ d.curmtu = d.l2mtu /\ d.curmtu \in {m.mtu, DefMtu}
    BY <2>1, <2>2, <2>3 DEF Engine, AirOK, SameButSent, Status
  <2> HIDE DEF d
  <2>6. /\ Granted(m, now).src = m.src /\ Granted(m, now).start = now
        /\ Granted(m, now).ttl = m.ttl /\ Granted(m, now).mtu = m.mtu
    BY DEF Granted
  <2>7. GoodAt(d, Granted(m, now), now)
    BY <1>1, <1>2, <2>3, <2>4, <2>5, <2>6 DEF GoodAt, Good, Associated
  <2> QED
    BY <2>7 DEF d, s, n, t
<1>4. c \in Engine /\ AirOK(c) /\ c.twait \in Timer
  BY DEF Good
<1>5. GoodAt(Associate(c, m, now), Granted(m, now), now)
  <2> DEFINE e == ChangeMaster(c, m.src, UnknownHlid)
  <2>1. e \in Engine /\ AirOK(e) /\ e.twait \in Timer /\ e.master = m.src
    BY <1>1, <1>4, ChangeMasterEffect
  <2> HIDE DEF e
  <2>2. Associate(c, m, now) =
          [SendAssocAnswer(NegociateMtu(e, m.mtu), m.src)
              EXCEPT !.trenew = InitTrenew(now, m.ttl), !.status = "RUNNING"]
    BY DEF Associate, e
  <2> QED
    BY <1>3, <2>1, <2>2, Zenon
<1>6. ASSUME SameMaster(c, m.src)
      PROVE  GoodAt(Renew(c, m, now), Granted(m, now), now)
  <2>1. c.master = m.src
    BY <1>6 DEF SameMaster
  <2> QED
    BY <1>3, <1>4, <2>1, Zenon DEF Renew
<1> QED
  BY <1>2, <1>5, <1>6

\* A Hello while waiting: the engine stays good, with a master.
LEMMA HelloWaitingGood ==
    ASSUME NEW c, NEW l, Good(c, l), NEW now \in Time, NEW m \in Messages,
           m.type = "Hello"
    PROVE  /\ c.status = "WAITING_UNKNOWN" => GoodAt(MeetMaster(c, m, now), l, now)
           /\ c.status = "WAITING_KNOWN" =>
                /\ Good(ChangeMaster(c, m.src, m.hlid), l)
                /\ ChangeMaster(c, m.src, m.hlid).status = "WAITING_KNOWN"
<1> DEFINE e == ChangeMaster(c, m.src, m.hlid)
           t == InitTwait(now)
           d == [e EXCEPT !.twait = t, !.status = "WAITING_KNOWN"]
<1>1. m.src \in Masters /\ m.hlid \in HelloIds /\ m.src # NoMaster
  <2>1. m.src \in Masters /\ m.hlid \in HelloIds
    BY MessageFields, Zenon
  <2> QED
    BY <2>1, MastersAreNotNull
<1>2. /\ e \in Engine /\ AirOK(e) /\ e.master = m.src
      /\ e.status = c.status /\ e.curmtu = c.curmtu /\ e.l2mtu = c.l2mtu
      /\ e.twait = c.twait /\ e.trenew = c.trenew
  BY <1>1, ChangeMasterEffect DEF Good
<1> HIDE DEF e
<1>3. ASSUME c.status = "WAITING_UNKNOWN"
      PROVE  GoodAt(d, l, now)
  <2>1. t \in Timer
    BY InitTwaitType
  <2> HIDE DEF t
  <2>2. /\ d \in Engine /\ AirOK(d) /\ d.status = "WAITING_KNOWN"
        /\ d.twait \in Timer /\ d.master = m.src
        /\ d.curmtu = c.curmtu /\ d.l2mtu = c.l2mtu
    BY <1>2, <2>1 DEF Engine, AirOK, Status
  <2>3. c.curmtu = DefMtu /\ c.l2mtu = DefMtu
    BY <1>3 DEF Good, Clean
  <2> HIDE DEF d
  <2> QED
    BY <1>1, <2>2, <2>3 DEF GoodAt, Good, Associated
<1>4. ASSUME c.status = "WAITING_KNOWN"
      PROVE  Good(e, l) /\ e.status = "WAITING_KNOWN"
  BY <1>1, <1>2, <1>4 DEF Good, Associated
<1> QED
  BY <1>3, <1>4 DEF MeetMaster, d, e, t

LEMMA HelloAssociatedGood ==
    ASSUME NEW c, NEW l, Good(c, l), NEW now \in Time, NEW m \in Messages,
           m.type = "Hello", c.status \in Associated
    PROVE  Good(HelloWhileAssociated(c, m, now), l)
<1> DEFINE e == ChangeMaster(c, m.src, m.hlid)
           n == NegociateMtu(e, 0)
           t == InitTwait(now)
           d == [n EXCEPT !.twait = t, !.status = "WAITING_KNOWN"]
<1>1. m.src \in Masters /\ m.hlid \in HelloIds /\ m.src # NoMaster
  <2>1. m.src \in Masters /\ m.hlid \in HelloIds
    BY MessageFields, Zenon
  <2> QED
    BY <2>1, MastersAreNotNull
<1>2. /\ e \in Engine /\ AirOK(e) /\ e.master = m.src
      /\ e.status = c.status /\ e.twait = c.twait /\ e.trenew = c.trenew
  BY <1>1, ChangeMasterEffect DEF Good
<1> HIDE DEF e
<1>3. /\ n \in Engine /\ AirOK(n) /\ n.master = m.src
      /\ n.curmtu = n.l2mtu /\ n.curmtu = DefMtu
      /\ n.status = c.status /\ n.twait = c.twait /\ n.trenew = c.trenew
  BY <1>2, NegociateMtuEffect
<1> HIDE DEF n
<1>4. Good(n, l)
  BY <1>1, <1>3 DEF Good, Associated
<1>5. t \in Timer
  BY InitTwaitType
<1> HIDE DEF t
<1>6. /\ d \in Engine /\ AirOK(d) /\ d.status = "WAITING_KNOWN" /\ d.twait \in Timer
      /\ d.master = m.src /\ d.curmtu = DefMtu /\ d.l2mtu = DefMtu
  BY <1>3, <1>5 DEF Engine, AirOK, Status
<1> HIDE DEF d
<1>7. Good(d, l)
  BY <1>1, <1>6 DEF Good, Associated
<1> QED
  BY <1>4, <1>7 DEF HelloWhileAssociated, d, n, e, t

\* An answer does not change what Good speaks of.
LEMMA AnswerRequestGood ==
    ASSUME NEW c, NEW l, Good(c, l), NEW answer, c.status \in Associated
    PROVE  Good(AnswerRequest(c, answer), l)
<1> DEFINE d == AnswerRequest(c, answer)
<1>1. c \in Engine /\ AirOK(c) /\ c.master # NoMaster /\ c.master \in Masters
  BY DEF Good, Associated, Engine
<1>2. d \in Engine /\ SameButSent(d, c) /\ AirOK(d)
  BY <1>1, AnswersEffect
<1> HIDE DEF d
<1>3. Good(d, l)
  BY <1>2 DEF Good, SameButSent, Clean
<1> QED
  BY <1>3 DEF d

----------------------------------------------------------------------------
(* The timers keep the invariant, and leave no timer due.                   *)

\* The same lease, but for the count of Discovers.
SameLease(k, l) ==
    l \in Lease => /\ k \in Lease /\ k.src = l.src /\ k.start = l.start
                   /\ k.ttl = l.ttl /\ k.mtu = l.mtu

LEMMA UnknownTimersGood ==
    ASSUME NEW c, NEW l, Good(c, l), NEW now \in Time, c.status = "WAITING_UNKNOWN"
    PROVE  GoodAt(DiscoverIfDue(c, now), l, now)
<1> DEFINE d == DiscoverIfDue(c, now)
<1>1. /\ d \in Engine /\ AirOK(d) /\ SameMaster2(d, c)
      /\ d.status = c.status /\ d.trenew = c.trenew /\ d.twait \in Timer
  BY DiscoverIfDueEffect DEF Good
<1> HIDE DEF d
<1>2. GoodAt(d, l, now)
  BY <1>1 DEF GoodAt, Good, SameMaster2, Clean, Associated
<1> QED
  BY <1>2 DEF d

LEMMA KnownTimersGood ==
    ASSUME NEW c, NEW l, Good(c, l), NEW now \in Time, c.status = "WAITING_KNOWN"
    PROVE  GoodAt(WaitForMaster(c, now), l, now)
<1> DEFINE d == DiscoverIfDue(c, now)
           g == GiveUp(c, now)
<1>1. /\ d \in Engine /\ AirOK(d) /\ SameMaster2(d, c)
      /\ d.status = c.status /\ d.trenew = c.trenew /\ d.twait \in Timer
  BY DiscoverIfDueEffect DEF Good
<1>2. /\ g \in Engine /\ AirOK(g)
      /\ g.status = "WAITING_UNKNOWN" /\ Clean(g) /\ g.twait \in Timer
  BY GiveUpEffect DEF Good
<1> HIDE DEF d, g
<1>3. GoodAt(d, l, now)
  BY <1>1 DEF GoodAt, Good, SameMaster2, Associated
<1>4. GoodAt(g, l, now)
  BY <1>2 DEF GoodAt, Good, Clean, Associated
<1> QED
  BY <1>3, <1>4 DEF WaitForMaster, d, g

LEMMA AssociatedTimersGood ==
    ASSUME NEW c, NEW l, Good(c, l), NEW k, SameLease(k, l), NEW now \in Time
    PROVE  GoodAt(KeepAssociation(c, now), k, now)
<1> DEFINE d == KeepAssociation(c, now)
<1>1. Renewable(c)
  BY DEF Good, Renewable
<1>2. /\ d \in Engine /\ AirOK(d)
      /\ \/ d.status = "WAITING_UNKNOWN" /\ Clean(d) /\ d.twait \in Timer
         \/ /\ SameMaster2(d, c) /\ d.twait = c.twait
            /\ c.status \notin Associated => d = c
            /\ c.status \in Associated =>
                 /\ d.status \in Associated
                 /\ d.trenew \in Timer /\ d.trenew.limit = c.trenew.limit
            /\ d.status = "RUNNING" => d = c /\ ~Due(d.trenew, now)
            /\ d.status = "RENEW" => ~Expired(d.trenew, now)
  BY <1>1, KeepAssociationEffect
<1> HIDE DEF d
<1>3. CASE d.status = "WAITING_UNKNOWN" /\ Clean(d) /\ d.twait \in Timer
  BY <1>2, <1>3 DEF GoodAt, Good, Clean, Associated, d
<1>4. CASE ~(d.status = "WAITING_UNKNOWN" /\ Clean(d) /\ d.twait \in Timer)
  <2>1. CASE c.status \notin Associated
    BY <1>2, <1>4, <2>1 DEF GoodAt, Good, Associated, d
  <2>2. CASE c.status \in Associated
    <3>1. /\ l \in Lease /\ k \in Lease /\ k.src = l.src /\ k.start = l.start
          /\ k.ttl = l.ttl /\ k.mtu = l.mtu
      BY <2>2 DEF Good, SameLease
    <3> QED
      BY <1>2, <1>4, <2>2, <3>1 DEF GoodAt, Good, SameMaster2, Associated, d
  <2> QED
    BY <2>1, <2>2
<1> QED
  BY <1>3, <1>4

----------------------------------------------------------------------------
(* The invariant holds.                                                     *)

LEMMA DiscoversIsNat ==
    ASSUME NEW c \in Engine
    PROVE  Discovers(c) \in Nat
<1>1. DOMAIN c.air = 1..Len(c.air) /\ Len(c.air) \in Nat
  BY DEF Engine
<1>2. IsFiniteSet(1..Len(c.air))
  BY <1>1, FS_Interval
<1>3. IsFiniteSet({i \in DOMAIN c.air : c.air[i].msg = "Discover"})
  BY <1>1, <1>2, FS_Subset
<1> QED
  BY <1>3, FS_CardinalityType DEF Discovers

LEMMA InitIInv == Init => IInv
<1> SUFFICES ASSUME Init PROVE IInv
  OBVIOUS
<1>1. 1 % ID_SPACE \in 0..(ID_SPACE - 1)
  BY CasanAssumption
<1>2. <<>> \in Seq(Frame) /\ DefMtu \in Nat
  BY DefMtuType
<1>3. ca \in Engine
  BY <1>1, <1>2 DEF Init, Engine, Status, Pointer
<1>4. AirOK(ca)
  BY DEF Init, AirOK
<1>5. Good(ca, lease)
  BY <1>3, <1>4 DEF Init, Good, Clean, Associated
<1> QED
  BY <1>5 DEF Init, IInv, GoodAt, Time

\* What CountDiscovers does to the lease of an associated slave.
LEMMA CountedLease ==
    ASSUME NEW l \in Lease, NEW n \in Nat
    PROVE  LET k == [l EXCEPT !.discovers = @ + n]
           IN  k \in Lease /\ SameLease(k, l)
BY DEF Lease, SameLease

\* The end of loop() in RUNNING and RENEW, with the lease counted.
LEMMA CountedStep ==
    ASSUME NEW c, NEW l \in Lease, Good(c, l), NEW now \in Time
    PROVE  LET d == KeepAssociation(c, now)
               k == [l EXCEPT !.discovers = @ + Discovers(d)]
           IN  k \in Lease /\ GoodAt(d, k, now)
<1> DEFINE d == KeepAssociation(c, now)
           k == [l EXCEPT !.discovers = @ + Discovers(d)]
<1>1. d \in Engine
  BY AssociatedTimersGood DEF SameLease, GoodAt, Good
<1>2. Discovers(d) \in Nat
  BY <1>1, DiscoversIsNat
<1>3. k \in Lease /\ SameLease(k, l)
  BY <1>2, CountedLease
<1>4. GoodAt(d, k, now)
  BY <1>3, AssociatedTimersGood
<1> QED
  BY <1>3, <1>4

LEMMA LoopIInv ==
    ASSUME IInv, NEW m \in Messages, NEW now \in Time, Loop(m, now)
    PROVE  lease' \in Lease \cup {NoLease} /\ GoodAt(ca', lease', now)
<1> DEFINE f == Fresh(ca)
<1>1. Good(f, lease) /\ f.status = ca.status /\ f.master = ca.master
  BY FreshGood DEF IInv, GoodAt, SameButSent
<1>2. lease \in Lease \cup {NoLease}
  BY DEF IInv
<1>3. ca.status \in Associated => lease \in Lease
  BY DEF IInv, GoodAt, Good
<1>4. f.status \in Associated => f.status # "COLDSTART"
  BY DEF Associated
<1> HIDE DEF f
<1>5. CASE ColdStart(now)
  <2> DEFINE s == SendDiscover(f)
             t == InitTwait(now)
             d == [s EXCEPT !.twait = t, !.status = "WAITING_UNKNOWN"]
  <2>1. s \in Engine /\ SameButSent(s, f) /\ AirOK(s)
    BY <1>1, SendDiscoverEffect DEF Good
  <2>2. Clean(s)
    BY <1>1, <1>5, <2>1 DEF ColdStart, Good, Clean, SameButSent
  <2>3. t \in Timer
    BY InitTwaitType
  <2> HIDE DEF s, t
  <2>4. /\ d \in Engine /\ AirOK(d) /\ d.status = "WAITING_UNKNOWN"
        /\ Clean(d) /\ d.twait \in Timer
    BY <2>1, <2>2, <2>3 DEF Engine, AirOK, Clean, Status
  <2> HIDE DEF d
  <2>5. GoodAt(d, lease, now)
    BY <2>4 DEF GoodAt, Good, Clean, Associated
  <2>6. ca' = d /\ lease' = lease
    BY <1>5 DEF ColdStart, d, s, t, f
  <2> QED
    BY <1>2, <2>5, <2>6
<1>6. CASE UnknownHello(m, now)
  <2>1. GoodAt(MeetMaster(f, m, now), lease, now)
    BY <1>1, <1>6, HelloWaitingGood DEF UnknownHello
  <2> QED
    BY <1>2, <1>6, <2>1 DEF UnknownHello, f
<1>7. CASE UnknownAssoc(m, now) \/ KnownAssoc(m, now)
  <2>1. /\ Granted(m, now) \in Lease
        /\ GoodAt(Associate(f, m, now), Granted(m, now), now)
    BY <1>1, <1>7, AssociateGood DEF UnknownAssoc, KnownAssoc
  <2> QED
    BY <1>7, <2>1 DEF UnknownAssoc, KnownAssoc, f
<1>8. CASE UnknownOther(m, now)
  <2>1. GoodAt(DiscoverIfDue(f, now), lease, now)
    BY <1>1, <1>8, UnknownTimersGood DEF UnknownOther
  <2> QED
    BY <1>2, <1>8, <2>1 DEF UnknownOther, f
<1>9. CASE KnownHello(m, now)
  <2> DEFINE e == ChangeMaster(f, m.src, m.hlid)
  <2>1. Good(e, lease) /\ e.status = "WAITING_KNOWN"
    BY <1>1, <1>9, HelloWaitingGood DEF KnownHello
  <2> HIDE DEF e
  <2>2. GoodAt(WaitForMaster(e, now), lease, now)
    BY <2>1, KnownTimersGood
  <2> QED
    BY <1>2, <1>9, <2>2 DEF KnownHello, e, f
<1>10. CASE KnownOther(m, now)
  <2>1. GoodAt(WaitForMaster(f, now), lease, now)
    BY <1>1, <1>10, KnownTimersGood DEF KnownOther
  <2> QED
    BY <1>2, <1>10, <2>1 DEF KnownOther, f
<1>11. CASE AssociatedHello(m, now)
  <2> DEFINE h == HelloWhileAssociated(f, m, now)
  <2>1. Good(h, lease)
    BY <1>1, <1>11, HelloAssociatedGood DEF AssociatedHello
  <2> QED
    BY <1>3, <1>11, <2>1, CountedStep DEF AssociatedHello, CountDiscovers, h, f
<1>12. CASE AssociatedAssoc(m, now)
  <2> DEFINE r == Renew(f, m, now)
  <2>1. Granted(m, now) \in Lease /\ GoodAt(r, Granted(m, now), now)
    BY <1>1, <1>4, <1>12, AssociateGood DEF AssociatedAssoc, SameMaster
  <2> HIDE DEF r
  <2>2. GoodAt(KeepAssociation(r, now), Granted(m, now), now)
    BY <2>1, AssociatedTimersGood DEF GoodAt, SameLease
  <2> QED
    BY <1>12, <2>1, <2>2 DEF AssociatedAssoc, r, f
<1>13. CASE AssociatedRequest(m, now)
  <2> DEFINE a == AnswerRequest(f, m.answer)
  <2>1. Good(a, lease)
    BY <1>1, <1>13, AnswerRequestGood DEF AssociatedRequest
  <2> QED
    BY <1>3, <1>13, <2>1, CountedStep DEF AssociatedRequest, CountDiscovers, a, f
<1>14. CASE AssociatedOther(m, now)
  BY <1>1, <1>3, <1>4, <1>14, CountedStep DEF AssociatedOther, CountDiscovers, f
<1> QED
  BY <1>5, <1>6, <1>7, <1>8, <1>9, <1>10, <1>11, <1>12, <1>13, <1>14 DEF Loop

LEMMA ResetCasanIInv ==
    ASSUME IInv, ResetCasan
    PROVE  IInv'
<1> DEFINE f == Fresh(ca)
           b == [f EXCEPT !.status = "COLDSTART", !.curid = 1 % ID_SPACE]
           r == [b EXCEPT !.master = NoMaster, !.hlid = UnknownHlid]
           d == NegociateMtu(r, 0)
<1>1. Good(f, lease)
  BY FreshGood DEF IInv, GoodAt
<1> HIDE DEF f
<1>2. 1 % ID_SPACE \in 0..(ID_SPACE - 1)
  BY CasanAssumption
<1>3. b \in Engine /\ AirOK(b) /\ b.status = "COLDSTART"
  BY <1>1, <1>2 DEF Good, Engine, AirOK, Status
<1> HIDE DEF b
<1>4. /\ r \in Engine /\ AirOK(r) /\ r.status = "COLDSTART"
      /\ r.master = NoMaster /\ r.hlid = UnknownHlid
  BY <1>3 DEF Engine, AirOK
<1> HIDE DEF r
<1>5. d \in Engine /\ AirOK(d) /\ d.status = "COLDSTART" /\ Clean(d)
  BY <1>4, NegociateMtuEffect DEF Clean
<1>6. ca' = d /\ UNCHANGED <<curtime, lease>>
  BY DEF ResetCasan, ResetMaster, ResetMtu, d, r, b, f
<1> HIDE DEF d
<1>7. GoodAt(d, lease, curtime)
  BY <1>5 DEF GoodAt, Good, Clean, Associated
<1> QED
  BY <1>6, <1>7 DEF IInv

LEMMA NextIInv == IInv /\ [Next]_vars => IInv'
<1> SUFFICES ASSUME IInv, [Next]_vars PROVE IInv'
  OBVIOUS
<1>1. CASE ResetCasan
  BY <1>1, ResetCasanIInv
<1>2. CASE UNCHANGED vars
  BY <1>2 DEF IInv, vars
<1>3. ASSUME NEW m \in Messages, NEW gap \in Gaps,
             curtime' = curtime + gap, Loop(m, curtime + gap)
      PROVE  IInv'
  <2>1. curtime + gap \in Time
    BY CasanAssumption DEF IInv, Time
  <2>2. lease' \in Lease \cup {NoLease} /\ GoodAt(ca', lease', curtime + gap)
    BY <1>3, <2>1, LoopIInv
  <2> QED
    BY <1>3, <2>1, <2>2 DEF IInv
<1> QED
  BY <1>1, <1>2, <1>3 DEF Next

\* The invariant of the engine: its fields match its status, and its renewal
\* timer matches the lease its last Assoc granted.
THEOREM InvariantHolds == Spec => []IInv
BY InitIInv, NextIInv, PTL DEF Spec

----------------------------------------------------------------------------
(* What follows from it.                                                    *)

LEMMA IInvImplies ==
    IInv => /\ TypeOK /\ MasterMatchesStatus /\ MtuBelongsToLease
            /\ LeaseHonoured /\ AnswersHaveDestination
<1> SUFFICES ASSUME IInv
             PROVE  /\ TypeOK /\ MasterMatchesStatus /\ MtuBelongsToLease
                    /\ LeaseHonoured /\ AnswersHaveDestination
  OBVIOUS
<1>1. TypeOK
  BY DEF IInv, GoodAt, Good, TypeOK
<1>2. MasterMatchesStatus
  BY DEF IInv, GoodAt, Good, Clean, MasterMatchesStatus
<1>3. MtuBelongsToLease
  BY DEF IInv, GoodAt, Good, Clean, MtuBelongsToLease
<1>4. LeaseHonoured
  <2>1. CASE ca.status \in Associated
    <3>1. /\ lease.start \in Nat /\ lease.ttl \in Nat /\ curtime \in Nat
          /\ ca.trenew.limit = lease.start + lease.ttl
          /\ ca.trenew.next \in Nat /\ ca.trenew.limit \in Nat
      BY <2>1, CasanAssumption DEF IInv, GoodAt, Good, Lease, Timer, Time
    <3>2. CASE ca.status = "RUNNING"
      <4>1. ca.trenew.next = lease.start + (lease.ttl \div 2)
        BY <2>1, <3>2 DEF IInv, GoodAt, Good
      <4>2. curtime < lease.start + (lease.ttl \div 2)
        BY <3>1, <3>2, <4>1 DEF IInv, GoodAt, Due
      <4> QED
        BY <3>1, <3>2, <4>2 DEF LeaseHonoured
    <3>3. CASE ca.status = "RENEW"
      BY <3>1, <3>3 DEF IInv, GoodAt, Expired, LeaseHonoured
    <3> QED
      BY <2>1, <3>2, <3>3 DEF Associated
  <2>2. CASE ca.status \notin Associated
    BY <2>2 DEF LeaseHonoured, Associated
  <2> QED
    BY <2>1, <2>2
<1>5. AnswersHaveDestination
  BY DEF IInv, GoodAt, Good, AirOK, AnswersHaveDestination
<1> QED
  BY <1>1, <1>2, <1>3, <1>4, <1>5

\* Every variable keeps its type, whatever the masters send and however late
\* loop() is called.
THEOREM TypeCorrect == Spec => []TypeOK
BY InvariantHolds, IInvImplies, PTL

\* loop() never dereferences a NULL master_, and a slave that looks for a
\* master keeps nothing of an earlier one.
THEOREM MasterCorrect == Spec => []MasterMatchesStatus
BY InvariantHolds, IInvImplies, PTL

\* A negociated MTU is used only with the master, and during the association,
\* it was negociated for.
THEOREM MtuCorrect == Spec => []MtuBelongsToLease
BY InvariantHolds, IInvImplies, PTL

\* No association outlives the TTL its master granted, and in the second half
\* of it the slave is looking for a renewal.
THEOREM LeaseCorrect == Spec => []LeaseHonoured
BY InvariantHolds, IInvImplies, PTL

\* Answers always have a destination.
THEOREM DestinationCorrect == Spec => []AnswersHaveDestination
BY InvariantHolds, IInvImplies, PTL

----------------------------------------------------------------------------
(* Renewals.                                                                *)
(*                                                                          *)
(* Each Discover moves the next one by at least TIMER_RENEW_MIN.  That is   *)
(* inductive, inside a call of loop() as well: two Discovers of the same    *)
(* call are paid for by the time that has passed since they were due.       *)

Half(l) == l.start + (l.ttl \div 2)

\* n Discovers for lease l, at time now, with the timer of engine c.
Paid(c, l, n, now) ==
    /\ c.status = "RUNNING" => n = 0
    /\ c.status = "RENEW" =>
         /\ Half(l) + n * TIMER_RENEW_MIN <= c.trenew.next
         /\ n = 0 \/ Half(l) + (n - 1) * TIMER_RENEW_MIN <= now

\* Inside loop(): the Discovers of this call are not in the lease yet.
Total(c, l) == l.discovers + Discovers(c)

PaidInv == lease \in Lease => Paid(ca, lease, lease.discovers, curtime)

----------------------------------------------------------------------------
(* Counting the Discovers.                                                  *)

LEMMA AppendCounts ==
    ASSUME NEW c \in Engine, NEW d, NEW frame \in Frame, d.air = Append(c.air, frame)
    PROVE  Discovers(d) = Discovers(c) + (IF frame.msg = "Discover" THEN 1 ELSE 0)
<1> DEFINE n == Len(c.air)
           C == {i \in DOMAIN c.air : c.air[i].msg = "Discover"}
           D == {i \in DOMAIN d.air : d.air[i].msg = "Discover"}
<1>1. c.air \in Seq(Frame) /\ n \in Nat /\ DOMAIN c.air = 1..n
  BY DEF Engine
<1>2. /\ DOMAIN d.air = 1..(n + 1) /\ d.air[n + 1] = frame
      /\ \A i \in 1..n : d.air[i] = c.air[i]
  BY <1>1
<1>3. IsFiniteSet(C) /\ n + 1 \notin C
  <2>1. IsFiniteSet(1..n)
    BY <1>1, FS_Interval
  <2> QED
    BY <1>1, <2>1, FS_Subset
<1>4. CASE frame.msg = "Discover"
  <2>1. D = C \cup {n + 1}
    BY <1>1, <1>2, <1>4
  <2> HIDE DEF C, D, n
  <2>2. Cardinality(D) = Cardinality(C) + 1
    BY <1>3, <2>1, FS_AddElement
  <2> QED
    BY <1>4, <2>2 DEF Discovers, C, D
<1>5. CASE frame.msg # "Discover"
  <2>1. D = C
    BY <1>1, <1>2, <1>5
  <2>2. Cardinality(C) \in Nat
    BY <1>3, FS_CardinalityType
  <2>3. Discovers(d) = Cardinality(D) /\ Discovers(c) = Cardinality(C)
    BY DEF Discovers
  <2> HIDE DEF C, D, n
  <2> QED
    BY <1>5, <2>1, <2>2, <2>3
<1> QED
  BY <1>4, <1>5

LEMMA SendMsgCounts ==
    ASSUME NEW c \in Engine, NEW msg \in {"Discover", "AssocAnswer", "Response"},
           NEW dest \in Masters \cup {NoMaster}, NEW fits \in BOOLEAN
    PROVE  LET d == SendMsg(c, msg, dest, fits)
           IN  \/ Discovers(d) = Discovers(c)
               \/ msg = "Discover" /\ Discovers(d) = Discovers(c) + 1
<1> DEFINE frame(intact) == [msg |-> msg, dest |-> dest, intact |-> intact]
           d == SendMsg(c, msg, dest, fits)
<1>1. ASSUME NEW intact \in BOOLEAN, d.air = Append(c.air, frame(intact))
      PROVE  \/ Discovers(d) = Discovers(c)
             \/ msg = "Discover" /\ Discovers(d) = Discovers(c) + 1
  <2>1. frame(intact) \in Frame /\ frame(intact).msg = msg
    BY DEF Frame
  <2>2. Discovers(c) \in Nat
    BY DiscoversIsNat
  <2> HIDE DEF frame, d
  <2>3. Discovers(d) = Discovers(c) + (IF frame(intact).msg = "Discover" THEN 1 ELSE 0)
    BY <1>1, <2>1, AppendCounts
  <2> QED
    BY <2>1, <2>2, <2>3
<1>2. \/ d.air = Append(c.air, frame(FALSE))
      \/ d.air = Append(c.air, frame(c.payload # "freed"))
      \/ d = c
  BY DEF SendMsg, Engine
<1>3. (c.payload # "freed") \in BOOLEAN
  OBVIOUS
<1> HIDE DEF d, frame
<1>4. CASE d = c
  BY <1>4 DEF d
<1>5. CASE d.air = Append(c.air, frame(FALSE))
  BY <1>1, <1>5 DEF d
<1>6. CASE d.air = Append(c.air, frame(c.payload # "freed"))
  BY <1>1, <1>3, <1>6 DEF d
<1> QED
  BY <1>2, <1>4, <1>5, <1>6

LEMMA SendDiscoverCounts ==
    ASSUME NEW c \in Engine
    PROVE  Discovers(SendDiscover(c)) \in {Discovers(c), Discovers(c) + 1}
<1> DEFINE r == [ResetMsg(c) EXCEPT !.curid = (@ + 1) % ID_SPACE]
<1>1. (c.curid + 1) % ID_SPACE \in 0..(ID_SPACE - 1)
  BY CasanAssumption DEF Engine
<1>2. r \in Engine /\ r.air = c.air
  BY <1>1 DEF ResetMsg, Release, Engine, Pointer
<1>3. (c.l2mtu >= DiscoverMtu) \in BOOLEAN /\ c.master \in Masters \cup {NoMaster}
  BY DEF Engine
<1>4. SendDiscover(c) = SendMsg(r, "Discover", c.master, c.l2mtu >= DiscoverMtu)
  BY DEF SendDiscover
<1>5. Discovers(r) = Discovers(c)
  BY <1>2 DEF Discovers
<1> HIDE DEF r
<1>6. LET d == SendMsg(r, "Discover", c.master, c.l2mtu >= DiscoverMtu)
      IN  Discovers(d) = Discovers(r) \/ Discovers(d) = Discovers(r) + 1
  BY <1>2, <1>3, SendMsgCounts, Zenon
<1> QED
  BY <1>4, <1>5, <1>6

\* An answer to a request is no Discover.
LEMMA AnswerCounts ==
    ASSUME NEW c \in Engine, NEW answer
    PROVE  Discovers(AnswerRequest(c, answer)) = Discovers(c)
<1> DEFINE p == [c EXCEPT !.payload = "live"]
           q == IF answer = "NoPayload" THEN c ELSE p
<1>1. q \in Engine /\ q.air = c.air /\ c.master \in Masters \cup {NoMaster}
  BY DEF Engine, Pointer
<1>2. AnswerRequest(c, answer) = SendMsg(q, "Response", c.master, answer # "TooLarge")
  BY DEF AnswerRequest
<1>3. Discovers(q) = Discovers(c)
  BY <1>1 DEF Discovers
<1>4. (answer # "TooLarge") \in BOOLEAN
  OBVIOUS
<1> HIDE DEF q
<1>5. LET d == SendMsg(q, "Response", c.master, answer # "TooLarge")
      IN  Discovers(d) = Discovers(q) \/ "Response" = "Discover"
  <2> "Response" \in {"Discover", "AssocAnswer", "Response"}
    OBVIOUS
  <2> QED
    BY <1>1, <1>4, SendMsgCounts, Zenon
<1> QED
  BY <1>2, <1>3, <1>5

----------------------------------------------------------------------------
(* The end of loop().                                                       *)

LEMMA HalfIsNat ==
    ASSUME NEW l \in Lease
    PROVE  Half(l) \in Nat
<1>1. l.start \in Nat /\ l.ttl \in Ttls
  BY DEF Lease, Time
<1>2. l.ttl \in Nat
  BY <1>1, CasanAssumption
<1> QED
  BY <1>1, <1>2 DEF Half

\* A Discover moves the next one on.
LEMMA AdvancePaid ==
    ASSUME NEW c, NEW l \in Lease, NEW now \in Time, Renewable(c),
           c.status \in Associated, Due(c.trenew, now),
           NEW n \in Nat, Half(l) + n * TIMER_RENEW_MIN <= c.trenew.next
    PROVE  LET d == SendDiscover([c EXCEPT !.trenew = AdvanceTrenew(@)])
           IN  \A k \in {n, n + 1} :
                 /\ Half(l) + k * TIMER_RENEW_MIN <= d.trenew.next
                 /\ k = 0 \/ Half(l) + (k - 1) * TIMER_RENEW_MIN <= now
<1> DEFINE a == [c EXCEPT !.trenew = AdvanceTrenew(@)]
           t == c.trenew
           M == TIMER_RENEW_MIN
<1>1. c \in Engine /\ t \in Timer /\ AirOK(c) /\ M \in Nat /\ Half(l) \in Nat
  <2>1. Half(l) \in Nat
    BY HalfIsNat
  <2> QED
    BY <2>1, TimerConstants DEF Renewable
<1>2. PICK i \in Nat : i >= M /\ AdvanceTrenew(t) = [t EXCEPT !.inc = i, !.next = t.next + i]
  <2> DEFINE half == t.inc \div 2
             i == IF half <= M THEN M ELSE half
  <2>1. i \in Nat /\ i >= M
    BY <1>1 DEF Timer, Time
  <2>2. AdvanceTrenew(t) = [t EXCEPT !.inc = i, !.next = t.next + i]
    BY Zenon DEF AdvanceTrenew
  <2> HIDE DEF i
  <2> QED
    BY <2>1, <2>2
<1>3. AdvanceTrenew(t).next = t.next + i
  BY <1>1, <1>2 DEF Timer
<1>4. a \in Engine /\ AirOK(a) /\ a.trenew = AdvanceTrenew(t)
  BY <1>1, AdvanceTypes DEF Engine, AirOK
<1>5. SendDiscover(a).trenew = AdvanceTrenew(t)
  <2> HIDE DEF a
  <2> QED
    BY <1>4, SendDiscoverEffect DEF SameButSent
<1>6. t.next \in Nat /\ now \in Nat /\ t.next <= now
  BY <1>1 DEF Timer, Time, Due
<1> HIDE DEF a, t, M
<1>7. n * M \in Nat /\ (n + 1) * M = n * M + M
  BY <1>1
<1>8. (n - 1) * M <= n * M
  BY <1>1, <1>7
<1>9. Half(l) + n * M <= t.next /\ (n + 1) - 1 = n
  BY DEF t, M
<1>10. Half(l) + n * M <= t.next + i /\ Half(l) + (n + 1) * M <= t.next + i
  BY <1>1, <1>2, <1>6, <1>7, <1>9
<1>11. (n - 1) * M \in Int
  BY <1>1
<1>12. Half(l) + (n - 1) * M <= now /\ Half(l) + ((n + 1) - 1) * M <= now
  BY <1>1, <1>6, <1>7, <1>8, <1>9, <1>11
<1> QED
  BY <1>3, <1>5, <1>10, <1>12 DEF a, t, M

\* What the timers of RUNNING and RENEW need, beside Renewable.
Counted(c, l, now) ==
    /\ Renewable(c)
    /\ c.status = "RUNNING" => c.trenew.next = Half(l)
    /\ Paid(c, l, Total(c, l), now)

LEMMA TotalIsNat ==
    ASSUME NEW c \in Engine, NEW l \in Lease
    PROVE  Total(c, l) \in Nat
BY DiscoversIsNat DEF Total, Lease

\* A Discover of the association, and the count of them.
LEMMA RenewalPaid ==
    ASSUME NEW c, NEW l \in Lease, NEW now \in Time, Renewable(c),
           c.status \in Associated, Due(c.trenew, now),
           Half(l) + Total(c, l) * TIMER_RENEW_MIN <= c.trenew.next
    PROVE  LET d == SendDiscover([c EXCEPT !.trenew = AdvanceTrenew(@)])
           IN  /\ Half(l) + Total(d, l) * TIMER_RENEW_MIN <= d.trenew.next
               /\ \/ Total(d, l) = 0
                  \/ Half(l) + (Total(d, l) - 1) * TIMER_RENEW_MIN <= now
<1> DEFINE a == [c EXCEPT !.trenew = AdvanceTrenew(@)]
           n == Total(c, l)
<1>1. n \in Nat /\ l.discovers \in Nat /\ Discovers(c) \in Nat
  BY TotalIsNat, DiscoversIsNat DEF Renewable, Lease
<1>2. a \in Engine /\ a.air = c.air
  BY AdvanceTypes DEF Renewable, Engine
<1>3. Discovers(a) = Discovers(c)
  BY <1>2 DEF Discovers
<1>4. Total(SendDiscover(a), l) \in {n, n + 1}
  <2> HIDE DEF a
  <2>1. Discovers(SendDiscover(a)) \in {Discovers(c), Discovers(c) + 1}
    BY <1>2, <1>3, SendDiscoverCounts
  <2> QED
    BY <1>1, <2>1 DEF Total
<1>5. LET d == SendDiscover(a)
      IN  \A k \in {n, n + 1} :
            /\ Half(l) + k * TIMER_RENEW_MIN <= d.trenew.next
            /\ k = 0 \/ Half(l) + (k - 1) * TIMER_RENEW_MIN <= now
  <2> HIDE DEF n
  <2> QED
    BY <1>1, AdvancePaid DEF n
<1> HIDE DEF a, n
<1> QED
  BY <1>4, <1>5 DEF a

LEMMA StartPaid ==
    ASSUME NEW c, NEW l \in Lease, NEW now \in Time, Counted(c, l, now)
    PROVE  Counted(StartRenewal(c, now), l, now)
<1> DEFINE d == StartRenewal(c, now)
           s == SendDiscover([c EXCEPT !.trenew = AdvanceTrenew(@)])
<1>1. Renewable(c) /\ Renewable(d)
  BY StartRenewalEffect DEF Counted
<1>2. CASE c.status = "RUNNING" /\ Due(c.trenew, now)
  <2>1. Total(c, l) = 0 /\ c.trenew.next = Half(l) /\ c.status \in Associated
    BY <1>2 DEF Counted, Paid, Associated
  <2>2. Half(l) + Total(c, l) * TIMER_RENEW_MIN <= c.trenew.next
    BY <2>1, HalfIsNat, TimerConstants
  <2>3. /\ Half(l) + Total(s, l) * TIMER_RENEW_MIN <= s.trenew.next
        /\ Total(s, l) = 0 \/ Half(l) + (Total(s, l) - 1) * TIMER_RENEW_MIN <= now
    BY <1>1, <1>2, <2>1, <2>2, RenewalPaid
  <2>4. s \in Engine
    BY <1>1, <2>1, AdvanceRenewalEffect DEF Renewable
  <2>5. d = [s EXCEPT !.status = "RENEW"]
    BY <1>2 DEF StartRenewal
  <2> HIDE DEF s, d
  <2>6. d.status = "RENEW" /\ d.trenew = s.trenew /\ d.air = s.air
    BY <2>4, <2>5 DEF Engine
  <2>7. Total(d, l) = Total(s, l)
    BY <2>6 DEF Total, Discovers
  <2> QED
    BY <1>1, <2>3, <2>6, <2>7 DEF Counted, Paid, d
<1>3. CASE ~(c.status = "RUNNING" /\ Due(c.trenew, now))
  BY <1>3 DEF StartRenewal
<1> QED
  BY <1>2, <1>3

LEMMA RepeatPaid ==
    ASSUME NEW c, NEW l \in Lease, NEW now \in Time, Counted(c, l, now)
    PROVE  Counted(RepeatRenewal(c, now), l, now)
<1> DEFINE d == RepeatRenewal(c, now)
<1>1. Renewable(c) /\ Renewable(d) /\ d.status = c.status
  BY RepeatRenewalEffect DEF Counted
<1>2. CASE c.status = "RENEW" /\ Due(c.trenew, now)
  <2>1. Half(l) + Total(c, l) * TIMER_RENEW_MIN <= c.trenew.next /\ c.status \in Associated
    BY <1>2 DEF Counted, Paid, Associated
  <2>2. d = SendDiscover([c EXCEPT !.trenew = AdvanceTrenew(@)])
    BY <1>2 DEF RepeatRenewal
  <2>3. /\ Half(l) + Total(d, l) * TIMER_RENEW_MIN <= d.trenew.next
        /\ Total(d, l) = 0 \/ Half(l) + (Total(d, l) - 1) * TIMER_RENEW_MIN <= now
    BY <1>1, <1>2, <2>1, <2>2, RenewalPaid
  <2> HIDE DEF d
  <2> QED
    BY <1>1, <1>2, <2>3 DEF Counted, Paid, d
<1>3. CASE ~(c.status = "RENEW" /\ Due(c.trenew, now))
  BY <1>3 DEF RepeatRenewal
<1> QED
  BY <1>2, <1>3

LEMMA KeepPaid ==
    ASSUME NEW c, NEW l \in Lease, NEW now \in Time, Counted(c, l, now)
    PROVE  LET d == KeepAssociation(c, now)
           IN  Paid(d, l, Total(d, l), now)
<1> DEFINE e == RepeatRenewal(StartRenewal(c, now), now)
<1>1. Counted(e, l, now)
  BY StartPaid, RepeatPaid
<1>2. KeepAssociation(c, now) = ExpireRenewal(e, now)
  BY DEF KeepAssociation
<1> HIDE DEF e
<1>3. GiveUp(e, now).status = "WAITING_UNKNOWN"
  BY <1>1, GiveUpEffect DEF Counted, Renewable
<1> QED
  BY <1>1, <1>2, <1>3 DEF ExpireRenewal, Counted, Paid

----------------------------------------------------------------------------
(* The calls of loop().                                                     *)

\* An engine at the beginning of a call of loop(), whatever the call has sent
\* before the timers are looked at.
LEMMA LaterCounted ==
    ASSUME IInv, PaidInv, NEW now \in Time, curtime <= now, NEW c, Good(c, lease),
           c.status = ca.status, c.trenew = ca.trenew, Discovers(c) = 0,
           c.status \in Associated
    PROVE  Counted(c, lease, now)
<1>1. lease \in Lease /\ Renewable(c)
  BY DEF Good, Renewable
<1>2. Total(c, lease) = lease.discovers /\ lease.discovers \in Nat
  BY <1>1 DEF Total, Lease
<1>3. Paid(ca, lease, lease.discovers, curtime)
  BY <1>1 DEF PaidInv
<1>4. Half(lease) + (lease.discovers - 1) * TIMER_RENEW_MIN \in Int
  BY <1>1, <1>2, HalfIsNat, TimerConstants
<1>5. curtime \in Int /\ now \in Int
  BY DEF IInv, Time
<1>6. Paid(c, lease, lease.discovers, now)
  <2> DEFINE x == Half(lease) + (lease.discovers - 1) * TIMER_RENEW_MIN
             y == Half(lease) + lease.discovers * TIMER_RENEW_MIN
  <2>1. /\ ca.status = "RUNNING" => lease.discovers = 0
        /\ ca.status = "RENEW" => y <= ca.trenew.next /\ (lease.discovers = 0 \/ x <= curtime)
    BY <1>3 DEF Paid
  <2>2. x \in Int
    BY <1>4
  <2> HIDE DEF x, y
  <2>3. x <= curtime => x <= now
    BY <1>5, <2>2
  <2> QED
    BY <2>1, <2>3 DEF Paid, x, y
<1> QED
  BY <1>1, <1>2, <1>6 DEF Counted, Good, Half

\* The count is added to the lease at the end.
LEMMA CountedPaid ==
    ASSUME NEW l \in Lease, NEW now \in Time, NEW c, Counted(c, l, now),
           ca' = KeepAssociation(c, now), lease = l, curtime' = now, CountDiscovers
    PROVE  PaidInv'
<1> DEFINE d == KeepAssociation(c, now)
           k == [l EXCEPT !.discovers = l.discovers + Discovers(d)]
<1>1. Paid(d, l, Total(d, l), now)
  BY KeepPaid
<1>2. lease' = k /\ ca' = d
  BY Zenon DEF CountDiscovers
<1> HIDE DEF d
<1>3. k.discovers = Total(d, l) /\ k.start = l.start /\ k.ttl = l.ttl
  BY DEF Total, Lease
<1> HIDE DEF k
<1>4. Paid(d, k, k.discovers, now)
  BY <1>1, <1>3 DEF Paid, Half
<1> QED
  BY <1>2, <1>4 DEF PaidInv

\* An engine which is not associated, or has just become so, owes nothing.
LEMMA NothingOwed ==
    ASSUME ca'.status \notin Associated \/ (ca'.status = "RUNNING" /\ lease'.discovers = 0)
    PROVE  PaidInv'
BY DEF PaidInv, Paid, Associated

LEMMA FreshEmpty ==
    ASSUME IInv
    PROVE  LET f == Fresh(ca)
           IN  /\ Good(f, lease) /\ f.status = ca.status /\ f.trenew = ca.trenew
               /\ f.master = ca.master /\ Discovers(f) = 0
<1> DEFINE f == Fresh(ca)
<1>1. Good(f, lease) /\ f.air = <<>> /\ SameButSent(f, ca)
  BY FreshGood DEF IInv, GoodAt
<1> HIDE DEF f
<1>2. {i \in DOMAIN f.air : f.air[i].msg = "Discover"} = {}
  BY <1>1
<1>3. Discovers(f) = 0
  BY <1>2, FS_EmptySet DEF Discovers
<1> QED
  BY <1>1, <1>3 DEF SameButSent, f

\* Before and after WAITING_KNOWN there is no association.
LEMMA WaitingOwesNothing ==
    ASSUME NEW c \in Engine, AirOK(c), c.twait \in Timer, NEW now \in Time,
           c.status \in {"WAITING_UNKNOWN", "WAITING_KNOWN"}
    PROVE  /\ DiscoverIfDue(c, now).status \notin Associated
           /\ WaitForMaster(c, now).status \notin Associated
<1>1. DiscoverIfDue(c, now).status = c.status
  BY DiscoverIfDueEffect
<1>2. GiveUp(c, now).status = "WAITING_UNKNOWN"
  BY GiveUpEffect
<1> QED
  BY <1>1, <1>2 DEF WaitForMaster, Associated

\* A Hello during an association leaves its timer alone, or ends it.
LEMMA HelloCounted ==
    ASSUME IInv, PaidInv, NEW now \in Time, curtime <= now, NEW m \in Messages,
           AssociatedHello(m, now), curtime' = now
    PROVE  PaidInv'
<1> DEFINE f == Fresh(ca)
           e == ChangeMaster(f, m.src, m.hlid)
           n == NegociateMtu(e, 0)
           w == [n EXCEPT !.twait = InitTwait(now), !.status = "WAITING_KNOWN"]
           h == HelloWhileAssociated(f, m, now)
<1>1. /\ Good(f, lease) /\ f.status = ca.status /\ f.trenew = ca.trenew
      /\ Discovers(f) = 0 /\ f.status \in Associated /\ m.type = "Hello"
  BY FreshEmpty DEF AssociatedHello
<1>2. Good(h, lease) /\ lease \in Lease
  <2> HIDE DEF f
  <2>1. lease \in Lease
    BY <1>1 DEF Good
  <2> QED
    BY <1>1, <2>1, HelloAssociatedGood
<1>3. ca' = KeepAssociation(h, now) /\ CountDiscovers
  BY DEF AssociatedHello
<1>4. h \in {f, n, w}
  BY DEF HelloWhileAssociated
<1> HIDE DEF f
<1>5. m.src \in Masters /\ m.hlid \in HelloIds
  BY <1>1, MessageFields, Zenon
<1>6. /\ e \in Engine /\ AirOK(e) /\ e.status = f.status /\ e.trenew = f.trenew
      /\ e.air = f.air
  <2>1. f \in Engine /\ AirOK(f)
    BY <1>1 DEF Good
  <2>2. e \in Engine /\ AirOK(e) /\ e.status = f.status /\ e.trenew = f.trenew
    BY <1>5, <2>1, ChangeMasterEffect
  <2>3. e.air = f.air
    BY <2>1 DEF ChangeMaster, Engine
  <2> QED
    BY <2>2, <2>3
<1> HIDE DEF e
<1>7. n \in Engine /\ n.status = f.status /\ n.trenew = f.trenew /\ n.air = f.air
  <2>1. n \in Engine /\ n.status = e.status /\ n.trenew = e.trenew
    BY <1>6, NegociateMtuEffect
  <2>2. n.air = e.air
    BY <1>6 DEF NegociateMtu, Engine
  <2> QED
    BY <1>6, <2>1, <2>2
<1> HIDE DEF n
<1>8. w.status = "WAITING_KNOWN"
  BY <1>7 DEF Engine
<1> HIDE DEF w, h
<1>9. CASE h = w
  <2>1. Counted(h, lease, now)
    BY <1>2, <1>8, <1>9 DEF Counted, Renewable, Paid, Good, Associated
  <2> QED
    BY <1>2, <1>3, <2>1, CountedPaid
<1>10. CASE h \in {f, n}
  <2>1. Discovers(h) = 0 /\ h.status = ca.status /\ h.trenew = ca.trenew
        /\ h.status \in Associated
    BY <1>1, <1>7, <1>10 DEF Discovers
  <2>2. Counted(h, lease, now)
    BY <1>2, <2>1, LaterCounted
  <2> QED
    BY <1>2, <1>3, <2>2, CountedPaid
<1> QED
  BY <1>4, <1>9, <1>10

LEMMA LoopPaid ==
    ASSUME IInv, PaidInv, NEW now \in Time, curtime <= now, NEW m \in Messages,
           Loop(m, now), curtime' = now
    PROVE  PaidInv'
<1> DEFINE f == Fresh(ca)
<1>1. /\ Good(f, lease) /\ f.status = ca.status /\ f.trenew = ca.trenew
      /\ f.master = ca.master /\ Discovers(f) = 0 /\ f \in Engine /\ AirOK(f)
  BY FreshEmpty DEF Good
<1>2. f.status \in Associated => lease \in Lease
  BY <1>1 DEF Good
<1>3. /\ lease' \in Lease \cup {NoLease} /\ GoodAt(ca', lease', now)
  BY LoopIInv
<1> HIDE DEF f
<1>4. CASE ColdStart(now)
  <2>1. SendDiscover(f) \in Engine
    BY <1>1, SendDiscoverEffect
  <2>2. ca'.status = "WAITING_UNKNOWN"
    BY <1>4, <2>1 DEF ColdStart, Engine, f
  <2> QED
    BY <2>2, NothingOwed DEF Associated
<1>5. CASE UnknownHello(m, now)
  <2>1. m.src \in Masters /\ m.hlid \in HelloIds
    BY <1>5, MessageFields, Zenon DEF UnknownHello
  <2>2. ChangeMaster(f, m.src, m.hlid) \in Engine
    BY <1>1, <2>1, ChangeMasterEffect
  <2>3. ca'.status = "WAITING_KNOWN"
    BY <1>5, <2>2 DEF UnknownHello, MeetMaster, Engine, f
  <2> QED
    BY <2>3, NothingOwed DEF Associated
<1>6. CASE UnknownAssoc(m, now) \/ KnownAssoc(m, now)
  <2>1. ca' = Associate(f, m, now) /\ lease' = Granted(m, now)
    BY <1>6 DEF UnknownAssoc, KnownAssoc, f
  <2>2. ca' \in Engine
    BY <1>3 DEF GoodAt, Good
  <2>3. ca'.status = "RUNNING"
    BY <2>1, <2>2 DEF Associate, Engine
  <2>4. lease'.discovers = 0
    BY <2>1 DEF Granted
  <2> QED
    BY <2>3, <2>4, NothingOwed
<1>7. CASE UnknownOther(m, now)
  <2>1. ca' = DiscoverIfDue(f, now) /\ f.status = "WAITING_UNKNOWN"
    BY <1>1, <1>7 DEF UnknownOther, f
  <2>2. f.twait \in Timer
    BY <1>1, <2>1 DEF Good
  <2> QED
    BY <1>1, <2>1, <2>2, WaitingOwesNothing, NothingOwed
<1>8. CASE KnownHello(m, now)
  <2> DEFINE e == ChangeMaster(f, m.src, m.hlid)
  <2>1. m.src \in Masters /\ m.hlid \in HelloIds
    BY <1>8, MessageFields, Zenon DEF KnownHello
  <2>2. ca' = WaitForMaster(e, now) /\ f.status = "WAITING_KNOWN"
    BY <1>1, <1>8 DEF KnownHello, f
  <2>3. e \in Engine /\ AirOK(e) /\ e.status = f.status /\ e.twait = f.twait
    BY <1>1, <2>1, ChangeMasterEffect
  <2>4. f.twait \in Timer
    BY <1>1, <2>2 DEF Good
  <2> HIDE DEF e
  <2> QED
    BY <2>2, <2>3, <2>4, WaitingOwesNothing, NothingOwed
<1>9. CASE KnownOther(m, now)
  <2>1. ca' = WaitForMaster(f, now) /\ f.status = "WAITING_KNOWN"
    BY <1>1, <1>9 DEF KnownOther, f
  <2>2. f.twait \in Timer
    BY <1>1, <2>1 DEF Good
  <2> QED
    BY <1>1, <2>1, <2>2, WaitingOwesNothing, NothingOwed
<1>10. CASE AssociatedHello(m, now)
  BY <1>10, HelloCounted
<1>11. CASE AssociatedAssoc(m, now)
  <2> DEFINE r == Renew(f, m, now)
  <2>1. GoodAt(r, Granted(m, now), now)
    <3>1. SameMaster(f, m.src) /\ f.status # "COLDSTART" /\ m.type = "Assoc"
      BY <1>1, <1>11 DEF AssociatedAssoc, SameMaster, Associated
    <3> QED
      BY <1>1, <3>1, AssociateGood
  <2>2. ca' = KeepAssociation(r, now) /\ lease' = Granted(m, now)
    BY <1>11 DEF AssociatedAssoc, f
  <2>3. r \in Engine
    BY <2>1 DEF GoodAt, Good
  <2>4. r.status = "RUNNING"
    BY <2>3 DEF Renew, Engine
  <2> HIDE DEF r
  <2>5. ~Due(r.trenew, now)
    BY <2>1, <2>4 DEF GoodAt
  <2>6. ca' = r
    BY <2>2, <2>4, <2>5 DEF KeepAssociation, StartRenewal, RepeatRenewal, ExpireRenewal
  <2>7. lease'.discovers = 0
    BY <2>2 DEF Granted
  <2> QED
    BY <2>4, <2>6, <2>7, NothingOwed
<1>12. CASE AssociatedRequest(m, now)
  <2> DEFINE a == AnswerRequest(f, m.answer)
  <2>1. f.status \in Associated /\ ca' = KeepAssociation(a, now) /\ CountDiscovers
    BY <1>1, <1>12 DEF AssociatedRequest, f
  <2>2. f.master # NoMaster /\ f.master \in Masters
    BY <1>1, <2>1 DEF Good, Engine, Associated
  <2>3. Good(a, lease) /\ SameButSent(a, f) /\ Discovers(a) = 0
    BY <1>1, <2>1, <2>2, AnswerRequestGood, AnswersEffect, AnswerCounts
  <2> HIDE DEF a
  <2>4. Counted(a, lease, now)
    BY <1>1, <2>1, <2>3, LaterCounted DEF SameButSent
  <2> QED
    BY <1>2, <2>1, <2>4, CountedPaid
<1>13. CASE AssociatedOther(m, now)
  <2>1. f.status \in Associated /\ ca' = KeepAssociation(f, now) /\ CountDiscovers
    BY <1>1, <1>13 DEF AssociatedOther, f
  <2>2. Counted(f, lease, now)
    BY <1>1, <2>1, LaterCounted
  <2> QED
    BY <1>2, <2>1, <2>2, CountedPaid
<1> QED
  BY <1>4, <1>5, <1>6, <1>7, <1>8, <1>9, <1>10, <1>11, <1>12, <1>13 DEF Loop

----------------------------------------------------------------------------
(* The theorem.                                                             *)

LEMMA InitPaid == Init => PaidInv
BY DEF Init, PaidInv, Paid

LEMMA NextPaid == IInv /\ PaidInv /\ [Next]_vars => PaidInv'
<1> SUFFICES ASSUME IInv, PaidInv, [Next]_vars PROVE PaidInv'
  OBVIOUS
<1>1. CASE ResetCasan
  <2>1. Fresh(ca) \in Engine /\ AirOK(Fresh(ca))
    BY FreshEmpty DEF Good
  <2> DEFINE r == [Fresh(ca) EXCEPT !.status = "COLDSTART", !.curid = 1 % ID_SPACE]
             s == [r EXCEPT !.master = NoMaster, !.hlid = UnknownHlid]
  <2>2. r \in Engine /\ AirOK(r) /\ r.status = "COLDSTART"
    <3>1. 1 % ID_SPACE \in 0..(ID_SPACE - 1)
      BY CasanAssumption
    <3> QED
      BY <2>1, <3>1 DEF Engine, AirOK, Status
  <2> HIDE DEF r
  <2>3. s \in Engine /\ AirOK(s) /\ s.status = "COLDSTART"
    BY <2>2 DEF Engine, AirOK
  <2> HIDE DEF s
  <2>4. NegociateMtu(s, 0).status = "COLDSTART"
    BY <2>3, NegociateMtuEffect
  <2>5. ca' = NegociateMtu(s, 0)
    BY <1>1 DEF ResetCasan, ResetMaster, ResetMtu, r, s
  <2> QED
    BY <2>4, <2>5, NothingOwed DEF Associated
<1>2. CASE UNCHANGED vars
  BY <1>2 DEF PaidInv, vars
<1>3. ASSUME NEW m \in Messages, NEW gap \in Gaps,
             curtime' = curtime + gap, Loop(m, curtime + gap)
      PROVE  PaidInv'
  <2>1. gap \in Nat /\ curtime \in Nat
    BY CasanAssumption DEF IInv, Time
  <2>2. curtime + gap \in Time /\ curtime <= curtime + gap
    BY <2>1 DEF Time
  <2> QED
    BY <1>3, <2>2, LoopPaid
<1> QED
  BY <1>1, <1>2, <1>3 DEF Next

\* However late and however irregularly loop() is called, and whatever it
\* receives, the Discovers which ask for a renewal are TIMER_RENEW_MIN apart on
\* average, from half time on.
THEOREM BudgetCorrect == Spec => []RenewalBudget
<1>1. IInv /\ PaidInv => RenewalBudget
  <2> SUFFICES ASSUME IInv, PaidInv, ca.status = "RENEW", lease.discovers # 0
               PROVE  (lease.discovers - 1) * TIMER_RENEW_MIN <=
                         curtime - (lease.start + (lease.ttl \div 2))
    BY DEF RenewalBudget
  <2>1. lease \in Lease /\ curtime \in Nat /\ lease.discovers \in Nat
    BY DEF IInv, GoodAt, Good, Associated, Time, Lease
  <2>2. Half(lease) + (lease.discovers - 1) * TIMER_RENEW_MIN <= curtime
    BY <2>1 DEF PaidInv, Paid
  <2> DEFINE x == (lease.discovers - 1) * TIMER_RENEW_MIN
  <2>3. x \in Int /\ Half(lease) \in Nat
    BY <2>1, HalfIsNat, TimerConstants
  <2> HIDE DEF x
  <2>4. x <= curtime - Half(lease)
    BY <2>1, <2>2, <2>3 DEF x
  <2> QED
    BY <2>4 DEF x, Half
<1> QED
  BY <1>1, InitIInv, NextIInv, InitPaid, NextPaid, PTL DEF Spec

----------------------------------------------------------------------------
(* The refinement.                                                          *)
(*                                                                          *)
(* The invariant supplies what the steps of Association need of the state   *)
(* they begin in; the lemmas below add what each C function sends and what  *)
(* it does to the deadline of a phase.                                      *)

\* What d has sent since c: only messages of type msg, to dest.
SendsOnly(d, c, msg, dest) ==
    \A f \in SentBy(d) : f \in SentBy(c) \/ (f.msg = msg /\ f.dest = dest)

Calls(d) == \E f \in SentBy(d) : f.msg = "Discover" /\ f.dest = NoMaster

----------------------------------------------------------------------------
(* What the C functions send.                                               *)

LEMMA SendMsgSent ==
    ASSUME NEW c \in Engine, NEW msg, NEW dest, NEW fits \in BOOLEAN
    PROVE  LET d == SendMsg(c, msg, dest, fits)
           IN  /\ SendsOnly(d, c, msg, dest)
               /\ c.encoded # "null" \/ fits =>
                    \E f \in SentBy(d) : f.msg = msg /\ f.dest = dest
<1> DEFINE frame(intact) == [msg |-> msg, dest |-> dest, intact |-> intact]
           new(intact) == Append(c.air, frame(intact))
<1>1. ASSUME NEW intact \in BOOLEAN, NEW d, d.air = new(intact)
      PROVE  /\ SendsOnly(d, c, msg, dest)
             /\ frame(intact) \in SentBy(d)
  <2>1. c.air \in Seq(Frame) /\ Len(c.air) \in Nat /\ DOMAIN c.air = 1..Len(c.air)
    BY DEF Engine
  <2>2. /\ DOMAIN new(intact) = 1..(Len(c.air) + 1)
        /\ \A i \in 1..Len(c.air) : new(intact)[i] = c.air[i]
        /\ new(intact)[Len(c.air) + 1] = frame(intact)
    BY <2>1
  <2> HIDE DEF new, frame
  <2>3. frame(intact) \in SentBy(d)
    <3>1. Len(c.air) + 1 \in DOMAIN d.air
      BY <1>1, <2>1, <2>2
    <3> QED
      BY <1>1, <2>2, <3>1 DEF SentBy
  <2>4. ASSUME NEW i \in DOMAIN d.air
        PROVE  d.air[i] \in SentBy(c) \/ d.air[i] = frame(intact)
    BY <1>1, <2>1, <2>2, <2>4 DEF SentBy
  <2>5. frame(intact).msg = msg /\ frame(intact).dest = dest
    BY DEF frame
  <2> QED
    BY <2>3, <2>4, <2>5 DEF SendsOnly, SentBy
<1>2. CASE c.encoded # "null"
  <2> DEFINE e == [c EXCEPT !.air = new(FALSE)]
  <2>1. SendMsg(c, msg, dest, fits) = e
    BY <1>2 DEF SendMsg
  <2>2. e.air = new(FALSE)
    BY DEF Engine
  <2> HIDE DEF new, e, frame
  <2>3. SendsOnly(e, c, msg, dest) /\ frame(FALSE) \in SentBy(e)
    BY <1>1, <2>2
  <2>4. frame(FALSE).msg = msg /\ frame(FALSE).dest = dest
    BY DEF frame
  <2> QED
    BY <1>2, <2>1, <2>3, <2>4
<1>3. CASE c.encoded = "null" /\ fits
  <2> DEFINE intact == c.payload # "freed"
             e == [c EXCEPT !.encoded = "live", !.air = new(intact)]
  <2>1. SendMsg(c, msg, dest, fits) = e
    BY <1>3 DEF SendMsg
  <2>2. e.air = new(intact)
    BY DEF Engine
  <2> HIDE DEF new, e, frame
  <2>3. SendsOnly(e, c, msg, dest) /\ frame(intact) \in SentBy(e)
    BY <1>1, <2>2
  <2>4. frame(intact).msg = msg /\ frame(intact).dest = dest
    BY DEF frame
  <2> QED
    BY <1>3, <2>1, <2>3, <2>4
<1>4. CASE c.encoded = "null" /\ ~fits
  BY <1>4 DEF SendMsg, SendsOnly
<1> QED
  BY <1>2, <1>3, <1>4

LEMMA SendDiscoverSent ==
    ASSUME NEW c \in Engine
    PROVE  /\ SendsOnly(SendDiscover(c), c, "Discover", c.master)
           /\ c.l2mtu = DefMtu =>
                \E f \in SentBy(SendDiscover(c)) : f.msg = "Discover" /\ f.dest = c.master
<1> DEFINE r == [ResetMsg(c) EXCEPT !.curid = (@ + 1) % ID_SPACE]
           fits == c.l2mtu >= DiscoverMtu
           d == SendMsg(r, "Discover", c.master, fits)
<1>1. (c.curid + 1) % ID_SPACE \in 0..(ID_SPACE - 1)
  BY CasanAssumption DEF Engine
<1>2. r \in Engine /\ r.air = c.air
  BY <1>1 DEF ResetMsg, Release, Engine, Pointer
<1>3. fits \in BOOLEAN /\ (c.l2mtu = DefMtu => fits)
  BY CasanAssumption, DefMtuType DEF Engine
<1>4. SendDiscover(c) = d
  BY DEF SendDiscover
<1> HIDE DEF r, fits
<1>5. SentBy(r) = SentBy(c)
  BY <1>2 DEF SentBy
<1>6. /\ SendsOnly(d, r, "Discover", c.master)
      /\ r.encoded # "null" \/ fits =>
           \E f \in SentBy(d) : f.msg = "Discover" /\ f.dest = c.master
  BY <1>2, <1>3, SendMsgSent
<1> HIDE DEF d
<1>7. SendsOnly(d, c, "Discover", c.master)
  BY <1>5, <1>6 DEF SendsOnly
<1> QED
  BY <1>3, <1>4, <1>6, <1>7, Zenon

\* GiveUp calls out to everybody.
LEMMA GiveUpSent ==
    ASSUME NEW c \in Engine, NEW now \in Time
    PROVE  LET d == GiveUp(c, now)
           IN  SendsOnly(d, c, "Discover", NoMaster) /\ Calls(d)
<1> DEFINE r == [c EXCEPT !.master = NoMaster, !.hlid = UnknownHlid]
           n == [r EXCEPT !.curmtu = DefMtu, !.l2mtu = DefMtu]
           s == SendDiscover(n)
           d == [s EXCEPT !.twait = InitTwait(now), !.status = "WAITING_UNKNOWN"]
<1>1. n \in Engine /\ n.air = c.air /\ n.master = NoMaster /\ n.l2mtu = DefMtu
  BY DefMtuType DEF Engine
<1>2. GiveUp(c, now) = d
  BY DEF GiveUp, ResetMaster, ResetMtu, NegociateMtu
<1> HIDE DEF n
<1>3. /\ SendsOnly(s, n, "Discover", NoMaster)
      /\ \E f \in SentBy(s) : f.msg = "Discover" /\ f.dest = NoMaster
  BY <1>1, SendDiscoverSent
<1>4. d.air = s.air
  OBVIOUS
<1> QED
  BY <1>1, <1>2, <1>3, <1>4 DEF SentBy, SendsOnly, Calls

\* The timer of a slave which is not associated: a Discover, or nothing.
LEMMA DiscoverIfDueSent ==
    ASSUME NEW c \in Engine, NEW now \in Time, c.twait \in Timer
    PROVE  LET d == DiscoverIfDue(c, now)
           IN  SendsOnly(d, c, "Discover", c.master) /\ d.twait.limit = c.twait.limit
<1> DEFINE a == [c EXCEPT !.twait = AdvanceTwait(@)]
<1>1. AdvanceTwait(c.twait) \in Timer /\ AdvanceTwait(c.twait).limit = c.twait.limit
  BY AdvanceTypes
<1>2. /\ a \in Engine /\ a.air = c.air /\ a.master = c.master
      /\ a.twait.limit = c.twait.limit
  BY <1>1 DEF Engine
<1>3. DiscoverIfDue(c, now) = IF Due(c.twait, now) THEN SendDiscover(a) ELSE c
  BY DEF DiscoverIfDue
<1> HIDE DEF a
<1>4. SendsOnly(SendDiscover(a), a, "Discover", c.master)
  BY <1>2, SendDiscoverSent
<1>5. SendDiscover(a).twait = a.twait
  BY <1>2 DEF SendDiscover, SendMsg, ResetMsg, Engine
<1> QED
  BY <1>2, <1>3, <1>4, <1>5 DEF SendsOnly, SentBy

LEMMA AdvanceRenewalSent ==
    ASSUME NEW c \in Engine, c.trenew \in Timer
    PROVE  SendsOnly(SendDiscover([c EXCEPT !.trenew = AdvanceTrenew(@)]), c,
                     "Discover", c.master)
<1> DEFINE a == [c EXCEPT !.trenew = AdvanceTrenew(@)]
<1>1. AdvanceTrenew(c.trenew) \in Timer
  BY AdvanceTypes
<1>2. a \in Engine /\ a.air = c.air /\ a.master = c.master
  BY <1>1 DEF Engine
<1> HIDE DEF a
<1>3. SendsOnly(SendDiscover(a), a, "Discover", c.master)
  BY <1>2, SendDiscoverSent
<1> QED
  BY <1>2, <1>3 DEF a, SendsOnly, SentBy

\* The end of loop(): Discovers to the master, or the call of a slave whose
\* association is over.
LEMMA KeepAssociationSent ==
    ASSUME NEW c, NEW now \in Time, Renewable(c), c.status \in Associated
    PROVE  LET d == KeepAssociation(c, now)
           IN  /\ \A f \in SentBy(d) :
                     \/ f \in SentBy(c)
                     \/ f.msg = "Discover" /\ f.dest \in {c.master, NoMaster}
               /\ d.status \in Associated => SendsOnly(d, c, "Discover", c.master)
               /\ d.status \notin Associated => Expired(c.trenew, now) /\ Calls(d)
<1> DEFINE c1 == StartRenewal(c, now)
           c2 == RepeatRenewal(c1, now)
           d == ExpireRenewal(c2, now)
<1>1. /\ Renewable(c1) /\ SameMaster2(c1, c) /\ c1.trenew.limit = c.trenew.limit
      /\ c1.status \in Associated
  BY StartRenewalEffect
<1>2. SendsOnly(c1, c, "Discover", c.master)
  <2> DEFINE s == SendDiscover([c EXCEPT !.trenew = AdvanceTrenew(@)])
  <2>1. SendsOnly(s, c, "Discover", c.master)
    BY AdvanceRenewalSent DEF Renewable
  <2>2. c1 = [s EXCEPT !.status = "RENEW"] \/ c1 = c
    BY DEF StartRenewal
  <2>3. [s EXCEPT !.status = "RENEW"].air = s.air
    OBVIOUS
  <2> HIDE DEF s, c1
  <2>4. CASE c1 = c
    BY <2>4 DEF SendsOnly
  <2>5. CASE c1 # c
    <3>1. c1.air = s.air
      BY <2>2, <2>3, <2>5
    <3> QED
      BY <2>1, <3>1 DEF SendsOnly, SentBy
  <2> QED
    BY <2>4, <2>5
<1> HIDE DEF c1
<1>3. /\ Renewable(c2) /\ SameMaster2(c2, c1) /\ c2.trenew.limit = c1.trenew.limit
      /\ c2.status = c1.status
  BY <1>1, RepeatRenewalEffect
<1>4. SendsOnly(c2, c1, "Discover", c1.master)
  <2> DEFINE s == SendDiscover([c1 EXCEPT !.trenew = AdvanceTrenew(@)])
  <2>1. SendsOnly(s, c1, "Discover", c1.master)
    BY <1>1, AdvanceRenewalSent DEF Renewable
  <2>2. c2 = s \/ c2 = c1
    BY DEF RepeatRenewal
  <2> HIDE DEF s, c2
  <2> QED
    BY <2>1, <2>2 DEF SendsOnly
<1> HIDE DEF c2
<1>5. SendsOnly(c2, c, "Discover", c.master)
  BY <1>1, <1>2, <1>4 DEF SendsOnly, SameMaster2
<1>6. KeepAssociation(c, now) = d
  BY DEF KeepAssociation, c1, c2
<1>7. CASE c2.status = "RENEW" /\ Expired(c2.trenew, now)
  <2>1. d = GiveUp(c2, now)
    BY <1>7 DEF ExpireRenewal
  <2>2. SendsOnly(d, c2, "Discover", NoMaster) /\ Calls(d)
    BY <1>3, <2>1, GiveUpSent DEF Renewable
  <2>3. d.status = "WAITING_UNKNOWN"
    BY <1>3, <2>1, GiveUpEffect DEF Renewable
  <2>4. Expired(c.trenew, now)
    BY <1>1, <1>3, <1>7 DEF Expired
  <2> QED
    BY <1>5, <1>6, <2>2, <2>3, <2>4 DEF SendsOnly, Associated
<1>8. CASE ~(c2.status = "RENEW" /\ Expired(c2.trenew, now))
  <2>1. d = c2
    BY <1>8 DEF ExpireRenewal
  <2> QED
    BY <1>1, <1>3, <1>5, <1>6, <2>1 DEF SendsOnly
<1> QED
  BY <1>7, <1>8

----------------------------------------------------------------------------
(* Each branch of loop() is a step of the abstract slave.                   *)

\* The engine a call of loop() begins with has sent nothing, and its message
\* objects are new.
LEMMA FreshStart ==
    ASSUME IInv
    PROVE  LET f == Fresh(ca)
           IN  /\ Good(f, lease) /\ SameButSent(f, ca) /\ f \in Engine /\ AirOK(f)
               /\ SentBy(f) = {} /\ f.encoded = "null"
<1>1. Good(Fresh(ca), lease) /\ Fresh(ca).air = <<>> /\ SameButSent(Fresh(ca), ca)
  BY FreshGood DEF IInv, GoodAt
<1>2. SentBy(Fresh(ca)) = {}
  BY <1>1 DEF SentBy
<1>3. Fresh(ca).encoded = "null"
  BY DEF IInv, GoodAt, Good, Fresh, Engine
<1> QED
  BY <1>1, <1>2, <1>3 DEF Good

LEMMA LaterStep ==
    ASSUME NEW now \in Time, now >= curtime, curtime' = now
    PROVE  Abstract!Later
BY DEF Abstract!Later, Time

\* COLDSTART and WAITING_UNKNOWN: the slave calls out.
LEMMA SeekStep ==
    ASSUME IInv, NEW m \in Messages, NEW now \in Time, now >= curtime, curtime' = now,
           ColdStart(now) \/ UnknownOther(m, now)
    PROVE  Abstract!Seek
<1> DEFINE f == Fresh(ca)
<1>1. /\ Good(f, lease) /\ SameButSent(f, ca) /\ f \in Engine /\ AirOK(f) /\ SentBy(f) = {}
  BY FreshStart
<1> HIDE DEF f
<1>2. ca.status \in {"COLDSTART", "WAITING_UNKNOWN"} /\ ca.master = NoMaster
  BY DEF ColdStart, UnknownOther, IInv, GoodAt, Good, Clean
<1>3. /\ ca'.status = "WAITING_UNKNOWN"
      /\ ca'.master = ca.master /\ ca'.hlid = ca.hlid
      /\ SendsOnly(ca', f, "Discover", NoMaster)
  <2>1. CASE ColdStart(now)
    <3> DEFINE s == SendDiscover(f)
               d == [s EXCEPT !.twait = InitTwait(now), !.status = "WAITING_UNKNOWN"]
    <3>1. s \in Engine /\ SameButSent(s, f) /\ SendsOnly(s, f, "Discover", f.master)
      BY <1>1, SendDiscoverEffect, SendDiscoverSent
    <3>2. ca' = d
      BY <2>1 DEF ColdStart, f
    <3> HIDE DEF s
    <3>3. /\ d.status = "WAITING_UNKNOWN" /\ d.air = s.air
          /\ d.master = s.master /\ d.hlid = s.hlid
      BY <3>1 DEF Engine
    <3> QED
      BY <1>1, <1>2, <3>1, <3>2, <3>3 DEF SameButSent, SendsOnly, SentBy
  <2>2. CASE UnknownOther(m, now)
    <3>1. ca' = DiscoverIfDue(f, now) /\ ca.status = "WAITING_UNKNOWN"
      BY <2>2 DEF UnknownOther, f
    <3>2. f.twait \in Timer
      BY <1>1, <3>1 DEF Good, SameButSent
    <3>3. SameMaster2(ca', f) /\ ca'.status = f.status
          /\ SendsOnly(ca', f, "Discover", f.master)
      BY <1>1, <3>1, <3>2, DiscoverIfDueEffect, DiscoverIfDueSent
    <3> QED
      BY <1>1, <1>2, <3>1, <3>3 DEF SameMaster2, SameButSent
  <2> QED
    BY <2>1, <2>2
<1>4. \A g \in SentBy(ca') : g.msg = "Discover" /\ g.dest = NoMaster
  BY <1>1, <1>3 DEF SendsOnly
<1>5. Abstract!Later
  BY LaterStep
<1>6. Phase(ca) = "seeking" /\ Deadline(ca) = 0
  BY <1>2 DEF Phase, Deadline, Associated
<1>7. Phase(ca)' = "seeking" /\ Deadline(ca)' = 0
  BY <1>3 DEF Phase, Deadline, Associated
<1> QED
  BY <1>3, <1>4, <1>5, <1>6, <1>7 DEF Abstract!Seek, Abstract!OnlyDiscovers

LEMMA HelloFields ==
    ASSUME NEW m \in Messages, m.type = "Hello"
    PROVE  m.src \in Masters /\ m.hlid \in HelloIds /\ m.src # NoMaster
               /\ m.hlid # UnknownHlid
<1>1. m.src \in Masters /\ m.hlid \in HelloIds
  BY MessageFields, Zenon
<1> QED
  BY <1>1, CasanAssumption, MastersAreNotNull DEF UnknownHlid

\* Whatever the master was before, change_master by a Hello leaves what it says.
LEMMA ChangeMasterByHello ==
    ASSUME NEW c \in Engine, NEW m \in Messages, m.type = "Hello"
    PROVE  LET d == ChangeMaster(c, m.src, m.hlid)
           IN  d.master = m.src /\ d.hlid = m.hlid /\ d.air = c.air
BY HelloFields DEF ChangeMaster, SameMaster, Engine

LEMMA MeetStep ==
    ASSUME IInv, NEW m \in Messages, NEW now \in Time, now >= curtime, curtime' = now,
           UnknownHello(m, now)
    PROVE  Abstract!Meet(m.src, m.hlid)
<1> DEFINE f == Fresh(ca)
           e == ChangeMaster(f, m.src, m.hlid)
           d == [e EXCEPT !.twait = InitTwait(now), !.status = "WAITING_KNOWN"]
<1>1. f \in Engine /\ AirOK(f) /\ SentBy(f) = {}
  BY FreshStart
<1>2. m.type = "Hello" /\ ca.status = "WAITING_UNKNOWN" /\ ca' = d
  BY DEF UnknownHello, MeetMaster
<1>3. m.src \in Masters /\ m.hlid \in HelloIds
  BY <1>2, HelloFields
<1> HIDE DEF f
<1>4. e \in Engine /\ e.master = m.src /\ e.hlid = m.hlid /\ e.air = f.air
  BY <1>1, <1>2, <1>3, ChangeMasterEffect, ChangeMasterByHello
<1>5. InitTwait(now).limit = now + TIMER_WAIT_MAX
  BY InitTwaitType
<1> HIDE DEF e
<1>6. /\ d.status = "WAITING_KNOWN" /\ d.master = m.src /\ d.hlid = m.hlid
      /\ d.air = f.air /\ d.twait.limit = now + TIMER_WAIT_MAX
  BY <1>4, <1>5 DEF Engine
<1> HIDE DEF d
<1>7. SentBy(d) = {}
  BY <1>1, <1>6 DEF SentBy
<1>8. Phase(ca) = "seeking"
  BY <1>2 DEF Phase, Associated
<1>9. Phase(ca)' = "waiting" /\ Deadline(ca)' = now + TIMER_WAIT_MAX
  BY <1>2, <1>6 DEF Phase, Deadline, Associated
<1>10. SentBy(ca)' = {} /\ ca'.master = m.src /\ ca'.hlid = m.hlid
  BY <1>2, <1>6, <1>7
<1>11. Abstract!Later
  BY LaterStep
<1> QED
  BY <1>8, <1>9, <1>10, <1>11 DEF Abstract!Meet

\* The timers of WAITING_KNOWN: the slave goes on waiting, or the time is over.
LEMMA WaitForMasterStep ==
    ASSUME IInv, ca.status = "WAITING_KNOWN",
           NEW now \in Time, now >= curtime, curtime' = now,
           NEW c \in Engine, AirOK(c), c.status = "WAITING_KNOWN", c.twait = ca.twait,
           SentBy(c) = {}, ca' = WaitForMaster(c, now),
           \/ c.master = ca.master /\ c.hlid = ca.hlid
           \/ c.master \in Masters /\ c.hlid \in HelloIds
    PROVE  Abstract!Wait \/ Abstract!Expire
<1>1. c.twait \in Timer
  BY DEF IInv, GoodAt, Good
<1>2. Phase(ca) = "waiting" /\ Deadline(ca) = c.twait.limit
  BY DEF Phase, Deadline, Associated
<1>3. Abstract!Later
  BY LaterStep
<1>4. CASE Expired(c.twait, now)
  <2>1. ca' = GiveUp(c, now)
    BY <1>4 DEF WaitForMaster
  <2>2. ca'.status = "WAITING_UNKNOWN" /\ Clean(ca')
    BY <2>1, GiveUpEffect
  <2>3. SendsOnly(ca', c, "Discover", NoMaster) /\ Calls(ca')
    BY <2>1, GiveUpSent
  <2>4. \A g \in SentBy(ca') : g.msg # "AssocAnswer"
    BY <2>3 DEF SendsOnly
  <2>5. Phase(ca)' = "seeking" /\ Deadline(ca)' = 0
    BY <2>2 DEF Phase, Deadline, Associated
  <2>6. ca'.master = NoMaster /\ ca'.hlid = UnknownHlid
    BY <2>2 DEF Clean
  <2>7. curtime' >= Deadline(ca)
    BY <1>2, <1>4 DEF Expired
  <2> QED
    BY <1>2, <1>3, <2>3, <2>4, <2>5, <2>6, <2>7
       DEF Abstract!Expire, Abstract!NoAssocAnswer, Abstract!Says, Calls
<1>5. CASE ~Expired(c.twait, now)
  <2>1. ca' = DiscoverIfDue(c, now)
    BY <1>5 DEF WaitForMaster
  <2>2. /\ SendsOnly(ca', c, "Discover", c.master) /\ ca'.twait.limit = c.twait.limit
        /\ SameMaster2(ca', c) /\ ca'.status = c.status
    BY <1>1, <2>1, DiscoverIfDueSent, DiscoverIfDueEffect
  <2>3. Phase(ca)' = "waiting" /\ Deadline(ca)' = c.twait.limit
    BY <2>2 DEF Phase, Deadline, Associated
  <2>4. \A g \in SentBy(ca') : g.msg = "Discover" /\ g.dest = ca'.master
    BY <2>2 DEF SendsOnly, SameMaster2
  <2>5. curtime' < Deadline(ca)
    BY <1>1, <1>2, <1>5 DEF Expired, Timer, Time
  <2>6. UNCHANGED <<ca.master, ca.hlid>> \/ (ca'.master \in Masters /\ ca'.hlid \in HelloIds)
    BY <2>2 DEF SameMaster2
  <2> QED
    BY <1>2, <1>3, <2>3, <2>4, <2>5, <2>6 DEF Abstract!Wait, Abstract!OnlyDiscovers
<1> QED
  BY <1>4, <1>5

LEMMA KnownStep ==
    ASSUME IInv, NEW m \in Messages, NEW now \in Time, now >= curtime, curtime' = now,
           KnownHello(m, now) \/ KnownOther(m, now)
    PROVE  Abstract!Wait \/ Abstract!Expire
<1> DEFINE f == Fresh(ca)
           e == ChangeMaster(f, m.src, m.hlid)
<1>1. /\ SameButSent(f, ca) /\ f \in Engine /\ AirOK(f) /\ SentBy(f) = {}
  BY FreshStart
<1>2. ca.status = "WAITING_KNOWN"
  BY DEF KnownHello, KnownOther
<1>3. CASE KnownOther(m, now)
  <2>1. ca' = WaitForMaster(f, now)
    BY <1>3 DEF KnownOther
  <2> HIDE DEF f
  <2> QED
    BY <1>1, <1>2, <2>1, WaitForMasterStep DEF SameButSent
<1>4. CASE KnownHello(m, now)
  <2>1. m.type = "Hello" /\ ca' = WaitForMaster(e, now)
    BY <1>4 DEF KnownHello
  <2>2. m.src \in Masters /\ m.hlid \in HelloIds
    BY <2>1, HelloFields
  <2> HIDE DEF f
  <2>3. /\ e \in Engine /\ AirOK(e) /\ e.master = m.src /\ e.hlid = m.hlid /\ e.air = f.air
        /\ e.status = f.status /\ e.twait = f.twait
    BY <1>1, <2>1, <2>2, ChangeMasterEffect, ChangeMasterByHello
  <2> HIDE DEF e
  <2>4. SentBy(e) = {}
    BY <1>1, <2>3 DEF SentBy
  <2> QED
    BY <1>1, <1>2, <2>1, <2>2, <2>3, <2>4, WaitForMasterStep DEF SameButSent
<1> QED
  BY <1>3, <1>4

\* What Associate and Renew have in common.
Answered(c, m, now) ==
    [SendAssocAnswer(NegociateMtu(c, m.mtu), m.src)
        EXCEPT !.trenew = InitTrenew(now, m.ttl), !.status = "RUNNING"]

\* The answer to an Assoc goes out whole, since its message is new, and the
\* association ends a TTL later.
LEMMA AssocAnswered ==
    ASSUME NEW c \in Engine, AirOK(c), c.master # NoMaster, c.encoded = "null",
           NEW now \in Time, NEW m \in Messages, m.type = "Assoc"
    PROVE  LET a == Answered(c, m, now)
           IN  /\ a.master = c.master /\ a.hlid = c.hlid /\ a.status = "RUNNING"
               /\ a.trenew.limit = now + m.ttl
               /\ \E g \in SentBy(a) : g.msg = "AssocAnswer" /\ g.dest = m.src /\ g.intact
<1> DEFINE n == NegociateMtu(c, m.mtu)
           p == [n EXCEPT !.payload = "live"]
           s == SendMsg(p, "AssocAnswer", m.src, TRUE)
           t == InitTrenew(now, m.ttl)
           d == [s EXCEPT !.trenew = t, !.status = "RUNNING"]
<1>1. m.src \in Masters /\ m.ttl \in Ttls /\ m.mtu \in Mtus
  BY MessageFields, Zenon
<1>2. m.mtu \in Nat /\ m.ttl \in Nat /\ m.src # NoMaster
  BY <1>1, CasanAssumption
<1>3. /\ n \in Engine /\ AirOK(n) /\ n.master = c.master /\ n.hlid = c.hlid
      /\ n.encoded = "null"
  <2>1. n.encoded = "null"
    BY DEF NegociateMtu, Engine
  <2> QED
    BY <1>2, <2>1, NegociateMtuEffect
<1> HIDE DEF n
<1>4. /\ p \in Engine /\ p.encoded = "null" /\ p.payload = "live"
  BY <1>3 DEF Engine, Pointer
<1> HIDE DEF p
<1>5. \E g \in SentBy(s) : g.msg = "AssocAnswer" /\ g.dest = m.src /\ g.intact
  <2> DEFINE frame == [msg |-> "AssocAnswer", dest |-> m.src, intact |-> TRUE]
             after == Append(p.air, frame)
  <2>1. p.air \in Seq(Frame) /\ Len(p.air) \in Nat
    BY <1>4 DEF Engine
  <2>2. Len(p.air) + 1 \in DOMAIN after /\ after[Len(p.air) + 1] = frame
    BY <2>1
  <2>3. frame.msg = "AssocAnswer" /\ frame.dest = m.src /\ frame.intact
    OBVIOUS
  <2>4. s.air = after
    BY <1>4 DEF SendMsg, Engine
  <2> HIDE DEF after, frame, s
  <2>5. frame \in SentBy(s)
    BY <2>2, <2>4 DEF SentBy
  <2> QED
    BY <2>3, <2>5, Zenon
<1> HIDE DEF s
<1>6. s = SendAssocAnswer(n, m.src)
  BY DEF s, p, SendAssocAnswer
<1>7. s \in Engine /\ SameButSent(s, n)
  BY <1>1, <1>3, <1>6, AnswersEffect
<1>8. t.limit = now + m.ttl
  BY <1>2, InitTrenewType DEF Time
<1> HIDE DEF t
<1>9. /\ d.master = s.master /\ d.hlid = s.hlid /\ d.status = "RUNNING"
      /\ d.trenew = t /\ d.air = s.air
  BY <1>7 DEF Engine
<1>10. d = Answered(c, m, now)
  BY <1>6 DEF Answered, n, t
<1> HIDE DEF d
<1>11. SentBy(d) = SentBy(s)
  BY <1>9 DEF SentBy
<1> QED
  BY <1>3, <1>5, <1>7, <1>8, <1>9, <1>10, <1>11 DEF SameButSent

LEMMA AcceptStep ==
    ASSUME IInv, NEW m \in Messages, NEW now \in Time, now >= curtime, curtime' = now,
           UnknownAssoc(m, now) \/ KnownAssoc(m, now) \/ AssociatedAssoc(m, now)
    PROVE  Abstract!Accept(m.src, m.ttl)
<1> DEFINE f == Fresh(ca)
           e == ChangeMaster(f, m.src, UnknownHlid)
<1>1. /\ Good(f, lease) /\ SameButSent(f, ca) /\ f \in Engine /\ AirOK(f)
      /\ f.encoded = "null"
  BY FreshStart
<1>2. m.type = "Assoc"
  BY DEF UnknownAssoc, KnownAssoc, AssociatedAssoc
<1>3. m.src \in Masters /\ m.src # NoMaster
  <2>1. m.src \in Masters
    BY <1>2, MessageFields, Zenon
  <2> QED
    BY <2>1, MastersAreNotNull
<1>4. /\ ca'.master = m.src /\ ca'.status = "RUNNING"
      /\ ca'.hlid = IF m.src = ca.master THEN ca.hlid ELSE UnknownHlid
      /\ ca'.trenew.limit = now + m.ttl
      /\ \E g \in SentBy(ca') : g.msg = "AssocAnswer" /\ g.dest = m.src /\ g.intact
      /\ ca.status \in Associated => m.src = ca.master
  <2>1. CASE UnknownAssoc(m, now) \/ KnownAssoc(m, now)
    <3>1. ca' = Associate(f, m, now) /\ ca.status \notin Associated
      BY <2>1 DEF UnknownAssoc, KnownAssoc, Associated
    <3>2. Associate(f, m, now) = Answered(e, m, now)
      BY DEF Associate, Answered
    <3> HIDE DEF f
    <3>3. e \in Engine /\ AirOK(e) /\ e.master = m.src
      BY <1>1, <1>3, ChangeMasterEffect
    <3>4. /\ e.encoded = "null"
          /\ e.hlid = IF m.src = ca.master THEN ca.hlid ELSE UnknownHlid
      BY <1>1, <1>3 DEF ChangeMaster, SameMaster, SameButSent, Engine
    <3> HIDE DEF e
    <3> QED
      BY <1>2, <1>3, <3>1, <3>2, <3>3, <3>4, AssocAnswered
  <2>2. CASE AssociatedAssoc(m, now)
    <3> DEFINE r == Renew(f, m, now)
    <3>1. /\ ca' = KeepAssociation(r, now) /\ m.src = ca.master
          /\ ca.status \in Associated /\ SameMaster(f, m.src)
      BY <1>1, <2>2 DEF AssociatedAssoc, SameMaster, SameButSent
    <3>2. r = Answered(f, m, now)
      BY DEF Renew, Answered
    <3>3. f.status # "COLDSTART"
      BY <1>1, <3>1 DEF SameButSent, Associated
    <3> HIDE DEF f
    <3>4. GoodAt(r, Granted(m, now), now)
      BY <1>1, <1>2, <3>1, <3>3, AssociateGood
    <3>5. /\ r.master = f.master /\ r.hlid = f.hlid /\ r.status = "RUNNING"
          /\ r.trenew.limit = now + m.ttl
          /\ \E g \in SentBy(r) : g.msg = "AssocAnswer" /\ g.dest = m.src /\ g.intact
      BY <1>1, <1>2, <1>3, <3>1, <3>2, AssocAnswered DEF SameMaster
    <3> HIDE DEF r
    <3>6. KeepAssociation(r, now) = r
      BY <3>4, <3>5 DEF GoodAt, KeepAssociation, StartRenewal, RepeatRenewal, ExpireRenewal
    <3> QED
      BY <1>1, <3>1, <3>5, <3>6 DEF SameButSent
  <2> QED
    BY <2>1, <2>2
<1>5. Phase(ca) = "associated" => m.src = ca.master
  BY <1>4 DEF Phase
<1>6. Phase(ca)' = "associated" /\ Deadline(ca)' = now + m.ttl
  BY <1>4 DEF Phase, Deadline, Associated
<1>7. Abstract!Later
  BY LaterStep
<1> QED
  BY <1>4, <1>5, <1>6, <1>7 DEF Abstract!Accept

\* The timers of RUNNING and RENEW: the association goes on, or is over.
LEMMA KeepAssociationStep ==
    ASSUME IInv, ca.status \in Associated,
           NEW now \in Time, now >= curtime, curtime' = now,
           NEW c, Good(c, lease), c.status \in Associated, c.trenew = ca.trenew,
           \A g \in SentBy(c) : g.msg = "Response" /\ g.dest = c.master,
           ca' = KeepAssociation(c, now),
           \/ c.master = ca.master /\ c.hlid = ca.hlid
           \/ ca.hlid = UnknownHlid /\ c.master \in Masters /\ c.hlid \in HelloIds
    PROVE  Abstract!Serve \/ Abstract!Expire
<1>1. Renewable(c)
  BY DEF Good, Renewable
<1>2. Phase(ca) = "associated" /\ Deadline(ca) = c.trenew.limit
  BY DEF Phase, Deadline, Associated
<1>3. Abstract!Later
  BY LaterStep
<1>4. \/ ca'.status = "WAITING_UNKNOWN" /\ Clean(ca')
      \/ /\ SameMaster2(ca', c) /\ ca'.status \in Associated
         /\ ca'.trenew.limit = c.trenew.limit
         /\ ca'.status = "RUNNING" => ca' = c /\ ~Due(ca'.trenew, now)
         /\ ca'.status = "RENEW" => ~Expired(ca'.trenew, now)
  BY <1>1, KeepAssociationEffect
<1>5. /\ \A g \in SentBy(ca') :
            \/ g \in SentBy(c)
            \/ g.msg = "Discover" /\ g.dest \in {c.master, NoMaster}
      /\ ca'.status \in Associated => SendsOnly(ca', c, "Discover", c.master)
      /\ ca'.status \notin Associated => Expired(c.trenew, now) /\ Calls(ca')
  BY <1>1, KeepAssociationSent
<1>6. \A g \in SentBy(ca') : g.msg # "AssocAnswer"
  BY <1>5
<1>7. CASE ca'.status = "WAITING_UNKNOWN" /\ Clean(ca')
  <2>1. Phase(ca)' = "seeking" /\ Deadline(ca)' = 0
    BY <1>7 DEF Phase, Deadline, Associated
  <2>2. ca'.master = NoMaster /\ ca'.hlid = UnknownHlid
    BY <1>7 DEF Clean
  <2>3. curtime' >= Deadline(ca) /\ Calls(ca')
    BY <1>2, <1>5, <1>7 DEF Expired, Associated
  <2> QED
    BY <1>2, <1>3, <1>6, <2>1, <2>2, <2>3
       DEF Abstract!Expire, Abstract!NoAssocAnswer, Abstract!Says, Calls
<1>8. CASE ~(ca'.status = "WAITING_UNKNOWN" /\ Clean(ca'))
  <2>1. Phase(ca)' = "associated" /\ Deadline(ca)' = c.trenew.limit
    BY <1>4, <1>8 DEF Phase, Deadline, Associated
  <2>2. \A g \in SentBy(ca') : g.dest = ca'.master
    BY <1>4, <1>5, <1>8 DEF SendsOnly, SameMaster2
  <2>3. curtime' < Deadline(ca)
    <3>1. lease \in Lease /\ c.trenew \in Timer /\ c.trenew.limit = lease.start + lease.ttl
      BY DEF Good
    <3>2. lease.start \in Nat /\ lease.ttl \in Nat /\ lease.ttl >= 2
      <4>1. lease.start \in Nat /\ lease.ttl \in Ttls
        BY <3>1 DEF Lease, Time
      <4>2. \A n \in Ttls : n \in Nat /\ n >= 2
        BY CasanAssumption
      <4> QED
        BY <4>1, <4>2
    <3>3. CASE ca'.status = "RUNNING"
      <4>1. c.trenew.next = lease.start + (lease.ttl \div 2) /\ ~Due(c.trenew, now)
        BY <1>4, <1>8, <3>3 DEF Good, Associated
      <4>2. now < c.trenew.next
        BY <3>1, <3>2, <4>1 DEF Due, Time
      <4>3. now < c.trenew.limit
        BY <3>1, <3>2, <4>1, <4>2 DEF Time
      <4> QED
        BY <1>2, <4>3
    <3>4. CASE ca'.status = "RENEW"
      <4>1. ~Expired(ca'.trenew, now) /\ ca'.trenew.limit = c.trenew.limit
        BY <1>4, <1>8, <3>4
      <4> QED
        BY <1>2, <3>1, <3>2, <4>1 DEF Expired, Time
    <3> QED
      BY <1>4, <1>8, <3>3, <3>4 DEF Associated
  <2>4. \/ UNCHANGED <<ca.master, ca.hlid>>
        \/ ca.hlid = UnknownHlid /\ ca'.master \in Masters /\ ca'.hlid \in HelloIds
    BY <1>4, <1>8 DEF SameMaster2
  <2> QED
    BY <1>2, <1>3, <1>6, <2>1, <2>2, <2>3, <2>4
       DEF Abstract!Serve, Abstract!NoAssocAnswer
<1> QED
  BY <1>7, <1>8

LEMMA ServeStep ==
    ASSUME IInv, NEW m \in Messages, NEW now \in Time, now >= curtime, curtime' = now,
           AssociatedRequest(m, now) \/ AssociatedOther(m, now)
    PROVE  Abstract!Serve \/ Abstract!Expire
<1> DEFINE f == Fresh(ca)
           a == AnswerRequest(f, m.answer)
<1>1. /\ Good(f, lease) /\ SameButSent(f, ca) /\ f \in Engine /\ AirOK(f) /\ SentBy(f) = {}
  BY FreshStart
<1>2. ca.status \in Associated
  BY DEF AssociatedRequest, AssociatedOther
<1> HIDE DEF f
<1>3. CASE AssociatedOther(m, now)
  <2>1. ca' = KeepAssociation(f, now)
    BY <1>3 DEF AssociatedOther, f
  <2> QED
    BY <1>1, <1>2, <2>1, KeepAssociationStep DEF SameButSent
<1>4. CASE AssociatedRequest(m, now)
  <2>1. ca' = KeepAssociation(a, now)
    BY <1>4 DEF AssociatedRequest, f
  <2>2. Good(a, lease)
    BY <1>1, <1>2, AnswerRequestGood DEF SameButSent
  <2>3. SameButSent(a, f)
    <3>1. f.master \in Masters /\ f.master # NoMaster
      BY <1>1, <1>2 DEF Good, Engine, SameButSent, Associated
    <3> QED
      BY <1>1, <3>1, AnswersEffect
  <2>4. \A g \in SentBy(a) : g.msg = "Response" /\ g.dest = f.master
    <3> DEFINE q == IF m.answer = "NoPayload" THEN f ELSE [f EXCEPT !.payload = "live"]
               fits == m.answer # "TooLarge"
    <3>1. q \in Engine /\ q.air = f.air /\ fits \in BOOLEAN
      BY <1>1 DEF Engine, Pointer
    <3>2. a = SendMsg(q, "Response", f.master, fits)
      BY DEF AnswerRequest
    <3> HIDE DEF q, fits, a
    <3>3. SendsOnly(a, q, "Response", f.master)
      BY <3>1, <3>2, SendMsgSent
    <3>4. SentBy(q) = {}
      BY <1>1, <3>1 DEF SentBy
    <3> QED
      BY <3>3, <3>4 DEF SendsOnly
  <2> HIDE DEF a
  <2> QED
    BY <1>1, <1>2, <2>1, <2>2, <2>3, <2>4, KeepAssociationStep DEF SameButSent
<1> QED
  BY <1>3, <1>4

\* A Hello during an association: nothing, a first Hello, or news.
LEMMA HelloStep ==
    ASSUME IInv, NEW m \in Messages, NEW now \in Time, now >= curtime, curtime' = now,
           AssociatedHello(m, now)
    PROVE  Abstract!Serve \/ Abstract!Expire \/ Abstract!Interrupt(m.src, m.hlid)
<1> DEFINE f == Fresh(ca)
           e == ChangeMaster(f, m.src, m.hlid)
           n == NegociateMtu(e, 0)
           d == [n EXCEPT !.twait = InitTwait(now), !.status = "WAITING_KNOWN"]
           h == HelloWhileAssociated(f, m, now)
<1>1. /\ Good(f, lease) /\ SameButSent(f, ca) /\ f \in Engine /\ AirOK(f) /\ SentBy(f) = {}
  BY FreshStart
<1>2. /\ ca.status \in Associated /\ m.type = "Hello"
      /\ ca' = KeepAssociation(h, now)
  BY DEF AssociatedHello
<1>3. h = IF SameMaster(f, m.src) /\ m.hlid = f.hlid THEN f
          ELSE IF f.hlid = UnknownHlid THEN n ELSE d
  BY DEF HelloWhileAssociated
<1> HIDE DEF f, h
<1>4. Good(h, lease)
  BY <1>1, <1>2, HelloAssociatedGood DEF SameButSent, h
<1>5. /\ m.src \in Masters /\ m.hlid \in HelloIds
  BY <1>2, HelloFields
<1>6. /\ e \in Engine /\ AirOK(e) /\ e.master = m.src /\ e.hlid = m.hlid /\ e.air = f.air
      /\ e.status = f.status /\ e.trenew = f.trenew
  BY <1>1, <1>2, <1>5, ChangeMasterEffect, ChangeMasterByHello
<1> HIDE DEF e
<1>7. /\ n \in Engine /\ n.master = m.src /\ n.hlid = m.hlid /\ n.air = f.air
      /\ n.status = f.status /\ n.trenew = f.trenew
  <2>1. n.air = e.air
    BY <1>6 DEF NegociateMtu, Engine
  <2> QED
    BY <1>6, <2>1, NegociateMtuEffect
<1> HIDE DEF n
<1>8. CASE SameMaster(f, m.src) /\ m.hlid = f.hlid
  BY <1>1, <1>2, <1>3, <1>8, KeepAssociationStep DEF SameButSent
<1>9. CASE ~(SameMaster(f, m.src) /\ m.hlid = f.hlid) /\ f.hlid = UnknownHlid
  <2>1. h = n /\ SentBy(n) = {}
    BY <1>1, <1>3, <1>7, <1>9 DEF SentBy
  <2> QED
    BY <1>1, <1>2, <1>4, <1>5, <1>7, <1>9, <2>1, KeepAssociationStep DEF SameButSent
<1>10. CASE ~(SameMaster(f, m.src) /\ m.hlid = f.hlid) /\ f.hlid # UnknownHlid
  <2>1. h = d
    BY <1>3, <1>10
  <2>2. InitTwait(now).limit = now + TIMER_WAIT_MAX
    BY InitTwaitType
  <2>3. /\ d.status = "WAITING_KNOWN" /\ d.master = m.src /\ d.hlid = m.hlid
        /\ d.air = f.air /\ d.twait.limit = now + TIMER_WAIT_MAX
    BY <1>7, <2>2 DEF Engine
  <2> HIDE DEF d
  <2>4. ca' = d
    BY <1>2, <2>1, <2>3
       DEF KeepAssociation, StartRenewal, RepeatRenewal, ExpireRenewal
  <2>5. SentBy(d) = {}
    BY <1>1, <2>3 DEF SentBy
  <2>6. ca.hlid # UnknownHlid /\ <<m.src, m.hlid>> # <<ca.master, ca.hlid>>
    <3>1. f.master # NoMaster
      BY <1>1, <1>2 DEF Good, SameButSent, Associated
    <3> QED
      BY <1>1, <1>10, <3>1 DEF SameMaster, SameButSent
  <2>7. Phase(ca) = "associated"
    BY <1>2 DEF Phase, Associated
  <2>8. Phase(ca)' = "waiting" /\ Deadline(ca)' = now + TIMER_WAIT_MAX
    BY <2>3, <2>4 DEF Phase, Deadline, Associated
  <2>9. SentBy(ca)' = {} /\ ca'.master = m.src /\ ca'.hlid = m.hlid
    BY <2>3, <2>4, <2>5
  <2>10. Abstract!Later
    BY LaterStep
  <2> QED
    BY <2>6, <2>7, <2>8, <2>9, <2>10 DEF Abstract!Interrupt
<1> QED
  BY <1>8, <1>9, <1>10

----------------------------------------------------------------------------
(* The theorem.                                                             *)

LEMMA InitStep ==
    ASSUME Init
    PROVE  Abstract!Init
<1>1. SentBy(ca) = {}
  BY DEF Init, SentBy
<1>2. Phase(ca) = "seeking" /\ Deadline(ca) = 0
  BY DEF Init, Phase, Deadline, Associated
<1> QED
  BY <1>1, <1>2 DEF Init, Abstract!Init

LEMMA ResetStep ==
    ASSUME IInv, ResetCasan
    PROVE  Abstract!Reset
<1> DEFINE f == [Fresh(ca) EXCEPT !.status = "COLDSTART", !.curid = 1 % ID_SPACE]
           r == ResetMaster(f)
<1>1. ca \in Engine
  BY DEF IInv, GoodAt, Good
<1>2. f.status = "COLDSTART" /\ f.air = <<>>
  BY <1>1 DEF Fresh, Engine
<1>3. /\ r.status = f.status /\ r.air = f.air
      /\ r.master = NoMaster /\ r.hlid = UnknownHlid
  BY <1>1 DEF ResetMaster, ResetMtu, NegociateMtu, Fresh, Engine
<1>4. ca' = r /\ curtime' = curtime
  BY DEF ResetCasan
<1> HIDE DEF f, r
<1>5. /\ ca'.status = "COLDSTART" /\ ca'.air = <<>>
      /\ ca'.master = NoMaster /\ ca'.hlid = UnknownHlid
  BY <1>2, <1>3, <1>4
<1>6. SentBy(ca') = {}
  BY <1>5 DEF SentBy
<1>7. Phase(ca)' = "seeking" /\ Deadline(ca)' = 0
  BY <1>5 DEF Phase, Deadline, Associated
<1> QED
  BY <1>4, <1>5, <1>6, <1>7 DEF Abstract!Reset

LEMMA NextStep ==
    ASSUME IInv, [Next]_vars
    PROVE  [Abstract!Next]_(Abstract!vars)
<1>1. CASE UNCHANGED vars
  <2>1. curtime' = curtime /\ ca' = ca
    BY <1>1 DEF vars
  <2> QED
    BY <2>1 DEF Abstract!vars, Phase, Deadline, SentBy
<1>2. CASE ResetCasan
  BY <1>2, ResetStep DEF Abstract!Next
<1>3. ASSUME NEW m \in Messages, NEW gap \in Gaps,
             curtime' = curtime + gap, Loop(m, curtime + gap)
      PROVE  Abstract!Next
  <2> DEFINE now == curtime + gap
  <2>1. now \in Time /\ now >= curtime /\ curtime' = now
    BY <1>3, CasanAssumption DEF IInv, Time
  <2>2. Loop(m, now)
    BY <1>3
  <2> HIDE DEF now
  <2>3. CASE ColdStart(now) \/ UnknownOther(m, now)
    BY <2>1, <2>3, SeekStep DEF Abstract!Next
  <2>4. CASE UnknownHello(m, now)
    <3>1. m.src \in Masters /\ m.hlid \in HelloIds
      BY <2>4, HelloFields DEF UnknownHello
    <3> QED
      BY <2>1, <2>4, <3>1, MeetStep DEF Abstract!Next
  <2>5. CASE KnownHello(m, now) \/ KnownOther(m, now)
    BY <2>1, <2>5, KnownStep DEF Abstract!Next
  <2>6. CASE UnknownAssoc(m, now) \/ KnownAssoc(m, now) \/ AssociatedAssoc(m, now)
    <3>1. m.src \in Masters /\ m.ttl \in Ttls
      <4>1. m.type = "Assoc"
        BY <2>6 DEF UnknownAssoc, KnownAssoc, AssociatedAssoc
      <4> QED
        BY <4>1 DEF Messages
    <3> QED
      BY <2>1, <2>6, <3>1, AcceptStep DEF Abstract!Next
  <2>7. CASE AssociatedRequest(m, now) \/ AssociatedOther(m, now)
    BY <2>1, <2>7, ServeStep DEF Abstract!Next
  <2>8. CASE AssociatedHello(m, now)
    <3>1. m.src \in Masters /\ m.hlid \in HelloIds
      BY <2>8, HelloFields DEF AssociatedHello
    <3> QED
      BY <2>1, <2>8, <3>1, HelloStep DEF Abstract!Next
  <2> QED
    BY <2>2, <2>3, <2>4, <2>5, <2>6, <2>7, <2>8 DEF Loop
<1> QED
  BY <1>1, <1>2, <1>3 DEF Next

\* Whatever the masters send and however late loop() is called, the engine is a
\* slave of module Association: every call of loop() is one abstract step.
THEOREM EngineImplementsSlave == Spec => ImplementsAssociation
<1>1. Init => Abstract!Init
  BY InitStep
<1>2. IInv /\ [Next]_vars => [Abstract!Next]_(Abstract!vars)
  BY NextStep
<1> QED
  BY <1>1, <1>2, InvariantHolds, PTL DEF Spec, ImplementsAssociation, Abstract!Spec

----------------------------------------------------------------------------
(* On a network (module CasanNet), where times are relative to the present   *)
(* one: as long as nothing goes wrong, the association lasts.                *)

\* loop() is called at least once in the second half of an association.
Prompt == \A gap \in Gaps, ttl \in Ttls : gap <= ttl - (ttl \div 2)

\* No master asks for messages smaller than a Discover.
DiscoversFit == \A mtu \in Mtus : DiscoverMtu <= mtu

EngineFields == {"status", "master", "hlid", "curmtu", "l2mtu", "curid", "twait",
                 "trenew", "encoded", "payload", "air"}
IsEngine(c) == c = [f \in EngineFields |-> c[f]]
IsTimer(t) == t = [f \in {"next", "inc", "limit"} |-> t[f]]

AssocMessages == [type: {"Assoc"}, src: Masters, ttl: Ttls, mtu: Mtus]
IsPacket(p) ==
    /\ p = [msg |-> p.msg, inc |-> p.inc, age |-> p.age]
    /\ p.msg \in AssocMessages /\ p.age \in Nat

\* The renewal of an association which is RUNNING: it will begin in a call of
\* loop() before the end, with a Discover that is sent.
Ahead(c) ==
    /\ IsTimer(c.trenew) /\ c.trenew.next \in Int /\ c.trenew.limit \in Int
    /\ \A gap \in Gaps : gap <= c.trenew.limit - c.trenew.next
    /\ c.trenew.next <= c.trenew.limit
    /\ IF called THEN 0 < c.trenew.next ELSE 0 < c.trenew.limit
    /\ c.l2mtu \in Nat /\ DiscoverMtu <= c.l2mtu

\* An association which is renewed: a master is asked, or has answered, and an
\* answer is there when loop() is called next.
Asked ==
    IF called THEN ca.master \in discovers \/ \E p \in assocs : p.age = 0
    ELSE assocs # {}

CalmInv ==
    /\ IsEngine(ca) /\ \A p \in assocs : IsPacket(p)
    /\ calm => /\ ca.status \in Associated
               /\ ca.status = "RUNNING" => Ahead(ca)
               /\ ca.status = "RENEW" => Asked

\* Operators that keep the fields of an engine record.
LEMMA SendKeepsEngine ==
    ASSUME NEW c, IsEngine(c), NEW msg, NEW dest, NEW fits
    PROVE  LET d == SendMsg(c, msg, dest, fits)
           IN  /\ IsEngine(d) /\ d.status = c.status /\ d.l2mtu = c.l2mtu
               /\ d.trenew = c.trenew /\ d.twait = c.twait /\ d.master = c.master
BY DEF SendMsg, IsEngine, EngineFields

LEMMA SendDiscoverKeepsEngine ==
    ASSUME NEW c, IsEngine(c)
    PROVE  LET d == SendDiscover(c)
           IN  /\ IsEngine(d) /\ d.status = c.status /\ d.l2mtu = c.l2mtu
               /\ d.trenew = c.trenew /\ d.twait = c.twait /\ d.master = c.master
<1> DEFINE r == [ResetMsg(c) EXCEPT !.curid = (@ + 1) % ID_SPACE]
<1>1. /\ IsEngine(r) /\ r.status = c.status /\ r.l2mtu = c.l2mtu
      /\ r.trenew = c.trenew /\ r.twait = c.twait /\ r.master = c.master
  BY DEF ResetMsg, IsEngine, EngineFields
<1>2. SendDiscover(c) = SendMsg(r, "Discover", c.master, c.l2mtu >= DiscoverMtu)
  BY Zenon DEF SendDiscover
<1> HIDE DEF r
<1> QED
  BY <1>1, <1>2, SendKeepsEngine

LEMMA MasterKeepsEngine ==
    ASSUME NEW c, IsEngine(c), NEW mtu, NEW src, NEW hlid
    PROVE  /\ IsEngine(NegociateMtu(c, mtu)) /\ IsEngine(ResetMaster(c))
           /\ IsEngine(ChangeMaster(c, src, hlid)) /\ IsEngine(Fresh(c))
           /\ Fresh(c).status = c.status /\ Fresh(c).master = c.master
           /\ Fresh(c).trenew = c.trenew /\ Fresh(c).l2mtu = c.l2mtu
           /\ Fresh(c).encoded = "null" /\ Fresh(c).payload = "null" /\ Fresh(c).air = <<>>
<1>1. ASSUME NEW e, IsEngine(e), NEW m PROVE IsEngine(NegociateMtu(e, m))
  BY <1>1 DEF NegociateMtu, IsEngine, EngineFields
<1>2. IsEngine([c EXCEPT !.master = NoMaster, !.hlid = UnknownHlid])
  BY DEF IsEngine, EngineFields
<1>3. IsEngine(ResetMaster(c))
  BY <1>1, <1>2 DEF ResetMaster, ResetMtu
<1>4. IsEngine(ChangeMaster(c, src, hlid))
  BY DEF ChangeMaster, IsEngine, EngineFields
<1>5. /\ IsEngine(Fresh(c))
      /\ Fresh(c).status = c.status /\ Fresh(c).master = c.master
      /\ Fresh(c).trenew = c.trenew /\ Fresh(c).l2mtu = c.l2mtu
      /\ Fresh(c).encoded = "null" /\ Fresh(c).payload = "null" /\ Fresh(c).air = <<>>
  BY DEF Fresh, IsEngine, EngineFields
<1> QED
  BY <1>1, <1>3, <1>4, <1>5

LEMMA WaitingKeepsEngine ==
    ASSUME NEW c, IsEngine(c), NEW now
    PROVE  /\ IsEngine(GiveUp(c, now)) /\ IsEngine(DiscoverIfDue(c, now))
           /\ IsEngine(WaitForMaster(c, now))
<1>1. IsEngine(GiveUp(c, now))
  <2> DEFINE s == SendDiscover(ResetMaster(c))
  <2>1. IsEngine(s)
    BY MasterKeepsEngine, SendDiscoverKeepsEngine
  <2>2. GiveUp(c, now) = [s EXCEPT !.twait = InitTwait(now), !.status = "WAITING_UNKNOWN"]
    BY Zenon DEF GiveUp
  <2> HIDE DEF s
  <2> QED
    BY <2>1, <2>2 DEF IsEngine, EngineFields
<1>2. IsEngine(DiscoverIfDue(c, now))
  <2> DEFINE a == [c EXCEPT !.twait = AdvanceTwait(@)]
  <2>1. IsEngine(a)
    BY DEF IsEngine, EngineFields
  <2> HIDE DEF a
  <2>2. IsEngine(SendDiscover(a))
    BY <2>1, SendDiscoverKeepsEngine
  <2> QED
    BY <2>2, Zenon DEF DiscoverIfDue, a
<1> QED
  BY <1>1, <1>2 DEF WaitForMaster

LEMMA AdvancedKeepsEngine ==
    ASSUME NEW c, IsEngine(c)
    PROVE  LET d == SendDiscover([c EXCEPT !.trenew = AdvanceTrenew(@)])
           IN  IsEngine(d) /\ d.status = c.status /\ d.master = c.master
<1> DEFINE a == [c EXCEPT !.trenew = AdvanceTrenew(@)]
<1>1. IsEngine(a) /\ a.status = c.status /\ a.master = c.master
  BY DEF IsEngine, EngineFields
<1> HIDE DEF a
<1>2. IsEngine(SendDiscover(a)) /\ SendDiscover(a).status = a.status
      /\ SendDiscover(a).master = a.master
  BY <1>1, SendDiscoverKeepsEngine
<1> QED
  BY <1>1, <1>2, Zenon DEF a

LEMMA TimersKeepEngine ==
    ASSUME NEW c, IsEngine(c), NEW now
    PROVE  /\ IsEngine(StartRenewal(c, now)) /\ IsEngine(RepeatRenewal(c, now))
           /\ IsEngine(ExpireRenewal(c, now)) /\ IsEngine(KeepAssociation(c, now))
           /\ RepeatRenewal(c, now).status = c.status
           /\ RepeatRenewal(c, now).master = c.master
<1>1. ASSUME NEW e, IsEngine(e) PROVE IsEngine(StartRenewal(e, now))
  <2> DEFINE s == SendDiscover([e EXCEPT !.trenew = AdvanceTrenew(@)])
  <2>1. IsEngine(s)
    BY <1>1, AdvancedKeepsEngine
  <2>2. StartRenewal(e, now) \in {[s EXCEPT !.status = "RENEW"], e}
    BY DEF StartRenewal
  <2> HIDE DEF s
  <2> QED
    BY <1>1, <2>1, <2>2 DEF IsEngine, EngineFields
<1>2. ASSUME NEW e, IsEngine(e)
      PROVE  IsEngine(RepeatRenewal(e, now)) /\ RepeatRenewal(e, now).status = e.status
             /\ RepeatRenewal(e, now).master = e.master
  BY <1>2, AdvancedKeepsEngine DEF RepeatRenewal
<1>3. ASSUME NEW e, IsEngine(e) PROVE IsEngine(ExpireRenewal(e, now))
  BY <1>3, WaitingKeepsEngine DEF ExpireRenewal
<1> QED
  BY <1>1, <1>2, <1>3 DEF KeepAssociation

LEMMA LoopKeepsEngine ==
    ASSUME NEW c, IsEngine(c), NEW m, NEW now
    PROVE  /\ IsEngine(MeetMaster(c, m, now))
           /\ IsEngine(Associate(c, m, now)) /\ IsEngine(Renew(c, m, now))
           /\ IsEngine(HelloWhileAssociated(c, m, now))
           /\ IsEngine(AnswerRequest(c, m.answer))
<1>1. ASSUME NEW e, IsEngine(e), NEW t, NEW s PROVE IsEngine([e EXCEPT !.twait = t, !.status = s])
  BY <1>1 DEF IsEngine, EngineFields
<1>2. ASSUME NEW e, IsEngine(e), NEW t, NEW s PROVE IsEngine([e EXCEPT !.trenew = t, !.status = s])
  BY <1>2 DEF IsEngine, EngineFields
<1>3. ASSUME NEW e, IsEngine(e) PROVE IsEngine([e EXCEPT !.payload = "live"])
  BY <1>3 DEF IsEngine, EngineFields
<1>4. ASSUME NEW e, IsEngine(e), NEW dest PROVE IsEngine(SendAssocAnswer(e, dest))
  BY <1>3, <1>4, SendKeepsEngine DEF SendAssocAnswer
<1>5. IsEngine(MeetMaster(c, m, now))
  BY <1>1, MasterKeepsEngine, Zenon DEF MeetMaster
<1>6. IsEngine(Associate(c, m, now))
  <2> DEFINE e == NegociateMtu(ChangeMaster(c, m.src, UnknownHlid), m.mtu)
  <2>1. IsEngine(SendAssocAnswer(e, m.src))
    BY <1>4, MasterKeepsEngine
  <2> QED
    BY <1>2, <2>1, Zenon DEF Associate
<1>7. IsEngine(Renew(c, m, now))
  <2>1. IsEngine(SendAssocAnswer(NegociateMtu(c, m.mtu), m.src))
    BY <1>4, MasterKeepsEngine
  <2> QED
    BY <1>2, <2>1, Zenon DEF Renew
<1>8. IsEngine(HelloWhileAssociated(c, m, now))
  <2> DEFINE e == NegociateMtu(ChangeMaster(c, m.src, m.hlid), 0)
  <2>1. IsEngine(e)
    BY MasterKeepsEngine
  <2> HIDE DEF e
  <2>2. IsEngine([e EXCEPT !.twait = InitTwait(now), !.status = "WAITING_KNOWN"])
    BY <1>1, <2>1, Zenon
  <2> QED
    BY <2>1, <2>2, Zenon DEF HelloWhileAssociated, e
<1>9. IsEngine(AnswerRequest(c, m.answer))
  BY <1>3, SendKeepsEngine DEF AnswerRequest
<1> QED
  BY <1>5, <1>6, <1>7, <1>8, <1>9

LEMMA CallKeepsEngine ==
    ASSUME IsEngine(ca), NEW m, NEW now, Loop(m, now)
    PROVE  IsEngine(ca')
<1> DEFINE f == Fresh(ca)
<1>1. IsEngine(f) /\ IsEngine(ChangeMaster(f, m.src, m.hlid))
  BY MasterKeepsEngine
<1> HIDE DEF f
<1>2. CASE ColdStart(now)
  <2> DEFINE s == SendDiscover(f)
  <2>1. IsEngine(s)
    BY <1>1, SendDiscoverKeepsEngine
  <2>2. ca' = [s EXCEPT !.twait = InitTwait(now), !.status = "WAITING_UNKNOWN"]
    BY <1>2, Zenon DEF ColdStart, f
  <2> HIDE DEF s
  <2> QED
    BY <2>1, <2>2 DEF IsEngine, EngineFields
<1>3. CASE UnknownHello(m, now) \/ UnknownAssoc(m, now) \/ UnknownOther(m, now)
  BY <1>1, <1>3, LoopKeepsEngine, WaitingKeepsEngine
     DEF UnknownHello, UnknownAssoc, UnknownOther, f
<1>4. CASE KnownHello(m, now) \/ KnownAssoc(m, now) \/ KnownOther(m, now)
  BY <1>1, <1>4, LoopKeepsEngine, WaitingKeepsEngine
     DEF KnownHello, KnownAssoc, KnownOther, f
<1>5. CASE AssociatedHello(m, now) \/ AssociatedAssoc(m, now)
           \/ AssociatedRequest(m, now) \/ AssociatedOther(m, now)
  BY <1>1, <1>5, LoopKeepsEngine, TimersKeepEngine
     DEF AssociatedHello, AssociatedAssoc, AssociatedRequest, AssociatedOther, f
<1> QED
  BY <1>2, <1>3, <1>4, <1>5 DEF Loop

\* An Assoc puts the beginning of the renewal off, by a positive time.
LEMMA GrantedAhead ==
    ASSUME DiscoversFit, NEW c, IsEngine(c), NEW m \in AssocMessages, NEW d,
           d \in {Associate(c, m, 0), Renew(c, m, 0)}
    PROVE  /\ d.status = "RUNNING"
           /\ d.trenew = [next |-> m.ttl \div 2, inc |-> m.ttl \div 2, limit |-> m.ttl]
           /\ d.l2mtu \in Nat /\ DiscoverMtu <= d.l2mtu
<1>1. ASSUME NEW e, IsEngine(e)
      PROVE  LET n == NegociateMtu(e, m.mtu) IN
             IsEngine(n) /\ n.l2mtu \in Nat /\ DiscoverMtu <= n.l2mtu
  <2> DEFINE u == IF m.mtu > 0 /\ m.mtu <= DefMtu THEN m.mtu ELSE DefMtu
  <2>1. u \in Nat /\ DiscoverMtu <= u
    <3>1. m.mtu \in Mtus /\ m.mtu \in Nat /\ DiscoverMtu <= m.mtu
      BY CasanAssumption DEF AssocMessages, DiscoversFit
    <3>2. DefMtu \in Nat /\ DiscoverMtu <= DefMtu
      BY CasanAssumption, DefMtuType
    <3> QED
      BY <3>1, <3>2
  <2>2. NegociateMtu(e, m.mtu) = [e EXCEPT !.curmtu = u, !.l2mtu = u]
    BY DEF NegociateMtu
  <2> HIDE DEF u
  <2> QED
    BY <1>1, <2>1, <2>2 DEF IsEngine, EngineFields
<1>2. ASSUME NEW e, IsEngine(e), NEW dest
      PROVE  LET s == SendAssocAnswer(e, dest) IN IsEngine(s) /\ s.l2mtu = e.l2mtu
  <2> DEFINE p == [e EXCEPT !.payload = "live"]
  <2>1. IsEngine(p) /\ p.l2mtu = e.l2mtu
    BY <1>2 DEF IsEngine, EngineFields
  <2>2. SendAssocAnswer(e, dest) = SendMsg(p, "AssocAnswer", dest, TRUE)
    BY DEF SendAssocAnswer
  <2> HIDE DEF p
  <2>3. LET d1 == SendMsg(p, "AssocAnswer", dest, TRUE)
        IN  IsEngine(d1) /\ d1.l2mtu = p.l2mtu
    BY <2>1 DEF SendMsg, IsEngine, EngineFields
  <2> QED
    BY <2>1, <2>2, <2>3
<1>3. PICK e : /\ IsEngine(e) /\ e.l2mtu \in Nat /\ DiscoverMtu <= e.l2mtu
               /\ d = [e EXCEPT !.trenew = InitTrenew(0, m.ttl), !.status = "RUNNING"]
  <2>1. CASE d = Renew(c, m, 0)
    BY <1>1, <1>2, <2>1 DEF Renew
  <2>2. CASE d = Associate(c, m, 0)
    <3>1. IsEngine(ChangeMaster(c, m.src, UnknownHlid))
      BY MasterKeepsEngine
    <3> QED
      BY <1>1, <1>2, <2>2, <3>1 DEF Associate
  <2> QED
    BY <2>1, <2>2
<1>4. InitTrenew(0, m.ttl) = [next |-> m.ttl \div 2, inc |-> m.ttl \div 2, limit |-> m.ttl]
  <2>1. m.ttl \in Nat /\ m.ttl \div 2 \in Nat
    <3>1. m.ttl \in Nat
      BY CasanAssumption DEF AssocMessages
    <3> QED
      BY <3>1
  <2>2. 0 + m.ttl = m.ttl /\ 0 + (m.ttl \div 2) = m.ttl \div 2
    BY <2>1
  <2> QED
    BY <2>2 DEF InitTrenew
<1> QED
  BY <1>3, <1>4 DEF IsEngine, EngineFields

\* The timers leave an association alone whose renewal has not begun.
LEMMA NotYetDue ==
    ASSUME NEW c, c.status = "RUNNING", c.trenew.next \in Int, 0 < c.trenew.next
    PROVE  KeepAssociation(c, 0) = c
<1>1. StartRenewal(c, 0) = c
  BY DEF StartRenewal, Due
<1> QED
  BY <1>1 DEF KeepAssociation, RepeatRenewal, ExpireRenewal

LEMMA AdvanceKeepsTimer ==
    ASSUME NEW t, IsTimer(t)
    PROVE  IsTimer(AdvanceTrenew(t)) /\ AdvanceTrenew(t).limit = t.limit
BY DEF AdvanceTrenew, IsTimer

LEMMA RepeatAppends ==
    ASSUME NEW c, IsEngine(c)
    PROVE  LET d == RepeatRenewal(c, 0)
           IN  /\ d.air = c.air \/ \E g : d.air = Append(c.air, g)
               /\ IsTimer(c.trenew) => d.trenew.limit = c.trenew.limit
<1> DEFINE a == [c EXCEPT !.trenew = AdvanceTrenew(@)]
           r == [ResetMsg(a) EXCEPT !.curid = (@ + 1) % ID_SPACE]
           s == SendDiscover(a)
<1>1. IsEngine(a) /\ a.air = c.air /\ a.trenew = AdvanceTrenew(c.trenew)
  BY DEF IsEngine, EngineFields
<1>2. RepeatRenewal(c, 0) \in {s, c}
  BY Zenon DEF RepeatRenewal
<1> HIDE DEF a
<1>3. IsEngine(r) /\ r.air = c.air /\ r.trenew = a.trenew
  BY <1>1 DEF IsEngine, EngineFields, ResetMsg
<1>4. s = SendMsg(r, "Discover", a.master, a.l2mtu >= DiscoverMtu)
  BY Zenon DEF SendDiscover
<1> HIDE DEF r, s
<1>5. s.trenew = r.trenew /\ (s.air = r.air \/ \E g : s.air = Append(r.air, g))
  BY <1>3, <1>4 DEF SendMsg, IsEngine, EngineFields
<1>6. IsTimer(c.trenew) => AdvanceTrenew(c.trenew).limit = c.trenew.limit
  BY AdvanceKeepsTimer
<1> QED
  BY <1>1, <1>2, <1>3, <1>5, <1>6

\* They begin the renewal with a Discover that is sent, and do not end the
\* association in the same call.
LEMMA RenewalBegins ==
    ASSUME NEW c, IsEngine(c), c.status = "RUNNING",
           c.encoded = "null", c.payload = "null", c.air = <<>>,
           IsTimer(c.trenew), c.trenew.next \in Int, c.trenew.next <= 0,
           c.trenew.limit \in Int, 0 < c.trenew.limit,
           c.l2mtu \in Nat, DiscoverMtu <= c.l2mtu
    PROVE  LET d == KeepAssociation(c, 0)
           IN  d.status = "RENEW" /\ d.master = c.master /\ c.master \in Emitted(d)
<1> DEFINE f == [msg |-> "Discover", dest |-> c.master, intact |-> TRUE]
           a == [c EXCEPT !.trenew = AdvanceTrenew(@)]
           r == [ResetMsg(a) EXCEPT !.curid = (@ + 1) % ID_SPACE]
           s == SendDiscover(a)
           t == StartRenewal(c, 0)
           u == RepeatRenewal(t, 0)
<1>1. /\ IsEngine(a) /\ a.master = c.master /\ a.l2mtu = c.l2mtu
      /\ a.encoded = "null" /\ a.payload = "null" /\ a.air = <<>>
      /\ a.trenew = AdvanceTrenew(c.trenew)
  BY DEF IsEngine, EngineFields
<1>2. IsTimer(a.trenew) /\ a.trenew.limit = c.trenew.limit
  BY <1>1, AdvanceKeepsTimer
<1>3. t = [s EXCEPT !.status = "RENEW"]
  BY DEF StartRenewal, Due
<1> HIDE DEF a, t
<1>4. /\ IsEngine(r) /\ r.master = c.master /\ r.l2mtu = c.l2mtu /\ r.trenew = a.trenew
      /\ r.encoded = "null" /\ r.payload = "null" /\ r.air = <<>>
  BY <1>1 DEF IsEngine, EngineFields, ResetMsg, Release
<1>5. s = SendMsg(r, "Discover", a.master, a.l2mtu >= DiscoverMtu)
  BY Zenon DEF SendDiscover
<1> HIDE DEF r, s
<1>6. s = [r EXCEPT !.encoded = "live", !.air = Append(<<>>, f)]
  <2>1. a.l2mtu >= DiscoverMtu /\ r.encoded = "null" /\ r.payload # "freed"
    BY <1>1, <1>4, CasanAssumption DEF DefMtu
  <2> QED
    BY <1>1, <1>4, <1>5, <2>1 DEF SendMsg
<1>7. /\ IsEngine(s) /\ s.master = c.master
      /\ IsTimer(s.trenew) /\ s.trenew.limit = c.trenew.limit /\ s.air = Append(<<>>, f)
  BY <1>1, <1>2, <1>4, <1>6 DEF IsEngine, EngineFields
<1>8. /\ IsEngine(t) /\ t.master = c.master
      /\ IsTimer(t.trenew) /\ t.trenew.limit = c.trenew.limit /\ t.air = Append(<<>>, f) /\ t.status = "RENEW"
  BY <1>3, <1>7 DEF IsEngine, EngineFields
<1>9. u.air[1] = f /\ 1 \in DOMAIN u.air
  <2>1. Append(<<>>, f)[1] = f /\ 1 \in DOMAIN Append(<<>>, f)
    OBVIOUS
  <2>2. ASSUME NEW g
        PROVE  /\ Append(Append(<<>>, f), g)[1] = f
               /\ 1 \in DOMAIN Append(Append(<<>>, f), g)
    OBVIOUS
  <2>3. u.air = t.air \/ \E g : u.air = Append(t.air, g)
    BY <1>8, RepeatAppends
  <2> HIDE DEF f
  <2> QED
    BY <1>8, <2>1, <2>2, <2>3
<1>10. u.status = "RENEW" /\ u.master = c.master /\ u.trenew.limit = c.trenew.limit
  BY <1>8, TimersKeepEngine, RepeatAppends
<1>11. KeepAssociation(c, 0) = u
  BY <1>10 DEF KeepAssociation, ExpireRenewal, Expired, t
<1>12. c.master \in Emitted(u)
  BY <1>9 DEF Emitted
<1> QED
  BY <1>10, <1>11, <1>12

----------------------------------------------------------------------------
(* The steps of the network.                                                *)

LEMMA InitCalm == NetInit => CalmInv
<1> SUFFICES ASSUME NetInit PROVE CalmInv
  OBVIOUS
<1>1. IsEngine(ca)
  BY DEF NetInit, Init, IsEngine, EngineFields
<1> QED
  BY <1>1 DEF NetInit, CalmInv

LEMMA PassCalm ==
    ASSUME Prompt, CalmInv, NEW gap \in Gaps, Pass(gap)
    PROVE  CalmInv'
<1> DEFINE f == Fresh(ca)
           w == Older(f.twait, gap, ca.status \notin Associated)
           r == Older(f.trenew, gap, ca.status \in Associated)
           older(p) == [p EXCEPT !.age = @ + gap]
<1>1. /\ IsEngine(ca) /\ \A p \in assocs : IsPacket(p)
      /\ gap \in Nat /\ 0 < gap /\ gap <= MaxDelay
      /\ called = TRUE /\ called' = FALSE
  BY CasanAssumption, NetAssumption DEF CalmInv, Pass
<1>2. IsEngine(f) /\ f.status = ca.status /\ f.trenew = ca.trenew /\ f.l2mtu = ca.l2mtu
  BY <1>1, MasterKeepsEngine
<1>3. ca' = [f EXCEPT !.twait = w, !.trenew = r]
  BY Zenon DEF Pass
<1> HIDE DEF f, w, r
<1>4. IsEngine(ca') /\ ca'.status = ca.status /\ ca'.trenew = r /\ ca'.l2mtu = ca.l2mtu
  BY <1>2, <1>3 DEF IsEngine, EngineFields
<1>5. assocs' = {older(p) : p \in {q \in assocs : q.age + gap <= MaxDelay}}
  BY DEF Pass
<1>6. ASSUME NEW p, IsPacket(p) PROVE IsPacket(older(p))
  <2>1. p.age + gap \in Nat
    BY <1>1, <1>6 DEF IsPacket
  <2> QED
    BY <1>6, <2>1 DEF IsPacket
<1>7. \A p \in assocs' : IsPacket(p)
  BY <1>1, <1>5, <1>6
<1>8. ASSUME calm, ca.status = "RUNNING" PROVE Ahead(ca)'
  <2>1. /\ IsTimer(ca.trenew) /\ ca.trenew.next \in Int /\ ca.trenew.limit \in Int
        /\ \A g \in Gaps : g <= ca.trenew.limit - ca.trenew.next
        /\ ca.trenew.next <= ca.trenew.limit /\ 0 < ca.trenew.next
        /\ ca.l2mtu \in Nat /\ DiscoverMtu <= ca.l2mtu
    BY <1>1, <1>8 DEF CalmInv, Ahead
  <2>2. ca.trenew # NoTimer
    BY <2>1 DEF NoTimer
  <2>3. r = [ca.trenew EXCEPT !.next = @ - gap, !.limit = Past(@, gap)]
    BY <1>2, <1>8, <2>2 DEF r, Older, Associated
  <2>4. gap <= ca.trenew.limit - ca.trenew.next
    BY <2>1
  <2>5. Past(ca.trenew.limit, gap) = ca.trenew.limit - gap /\ 0 < ca.trenew.limit - gap
    BY <1>1, <2>1, <2>4 DEF Past
  <2>6. IsTimer(r) /\ r.next = ca.trenew.next - gap /\ r.limit = ca.trenew.limit - gap
    BY <2>1, <2>3, <2>5 DEF IsTimer
  <2>7. /\ r.next \in Int /\ r.limit \in Int /\ r.next <= r.limit
        /\ r.limit - r.next = ca.trenew.limit - ca.trenew.next
    BY <1>1, <2>1, <2>6
  <2> QED
    BY <1>1, <1>4, <2>1, <2>5, <2>6, <2>7 DEF Ahead
<1>9. ASSUME calm, ca.status = "RENEW", discovers = {} PROVE assocs' # {}
  <2>1. PICK p \in assocs : p.age = 0
    BY <1>1, <1>9 DEF CalmInv, Asked
  <2>2. p.age + gap <= MaxDelay
    BY <1>1, <2>1, NetAssumption
  <2> QED
    BY <1>5, <2>2
<1>10. calm' => calm /\ discovers = {}
  BY DEF Pass
<1>11. ca.status \in Associated <=> ca.status \in {"RUNNING", "RENEW"}
  BY DEF Associated
<1> QED
  BY <1>1, <1>4, <1>7, <1>8, <1>9, <1>10 DEF CalmInv, Asked

\* A call of loop() which receives nothing.
LEMMA EmptyCalm ==
    ASSUME CalmInv, CallEmpty
    PROVE  CalmInv'
<1> DEFINE f == Fresh(ca)
           d == KeepAssociation(f, 0)
<1>1. /\ IsEngine(ca) /\ assocs' = assocs /\ ~called /\ called' = TRUE
      /\ Loop([type |-> "None"], 0) /\ discovers' = discovers \cup Emitted(ca')
  BY DEF CalmInv, CallEmpty, Call
<1>2. IsEngine(ca')
  BY <1>1, CallKeepsEngine
<1>3. ASSUME calm' PROVE calm /\ assocs = {} /\ ca.status = "RUNNING" /\ Ahead(ca)
  BY <1>1, <1>3 DEF CallEmpty, CalmInv, Associated, Asked
<1>4. ASSUME calm'
      PROVE  IF ca'.status = "RUNNING" THEN Ahead(ca)' ELSE ca'.status = "RENEW" /\ Asked'
  <2>1. ca' = d
    BY <1>1, <1>3, <1>4 DEF Loop, ColdStart, UnknownHello, UnknownAssoc, UnknownOther,
       KnownHello, KnownAssoc, KnownOther, AssociatedHello, AssociatedAssoc,
       AssociatedRequest, AssociatedOther, Associated
  <2>2. /\ IsEngine(f) /\ f.status = "RUNNING" /\ f.master = ca.master
        /\ f.trenew = ca.trenew /\ f.l2mtu = ca.l2mtu
        /\ f.encoded = "null" /\ f.payload = "null" /\ f.air = <<>>
    BY <1>1, <1>3, <1>4, MasterKeepsEngine
  <2> HIDE DEF f
  <2>3. /\ IsTimer(f.trenew) /\ f.trenew.next \in Int /\ f.trenew.limit \in Int
        /\ 0 < f.trenew.limit /\ f.l2mtu \in Nat /\ DiscoverMtu <= f.l2mtu
    BY <1>1, <1>3, <1>4, <2>2 DEF Ahead
  <2>4. CASE 0 < f.trenew.next
    <3>1. d = f
      BY <2>2, <2>3, <2>4, NotYetDue
    <3> QED
      BY <1>1, <1>3, <1>4, <2>1, <2>2, <2>4, <3>1 DEF Ahead
  <2>5. CASE f.trenew.next <= 0
    <3>1. d.status = "RENEW" /\ d.master = f.master /\ f.master \in Emitted(d)
      BY <2>2, <2>3, <2>5, RenewalBegins
    <3> QED
      BY <1>1, <2>1, <3>1 DEF Asked
  <2> QED
    BY <2>3, <2>4, <2>5
<1> QED
  BY <1>1, <1>2, <1>4 DEF CalmInv, Associated

\* A call of loop() which receives an Assoc.
LEMMA AssocCalm ==
    ASSUME Prompt, DiscoversFit, CalmInv, NEW p \in assocs, ReceiveAssoc(p)
    PROVE  CalmInv'
<1> DEFINE f == Fresh(ca)
<1>1. /\ IsEngine(ca) /\ assocs' \subseteq assocs /\ \A q \in assocs : IsPacket(q)
      /\ called' = TRUE /\ Loop(p.msg, 0) /\ calm' = Accepts(p.msg)
  BY DEF CalmInv, ReceiveAssoc, Call
<1>2. IsEngine(ca')
  BY <1>1, CallKeepsEngine
<1>3. IsEngine(f)
  BY <1>1, MasterKeepsEngine
<1> HIDE DEF f
<1>4. p.msg \in AssocMessages /\ p.msg.type = "Assoc" /\ p.msg.ttl \in Ttls
  BY <1>1 DEF IsPacket, AssocMessages
<1>5. ASSUME calm' PROVE ca'.status = "RUNNING" /\ Ahead(ca)'
  <2>1. \/ ca' = Associate(f, p.msg, 0)
        \/ ca' = KeepAssociation(Renew(f, p.msg, 0), 0)
    BY <1>1, <1>4, <1>5 DEF Accepts, Loop, ColdStart, UnknownHello, UnknownAssoc, UnknownOther,
       KnownHello, KnownAssoc, KnownOther, AssociatedHello, AssociatedAssoc,
       AssociatedRequest, AssociatedOther, Associated, f
  <2>2. PICK d : /\ d \in {Associate(f, p.msg, 0), Renew(f, p.msg, 0)}
                 /\ ca' \in {d, KeepAssociation(d, 0)}
    BY <2>1
  <2>3. /\ d.status = "RUNNING" /\ d.l2mtu \in Nat /\ DiscoverMtu <= d.l2mtu
        /\ d.trenew = [next |-> p.msg.ttl \div 2, inc |-> p.msg.ttl \div 2,
                       limit |-> p.msg.ttl]
    BY <1>3, <1>4, <2>2, GrantedAhead
  <2>4. /\ p.msg.ttl \in Int /\ (p.msg.ttl \div 2) \in Int
        /\ 0 < (p.msg.ttl \div 2) /\ (p.msg.ttl \div 2) <= p.msg.ttl
    <3>1. p.msg.ttl \in Nat /\ p.msg.ttl \notin {0, 1}
      BY <1>4, CasanAssumption
    <3>2. p.msg.ttl >= 2
      BY <3>1
    <3> QED
      BY <3>1, <3>2
  <2>5. \A gap \in Gaps : gap <= p.msg.ttl - (p.msg.ttl \div 2)
    BY <1>4 DEF Prompt
  <2>6. /\ d.trenew.next = p.msg.ttl \div 2 /\ d.trenew.limit = p.msg.ttl
        /\ IsTimer(d.trenew)
    BY <2>3 DEF IsTimer
  <2>7. KeepAssociation(d, 0) = d
    BY <2>3, <2>4, <2>6, NotYetDue
  <2> QED
    BY <1>1, <2>2, <2>3, <2>4, <2>5, <2>6, <2>7 DEF Ahead
<1> QED
  BY <1>1, <1>2, <1>5 DEF CalmInv, Associated

\* A Discover is answered, which may have been the one that was asked about.
LEMMA AnswerCalm ==
    ASSUME CalmInv, NEW m \in Masters, NEW ttl \in Ttls, NEW mtu \in Mtus,
           MasterAnswers(m, ttl, mtu)
    PROVE  CalmInv'
<1> DEFINE p == Packet(m, ttl, mtu)
<1>1. p \in assocs' /\ p.age = 0 /\ IsPacket(p)
  BY DEF MasterAnswers, Packet, IsPacket, AssocMessages
<1>2. \A q \in assocs' : IsPacket(q)
  BY <1>1 DEF CalmInv, MasterAnswers
<1> QED
  BY <1>1, <1>2 DEF CalmInv, MasterAnswers, vars, Ahead, Asked

LEMMA NextCalm ==
    ASSUME Prompt, DiscoversFit, CalmInv, [NetNext]_netvars
    PROVE  CalmInv'
<1>1. CASE \E gap \in Gaps : Pass(gap)
  BY <1>1, PassCalm
<1>2. CASE Slave
  <2>1. CASE CallEmpty
    BY <2>1, EmptyCalm
  <2>2. CASE \E p \in assocs : ReceiveAssoc(p)
    BY <2>2, AssocCalm
  <2>3. CASE \E m \in Masters : ReceiveRequest(m) \/ \E h \in HelloIds : ReceiveHello(m, h)
    <3>1. /\ IsEngine(ca) /\ \A p \in assocs : IsPacket(p)
          /\ assocs' = assocs /\ ~calm'
      BY <2>3 DEF CalmInv, ReceiveRequest, ReceiveHello
    <3>2. PICK msg : Loop(msg, 0)
      BY <2>3 DEF ReceiveRequest, ReceiveHello, Call
    <3>3. IsEngine(ca')
      BY <3>1, <3>2, CallKeepsEngine
    <3> QED
      BY <3>1, <3>3 DEF CalmInv
  <2> QED
    BY <1>2, <2>1, <2>2, <2>3 DEF Slave
<1>3. CASE Lose
  <2>1. ca' = ca /\ assocs' \subseteq assocs /\ ~calm'
    BY <1>3 DEF Lose, vars
  <2> QED
    BY <2>1 DEF CalmInv
<1>4. CASE MastersAnswer
  BY <1>4, AnswerCalm DEF MastersAnswer
<1>5. CASE \E m \in Restarting : MasterRestarts(m)
  BY <1>5 DEF MasterRestarts, CalmInv, Ahead, Asked, vars
<1>6. CASE UNCHANGED netvars
  BY <1>6 DEF netvars, vars, CalmInv, Ahead, Asked
<1> QED
  BY <1>1, <1>2, <1>3, <1>4, <1>5, <1>6 DEF NetNext

\* On a network, whatever the timers, TTLs and MTUs: when loop() is called in the
\* second half of every association, and a Discover fits in every MTU, an
\* association does not lapse as long as nothing goes wrong.
THEOREM CalmCorrect ==
    ASSUME Prompt, DiscoversFit
    PROVE  NetSpec => []CalmKeepsAssociation
<1>1. NetInit => CalmInv
  BY InitCalm
<1>2. CalmInv /\ [NetNext]_netvars => CalmInv'
  BY NextCalm
<1>3. CalmInv => CalmKeepsAssociation
  BY DEF CalmInv, CalmKeepsAssociation
<1> QED
  BY <1>1, <1>2, <1>3, PTL DEF NetSpec

----------------------------------------------------------------------------
(* The times of CasanNet.  A call of loop() in Casan and one in CasanNet,    *)
(* after the same messages at the same times, leave engines that differ only *)
(* in how their times are written.                                           *)

\* What a call of loop() makes of the engine.
LoopResult(c, m, now) ==
    LET f == Fresh(c)
        hello == m.type = "Hello"
        assoc == m.type = "Assoc"
    IN  CASE c.status = "COLDSTART" ->
               [SendDiscover(f) EXCEPT !.twait = InitTwait(now), !.status = "WAITING_UNKNOWN"]
          [] c.status = "WAITING_UNKNOWN" ->
               IF hello THEN MeetMaster(f, m, now)
               ELSE IF assoc THEN Associate(f, m, now) ELSE DiscoverIfDue(f, now)
          [] c.status = "WAITING_KNOWN" ->
               IF hello THEN WaitForMaster(ChangeMaster(f, m.src, m.hlid), now)
               ELSE IF assoc THEN Associate(f, m, now) ELSE WaitForMaster(f, now)
          [] OTHER ->
               KeepAssociation(
                   IF hello THEN HelloWhileAssociated(f, m, now)
                   ELSE IF assoc /\ SameMaster(c, m.src) THEN Renew(f, m, now)
                   ELSE IF m.type = "Request" THEN AnswerRequest(f, m.answer)
                   ELSE f, now)

LEMMA LoopGivesResult ==
    ASSUME NEW m, NEW now, Loop(m, now)
    PROVE  ca' = LoopResult(ca, m, now)
BY DEF Loop, LoopResult, ColdStart, UnknownHello, UnknownAssoc, UnknownOther,
   KnownHello, KnownAssoc, KnownOther, AssociatedHello, AssociatedAssoc,
   AssociatedRequest, AssociatedOther, Associated

\* What Pass makes of it.
Passed(c, gap) ==
    [Fresh(c) EXCEPT !.twait = Older(@, gap, c.status \notin Associated),
                     !.trenew = Older(@, gap, c.status \in Associated)]

LEMMA PassGivesPassed == \A gap : Pass(gap) => ca' = Passed(ca, gap)
BY DEF Pass, Passed

\* The timer u of CasanNet stands for the timer t of Casan at the time now.
SameTimer(t, u, now) ==
    /\ IsTimer(t) /\ t.next \in Int /\ t.inc \in Nat /\ t.limit \in Int
    /\ IsTimer(u) /\ u.next \in Int /\ u.limit \in Int
    /\ u.next = t.next - now /\ u.inc = t.inc
    /\ u.limit = t.limit - now \/ (t.limit < now /\ u.limit < 0)

SameEngine(c, e) ==
    /\ IsEngine(c) /\ IsEngine(e)
    /\ c.status = e.status /\ c.master = e.master /\ c.hlid = e.hlid
    /\ c.curmtu = e.curmtu /\ c.l2mtu = e.l2mtu /\ c.curid = e.curid

SameMessage(c, e) == c.encoded = e.encoded /\ c.payload = e.payload /\ c.air = e.air

\* The timers that the engine may look at in its status.
SameTimers(c, e, now) ==
    /\ c.status \in {"WAITING_UNKNOWN", "WAITING_KNOWN"} => SameTimer(c.twait, e.twait, now)
    /\ c.status \in Associated => SameTimer(c.trenew, e.trenew, now)

Matches(c, e, now) == SameEngine(c, e) /\ SameMessage(c, e) /\ SameTimers(c, e, now)

LEMMA TimersMatch ==
    ASSUME NEW now \in Int
    PROVE  /\ SameTimer(InitTwait(now), InitTwait(0), now)
           /\ \A ttl \in Nat : SameTimer(InitTrenew(now, ttl), InitTrenew(0, ttl), now)
           /\ \A t, u : SameTimer(t, u, now) =>
                 /\ Due(t, now) <=> Due(u, 0)
                 /\ Expired(t, now) <=> Expired(u, 0)
                 /\ SameTimer(AdvanceTwait(t), AdvanceTwait(u), now)
                 /\ SameTimer(AdvanceTrenew(t), AdvanceTrenew(u), now)
<1>1. SameTimer(InitTwait(now), InitTwait(0), now)
  BY TimerConstants DEF SameTimer, InitTwait, IsTimer
<1>2. ASSUME NEW ttl \in Nat PROVE SameTimer(InitTrenew(now, ttl), InitTrenew(0, ttl), now)
  <2>1. ttl \div 2 \in Nat
    OBVIOUS
  <2> DEFINE half == ttl \div 2
  <2> HIDE DEF half
  <2>2. InitTrenew(now, ttl) = [next |-> now + half, inc |-> half, limit |-> now + ttl]
    BY DEF InitTrenew, half
  <2>3. InitTrenew(0, ttl) = [next |-> 0 + half, inc |-> half, limit |-> 0 + ttl]
    BY DEF InitTrenew, half
  <2>4. half \in Nat
    BY <2>1 DEF half
  <2> QED
    BY <2>2, <2>3, <2>4 DEF SameTimer, IsTimer
<1>3. ASSUME NEW t, NEW u, SameTimer(t, u, now)
      PROVE  (Due(t, now) <=> Due(u, 0)) /\ (Expired(t, now) <=> Expired(u, 0))
  BY <1>3 DEF SameTimer, Due, Expired
<1>4. ASSUME NEW t, NEW u, SameTimer(t, u, now), NEW i \in Nat
      PROVE  SameTimer([t EXCEPT !.inc = i, !.next = @ + i],
                       [u EXCEPT !.inc = i, !.next = @ + i], now)
  <2> DEFINE a == [t EXCEPT !.inc = i, !.next = @ + i]
             b == [u EXCEPT !.inc = i, !.next = @ + i]
  <2>1. IsTimer(a) /\ a.next = t.next + i /\ a.inc = i /\ a.limit = t.limit
    BY <1>4 DEF SameTimer, IsTimer
  <2>2. IsTimer(b) /\ b.next = u.next + i /\ b.inc = i /\ b.limit = u.limit
    BY <1>4 DEF SameTimer, IsTimer
  <2> HIDE DEF a, b
  <2>3. SameTimer(a, b, now)
    BY <1>4, <2>1, <2>2 DEF SameTimer
  <2> QED
    BY <2>3 DEF a, b
<1>5. ASSUME NEW t, NEW u, SameTimer(t, u, now)
      PROVE  /\ SameTimer(AdvanceTwait(t), AdvanceTwait(u), now)
             /\ SameTimer(AdvanceTrenew(t), AdvanceTrenew(u), now)
  <2> DEFINE grown == t.inc + TIMER_WAIT_INC
             i == IF grown > TIMER_WAIT_INC_MAX THEN TIMER_WAIT_INC_MAX ELSE grown
             half == t.inc \div 2
             j == IF half <= TIMER_RENEW_MIN THEN TIMER_RENEW_MIN ELSE half
  <2>1. u.inc = t.inc /\ t.inc \in Nat
    BY <1>5 DEF SameTimer
  <2>2. i \in Nat /\ j \in Nat
    BY <2>1, TimerConstants
  <2>3. /\ AdvanceTwait(t) = [t EXCEPT !.inc = i, !.next = @ + i]
        /\ AdvanceTwait(u) = [u EXCEPT !.inc = i, !.next = @ + i]
    BY <2>1, Zenon DEF AdvanceTwait
  <2>4. /\ AdvanceTrenew(t) = [t EXCEPT !.inc = j, !.next = @ + j]
        /\ AdvanceTrenew(u) = [u EXCEPT !.inc = j, !.next = @ + j]
    BY <2>1, Zenon DEF AdvanceTrenew
  <2> HIDE DEF i, j
  <2>5. /\ SameTimer([t EXCEPT !.inc = i, !.next = @ + i], [u EXCEPT !.inc = i, !.next = @ + i], now)
        /\ SameTimer([t EXCEPT !.inc = j, !.next = @ + j], [u EXCEPT !.inc = j, !.next = @ + j], now)
    BY <1>4, <1>5, <2>2
  <2> QED
    BY <2>3, <2>4, <2>5, Zenon
<1> QED
  BY <1>1, <1>2, <1>3, <1>5

\* Sending reads no time.
LEMMA SendMatches ==
    ASSUME NEW c, NEW e, NEW now, Matches(c, e, now), NEW msg, NEW dest, NEW fits
    PROVE  Matches(SendMsg(c, msg, dest, fits), SendMsg(e, msg, dest, fits), now)
BY DEF SendMsg, Matches, SameEngine, SameMessage, SameTimers, IsEngine, EngineFields

LEMMA SendDiscoverMatches ==
    ASSUME NEW c, NEW e, NEW now, Matches(c, e, now)
    PROVE  Matches(SendDiscover(c), SendDiscover(e), now)
<1> DEFINE r(x) == [ResetMsg(x) EXCEPT !.curid = (@ + 1) % ID_SPACE]
<1>1. Matches(r(c), r(e), now)
  BY DEF ResetMsg, Matches, SameEngine, SameMessage, SameTimers, IsEngine, EngineFields
<1>2. c.master = e.master /\ c.l2mtu = e.l2mtu
  BY DEF Matches, SameEngine
<1>3. /\ SendDiscover(c) = SendMsg(r(c), "Discover", c.master, c.l2mtu >= DiscoverMtu)
      /\ SendDiscover(e) = SendMsg(r(e), "Discover", c.master, c.l2mtu >= DiscoverMtu)
  BY <1>2, Zenon DEF SendDiscover
<1> HIDE DEF r
<1> QED
  BY <1>1, <1>3, SendMatches

LEMMA AnswersMatch ==
    ASSUME NEW c, NEW e, NEW now, Matches(c, e, now), NEW dest, NEW answer
    PROVE  /\ Matches(SendAssocAnswer(c, dest), SendAssocAnswer(e, dest), now)
           /\ Matches(AnswerRequest(c, answer), AnswerRequest(e, answer), now)
<1> DEFINE p(x) == [x EXCEPT !.payload = "live"]
           q(x) == IF answer = "NoPayload" THEN x ELSE p(x)
<1>1. Matches(p(c), p(e), now)
  BY DEF Matches, SameEngine, SameMessage, SameTimers, IsEngine, EngineFields
<1>2. Matches(q(c), q(e), now)
  BY <1>1
<1>3. c.master = e.master
  BY DEF Matches, SameEngine
<1>4. /\ SendAssocAnswer(c, dest) = SendMsg(p(c), "AssocAnswer", dest, TRUE)
      /\ SendAssocAnswer(e, dest) = SendMsg(p(e), "AssocAnswer", dest, TRUE)
      /\ AnswerRequest(c, answer) = SendMsg(q(c), "Response", c.master, answer # "TooLarge")
      /\ AnswerRequest(e, answer) = SendMsg(q(e), "Response", c.master, answer # "TooLarge")
  BY <1>3, Zenon DEF SendAssocAnswer, AnswerRequest
<1> HIDE DEF p, q
<1>5. Matches(SendMsg(p(c), "AssocAnswer", dest, TRUE), SendMsg(p(e), "AssocAnswer", dest, TRUE), now)
  BY <1>1, SendMatches
<1>6. Matches(SendMsg(q(c), "Response", c.master, answer # "TooLarge"),
              SendMsg(q(e), "Response", c.master, answer # "TooLarge"), now)
  BY <1>2, SendMatches
<1> QED
  BY <1>4, <1>5, <1>6

\* Nor do the MTU and the master.
LEMMA MasterMatches ==
    ASSUME NEW c, NEW e, NEW now, Matches(c, e, now), NEW mtu, NEW src, NEW hlid
    PROVE  /\ Matches(NegociateMtu(c, mtu), NegociateMtu(e, mtu), now)
           /\ Matches(ChangeMaster(c, src, hlid), ChangeMaster(e, src, hlid), now)
           /\ Matches(ResetMaster(c), ResetMaster(e), now)
           /\ SameMaster(c, src) <=> SameMaster(e, src)
<1> USE DEF Matches, SameEngine, SameMessage, SameTimers, IsEngine, EngineFields
<1>1. ASSUME NEW x, NEW y, Matches(x, y, now), NEW n
      PROVE  Matches(NegociateMtu(x, n), NegociateMtu(y, n), now)
  BY <1>1 DEF NegociateMtu
<1>2. SameMaster(c, src) <=> SameMaster(e, src)
  BY DEF SameMaster
<1>3. Matches(ChangeMaster(c, src, hlid), ChangeMaster(e, src, hlid), now)
  BY <1>2 DEF ChangeMaster
<1>4. Matches([c EXCEPT !.master = NoMaster, !.hlid = UnknownHlid],
              [e EXCEPT !.master = NoMaster, !.hlid = UnknownHlid], now)
  OBVIOUS
<1>5. Matches(ResetMaster(c), ResetMaster(e), now)
  BY <1>1, <1>4 DEF ResetMaster, ResetMtu
<1> HIDE DEF Matches, SameEngine, SameMessage, SameTimers, IsEngine, EngineFields
<1> QED
  BY <1>1, <1>2, <1>3, <1>5

\* A timer that is set anew, and the status that looks at it.
LEMMA SetTimersMatch ==
    ASSUME NEW c, NEW e, NEW now, Matches(c, e, now), NEW t, NEW u, SameTimer(t, u, now)
    PROVE  /\ \A s \in {"WAITING_UNKNOWN", "WAITING_KNOWN"} :
                 Matches([c EXCEPT !.twait = t, !.status = s],
                         [e EXCEPT !.twait = u, !.status = s], now)
           /\ Matches([c EXCEPT !.trenew = t, !.status = "RUNNING"],
                      [e EXCEPT !.trenew = u, !.status = "RUNNING"], now)
           /\ Matches([c EXCEPT !.twait = t], [e EXCEPT !.twait = u], now)
           /\ Matches([c EXCEPT !.trenew = t], [e EXCEPT !.trenew = u], now)
BY DEF Matches, SameEngine, SameMessage, SameTimers, IsEngine, EngineFields, Associated

LEMMA GiveUpMatches ==
    ASSUME NEW c, NEW e, NEW now \in Int, Matches(c, e, now)
    PROVE  Matches(GiveUp(c, now), GiveUp(e, 0), now)
<1>1. Matches(SendDiscover(ResetMaster(c)), SendDiscover(ResetMaster(e)), now)
  BY MasterMatches, SendDiscoverMatches
<1>2. SameTimer(InitTwait(now), InitTwait(0), now)
  BY TimersMatch
<1> QED
  BY <1>1, <1>2, SetTimersMatch DEF GiveUp

LEMMA WaitingMatches ==
    ASSUME NEW c, NEW e, NEW now \in Int, Matches(c, e, now),
           c.status \in {"WAITING_UNKNOWN", "WAITING_KNOWN"}
    PROVE  /\ Matches(DiscoverIfDue(c, now), DiscoverIfDue(e, 0), now)
           /\ Matches(WaitForMaster(c, now), WaitForMaster(e, 0), now)
<1> DEFINE a == [c EXCEPT !.twait = AdvanceTwait(@)]
           b == [e EXCEPT !.twait = AdvanceTwait(@)]
<1>1. SameTimer(c.twait, e.twait, now)
  BY DEF Matches, SameTimers
<1>2. /\ Due(c.twait, now) <=> Due(e.twait, 0)
      /\ Expired(c.twait, now) <=> Expired(e.twait, 0)
      /\ SameTimer(AdvanceTwait(c.twait), AdvanceTwait(e.twait), now)
  BY <1>1, TimersMatch
<1>3. Matches(a, b, now)
  BY <1>2, SetTimersMatch
<1> HIDE DEF a, b
<1>4. Matches(SendDiscover(a), SendDiscover(b), now)
  BY <1>3, SendDiscoverMatches
<1>5. /\ DiscoverIfDue(c, now) = IF Due(c.twait, now) THEN SendDiscover(a) ELSE c
      /\ DiscoverIfDue(e, 0) = IF Due(e.twait, 0) THEN SendDiscover(b) ELSE e
  BY Zenon DEF DiscoverIfDue, a, b
<1>6. Matches(DiscoverIfDue(c, now), DiscoverIfDue(e, 0), now)
  BY <1>2, <1>4, <1>5
<1>7. Matches(WaitForMaster(c, now), WaitForMaster(e, 0), now)
  BY <1>2, <1>6, GiveUpMatches DEF WaitForMaster
<1> QED
  BY <1>6, <1>7

LEMMA KeepMatches ==
    ASSUME NEW c, NEW e, NEW now \in Int, Matches(c, e, now)
    PROVE  Matches(KeepAssociation(c, now), KeepAssociation(e, 0), now)
<1>1. ASSUME NEW x, NEW y, Matches(x, y, now), x.status \in Associated
      PROVE  LET a == SendDiscover([x EXCEPT !.trenew = AdvanceTrenew(@)])
                 b == SendDiscover([y EXCEPT !.trenew = AdvanceTrenew(@)])
             IN  /\ Due(x.trenew, now) <=> Due(y.trenew, 0)
                 /\ Expired(x.trenew, now) <=> Expired(y.trenew, 0)
                 /\ Matches(a, b, now) /\ a.status = x.status
  <2> DEFINE a == [x EXCEPT !.trenew = AdvanceTrenew(@)]
             b == [y EXCEPT !.trenew = AdvanceTrenew(@)]
  <2>1. SameTimer(x.trenew, y.trenew, now)
    BY <1>1 DEF Matches, SameTimers
  <2>2. /\ Due(x.trenew, now) <=> Due(y.trenew, 0)
        /\ Expired(x.trenew, now) <=> Expired(y.trenew, 0)
        /\ SameTimer(AdvanceTrenew(x.trenew), AdvanceTrenew(y.trenew), now)
    BY <2>1, TimersMatch
  <2>3. Matches(a, b, now)
    BY <1>1, <2>2, SetTimersMatch
  <2>4. SendDiscover(a).status = x.status
    BY <1>1, AdvancedKeepsEngine DEF Matches, SameEngine
  <2> HIDE DEF a, b
  <2>5. Matches(SendDiscover(a), SendDiscover(b), now)
    BY <2>3, SendDiscoverMatches
  <2> QED
    BY <2>2, <2>4, <2>5 DEF a, b
<1>2. ASSUME NEW x, NEW y, Matches(x, y, now)
      PROVE  Matches(StartRenewal(x, now), StartRenewal(y, 0), now)
  <2> DEFINE a == SendDiscover([x EXCEPT !.trenew = AdvanceTrenew(@)])
             b == SendDiscover([y EXCEPT !.trenew = AdvanceTrenew(@)])
  <2>1. x.status = y.status
    BY <1>2 DEF Matches, SameEngine
  <2>2. /\ StartRenewal(x, now) = IF x.status = "RUNNING" /\ Due(x.trenew, now)
                                  THEN [a EXCEPT !.status = "RENEW"] ELSE x
        /\ StartRenewal(y, 0) = IF x.status = "RUNNING" /\ Due(y.trenew, 0)
                                THEN [b EXCEPT !.status = "RENEW"] ELSE y
    BY <2>1, Zenon DEF StartRenewal
  <2>3. ASSUME x.status = "RUNNING"
        PROVE  /\ Due(x.trenew, now) <=> Due(y.trenew, 0)
               /\ Matches(a, b, now) /\ a.status = "RUNNING"
    BY <1>1, <1>2, <2>3, Zenon DEF Associated
  <2> HIDE DEF a, b
  <2>4. ASSUME Matches(a, b, now), a.status = "RUNNING"
        PROVE  Matches([a EXCEPT !.status = "RENEW"], [b EXCEPT !.status = "RENEW"], now)
    BY <2>4 DEF Matches, SameEngine, SameMessage, SameTimers, IsEngine, EngineFields, Associated
  <2> QED
    BY <1>2, <2>2, <2>3, <2>4
<1>3. ASSUME NEW x, NEW y, Matches(x, y, now)
      PROVE  Matches(RepeatRenewal(x, now), RepeatRenewal(y, 0), now)
  <2>1. x.status = y.status
    BY <1>3 DEF Matches, SameEngine
  <2> QED
    BY <1>1, <1>3, <2>1 DEF RepeatRenewal, Associated
<1>4. ASSUME NEW x, NEW y, Matches(x, y, now)
      PROVE  Matches(ExpireRenewal(x, now), ExpireRenewal(y, 0), now)
  <2>1. x.status = y.status
    BY <1>4 DEF Matches, SameEngine
  <2>2. Matches(GiveUp(x, now), GiveUp(y, 0), now)
    BY <1>4, GiveUpMatches
  <2> QED
    BY <1>1, <1>4, <2>1, <2>2 DEF ExpireRenewal, Associated
<1> QED
  BY <1>2, <1>3, <1>4 DEF KeepAssociation

LEMMA LoopMatches ==
    ASSUME NEW c, NEW e, NEW now \in Int, NEW m \in Messages,
           SameEngine(c, e), SameTimers(c, e, now)
    PROVE  Matches(LoopResult(c, m, now), LoopResult(e, m, 0), now)
<1> DEFINE f == Fresh(c)
           g == Fresh(e)
<1>1. Matches(f, g, now) /\ f.status = c.status /\ c.status = e.status
  BY DEF Fresh, Matches, SameEngine, SameMessage, SameTimers, IsEngine, EngineFields
<1>2. SameMaster(c, m.src) <=> SameMaster(e, m.src)
  BY DEF SameEngine, SameMaster
<1> HIDE DEF f, g
<1>3. SameTimer(InitTwait(now), InitTwait(0), now)
  BY TimersMatch
<1>4. CASE c.status = "COLDSTART"
  <2>1. Matches(SendDiscover(f), SendDiscover(g), now)
    BY <1>1, SendDiscoverMatches
  <2> QED
    BY <1>1, <1>3, <1>4, <2>1, SetTimersMatch DEF LoopResult, f, g
<1>5. ASSUME m.type = "Assoc"
      PROVE  /\ Matches(Associate(f, m, now), Associate(g, m, 0), now)
             /\ Matches(Renew(f, m, now), Renew(g, m, 0), now)
  <2>1. m.ttl \in Nat
    <3>1. m.ttl \in Ttls
      BY <1>5, MessageFields
    <3> QED
      BY <3>1, CasanAssumption
  <2>2. SameTimer(InitTrenew(now, m.ttl), InitTrenew(0, m.ttl), now)
    BY <2>1, TimersMatch
  <2>3. ASSUME NEW x, NEW y, Matches(x, y, now)
        PROVE  Matches([SendAssocAnswer(x, m.src) EXCEPT !.trenew = InitTrenew(now, m.ttl),
                                                        !.status = "RUNNING"],
                       [SendAssocAnswer(y, m.src) EXCEPT !.trenew = InitTrenew(0, m.ttl),
                                                        !.status = "RUNNING"], now)
    BY <2>2, <2>3, AnswersMatch, SetTimersMatch
  <2>4. Matches(NegociateMtu(f, m.mtu), NegociateMtu(g, m.mtu), now)
    BY <1>1, MasterMatches
  <2>5. Matches(NegociateMtu(ChangeMaster(f, m.src, UnknownHlid), m.mtu),
                NegociateMtu(ChangeMaster(g, m.src, UnknownHlid), m.mtu), now)
    BY <1>1, MasterMatches
  <2> QED
    BY <2>3, <2>4, <2>5 DEF Associate, Renew
<1>6. CASE c.status = "WAITING_UNKNOWN"
  <2>1. Matches(MeetMaster(f, m, now), MeetMaster(g, m, 0), now)
    BY <1>1, <1>3, MasterMatches, SetTimersMatch DEF MeetMaster
  <2>2. Matches(DiscoverIfDue(f, now), DiscoverIfDue(g, 0), now)
    BY <1>1, <1>6, WaitingMatches
  <2> QED
    BY <1>1, <1>5, <1>6, <2>1, <2>2 DEF LoopResult, f, g
<1>7. CASE c.status = "WAITING_KNOWN"
  <2>1. Matches(WaitForMaster(f, now), WaitForMaster(g, 0), now)
    BY <1>1, <1>7, WaitingMatches
  <2>2. /\ Matches(ChangeMaster(f, m.src, m.hlid), ChangeMaster(g, m.src, m.hlid), now)
        /\ ChangeMaster(f, m.src, m.hlid).status = "WAITING_KNOWN"
    <3>1. Matches(ChangeMaster(f, m.src, m.hlid), ChangeMaster(g, m.src, m.hlid), now)
      BY <1>1, MasterMatches
    <3>2. IsEngine(f) /\ f.status = "WAITING_KNOWN"
      BY <1>1, <1>7 DEF Matches, SameEngine
    <3>3. ChangeMaster(f, m.src, m.hlid).status = "WAITING_KNOWN"
      BY <3>2 DEF ChangeMaster, IsEngine, EngineFields
    <3> QED
      BY <3>1, <3>3
  <2>3. Matches(WaitForMaster(ChangeMaster(f, m.src, m.hlid), now),
                WaitForMaster(ChangeMaster(g, m.src, m.hlid), 0), now)
    BY <2>2, WaitingMatches
  <2> QED
    BY <1>1, <1>5, <1>7, <2>1, <2>3 DEF LoopResult, f, g
<1>8. CASE c.status \notin {"COLDSTART", "WAITING_UNKNOWN", "WAITING_KNOWN"}
  <2> DEFINE handled(x, y, now0) ==
               IF m.type = "Hello" THEN HelloWhileAssociated(y, m, now0)
               ELSE IF m.type = "Assoc" /\ SameMaster(x, m.src) THEN Renew(y, m, now0)
               ELSE IF m.type = "Request" THEN AnswerRequest(y, m.answer)
               ELSE y
  <2>1. Matches(HelloWhileAssociated(f, m, now), HelloWhileAssociated(g, m, 0), now)
    <3> DEFINE x == NegociateMtu(ChangeMaster(f, m.src, m.hlid), 0)
               y == NegociateMtu(ChangeMaster(g, m.src, m.hlid), 0)
    <3>1. Matches(x, y, now)
      BY <1>1, MasterMatches
    <3>2. f.hlid = g.hlid /\ (SameMaster(f, m.src) <=> SameMaster(g, m.src))
      BY <1>1 DEF Matches, SameEngine, SameMaster
    <3> HIDE DEF x, y
    <3>3. Matches([x EXCEPT !.twait = InitTwait(now), !.status = "WAITING_KNOWN"],
                  [y EXCEPT !.twait = InitTwait(0), !.status = "WAITING_KNOWN"], now)
      BY <1>3, <3>1, SetTimersMatch
    <3>4. /\ HelloWhileAssociated(f, m, now) =
               IF SameMaster(f, m.src) /\ m.hlid = f.hlid THEN f
               ELSE IF f.hlid = UnknownHlid THEN x
               ELSE [x EXCEPT !.twait = InitTwait(now), !.status = "WAITING_KNOWN"]
          /\ HelloWhileAssociated(g, m, 0) =
               IF SameMaster(g, m.src) /\ m.hlid = g.hlid THEN g
               ELSE IF g.hlid = UnknownHlid THEN y
               ELSE [y EXCEPT !.twait = InitTwait(0), !.status = "WAITING_KNOWN"]
      BY Zenon DEF HelloWhileAssociated, x, y
    <3> QED
      BY <1>1, <3>1, <3>2, <3>3, <3>4
  <2>2. Matches(AnswerRequest(f, m.answer), AnswerRequest(g, m.answer), now)
    BY <1>1, AnswersMatch
  <2>3. Matches(handled(c, f, now), handled(e, g, 0), now)
    BY <1>1, <1>2, <1>5, <2>1, <2>2
  <2>4. /\ LoopResult(c, m, now) = KeepAssociation(handled(c, f, now), now)
        /\ LoopResult(e, m, 0) = KeepAssociation(handled(e, g, 0), 0)
    BY <1>1, <1>8 DEF LoopResult, f, g
  <2> HIDE DEF handled
  <2> QED
    BY <2>3, <2>4, KeepMatches
<1> QED
  BY <1>4, <1>6, <1>7, <1>8

\* A timer of CasanNet, one gap later.  What it forgets nothing looks at.
LEMMA PassMatches ==
    ASSUME NEW c, NEW e, NEW t \in Int, NEW gap \in Nat,
           SameEngine(c, e), SameTimers(c, e, t)
    PROVE  SameEngine(c, Passed(e, gap)) /\ SameTimers(c, Passed(e, gap), t + gap)
<1>1. ASSUME NEW x, NEW y, SameTimer(x, y, t)
      PROVE  SameTimer(x, Older(y, gap, TRUE), t + gap)
  <2> DEFINE o == [y EXCEPT !.next = @ - gap, !.limit = Past(@, gap)]
  <2>1. y # NoTimer
    BY <1>1 DEF SameTimer, NoTimer
  <2>2. Older(y, gap, TRUE) = o
    BY <2>1 DEF Older
  <2>3. IsTimer(o) /\ o.next = y.next - gap /\ o.inc = y.inc /\ o.limit = Past(y.limit, gap)
    BY <1>1 DEF SameTimer, IsTimer
  <2> HIDE DEF o
  <2>4. \/ Past(y.limit, gap) = y.limit - gap
        \/ y.limit - gap < -1 /\ Past(y.limit, gap) = -1
    BY DEF Past
  <2>5. SameTimer(x, o, t + gap)
    BY <1>1, <2>3, <2>4 DEF SameTimer
  <2> QED
    BY <2>2, <2>5
<1> DEFINE w == Older(e.twait, gap, e.status \notin Associated)
           r == Older(e.trenew, gap, e.status \in Associated)
<1>2. Passed(e, gap) = [Fresh(e) EXCEPT !.twait = w, !.trenew = r]
  BY DEF Passed, Fresh, SameEngine, IsEngine, EngineFields
<1>3. c.status \in {"WAITING_UNKNOWN", "WAITING_KNOWN"} => SameTimer(c.twait, w, t + gap)
  BY <1>1 DEF SameTimers, SameEngine, Associated
<1>4. c.status \in Associated => SameTimer(c.trenew, r, t + gap)
  BY <1>1 DEF SameTimers, SameEngine
<1> HIDE DEF w, r
<1> QED
  BY <1>2, <1>3, <1>4 DEF SameEngine, SameTimers, Fresh, IsEngine, EngineFields

\* Both begin in the same way.
LEMMA SameAtFirst == Init => SameEngine(ca, ca) /\ SameTimers(ca, ca, curtime)
BY DEF Init, SameEngine, SameTimers, IsEngine, EngineFields, Associated

\* The relative times of CasanNet lose nothing: when the two engines are the same
\* but for the way their times are written, they still are after a gap and a call
\* of loop(), and have sent the same messages.
THEOREM TimeIsRelative ==
    ASSUME NEW c, NEW e, NEW t \in Int, NEW gap \in Nat, NEW m \in Messages,
           SameEngine(c, e), SameTimers(c, e, t)
    PROVE  Matches(LoopResult(c, m, t + gap), LoopResult(Passed(e, gap), m, 0), t + gap)
<1>1. SameEngine(c, Passed(e, gap)) /\ SameTimers(c, Passed(e, gap), t + gap)
  BY PassMatches
<1>2. t + gap \in Int
  OBVIOUS
<1> QED
  BY <1>1, <1>2, LoopMatches

=============================================================================
