-------------------------------- MODULE Casan --------------------------------
(****************************************************************************)
(* The CASAN engine of a slave: libraries/Casan/casan.c.                    *)
(*                                                                          *)
(* The application calls loop() again and again from one cooperative        *)
(* process, so one call is one atomic step.  A step reads the clock, takes  *)
(* at most one message from the network, and acts on it according to the    *)
(* status of the engine; the timers are looked at afterwards.  The C        *)
(* functions which change the engine are operators from an engine record to *)
(* an engine record, composed in the order of the calls in loop().          *)
(*                                                                          *)
(* What a message says is kept, how it is written is not: is_ctl_msg,       *)
(* is_hello and is_assoc sort the messages into the types of Messages.      *)
(****************************************************************************)
EXTENDS CasanTime, Sequences, FiniteSets

CONSTANTS
    Masters,      \* 802.15.4 addresses a message can come from
    NoMaster,     \* the NULL master_, for which Discovers are broadcast
    HelloIds,     \* hello-ids the masters announce
    Ttls,         \* slave TTLs granted by Assoc messages, as times
    Mtus,         \* MTUs announced by Assoc messages
    L2Mtu,        \* MTU of the L2 network when the engine is created
    AppMtu,       \* MTU given to initCasan by the application, 0 for default
    DiscoverMtu,  \* smallest MTU a Discover message fits in
    ID_SPACE,     \* number of CoAP message ids
    Gaps,         \* times which may pass between two calls of loop()
    Horizon       \* bound on curtime

\* initCasan keeps the smaller of the two MTUs.
DefMtu == IF AppMtu > 0 /\ AppMtu < L2Mtu THEN AppMtu ELSE L2Mtu

ASSUME CasanAssumption ==
    /\ NoMaster \notin Masters
    /\ HelloIds \subseteq Nat
    /\ Ttls \subseteq Nat \ {0, 1}  \* n*50 ms for a positive n
    /\ Mtus \subseteq Nat \ {0}
    /\ L2Mtu \in Nat \ {0} /\ AppMtu \in Nat
    /\ DiscoverMtu \in 0..DefMtu
    /\ ID_SPACE \in Nat \ {0}
    /\ Gaps \subseteq Nat /\ Horizon \in Nat

VARIABLES
    curtime,  \* the global curtime, as of the last call of loop()
    ca,       \* the engine, with the effects of the last call of loop()
    lease     \* history: the last Assoc message the engine accepted

vars == <<curtime, ca, lease>>

Status == {"COLDSTART", "WAITING_UNKNOWN", "WAITING_KNOWN", "RUNNING", "RENEW"}
Associated == {"RUNNING", "RENEW"}

UnknownHlid == -1

\* Answers process_request can build: with or without a payload, or with one
\* that makes the message too large to be encoded.
Answers == {"NoPayload", "Payload", "TooLarge"}

\* The messages loop() tells apart.  "Control" is a control message which is
\* neither a Hello nor a complete Assoc (such as the Discover of another
\* slave); "None" stands for the RECV_... results other than RECV_OK.
Messages ==
         [type: {"Hello"}, src: Masters, hlid: HelloIds]
    \cup [type: {"Assoc"}, src: Masters, ttl: Ttls, mtu: Mtus]
    \cup [type: {"Request"}, src: Masters, answer: Answers]
    \cup [type: {"Control"}, src: Masters]
    \cup {[type |-> "None"]}

\* A pointer to allocated memory: "freed" is a pointer left dangling by free.
Pointer == {"null", "live", "freed"}

\* A message handed to the L2 network.  It is not intact when its bytes come
\* from freed memory instead of from the message it stands for.
Frame == [msg: {"Discover", "AssocAnswer", "Response"},
          dest: Masters \cup {NoMaster}, intact: BOOLEAN]

Engine ==
    [status:  Status,
     master:  Masters \cup {NoMaster},           \* master_
     hlid:    HelloIds \cup {UnknownHlid},       \* hlid_
     curmtu:  Nat,                               \* curmtu_
     l2mtu:   Nat,                               \* l2_->mtu_
     curid:   0..(ID_SPACE - 1),                 \* curid_, as set_id cuts it
     twait:   Timer \cup {NoTimer},              \* twait_
     trenew:  Timer \cup {NoTimer},              \* trenew_
     encoded: Pointer,                           \* out->encoded_
     payload: Pointer,                           \* out->payload_
     air:     Seq(Frame)]                        \* messages sent by loop()

Lease == [src: Masters, start: Time, ttl: Ttls, mtu: Mtus, discovers: Nat]
NoLease == [src |-> NoMaster]

----------------------------------------------------------------------------
(* Sending: msg.c and the end of casan.c.                                   *)

\* resetMsg frees what it finds, and does not clear the pointers.
Release(ptr) == IF ptr = "null" THEN "null" ELSE "freed"
ResetMsg(c) == [c EXCEPT !.encoded = Release(@), !.payload = Release(@)]

\* sendMsg encodes the message unless it has been, then gives it to the L2
\* network; nothing is sent when it does not fit in the MTU.
SendMsg(c, msg, dest, fits) ==
    LET sent(intact) == Append(c.air, [msg |-> msg, dest |-> dest, intact |-> intact])
    IN  IF c.encoded # "null" THEN [c EXCEPT !.air = sent(FALSE)]
        ELSE IF fits THEN [c EXCEPT !.encoded = "live",
                                    !.air = sent(c.payload # "freed")]
        ELSE c

\* send_discover: to the master, or to everybody when there is none.
SendDiscover(c) ==
    SendMsg([ResetMsg(c) EXCEPT !.curid = (@ + 1) % ID_SPACE],
            "Discover", c.master, c.l2mtu >= DiscoverMtu)

\* send_assoc_answer: the list of resources, cut so that it fits.
SendAssocAnswer(c, dest) ==
    SendMsg([c EXCEPT !.payload = "live"], "AssocAnswer", dest, TRUE)

\* process_request, then sendMsg to the current master.
AnswerRequest(c, answer) ==
    SendMsg(IF answer = "NoPayload" THEN c ELSE [c EXCEPT !.payload = "live"],
            "Response", c.master, answer # "TooLarge")

----------------------------------------------------------------------------
(* MTU and master handling.                                                 *)

NegociateMtu(c, mtu) ==
    LET m == IF mtu > 0 /\ mtu <= DefMtu THEN mtu ELSE DefMtu
    IN  [c EXCEPT !.curmtu = m, !.l2mtu = m]

ResetMtu(c) == NegociateMtu(c, 0)

FaultyResetMasterKeepsHlid(c) == ResetMtu([c EXCEPT !.master = NoMaster])

ResetMaster(c) ==
    ResetMtu([c EXCEPT !.master = NoMaster, !.hlid = UnknownHlid])

SameMaster(c, src) == c.master # NoMaster /\ c.master = src

\* change_master, without the negociate_mtu call of its last lines.
ChangeMaster(c, src, hlid) ==
    IF SameMaster(c, src)
    THEN IF hlid = UnknownHlid THEN c ELSE [c EXCEPT !.hlid = hlid]
    ELSE [c EXCEPT !.master = src, !.hlid = hlid]

----------------------------------------------------------------------------
(* The pieces loop() is made of.                                            *)

\* The two Msg objects of a call are new.
Fresh(c) == [c EXCEPT !.encoded = "null", !.payload = "null", !.air = <<>>]

\* A Hello makes a master known; its MTU is kept.
MeetMaster(c, m, now) ==
    [ChangeMaster(c, m.src, m.hlid) EXCEPT !.twait = InitTwait(now),
                                           !.status = "WAITING_KNOWN"]

\* An Assoc makes it the master of the slave.
Associate(c, m, now) ==
    LET negociated == NegociateMtu(ChangeMaster(c, m.src, UnknownHlid), m.mtu)
    IN  [SendAssocAnswer(negociated, m.src)
            EXCEPT !.trenew = InitTrenew(now, m.ttl), !.status = "RUNNING"]

\* An Assoc from the current master renews the association.
Renew(c, m, now) ==
    [SendAssocAnswer(NegociateMtu(c, m.mtu), m.src)
        EXCEPT !.trenew = InitTrenew(now, m.ttl), !.status = "RUNNING"]

\* Faulty: the MTU of the previous master is kept.
FaultyHelloKeepsMtu(c, m, now) ==
    IF SameMaster(c, m.src) /\ m.hlid = c.hlid THEN c
    ELSE [ChangeMaster(c, m.src, m.hlid) EXCEPT !.twait = InitTwait(now),
                                                !.status = "WAITING_KNOWN"]

\* Faulty: the first Hello of a master met by its Assoc ends the association.
FaultyHelloAlwaysNews(c, m, now) ==
    IF SameMaster(c, m.src) /\ m.hlid = c.hlid THEN c
    ELSE [NegociateMtu(ChangeMaster(c, m.src, m.hlid), 0)
            EXCEPT !.twait = InitTwait(now), !.status = "WAITING_KNOWN"]

\* Faulty: a Hello of the master prolongs the association.
FaultyHelloProlongs(c, m, now) ==
    IF SameMaster(c, m.src) /\ m.hlid = c.hlid
    THEN [c EXCEPT !.trenew = InitTrenew(now, 2 * c.trenew.inc)]
    ELSE LET changed == NegociateMtu(ChangeMaster(c, m.src, m.hlid), 0)
         IN  IF c.hlid = UnknownHlid THEN changed
             ELSE [changed EXCEPT !.twait = InitTwait(now),
                                  !.status = "WAITING_KNOWN"]

\* A Hello during an association: nothing, or a new hello-id or master, which
\* ends the association unless the previous hello-id was unknown.
HelloWhileAssociated(c, m, now) ==
    IF SameMaster(c, m.src) /\ m.hlid = c.hlid THEN c
    ELSE LET changed == NegociateMtu(ChangeMaster(c, m.src, m.hlid), 0)
         IN  IF c.hlid = UnknownHlid THEN changed
             ELSE [changed EXCEPT !.twait = InitTwait(now),
                                  !.status = "WAITING_KNOWN"]

\* The master is given up.
GiveUp(c, now) ==
    [SendDiscover(ResetMaster(c)) EXCEPT !.twait = InitTwait(now),
                                         !.status = "WAITING_UNKNOWN"]

\* Faulty: nothing is broadcast again.
FaultyDiscoverIfDue(c, now) ==
    LET later == [c EXCEPT !.twait = AdvanceTwait(@)]
    IN  IF ~Due(c.twait, now) THEN c
        ELSE IF c.master = NoMaster THEN later ELSE SendDiscover(later)

DiscoverIfDue(c, now) ==
    IF Due(c.twait, now)
    THEN SendDiscover([c EXCEPT !.twait = AdvanceTwait(@)])
    ELSE c

\* The timers in WAITING_KNOWN.
WaitForMaster(c, now) ==
    IF Expired(c.twait, now) THEN GiveUp(c, now) ELSE DiscoverIfDue(c, now)

\* The timers in RUNNING and RENEW: three tests, each on what the one before
\* it left.
StartRenewal(c, now) ==
    IF c.status = "RUNNING" /\ Due(c.trenew, now)
    THEN [SendDiscover([c EXCEPT !.trenew = AdvanceTrenew(@)]) EXCEPT !.status = "RENEW"]
    ELSE c

RepeatRenewal(c, now) ==
    IF c.status = "RENEW" /\ Due(c.trenew, now)
    THEN SendDiscover([c EXCEPT !.trenew = AdvanceTrenew(@)])
    ELSE c

ExpireRenewal(c, now) ==
    IF c.status = "RENEW" /\ Expired(c.trenew, now) THEN GiveUp(c, now) ELSE c

KeepAssociation(c, now) ==
    ExpireRenewal(RepeatRenewal(StartRenewal(c, now), now), now)

----------------------------------------------------------------------------
(* initCasan, the branches of loop(), resetCasan.                           *)

Init ==
    /\ curtime = 0
    /\ ca = [status |-> "COLDSTART", master |-> NoMaster, hlid |-> UnknownHlid,
             curmtu |-> DefMtu, l2mtu |-> DefMtu, curid |-> 1 % ID_SPACE,
             twait |-> NoTimer, trenew |-> NoTimer,
             encoded |-> "null", payload |-> "null", air |-> <<>>]
    /\ lease = NoLease

\* history: the Assoc m is accepted at time now.
Granted(m, now) ==
    [src |-> m.src, start |-> now, ttl |-> m.ttl, mtu |-> m.mtu, discovers |-> 0]

\* history: the frames the call of loop() sent in the place of a Discover.
Discovers(c) == Cardinality({i \in DOMAIN c.air : c.air[i].msg = "Discover"})
CountDiscovers == lease' = [lease EXCEPT !.discovers = @ + Discovers(ca')]

\* Faulty: the timer is not initialised.
FaultyColdStart(now) ==
    /\ ca.status = "COLDSTART"
    /\ ca' = [SendDiscover(Fresh(ca)) EXCEPT !.status = "WAITING_UNKNOWN"]
    /\ UNCHANGED lease

\* COLDSTART: the message is taken from the network and ignored.
ColdStart(now) ==
    /\ ca.status = "COLDSTART"
    /\ ca' = [SendDiscover(Fresh(ca)) EXCEPT !.twait = InitTwait(now),
                                             !.status = "WAITING_UNKNOWN"]
    /\ UNCHANGED lease

UnknownHello(m, now) ==
    /\ ca.status = "WAITING_UNKNOWN" /\ m.type = "Hello"
    /\ ca' = MeetMaster(Fresh(ca), m, now)
    /\ UNCHANGED lease

UnknownAssoc(m, now) ==
    /\ ca.status = "WAITING_UNKNOWN" /\ m.type = "Assoc"
    /\ ca' = Associate(Fresh(ca), m, now)
    /\ lease' = Granted(m, now)

UnknownOther(m, now) ==
    /\ ca.status = "WAITING_UNKNOWN" /\ m.type \notin {"Hello", "Assoc"}
    /\ ca' = DiscoverIfDue(Fresh(ca), now)
    /\ UNCHANGED lease

KnownHello(m, now) ==
    /\ ca.status = "WAITING_KNOWN" /\ m.type = "Hello"
    /\ ca' = WaitForMaster(ChangeMaster(Fresh(ca), m.src, m.hlid), now)
    /\ UNCHANGED lease

KnownAssoc(m, now) ==
    /\ ca.status = "WAITING_KNOWN" /\ m.type = "Assoc"
    /\ ca' = Associate(Fresh(ca), m, now)
    /\ lease' = Granted(m, now)

KnownOther(m, now) ==
    /\ ca.status = "WAITING_KNOWN" /\ m.type \notin {"Hello", "Assoc"}
    /\ ca' = WaitForMaster(Fresh(ca), now)
    /\ UNCHANGED lease

AssociatedHello(m, now) ==
    /\ ca.status \in Associated /\ m.type = "Hello"
    /\ ca' = KeepAssociation(HelloWhileAssociated(Fresh(ca), m, now), now)
    /\ CountDiscovers

AssociatedAssoc(m, now) ==
    /\ ca.status \in Associated /\ m.type = "Assoc" /\ SameMaster(ca, m.src)
    /\ ca' = KeepAssociation(Renew(Fresh(ca), m, now), now)
    /\ lease' = Granted(m, now)

\* Faulty: the request is answered after the timers.
FaultyAssociatedRequest(m, now) ==
    /\ ca.status \in Associated /\ m.type = "Request"
    /\ ca' = AnswerRequest(KeepAssociation(Fresh(ca), now), m.answer)
    /\ CountDiscovers

AssociatedRequest(m, now) ==
    /\ ca.status \in Associated /\ m.type = "Request"
    /\ ca' = KeepAssociation(AnswerRequest(Fresh(ca), m.answer), now)
    /\ CountDiscovers

\* Nothing received, another control message, or the Assoc of another master.
AssociatedOther(m, now) ==
    /\ ca.status \in Associated
    /\ \/ m.type \in {"Control", "None"}
       \/ m.type = "Assoc" /\ ~SameMaster(ca, m.src)
    /\ ca' = KeepAssociation(Fresh(ca), now)
    /\ CountDiscovers

Loop(m, now) ==
    \/ ColdStart(now)
    \/ UnknownHello(m, now) \/ UnknownAssoc(m, now) \/ UnknownOther(m, now)
    \/ KnownHello(m, now) \/ KnownAssoc(m, now) \/ KnownOther(m, now)
    \/ AssociatedHello(m, now) \/ AssociatedAssoc(m, now)
    \/ AssociatedRequest(m, now) \/ AssociatedOther(m, now)

\* resetCasan, called between two calls of loop().
ResetCasan ==
    /\ ca' = ResetMaster([Fresh(ca) EXCEPT !.status = "COLDSTART",
                                           !.curid = 1 % ID_SPACE])
    /\ UNCHANGED <<curtime, lease>>

Next ==
    \/ \E m \in Messages, gap \in Gaps :
         /\ curtime + gap <= Horizon
         /\ curtime' = curtime + gap
         /\ Loop(m, curtime + gap)
    \/ ResetCasan

Spec == Init /\ [][Next]_vars

----------------------------------------------------------------------------
(* Properties.                                                              *)

\* Every variable keeps its type; the timers an engine looks at in its status
\* have been initialised.
TypeOK ==
    /\ curtime \in Time
    /\ ca \in Engine
    /\ lease \in Lease \cup {NoLease}
    /\ ca.status # "COLDSTART" => ca.twait \in Timer
    /\ ca.status \in Associated => ca.trenew \in Timer /\ lease \in Lease

\* master_ is NULL exactly while the slave looks for a master, and then no
\* hello-id or negotiated MTU of an earlier master is left.  loop() relies on
\* it: in RUNNING and RENEW it sends to *master_ without a test.
MasterMatchesStatus ==
    IF ca.status \in {"COLDSTART", "WAITING_UNKNOWN"}
    THEN ca.master = NoMaster /\ ca.hlid = UnknownHlid /\ ca.curmtu = DefMtu
    ELSE ca.master # NoMaster

\* An MTU other than the default is in use, by the engine and by the L2
\* network alike, only during the association which negotiated it and only
\* towards the master it was negotiated with.
MtuBelongsToLease ==
    /\ ca.l2mtu = ca.curmtu
    /\ ca.curmtu # DefMtu => /\ ca.status \in Associated
                             /\ ca.master = lease.src /\ ca.curmtu = lease.mtu

\* loop() never leaves the slave associated beyond the TTL of the last Assoc
\* it accepted, however late it is called and whatever it received since, and
\* never leaves it in RUNNING in the second half of that TTL.
LeaseHonoured ==
    /\ ca.status \in Associated => curtime < lease.start + lease.ttl
    /\ ca.status = "RUNNING" => curtime < lease.start + (lease.ttl \div 2)

\* The renewal Discovers of an association are at least TIMER_RENEW_MIN apart
\* on average, counted from half time, even when loop() is called late.
RenewalBudget ==
    ca.status = "RENEW" =>
        lease.discovers = 0 \/
        (lease.discovers - 1) * TIMER_RENEW_MIN <=
            curtime - (lease.start + (lease.ttl \div 2))

\* Whatever the slave answers, to an Assoc or to a request, has a destination.
AnswersHaveDestination ==
    \A i \in DOMAIN ca.air :
        ca.air[i].dest = NoMaster => ca.air[i].msg = "Discover"

\* The engine implements the abstract slave of module Association: no phase is
\* left in place beyond its deadline, only an answered Assoc begins or prolongs
\* an association, only news interrupt it, and the slave calls out as soon as
\* it gives a master up.
Phase(c) == CASE c.status = "WAITING_KNOWN" -> "waiting"
              [] c.status \in Associated -> "associated"
              [] OTHER -> "seeking"
Deadline(c) == CASE c.status = "WAITING_KNOWN" -> c.twait.limit
                 [] c.status \in Associated -> c.trenew.limit
                 [] OTHER -> 0
SentBy(c) == {c.air[i] : i \in DOMAIN c.air}

Abstract == INSTANCE Association WITH
    WaitMax <- TIMER_WAIT_MAX, now <- curtime, phase <- Phase(ca), who <- ca.master,
    hlid <- ca.hlid, deadline <- Deadline(ca), sent <- SentBy(ca)

ImplementsAssociation == Abstract!Spec

\* What casan.c says of send_discover, "Send a discover message": the bytes
\* sent in the place of a Discover are those of a Discover.
DiscoversAreIntact ==
    \A i \in DOMAIN ca.air : ca.air[i].msg = "Discover" => ca.air[i].intact

=============================================================================
