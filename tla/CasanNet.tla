------------------------------ MODULE CasanNet -------------------------------
(****************************************************************************)
(* A slave, its masters, and the network between them: the engine of module *)
(* Casan with messages that come from somewhere.                            *)
(*                                                                          *)
(* The network loses, repeats, reorders and delays.  The masters are        *)
(* external: src/ has only the slave, and they are modelled from what it    *)
(* expects of them.  They say Hello, answer a Discover with an Assoc, send  *)
(* requests, and may restart under another hello-id, having forgotten their *)
(* slaves.                                                                  *)
(*                                                                          *)
(* The engine only compares times with the present one.  Here the present   *)
(* is always 0 and the passage of time moves every time to the past, which  *)
(* leaves finitely many states without a bound on time, as the liveness     *)
(* properties need.                                                         *)
(****************************************************************************)
EXTENDS Casan

CONSTANTS
    MaxDelay,   \* how long an Assoc may be on its way
    Restarting  \* masters that may restart

ASSUME NetAssumption ==
    /\ MaxDelay \in Nat /\ \A gap \in Gaps : 0 < gap /\ gap <= MaxDelay
    /\ HelloIds # {} /\ Restarting \subseteq Masters

VARIABLES
    discovers,  \* Discovers on their way, by their destination
    assocs,     \* Assocs on their way, and not forgotten by the network
    epoch,      \* the hello-id of each master since it started
    grantor,    \* history: the hello-id of the master which granted the lease
    calm,       \* history: since the last Assoc, nothing has gone wrong
    called      \* loop() has been called since time last passed

netvars == <<vars, discovers, assocs, epoch, grantor, calm, called>>

Packet(m, ttl, mtu) ==
    [msg |-> [type |-> "Assoc", src |-> m, ttl |-> ttl, mtu |-> mtu],
     inc |-> epoch[m], age |-> 0]

NetInit ==
    /\ Init
    /\ discovers = {} /\ assocs = {} /\ called = FALSE
    /\ epoch = [m \in Masters |-> CHOOSE h \in HelloIds : \A i \in HelloIds : h <= i]
    /\ grantor = UnknownHlid /\ calm = FALSE

----------------------------------------------------------------------------
(* Time.  The application calls loop() once between two passages of time.   *)

Past(time, gap) == IF time - gap < -1 THEN -1 ELSE time - gap

\* A timer which nothing will read any more is forgotten, and a deadline which
\* is over is over.
Older(timer, gap, used) ==
    IF ~used \/ timer = NoTimer THEN NoTimer
    ELSE [timer EXCEPT !.next = @ - gap, !.limit = Past(@, gap)]

\* What the call of loop() has sent and its out message are forgotten too; of
\* the lease only its master is of use here.
Pass(gap) ==
    /\ called /\ called' = FALSE
    /\ ca' = [Fresh(ca) EXCEPT !.twait = Older(@, gap, ca.status \notin Associated),
                               !.trenew = Older(@, gap, ca.status \in Associated)]
    /\ lease' = IF ca.status \in Associated THEN [lease EXCEPT !.discovers = 0]
                ELSE NoLease
    /\ assocs' = {[p EXCEPT !.age = @ + gap] : p \in {q \in assocs : q.age + gap <= MaxDelay}}
    /\ calm' = (calm /\ discovers = {})
    /\ UNCHANGED <<curtime, discovers, epoch, grantor>>

----------------------------------------------------------------------------
(* The slave.                                                               *)

\* The Discovers a call has sent; what is sent in the place of a Discover from
\* freed memory is lost.
Emitted(c) == {c.air[i].dest :
                 i \in {j \in DOMAIN c.air : c.air[j].msg = "Discover" /\ c.air[j].intact}}

\* A call of loop() that receives msg.
Call(msg) ==
    /\ ~called /\ called' = TRUE
    /\ Loop(msg, 0)
    /\ discovers' = discovers \cup Emitted(ca')
    /\ UNCHANGED <<curtime, epoch>>

CallEmpty ==
    /\ Call([type |-> "None"]) /\ UNCHANGED assocs
    /\ calm' = (calm /\ assocs = {})
    /\ UNCHANGED grantor

\* history: an Assoc is not looked at when it comes from another master than
\* the one the slave is associated with.
Accepts(msg) ==
    /\ ca.status # "COLDSTART"
    /\ ca.status \in Associated => SameMaster(ca, msg.src)

\* An Assoc which the network keeps may be received again.
ReceiveAssoc(p) ==
    /\ p \in assocs /\ assocs' \in {assocs, assocs \ {p}}
    /\ Call(p.msg)
    /\ grantor' = IF Accepts(p.msg) THEN p.inc ELSE grantor
    /\ calm' = Accepts(p.msg)

\* A Hello of the present or of an earlier incarnation, however late.
ReceiveHello(m, h) ==
    /\ h <= epoch[m]
    /\ Call([type |-> "Hello", src |-> m, hlid |-> h])
    /\ calm' = FALSE /\ UNCHANGED <<assocs, grantor>>

ReceiveRequest(m) ==
    /\ Call([type |-> "Request", src |-> m, answer |-> "Payload"])
    /\ calm' = FALSE /\ UNCHANGED <<assocs, grantor>>

Slave ==
    \/ CallEmpty \/ (\E p \in assocs : ReceiveAssoc(p))
    \/ \E m \in Masters : ReceiveRequest(m) \/ \E h \in HelloIds : ReceiveHello(m, h)

----------------------------------------------------------------------------
(* The network and the masters.                                             *)

\* A Discover is lost, or an Assoc before the next call of loop().
Lose ==
    /\ \/ \E d \in discovers : discovers' = discovers \ {d} /\ UNCHANGED assocs
       \/ ~called /\ \E p \in assocs : assocs' = assocs \ {p} /\ UNCHANGED discovers
    /\ calm' = FALSE
    /\ UNCHANGED <<vars, epoch, grantor, called>>

\* A Discover, for this master or for all, is answered; the network may have
\* older Assocs of the same incarnation, but not of the same content.
MasterAnswers(m, ttl, mtu) ==
    /\ \E d \in discovers \cap {m, NoMaster} : discovers' = discovers \ {d}
    /\ LET p == Packet(m, ttl, mtu)
       IN  assocs' = {q \in assocs : q.msg # p.msg \/ q.inc # p.inc} \cup {p}
    /\ UNCHANGED <<vars, epoch, grantor, calm, called>>

\* A master starts again, as often as there are hello-ids.
MasterRestarts(m) ==
    /\ \E h \in HelloIds : h > epoch[m] /\ epoch' = [epoch EXCEPT ![m] = h]
    /\ UNCHANGED <<vars, discovers, assocs, grantor, calm, called>>

MastersAnswer == \E m \in Masters, ttl \in Ttls, mtu \in Mtus : MasterAnswers(m, ttl, mtu)

NetNext ==
    \/ \E gap \in Gaps : Pass(gap)
    \/ Slave \/ Lose \/ MastersAnswer
    \/ \E m \in Restarting : MasterRestarts(m)

\* Time passes and loop() goes on being called, as casan.c requires; a master
\* that is asked again and again answers, and an answer which comes again and
\* again is received.  Nothing is promised of Hellos and requests.
NetFairness ==
    /\ WF_netvars(\E gap \in Gaps : Pass(gap)) /\ WF_netvars(Slave)
    /\ SF_netvars(MastersAnswer)
    /\ SF_netvars(\E p \in assocs : ReceiveAssoc(p))

NetSpec == NetInit /\ [][NetNext]_netvars /\ NetFairness

----------------------------------------------------------------------------
(* Properties.                                                              *)

\* As long as nothing goes wrong, an association does not lapse: a Discover
\* sent at half time is answered before its end, whenever loop() is called.
CalmKeepsAssociation == calm => ca.status \in Associated

\* Whatever is lost or late, the slave is associated again and again.
AssociatedAgain == []<>(ca.status \in Associated)

\* An association which no running master has granted, because the master
\* restarted or because the slave took another one, does not last.
Stale == ca.status \in Associated /\ <<ca.master, epoch[ca.master]>> # <<lease.src, grantor>>
StaleAssociationEnds == Stale ~> ~Stale

=============================================================================
