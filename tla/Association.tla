----------------------------- MODULE Association -----------------------------
(****************************************************************************)
(* What a CASAN slave promises: an abstract specification of the engine of  *)
(* casan.c, without its timers, its MTU and the messages it ignores.        *)
(*                                                                          *)
(* A slave seeks a master, waits for one it has heard of, or is associated. *)
(* Waiting and being associated have a deadline, after which no step leaves *)
(* the slave in that phase.  Module Casan implements this specification.    *)
(****************************************************************************)
EXTENDS Integers

CONSTANTS
    Masters, NoMaster,      \* addresses, and the address nobody has
    HelloIds, UnknownHlid,  \* hello-ids, and the one which is not known yet
    Ttls,                   \* lengths of an association
    WaitMax                 \* how long a slave waits for a known master

VARIABLES
    now,       \* the time of the last step
    phase,     \* "seeking", "waiting" or "associated"
    who,       \* the master
    hlid,      \* its hello-id
    deadline,  \* the end of the phase, 0 while seeking
    sent       \* what the last step sent

vars == <<now, phase, who, hlid, deadline, sent>>

Phases == {"seeking", "waiting", "associated"}
Sent == [msg: {"Discover", "AssocAnswer", "Response"},
         dest: Masters \cup {NoMaster}, intact: BOOLEAN]

Says(msg, dest, frames) == \E f \in frames : f.msg = msg /\ f.dest = dest
OnlyDiscovers(frames) == \A f \in frames : f.msg = "Discover"
NoAssocAnswer(frames) == \A f \in frames : f.msg # "AssocAnswer"

Init ==
    /\ now = 0 /\ phase = "seeking" /\ who = NoMaster /\ hlid = UnknownHlid
    /\ deadline = 0 /\ sent = {}

Later == now' \in Int /\ now' >= now

----------------------------------------------------------------------------

\* Nobody answers: the slave calls out.
Seek ==
    /\ Later
    /\ phase = "seeking"
    /\ OnlyDiscovers(sent') /\ \A f \in sent' : f.dest = NoMaster
    /\ UNCHANGED <<phase, who, hlid, deadline>>

\* A Hello: there is a master to wait for.
Meet(m, h) ==
    /\ Later
    /\ phase = "seeking" /\ phase' = "waiting"
    /\ who' = m /\ hlid' = h /\ deadline' = now' + WaitMax
    /\ sent' = {}

\* Waiting, for the same master or for one that has just said Hello; the
\* deadline does not move.
Wait ==
    /\ Later /\ now' < deadline
    /\ phase = "waiting"
    /\ \/ UNCHANGED <<who, hlid>>
       \/ who' \in Masters /\ hlid' \in HelloIds
    /\ OnlyDiscovers(sent') /\ \A f \in sent' : f.dest = who'
    /\ UNCHANGED <<phase, deadline>>

\* An Assoc is accepted and answered: of any master, or, during an
\* association, of the current one.
Accept(m, ttl) ==
    /\ Later
    /\ phase = "associated" => m = who
    /\ phase' = "associated" /\ who' = m /\ deadline' = now' + ttl
    /\ hlid' = IF m = who THEN hlid ELSE UnknownHlid
    /\ \E f \in sent' : f.msg = "AssocAnswer" /\ f.dest = m /\ f.intact

\* Requests are answered, the association is renewed in time or not.  The first
\* Hello after an Assoc is no news, even when it names another master.
Serve ==
    /\ Later /\ now' < deadline
    /\ phase = "associated"
    /\ \/ UNCHANGED <<who, hlid>>
       \/ hlid = UnknownHlid /\ who' \in Masters /\ hlid' \in HelloIds
    /\ NoAssocAnswer(sent') /\ \A f \in sent' : f.dest = who'
    /\ UNCHANGED <<phase, deadline>>

\* A Hello which is news ends the association.
Interrupt(m, h) ==
    /\ Later
    /\ phase = "associated" /\ phase' = "waiting"
    /\ hlid # UnknownHlid /\ <<m, h>> # <<who, hlid>>
    /\ who' = m /\ hlid' = h /\ deadline' = now' + WaitMax
    /\ sent' = {}

\* The time is over, and the slave calls out at once.
Expire ==
    /\ Later /\ now' >= deadline
    /\ phase # "seeking" /\ phase' = "seeking"
    /\ who' = NoMaster /\ hlid' = UnknownHlid /\ deadline' = 0
    /\ NoAssocAnswer(sent') /\ Says("Discover", NoMaster, sent')

Reset ==
    /\ phase' = "seeking" /\ who' = NoMaster /\ hlid' = UnknownHlid
    /\ deadline' = 0 /\ sent' = {} /\ UNCHANGED now

Next ==
    \/ Seek \/ Wait \/ Serve \/ Expire \/ Reset
    \/ \E m \in Masters, h \in HelloIds : Meet(m, h) \/ Interrupt(m, h)
    \/ \E m \in Masters, ttl \in Ttls : Accept(m, ttl)

Spec == Init /\ [][Next]_vars

=============================================================================
