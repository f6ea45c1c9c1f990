------------------------------- MODULE Retrans -------------------------------
(****************************************************************************)
(* The retransmission list, libraries/Casan/retrans.c: confirmable messages *)
(* which are sent again, later and later, until they are acknowledged, have *)
(* been sent often enough, or the slave has no master any more.             *)
(*                                                                          *)
(* The list is a function from the ids of the pending messages to their     *)
(* entries: a message is found by its id only, and its place in the list    *)
(* matters to nobody.  The application adds messages (check_msg_sent)       *)
(* between two calls of loop(), with ids that are not pending.              *)
(****************************************************************************)
EXTENDS Integers, Functions

CONSTANTS
    Ids,             \* message ids
    TIMEOUT,         \* ACK_TIMEOUT * ACK_RANDOM_FACTOR
    MAX_RETRANSMIT,
    MaxGap,          \* longest time between two calls of loop()
    W,               \* number of values of a time_t
    Horizon          \* bound on the time

ASSUME RetransAssumption ==
    /\ TIMEOUT \in Nat \ {0} /\ MAX_RETRANSMIT \in Nat \ {0}
    /\ MaxGap \in Nat \ {0} /\ W \in Nat /\ Horizon \in 0..(W - 1)

VARIABLES
    now,       \* the clock
    turn,      \* history: the time of the last call of loop()
    master,    \* *master_addr_ is not NULL
    retransq,  \* the list
    sent,      \* history: the ids sent again by the last step
    first      \* history: when each pending message was sent first

vars == <<now, turn, master, retransq, sent, first>>

Entry == [timelast: 0..(W - 1), timenext: 0..(W - 1), ntrans: 0..MAX_RETRANSMIT]
Empty == [id \in {} |-> 0]
Without(q, ids) == Restrict(q, DOMAIN q \ ids)

----------------------------------------------------------------------------

Init ==
    /\ now = 0 /\ turn = 0
    /\ master \in BOOLEAN
    /\ retransq = Empty /\ first = Empty
    /\ sent = {}

Tick ==
    /\ now < Horizon /\ now < turn + MaxGap
    /\ now' = now + 1 /\ sent' = {}
    /\ UNCHANGED <<turn, master, retransq, first>>

\* addRetrans, by check_msg_sent of a confirmable message.
AddRetrans(id) ==
    LET entry == [timelast |-> now, timenext |-> (now + TIMEOUT) % W, ntrans |-> 0]
    IN  /\ id \notin DOMAIN retransq
        /\ retransq' = [i \in DOMAIN retransq \cup {id} |->
                          IF i = id THEN entry ELSE retransq[i]]
        /\ first' = [i \in DOMAIN first \cup {id} |-> IF i = id THEN now ELSE first[i]]
        /\ sent' = {}
        /\ UNCHANGED <<now, turn, master>>

FaultyExhausted(e) == e.ntrans > MAX_RETRANSMIT  \* one time more
Exhausted(e) == e.ntrans >= MAX_RETRANSMIT
DueAgain(e) == ~Exhausted(e) /\ e.timenext < now

\* Faulty: the timeout does not double.
FaultySentAgain(e) ==
    [timelast |-> now,
     timenext |-> (e.timenext + (e.timenext - e.timelast)) % W,
     ntrans   |-> e.ntrans + 1]

\* The entry of a message which has been sent again; times are unsigned.
SentAgain(e) ==
    [timelast |-> now,
     timenext |-> (e.timenext + 2 * (e.timenext - e.timelast)) % W,
     ntrans   |-> e.ntrans + 1]

\* The pass of loopRetrans over the list of a slave which has a master.
Pass(q) ==
    [id \in {i \in DOMAIN q : ~Exhausted(q[i])} |->
        IF DueAgain(q[id]) THEN SentAgain(q[id]) ELSE q[id]]

\* loopRetrans: without a master, the list is emptied.
LoopRetrans == IF master THEN Pass(retransq) ELSE Empty

\* A call of loop(): loopRetrans, then check_msg_received on what has been
\* received, an acknowledgement of one of the messages or something else, then
\* the engine keeps, finds or loses its master.
Turn(acked) ==
    /\ turn' = now
    /\ retransq' = Without(LoopRetrans, acked)
    /\ first' = Restrict(first, DOMAIN retransq')
    /\ sent' = IF master THEN {i \in DOMAIN retransq : DueAgain(retransq[i])} ELSE {}
    /\ master' \in BOOLEAN
    /\ UNCHANGED now

\* resetCasan: resetRetrans and reset_master.
ResetRetrans ==
    /\ retransq' = Empty /\ first' = Empty /\ sent' = {}
    /\ master' = FALSE
    /\ UNCHANGED <<now, turn>>

Next ==
    \/ Tick
    \/ \E id \in Ids : AddRetrans(id)
    \/ \E acked \in {{}} \cup {{id} : id \in Ids} : Turn(acked)
    \/ ResetRetrans

Spec == Init /\ [][Next]_vars

----------------------------------------------------------------------------
(* Properties.                                                              *)

TypeOK ==
    /\ now \in 0..Horizon /\ turn \in 0..Horizon /\ master \in BOOLEAN
    /\ DOMAIN retransq \subseteq Ids /\ DOMAIN first = DOMAIN retransq
    /\ \A id \in DOMAIN retransq : retransq[id] \in Entry /\ first[id] \in 0..now
    /\ sent \subseteq Ids

\* The n-th retransmission of a message comes after the n-th of the timeouts that
\* double, less what the calls of loop() before it were late; so two
\* transmissions are more than TIMEOUT apart when MaxGap is not above it.
BackoffKept ==
    [][\A id \in sent' :
          now' - retransq[id].timelast >
             2^retransq[id].ntrans * (TIMEOUT - MaxGap) + MaxGap]_vars

\* A message does not stay: acknowledged or not, it is out of the list at the
\* second call of loop() after the sum of its timeouts.
MessagesExpire ==
    \A id \in DOMAIN retransq :
        turn <= first[id] + (2^MAX_RETRANSMIT - 1) * TIMEOUT + MaxGap

=============================================================================
