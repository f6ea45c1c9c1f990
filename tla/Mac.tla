--------------------------------- MODULE Mac ---------------------------------
(****************************************************************************)
(* The 802.15.4 frames of libraries/ConMsg/ConMsg.c and L2-154/l2-154.c:    *)
(* sendto builds the header, get_received decodes it into the only          *)
(* ConReceivedFrame of the program, whose fields a header may leave as the  *)
(* frame before it left them, and recv looks at them.                       *)
(*                                                                          *)
(* A frame has the fields of its header, with None for an address it does   *)
(* not have, its payload as a length, and rawlen, the length the driver     *)
(* gives to it_receive_frame.  The ring between the driver and recv is      *)
(* modelled in ConMsg.                                                      *)
(****************************************************************************)
EXTENDS Integers

CONSTANTS
    Nodes,      \* short addresses of the programs that run this code
    Broadcast,  \* addr2_broadcast
    Far,        \* addresses of other nodes
    None,       \* no address
    Foreign,    \* frames of other programs in reach
    Lens,       \* lengths of what the programs send
    Mtus        \* MTUs they negotiate

I154_MTU == 127
MAX_PAYLOAD == 125
I154_SIZE_HEADER == 9
I154_SIZE_FCS == 2

Modes == {"NOADDR", "RESERVED", "ADDR2", "ADDR8"}
Types == {"BEACON", "DATA", "ACK", "MACCMD"}
Addresses == Nodes \cup Far \cup {Broadcast, None}
Frame ==
    [type: Types, intrapan: BOOLEAN, dstmode: Modes, srcmode: Modes,
     dst: Addresses, src: Addresses, paylen: 0..MAX_PAYLOAD, rawlen: 3..MAX_PAYLOAD]

\* Data within a PAN between short addresses has a header of nine bytes, in the
\* standard as in sendto.  An Assoc may announce any MTU, however small.
ASSUME MacAssumption ==
    /\ Foreign \subseteq Frame /\ Lens \subseteq 0..255
    /\ \A f \in Foreign :
          f.type = "DATA" /\ f.dstmode = "ADDR2" /\ f.srcmode = "ADDR2" /\ f.intrapan
             => f.rawlen = I154_SIZE_HEADER + f.paylen
    /\ Mtus \subseteq 1..I154_MTU

VARIABLES
    mtu,      \* mtu_ of each node
    air,      \* the frame on the air, or NoFrame
    rframe,   \* rframe_ of each node
    current,  \* history: the frame curframe_ stands for, or NoFrame
    result    \* what the last recv returned

vars == <<mtu, air, rframe, current, result>>

NoFrame == [type |-> "none"]

----------------------------------------------------------------------------

\* A size_t, which an MTU below the size of the header makes very large: then
\* only the buffer of sendto bounds what is sent.  2^30 stands for 2^32, which
\* TLC cannot compute.
MaxPayload(m) == (m - (I154_SIZE_HEADER + I154_SIZE_FCS)) % 2^30

\* The frame sendto builds.
Built(n, dest, len) ==
    [type |-> "DATA", intrapan |-> TRUE, dstmode |-> "ADDR2", srcmode |-> "ADDR2",
     dst |-> dest, src |-> n, paylen |-> len, rawlen |-> I154_SIZE_HEADER + len]

\* What get_received skips for the two addresses and their PANs.
DstLength(f) == CASE f.dstmode \in {"NOADDR", "RESERVED"} -> 0
                  [] f.dstmode = "ADDR2" -> 4
                  [] f.dstmode = "ADDR8" -> 10
FaultySrcLength(f) == CASE f.srcmode \in {"NOADDR", "RESERVED"} -> 0  \* with a PAN in any case
                        [] f.srcmode = "ADDR2" -> 4
                        [] f.srcmode = "ADDR8" -> 10
SrcLength(f) == CASE f.srcmode \in {"NOADDR", "RESERVED"} -> 0
                  [] f.srcmode = "ADDR2" -> IF f.intrapan THEN 2 ELSE 4
                  [] f.srcmode = "ADDR8" -> IF f.intrapan THEN 8 ELSE 10

\* get_received: addresses that are absent or long keep the value they had.
GetReceived(f, old) ==
    [type |-> f.type, intrapan |-> f.intrapan,
     dstmode |-> f.dstmode, srcmode |-> f.srcmode,
     dstaddr |-> IF f.dstmode = "ADDR2" THEN f.dst ELSE old.dstaddr,
     srcaddr |-> IF f.srcmode = "ADDR2" THEN f.src ELSE old.srcaddr,
     paylen  |-> (f.rawlen - (3 + DstLength(f) + SrcLength(f))) % 256]

\* Faulty: one of the two modes is not looked at.
FaultyValidDst(r) == r.type = "DATA" /\ r.srcmode = "ADDR2" /\ r.intrapan
FaultyValidSrc(r) == r.type = "DATA" /\ r.dstmode = "ADDR2" /\ r.intrapan

Valid(r) ==
    r.type = "DATA" /\ r.dstmode = "ADDR2" /\ r.srcmode = "ADDR2" /\ r.intrapan

\* The result of recv for a frame.
RecvResult(n, r) ==
    IF ~Valid(r) THEN "RECV_EMPTY"
    ELSE IF r.dstaddr \notin {n, Broadcast} THEN "RECV_WRONG_DEST" ELSE "RECV_OK"

----------------------------------------------------------------------------

\* startL2_154; the fields of rframe_ are what malloc returned.
Init ==
    /\ mtu = [n \in Nodes |-> I154_MTU]
    /\ air = NoFrame
    /\ \E a \in Addresses :
          rframe = [n \in Nodes |->
            [type |-> "BEACON", intrapan |-> FALSE, dstmode |-> "NOADDR",
             srcmode |-> "NOADDR", dstaddr |-> a, srcaddr |-> a, paylen |-> 0]]
    /\ current = [n \in Nodes |-> NoFrame]
    /\ result = [n \in Nodes |-> "RECV_EMPTY"]

\* setMTU, by the engine.
SetMTU(n, m) ==
    /\ mtu' = [mtu EXCEPT ![n] = m]
    /\ UNCHANGED <<air, rframe, current, result>>

\* send and sendto.
Send(n, dest, len) ==
    /\ len <= MaxPayload(mtu[n])
    /\ air' = IF I154_SIZE_HEADER + len > MAX_PAYLOAD THEN air ELSE Built(n, dest, len)
    /\ UNCHANGED <<mtu, rframe, current, result>>

\* Another program sends.
SendForeign(f) ==
    /\ air' = f
    /\ UNCHANGED <<mtu, rframe, current, result>>

\* recv, when the frame on the air is the next of the ring.
Recv(n) ==
    LET r == GetReceived(air, rframe[n])
    IN  /\ air # NoFrame
        /\ rframe' = [rframe EXCEPT ![n] = r]
        /\ current' = [current EXCEPT ![n] = air]
        /\ result' = [result EXCEPT ![n] = RecvResult(n, r)]
        /\ UNCHANGED <<mtu, air>>

\* recv, when the ring is empty: curframe_ is NULL.
RecvNothing(n) ==
    /\ current' = [current EXCEPT ![n] = NoFrame]
    /\ result' = [result EXCEPT ![n] = "RECV_EMPTY"]
    /\ UNCHANGED <<mtu, air, rframe>>

Next ==
    \/ \E n \in Nodes, m \in Mtus : SetMTU(n, m)
    \/ \E n \in Nodes, dest \in Nodes \cup {Broadcast}, len \in Lens : Send(n, dest, len)
    \/ \E f \in Foreign : SendForeign(f)
    \/ \E n \in Nodes : Recv(n) \/ RecvNothing(n)

Spec == Init /\ [][Next]_vars

----------------------------------------------------------------------------
(* Properties.                                                              *)

Received == [type: Types, intrapan: BOOLEAN, dstmode: Modes, srcmode: Modes,
             dstaddr: Addresses, srcaddr: Addresses, paylen: 0..255]

TypeOK ==
    /\ mtu \in [Nodes -> Mtus \cup {I154_MTU}]
    /\ air \in Frame \cup {NoFrame}
    /\ rframe \in [Nodes -> Received]
    /\ current \in [Nodes -> Frame \cup {NoFrame}]
    /\ result \in [Nodes -> {"RECV_EMPTY", "RECV_WRONG_DEST", "RECV_OK"}]

\* A frame the engine acts on has been sent to this node or to all, whatever
\* address an earlier frame has left in rframe_.
OnlyForMe ==
    \A n \in Nodes : result[n] = "RECV_OK" => current[n].dst \in {n, Broadcast}

\* What get_src returns to the engine, which answers there and takes it for its
\* master, is the sender of this frame and not of an earlier one.
SourceIsSender ==
    \A n \in Nodes : result[n] = "RECV_OK" => rframe[n].srcaddr = current[n].src

\* The decoder of CoAP gets the payload, without a byte of the header.
PayloadExact ==
    \A n \in Nodes : result[n] = "RECV_OK" => rframe[n].paylen = current[n].paylen

=============================================================================
