------------------------------ MODULE Mac_proofs ------------------------------
(****************************************************************************)
(* Proofs about the frames of module Mac, for every set of nodes, of other  *)
(* programs' frames, of lengths and of MTUs.                                *)
(*                                                                          *)
(* Of the only rframe_ of a node the invariant says nothing in general:     *)
(* its addresses may be those of any earlier frame.  When recv has answered *)
(* RECV_OK, though, everything in it comes from the current frame.          *)
(****************************************************************************)
EXTENDS Mac, TLAPS

\* A frame that recv accepts has the length its header has in the standard.
Sound(f) == Valid(f) => f.rawlen = I154_SIZE_HEADER + f.paylen

AirOK == air \in Frame => Sound(air)

\* What rframe_ of node n says is what the current frame says.
Agrees(n) ==
    /\ current[n].dst = rframe[n].dstaddr
    /\ current[n].src = rframe[n].srcaddr
    /\ current[n].paylen = rframe[n].paylen

ResultOK ==
    \A n \in Nodes :
        result[n] = "RECV_OK" => Agrees(n) /\ rframe[n].dstaddr \in {n, Broadcast}

IInv == TypeOK /\ AirOK /\ ResultOK

----------------------------------------------------------------------------
(* One frame.                                                               *)

\* The frame sendto builds is one of those recv accepts.
LEMMA BuiltSound ==
    ASSUME NEW n \in Nodes, NEW dest \in Nodes \cup {Broadcast}, NEW len \in Lens,
           I154_SIZE_HEADER + len <= MAX_PAYLOAD
    PROVE  Built(n, dest, len) \in Frame /\ Sound(Built(n, dest, len))
<1>1. len \in 0..255
    BY MacAssumption
<1>2. len \in 0..MAX_PAYLOAD /\ I154_SIZE_HEADER + len \in 3..MAX_PAYLOAD
    BY <1>1 DEF I154_SIZE_HEADER, MAX_PAYLOAD
<1>3. Built(n, dest, len) \in Frame
    BY <1>2 DEF Built, Frame, Types, Modes, Addresses
<1>4. Sound(Built(n, dest, len))
    BY DEF Built, Sound
<1>. QED BY <1>3, <1>4

LEMMA NoFrameIsNone == NoFrame \notin Frame
BY DEF NoFrame, Frame, Types

\* get_received keeps the types of rframe_.
LEMMA ReceivedType ==
    ASSUME NEW f \in Frame, NEW old \in Received
    PROVE  GetReceived(f, old) \in Received
<1>1. f.rawlen \in Int /\ DstLength(f) \in Int /\ SrcLength(f) \in Int
    BY DEF Frame, Modes, DstLength, SrcLength
<1>2. (f.rawlen - (3 + DstLength(f) + SrcLength(f))) % 256 \in 0..255
    BY <1>1
<1>3. f.dst \in Addresses /\ f.src \in Addresses
      /\ old.dstaddr \in Addresses /\ old.srcaddr \in Addresses
    BY DEF Frame, Received
<1>4. f.type \in Types /\ f.intrapan \in BOOLEAN /\ f.dstmode \in Modes /\ f.srcmode \in Modes
    BY DEF Frame
<1>. QED BY <1>2, <1>3, <1>4 DEF GetReceived, Received

\* For a frame that recv accepts, everything comes from this frame.
LEMMA ReceivedExact ==
    ASSUME NEW f \in Frame, NEW old \in Received, Valid(f), Sound(f)
    PROVE  LET r == GetReceived(f, old)
           IN  r.dstaddr = f.dst /\ r.srcaddr = f.src /\ r.paylen = f.paylen
<1>1. f.dstmode = "ADDR2" /\ f.srcmode = "ADDR2" /\ f.intrapan
    BY DEF Valid
<1>2. DstLength(f) = 4 /\ SrcLength(f) = 2
    BY <1>1 DEF DstLength, SrcLength
<1>3. f.rawlen - (3 + DstLength(f) + SrcLength(f)) = f.paylen /\ f.paylen \in 0..125
    BY <1>2 DEF Sound, Frame, I154_SIZE_HEADER, MAX_PAYLOAD
<1>4. f.paylen % 256 = f.paylen
    BY <1>3
<1>. QED BY <1>1, <1>3, <1>4 DEF GetReceived

----------------------------------------------------------------------------
(* The invariant.                                                           *)

LEMMA InitIInv == Init => IInv
<1> SUFFICES ASSUME Init PROVE IInv
    OBVIOUS
<1>1. NoFrame \notin Frame
    BY NoFrameIsNone
<1>2. TypeOK
    BY DEF Init, TypeOK, Received, Types, Modes
<1>3. \A n \in Nodes : result[n] # "RECV_OK"
    BY DEF Init
<1>. QED BY <1>1, <1>2, <1>3 DEF Init, IInv, AirOK, ResultOK

LEMMA SendIInv ==
    ASSUME IInv, NEW n \in Nodes, NEW dest \in Nodes \cup {Broadcast}, NEW len \in Lens,
           Send(n, dest, len)
    PROVE  IInv'
<1>1. air' \in Frame \cup {NoFrame} /\ (air' \in Frame => Sound(air'))
    <2>1. CASE I154_SIZE_HEADER + len > MAX_PAYLOAD
        BY <2>1 DEF IInv, TypeOK, AirOK, Send
    <2>2. CASE ~(I154_SIZE_HEADER + len > MAX_PAYLOAD)
        <3>1. I154_SIZE_HEADER + len <= MAX_PAYLOAD
            BY <2>2, MacAssumption DEF I154_SIZE_HEADER, MAX_PAYLOAD
        <3>2. air' = Built(n, dest, len)
            BY <2>2 DEF Send
        <3>. QED BY <3>1, <3>2, BuiltSound
    <2>. QED BY <2>1, <2>2
<1>2. UNCHANGED <<mtu, rframe, current, result>>
    BY DEF Send
<1>. QED BY <1>1, <1>2 DEF IInv, TypeOK, AirOK, ResultOK, Agrees

LEMMA ForeignIInv ==
    ASSUME IInv, NEW f \in Foreign, SendForeign(f)
    PROVE  IInv'
<1>1. f \in Frame /\ Sound(f)
    BY MacAssumption DEF Sound, Valid
<1>2. air' = f /\ UNCHANGED <<mtu, rframe, current, result>>
    BY DEF SendForeign
<1>. QED BY <1>1, <1>2 DEF IInv, TypeOK, AirOK, ResultOK, Agrees

\* A frame is accepted for what get_received says of it, which is what it says
\* itself as far as Valid is concerned.
LEMMA RecvIInv ==
    ASSUME IInv, NEW n \in Nodes, Recv(n)
    PROVE  IInv'
<1> DEFINE r == GetReceived(air, rframe[n])
<1>1. air \in Frame /\ Sound(air) /\ rframe[n] \in Received
    BY NoFrameIsNone DEF IInv, TypeOK, AirOK, Recv
<1>2. r \in Received
    BY <1>1, ReceivedType
<1>3. /\ UNCHANGED <<mtu, air>>
      /\ rframe' = [rframe EXCEPT ![n] = r]
      /\ current' = [current EXCEPT ![n] = air]
      /\ result' = [result EXCEPT ![n] = RecvResult(n, r)]
    BY DEF Recv
<1>4. Valid(r) = Valid(air)
    BY DEF Valid, GetReceived
<1>5. Valid(air) => r.dstaddr = air.dst /\ r.srcaddr = air.src /\ r.paylen = air.paylen
    BY <1>1, ReceivedExact
<1>6. RecvResult(n, r) \in {"RECV_EMPTY", "RECV_WRONG_DEST", "RECV_OK"}
      /\ (RecvResult(n, r) = "RECV_OK" => Valid(r) /\ r.dstaddr \in {n, Broadcast})
    BY DEF RecvResult
<1> HIDE DEF r
<1>7. TypeOK'
    BY <1>1, <1>2, <1>3, <1>6 DEF IInv, TypeOK
<1>8. AirOK'
    BY <1>1, <1>3 DEF AirOK
<1>9. ResultOK'
    <2> SUFFICES ASSUME NEW k \in Nodes, result'[k] = "RECV_OK"
                 PROVE  Agrees(k)' /\ rframe'[k].dstaddr \in {k, Broadcast}
        BY DEF ResultOK
    <2>1. CASE k = n
        <3>1. current'[k] = air /\ rframe'[k] = r /\ result'[k] = RecvResult(n, r)
            BY <2>1, <1>3 DEF IInv, TypeOK
        <3>. QED BY <2>1, <3>1, <1>4, <1>5, <1>6 DEF Agrees
    <2>2. CASE k # n
        <3>1. current'[k] = current[k] /\ rframe'[k] = rframe[k] /\ result'[k] = result[k]
            BY <2>2, <1>3 DEF IInv, TypeOK
        <3>. QED BY <3>1 DEF IInv, ResultOK, Agrees
    <2>. QED BY <2>1, <2>2
<1>. QED BY <1>7, <1>8, <1>9 DEF IInv

LEMMA NextIInv == IInv /\ [Next]_vars => IInv'
<1> SUFFICES ASSUME IInv, [Next]_vars PROVE IInv'
    OBVIOUS
<1>1. CASE \E n \in Nodes, m \in Mtus : SetMTU(n, m)
    BY <1>1 DEF SetMTU, IInv, TypeOK, AirOK, ResultOK, Agrees
<1>2. CASE \E n \in Nodes, dest \in Nodes \cup {Broadcast}, len \in Lens : Send(n, dest, len)
    BY <1>2, SendIInv
<1>3. CASE \E f \in Foreign : SendForeign(f)
    BY <1>3, ForeignIInv
<1>4. CASE \E n \in Nodes : Recv(n)
    BY <1>4, RecvIInv
<1>5. CASE \E n \in Nodes : RecvNothing(n)
    <2>1. PICK n \in Nodes : RecvNothing(n)
        BY <1>5
    <2>2. \A k \in Nodes : result'[k] = "RECV_OK" =>
              result[k] = "RECV_OK" /\ k # n /\ current'[k] = current[k]
        BY <2>1 DEF RecvNothing, IInv, TypeOK
    <2>3. UNCHANGED <<mtu, air, rframe>>
        BY <2>1 DEF RecvNothing
    <2>4. TypeOK'
        BY <2>1 DEF RecvNothing, IInv, TypeOK
    <2>. QED BY <2>2, <2>3, <2>4 DEF IInv, AirOK, ResultOK, Agrees
<1>6. CASE UNCHANGED vars
    BY <1>6 DEF vars, IInv, TypeOK, AirOK, ResultOK, Agrees
<1>. QED BY <1>1, <1>2, <1>3, <1>4, <1>5, <1>6 DEF Next

----------------------------------------------------------------------------

\* Types, and that what recv lets through is what the frame on the air says,
\* whatever earlier frames left in rframe_.
THEOREM InvariantHolds == Spec => []IInv
BY InitIInv, NextIInv, PTL DEF Spec

\* recv lets through only the frames for this node or for all (OnlyForMe).
THEOREM DestinationCorrect == Spec => []OnlyForMe
<1>1. IInv => OnlyForMe
    BY DEF IInv, ResultOK, Agrees, OnlyForMe
<1>. QED BY <1>1, InvariantHolds, PTL

\* The engine takes the sender of this frame for its source (SourceIsSender).
THEOREM SourceCorrect == Spec => []SourceIsSender
<1>1. IInv => SourceIsSender
    BY DEF IInv, ResultOK, Agrees, SourceIsSender
<1>. QED BY <1>1, InvariantHolds, PTL

\* The payload has the length the sender gave it (PayloadExact).
THEOREM PayloadCorrect == Spec => []PayloadExact
<1>1. IInv => PayloadExact
    BY DEF IInv, ResultOK, Agrees, PayloadExact
<1>. QED BY <1>1, InvariantHolds, PTL

===============================================================================
