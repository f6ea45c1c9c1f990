---------------------------- MODULE ConMsg_proofs ----------------------------
(****************************************************************************)
(* The ring of buffers keeps the frames it holds, for every number of       *)
(* buffers and every set of frames.                                         *)
(****************************************************************************)
EXTENDS ConMsg, TLAPS

IInv == TypeOK /\ DriverBufferIsFree /\ FramesAreWhole /\ CurrentIsPending

\* The index after i, without the remainder.
LEMMA SuccValue ==
    ASSUME NEW i \in Slots
    PROVE  /\ Succ(i) \in Slots
           /\ Succ(i) = IF i = Size - 1 THEN 0 ELSE i + 1
<1>1. Size \in Nat \ {0} /\ i \in Nat /\ i < Size
  BY ConMsgAssumption DEF Slots
<1>2. CASE i = Size - 1
  <2>1. (i + 1) % Size = 0
    BY <1>1, <1>2
  <2> QED
    BY <1>1, <1>2, <2>1 DEF Succ, Slots
<1>3. CASE i # Size - 1
  <2>1. i + 1 \in 0..(Size - 1)
    BY <1>1, <1>3
  <2>2. (i + 1) % Size = i + 1
    BY <1>1, <2>1
  <2> QED
    BY <1>1, <1>3, <2>1, <2>2 DEF Succ, Slots
<1> QED
  BY <1>2, <1>3

LEMMA InitIInv == Init => IInv
<1> SUFFICES ASSUME Init PROVE IInv
  OBVIOUS
<1>1. 0 \in Slots /\ 0 \in 0..MaxOverruns
  BY ConMsgAssumption DEF Slots
<1>2. TypeOK
  BY <1>1 DEF Init, TypeOK
<1>3. \A i \in Slots : ~Pending(i)
  BY ConMsgAssumption DEF Init, Pending, Slots
<1> QED
  BY <1>1, <1>2, <1>3
     DEF Init, IInv, DriverBufferIsFree, FramesAreWhole, CurrentIsPending

LEMMA ReceiveIInv ==
    ASSUME IInv, NEW f \in Frames, ItReceiveFrame(f)
    PROVE  IInv'
<1>1. /\ rbuflast \in Slots /\ rbuffirst \in Slots /\ rxframe = rbuflast
      /\ rbuffirst' = rbuffirst /\ curframe' = curframe
      /\ frame' = [frame EXCEPT ![rbuflast] = f]
  BY DEF IInv, TypeOK, DriverBufferIsFree, ItReceiveFrame
<1>2. Succ(rbuflast) \in Slots
      /\ Succ(rbuflast) = IF rbuflast = Size - 1 THEN 0 ELSE rbuflast + 1
  BY <1>1, SuccValue
<1>3. TypeOK'
  BY <1>1, <1>2, ConMsgAssumption DEF IInv, TypeOK, ItReceiveFrame
<1>4. CASE Succ(rbuflast) = rbuffirst
  <2>1. UNCHANGED <<len, rbuflast, rxframe>>
    BY <1>4 DEF ItReceiveFrame
  <2>2. \A i \in Slots : Pending(i)' = Pending(i) /\ (Pending(i) => i # rbuflast)
    BY <1>1, <2>1 DEF Pending, Slots
  <2> QED
    BY <1>1, <1>3, <2>1, <2>2
       DEF IInv, TypeOK, DriverBufferIsFree, FramesAreWhole, CurrentIsPending
<1>5. CASE Succ(rbuflast) # rbuffirst
  <2>1. /\ len' = [len EXCEPT ![rbuflast] = f]
        /\ rbuflast' = Succ(rbuflast) /\ rxframe' = Succ(rbuflast)
    BY <1>5 DEF ItReceiveFrame
  <2>2. \A i \in Slots : Pending(i)' <=> Pending(i) \/ i = rbuflast
    <3> SUFFICES ASSUME NEW i \in Slots
                 PROVE  Pending(i)' <=> Pending(i) \/ i = rbuflast
      OBVIOUS
    <3>1. /\ Size \in Nat \ {0} /\ i \in 0..(Size - 1)
          /\ rbuffirst \in 0..(Size - 1) /\ rbuflast \in 0..(Size - 1)
      BY <1>1, ConMsgAssumption DEF Slots
    <3>2. CASE rbuflast = Size - 1
      BY <1>1, <1>2, <1>5, <2>1, <3>1, <3>2 DEF Pending
    <3>3. CASE rbuflast # Size - 1
      BY <1>1, <1>2, <1>5, <2>1, <3>1, <3>3 DEF Pending
    <3> QED
      BY <3>2, <3>3
  <2>3. ~Pending(rbuflast)'
    <3>1. rbuflast' \in 0..(Size - 1) /\ rbuffirst \in 0..(Size - 1)
          /\ Size \in Nat \ {0} /\ rbuflast' # rbuffirst
      BY <1>1, <1>2, <1>5, <2>1, ConMsgAssumption DEF Slots
    <3> QED
      BY <1>1, <3>1 DEF Pending
  <2> QED
    BY <1>1, <1>2, <1>3, <2>1, <2>2, <2>3
       DEF IInv, TypeOK, DriverBufferIsFree, FramesAreWhole, CurrentIsPending
<1> QED
  BY <1>4, <1>5

LEMMA RecvIInv == IInv /\ Recv => IInv'
<1> SUFFICES ASSUME IInv, Recv PROVE IInv'
  OBVIOUS
<1>1. /\ rbuflast \in Slots /\ rbuffirst \in Slots
      /\ UNCHANGED <<frame, len, rbuflast, rxframe, overruns>>
      /\ curframe' = (rbuffirst' # rbuflast)
  BY DEF IInv, TypeOK, Recv
<1>2. Succ(rbuffirst) \in Slots
      /\ Succ(rbuffirst) = IF rbuffirst = Size - 1 THEN 0 ELSE rbuffirst + 1
  BY <1>1, SuccValue
<1>3. rbuffirst' = rbuffirst \/ (rbuffirst # rbuflast /\ rbuffirst' = Succ(rbuffirst))
  BY DEF Recv, SkipReceived
<1>4. rbuffirst' \in Slots
  BY <1>1, <1>2, <1>3
<1>5. TypeOK'
  BY <1>1, <1>4 DEF IInv, TypeOK
<1>6. \A i \in Slots : Pending(i)' => Pending(i)
  BY <1>1, <1>2, <1>3, ConMsgAssumption DEF Pending, Slots
<1>7. rbuffirst' # rbuflast => Pending(rbuffirst)'
  BY <1>1, <1>4 DEF Pending, Slots
<1> QED
  BY <1>1, <1>4, <1>5, <1>6, <1>7
     DEF IInv, TypeOK, DriverBufferIsFree, FramesAreWhole, CurrentIsPending

LEMMA NextIInv == IInv /\ [Next]_vars => IInv'
<1> SUFFICES ASSUME IInv, [Next]_vars PROVE IInv'
  OBVIOUS
<1>1. ASSUME NEW f \in Frames, ItReceiveFrame(f)
      PROVE  IInv'
  BY <1>1, ReceiveIInv
<1>2. CASE Recv
  BY <1>2, RecvIInv
<1>3. CASE UNCHANGED vars
  BY <1>3 DEF vars, IInv, TypeOK, DriverBufferIsFree, FramesAreWhole,
             CurrentIsPending, Pending
<1> QED
  BY <1>1, <1>2, <1>3 DEF Next

LEMMA IInvHolds == Spec => []IInv
BY InitIInv, NextIInv, PTL DEF Spec

\* The indices stay in the ring, for every number of buffers.
THEOREM TypeCorrect == Spec => []TypeOK
BY IInvHolds, PTL DEF IInv

\* The driver's buffer is never one of the buffers to read.
THEOREM DriverCorrect == Spec => []DriverBufferIsFree
BY IInvHolds, PTL DEF IInv

\* What is read has the bytes and the length of the same frame.
THEOREM FramesCorrect == Spec => []FramesAreWhole
BY IInvHolds, PTL DEF IInv

\* The frame the engine looks at has not been released.
THEOREM CurrentCorrect == Spec => []CurrentIsPending
BY IInvHolds, PTL DEF IInv

\* The frame the engine looks at is not overwritten, not even by a frame which
\* is dropped for want of room.
THEOREM CurrentStable == Spec => CurrentIsStable
<1> DEFINE A == curframe /\ rbuffirst' = rbuffirst =>
                 frame'[rbuffirst] = frame[rbuffirst] /\ len'[rbuffirst] = len[rbuffirst]
<1>1. IInv /\ [Next]_vars => [A]_vars
  <2> SUFFICES ASSUME IInv, Next PROVE A
    OBVIOUS
  <2>1. ASSUME NEW f \in Frames, ItReceiveFrame(f), curframe
        PROVE  frame'[rbuffirst] = frame[rbuffirst] /\ len'[rbuffirst] = len[rbuffirst]
    <3>1. /\ rbuffirst # rbuflast /\ rxframe = rbuflast /\ rbuffirst \in Slots
          /\ rbuflast \in Slots
      BY <2>1 DEF IInv, TypeOK, DriverBufferIsFree, CurrentIsPending, Pending, Slots
    <3> QED
      BY <2>1, <3>1 DEF ItReceiveFrame, IInv, TypeOK
  <2>2. CASE Recv
    BY <2>2 DEF Recv
  <2> QED
    BY <2>1, <2>2 DEF Next
<1> QED
  BY <1>1, IInvHolds, PTL DEF Spec, CurrentIsStable

----------------------------------------------------------------------------
(* The places of the ring.                                                  *)

\* The k-th index after i, and the distance between two indices.
LEMMA Around ==
    ASSUME NEW i \in Slots, NEW j \in Slots
    PROVE  /\ \A k \in 0..(Size - 1) :
                /\ (i + k) % Size \in Slots
                /\ (i + k) % Size = IF i + k < Size THEN i + k ELSE i + k - Size
           /\ (j - i) % Size = IF i <= j THEN j - i ELSE j - i + Size
<1>1. Size \in Nat \ {0} /\ i \in 0..(Size - 1) /\ j \in 0..(Size - 1)
  BY ConMsgAssumption DEF Slots
<1>2. \A a \in 0..(Size - 1) : a % Size = a /\ (a + Size) % Size = a /\ (a - Size) % Size = a
  BY <1>1
<1>3. ASSUME NEW k \in 0..(Size - 1)
      PROVE  (i + k) % Size = IF i + k < Size THEN i + k ELSE i + k - Size
  <2>1. CASE i + k < Size
    BY <1>1, <1>2, <2>1
  <2>2. CASE i + k >= Size
    <3> DEFINE a == i + k - Size
    <3>1. a \in 0..(Size - 1) /\ a + Size = i + k
      BY <1>1, <2>2
    <3> HIDE DEF a
    <3>2. (a + Size) % Size = a
      BY <1>2, <3>1
    <3> QED
      BY <1>1, <2>2, <3>1, <3>2 DEF a
  <2> QED
    BY <1>1, <2>1, <2>2
<1>4. (j - i) % Size = IF i <= j THEN j - i ELSE j - i + Size
  <2>1. CASE i <= j
    BY <1>1, <1>2, <2>1
  <2>2. CASE i > j
    <3> DEFINE a == j - i + Size
    <3>1. a \in 0..(Size - 1) /\ a - Size = j - i
      BY <1>1, <2>2
    <3> HIDE DEF a
    <3>2. (a - Size) % Size = a
      BY <1>2, <3>1
    <3> QED
      BY <1>1, <2>2, <3>1, <3>2 DEF a
  <2> QED
    BY <1>1, <2>1, <2>2
<1> QED
  BY <1>1, <1>3, <1>4 DEF Slots

\* The buffer of the k-th frame from buffer i on.
Place(i, k) == (i + k - 1) % Size

\* The frames that wait are at the places of the ring, and the first free place
\* comes after them.
LEMMA Places ==
    ASSUME rbuffirst \in Slots, rbuflast \in Slots
    PROVE  /\ Waiting \in 0..(Size - 1)
           /\ Waiting = 0 <=> rbuffirst = rbuflast
           /\ Place(rbuffirst, Waiting + 1) = rbuflast
           /\ Waiting = Size - 1 <=> Succ(rbuflast) = rbuffirst
           /\ \A k \in 1..Waiting : /\ Place(rbuffirst, k) \in Slots
                                    /\ Place(rbuffirst, k) # rbuflast
                                    /\ Pending(Place(rbuffirst, k))
<1> DEFINE w == (rbuflast - rbuffirst) % Size
<1>1. Size \in Nat \ {0} /\ rbuffirst \in 0..(Size - 1) /\ rbuflast \in 0..(Size - 1)
  BY ConMsgAssumption DEF Slots
<1>2. w = IF rbuffirst <= rbuflast THEN rbuflast - rbuffirst
                                   ELSE rbuflast - rbuffirst + Size
  BY Around
<1> HIDE DEF w
<1>3. w \in 0..(Size - 1) /\ (w = 0 <=> rbuffirst = rbuflast)
  BY <1>1, <1>2
<1>4. \A k \in 1..Size :
        Place(rbuffirst, k) = IF rbuffirst + k <= Size THEN rbuffirst + k - 1
                                                       ELSE rbuffirst + k - 1 - Size
  <2> SUFFICES ASSUME NEW k \in 1..Size
               PROVE  Place(rbuffirst, k) = IF rbuffirst + k <= Size THEN rbuffirst + k - 1
                                                       ELSE rbuffirst + k - 1 - Size
    OBVIOUS
  <2>1. k - 1 \in 0..(Size - 1) /\ rbuffirst + (k - 1) = rbuffirst + k - 1
    BY <1>1
  <2>2. (rbuffirst + (k - 1)) % Size = IF rbuffirst + (k - 1) < Size THEN rbuffirst + (k - 1)
                                            ELSE rbuffirst + (k - 1) - Size
    BY <2>1, Around
  <2> QED
    BY <1>1, <2>1, <2>2 DEF Place
<1>5. Place(rbuffirst, w + 1) = rbuflast
  <2>1. w + 1 \in 1..Size
    BY <1>1, <1>3
  <2> QED
    BY <1>1, <1>2, <1>4, <2>1
<1>6. w = Size - 1 <=> Succ(rbuflast) = rbuffirst
  BY <1>1, <1>2, SuccValue
<1>7. ASSUME NEW k \in 1..w
      PROVE  /\ Place(rbuffirst, k) \in Slots
             /\ Place(rbuffirst, k) # rbuflast /\ Pending(Place(rbuffirst, k))
  <2>1. k \in 1..Size
    BY <1>1, <1>3
  <2>2. Place(rbuffirst, k) = IF rbuffirst + k <= Size THEN rbuffirst + k - 1
                                                       ELSE rbuffirst + k - 1 - Size
    BY <1>4, <2>1
  <2> QED
    BY <1>1, <1>2, <1>3, <2>1, <2>2 DEF Pending, Slots
<1> QED
  BY <1>3, <1>5, <1>6, <1>7 DEF Waiting, w

----------------------------------------------------------------------------
(* The refinement.                                                          *)

\* The first n frames of a ring, which are the abstract queue.
Contents(ring, first, n) == [k \in 1..n |-> ring[Place(first, k)]]

LEMMA ContentsType ==
    ASSUME IInv
    PROVE  /\ Contents(frame, rbuffirst, Waiting) \in Seq(Frames)
           /\ Len(Contents(frame, rbuffirst, Waiting)) = Waiting
<1>1. rbuffirst \in Slots /\ rbuflast \in Slots
  BY DEF IInv, TypeOK
<1>2. Waiting \in Nat
        /\ \A k \in 1..Waiting : Place(rbuffirst, k) \in Slots /\ Pending(Place(rbuffirst, k))
  BY <1>1, Places
<1>3. \A k \in 1..Waiting : frame[Place(rbuffirst, k)] \in Frames
  BY <1>2 DEF IInv, FramesAreWhole
<1> HIDE DEF Waiting
<1> QED
  BY <1>2, <1>3 DEF Contents

\* The initial ring is the empty queue.
LEMMA InitStep == Init => Queue!Init
<1> SUFFICES ASSUME Init PROVE Queue!Init
  OBVIOUS
<1>1. Waiting = 0
  BY Places, ConMsgAssumption DEF Init, Slots
<1> HIDE DEF Waiting
<1> QED
  BY <1>1 DEF Init, Queue!Init

\* A frame the driver receives is added, or dropped.
LEMMA ReceiveStep ==
    ASSUME IInv, NEW f \in Frames, ItReceiveFrame(f)
    PROVE  Queue!Arrive(f) \/ Queue!Drop
<1> DEFINE w == Waiting
           old == Contents(frame, rbuffirst, Waiting)
           new == Contents(frame', rbuffirst', Waiting')
<1>1. /\ rbuflast \in Slots /\ rbuffirst \in Slots /\ rxframe = rbuflast
      /\ rbuffirst' = rbuffirst /\ curframe' = curframe
      /\ frame' = [frame EXCEPT ![rbuflast] = f]
      /\ frame \in [Slots -> Frames \cup {NoFrame}]
  BY DEF IInv, TypeOK, DriverBufferIsFree, ItReceiveFrame
<1>2. /\ w \in 0..(Size - 1)
      /\ Place(rbuffirst, w + 1) = rbuflast
      /\ w = Size - 1 <=> Succ(rbuflast) = rbuffirst
      /\ \A k \in 1..w : Place(rbuffirst, k) \in Slots /\ Place(rbuffirst, k) # rbuflast
  BY <1>1, Places
<1>3. old \in Seq(Frames) /\ Len(old) = w
  BY ContentsType
<1>4. \A k \in 1..w : frame'[Place(rbuffirst, k)] = frame[Place(rbuffirst, k)]
  BY <1>1, <1>2
<1>5. Size \in Nat \ {0}
  BY ConMsgAssumption
<1>6. CASE Succ(rbuflast) = rbuffirst
  <2>1. rbuflast' = rbuflast
        /\ overruns' = IF overruns < MaxOverruns THEN overruns + 1 ELSE overruns
    BY <1>6 DEF ItReceiveFrame
  <2>2. Waiting' = w
    BY <1>1, <2>1 DEF Waiting
  <2>3. new = old
    <3> HIDE DEF w
    <3> QED
      BY <1>1, <1>4, <2>2 DEF Contents, w
  <2>4. Len(old) = Size - 1
    BY <1>2, <1>3, <1>6
  <2> QED
    BY <1>1, <2>1, <2>3, <2>4 DEF Queue!Drop, Contents, Place
<1>7. CASE Succ(rbuflast) # rbuffirst
  <2>1. rbuflast' = Succ(rbuflast) /\ rbuflast' \in Slots /\ overruns' = overruns
    BY <1>1, <1>7, SuccValue DEF ItReceiveFrame
  <2>2. Waiting' = w + 1
    <3>1. w = IF rbuffirst <= rbuflast THEN rbuflast - rbuffirst
                                       ELSE rbuflast - rbuffirst + Size
      BY <1>1, Around DEF Waiting
    <3>2. Waiting' = IF rbuffirst <= rbuflast' THEN rbuflast' - rbuffirst
                                               ELSE rbuflast' - rbuffirst + Size
      BY <1>1, <2>1, Around DEF Waiting
    <3>3. rbuflast' = IF rbuflast = Size - 1 THEN 0 ELSE rbuflast + 1
      BY <1>1, <2>1, SuccValue
    <3> HIDE DEF w
    <3> QED
      BY <1>1, <1>5, <1>7, <2>1, <3>1, <3>2, <3>3 DEF Slots
  <2>3. frame'[Place(rbuffirst, w + 1)] = f
    BY <1>1, <1>2
  <2>4. new = [k \in 1..(w + 1) |-> frame'[Place(rbuffirst, k)]]
    BY <1>1, <2>2 DEF Contents
  <2>5. old = [k \in 1..w |-> frame[Place(rbuffirst, k)]]
    BY DEF Contents
  <2> HIDE DEF w, old, new
  <2>6. new = Append(old, f)
    BY <1>2, <1>3, <1>4, <2>3, <2>4, <2>5
  <2>7. Len(old) < Size - 1
    BY <1>2, <1>3, <1>5, <1>7
  <2> QED
    BY <1>1, <2>1, <2>6, <2>7 DEF Queue!Arrive, Contents, Place, old, new
<1> QED
  BY <1>6, <1>7

\* A call of recv gives the held frame up, and holds the next one.
LEMMA RecvStep ==
    ASSUME IInv, Recv
    PROVE  Queue!Recv
<1> DEFINE w == Waiting
           old == Contents(frame, rbuffirst, Waiting)
           new == Contents(frame', rbuffirst', Waiting')
<1>1. /\ rbuflast \in Slots /\ rbuffirst \in Slots /\ rbuflast' = rbuflast
      /\ frame' = frame /\ overruns' = overruns
      /\ rbuffirst' = (IF curframe THEN SkipReceived ELSE rbuffirst)
      /\ curframe' = (rbuffirst' # rbuflast)
      /\ curframe => rbuffirst # rbuflast
  BY DEF IInv, TypeOK, Recv, CurrentIsPending, Pending, Slots
<1>2. w \in 0..(Size - 1) /\ (w = 0 <=> rbuffirst = rbuflast)
  BY <1>1, Places
<1>3. old \in Seq(Frames) /\ Len(old) = w
  BY ContentsType
<1>4. Size \in Nat \ {0}
  BY ConMsgAssumption
<1>5. new = IF curframe THEN Tail(old) ELSE old
  <2>1. CASE curframe
    <3>1. rbuffirst' = Succ(rbuffirst) /\ rbuffirst' \in Slots
          /\ rbuffirst' = IF rbuffirst = Size - 1 THEN 0 ELSE rbuffirst + 1
      BY <1>1, <2>1, SuccValue DEF SkipReceived
    <3>2. Waiting' = w - 1
      <4>1. w = IF rbuffirst <= rbuflast THEN rbuflast - rbuffirst
                                         ELSE rbuflast - rbuffirst + Size
        BY <1>1, Around DEF Waiting
      <4>2. Waiting' = IF rbuffirst' <= rbuflast THEN rbuflast - rbuffirst'
                                                 ELSE rbuflast - rbuffirst' + Size
        BY <1>1, <3>1, Around DEF Waiting
      <4> HIDE DEF w
      <4> QED
        BY <1>1, <1>4, <2>1, <3>1, <4>1, <4>2 DEF Slots
    <3>3. \A k \in 1..(w - 1) : Place(rbuffirst', k) = Place(rbuffirst, k + 1)
      <4> SUFFICES ASSUME NEW k \in 1..(w - 1)
                   PROVE  (rbuffirst' + k - 1) % Size = (rbuffirst + (k + 1) - 1) % Size
        BY DEF Place
      <4>1. k - 1 \in 0..(Size - 1) /\ k \in 0..(Size - 1)
        BY <1>2, <1>4
      <4>2. (rbuffirst' + (k - 1)) % Size
               = IF rbuffirst' + (k - 1) < Size THEN rbuffirst' + (k - 1)
                                                ELSE rbuffirst' + (k - 1) - Size
        BY <3>1, <4>1, Around
      <4>3. (rbuffirst + k) % Size = IF rbuffirst + k < Size THEN rbuffirst + k
                                                             ELSE rbuffirst + k - Size
        BY <1>1, <4>1, Around
      <4>4. /\ rbuffirst \in 0..(Size - 1) /\ rbuffirst' \in 0..(Size - 1)
            /\ rbuffirst' + k - 1 = rbuffirst' + (k - 1)
            /\ rbuffirst + (k + 1) - 1 = rbuffirst + k
        BY <1>1, <3>1, <4>1 DEF Slots
      <4> QED
        BY <1>4, <3>1, <4>1, <4>2, <4>3, <4>4
    <3>4. new = [k \in 1..(w - 1) |-> frame[Place(rbuffirst', k)]]
      BY <1>1, <3>2 DEF Contents
    <3>5. old = [k \in 1..w |-> frame[Place(rbuffirst, k)]]
      BY DEF Contents
    <3>6. w \in Nat /\ w # 0
      BY <1>1, <1>2, <2>1
    <3> HIDE DEF w, old, new
    <3>7. new = Tail(old)
      BY <1>3, <3>3, <3>4, <3>5, <3>6
    <3> QED
      BY <2>1, <3>7
  <2>2. CASE ~curframe
    <3>1. Waiting' = Waiting /\ rbuffirst' = rbuffirst
      BY <1>1, <2>2 DEF Waiting
    <3> QED
      BY <1>1, <2>2, <3>1 DEF Contents
  <2> QED
    BY <2>1, <2>2
<1>6. curframe' = (new # <<>>)
  <2>1. rbuffirst' \in Slots
    BY <1>1, SuccValue DEF SkipReceived
  <2>2. Waiting' \in Nat /\ (Waiting' = 0 <=> rbuffirst' = rbuflast)
    <3>1. Waiting' = IF rbuffirst' <= rbuflast THEN rbuflast - rbuffirst'
                                               ELSE rbuflast - rbuffirst' + Size
      BY <1>1, <2>1, Around DEF Waiting
    <3> QED
      BY <1>1, <1>4, <2>1, <3>1 DEF Slots
  <2>3. new = [k \in 1..Waiting' |-> frame'[Place(rbuffirst', k)]]
    BY DEF Contents
  <2>4. new = <<>> <=> Waiting' = 0
    BY <2>2, <2>3
  <2> QED
    BY <1>1, <2>2, <2>4
<1> QED
  BY <1>1, <1>5, <1>6 DEF Queue!Recv, Contents, Place

\* Whatever the driver receives and whenever recv is called, the ring of Size
\* buffers is a queue of Size - 1 frames: first in, first out, and a frame is
\* dropped only when all the others wait.
THEOREM RingIsQueue == Spec => Queue!Safety
<1>1. IInv /\ [Next]_vars => [Queue!Next]_(Queue!vars)
  <2> SUFFICES ASSUME IInv, [Next]_vars PROVE [Queue!Next]_(Queue!vars)
    OBVIOUS
  <2>1. ASSUME NEW f \in Frames, ItReceiveFrame(f)
        PROVE  Queue!Next
    BY <2>1, ReceiveStep DEF Queue!Next
  <2>2. CASE Recv
    BY <2>2, RecvStep DEF Queue!Next
  <2>3. CASE UNCHANGED vars
    BY <2>3 DEF vars, Queue!vars, Waiting
  <2> QED
    BY <2>1, <2>2, <2>3 DEF Next
<1> QED
  BY <1>1, InitStep, IInvHolds, PTL DEF Spec, Queue!Safety

=============================================================================
