------------------------------- MODULE ConMsg --------------------------------
(****************************************************************************)
(* Reception of frames: the ring of buffers of libraries/ConMsg/ConMsg.c,   *)
(* filled by the radio driver and emptied by recv of libraries/L2-154.      *)
(*                                                                          *)
(* The driver always owns one buffer, into which it copies the next frame   *)
(* before it_receive_frame decides whether there is room for it.  The       *)
(* driver's process and the engine are cooperative, and the indices are     *)
(* read in critical sections, so each call is one step.                     *)
(****************************************************************************)
EXTENDS Integers, Sequences

CONSTANTS
    Frames,      \* contents of a frame
    NoFrame,     \* contents of a buffer nothing was received into
    Size,        \* msgbufsize_, 10 in startL2_154
    MaxOverruns  \* bound on the counter of dropped frames

ASSUME ConMsgAssumption ==
    NoFrame \notin Frames /\ Size \in Nat \ {0} /\ MaxOverruns \in Nat

VARIABLES
    frame,      \* rbuffer_[i].frame: the bytes of each buffer
    len,        \* rbuffer_[i].len: the frame the stored length is the one of
    rbuffirst,  \* first buffer to read
    rbuflast,   \* the buffer after the last one to read
    rxframe,    \* radiostatus.rxframe: the buffer the driver writes into
    curframe,   \* l2->curframe_ is not NULL: the first buffer is being read
    overruns    \* stat_.rx_overrun

vars == <<frame, len, rbuffirst, rbuflast, rxframe, curframe, overruns>>

Slots == 0..(Size - 1)
Succ(i) == (i + 1) % Size

----------------------------------------------------------------------------

\* start and startL2_154.
Init ==
    /\ frame = [i \in Slots |-> NoFrame]
    /\ len = [i \in Slots |-> NoFrame]
    /\ rbuffirst = 0 /\ rbuflast = 0
    /\ rxframe = 0
    /\ curframe = FALSE
    /\ overruns = 0

\* Faulty: the ring is never full.
FaultyItReceiveFrame(f) ==
    /\ frame' = [frame EXCEPT ![rxframe] = f]
    /\ len' = [len EXCEPT ![rbuflast] = f]
    /\ rbuflast' = Succ(rbuflast) /\ rxframe' = Succ(rbuflast)
    /\ UNCHANGED <<rbuffirst, curframe, overruns>>

\* Faulty: the driver is not given the next buffer.
FaultyItReceiveSameBuffer(f) ==
    /\ Succ(rbuflast) # rbuffirst
    /\ frame' = [frame EXCEPT ![rxframe] = f]
    /\ len' = [len EXCEPT ![rbuflast] = f]
    /\ rbuflast' = Succ(rbuflast)
    /\ UNCHANGED <<rbuffirst, rxframe, curframe, overruns>>

\* The process of the driver copies a frame with a good checksum out of the
\* radio (read in radio-rf2xx.c), then it_receive_frame keeps or drops it.
ItReceiveFrame(f) ==
    /\ frame' = [frame EXCEPT ![rxframe] = f]
    /\ IF Succ(rbuflast) = rbuffirst
       THEN /\ overruns' = IF overruns < MaxOverruns THEN overruns + 1 ELSE overruns
            /\ UNCHANGED <<len, rbuflast, rxframe>>
       ELSE /\ len' = [len EXCEPT ![rbuflast] = f]
            /\ rbuflast' = Succ(rbuflast)
            /\ rxframe' = Succ(rbuflast)
            /\ UNCHANGED overruns
    /\ UNCHANGED <<rbuffirst, curframe>>

FaultySkipReceived == rbuffirst  \* nothing is skipped
SkipReceived == IF rbuffirst # rbuflast THEN Succ(rbuffirst) ELSE rbuffirst

\* Faulty: a frame is skipped even when none is current; the current frame is
\* not forgotten when there is no other.
FaultyRecvSkips ==
    /\ rbuffirst' = SkipReceived
    /\ curframe' = (rbuffirst' # rbuflast)
    /\ UNCHANGED <<frame, len, rbuflast, rxframe, overruns>>

FaultyRecvKeeps ==
    /\ rbuffirst' = IF curframe THEN SkipReceived ELSE rbuffirst
    /\ curframe' = (curframe \/ rbuffirst' # rbuflast)
    /\ UNCHANGED <<frame, len, rbuflast, rxframe, overruns>>

\* recv: skip_received if there is a current frame, then get_received.
Recv ==
    /\ rbuffirst' = IF curframe THEN SkipReceived ELSE rbuffirst
    /\ curframe' = (rbuffirst' # rbuflast)
    /\ UNCHANGED <<frame, len, rbuflast, rxframe, overruns>>

Next == (\E f \in Frames : ItReceiveFrame(f)) \/ Recv

\* The application calls loop(), which calls recv, again and again.
Spec == Init /\ [][Next]_vars /\ WF_vars(Recv)

----------------------------------------------------------------------------
(* Properties.                                                              *)

\* The number of frames waiting, and the buffers they are in.
Waiting == (rbuflast - rbuffirst) % Size
Pending(i) == IF rbuffirst <= rbuflast THEN rbuffirst <= i /\ i < rbuflast
              ELSE rbuffirst <= i \/ i < rbuflast

TypeOK ==
    /\ frame \in [Slots -> Frames \cup {NoFrame}]
    /\ len \in [Slots -> Frames \cup {NoFrame}]
    /\ rbuffirst \in Slots /\ rbuflast \in Slots /\ rxframe \in Slots
    /\ curframe \in BOOLEAN
    /\ overruns \in 0..MaxOverruns

\* The driver never copies a frame into a buffer which waits to be read or is
\* being read, not even the frame it then drops: its buffer is the one
\* it_receive_frame files next.
DriverBufferIsFree == rxframe = rbuflast /\ ~Pending(rxframe)

\* A frame to read has the bytes and the length of one and the same frame.
FramesAreWhole ==
    \A i \in Slots : Pending(i) => frame[i] = len[i] /\ frame[i] \in Frames

\* The engine keeps pointers into the buffer of the current frame (payload,
\* source address): it is pending, and only recv() changes that.
CurrentIsPending == curframe => Pending(rbuffirst)

\* The current frame does not change under the engine: as long as recv() is
\* not called, its buffer keeps its bytes and its length.
CurrentIsStable ==
    [][curframe /\ rbuffirst' = rbuffirst =>
         frame'[rbuffirst] = frame[rbuffirst] /\ len'[rbuffirst] = len[rbuffirst]]_vars

\* The ring implements the queue of FrameQueue: the frames come out in the
\* order they went in, none is lost but those counted, and the engine gets
\* each frame that was kept.
Queue == INSTANCE FrameQueue WITH
    queue <- [k \in 1..Waiting |-> frame[(rbuffirst + k - 1) % Size]],
    held <- curframe,
    Capacity <- Size - 1

ImplementsQueue == Queue!Spec

\* Every frame that was kept is looked at by the engine in the end.
EveryFrameIsRead ==
    \A i \in Slots : Pending(i) ~> (curframe /\ rbuffirst = i)

=============================================================================
