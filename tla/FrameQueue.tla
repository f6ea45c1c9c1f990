----------------------------- MODULE FrameQueue ------------------------------
(****************************************************************************)
(* What the reception side of the 802.15.4 network promises the engine: a   *)
(* bounded queue of frames, in the order of their arrival.  A frame that    *)
(* finds the queue full is dropped and counted.  The frame being looked at  *)
(* stays at the head, untouched, until the next one is asked for.           *)
(*                                                                          *)
(* ConMsg implements it with a ring of buffers.                             *)
(****************************************************************************)
EXTENDS Integers, Sequences

CONSTANTS
    Frames,      \* contents of a frame, with its length
    Capacity,    \* frames that can wait, the one being looked at included
    MaxOverruns  \* bound on the counter of dropped frames

VARIABLES
    queue,    \* the frames received and not yet given up
    held,     \* the head of the queue is being looked at
    overruns  \* number of dropped frames

vars == <<queue, held, overruns>>

Init == queue = <<>> /\ held = FALSE /\ overruns = 0

Arrive(f) ==
    /\ Len(queue) < Capacity
    /\ queue' = Append(queue, f)
    /\ UNCHANGED <<held, overruns>>

Drop ==
    /\ Len(queue) = Capacity
    /\ overruns' = IF overruns < MaxOverruns THEN overruns + 1 ELSE overruns
    /\ UNCHANGED <<queue, held>>

\* The held frame is given up, and the next one is looked at if there is one.
Recv ==
    /\ queue' = IF held THEN Tail(queue) ELSE queue
    /\ held' = (queue' # <<>>)
    /\ UNCHANGED overruns

Next == (\E f \in Frames : Arrive(f)) \/ Drop \/ Recv

Safety == Init /\ [][Next]_vars

\* recv is called at every turn of the engine loop.
Spec == Safety /\ WF_vars(Recv)

=============================================================================
