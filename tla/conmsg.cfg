CONSTANTS
    f1 = f1
    f2 = f2
    f3 = f3
    Frames <- ThreeFrames
    NoFrame = NoFrame
    Size = 4
    MaxOverruns = 2
SPECIFICATION Spec
INVARIANTS
    DriverBufferIsFree
    FramesAreWhole
    CurrentIsPending
PROPERTIES
    CurrentIsStable
    ImplementsQueue
    EveryFrameIsRead
