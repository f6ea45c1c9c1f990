\* Two nodes, and the frames of others.
CONSTANTS
    n1 = n1
    n2 = n2
    far = far
    None = None
    Broadcast = Broadcast
    Nodes <- TwoNodes
    Far <- OneFar
    Foreign <- OtherFrames
    Lens <- SomeLens
    Mtus <- SomeMtus
SPECIFICATION Spec
INVARIANTS
    OnlyForMe
    SourceIsSender
    PayloadExact
