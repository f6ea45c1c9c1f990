SPECIFICATION Spec
INVARIANTS
    NoLostInterrupt
    
    SpiExclusive
    WaitsForEndOfPacket
PROPERTIES
    ReceptionProgresses
    
\* sendto may spin for ever: nothing is enabled then.
CHECK_DEADLOCK FALSE
