\* Messages of all sizes, around the limits of the encoding.
CONSTANTS
    Tokens <- ShortTokens
    Options <- SomeOptions
    Ages <- SomeAges
    Payloads <- SomePayloads
    MaxOptions = 3
    Space = 330
    Foreign <- Reserved
    Beyond <- AnyByte
SPECIFICATION Spec
INVARIANTS
    OptionsInOrder
    SizeIsExact
    SpaceIsUsable
    
\* The way of a message ends.
CHECK_DEADLOCK FALSE
