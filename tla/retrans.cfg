\* loop() is called often enough.
CONSTANTS
    i1 = i1
    i2 = i2
    Ids <- TwoIds
    TIMEOUT = 3
    MAX_RETRANSMIT = 3
    MaxGap = 2
    W = 1000
    Horizon = 30
SPECIFICATION Spec
INVARIANTS
    MessagesExpire
PROPERTIES
    BackoffKept
