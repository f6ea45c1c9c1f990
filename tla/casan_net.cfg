\* Two masters, one of which may restart, on a network which loses and repeats.
CONSTANTS
    m1 = m1
    m2 = m2
    Masters <- TwoMasters
    NoMaster = NoMaster
    HelloIds <- TwoHelloIds
    Ttls <- SomeTtls
    Mtus <- OneMtu
    L2Mtu = 8
    AppMtu = 6
    DiscoverMtu = 4
    ID_SPACE = 1
    Gaps <- Regular
    Horizon = 0
    MaxDelay = 2
    Restarting <- OneMaster
    TIMER_WAIT_START = 1
    TIMER_WAIT_INC = 1
    TIMER_WAIT_INC_MAX = 2
    TIMER_WAIT_MAX = 3
    TIMER_RENEW_MIN = 1
SPECIFICATION NetSpec
INVARIANTS
    CalmKeepsAssociation
PROPERTIES
    AssociatedAgain
    StaleAssociationEnds
