\* The bytes sent for a Discover.
CONSTANTS
    m1 = m1
    m2 = m2
    Masters <- OneMaster
    NoMaster = NoMaster
    HelloIds <- OneHelloId
    Ttls <- BothTtls
    Mtus <- TwoMtus
    L2Mtu = 8
    AppMtu = 6
    DiscoverMtu = 4
    ID_SPACE = 2
    Gaps <- OnTime
    Horizon = 10
    TIMER_WAIT_START = 1
    TIMER_WAIT_INC = 1
    TIMER_WAIT_INC_MAX = 2
    TIMER_WAIT_MAX = 4
    TIMER_RENEW_MIN = 1
SPECIFICATION Spec
INVARIANT
    DiscoversAreIntact
