\* Two masters in reach.
CONSTANTS
    m1 = m1
    m2 = m2
    Masters <- TwoMasters
    NoMaster = NoMaster
    HelloIds <- TwoHelloIds
    Ttls <- ShortTtl
    Mtus <- TwoMtus
    L2Mtu = 8
    AppMtu = 6
    DiscoverMtu = 4
    ID_SPACE = 2
    Gaps <- Late
    Horizon = 10
    TIMER_WAIT_START = 1
    TIMER_WAIT_INC = 1
    TIMER_WAIT_INC_MAX = 2
    TIMER_WAIT_MAX = 4
    TIMER_RENEW_MIN = 1
SPECIFICATION Spec
SYMMETRY Symmetry
INVARIANTS
    TypeOK
    MasterMatchesStatus
    MtuBelongsToLease
    LeaseHonoured
    RenewalBudget
    AnswersHaveDestination

    
