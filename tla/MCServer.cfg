CONSTANTS
    u1 = u1
    u2 = u2
    u3 = u3
    Users = {u1, u2}
    NoUser = NoUser
    PingPeriod = 1
    PingTimeout = 1
    UINT32_MAX = 8
    htonl <- MCSwap
    start = 3
    end = 1
SPECIFICATION FairSpec
INVARIANTS
    TypeOK
    OneAddressOneUser
    OnePlacePerAddress
PROPERTIES
    JoinCompletes
    SilentUserIsRemoved
    PingLoopTellsMembers
    KeepsMembership
