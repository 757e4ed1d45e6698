CONSTANTS
    u1 = u1
    u2 = u2
    u3 = u3
    Users = {u1, u2, u3}
    NoUser = NoUser
    PingPeriod = 1
    PingTimeout = 0
    UINT32_MAX = 8
    htonl <- MCSwap
    start = 3
    end = 4
SPECIFICATION NoTunSpec
SYMMETRY Symmetry
INVARIANTS
    PassedOverByErase
