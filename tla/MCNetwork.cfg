CONSTANTS
    u1 = u1
    u2 = u2
    u3 = u3
    Users = {u1, u2, u3}
    NoUser = NoUser
    Server = Server
    ServerIp = ServerIp
    NoIp = NoIp
    PingPeriod = 1
    PingTimeout = 0
    UINT32_MAX = 8
    htonl <- MCSwap
    start = 3
    end = 6
SPECIFICATION BoundedSpec
INVARIANTS
    AddressAgreement
    MembersAreConfigured
PROPERTIES
    HandshakeComesFirst
    DeparturesNameStrangers
    ClientPacketsReachOwner
    LostOnlyBeforeHandshake
    PasswordIsAnswered
