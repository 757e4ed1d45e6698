CONSTANTS
    u1 = u1
    u2 = u2
    u3 = u3
    a1 = a1
    a2 = a2
    NoUser = NoUser
    Server = Server
    ServerIp = ServerIp
    Addresses = {a1, a2}
    NoIp = NoIp
    Users = {u1, u2}
SPECIFICATION OneFairClient
INVARIANTS
    TypeOK
PROPERTIES
    KeepsDirectory
    BlockedUntilHandshake
    HandshakeUnblocks
CHECK_DEADLOCK FALSE
