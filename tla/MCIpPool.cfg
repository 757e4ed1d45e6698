CONSTANTS
    UINT32_MAX = 15
    htonl <- MCSwap
    start = 5
    end = 6
SPECIFICATION Spec
INVARIANTS
    TypeOK
    Partition
PROPERTIES
    KeepsPromise
    NoAddressStarves
