CONSTANTS
    server = server
    client = client
    Processes = {server, client}
    Servers = {server}
    Clients = {client}
    Keys <- MCKeys
    Texts <- MCTexts
    Missing = Missing
    Throws = Throws
    taken <- MCTaken
    Defaults <- MCDefaults
    Tails <- MCTails
    Radix = 2
    OctetMax = 3
    Parts = 2
    htonl <- MCSwap
    Spellings <- AddressTexts
    Memory = 17
SPECIFICATION BoundedSpec
INVARIANTS
    SettingsSurvive
    ServerHasItsPool
    AsksIfPlain
    AddressesReadBack
