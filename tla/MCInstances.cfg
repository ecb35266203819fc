CONSTANTS
    Addrs <- MCAddrs
    EmptyAddr = EmptyAddr
    BadAddr = BadAddr
    Files <- MCFiles
    MaxInstances = 3
    Absent = Absent
    Requests = {r1}
    V4 = 2
    Prefix <- MCPrefix
    Entries <- MCEntries
    Peers <- MCPeers
    Senders <- MCSenders
    Headers <- MCHeaders
    NoHeader = NoHeader
    a = a  b = b
    Empty = Empty
    Addresses = {Empty, a, b}
    Families <- MCFamilies
    Specs <- MCSpecs
SPECIFICATION MCSpec
INVARIANTS TypeOK LastInFileWins TrustsWhoIsMeant ServesTheRequester FirstOfEachKind
PROPERTIES LookupPromise
\* The file cannot be read, the list of proxies is refused, or a function returns.
CHECK_DEADLOCK FALSE
