\* What the README says of trusted proxies.
CONSTANTS
    Addrs <- MCAddrs
    EmptyAddr = EmptyAddr
    BadAddr = BadAddr
    Files <- MCFiles
    MaxInstances = 3
    Absent = Absent
    Requests = {r1}
    V4 = 2
    Prefix <- MCPrefix
    Entries <- MCDisputedEntries
    Peers <- MCPeers
    Senders <- MCSenders
    Headers <- MCHeaders
    NoHeader = NoHeader
SPECIFICATION ServiceSpec
INVARIANTS TrustsAsDocumented
CHECK_DEADLOCK FALSE
