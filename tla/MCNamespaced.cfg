\* Two concurrent handlers; one of the two machines is in another namespace than
\* the configured one, both may claim the same address.
CONSTANTS
    h1 = h1  h2 = h2  ns1 = ns1  ns2 = ns2  ip1 = ip1  ip2 = ip2
    Hardware = {h1, h2}
    Namespaces = {ns1, ns2}
    NamespaceOf <- TwoNamespaces
    Namespace = ns1
    Unset = Unset
    Addrs = {ip1, ip2}
    EmptyAddr = EmptyAddr
    NoDHCP = NoDHCP
    Objects <- MCObjects
    Absent = Absent
    NoHardware = NoHardware
    MaxRev = 3
    Requests = {r1, r2}
    BadAddr = BadAddr
    Proxies = {ip2}
    ServiceAccountNamespace = ns1
    NoHeader = NoHeader
    Arrivals <- DataArrivals
SPECIFICATION FairSpec
PROPERTIES LookupPromise EventuallyCurrent
CHECK_DEADLOCK FALSE
