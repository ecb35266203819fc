\* The help of --kubernetes-namespace when it is not given.
CONSTANTS
    h1 = h1  h2 = h2  ns1 = ns1  ns2 = ns2  ip1 = ip1  ip2 = ip2
    Hardware = {h1, h2}
    Namespaces = {ns1, ns2}
    NamespaceOf <- TwoNamespaces
    Namespace = Unset
    Unset = Unset
    Addrs = {ip1, ip2}
    EmptyAddr = EmptyAddr
    NoDHCP = NoDHCP
    Objects <- MCObjects
    Absent = Absent
    NoHardware = NoHardware
    MaxRev = 3
    Requests = {r1}
    BadAddr = BadAddr
    Proxies = {ip2}
    ServiceAccountNamespace = ns1
    NoHeader = NoHeader
    Arrivals <- MCArrivals
SPECIFICATION Spec
INVARIANTS DefaultsToServiceAccount
CHECK_DEADLOCK FALSE
