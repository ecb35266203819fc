--------------------------- MODULE HegelFrontend ---------------------------
(***************************************************************************)
(* The v0 handlers of frontend/hegel: user data, vendor data and a tree of *)
(* metadata that a client can also have at once, as JSON.  The sources are *)
(* kept for a frontend to come and excluded from the build; the model is   *)
(* what they would do.                                                     *)
(*                                                                         *)
(* A client asks for any path, time and again; every request looks its     *)
(* hardware up, which does not change here.                                *)
(***************************************************************************)
EXTENDS Integers, Sequences, FiniteSets

CONSTANTS
    Hardware,     \* what client.ByIP may return, as model.go types it
    Unknown,      \* ByIP failed
    Macs, Indices,  \* the path parameters a client may send, of interfaces or not,
    NotANumber,   \* ... with an index Atoi refuses
    Nothing       \* no value

IsList(s) == s \in Seq({s[i] : i \in DOMAIN s})

ASSUME HardwareAssumption ==
    /\ \A h \in Hardware : IsList(h.disks) /\ IsList(h.keys) /\ IsList(h.interfaces)
    /\ Unknown \notin Hardware
    /\ NotANumber \notin Int

VARIABLES
    hw, path, answer,
    followed   \* history: the client got to path from /meta-data, by listings

hegelVars == <<hw, path, answer, followed>>

Path(route, mac, family, index) ==
    [route |-> route, mac |-> mac, family |-> family, index |-> index]

Top(route) == Path(route, Nothing, Nothing, Nothing)
Item(route, index) == Path(route, Nothing, Nothing, index)

TopRoutes == {"user-data", "vendor-data", "meta-data", "meta-data as JSON",
              "disks", "ssh-public-keys", "hostname", "gateway"}
Paths ==
    {Top(route) : route \in TopRoutes}
        \cup {Item(route, i) : route \in {"disk", "ssh-public-key"}, i \in Indices}
        \cup {Path("mac", m, Nothing, Nothing) : m \in Macs}
        \cup {Path("family", m, f, Nothing) : m \in Macs, f \in {4, 6}}
        \cup {Path(route, m, f, i) : route \in {"entry", "ip", "netmask"}, m \in Macs,
                                     f \in {4, 6}, i \in Indices}

-----------------------------------------------------------------------------
(* Answers: a status with nothing, a value, or a listing of further paths *)

Status(s) == [status |-> s, value |-> Nothing, offers |-> {}]
Value(v) == [Status(200) EXCEPT !.value = v]
Listing(paths) == [Status(200) EXCEPT !.offers = paths]

\* Mutant: a status can be overwritten.
WriteLast(first, second) == second

\* Of two answers to one request, the first one's status and body went out.
Write(first, second) == first

\* Mutant: off by one.
InRangeButTheLast(index, seq) == index >= 0 /\ index < Len(seq) - 1

\* Go counts from 0.
InRange(index, seq) == index >= 0 /\ index < Len(seq)
Entry(seq, index) == seq[index + 1]

\* getHardware: without hardware, 404 and return.
WithHardware(found) == IF hw = Unknown THEN Status(404) ELSE found

-----------------------------------------------------------------------------
(* One operator per handler *)

UserdataHandler == WithHardware(Value(hw.userdata))
VendordataHandler == WithHardware(Value(hw.vendordata))
HostnameHandler == WithHardware(Value(hw.hostname))
GatewayHandler == WithHardware(Value(hw.gateway))

\* Of metadataHandler: the JSON it answers with when asked to.
MetadataJSON ==
    WithHardware(Value([disks |-> hw.disks, keys |-> hw.keys, hostname |-> hw.hostname,
                        gateway |-> hw.gateway, interfaces |-> hw.interfaces]))

\* The plain listing looks nothing up; a client puts its own MAC for ":mac".
MetadataHandler ==
    Listing({Top(route) : route \in {"disks", "ssh-public-keys", "gateway", "hostname"}}
                \cup {Path("mac", m, Nothing, Nothing) : m \in Macs})

Indexed(route, seq) == Listing({Item(route, i) : i \in 0..(Len(seq) - 1)})
DiskHandler == WithHardware(Indexed("disk", hw.disks))
SSHHandler == WithHardware(Indexed("ssh-public-key", hw.keys))

ByIndex(seq, index) ==
    IF index # NotANumber /\ InRange(index, seq) THEN Value(Entry(seq, index)) ELSE Status(400)
DiskIndexHandler(index) == WithHardware(ByIndex(hw.disks, index))
SSHIndexHandler(index) == WithHardware(ByIndex(hw.keys, index))

MacHandler(mac) ==
    WithHardware(IF \E i \in DOMAIN hw.interfaces : hw.interfaces[i].mac = mac
                 THEN Listing({Path("family", mac, f, Nothing) : f \in {4, 6}})
                 ELSE Status(204))

\* What a loop that appends the elements at these positions ends with.
Select(seq, positions) ==
    LET nth(n) == CHOOSE i \in positions : Cardinality({j \in positions : j <= i}) = n
    IN [n \in 1..Cardinality(positions) |-> seq[nth(n)]]

\* The interfaces with the path's MAC; the 404 it may already have written is
\* in OverInterfaces.
GetValidNetworkInterfaces(mac) ==
    IF hw = Unknown THEN <<>>
    ELSE Select(hw.interfaces, {i \in DOMAIN hw.interfaces : hw.interfaces[i].mac = mac})

GetValidAddressFamilyInterfaces(family, interfaces) ==
    Select(interfaces, {i \in DOMAIN interfaces : interfaces[i].family = family})

\* What the handlers of addresses have in common: no return after the 404.
OverInterfaces(mac, served) ==
    LET ownAnswer == IF GetValidNetworkInterfaces(mac) = <<>> THEN Status(204) ELSE served
    IN IF hw = Unknown THEN Write(Status(404), ownAnswer) ELSE ownAnswer

Networks(mac, family) ==
    GetValidAddressFamilyInterfaces(family, GetValidNetworkInterfaces(mac))

FamilyListing(mac, family) ==
    OverInterfaces(mac,
        IF Networks(mac, family) = <<>> THEN Status(204)
        ELSE Listing({Path("entry", mac, family, i) : i \in 0..(Len(Networks(mac, family)) - 1)}))

\* The index is not looked at.
EntryListing(mac, family, index) ==
    OverInterfaces(mac,
        IF Networks(mac, family) = <<>> THEN Status(204)
        ELSE Listing({Path(route, mac, family, index) : route \in {"ip", "netmask"}}))

\* networks[index], or why not.
Pick(mac, family, index, field) ==
    OverInterfaces(mac,
        IF index = NotANumber THEN Status(400)
        ELSE IF ~InRange(index, Networks(mac, family)) THEN Status(204)
        ELSE Value(Entry(Networks(mac, family), index)[field]))

IPv4Handler(p) == FamilyListing(p.mac, 4)
IPv4IndexHandler(p) == EntryListing(p.mac, 4, p.index)
IPv4IPHandler(p) == Pick(p.mac, 4, p.index, "address")
IPv4NetmaskHandler(p) == Pick(p.mac, 4, p.index, "netmask")
IPv6Handler(p) == FamilyListing(p.mac, 6)
IPv6IndexHandler(p) == EntryListing(p.mac, 6, p.index)
IPv6IPHandler(p) == Pick(p.mac, 6, p.index, "address")
\* Mutant: a line left over from the copy of the IPv4 handler.
IPv4NetmaskCopied(p) == Pick(p.mac, 4, p.index, "netmask")
IPv6NetmaskHandler(p) == Pick(p.mac, 6, p.index, "netmask")

\* v0HegelMetadataHandler: the routes.
V0HegelMetadataHandler(p) ==
    CASE p.route = "user-data" -> UserdataHandler
      [] p.route = "vendor-data" -> VendordataHandler
      [] p.route = "meta-data" -> MetadataHandler
      [] p.route = "meta-data as JSON" -> MetadataJSON
      [] p.route = "disks" -> DiskHandler
      [] p.route = "disk" -> DiskIndexHandler(p.index)
      [] p.route = "ssh-public-keys" -> SSHHandler
      [] p.route = "ssh-public-key" -> SSHIndexHandler(p.index)
      [] p.route = "hostname" -> HostnameHandler
      [] p.route = "gateway" -> GatewayHandler
      [] p.route = "mac" -> MacHandler(p.mac)
      [] p.route = "family" -> IF p.family = 4 THEN IPv4Handler(p) ELSE IPv6Handler(p)
      [] p.route = "entry" -> IF p.family = 4 THEN IPv4IndexHandler(p) ELSE IPv6IndexHandler(p)
      [] p.route = "ip" -> IF p.family = 4 THEN IPv4IPHandler(p) ELSE IPv6IPHandler(p)
      [] p.route = "netmask" ->
            IF p.family = 4 THEN IPv4NetmaskHandler(p) ELSE IPv6NetmaskHandler(p)

-----------------------------------------------------------------------------

HegelInit ==
    /\ hw \in Hardware \cup {Unknown}
    /\ path = Top("meta-data")
    /\ answer = MetadataHandler
    /\ followed = TRUE

Get(p) ==
    /\ path' = p
    /\ answer' = V0HegelMetadataHandler(p)
    /\ followed' = \/ p = Top("meta-data")
                   \/ followed /\ p \in answer.offers
    /\ UNCHANGED hw

HegelNext == \E p \in Paths : Get(p)

HegelSpec == HegelInit /\ [][HegelNext]_hegelVars

-----------------------------------------------------------------------------
(* Properties *)

\* A client that goes from listing to listing is never told that a path is
\* wrong, and gets a value wherever it was promised one: the numbers the loops
\* write (hegel.go:147, 188, 280, 366) are those the handlers of one number
\* accept.  A MAC or a family may be without interfaces.
OfferedIsServed ==
    hw # Unknown /\ followed =>
        \/ answer.status = 200
        \/ answer.status = 204 /\ path.route \in {"mac", "family"}

\* The tree holds what the JSON does, at the place the client would look: every
\* disk and key under its number, and of every IPv4 or IPv6 interface that has
\* one of the MACs the address and the netmask that belong together, under its
\* MAC and family; and what the tree offers under a MAC and a family is such an
\* interface of the JSON (hegel.go:62-471).  Both fields are optional
\* (model.go:43-48): an interface without a MAC, or of no family or another
\* one, is in the JSON and nowhere in the tree.
TreeAgreesWithJSON ==
    LET json == answer.value
        At(p) == V0HegelMetadataHandler(p).value
    IN path.route = "meta-data as JSON" /\ hw # Unknown =>
          /\ \A i \in DOMAIN json.disks : At(Item("disk", i - 1)) = json.disks[i]
          /\ \A i \in DOMAIN json.keys : At(Item("ssh-public-key", i - 1)) = json.keys[i]
          /\ At(Top("hostname")) = json.hostname /\ At(Top("gateway")) = json.gateway
          /\ \A i \in DOMAIN json.interfaces :
                LET v == json.interfaces[i] IN
                v.mac \in Macs /\ v.family \in {4, 6} =>
                \E n \in 0..(Len(json.interfaces) - 1) :
                    /\ Path("entry", v.mac, v.family, n) \in
                          V0HegelMetadataHandler(Path("family", v.mac, v.family, Nothing)).offers
                    /\ At(Path("ip", v.mac, v.family, n)) = v.address
                    /\ At(Path("netmask", v.mac, v.family, n)) = v.netmask
          /\ \A mac \in Macs, family \in {4, 6} :
             \A p \in V0HegelMetadataHandler(Path("family", mac, family, Nothing)).offers :
             \E i \in DOMAIN json.interfaces :
                LET v == json.interfaces[i] IN
                /\ v.mac = mac /\ v.family = family
                /\ At(Path("ip", mac, family, p.index)) = v.address
                /\ At(Path("netmask", mac, family, p.index)) = v.netmask

\* A client without hardware is told so on every path that would need it,
\* although the handlers of addresses go on after the 404 (hegel.go:275, 449).
UnknownIs404 ==
    hw = Unknown /\ path.route # "meta-data" => answer.status = 404
=============================================================================
