---------------------------- MODULE EC2Conversion ----------------------------
(***************************************************************************)
(* toEC2Instance (internal/backend/kubernetes/backend.go): what the EC2    *)
(* frontend is given of a Hardware object.  Of the text that is copied     *)
(* field by field only the group it belongs to is kept; the addresses,     *)
(* which a loop picks from the object's list, are modelled one by one.     *)
(***************************************************************************)
EXTENDS Naturals, Sequences

CONSTANTS
    Addresses,  \* what the Address of a listed IP may be
    Empty,      \* the empty string
    Families,   \* what the Family of a listed IP may be
    Specs       \* the Hardware specs considered: see SpecType

IPs == [Family : Families, Public : BOOLEAN, Address : Addresses]
Groups == {"instance", "os", "facility", "userdata"}
\* present: the groups that are not nil, "os" a part of "instance".
SpecType == [present : SUBSET Groups, Ips : Seq(IPs)]

ASSUME EmptyAssumption == Empty \in Addresses
ASSUME SpecAssumption == Specs \subseteq SpecType

VARIABLES
    spec,       \* hw.Spec
    pc,         \* "instance", "ips", "rest" or "done"
    next,       \* the number of IPs the loop has seen
    i           \* the ec2.Instance: groups copied, and the three addresses

conversionVars == <<spec, pc, next, i>>

-----------------------------------------------------------------------------

ConversionInit ==
    /\ spec \in Specs
    /\ pc = "instance"
    /\ next = 0
    /\ i = [copied |-> {}, PublicIPv4 |-> Empty, LocalIPv4 |-> Empty, PublicIPv6 |-> Empty]

\* Without an instance in the metadata the whole part is passed over.
CopyInstance ==
    /\ pc = "instance"
    /\ IF "instance" \in spec.present
       THEN /\ i' = [i EXCEPT !.copied = spec.present \cap {"instance", "os"}]
            /\ pc' = "ips"
       ELSE pc' = "rest" /\ UNCHANGED i
    /\ UNCHANGED <<spec, next>>

\* The kinds of addresses the loop tests for.
PublicV4 == {ip \in IPs : ip.Family = 4 /\ ip.Public}
LocalV4 == {ip \in IPs : ip.Family = 4 /\ ~ip.Public}
V6 == {ip \in IPs : ip.Family = 6}

\* Mutant: an address that is found replaces the one before.
LastOne(ip, kind, address) == IF ip \in kind THEN ip.Address ELSE address

\* The address after ip was seen: it stays once it is set.
FirstOne(ip, kind, address) ==
    IF ip \in kind /\ address = Empty THEN ip.Address ELSE address

\* One turn of the loop.
NextIP ==
    LET ip == spec.Ips[next + 1] IN
    /\ pc = "ips"
    /\ next < Len(spec.Ips)
    /\ i' = [copied |-> i.copied,
             PublicIPv4 |-> FirstOne(ip, PublicV4, i.PublicIPv4),
             LocalIPv4 |-> FirstOne(ip, LocalV4, i.LocalIPv4),
             PublicIPv6 |-> FirstOne(ip, V6, i.PublicIPv6)]
    /\ next' = next + 1
    /\ UNCHANGED <<spec, pc>>

LoopEnds ==
    /\ pc = "ips"
    /\ next = Len(spec.Ips)
    /\ pc' = "rest"
    /\ UNCHANGED <<spec, next, i>>

CopyRest ==
    /\ pc = "rest"
    /\ i' = [i EXCEPT !.copied = i.copied \cup (spec.present \cap {"facility", "userdata"})]
    /\ pc' = "done"
    /\ UNCHANGED <<spec, next>>

ConversionNext == CopyInstance \/ NextIP \/ LoopEnds \/ CopyRest

ConversionSpec == ConversionInit /\ [][ConversionNext]_conversionVars

-----------------------------------------------------------------------------
(* Properties *)

\* address is that of the first IP of a kind that has one, among the first n.
IsFirst(address, n, kind) ==
    \/ /\ address = Empty
       /\ \A k \in 1..n : spec.Ips[k] \in kind => spec.Ips[k].Address = Empty
    \/ /\ address # Empty
       /\ \E k \in 1..n :
             /\ spec.Ips[k] \in kind /\ spec.Ips[k].Address = address
             /\ \A j \in 1..(k - 1) : spec.Ips[j] \in kind => spec.Ips[j].Address = Empty

\* The number of IPs a spec lists.
Listed == IF "instance" \in spec.present THEN Len(spec.Ips) ELSE 0

\* "Iterate over all IPs and set the first one for IPv4 and IPv6": each address
\* is the first of its kind, whatever the order of the list and however many of
\* its entries are empty; without an instance there is none
\* (kubernetes/backend.go:178-195).
FirstOfEachKind ==
    pc = "done" =>
        /\ IsFirst(i.PublicIPv4, Listed, PublicV4)
        /\ IsFirst(i.LocalIPv4, Listed, LocalV4)
        /\ IsFirst(i.PublicIPv6, Listed, V6)

-----------------------------------------------------------------------------
(* What a comment says and the code does not do *)

\* kubernetes/backend.go:191, "Public IPv6": the address served as public-ipv6
\* is that of a public IP; the code does not look (backend.go:192).
PublicIPv6IsPublic ==
    pc = "done" /\ i.PublicIPv6 # Empty =>
        \E k \in DOMAIN spec.Ips :
            spec.Ips[k] \in V6 /\ spec.Ips[k].Public /\ spec.Ips[k].Address = i.PublicIPv6
=============================================================================
