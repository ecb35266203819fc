------------------------ MODULE HegelFrontendProofs ------------------------
(***************************************************************************)
(* Proofs about HegelFrontend, for every hardware and all path parameters. *)
(* What they turn on is Select, what the handlers' filtering loops end     *)
(* with: nothing selected is lost, and the numbers a listing offers are    *)
(* those the result has.                                                   *)
(***************************************************************************)
EXTENDS HegelFrontend, FiniteSetTheorems, SequenceTheorems, TLAPS

-----------------------------------------------------------------------------
(* The filtering loops *)

\* A function on 1..n is a list.
LEMMA ListOfFunction ==
    ASSUME NEW n \in Nat, NEW f, f = [i \in 1..n |-> f[i]]
    PROVE  IsList(f) /\ DOMAIN f = 1..n /\ Len(f) = n
<1> DEFINE S == {f[i] : i \in DOMAIN f}
<1>1. DOMAIN f = 1..n
  OBVIOUS
<1>2. \A i \in 1..n : f[i] \in S
  BY <1>1
<1>3. f \in [1..n -> S]
  BY <1>1, <1>2
<1>4. f \in Seq(S)
  BY <1>3, SeqDef
<1> QED
  BY <1>1, <1>4, LenProperties DEF IsList

LEMMA ListDomain ==
    ASSUME NEW seq, IsList(seq)
    PROVE  Len(seq) \in Nat /\ DOMAIN seq = 1..Len(seq)
BY LenProperties DEF IsList

\* What was selected is a list no longer than the original, in which everything
\* that was to be selected is found, and nothing else.
LEMMA SelectKeepsAll ==
    ASSUME NEW seq, IsList(seq), NEW P \in SUBSET DOMAIN seq
    PROVE  /\ IsList(Select(seq, P))
           /\ Len(Select(seq, P)) \in Nat
           /\ Len(Select(seq, P)) <= Len(seq)
           /\ DOMAIN Select(seq, P) = 1..Len(Select(seq, P))
           /\ \A i \in P : \E n \in 1..Len(Select(seq, P)) : Select(seq, P)[n] = seq[i]
           /\ \A n \in 1..Len(Select(seq, P)) : \E i \in P : Select(seq, P)[n] = seq[i]
<1> DEFINE upTo(i) == {j \in P : j <= i}
           nth(n) == CHOOSE i \in P : Cardinality(upTo(i)) = n
           s == Select(seq, P)
           c == Cardinality(P)
<1>1. Len(seq) \in Nat /\ DOMAIN seq = 1..Len(seq)
  BY ListDomain
<1>2. IsFiniteSet(P) /\ c \in Nat /\ c <= Len(seq)
  <2>1. IsFiniteSet(1..Len(seq)) /\ Cardinality(1..Len(seq)) = Len(seq)
    BY <1>1, FS_Interval
  <2> QED
    BY <1>1, <2>1, FS_Subset, FS_CardinalityType
<1>3. s = [n \in 1..c |-> seq[nth(n)]]
  BY DEF Select
<1>4. IsList(s) /\ Len(s) = c /\ DOMAIN s = 1..c
  <2> HIDE DEF s, nth
  <2>1. s = [n \in 1..c |-> s[n]]
    BY <1>3
  <2> HIDE DEF c
  <2> QED
    BY <1>2, <2>1, ListOfFunction
\* The rank of a position tells it from the others, and every rank occurs.
<1>5. ASSUME NEW i \in P
      PROVE  Cardinality(upTo(i)) \in 1..c
  <2>1. upTo(i) \in SUBSET P /\ i \in upTo(i)
    BY <1>1
  <2>2. IsFiniteSet(upTo(i)) /\ Cardinality(upTo(i)) <= c
    BY <1>2, <2>1, FS_Subset
  <2>3. Cardinality(upTo(i)) \in Nat /\ Cardinality(upTo(i)) # 0
    BY <2>1, <2>2, FS_CardinalityType, FS_EmptySet
  <2> HIDE DEF upTo, c
  <2> QED
    BY <1>2, <2>2, <2>3
<1>6. ASSUME NEW i \in P, NEW k \in P, Cardinality(upTo(k)) = Cardinality(upTo(i))
      PROVE  k = i
  <2>1. upTo(i) \in SUBSET P /\ i \in upTo(i) /\ upTo(k) \in SUBSET P /\ k \in upTo(k)
    BY <1>1
  <2>2. IsFiniteSet(upTo(k)) /\ IsFiniteSet(upTo(i))
    BY <1>2, <2>1, FS_Subset
  <2>3. CASE k <= i
    <3>1. upTo(k) \in SUBSET upTo(i)
      BY <1>1, <2>3
    <3>2. upTo(k) = upTo(i)
      BY <1>6, <2>2, <3>1, FS_Subset
    <3> QED
      BY <1>1, <2>1, <2>3, <3>2
  <2>4. CASE i <= k
    <3>1. upTo(i) \in SUBSET upTo(k)
      BY <1>1, <2>4
    <3>2. upTo(k) = upTo(i)
      BY <1>6, <2>2, <3>1, FS_Subset
    <3> QED
      BY <1>1, <2>1, <2>4, <3>2
  <2> QED
    BY <1>1, <2>3, <2>4
<1>7. ASSUME NEW n \in 1..c
      PROVE  \E i \in P : Cardinality(upTo(i)) = n
  <2> DEFINE rank == [i \in P |-> Cardinality(upTo(i))]
  <2> HIDE DEF upTo, c
  <2>1. rank \in [P -> 1..c]
    BY <1>5
  <2>2. IsInjective(rank)
    BY <1>6 DEF IsInjective
  <2>3. rank \in Injection(P, 1..c)
    BY <2>1, <2>2 DEF Injection
  <2>4. IsFiniteSet(1..c) /\ Cardinality(1..c) = c
    BY <1>2, FS_Interval
  <2>5. rank \in Surjection(P, 1..c)
    <3> HIDE DEF rank
    <3>1. Cardinality(P) = c
      BY DEF c
    <3> QED
      BY <2>3, <2>4, <3>1, FS_Injection
  <2> QED
    BY <2>5 DEF Surjection
<1>8. ASSUME NEW n \in 1..c
      PROVE  s[n] = seq[nth(n)]
  <2> HIDE DEF c, s, nth
  <2> QED
    BY <1>3
<1>9. ASSUME NEW i \in P
      PROVE  \E n \in 1..c : s[n] = seq[i]
  <2> DEFINE n == Cardinality(upTo(i))
  <2>1. nth(n) = i
    BY <1>6
  <2> HIDE DEF n, c, s, nth
  <2>2. n \in 1..c
    BY <1>5 DEF n
  <2> QED
    BY <1>8, <2>1, <2>2
<1>10. ASSUME NEW n \in 1..c
       PROVE  \E i \in P : s[n] = seq[i]
  <2>1. nth(n) \in P
    BY <1>7
  <2> HIDE DEF c, s, nth
  <2> QED
    BY <1>8, <2>1
<1> HIDE DEF c, s
<1>11. /\ IsList(s) /\ Len(s) \in Nat /\ Len(s) <= Len(seq) /\ DOMAIN s = 1..Len(s)
       /\ \A i \in P : \E n \in 1..Len(s) : s[n] = seq[i]
       /\ \A n \in 1..Len(s) : \E i \in P : s[n] = seq[i]
  BY <1>2, <1>4, <1>9, <1>10
<1> QED
  BY <1>11 DEF s

-----------------------------------------------------------------------------
(* The interfaces of a MAC and a family *)

\* The lists GetValidAddressFamilyInterfaces yields number no more than those
\* of the MAC, and these no more than the hardware has; every interface is in
\* the lists of its own MAC and family, and in no other.
LEMMA NetworksInDetail ==
    ASSUME hw \in Hardware, NEW m, NEW f
    PROVE  /\ IsList(hw.interfaces)
           /\ Len(Networks(m, f)) \in Nat
           /\ Len(Networks(m, f)) <= Len(hw.interfaces)
           /\ DOMAIN Networks(m, f) = 1..Len(Networks(m, f))
           /\ Networks(m, f) # <<>> <=> Len(Networks(m, f)) > 0
           /\ Len(Networks(m, f)) > 0 => GetValidNetworkInterfaces(m) # <<>>
           /\ \A i \in DOMAIN hw.interfaces :
                 hw.interfaces[i].mac = m /\ hw.interfaces[i].family = f =>
                    \E n \in 1..Len(Networks(m, f)) : Networks(m, f)[n] = hw.interfaces[i]
           /\ \A n \in 1..Len(Networks(m, f)) :
              \E i \in DOMAIN hw.interfaces :
                 /\ Networks(m, f)[n] = hw.interfaces[i]
                 /\ hw.interfaces[i].mac = m /\ hw.interfaces[i].family = f
<1> DEFINE all == hw.interfaces
           P == {i \in DOMAIN all : all[i].mac = m}
           own == GetValidNetworkInterfaces(m)
           Q == {i \in DOMAIN own : own[i].family = f}
           nets == Networks(m, f)
<1>1. IsList(all)
  BY HardwareAssumption
<1>2. own = Select(all, P)
  BY HardwareAssumption DEF GetValidNetworkInterfaces
<1>3. nets = Select(own, Q)
  BY DEF Networks, GetValidAddressFamilyInterfaces
<1> HIDE DEF all, own, nets
<1>4. P \in SUBSET DOMAIN all /\ Q \in SUBSET DOMAIN own
  OBVIOUS
<1>5. /\ IsList(own) /\ Len(own) \in Nat /\ Len(own) <= Len(all)
      /\ DOMAIN own = 1..Len(own)
      /\ \A i \in P : \E n \in 1..Len(own) : own[n] = all[i]
      /\ \A n \in 1..Len(own) : \E i \in P : own[n] = all[i]
  <2> HIDE DEF P
  <2> QED
    BY <1>1, <1>2, <1>4, SelectKeepsAll
<1>6. /\ IsList(nets) /\ Len(nets) \in Nat /\ Len(nets) <= Len(own)
      /\ DOMAIN nets = 1..Len(nets)
      /\ \A i \in Q : \E n \in 1..Len(nets) : nets[n] = own[i]
      /\ \A n \in 1..Len(nets) : \E i \in Q : nets[n] = own[i]
  <2> HIDE DEF Q
  <2> QED
    BY <1>3, <1>4, <1>5, SelectKeepsAll
<1>7. Len(nets) <= Len(all)
  BY <1>1, <1>5, <1>6, ListDomain
<1>8. nets # <<>> <=> Len(nets) > 0
  BY <1>6, EmptySeq DEF IsList
<1>9. Len(nets) > 0 => own # <<>>
  BY <1>5, <1>6
<1>10. ASSUME NEW i \in DOMAIN all, all[i].mac = m, all[i].family = f
       PROVE  \E n \in 1..Len(nets) : nets[n] = all[i]
  <2>1. PICK k \in 1..Len(own) : own[k] = all[i]
    BY <1>5, <1>10
  <2>2. k \in Q
    BY <1>5, <1>10, <2>1
  <2> QED
    BY <1>6, <2>1, <2>2
<1>11. ASSUME NEW n \in 1..Len(nets)
       PROVE  \E i \in DOMAIN all : nets[n] = all[i] /\ all[i].mac = m /\ all[i].family = f
  <2>1. PICK k \in Q : nets[n] = own[k]
    BY <1>6
  <2>2. own[k].family = f /\ k \in 1..Len(own)
    BY <1>5, <2>1
  <2>3. PICK i \in P : own[k] = all[i]
    BY <1>5, <2>2
  <2> QED
    BY <2>1, <2>2, <2>3
<1> QED
  BY <1>1, <1>6, <1>7, <1>8, <1>9, <1>10, <1>11 DEF all, nets, own

\* The three things it says, to be cited one by one.
LEMMA NetworksOfHardware ==
    ASSUME hw \in Hardware, NEW m, NEW f
    PROVE  /\ IsList(hw.interfaces)
           /\ Len(Networks(m, f)) \in Nat
           /\ Len(Networks(m, f)) <= Len(hw.interfaces)
           /\ DOMAIN Networks(m, f) = 1..Len(Networks(m, f))
           /\ Networks(m, f) # <<>> <=> Len(Networks(m, f)) > 0
           /\ Len(Networks(m, f)) > 0 => GetValidNetworkInterfaces(m) # <<>>
BY NetworksInDetail

LEMMA InterfaceIsListed ==
    ASSUME hw \in Hardware, NEW m, NEW f
    PROVE  \A i \in DOMAIN hw.interfaces :
              hw.interfaces[i].mac = m /\ hw.interfaces[i].family = f =>
                 \E n \in 1..Len(Networks(m, f)) : Networks(m, f)[n] = hw.interfaces[i]
BY NetworksInDetail

LEMMA ListedIsInterface ==
    ASSUME hw \in Hardware, NEW m, NEW f, NEW n \in 1..Len(Networks(m, f))
    PROVE  \E i \in DOMAIN hw.interfaces :
              /\ Networks(m, f)[n] = hw.interfaces[i]
              /\ hw.interfaces[i].mac = m /\ hw.interfaces[i].family = f
BY NetworksInDetail

-----------------------------------------------------------------------------
(* Every listing offers only what is served *)

\* The paths that are served to a client with hardware.
Offerable(p) ==
    \/ p \in {Top(route) : route \in {"meta-data", "disks", "ssh-public-keys", "gateway",
                                      "hostname"}}
    \/ p \in {Item("disk", i) : i \in 0..(Len(hw.disks) - 1)}
    \/ p \in {Item("ssh-public-key", i) : i \in 0..(Len(hw.keys) - 1)}
    \/ \E m : p = Path("mac", m, Nothing, Nothing)
    \/ \E m : \E f \in {4, 6} :
          \/ p = Path("family", m, f, Nothing)
          \/ \E i \in 0..(Len(Networks(m, f)) - 1) :
                p \in {Path(route, m, f, i) : route \in {"entry", "ip", "netmask"}}

Served(p, a) ==
    \/ a.status = 200
    \/ a.status = 204 /\ p.route \in {"mac", "family"}

LEMMA NumberedIsServed ==
    ASSUME NEW seq, IsList(seq), NEW i \in 0..(Len(seq) - 1)
    PROVE  ByIndex(seq, i) = Value(seq[i + 1])
<1>1. i \in Int /\ i >= 0 /\ i < Len(seq)
  BY ListDomain
<1> QED
  BY <1>1, HardwareAssumption DEF ByIndex, InRange, Entry

\* The handlers of one family's interfaces, for the numbers its listing has.
LEMMA NetworkServed ==
    ASSUME hw \in Hardware, NEW m, NEW f, NEW i \in 0..(Len(Networks(m, f)) - 1)
    PROVE  /\ FamilyListing(m, f) =
                 Listing({Path("entry", m, f, k) : k \in 0..(Len(Networks(m, f)) - 1)})
           /\ EntryListing(m, f, i) =
                 Listing({Path(route, m, f, i) : route \in {"ip", "netmask"}})
<1> DEFINE nets == Networks(m, f)
<1>1. Len(nets) \in Nat
  BY NetworksOfHardware
<1>2. Len(nets) > 0 /\ i \in Int /\ i >= 0 /\ i < Len(nets)
  BY <1>1
<1>3. nets # <<>> /\ GetValidNetworkInterfaces(m) # <<>>
  BY <1>2, NetworksOfHardware
<1>4. hw # Unknown /\ i # NotANumber
  BY <1>2, HardwareAssumption
<1> HIDE DEF nets
<1>5. \A served : OverInterfaces(m, served) = served
  BY <1>3, <1>4 DEF OverInterfaces
<1> QED
  BY <1>3, <1>5 DEF FamilyListing, EntryListing, nets

LEMMA NetworkPicked ==
    ASSUME hw \in Hardware, NEW m, NEW f, NEW i \in 0..(Len(Networks(m, f)) - 1), NEW field
    PROVE  Pick(m, f, i, field) = Value(Networks(m, f)[i + 1][field])
<1> DEFINE nets == Networks(m, f)
<1>1. Len(nets) \in Nat
  BY NetworksOfHardware
<1>2. Len(nets) > 0 /\ i \in Int /\ i >= 0 /\ i < Len(nets)
  BY <1>1
<1>3. GetValidNetworkInterfaces(m) # <<>>
  BY <1>2, NetworksOfHardware
<1>4. hw # Unknown /\ i # NotANumber
  BY <1>2, HardwareAssumption
<1> HIDE DEF nets
<1>5. \A served : OverInterfaces(m, served) = served
  BY <1>3, <1>4 DEF OverInterfaces
<1> QED
  BY <1>2, <1>4, <1>5 DEF Pick, InRange, Entry, nets

\* Every element of a list, and every interface among those of its MAC and
\* family, is found under a number that is listed.
LEMMA EveryElementIsFound ==
    ASSUME NEW seq, IsList(seq), NEW i \in DOMAIN seq
    PROVE  ByIndex(seq, i - 1) = Value(seq[i])
<1>1. Len(seq) \in Nat /\ i \in 1..Len(seq)
  BY ListDomain
<1> DEFINE k == i - 1
<1>2. k \in 0..(Len(seq) - 1) /\ k + 1 = i
  BY <1>1
<1> HIDE DEF k
<1>3. ByIndex(seq, k) = Value(seq[i])
  BY <1>2, NumberedIsServed
<1> QED
  BY <1>3 DEF k

LEMMA EveryInterfaceIsFound ==
    ASSUME hw \in Hardware, NEW i \in DOMAIN hw.interfaces,
           NEW v, v = hw.interfaces[i], NEW m, m = v.mac, NEW f, f = v.family
    PROVE  \E n \in 0..(Len(hw.interfaces) - 1) :
              /\ n \in 0..(Len(Networks(m, f)) - 1)
              /\ Pick(m, f, n, "address") = Value(v.address)
              /\ Pick(m, f, n, "netmask") = Value(v.netmask)
<1> DEFINE nets == Networks(m, f)
<1>1. PICK k \in 1..Len(nets) : nets[k] = v
  BY InterfaceIsListed
<1>2. Len(nets) \in Nat /\ Len(hw.interfaces) \in Nat /\ Len(nets) <= Len(hw.interfaces)
  BY NetworksOfHardware, ListDomain
<1> DEFINE n == k - 1
<1>3. n \in 0..(Len(nets) - 1) /\ n \in 0..(Len(hw.interfaces) - 1) /\ n + 1 = k
  <2> HIDE DEF nets
  <2> QED
    BY <1>2
<1> HIDE DEF n
<1>4. /\ Pick(m, f, n, "address") = Value(nets[n + 1].address)
      /\ Pick(m, f, n, "netmask") = Value(nets[n + 1].netmask)
  BY <1>3, NetworkPicked
<1> QED
  BY <1>1, <1>3, <1>4

IsFoundUnder(v, m, f, k) ==
    /\ v.mac = m /\ v.family = f
    /\ Pick(m, f, k, "address") = Value(v.address)
    /\ Pick(m, f, k, "netmask") = Value(v.netmask)

\* What is found under a listed number is an interface of the MAC and the family.
LEMMA OnlyInterfacesAreFound ==
    ASSUME hw \in Hardware, NEW m, NEW f, NEW k \in 0..(Len(Networks(m, f)) - 1)
    PROVE  \E i \in DOMAIN hw.interfaces : IsFoundUnder(hw.interfaces[i], m, f, k)
<1> DEFINE nets == Networks(m, f)
<1>1. Len(nets) \in Nat
  BY NetworksOfHardware
<1>2. k + 1 \in 1..Len(nets)
  <2>1. k \in Int /\ k >= 0 /\ k < Len(nets)
    BY <1>1
  <2> HIDE DEF nets
  <2> QED
    BY <1>1, <2>1
<1>3. PICK i \in DOMAIN hw.interfaces :
         /\ nets[k + 1] = hw.interfaces[i]
         /\ hw.interfaces[i].mac = m /\ hw.interfaces[i].family = f
  BY <1>2, ListedIsInterface
<1>4. /\ Pick(m, f, k, "address") = Value(nets[k + 1].address)
      /\ Pick(m, f, k, "netmask") = Value(nets[k + 1].netmask)
  BY NetworkPicked
<1> QED
  BY <1>3, <1>4 DEF IsFoundUnder

LEMMA OfferedIsInterface ==
    ASSUME hw \in Hardware, NEW m, NEW f, NEW p, p \in FamilyListing(m, f).offers,
           NEW k, k = p.index
    PROVE  \E i \in DOMAIN hw.interfaces : IsFoundUnder(hw.interfaces[i], m, f, k)
<1> DEFINE entries == {Path("entry", m, f, j) : j \in 0..(Len(Networks(m, f)) - 1)}
<1>1. FamilyListing(m, f) \in {Status(204), Listing(entries)}
  <2>1. hw # Unknown
    BY HardwareAssumption
  <2> QED
    BY <2>1 DEF FamilyListing, OverInterfaces
<1>2. p \in entries
  <2> HIDE DEF entries
  <2>1. Status(204).offers = {} /\ Listing(entries).offers = entries
    BY DEF Listing, Status
  <2> QED
    BY <1>1, <2>1
<1>3. k \in 0..(Len(Networks(m, f)) - 1)
  <2>1. PICK j \in 0..(Len(Networks(m, f)) - 1) : p = Path("entry", m, f, j)
    BY <1>2
  <2>2. p.index = j
    BY <2>1 DEF Path
  <2> QED
    BY <2>1, <2>2
<1> QED
  BY <1>3, OnlyInterfacesAreFound

\* Which handler answers for one MAC and family.
Families == {4, 6}

LEMMA FamilyIsRouted ==
    ASSUME NEW m, NEW f \in Families
    PROVE  /\ V0HegelMetadataHandler(Path("family", m, f, Nothing)) = FamilyListing(m, f)
           /\ \A i : /\ V0HegelMetadataHandler(Path("ip", m, f, i)) = Pick(m, f, i, "address")
                     /\ V0HegelMetadataHandler(Path("netmask", m, f, i)) =
                           Pick(m, f, i, "netmask")
<1>1. V0HegelMetadataHandler(Path("family", m, f, Nothing)) = FamilyListing(m, f)
  BY DEF V0HegelMetadataHandler, Path, IPv4Handler, IPv6Handler, Families
<1>2. ASSUME NEW i
      PROVE  V0HegelMetadataHandler(Path("ip", m, f, i)) = Pick(m, f, i, "address")
  BY DEF V0HegelMetadataHandler, Path, IPv4IPHandler, IPv6IPHandler, Families
<1>3. ASSUME NEW i
      PROVE  V0HegelMetadataHandler(Path("netmask", m, f, i)) = Pick(m, f, i, "netmask")
  BY DEF V0HegelMetadataHandler, Path, IPv4NetmaskHandler, IPv6NetmaskHandler, Families
<1> QED
  BY <1>1, <1>2, <1>3

\* Whatever is offered is served, and offers only what is.
LEMMA OfferableIsServed ==
    ASSUME hw \in Hardware, NEW p, Offerable(p)
    PROVE  /\ Served(p, V0HegelMetadataHandler(p))
           /\ \A q \in V0HegelMetadataHandler(p).offers : Offerable(q)
<1> DEFINE a == V0HegelMetadataHandler(p)
<1>0. hw # Unknown /\ \A x : WithHardware(x) = x
  BY HardwareAssumption DEF WithHardware
<1>1. CASE p \in {Top(route) : route \in {"gateway", "hostname"}}
  <2>1. CASE p = Top("gateway")
    <3>1. a = Value(hw.gateway)
      BY <1>0, <2>1 DEF V0HegelMetadataHandler, Top, Path, GatewayHandler
    <3> QED
      BY <3>1 DEF Served, Value, Status
  <2>2. CASE p = Top("hostname")
    <3>1. a = Value(hw.hostname)
      BY <1>0, <2>2 DEF V0HegelMetadataHandler, Top, Path, HostnameHandler
    <3> QED
      BY <3>1 DEF Served, Value, Status
  <2> QED
    BY <1>1, <2>1, <2>2
<1>2. CASE p = Top("meta-data")
  <2>1. a = MetadataHandler
    BY <1>2 DEF V0HegelMetadataHandler, Top, Path
  <2>2. a.status = 200
    BY <2>1 DEF MetadataHandler, Listing, Status
  <2>3. a.offers = {Top(route) : route \in {"disks", "ssh-public-keys", "gateway", "hostname"}}
                      \cup {Path("mac", m, Nothing, Nothing) : m \in Macs}
    BY <2>1 DEF MetadataHandler, Listing, Status
  <2>4. \A q \in a.offers : Offerable(q)
    BY <2>3 DEF Offerable
  <2> QED
    BY <2>2, <2>4 DEF Served
<1>3. CASE p = Top("disks")
  <2>1. a = Indexed("disk", hw.disks)
    BY <1>0, <1>3 DEF V0HegelMetadataHandler, Top, Path, DiskHandler
  <2>2. a.status = 200 /\ a.offers = {Item("disk", i) : i \in 0..(Len(hw.disks) - 1)}
    BY <2>1 DEF Indexed, Listing, Status
  <2> QED
    BY <2>2 DEF Served, Offerable
<1>4. CASE p = Top("ssh-public-keys")
  <2>1. a = Indexed("ssh-public-key", hw.keys)
    BY <1>0, <1>4 DEF V0HegelMetadataHandler, Top, Path, SSHHandler
  <2>2. a.status = 200 /\ a.offers = {Item("ssh-public-key", i) : i \in 0..(Len(hw.keys) - 1)}
    BY <2>1 DEF Indexed, Listing, Status
  <2> QED
    BY <2>2 DEF Served, Offerable
<1>5. ASSUME NEW i \in 0..(Len(hw.disks) - 1), p = Item("disk", i)
      PROVE  Served(p, a) /\ a.offers = {}
  <2>1. a = ByIndex(hw.disks, i)
    BY <1>0, <1>5 DEF V0HegelMetadataHandler, Item, Path, DiskIndexHandler
  <2>2. a = Value(hw.disks[i + 1])
    BY <2>1, NumberedIsServed, HardwareAssumption
  <2> QED
    BY <2>2 DEF Served, Value, Status
<1>6. ASSUME NEW i \in 0..(Len(hw.keys) - 1), p = Item("ssh-public-key", i)
      PROVE  Served(p, a) /\ a.offers = {}
  <2>1. a = ByIndex(hw.keys, i)
    BY <1>0, <1>6 DEF V0HegelMetadataHandler, Item, Path, SSHIndexHandler
  <2>2. a = Value(hw.keys[i + 1])
    BY <2>1, NumberedIsServed, HardwareAssumption
  <2> QED
    BY <2>2 DEF Served, Value, Status
<1>7. ASSUME NEW m, p = Path("mac", m, Nothing, Nothing)
      PROVE  Served(p, a) /\ \A q \in a.offers : Offerable(q)
  <2>1. p.route = "mac" /\ p.mac = m
    BY <1>7 DEF Path
  <2>2. a = MacHandler(m)
    BY <2>1 DEF V0HegelMetadataHandler
  <2>3. a \in {Status(204), Listing({Path("family", m, f, Nothing) : f \in {4, 6}})}
    BY <1>0, <2>2 DEF MacHandler
  <2>4. CASE a = Status(204)
    BY <2>1, <2>4 DEF Served, Status
  <2>5. CASE a = Listing({Path("family", m, f, Nothing) : f \in {4, 6}})
    <3>1. a.status = 200 /\ a.offers = {Path("family", m, f, Nothing) : f \in {4, 6}}
      BY <2>5 DEF Listing, Status
    <3> QED
      BY <3>1 DEF Served, Offerable
  <2> QED
    BY <2>3, <2>4, <2>5
<1>8. ASSUME NEW m, NEW f \in {4, 6}, p = Path("family", m, f, Nothing)
      PROVE  Served(p, a) /\ \A q \in a.offers : Offerable(q)
  <2>1. p.route = "family" /\ p.mac = m /\ p.family = f
    BY <1>8 DEF Path
  <2>2. a = FamilyListing(m, f)
    BY <2>1 DEF V0HegelMetadataHandler, IPv4Handler, IPv6Handler
  <2> DEFINE entries == {Path("entry", m, f, k) : k \in 0..(Len(Networks(m, f)) - 1)}
  <2>3. a \in {Status(204), Listing(entries)}
    BY <1>0, <2>2 DEF FamilyListing, OverInterfaces
  <2>4. CASE a = Status(204)
    BY <2>1, <2>4 DEF Served, Status
  <2>5. CASE a = Listing(entries)
    <3>1. a.status = 200 /\ a.offers = entries
      BY <2>5 DEF Listing, Status
    <3>2. \A q \in entries : Offerable(q)
      BY DEF Offerable
    <3> QED
      BY <3>1, <3>2 DEF Served
  <2> QED
    BY <2>3, <2>4, <2>5
<1>9. ASSUME NEW m, NEW f \in {4, 6}, NEW i \in 0..(Len(Networks(m, f)) - 1),
             p \in {Path(route, m, f, i) : route \in {"entry", "ip", "netmask"}}
      PROVE  Served(p, a) /\ \A q \in a.offers : Offerable(q)
  <2>1. p.route \in {"entry", "ip", "netmask"} /\ p.mac = m /\ p.family = f /\ p.index = i
    BY <1>9 DEF Path
  <2>2. CASE p.route = "entry"
    <3>1. a = EntryListing(m, f, i)
      BY <2>1, <2>2 DEF V0HegelMetadataHandler, IPv4IndexHandler, IPv6IndexHandler
    <3>2. a = Listing({Path(route, m, f, i) : route \in {"ip", "netmask"}})
      BY <3>1, NetworkServed
    <3>3. a.status = 200 /\ a.offers = {Path(route, m, f, i) : route \in {"ip", "netmask"}}
      BY <3>2 DEF Listing, Status
    <3> QED
      BY <3>3 DEF Served, Offerable
  <2>3. CASE p.route \in {"ip", "netmask"}
    <3>1. \E field : a = Pick(m, f, i, field)
      <4>1. CASE p.route = "ip"
        BY <2>1, <4>1 DEF V0HegelMetadataHandler, IPv4IPHandler, IPv6IPHandler
      <4>2. CASE p.route = "netmask"
        BY <2>1, <4>2 DEF V0HegelMetadataHandler, IPv4NetmaskHandler, IPv6NetmaskHandler
      <4> QED
        BY <2>3, <4>1, <4>2
    <3>2. PICK field : a = Pick(m, f, i, field)
      BY <3>1
    <3> HIDE DEF a
    <3>3. a = Value(Networks(m, f)[i + 1][field])
      BY <3>2, NetworkPicked
    <3>4. a.status = 200 /\ a.offers = {}
      BY <3>3 DEF Value, Status
    <3> QED
      BY <3>4 DEF Served
  <2> QED
    BY <2>1, <2>2, <2>3
<1> HIDE DEF a
<1> QED
  BY <1>1, <1>2, <1>3, <1>4, <1>5, <1>6, <1>7, <1>8, <1>9 DEF Offerable, a

-----------------------------------------------------------------------------
(* The invariant *)

Inv ==
    /\ hw \in Hardware \cup {Unknown}
    /\ path \in Paths
    /\ answer = V0HegelMetadataHandler(path)
    /\ hw # Unknown /\ followed => Offerable(path)

LEMMA InitInv == HegelInit => Inv
<1> SUFFICES ASSUME HegelInit PROVE Inv
  OBVIOUS
<1>1. path = Top("meta-data") /\ answer = MetadataHandler /\ hw \in Hardware \cup {Unknown}
  BY DEF HegelInit
<1>2. answer = V0HegelMetadataHandler(path)
  BY <1>1 DEF V0HegelMetadataHandler, Top, Path
<1>3. path \in Paths
  BY <1>1 DEF Paths, TopRoutes
<1>4. Offerable(path)
  BY <1>1 DEF Offerable
<1> QED
  BY <1>1, <1>2, <1>3, <1>4 DEF Inv

\* What a path is answered with depends on the hardware alone.
LEMMA AnswersAreStable ==
    ASSUME hw' = hw, NEW p
    PROVE  /\ V0HegelMetadataHandler(p)' = V0HegelMetadataHandler(p)
           /\ Offerable(p)' <=> Offerable(p)
<1>1. \A m : GetValidNetworkInterfaces(m)' = GetValidNetworkInterfaces(m)
  BY DEF GetValidNetworkInterfaces
<1>2. \A m, f : Networks(m, f)' = Networks(m, f)
  BY <1>1 DEF Networks
<1>3. \A x : WithHardware(x)' = WithHardware(x)
  BY DEF WithHardware
<1>4. \A m, x : OverInterfaces(m, x)' = OverInterfaces(m, x)
  BY <1>1 DEF OverInterfaces
<1>5. /\ UserdataHandler' = UserdataHandler /\ VendordataHandler' = VendordataHandler
      /\ HostnameHandler' = HostnameHandler /\ GatewayHandler' = GatewayHandler
      /\ MetadataJSON' = MetadataJSON
      /\ DiskHandler' = DiskHandler /\ SSHHandler' = SSHHandler
      /\ \A i : DiskIndexHandler(i)' = DiskIndexHandler(i)
      /\ \A i : SSHIndexHandler(i)' = SSHIndexHandler(i)
  BY DEF UserdataHandler, VendordataHandler, HostnameHandler, GatewayHandler, MetadataJSON,
     DiskHandler, SSHHandler, DiskIndexHandler, SSHIndexHandler, WithHardware
<1>6. \A m : MacHandler(m)' = MacHandler(m)
  BY DEF MacHandler, WithHardware
<1>7. \A m, f : FamilyListing(m, f)' = FamilyListing(m, f)
  BY <1>2, <1>4 DEF FamilyListing
<1>8. \A m, f, i : EntryListing(m, f, i)' = EntryListing(m, f, i)
  BY <1>2, <1>4 DEF EntryListing
<1>9. \A m, f, i, field : Pick(m, f, i, field)' = Pick(m, f, i, field)
  BY <1>2, <1>4 DEF Pick
<1>10. V0HegelMetadataHandler(p)' = V0HegelMetadataHandler(p)
  BY <1>5, <1>6, <1>7, <1>8, <1>9 DEF V0HegelMetadataHandler, IPv4Handler, IPv6Handler,
     IPv4IndexHandler, IPv6IndexHandler, IPv4IPHandler, IPv6IPHandler, IPv4NetmaskHandler,
     IPv6NetmaskHandler
<1>11. Offerable(p)' <=> Offerable(p)
  BY <1>2 DEF Offerable
<1> QED
  BY <1>10, <1>11

LEMMA StepInv == Inv /\ [HegelNext]_hegelVars => Inv'
<1> SUFFICES ASSUME Inv, [HegelNext]_hegelVars PROVE Inv'
  OBVIOUS
<1>1. CASE HegelNext
  <2>1. PICK p \in Paths : Get(p)
    BY <1>1 DEF HegelNext
  <2>2. hw' = hw /\ path' = p /\ answer' = V0HegelMetadataHandler(p)
    BY <2>1 DEF Get
  <2>3. (answer = V0HegelMetadataHandler(path))'
    <3>1. answer' = V0HegelMetadataHandler(p)'
      BY <2>2, AnswersAreStable
    <3> QED
      BY <2>2, <3>1 DEF V0HegelMetadataHandler
  <2>4. ASSUME hw' # Unknown, followed'
        PROVE  Offerable(path)'
    <3>1. hw \in Hardware
      BY <2>2, <2>4 DEF Inv
    <3>2. Offerable(p)
      <4>1. CASE p = Top("meta-data")
        BY <4>1 DEF Offerable
      <4>2. CASE followed /\ p \in answer.offers
        BY <2>2, <2>4, <3>1, <4>2, OfferableIsServed DEF Inv
      <4> QED
        BY <2>1, <2>4, <4>1, <4>2 DEF Get
    <3>3. Offerable(p)'
      BY <2>2, <3>2, AnswersAreStable
    <3> QED
      BY <2>2, <3>3 DEF Offerable
  <2> QED
    BY <2>2, <2>3, <2>4 DEF Inv
<1>2. CASE UNCHANGED hegelVars
  <2>1. /\ hw' = hw /\ path' = path /\ answer' = answer /\ followed' = followed
    BY <1>2 DEF hegelVars
  <2>2. PICK p \in Paths : p = path
    BY DEF Inv
  <2>3. V0HegelMetadataHandler(p)' = V0HegelMetadataHandler(p) /\ (Offerable(p)' <=> Offerable(p))
    BY <2>1, AnswersAreStable
  <2>4. (answer = V0HegelMetadataHandler(path))'
    <3>1. answer' = V0HegelMetadataHandler(p)'
      BY <2>1, <2>2, <2>3 DEF Inv
    <3> QED
      BY <2>1, <2>2, <3>1 DEF V0HegelMetadataHandler
  <2>5. ASSUME hw' # Unknown, followed'
        PROVE  Offerable(path)'
    <3>1. Offerable(p)
      BY <2>1, <2>2, <2>5 DEF Inv
    <3>2. Offerable(p)'
      BY <2>3, <3>1
    <3> QED
      BY <2>1, <2>2, <3>2 DEF Offerable
  <2> QED
    BY <2>1, <2>4, <2>5 DEF Inv
<1> QED
  BY <1>1, <1>2

\* What a client is told is what the handler of its path says, and a client that
\* got there by following listings asks for a path that some listing offers, for
\* hardware of any size (hegel.go:24-52).
THEOREM Invariant == HegelSpec => []Inv
BY InitInv, StepInv, PTL DEF HegelSpec

-----------------------------------------------------------------------------

\* A client that goes from listing to listing is never told that a path is
\* wrong, and gets a value wherever it was promised one: the numbers the loops
\* write (hegel.go:147, 188, 280, 366) are those the handlers of one number
\* accept, and a listing never offers what is beyond the end.
THEOREM ListingsAreServed == HegelSpec => []OfferedIsServed
<1>1. Inv => OfferedIsServed
  <2> SUFFICES ASSUME Inv, hw # Unknown, followed
               PROVE  Served(path, answer)
    BY DEF OfferedIsServed, Served
  <2> QED
    BY OfferableIsServed DEF Inv
<1> QED
  BY <1>1, Invariant, PTL

\* A client without hardware is told so on every path that would need it,
\* although the handlers of addresses go on after the 404 (hegel.go:275, 449):
\* what they write then comes too late.
THEOREM UnknownIsNotFound == HegelSpec => []UnknownIs404
<1>1. Inv => UnknownIs404
  <2> SUFFICES ASSUME Inv, hw = Unknown, path.route # "meta-data"
               PROVE  answer = Status(404)
    BY DEF UnknownIs404, Status
  <2>1. /\ \A x : WithHardware(x) = Status(404)
        /\ \A m, x : OverInterfaces(m, x) = Status(404)
    BY DEF WithHardware, OverInterfaces, Write
  <2>2. /\ UserdataHandler = Status(404) /\ VendordataHandler = Status(404)
        /\ MetadataJSON = Status(404) /\ DiskHandler = Status(404) /\ SSHHandler = Status(404)
        /\ HostnameHandler = Status(404) /\ GatewayHandler = Status(404)
        /\ \A x : DiskIndexHandler(x) = Status(404) /\ SSHIndexHandler(x) = Status(404)
        /\ \A m : MacHandler(m) = Status(404)
    BY <2>1 DEF UserdataHandler, VendordataHandler, MetadataJSON, DiskHandler, SSHHandler,
       HostnameHandler, GatewayHandler, DiskIndexHandler, SSHIndexHandler, MacHandler
  <2>3. /\ \A m, f : FamilyListing(m, f) = Status(404)
        /\ \A m, f, x : EntryListing(m, f, x) = Status(404)
        /\ \A m, f, x, field : Pick(m, f, x, field) = Status(404)
    BY <2>1 DEF FamilyListing, EntryListing, Pick
  <2>4. \A p : /\ IPv4Handler(p) = Status(404) /\ IPv4IndexHandler(p) = Status(404)
               /\ IPv4IPHandler(p) = Status(404) /\ IPv4NetmaskHandler(p) = Status(404)
               /\ IPv6Handler(p) = Status(404) /\ IPv6IndexHandler(p) = Status(404)
               /\ IPv6IPHandler(p) = Status(404) /\ IPv6NetmaskHandler(p) = Status(404)
    BY <2>3 DEF IPv4Handler, IPv4IndexHandler, IPv4IPHandler, IPv4NetmaskHandler,
       IPv6Handler, IPv6IndexHandler, IPv6IPHandler, IPv6NetmaskHandler
  <2>5. path.route \in (TopRoutes \ {"meta-data"}) \cup
                          {"disk", "ssh-public-key", "mac", "family", "entry", "ip", "netmask"}
    BY DEF Inv, Paths, Top, Item, Path
  <2>6. V0HegelMetadataHandler(path) = Status(404)
    <3>1. CASE path.route \in {"disk", "ssh-public-key", "mac"}
      BY <2>2, <3>1 DEF V0HegelMetadataHandler
    <3>2. CASE path.route \in {"family", "entry"}
      BY <2>4, <3>2 DEF V0HegelMetadataHandler
    <3>3. CASE path.route \in {"ip", "netmask"}
      BY <2>4, <3>3 DEF V0HegelMetadataHandler
    <3>4. CASE path.route \in {"user-data", "vendor-data", "meta-data as JSON", "disks"}
      BY <2>2, <3>4 DEF V0HegelMetadataHandler
    <3>5. CASE path.route \in {"ssh-public-keys", "hostname", "gateway"}
      BY <2>2, <3>5 DEF V0HegelMetadataHandler
    <3> QED
      BY <2>5, <3>1, <3>2, <3>3, <3>4, <3>5 DEF TopRoutes
  <2> QED
    BY <2>6 DEF Inv
<1> QED
  BY <1>1, Invariant, PTL

\* The tree holds what the JSON does, at the place the client would look: every
\* disk and key under its number, and of every IPv4 or IPv6 interface that has
\* one of the MACs the address and the netmask that belong together, under its
\* MAC and family; and what the tree offers there is such an interface of the
\* JSON (hegel.go:62-471).  For any hardware, also one with interfaces that the
\* tree has no place for.
THEOREM TreeIsTheJSON == HegelSpec => []TreeAgreesWithJSON
<1>1. Inv => TreeAgreesWithJSON
  <2> DEFINE json == answer.value
             At(p) == V0HegelMetadataHandler(p).value
             IsAtPlace(v, m, f, k) ==
                /\ v.mac = m /\ v.family = f
                /\ At(Path("ip", m, f, k)) = v.address
                /\ At(Path("netmask", m, f, k)) = v.netmask
  <2> SUFFICES ASSUME Inv, path.route = "meta-data as JSON", hw # Unknown
               PROVE  /\ \A i \in DOMAIN json.disks : At(Item("disk", i - 1)) = json.disks[i]
                      /\ \A i \in DOMAIN json.keys :
                            At(Item("ssh-public-key", i - 1)) = json.keys[i]
                      /\ At(Top("hostname")) = json.hostname
                      /\ At(Top("gateway")) = json.gateway
                      /\ \A i \in DOMAIN json.interfaces :
                            LET v == json.interfaces[i] IN
                            v.mac \in Macs /\ v.family \in {4, 6} =>
                            \E n \in 0..(Len(json.interfaces) - 1) :
                               /\ Path("entry", v.mac, v.family, n) \in
                                     V0HegelMetadataHandler(
                                        Path("family", v.mac, v.family, Nothing)).offers
                               /\ At(Path("ip", v.mac, v.family, n)) = v.address
                               /\ At(Path("netmask", v.mac, v.family, n)) = v.netmask
                      /\ \A mac \in Macs, family \in {4, 6} :
                         \A p \in V0HegelMetadataHandler(
                                     Path("family", mac, family, Nothing)).offers :
                         \E i \in DOMAIN json.interfaces :
                            LET v == json.interfaces[i] IN
                            /\ v.mac = mac /\ v.family = family
                            /\ At(Path("ip", mac, family, p.index)) = v.address
                            /\ At(Path("netmask", mac, family, p.index)) = v.netmask
    BY DEF TreeAgreesWithJSON
  <2>1. hw \in Hardware /\ \A x : WithHardware(x) = x
    BY DEF Inv, WithHardware
  <2>2. answer = MetadataJSON
    BY DEF Inv, V0HegelMetadataHandler
  <2>3. \A v : Value(v).value = v
    BY DEF Value, Status
  <2> DEFINE all == [disks |-> hw.disks, keys |-> hw.keys, hostname |-> hw.hostname,
                     gateway |-> hw.gateway, interfaces |-> hw.interfaces]
  <2>4. json = all
    <3>1. MetadataJSON = Value(all)
      BY <2>1 DEF MetadataJSON
    <3> HIDE DEF all
    <3> QED
      BY <2>2, <2>3, <3>1
  <2> HIDE DEF json
  <2>5. /\ json.disks = hw.disks /\ json.keys = hw.keys /\ json.hostname = hw.hostname
        /\ json.gateway = hw.gateway /\ json.interfaces = hw.interfaces
    BY <2>4
  <2> HIDE DEF all
  <2>6. ASSUME NEW i \in DOMAIN hw.disks
        PROVE  At(Item("disk", i - 1)) = hw.disks[i]
    <3>1. ByIndex(hw.disks, i - 1) = Value(hw.disks[i])
      BY <2>1, EveryElementIsFound, HardwareAssumption
    <3>2. V0HegelMetadataHandler(Item("disk", i - 1)) = ByIndex(hw.disks, i - 1)
      BY <2>1 DEF V0HegelMetadataHandler, Item, Path, DiskIndexHandler
    <3> QED
      BY <2>3, <3>1, <3>2
  <2>7. ASSUME NEW i \in DOMAIN hw.keys
        PROVE  At(Item("ssh-public-key", i - 1)) = hw.keys[i]
    <3>1. ByIndex(hw.keys, i - 1) = Value(hw.keys[i])
      BY <2>1, EveryElementIsFound, HardwareAssumption
    <3>2. V0HegelMetadataHandler(Item("ssh-public-key", i - 1)) = ByIndex(hw.keys, i - 1)
      BY <2>1 DEF V0HegelMetadataHandler, Item, Path, SSHIndexHandler
    <3> QED
      BY <2>3, <3>1, <3>2
  <2>8. At(Top("hostname")) = hw.hostname
    <3>1. V0HegelMetadataHandler(Top("hostname")) = Value(hw.hostname)
      BY <2>1 DEF V0HegelMetadataHandler, Top, Path, HostnameHandler
    <3> QED
      BY <2>3, <3>1
  <2>9. At(Top("gateway")) = hw.gateway
    <3>1. V0HegelMetadataHandler(Top("gateway")) = Value(hw.gateway)
      BY <2>1 DEF V0HegelMetadataHandler, Top, Path, GatewayHandler
    <3> QED
      BY <2>3, <3>1
  <2>10. ASSUME NEW v, NEW i \in DOMAIN hw.interfaces, v = hw.interfaces[i], v.family \in Families
         PROVE  \E n \in 0..(Len(hw.interfaces) - 1) :
                   /\ Path("entry", v.mac, v.family, n) \in
                         V0HegelMetadataHandler(Path("family", v.mac, v.family, Nothing)).offers
                   /\ At(Path("ip", v.mac, v.family, n)) = v.address
                   /\ At(Path("netmask", v.mac, v.family, n)) = v.netmask
    <3> DEFINE m == v.mac
               f == v.family
    <3>1. f \in Families
      BY <2>10
    <3>2. PICK n \in 0..(Len(hw.interfaces) - 1) :
             /\ n \in 0..(Len(Networks(m, f)) - 1)
             /\ Pick(m, f, n, "address") = Value(v.address)
             /\ Pick(m, f, n, "netmask") = Value(v.netmask)
      BY <2>1, <2>10, EveryInterfaceIsFound
    <3> HIDE DEF m, f
    <3>3. Path("entry", m, f, n) \in V0HegelMetadataHandler(Path("family", m, f, Nothing)).offers
      <4>1. V0HegelMetadataHandler(Path("family", m, f, Nothing)) = FamilyListing(m, f)
        BY <3>1, FamilyIsRouted
      <4>2. FamilyListing(m, f) =
               Listing({Path("entry", m, f, j) : j \in 0..(Len(Networks(m, f)) - 1)})
        BY <2>1, <3>2, NetworkServed
      <4>3. \A ps : Listing(ps).offers = ps
        BY DEF Listing, Status
      <4> QED
        BY <3>2, <4>1, <4>2, <4>3
    <3>4. /\ V0HegelMetadataHandler(Path("ip", m, f, n)) = Pick(m, f, n, "address")
          /\ V0HegelMetadataHandler(Path("netmask", m, f, n)) = Pick(m, f, n, "netmask")
      BY <3>1, FamilyIsRouted
    <3>5. At(Path("ip", m, f, n)) = v.address /\ At(Path("netmask", m, f, n)) = v.netmask
      BY <2>3, <3>2, <3>4
    <3> QED
      BY <3>3, <3>5 DEF m, f
  <2> HIDE DEF IsAtPlace
  <2>11. ASSUME NEW m, NEW f \in Families,
                NEW p \in V0HegelMetadataHandler(Path("family", m, f, Nothing)).offers,
                NEW k, k = p.index
         PROVE  \E i \in DOMAIN hw.interfaces : IsAtPlace(hw.interfaces[i], m, f, k)
    <3>1. p \in FamilyListing(m, f).offers
      BY FamilyIsRouted
    <3>2. PICK i \in DOMAIN hw.interfaces : IsFoundUnder(hw.interfaces[i], m, f, k)
      BY <2>1, <2>11, <3>1, OfferedIsInterface
    <3> DEFINE v == hw.interfaces[i]
    <3>3. /\ V0HegelMetadataHandler(Path("ip", m, f, k)) = Pick(m, f, k, "address")
          /\ V0HegelMetadataHandler(Path("netmask", m, f, k)) = Pick(m, f, k, "netmask")
      BY FamilyIsRouted
    <3> HIDE DEF v
    <3>4. At(Path("ip", m, f, k)) = v.address /\ At(Path("netmask", m, f, k)) = v.netmask
      BY <2>3, <3>2, <3>3 DEF IsFoundUnder, v
    <3>5. v.mac = m /\ v.family = f
      BY <3>2 DEF IsFoundUnder, v
    <3> HIDE DEF At
    <3>6. IsAtPlace(v, m, f, k)
      BY <3>4, <3>5 DEF IsAtPlace
    <3> QED
      BY <3>6 DEF v
  <2> HIDE DEF At, IsAtPlace
  <2>12. \A i \in DOMAIN json.interfaces :
            LET v == json.interfaces[i] IN
            v.mac \in Macs /\ v.family \in {4, 6} =>
            \E n \in 0..(Len(json.interfaces) - 1) :
               /\ Path("entry", v.mac, v.family, n) \in
                     V0HegelMetadataHandler(Path("family", v.mac, v.family, Nothing)).offers
               /\ At(Path("ip", v.mac, v.family, n)) = v.address
               /\ At(Path("netmask", v.mac, v.family, n)) = v.netmask
    BY <2>5, <2>10 DEF Families
  <2>13. \A mac \in Macs, family \in {4, 6} :
         \A p \in V0HegelMetadataHandler(Path("family", mac, family, Nothing)).offers :
         \E i \in DOMAIN json.interfaces :
            LET v == json.interfaces[i] IN
            /\ v.mac = mac /\ v.family = family
            /\ At(Path("ip", mac, family, p.index)) = v.address
            /\ At(Path("netmask", mac, family, p.index)) = v.netmask
    <3> SUFFICES ASSUME NEW mac \in Macs, NEW family \in Families,
                        NEW p \in V0HegelMetadataHandler(
                                     Path("family", mac, family, Nothing)).offers
                 PROVE  \E i \in DOMAIN json.interfaces :
                           LET v == json.interfaces[i] IN
                           /\ v.mac = mac /\ v.family = family
                           /\ At(Path("ip", mac, family, p.index)) = v.address
                           /\ At(Path("netmask", mac, family, p.index)) = v.netmask
      BY DEF Families
    <3>1. PICK k : k = p.index
      OBVIOUS
    <3>2. PICK i \in DOMAIN json.interfaces :
             IsAtPlace(json.interfaces[i], mac, family, k)
      BY <2>5, <2>11, <3>1
    <3> DEFINE v == json.interfaces[i]
    <3>3. /\ v.mac = mac /\ v.family = family
          /\ At(Path("ip", mac, family, k)) = v.address
          /\ At(Path("netmask", mac, family, k)) = v.netmask
      BY <3>2 DEF IsAtPlace
    <3> QED
      BY <3>1, <3>3
  <2>14. /\ \A i \in DOMAIN json.disks : At(Item("disk", i - 1)) = json.disks[i]
         /\ \A i \in DOMAIN json.keys : At(Item("ssh-public-key", i - 1)) = json.keys[i]
         /\ At(Top("hostname")) = json.hostname
         /\ At(Top("gateway")) = json.gateway
    BY <2>5, <2>6, <2>7, <2>8, <2>9
  <2> QED
    BY <2>12, <2>13, <2>14, Zenon
<1> QED
  BY <1>1, Invariant, PTL

=============================================================================
