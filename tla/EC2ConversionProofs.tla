------------------------- MODULE EC2ConversionProofs -------------------------
(***************************************************************************)
(* Proof of FirstOfEachKind for lists of any length: after n turns of the  *)
(* loop each address is the first of its kind among the first n.           *)
(***************************************************************************)
EXTENDS EC2Conversion, TLAPS

InstanceType ==
    [copied : SUBSET Groups, PublicIPv4 : Addresses, LocalIPv4 : Addresses, PublicIPv6 : Addresses]

LoopInv ==
    /\ IsFirst(i.PublicIPv4, next, PublicV4)
    /\ IsFirst(i.LocalIPv4, next, LocalV4)
    /\ IsFirst(i.PublicIPv6, next, V6)

Inv ==
    /\ spec \in SpecType
    /\ pc \in {"instance", "ips", "rest", "done"}
    /\ next \in 0..Len(spec.Ips)
    /\ i \in InstanceType
    /\ pc = "instance" => next = 0
    /\ pc = "ips" => "instance" \in spec.present
    /\ pc \in {"rest", "done"} => next = Listed
    /\ LoopInv

\* One turn of the loop, for one kind of address.
LEMMA Turn ==
  ASSUME spec \in SpecType, NEW n \in Nat, n < Len(spec.Ips),
         NEW kind, NEW address, IsFirst(address, n, kind)
  PROVE  IsFirst(FirstOne(spec.Ips[n + 1], kind, address), n + 1, kind)
<1> DEFINE ip == spec.Ips[n + 1]
<1>1. CASE ip \in kind /\ address = Empty
  BY <1>1 DEF IsFirst, FirstOne
<1>2. CASE ip \notin kind /\ address = Empty
  BY <1>2 DEF IsFirst, FirstOne
<1>3. CASE address # Empty
  BY <1>3 DEF IsFirst, FirstOne
<1> QED
  BY <1>1, <1>2, <1>3

LEMMA InitInv == ConversionInit => Inv
  BY EmptyAssumption, SpecAssumption
     DEF ConversionInit, Inv, LoopInv, IsFirst, InstanceType, SpecType

LEMMA NextInv == Inv /\ [ConversionNext]_conversionVars => Inv'
<1> SUFFICES ASSUME Inv, [ConversionNext]_conversionVars PROVE Inv'
  OBVIOUS
<1> USE DEF Inv
<1>1. CASE CopyInstance
  <2>1. /\ i' \in InstanceType
        /\ UNCHANGED <<i.PublicIPv4, i.LocalIPv4, i.PublicIPv6>>
    BY <1>1 DEF CopyInstance, InstanceType, SpecType, Groups
  <2>2. LoopInv'
    BY <1>1, <2>1 DEF CopyInstance, LoopInv, IsFirst
  <2> QED
    BY <1>1, <2>1, <2>2 DEF CopyInstance, Listed
<1>2. CASE NextIP
  <2> DEFINE ip == spec.Ips[next + 1]
  <2>1. /\ next \in Nat /\ next < Len(spec.Ips) /\ Len(spec.Ips) \in Nat
        /\ ip.Address \in Addresses
        /\ next' = next + 1 /\ spec' = spec /\ pc' = "ips" /\ pc = "ips"
    <3>1. spec.Ips \in Seq(IPs)
      BY DEF SpecType
    <3>2. next \in Nat /\ next < Len(spec.Ips) /\ Len(spec.Ips) \in Nat
      BY <1>2, <3>1 DEF NextIP
    <3>3. ip \in IPs
      BY <3>1, <3>2
    <3> QED
      BY <1>2, <3>2, <3>3 DEF NextIP, IPs
  <2>2. /\ i'.PublicIPv4 = FirstOne(ip, PublicV4, i.PublicIPv4)
        /\ i'.LocalIPv4 = FirstOne(ip, LocalV4, i.LocalIPv4)
        /\ i'.PublicIPv6 = FirstOne(ip, V6, i.PublicIPv6)
    BY <1>2 DEF NextIP
  <2>3. \A kind : \A address \in Addresses : FirstOne(ip, kind, address) \in Addresses
    BY <2>1 DEF FirstOne
  <2>4. i' \in InstanceType
    BY <1>2, <2>3 DEF NextIP, InstanceType
  <2>5. /\ IsFirst(i'.PublicIPv4, next + 1, PublicV4)
        /\ IsFirst(i'.LocalIPv4, next + 1, LocalV4)
        /\ IsFirst(i'.PublicIPv6, next + 1, V6)
    BY <2>1, <2>2, Turn DEF LoopInv
  <2>6. LoopInv'
    BY <2>1, <2>5 DEF LoopInv, IsFirst
  <2> QED
    BY <2>1, <2>4, <2>6
<1>3. CASE LoopEnds
  BY <1>3 DEF LoopEnds, LoopInv, IsFirst, Listed
<1>4. CASE CopyRest
  <2>1. /\ i' \in InstanceType
        /\ UNCHANGED <<i.PublicIPv4, i.LocalIPv4, i.PublicIPv6>>
    BY <1>4 DEF CopyRest, InstanceType, SpecType, Groups
  <2>2. LoopInv'
    BY <1>4, <2>1 DEF CopyRest, LoopInv, IsFirst
  <2> QED
    BY <1>4, <2>1, <2>2 DEF CopyRest, Listed
<1>5. CASE UNCHANGED conversionVars
  BY <1>5 DEF conversionVars, LoopInv, IsFirst, Listed
<1> QED
  BY <1>1, <1>2, <1>3, <1>4, <1>5 DEF ConversionNext

\* Each address the EC2 frontend is given is the first of its kind, for a list
\* of any length (kubernetes/backend.go:178-195).
THEOREM FirstAddresses == ConversionSpec => []FirstOfEachKind
<1>1. Inv => FirstOfEachKind
  BY DEF Inv, LoopInv, FirstOfEachKind
<1> QED
  BY <1>1, InitInv, NextInv, PTL DEF ConversionSpec
=============================================================================
