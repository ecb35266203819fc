--------------------------- MODULE TrustedProxies ---------------------------
(***************************************************************************)
(* The trusted proxies of the forwarded-for middleware: xff.Parse's loop   *)
(* over the comma separated entries, and which peers the subnets it hands  *)
(* to the middleware contain (internal/xff/xff.go).                        *)
(*                                                                         *)
(* Go's net package is external and modelled as Parse and the middleware   *)
(* use it.  An address is its bits: V4 of them, or V6 for one written with *)
(* colons; an IPv4 address may be written either way, after Prefix.        *)
(***************************************************************************)
EXTENDS Naturals, Sequences

CONSTANTS
    V4, Prefix, \* the bits of an IPv4 address, and those before it in IPv6
    Entries,    \* the lists of entries --trusted-proxies may hold
    Peers       \* addresses requests may come from

V6 == Len(Prefix) + V4
Bits(n) == [1..n -> {0, 1}]
\* bits and, of a CIDR block, how many of them count.
EntryType ==
    {[kind |-> "blank"], [kind |-> "invalid"]}
        \cup [kind : {"ip"}, bits : Bits(V4) \cup Bits(V6)]
        \cup [kind : {"cidr"}, bits : Bits(V4), length : 0..V4]
        \cup [kind : {"cidr"}, bits : Bits(V6), length : 0..V6]

VARIABLES entries, turn, result, state
vars == <<entries, turn, result, state>>

Init ==
    /\ entries \in Entries
    /\ turn = 1
    /\ result = <<>>
    /\ state = "parsing"

-----------------------------------------------------------------------------
(* The net package *)

\* The same address in its shortest form.
To4(bits) ==
    IF Len(bits) = V6 /\ SubSeq(bits, 1, Len(Prefix)) = Prefix
    THEN SubSeq(bits, Len(Prefix) + 1, V6) ELSE bits

\* IPNet.Contains, for the network ParseCIDR makes of an address and a length.
Contains(net, peer) ==
    LET masked == [i \in 1..Len(net.bits) |-> IF i <= net.length THEN net.bits[i] ELSE 0]
        length == IF To4(masked) = masked THEN net.length ELSE net.length - Len(Prefix)
    IN  /\ Len(To4(masked)) = Len(To4(peer))
        /\ SubSeq(To4(masked), 1, length) = SubSeq(To4(peer), 1, length)

-----------------------------------------------------------------------------
(* Parse *)

\* Mutant: every single address gets the length of an IPv4 one.
AlwaysV4Length(entry) == V4

\* "/32" or "/128", by To4.
SingleLength(entry) == IF Len(To4(entry.bits)) = V4 THEN V4 ELSE V6

Skip ==
    /\ state = "parsing" /\ turn <= Len(entries)
    /\ entries[turn].kind = "blank"
    /\ turn' = turn + 1
    /\ UNCHANGED <<entries, result, state>>

ParseEntry ==
    LET entry == entries[turn] IN
    /\ state = "parsing" /\ turn <= Len(entries)
    /\ entry.kind \in {"ip", "cidr"}
    /\ result' = Append(result,
          [bits |-> entry.bits,
           length |-> IF entry.kind = "ip" THEN SingleLength(entry) ELSE entry.length])
    /\ turn' = turn + 1
    /\ UNCHANGED <<entries, state>>

Invalid ==
    /\ state = "parsing" /\ turn <= Len(entries)
    /\ entries[turn].kind = "invalid"
    /\ result' = <<>>
    /\ state' = "failed"
    /\ UNCHANGED <<entries, turn>>

Return ==
    /\ state = "parsing" /\ turn > Len(entries)
    /\ state' = "parsed"
    /\ UNCHANGED <<entries, turn, result>>

\* Middleware: without subnets it trusts nobody.
Trusts(peer) == state = "parsed" /\ \E i \in DOMAIN result : Contains(result[i], peer)

Next == Skip \/ ParseEntry \/ Invalid \/ Return

-----------------------------------------------------------------------------
(* Properties *)

\* A block of IPv4 addresses in IPv6 notation.
IsMappedBlock(entry) == To4(entry.bits) # entry.bits /\ entry.length >= Len(Prefix)

\* 0.0.0.0/0.
IsEverybody(entry) == entry.kind = "cidr" /\ Len(entry.bits) = V4 /\ entry.length = 0

\* What an entry means to the operator who writes it: an IP is to be trusted
\* itself (README.md:73-75), in whichever notation; 0.0.0.0/0 is all requesters
\* (README.md:82); any other block the addresses of its family that begin like
\* it.
Means(entry, peer) ==
    CASE entry.kind = "ip" -> To4(peer) = To4(entry.bits)
      [] IsEverybody(entry) -> TRUE
      [] entry.kind = "cidr" /\ IsMappedBlock(entry) ->
            /\ Len(To4(peer)) = V4
            /\ \A i \in (Len(Prefix) + 1)..entry.length : To4(peer)[i - Len(Prefix)] = entry.bits[i]
      [] entry.kind = "cidr" /\ ~IsMappedBlock(entry) /\ ~IsEverybody(entry) ->
            /\ Len(To4(peer)) = Len(entry.bits)
            /\ \A i \in 1..entry.length : To4(peer)[i] = entry.bits[i]
      [] OTHER -> FALSE

\* Where the code does otherwise than the README says (TrustsAsDocumented): over
\* an IPv4 address in IPv6 notation, and 0.0.0.0/0 for a peer that is not IPv4.
Disputed(entry, peer) ==
    \/ entry.kind = "ip" /\ To4(entry.bits) # entry.bits
    \/ IsEverybody(entry) /\ Len(To4(peer)) = V6

\* A list is refused exactly when an entry of it is neither blank, nor a
\* block, nor an address.  Of a list that is not, whoever an entry means is
\* trusted and nobody else is: no entry widens, shadows or drops another, not
\* even a disputed one, and blanks trust nobody.  Whether a peer is trusted for a
\* disputed entry is left open here (xff.go:18-49, 58-61).
TrustsWhoIsMeant ==
    /\ state = "failed" => \E i \in DOMAIN entries : entries[i].kind = "invalid"
    /\ state = "parsed" =>
          /\ \A i \in DOMAIN entries : entries[i].kind # "invalid"
          /\ \A peer \in Peers :
                IF Trusts(peer)
                THEN \E i \in DOMAIN entries : Disputed(entries[i], peer) \/ Means(entries[i], peer)
                ELSE \A i \in DOMAIN entries : Disputed(entries[i], peer) \/ ~Means(entries[i], peer)

-----------------------------------------------------------------------------
(* What the documentation says and the code does not do *)

\* README.md:73-75 and xff.go:14-15, an IP of the list is trusted, and
\* README.md:82, 0.0.0.0/0 causes hegel "to trust all requesters": the peers that
\* are trusted are those the entries mean.  An IPv4 address in IPv6 notation is
\* given the length of the one and the bits of the other (xff.go:35-36), which
\* makes it a block of IPv6 addresses without itself, and the network
\* 0.0.0.0/0 contains no IPv6 peer (xff.go:63).
TrustsAsDocumented ==
    state = "parsed" =>
        \A peer \in Peers :
            Trusts(peer) <=> \E i \in DOMAIN entries : Means(entries[i], peer)

=============================================================================
