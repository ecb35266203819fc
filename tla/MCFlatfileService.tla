------------------------- MODULE MCFlatfileService -------------------------
(* IPv4 addresses of two bits, IPv6 ones of six.  The prefix 0011, like    *)
(* ::ffff:0:0/96, begins with as many zeros as an IPv4 address has bits.   *)
EXTENDS FlatfileService, SequencesExt

MCPrefix == <<0, 0, 1, 1>>
\* All of IPv4; of IPv6 what begins like something in the entries below.
MCPeers ==
    [1..2 -> {0, 1}]
        \cup {p \in [1..6 -> {0, 1}] : SubSeq(p, 1, 2) \in {<<0, 0>>, <<0, 1>>} /\ p[6] = 1}

IP(bits) == [kind |-> "ip", bits |-> bits]
CIDR(bits, length) == [kind |-> "cidr", bits |-> bits, length |-> length]

\* Addresses of both families, one of them in the other's notation; blocks of
\* both, everybody among them; blanks and what is invalid.
MCEntries ==
    BoundedSeq({[kind |-> "blank"], [kind |-> "invalid"],
                IP(<<1, 0>>), IP(<<0, 0, 0, 0, 0, 1>>), IP(<<0, 0, 1, 1, 1, 0>>),
                CIDR(<<1, 1>>, 1), CIDR(<<0, 0>>, 0), CIDR(<<0, 1, 1, 1, 0, 0>>, 3),
                CIDR(<<0, 0, 1, 1, 1, 0>>, 5)}, 2)

\* Those of one entry over which documentation and code disagree.
MCDisputedEntries == {<<IP(<<0, 0, 1, 1, 1, 0>>)>>, <<CIDR(<<0, 0>>, 0)>>}

MCAddrs == {<<1, 0>>, <<0, 1>>, <<0, 0, 0, 0, 0, 1>>}
MCSenders == {<<1, 0>>, <<0, 0, 0, 0, 0, 1>>}
MCHeaders == {<<1, 0>>, <<0, 1>>}

\* Files of up to two instances with two addresses or none, and three longer
\* ones in which an address comes back.
MCFiles ==
    BoundedSeq({<<1, 0>>, <<0, 1>>, EmptyAddr}, 2)
        \cup {<<a[1], a[2], a[3]>> : a \in {f \in [1..3 -> MCHeaders] : f[1] = <<1, 0>> /\ f[2] # f[3]}}
        \cup {<< <<1, 0>>, <<0, 1>>, <<0, 1>> >>}
=============================================================================
