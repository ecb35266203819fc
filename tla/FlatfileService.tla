-------------------------- MODULE FlatfileService --------------------------
(***************************************************************************)
(* Hegel over a flat file, from the operator's two inputs, the file and    *)
(* the list of trusted proxies, to what a requester is served.  Run loads  *)
(* the file first (FlatfileBackend), then parses the proxies               *)
(* (TrustedProxies), and serves; each request passes the forwarded-for     *)
(* middleware on its way to a frontend.                                    *)
(***************************************************************************)
EXTENDS FlatfileBackend

CONSTANTS
    V4, Prefix, Entries,    \* see TrustedProxies
    Peers,      \* addresses the trust of which is looked at
    Senders,    \* those of them that send requests
    Headers,    \* addresses proxies forward for
    NoHeader    \* a request without X-Forwarded-For

VARIABLES
    entries, parsed, nets, parsing,     \* TrustedProxies
    sent        \* each request as it was sent: [peer, header]

Proxies == INSTANCE TrustedProxies WITH turn <- parsed, result <- nets, state <- parsing

ASSUME ServiceAssumption ==
    \* ... as 32 bits and ::ffff:0:0/96 are.
    /\ V4 \in Nat \ {0} /\ Prefix \in Seq({0, 1})
    /\ Len(Prefix) > V4 /\ Prefix[Len(Prefix)] = 1
    /\ Entries \subseteq Seq(Proxies!EntryType)
    /\ Peers \subseteq Proxies!Bits(V4) \cup Proxies!Bits(V4 + Len(Prefix))
    /\ Senders \subseteq Peers \cap Addrs /\ Headers \subseteq Addrs
    /\ BadAddr \notin Peers /\ NoHeader \notin Headers

parseVars == <<entries, parsed, nets, parsing>>
serviceVars == <<vars, parseVars, sent>>

ServiceInit ==
    /\ Init
    /\ Proxies!Init
    /\ sent = [r \in Requests |-> [peer |-> BadAddr, header |-> NoHeader]]

\* Mutant: the header counts whoever sent it.
HeaderOfAnyone(peer, header) == IF header = NoHeader THEN peer ELSE header

\* The middleware: a trusted peer speaks for the address in its header; the
\* remote address of a peer that has none cannot be split, and stays.
ClientIP(peer, header) ==
    IF peer # BadAddr /\ header # NoHeader /\ Proxies!Trusts(peer) THEN header ELSE peer

Deliver(r) ==
    /\ parsing = "parsed"
    /\ \E fe \in {"ec2", "hack", "healthz"},
          peer \in Senders \cup {BadAddr}, header \in Headers \cup {NoHeader} :
          /\ Receive(r, fe, ClientIP(peer, header))
          /\ sent' = [sent EXCEPT ![r] = [peer |-> peer, header |-> header]]
    /\ UNCHANGED parseVars

\* Run: the file, then the proxies, then requests.
ServiceNext ==
    \/ (Open \/ Map \/ NewBackend) /\ UNCHANGED <<parseVars, sent>>
    \/ loading = "ready" /\ Proxies!Next /\ UNCHANGED <<vars, sent>>
    \/ \E r \in Requests : Deliver(r)
    \/ \E r \in Requests : (EC2(r) \/ Hack(r) \/ Health(r)) /\ UNCHANGED <<parseVars, sent>>

ServiceSpec == ServiceInit /\ [][ServiceNext]_serviceVars

-----------------------------------------------------------------------------
(* Properties *)

\* What TrustedProxies promises of every list and peer, in a running hegel: a
\* list is refused exactly when it holds an invalid entry, and otherwise the
\* peers its entries mean are trusted and nobody else, as far as documentation
\* and code agree on what an entry means (xff.go:18-49, 58-61).
TrustsWhoIsMeant == Proxies!TrustsWhoIsMeant

\* Instance data goes to the address that holds it, or to a peer the operator
\* meant to trust, for the address that peer forwards for; and a request
\* forwarded by such a peer is never answered with the peer's own data.  Left
\* out are the peers over whom documentation and code disagree
\* (root.go:108-139, xff.go:58-94, flatfile/backend.go:20-28).
ServesTheRequester ==
    \A r \in Requests : Answered(r) =>
        LET peer == sent[r].peer
            header == sent[r].header
            speaksFor == /\ peer # BadAddr /\ header # NoHeader
                         /\ \E i \in DOMAIN entries : Proxies!Means(entries[i], peer)
            agreed == peer # BadAddr => \A i \in DOMAIN entries : ~Proxies!Disputed(entries[i], peer)
        IN agreed =>
              /\ req[r].body # 0 => file[req[r].body] = IF speaksFor THEN header ELSE peer
              /\ req[r].status = 404 => Holders(IF speaksFor THEN header ELSE peer) = {}

-----------------------------------------------------------------------------
(* What the documentation says and the code does not do *)

\* README.md:73-75, 82: the peers that are trusted are those the list means, in
\* either notation and, for 0.0.0.0/0, of either family (see TrustedProxies).
TrustsAsDocumented == Proxies!TrustsAsDocumented
=============================================================================
