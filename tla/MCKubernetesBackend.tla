------------------------ MODULE MCKubernetesBackend -------------------------
(* Small clusters for TLC.                                                 *)
EXTENDS KubernetesBackend, TLC

CONSTANTS h1, h2, ns1, ns2, ip1, ip2

TwoNamespaces == h1 :> ns1 @@ h2 :> ns2

Object(ifaces) == [ifaces |-> ifaces, renderable |-> TRUE]

\* A machine at ip1; one that also has an interface with an empty address and
\* one without DHCP, at ip2; one the hack frontend cannot render.
MCObjects == {Object(<<ip1>>), Object(<<EmptyAddr, NoDHCP, ip2>>),
              [ifaces |-> <<ip2, ip1>>, renderable |-> FALSE]}
=============================================================================
