--------------------------- MODULE MCMetadataAPI ----------------------------
(* Small instances of MetadataAPI for TLC. *)
EXTENDS MetadataAPI, MCKubernetesBackend

FromPeer(fe, peer) == [fe |-> fe, peer |-> peer, xff |-> NoHeader]

\* A proxy at ip2 forwards for ip1; direct requests; an unusable address.
MCArrivals == {FromPeer("ec2", ip1), [fe |-> "ec2", peer |-> ip2, xff |-> ip1],
               FromPeer("ec2", BadAddr), FromPeer("hack", ip2), FromPeer("hack", BadAddr),
               FromPeer("healthz", ip1)}

\* Requests for data only: directly, and forwarded by the proxy at ip2.
DataArrivals == {FromPeer("ec2", ip1), [fe |-> "hack", peer |-> ip2, xff |-> ip1]}
=============================================================================
