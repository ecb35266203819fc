------------------------------ MODULE MCRouter ------------------------------
(* What the gin router carries, each part by itself:                       *)
(*   "ec2"       RouteTable, for hegel's table and for every table of up   *)
(*               to three of a few endpoints: nested ones, the root,       *)
(*               spellings with and without a leading or trailing slash;   *)
(*   "hegel"     the other tree of paths in the repository, HegelFrontend, *)
(*               for small machines;                                       *)
(*   "requests"  RequestPipeline, for two concurrent requests, which share *)
(*               the counters only.                                        *)
EXTENDS RouteTable, HegelFrontend, RequestPipeline

CONSTANTS m1, m2, d1, d2, k1, k2, user, vendor, name, gw, a1, a2, a3

VARIABLE part

Endpoints ==
    {<<"">>, <<"", "a">>, <<"", "b">>, <<"", "a", "a">>, <<"", "a", "b">>, <<"", "b", "a">>,
     <<"", "a", "b", "a">>, <<"a">>, <<"a", "b">>, <<"", "a", "">>}

MCWords ==
    {"", "a", "b"}
        \cup UNION {{hegelRoutes[i][k] : k \in DOMAIN hegelRoutes[i]} : i \in DOMAIN hegelRoutes}
MCTables == {hegelRoutes} \cup {<<>>} \cup UNION {[1..n -> Endpoints] : n \in 1..3}

-----------------------------------------------------------------------------

MCIndices == {NotANumber} \cup -1..3
MCAddresses == <<a1, a2, a3>>

\* Interfaces told apart by their addresses: up to two of any kind, without a
\* MAC or of no family too, and three that have both.
MCInterfaces(macs, families, n) ==
    {[i \in 1..n |-> [mac |-> mac[i], family |-> family[i], address |-> MCAddresses[i],
                      netmask |-> MCAddresses[4 - i]]]
     : mac \in [1..n -> macs], family \in [1..n -> families]}
MCInterfaceLists ==
    UNION {MCInterfaces(Macs \cup {Nothing}, {0, 4, 6}, n) : n \in 0..2}
        \cup MCInterfaces(Macs, {4, 6}, 3)

MCHardware ==
    {[userdata |-> user, vendordata |-> vendor, hostname |-> name, gateway |-> gw,
      disks |-> lists[1], keys |-> lists[2], interfaces |-> v] :
        lists \in {<< <<>>, <<>> >>, << <<d1, d2>>, <<k1>> >>, << <<d1>>, <<k2, k1>> >>},
        v \in MCInterfaceLists}

-----------------------------------------------------------------------------

MCInit ==
    /\ part \in {"ec2", "hegel", "requests"}
    /\ Init /\ (part # "ec2" => dataRoutes = <<>>)
    /\ HegelInit /\ (part # "hegel" => hw = Unknown)
    /\ PipelineInit

MCNext ==
    \/ part = "ec2" /\ Next /\ UNCHANGED <<part, hegelVars, pipelineVars>>
    \/ part = "hegel" /\ HegelNext /\ UNCHANGED <<part, vars, pipelineVars>>
    \/ part = "requests" /\ PipelineNext /\ UNCHANGED <<part, vars, hegelVars>>

MCSpec == MCInit /\ [][MCNext]_<<part, vars, hegelVars, pipelineVars>>
=============================================================================
