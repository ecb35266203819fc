--------------------------- MODULE MCEC2Conversion ---------------------------
(* EC2Conversion for every list of up to three IPs, with everything else    *)
(* present, or without an instance.                                         *)
EXTENDS EC2Conversion

CONSTANTS a, b

MCFamilies == {0, 4, 6}
MCSpecs ==
    [present : {{"instance", "os", "facility", "userdata"}},
     Ips : {<<>>} \cup UNION {[1..n -> IPs] : n \in 1..3}]
    \cup [present : SUBSET {"facility", "userdata"}, Ips : {<<>>}]
    \cup [present : {{"instance"}}, Ips : [1..1 -> IPs]]
=============================================================================
