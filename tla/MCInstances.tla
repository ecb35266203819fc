----------------------------- MODULE MCInstances -----------------------------
(* What frontends are given of an instance, each part by itself: "service"  *)
(* is MCFlatfileService, "conversion" MCEC2Conversion.                      *)
EXTENDS MCFlatfileService, MCEC2Conversion

VARIABLE part

MCInit ==
    /\ part \in {"service", "conversion"}
    /\ ServiceInit /\ (part = "conversion" => file = <<>> /\ entries = <<>>)
    /\ ConversionInit /\ (part = "service" => spec = [present |-> {}, Ips |-> <<>>])

MCNext ==
    \/ part = "service" /\ ServiceNext /\ UNCHANGED <<part, conversionVars>>
    \/ part = "conversion" /\ ConversionNext /\ UNCHANGED <<part, serviceVars>>

MCSpec == MCInit /\ [][MCNext]_<<part, serviceVars, conversionVars>>
=============================================================================
