CONSTANT Conns = {c1, c2, c3}
SPECIFICATION Spec
INVARIANTS TypeOK NilMeansDrained ForcedShutdownCloses NoCutBeforeDeadline
PROPERTIES ServeReturns ListenerEnds FailureReported
\* Serve returns, clients are gone: the system stops.
CHECK_DEADLOCK FALSE
