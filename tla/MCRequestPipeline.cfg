\* What the logger's comment says.
CONSTANT Requests = {r1, r2}
SPECIFICATION PipelineSpec
INVARIANTS EveryRequestLogged
CHECK_DEADLOCK FALSE
