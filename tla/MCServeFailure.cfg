\* What TestServerFailure says of a server that cannot listen.
CONSTANT Conns = {c1, c2}
SPECIFICATION Spec
INVARIANTS FailureNeverHidden
CHECK_DEADLOCK FALSE
