\* Called by main, or with a context that may be cancelled.
CONSTANTS
    Conns = {c1, c2}
    Hardware = {h1}
    Objects <- OneObject
    Absent = Absent
    MaxRev = 2
SPECIFICATION Spec
INVARIANTS TypeOK CacheOutlivesServer SignalsNeverCut ExitTruth
PROPERTIES SignalEndsProcess CancelEndsRun StartupEnds
\* The process ends.
CHECK_DEADLOCK FALSE
