CONSTANTS
    Words <- MCWords
    Tables <- MCTables
    Hardware <- MCHardware
    Indices <- MCIndices
    Macs = {m1, m2}
    Requests = {r1, r2}
    Unknown = Unknown
    NotANumber = NotANumber
    Nothing = Nothing
    m1 = m1  m2 = m2
    d1 = d1  d2 = d2
    k1 = k1  k2 = k2
    a1 = a1  a2 = a2  a3 = a3
    user = user  vendor = vendor  name = name  gw = gw
SPECIFICATION MCSpec
INVARIANTS ListingsResolve EveryRouteListed PanicsOnConflict HegelStarts OfferedIsServed TreeAgreesWithJSON UnknownIs404
    TypeOK CountedAsSent LoggedAsSent
PROPERTIES PanicAnswered
\* Configure returns or panics, and every request is answered once.
CHECK_DEADLOCK FALSE
