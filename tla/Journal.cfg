SPECIFICATION Spec
CONSTANTS
    Null = Null
    Commands = {c1}
    Identities = {i1, i2}
    RawCodes <- MCRawCodes
    Trim <- MCTrim
    Payloads = {p1}
    Instants = {t1, t2}
    Conns = {daemon, check}
INVARIANTS
    StampsTellTheState
    EntryAnswersTheCall
    OpenMeansCurrentSchema
PROPERTIES
    RecordsAreKept
    OtherReleaseUntouched
    ImplementsLifecycle
CHECK_DEADLOCK FALSE
