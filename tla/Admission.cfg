SPECIFICATION Spec
CONSTANTS
    Null = Null
    Words <- MCWords
    Length <- MCLength
    AbsolutePaths = {"/srv", "/opt"}
    Encodable <- MCEncodable
    PathSafe = {"id", "mix1", "mix2"}
    MapNames = {"id", "mix2"}
    IdsIn <- MCIdsIn
    HeaderSafe <- MCHeaderSafe
    SteamNumbers = {0, 1, 2, 3, 4, 5}
    FullNumbers = {1, 2, 3, 4, 5}
    Scripts = {"ascii", "other"}
    TeamSize = 2
    MaxKeyLength = 4
    MinMatchId = 2
    MaxSqlite = 4
    Environments <- MCEnvironments
    Responses <- MCResponses
INVARIANTS
    TargetIsTheClaim
    PreparedRosterIsWhole
PROPERTIES
    RecordableExactly
    VerifiableExactly
    ReportableExactly
