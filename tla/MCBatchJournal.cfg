SPECIFICATION FairSpec
CONSTANTS
    Operators = {p1, p2}
    ExpectedQueries = 4
    MaxBatch = 2
    MaxEmptySessions = 1
    NoOne = NoOne
    NoReport = NoReport
INVARIANTS
    TypeOK
    AtMostOnce
    RowsTruthful
    ChainAlwaysLoads
    SmokeGate
    PreflightAgreesWithRun
    EvidenceSound
PROPERTIES
    ImplementsEvidenceLog
    Settles
