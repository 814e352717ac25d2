SPECIFICATION FairSpec
CONSTANTS
    Runners = {r1}
    Resumers = {w1}
    Readers = {}
    Queries = 4
    SmokeQueries = 3
    Concurrency = 2
    NoOne = NoOne
INVARIANTS
    TypeOK
    NeverRetried
    NothingForgotten
PROPERTIES
    RowsFinal
    NoSpendAfterFailure
    Finishes
CHECK_DEADLOCK FALSE
