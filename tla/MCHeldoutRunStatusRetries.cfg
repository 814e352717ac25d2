SPECIFICATION Spec
CONSTANTS
    Runners = {r1}
    Resumers = {}
    Readers = {s1}
    Queries = 3
    SmokeQueries = 1
    Concurrency = 2
    NoOne = NoOne
INVARIANTS NeverRetried
CHECK_DEADLOCK FALSE
