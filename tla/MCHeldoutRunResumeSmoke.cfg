SPECIFICATION Spec
CONSTANTS
    Runners = {r1}
    Resumers = {w1}
    Readers = {}
    Queries = 3
    SmokeQueries = 2
    Concurrency = 2
    NoOne = NoOne
INVARIANTS SmokePasses
CHECK_DEADLOCK FALSE
