SPECIFICATION Spec
CONSTANTS
    Runners = {r1}
    Resumers = {}
    Readers = {s1}
    Queries = 2
    SmokeQueries = 2
    Concurrency = 2
    NoOne = NoOne
INVARIANTS AnswersTruthful
CHECK_DEADLOCK FALSE
