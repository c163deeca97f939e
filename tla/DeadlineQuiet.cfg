SPECIFICATION FairQuiet
CONSTANTS
    r1 = r1
    r2 = r2
    r3 = r3
    r4 = r4
    Request <- ThreeRequests
    Parallel = 2
    Workers = 2
    NoRequest = NoRequest
CHECK_DEADLOCK FALSE
INVARIANTS InOnePlace AnsweredComputed
PROPERTIES Answered Stops
