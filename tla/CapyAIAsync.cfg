\* Two clients, another user of the pool, a queue of one.
SPECIFICATION FairSpec
CONSTANTS
    Threads = {w1, w2}
    Callers = {c1, c2, u1}
    Clients = {c1, c2}
    QueueMax = 1
    MaxJobs = 3
    NoItem = NoItem
    Nobody = Nobody
    NoAnswer = NoAnswer
INVARIANTS
    AnswersOwn
    RunsOnce
PROPERTIES
    DrainWaits
    RequestsEnd
CHECK_DEADLOCK FALSE
