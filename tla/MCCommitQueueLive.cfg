CONSTANTS
    Callers = {c1, c2}
    Queues = {q1, q2}
    NoQueue = NoQueue
    None = None
    MaxBatch = 2
SPECIFICATION FairSpec
PROPERTIES
    EveryCallReturns
