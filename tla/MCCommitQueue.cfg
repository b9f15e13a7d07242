CONSTANTS
    Callers = {c1, c2, c3}
    Queues = {q1, q2}
    NoQueue = NoQueue
    None = None
    MaxBatch = 2
SPECIFICATION Spec
SYMMETRY Symmetry
INVARIANTS
    OneLeader
    NoLostWakeup
    LeadsOwnBatch
    LeadNeverBlocks
    OutcomeDecided
    ArrivalOrder
    SessionAlone
