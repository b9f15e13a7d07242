SPECIFICATION Spec
CONSTANTS
    t1 = t1
    t2 = t2
    t3 = t3
    Txns = {t1, t2, t3}
    MaxBatch = 3
    MaxAttempts = 2
    Paths = {1, 2}
    Items = {1}
    Schemas = {}
    NoSchema = NoSchema
    NoObject = NoObject
    Absent = Absent
    Refused = Refused
    Declined = Declined
    NoMoment = NoMoment
    CounterMod = 3
    Domain <- FewDomain
    Others <- FewOthers
    First <- MCFirst
    Grants <- AllFull
SYMMETRY Symmetry
INVARIANTS
    ToldTruth
PROPERTIES
    KeepsPromise
CHECK_DEADLOCK FALSE
