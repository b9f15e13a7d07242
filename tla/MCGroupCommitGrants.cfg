SPECIFICATION Spec
CONSTANTS
    t1 = t1
    t2 = t2
    t3 = t3
    Txns = {t1, t2}
    MaxBatch = 2
    MaxAttempts = 2
    Paths = {1, 2}
    Items = {1}
    Schemas = {}
    NoSchema = NoSchema
    NoObject = NoObject
    Absent = Absent
    Refused = Refused
    Declined = Declined
    NoMoment = NoMoment
    CounterMod = 2
    Domain <- MCDomain
    Others = {}
    First <- MCFirst
    Grants <- Mixed
SYMMETRY Symmetry
INVARIANTS
    SwapAsksNothingNew
    OwnGrantsOnly
CHECK_DEADLOCK FALSE
