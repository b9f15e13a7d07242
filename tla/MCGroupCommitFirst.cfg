SPECIFICATION Spec
CONSTANTS
    t1 = t1
    t2 = t2
    t3 = t3
    Txns = {t1, t2, t3}
    MaxBatch = 1
    MaxAttempts = 1
    Paths = {1, 2}
    Items = {1}
    Schemas = {}
    NoSchema = NoSchema
    NoObject = NoObject
    Absent = Absent
    Refused = Refused
    Declined = Declined
    NoMoment = NoMoment
    CounterMod = 3
    Domain <- OneRecord
    Others = {}
    First <- MCFirst
    Grants <- AllFull
SYMMETRY Symmetry
INVARIANTS
    FirstCommitterWins
CHECK_DEADLOCK FALSE
