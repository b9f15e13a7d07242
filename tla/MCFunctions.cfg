SPECIFICATION MCSpec
CONSTANTS
    Paths = {1, 2}
    Items = {1, 2}
    s1 = s1
    s2 = s2
    Schemas = {s1, s2}
    NoSchema = NoSchema
    NoObject = NoObject
    Absent = Absent
    Refused = Refused
    Declined = Declined
    Pending = Pending
    CounterMod = 3
    Inputs <- MCInputs
INVARIANTS
    OntoIsApplied
    RebaseIsMerge
    AlignIsLongest
    Symmetric
    InsertionsLand
    SameAsComparing
    PathsDecided
    ChangesLand
    KeyOrder
    PrefixRange
    LocationNames
    
CHECK_DEADLOCK FALSE
