SPECIFICATION Spec
CONSTANTS
    Names = {"t", "m", "/"}
    BadName = "/"
    Keys = {1, 2}
    Vals = {"a", "long", "bad"}
    BadValue = "bad"
    Uses <- MCUses
INVARIANTS
    OneLiveHandle
PROPERTIES
    ReadsItsWrites
CHECK_DEADLOCK FALSE
