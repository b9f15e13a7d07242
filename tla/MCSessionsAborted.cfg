SPECIFICATION Spec
CONSTANTS
    s1 = s1  s2 = s2  p1 = p1  p2 = p2  x = x  y = y
    Names = {"main", "dev"}
    Main = "main"
    Spells <- Nothing
    Tag <- Nothing
    Callers = {s1, s2}
    Edits = {x, y}
    Clash <- XYClash
    Home <- MCHome
    Settings <- StayOpen
    MaxCommits = 3
INVARIANT MergeMeansHeld
CHECK_DEADLOCK FALSE
