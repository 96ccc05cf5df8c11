SPECIFICATION Spec
CONSTANTS
    DIRLEN = 2
    ENTRIES = 3
    AREASTART = 6
    AREAEND = 8
    Pids = {p1, p2}
    Values = {0, 2, 7}
    Slots = {0}
    Garbage = {0, 2}
PROPERTY Isolated
