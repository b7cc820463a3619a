SPECIFICATION MCSpec
CONSTANTS
    d1 = d1
    d2 = d2
    p1 = p1
    p2 = p2
    v1 = v1
    v2 = v2
    NoDir = NoDir
    Gone = Gone
    k1 = k1
    k2 = k2
    Runs = {k1, k2}
    Dirs = {d1, d2}
    Paths = {p1, p2}
    Contents = {v1, v2}
    Edited = {d1}
    Inherited <- MCInherited
    MaxEdits = 2
INVARIANTS TypeOK EntriesWereThere
PROPERTIES UserIndexIsTheirs HashEnds
