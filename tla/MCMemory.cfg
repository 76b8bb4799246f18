SPECIFICATION MemorySpec
CONSTANTS
    Mems = {m}
    Editors = {e1, e2}
    LastTick = 3
    SecondLen = 1
    MaxTexts = 3
    Readers = {r1, r2}
    Gateable = {m}
    TTL = 1
    KeepSeconds = 0
    Workers = {w1, w2}
    Objects = {x, y, z}
    FunctionalTypes = {works_at}
    AdditiveTypes = {uses}
    Asserters = {a1, a2}
    MaxRows = 4
SYMMETRY Symmetry
CONSTRAINT IndexBound
INVARIANTS
    GateServesCurrent
    
    
    OneCurrentFact
CHECK_DEADLOCK FALSE
