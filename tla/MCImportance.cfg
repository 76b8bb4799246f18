SPECIFICATION Spec
CONSTANTS
    Jobs = {"j1", "j2", "j3"}
    Memories = {"self", "reference"}
    FileOf <- Files
    Tracked = {"self"}
    Workers = {"w1", "w2"}
    Answers = {2, 11}
    Threshold = 4
    MaxWrites = 2  MaxDeliveries = 2  MaxCrashes = 1  MaxFaults = 1
INVARIANTS TypeOK NeverOvercounts BelowThreshold ResetsAnnounced ReflectionsEarned
CHECK_DEADLOCK FALSE
