SPECIFICATION FairSpec
CONSTANTS
    p1 = p1  p2 = p2  s1 = s1  s2 = s2
    Obs = {1, 2, 3}  Sessions = {s1, s2}  SessionOf <- TwoSessions  Topic <- SameTopic
    Passes = {p1}
    MinPerSession = 1  RefThreshold = 1  ScoreMin = 3  MinAge = 1
    AutoRefMin = 1  AutoScoreMin = 3
    MaxClock = 1  MaxRefs = 1  MaxReviews = 1  MaxCrashes = 1
INVARIANTS ResolvedIsRecorded  OneFilePerSession
PROPERTIES NeverOverwritten QualifiedGraduates SurfacesUndisturbed
CHECK_DEADLOCK FALSE
