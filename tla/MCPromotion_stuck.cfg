SPECIFICATION FairSpec
CONSTANTS
    p1 = p1  p2 = p2  s1 = s1  s2 = s2
    Obs = {1, 2, 3, 4}  Sessions = {s1}  SessionOf <- FourAtOnce  Topic <- OneTopic
    Passes = {p1}
    MinPerSession = 2  RefThreshold = 1  ScoreMin = 6  MinAge = 1
    AutoRefMin = 1  AutoScoreMin = 6
    MaxClock = 2  MaxRefs = 1  MaxReviews = 0  MaxCrashes = 1
PROPERTY Surfaces
CHECK_DEADLOCK FALSE
