SPECIFICATION Spec
CONSTANTS
    p1 = p1  p2 = p2  s1 = s1  s2 = s2
    Obs = {1, 2}  Sessions = {s1}  SessionOf <- JustTwo  Topic <- OneTopic
    Passes = {p1, p2}
    MinPerSession = 2  RefThreshold = 1  ScoreMin = 6  MinAge = 1
    AutoRefMin = 1  AutoScoreMin = 6
    MaxClock = 1  MaxRefs = 1  MaxReviews = 1  MaxCrashes = 1
INVARIANTS TypeOK NothingLost
CHECK_DEADLOCK FALSE
