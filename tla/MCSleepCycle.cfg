SPECIFICATION FairSpec
CONSTANTS
    s1 = s1  s2 = s2  w1 = w1  w2 = w2  m1 = m1  m2 = m2
    Sessions = {s1}
    Workers = {w1, w2}
    Memories = {m1}
    Interval = 1  Window = 2  MaxAge = 2
    MaxRestores = 1  MaxForced = 1
    MaxRaises = 1  MaxCrashes = 1  MaxUnstamped = 1  MaxTogether = 2
 
PROPERTIES Coalesced NeverWedged
CHECK_DEADLOCK FALSE
