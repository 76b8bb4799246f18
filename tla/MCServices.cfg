SPECIFICATION ServicesSpec
CONSTANTS
    Hooks = {h1}
    Commands = {c1}
    Daemons = {d1, d2}
    DaemonSettings = {TRUE, FALSE}
    Corpus = {mem1, mem2}
    Fitting = {mem1}
    Callers = {call1}
    Tasks = {hyde, score, draft}
    PreferLocal = {hyde, score}
    SlowTasks = {draft}
    Dart2Tasks = {draft}
    TimedTasks = {hyde}
    Supervisors = {sup1, sup2}
    Kids = {kid1, kid2}
    Sessions = {s1, s2}
    MinObs = 1
    MaxObs = 2
    InCap = {s1}
    MaxAtWork = 2
    LogWindows = {w1, w2}
    LastLine = 1
    LastMinute = 1
    RenameReplaces = {TRUE, FALSE}
    Themes = {theme}
    Drafters = {auto}
    Reflectors = {reflect}
    Seers = {genesis}
    Triagers = {triage}
    MaxDerived = 1
    MaxBusy = 2
    SourceA = src1
    SourceB = src2
    SourceOrder <- Order
    Lessons = {lesson}
    FlaggedEpilogues = {epi}
    Designers = {des1}
    Reviewers = {rev1, rev2}
    MaxDistills = 1
    MaxHabits = 2
    MaxImportance = 3
    MaxReviews = 3
    Spine = {m1}
    Cycles = {cy1, cy2}
    MaxTexts = 2
    MaxConflicts = 2
    Threads = {t1, t2}
    FlagNames = {f1}
    Migrations = {mig1}
    Commanders = {k1, k2}
    MaxCommands = 4
    LastWeek = 2
    DraftNames = {draft1}
    FinalNames = {final1}
INVARIANTS
    OneResidentModel
    
    ExtraServersAreOrphans
    RowsTellTheTruth
    LinesAreKept
    
    
    FlagsCostOnce
    
    
    
CHECK_DEADLOCK FALSE
