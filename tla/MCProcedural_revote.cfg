SPECIFICATION HabitsSpec
CONSTANTS
    SourceA = src1
    SourceB = src2
    SourceOrder <- Order
    Lessons = {lesson}
    FlaggedEpilogues = {epi}
    Designers = {des1}
    Reviewers = {rev1}
    MaxDistills = 2
    MaxHabits = 2
    MaxImportance = 4
    MaxReviews = 1
INVARIANT OneVotePerSource
CHECK_DEADLOCK FALSE
