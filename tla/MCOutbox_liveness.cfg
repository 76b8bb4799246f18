SPECIFICATION FairSpec
CONSTANTS
    cheap = cheap  heavy = heavy  hook = hook  cron1 = cron1  cron2 = cron2
    Events <- OneEvent
    Drainers = {hook, cron1}
    HotDrainers = {hook}
    KindOf <- HeavyKind
    SourceOf <- OneSource
    HotMax = 1  HotWindow = 2  CronMax = 1
    MaxAttempts = 3  StuckAge = 0  KeepAge = 0  MaxAge = 1
    MaxEmits = 1  MaxCrashes = 2  MaxFails = 4
    MaxMisses = 1  Compacting = FALSE
PROPERTIES EveryJobSettles
CHECK_DEADLOCK FALSE
