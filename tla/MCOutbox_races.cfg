SPECIFICATION Spec
CONSTANTS
    cheap = cheap  heavy = heavy  hook = hook  cron1 = cron1  cron2 = cron2
    Events <- OneEvent
    Drainers = {cron1, cron2}
    HotDrainers = {}
    KindOf <- OneKind
    SourceOf <- OneSource
    HotMax = 1  HotWindow = 2  CronMax = 1
    MaxAttempts = 2  StuckAge = 0  KeepAge = 0  MaxAge = 1
    MaxEmits = 2  MaxCrashes = 1  MaxFails = 2
    MaxMisses = 0  Compacting = TRUE
INVARIANTS TypeOK Ledger DeadMeansExhausted AttemptsAreHonest DoneMeansProcessed JobsHaveEvents
 
SYMMETRY Swaps
CHECK_DEADLOCK FALSE
