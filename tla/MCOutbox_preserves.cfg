SPECIFICATION Spec
CONSTANTS
    cheap = cheap  heavy = heavy  hook = hook  cron1 = cron1  cron2 = cron2
    Events <- TwoEvents
    Drainers = {cron1}
    HotDrainers = {}
    KindOf <- SignalKinds
    SourceOf <- SignalSources
    HotMax = 1  HotWindow = 2  CronMax = 2
    MaxAttempts = 2  StuckAge = 0  KeepAge = 1  MaxAge = 2
    MaxEmits = 1  MaxCrashes = 1  MaxFails = 2
    MaxMisses = 0  Compacting = TRUE
PROPERTY CompactionPreserves
CHECK_DEADLOCK FALSE
