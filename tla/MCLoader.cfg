SPECIFICATION Spec
CONSTANTS
    a = a
    b = b
    Modules = {a, b}
    MaxAddr = 4
    BootModules <- MCBoot
    Hosts <- MCHosts
    Configs <- MCConfigs
    QueueCap = 1
    MaxStarts = 2
    MaxChanges = 2
INVARIANTS
    RestrictionRestored
    RunningIsReady
    LoadedModulesResolved
PROPERTIES
    GoodCacheKept
    EventsHandled
CHECK_DEADLOCK FALSE
