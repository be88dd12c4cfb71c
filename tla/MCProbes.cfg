SPECIFICATION Spec
CONSTANTS
    Envs <- MCEnvs
    EventSets <- MCEventSets
    MissingSets <- MCMissing
INVARIANTS
    RequiredIsDeclared
    ProgramsInAsset
    SyscallExitsHandled
    StartedMeansHooked
    FeaturesSupported
CHECK_DEADLOCK FALSE
