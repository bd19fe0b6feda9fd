SPECIFICATION Spec
CONSTANTS
    MAX_ARGUMENT_COUNT = 3
    MAX_ARGUMENT_BYTES = 6
    MAX_ARGUMENTS_BYTES = 8
    PathOf <- MCPathOf
    LengthOf <- MCLengthOf
    LaunchDirectory <- MCLaunchDirectory
    KNOWN_VERSIONS <- MCKnown
    LATEST <- MCLatest
    FixedBytes <- MCFixedBytes
    RERUN_HINT_BYTES = 70
    Slots <- MCSlots
    Scenarios <- MCScenarios
    SHIM = "shim"
    VALUED_STARTUP_OPTIONS = {"--output_base", "--bazelrc"}
    Scratch <- MCScratch
CHECK_DEADLOCK FALSE
INVARIANTS DispatchFollowsContract ChildRunsWhatWasAdmitted OneLockPerOutputBase ProbeCacheIsSound PackedResultIsHonest
