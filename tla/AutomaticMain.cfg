SPECIFICATION FairSpec
INVARIANTS
    LoopRunsOnSteam
    NoThreadOutlivesFrame
    DeviceOutlivesItsUsers
PROPERTIES
    PassedOnFreshSignal
    WaitIsDecided
    ExitStallsOnlyInSelect
CHECK_DEADLOCK FALSE
