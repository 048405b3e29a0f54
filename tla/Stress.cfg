CONSTANTS
    Names <- MCNames
    Values <- MCValues
    States <- MCStates
    Fresh = 0
    Sequential <- Counter
    Thrown = Thrown
    TimeoutValue = TimeoutValue
    Configs <- MCConfigs
    MaxThreads = 3
    NoGroup = NoGroup
SPECIFICATION Spec
CHECK_DEADLOCK FALSE
INVARIANT GeneratedScenario
INVARIANT VerdictIsLinearizability
INVARIANT AtomicObjectAccepted
INVARIANT OnlyWholeRunsJudged
PROPERTY InvocationEnds
