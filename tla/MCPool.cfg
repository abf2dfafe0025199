SPECIFICATION PoolFairSpec
CONSTANTS
    Runs = {r1, r2}
    Mode = "subscription"
    PerRun = 1
    Ceiling = 3
    TTL = 1
    RunLimit = 1
    MaxSpend = 0
    Observed <- MCObserved
    Procs = {daemon}
    Subjects = {s1, s2}
    NoRun = NoRun
    NoSubject = NoSubject
    Unknown = Unknown
    MaxWorkers = 2
    MinWorkers = 1
    RecentSamples = 3
    MinSamples = 2
    GrowBelow = 20
    ShrinkAbove = 40
    CollapseAbove = 60
INVARIANTS DoorAgrees
PROPERTIES ProbesAlone BudgetImplemented BusyPoolClimbsBack
CHECK_DEADLOCK FALSE
