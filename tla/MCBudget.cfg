SPECIFICATION FairSpec
CONSTANTS
    Runs = {r1, r2, r3}
    Mode = "api"
    PerRun = 1
    Ceiling = 2
    TTL = 1
    RunLimit = 1
    MaxSpend = 2
    Observed <- MCObserved
INVARIANTS TypeOK CapHolds ChargedOnce BilledForSpend LiveRunsHold
PROPERTIES AccruedFallsAtMidnightOnly ReservationsReturn
CHECK_DEADLOCK FALSE
