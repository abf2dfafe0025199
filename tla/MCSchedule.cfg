SPECIFICATION ScheduleSpec
CONSTANTS
    Jobs <- MCJobs
    Kind <- MCKind
    At <- MCAt
    Period <- MCPeriod
    Cron <- MCCron
    Stagger <- MCStagger
    Spacing <- MCSpacing
    Active <- MCActive
    Refusable = {"often"}
    Endless = {"once"}
    Local <- MCLocal
    Calendar <- MCCalendar
    HourLength = 2
    DayLength = 24
    Horizon = 8
    MaxTime = 4
    MaxOps = 3
    MaxFailures = 1
CHECK_DEADLOCK FALSE
INVARIANTS RemovedFiresOnceMore
PROPERTIES FiringsSpaced DueFires
