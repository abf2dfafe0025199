------------------------------ MODULE MCSchedule ------------------------------
\* Schedule for TLC: hours of two minutes, and a local clock that goes back by
\* an hour at tick 3.  One interval job, one cron job in a window of hours, one
\* that runs once and whose window of hours has no end.
EXTENDS Schedule, TLC
MCJobs == {"often", "cron", "once"}
MCKind == "often" :> "every" @@ "cron" :> "cron" @@ "once" :> "at"
MCAt == [j \in MCJobs |-> 1]
MCPeriod == [j \in MCJobs |-> 1]
Star == {}
MCCron == [j \in MCJobs |-> [minutes |-> {0, 1}, hours |-> Star, days |-> {1},
                             months |-> {1}, weekdays |-> {0}]]
MCStagger == [j \in MCJobs |-> 1]
MCSpacing == [j \in MCJobs |-> 2]
MCActive == [j \in MCJobs |-> IF j = "cron" THEN <<1, 4>> ELSE <<>>]
MCLocal == 0 :> 1 @@ 1 :> 2 @@ 2 :> 3 @@ 3 :> 2 @@ 4 :> 3 @@ 5 :> 4 @@ 6 :> 5 @@ 7 :> 6 @@ 8 :> 7
MCCalendar == [d \in 0 .. 1 |-> [month |-> 1, day |-> d, weekday |-> d]]
=============================================================================
