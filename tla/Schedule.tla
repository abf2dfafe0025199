------------------------------- MODULE Schedule -------------------------------
(***************************************************************************)
(* bothy/schedule.py, bothy/cronspec.py and the schedule thread of         *)
(* bothy/daemon.py: jobs that fall due, each firing a wake, and            *)
(* `bothy schedule add|remove`, which edits the same file from a process   *)
(* of its own.                                                             *)
(*                                                                         *)
(* The store's lock is a lock of one process, so reading jobs.json and     *)
(* replacing it are two steps for either writer.  A firing is three writes *)
(* (the wake, its audit record, the job's new due time), each of which the *)
(* disk may refuse and between which the process may die.                  *)
(*                                                                         *)
(* Time is in ticks of a minute.  Local gives the local time of a tick,    *)
(* which goes back when summer time ends.  Left out: the count of misses,  *)
(* which nothing reads, and what a wake says.                              *)
(*                                                                         *)
(* What other loops have too (Poll, Drain) has the name of this one in its *)
(* own, so that one module can extend them all.                            *)
(***************************************************************************)
EXTENDS Integers, FiniteSets, FiniteSetsExt, Loop

CONSTANTS
    Jobs, Kind,         \* Kind[j]: "at", "every" or "cron"
    At, Period,         \* At[j], Period[j]: what an "at" and an "every" job mean
    Cron,               \* Cron[j]: [minutes, hours, days, months, weekdays], "*" is {}
    Stagger, Spacing,   \* Stagger[j], Spacing[j]
    Active,             \* Active[j]: <<start, end>>, or <<>> for any hour
    Refusable,          \* jobs with a SOP, or dreams: a firing may be refused
    Endless,            \* jobs whose active hours lack an end
    Local,              \* Local[t]: minutes of local time at tick t
    Calendar,           \* Calendar[d]: [month, day, weekday] of local day d
    HourLength, DayLength,  \* minutes of an hour, hours of a day
    Horizon,            \* the last tick a job may be given (horizon_days)
    MaxTime, MaxOps, MaxFailures    \* bounds: the last tick, edits, crashes and outages

Never == -1
Times == 0 .. MaxTime

ASSUME ScheduleAssumption ==
    /\ Kind \in [Jobs -> {"at", "every", "cron"}]
    /\ \A j \in Jobs : Period[j] \in Nat \ {0} /\ Stagger[j] \in Nat /\ Spacing[j] \in Nat
    /\ Refusable \subseteq Jobs /\ Endless \subseteq Jobs
    /\ DOMAIN Local = 0 .. Horizon /\ MaxTime < Horizon
    /\ HourLength \in Nat \ {0} /\ DayLength \in Nat \ {0}

VARIABLES
    now,        \* the clock
    jobs,       \* jobs.json: a record for each job, or Absent
    ready,      \* what due() found, still to fire
    firing,     \* the job being fired
    read,       \* the file as mark_fired read it, and when
    operator,   \* `bothy schedule`: what it does, and the file as it read it
    ops, failures,  \* edits so far, crashes and outages so far
    \* history, read by no action's guard
    wokeAt,     \* when each job's last wake was stored
    excused,    \* jobs whose last firing is not on record
    late        \* wakes of each removed job since its removal, or Never

file == <<jobs, wokeAt, excused, late>>
scheduleVars == <<now, jobs, pc, ready, firing, read, operator, disk, ops, failures,
                  wokeAt, excused, late>>

Absent == [on |-> FALSE, last |-> Never, next |-> Never, here |-> FALSE]
NoJob == "no job"
NoFile == [j \in Jobs |-> Absent]
Idle == [act |-> "none", job |-> NoJob, copy |-> NoFile]
NoRead == [copy |-> NoFile, at |-> Never]

-----------------------------------------------------------------------------
(* Local time and cron.                                                    *)

\* The tick a local time stands for: the first, where it comes twice.
Instant(w) == IF \E t \in DOMAIN Local : Local[t] >= w
              THEN Min({t \in DOMAIN Local : Local[t] >= w}) ELSE Never
Minute(w) == w % HourLength
Hour(w) == (w \div HourLength) % DayLength
Date(w) == Calendar[w \div (HourLength * DayLength)]

In(x, field) == field = {} \/ x \in field

\* CronSpec.matches: two restricted day fields are alternatives.
Matches(spec, w) ==
    /\ In(Minute(w), spec.minutes) /\ In(Hour(w), spec.hours) /\ In(Date(w).month, spec.months)
    /\ IF spec.days # {} /\ spec.weekdays # {}
       THEN Date(w).day \in spec.days \/ Date(w).weekday \in spec.weekdays
       ELSE In(Date(w).day, spec.days) /\ In(Date(w).weekday, spec.weekdays)

\* CronSpec.next_after, which counts minutes of LOCAL time.
NextAfter(spec, t) ==
    LET later == {w \in Local[t] + 1 .. Local[Horizon] : Matches(spec, w)}
    IN  IF later = {} THEN Never ELSE Min(later)

-----------------------------------------------------------------------------
(* Job.  A definition marked "slip" is used by no specification: it is a   *)
(* mistake the properties would notice.                                    *)

\* A cron job's next time after t: jobs on the hour are spread.
CronDue == [j \in Jobs, t \in Times |->
    LET w == NextAfter(Cron[j], t)
    IN  IF w = Never THEN Never
        ELSE Instant(w + (IF Minute(w) = 0 THEN Stagger[j] ELSE 0))]

\* compute_next(after=t), for a job last fired at `last`.
ComputeNext(j, last, t) ==
    CASE Kind[j] = "at" -> IF last = Never THEN At[j] ELSE Never
      [] Kind[j] = "every" -> (IF last = Never THEN t ELSE last) + Period[j]
      [] OTHER -> CronDue[j, t]

WithinActiveHours(j, t) ==
    LET start == Active[j][1]  end == Active[j][2]  hour == Hour(Local[t])
    IN  \/ Active[j] = <<>>
        \/ start <= end /\ start <= hour /\ hour < end
        \/ start > end /\ (hour >= start \/ hour < end)

\* slip: the floor is not looked at.
SpacedAlways(j, t) == TRUE

SpacedEnough(j, t) == jobs[j].last = Never \/ t - jobs[j].last >= Spacing[j]

-----------------------------------------------------------------------------
(* The schedule thread.                                                    *)

Pending(j) == jobs[j].on /\ jobs[j].next # Never /\ jobs[j].next <= now

\* What due() asks of one job.
Due(j) == /\ Pending(j) /\ j \notin Endless
          /\ WithinActiveHours(j, now) /\ SpacedEnough(j, now)

\* A malformed job that is due makes due() raise, whatever else is due.
DueRaises == \E j \in Endless : Pending(j)

\* slip: a job that missed a whole period waits for its next time.
FoundUnlessMissed == {j \in Jobs : Due(j) /\ now - jobs[j].next <= Period[j]}

\* due()
Found == {j \in Jobs : Due(j)}

To(where) == pc' = where /\ UNCHANGED <<now, operator, disk, ops, failures>>
NewCur(j) == firing' = j /\ read' = NoRead

ScheduleBegin ==
    /\ pc = "idle"
    /\ IF DueRaises THEN ready' = {} /\ To("handler")
       ELSE ready' = Found /\ To("pass")
    /\ UNCHANGED file /\ UNCHANGED <<firing, read>>

ScheduleEnd ==
    /\ pc = "pass" /\ ready = {}
    /\ To("idle") /\ UNCHANGED file /\ UNCHANGED <<ready, firing, read>>

\* An exception anywhere in the pass: the rest of it is given up.
ScheduleRaise == To("handler") /\ ready' = {} /\ NewCur(NoJob)

\* fire(): the wake, of the job as due() read it.
Fire(j) ==
    /\ pc = "pass" /\ j \in ready /\ disk
    /\ To("log") /\ ready' = ready \ {j} /\ NewCur(j)
    /\ wokeAt' = [wokeAt EXCEPT ![j] = now]
    /\ excused' = excused \ {j}
    /\ late' = [late EXCEPT ![j] = IF @ = Never THEN @ ELSE @ + 1]
    /\ UNCHANGED jobs

\* fire() refuses: an invalid dream, or a SOP that cannot be read, which leaves
\* a wake that is already settled.
Refuse(j) ==
    /\ pc = "pass" /\ j \in ready \cap Refusable /\ disk
    /\ To("log") /\ ready' = ready \ {j} /\ NewCur(j)
    /\ UNCHANGED file

\* fire()'s audit record.
Log ==
    /\ pc = "log" /\ disk
    /\ To("mark") /\ UNCHANGED file /\ UNCHANGED <<ready, firing, read>>

\* mark_fired: load; a job that is gone needs no mark ...
MarkRead ==
    /\ pc = "mark"
    /\ IF jobs[firing].here
       THEN read' = [copy |-> jobs, at |-> now] /\ To("save") /\ UNCHANGED firing
       ELSE NewCur(NoJob) /\ To("pass")
    /\ UNCHANGED file /\ UNCHANGED ready

\* The job's record after a firing at t: an "at" job is done.
Fired(j, job, t) ==
    LET next == ComputeNext(j, t, t)
    IN  [here |-> TRUE, last |-> t, next |-> next,
         on |-> job.on /\ ~(Kind[j] = "at" /\ next = Never)]

\* What writing the file from an old reading of it undoes.
Undone(copy) == {k \in Jobs : copy[k] # jobs[k]}

\* ... and save, from what was read.
MarkSave ==
    /\ pc = "save" /\ disk
    /\ jobs' = [read.copy EXCEPT ![firing] = Fired(firing, @, read.at)]
    /\ excused' = excused \cup Undone(read.copy)
    /\ late' = [j \in Jobs |-> IF j \in Undone(read.copy) THEN Never ELSE late[j]]
    /\ To("pass") /\ NewCur(NoJob) /\ UNCHANGED <<ready, wokeAt>>

\* A write fails.  A wake that was stored and never marked is fired again.
WriteFails ==
    /\ ~disk
    /\ pc \in {"log", "save"} \/ (pc = "pass" /\ ready # {})
    /\ ScheduleRaise
    /\ excused' = IF pc = "pass" THEN excused ELSE excused \cup {firing}
    /\ UNCHANGED <<jobs, wokeAt, late>>

ScheduleHandle ==
    /\ Handled
    /\ UNCHANGED file /\ UNCHANGED <<now, ready, firing, read, operator, ops, failures>>

-----------------------------------------------------------------------------
(* bothy schedule add | remove.                                            *)

daemonVars == <<pc, ready, firing, read>>

OpRead(j, act) ==
    /\ operator = Idle /\ ops < MaxOps
    /\ act = "remove" => jobs[j].here
    /\ operator' = [act |-> act, job |-> j, copy |-> jobs]
    /\ ops' = ops + 1
    /\ UNCHANGED file /\ UNCHANGED daemonVars /\ UNCHANGED <<now, disk, failures>>

\* slip: a removal is not saved.
EditedKept(j, act) ==
    IF act = "add" THEN [here |-> TRUE, on |-> TRUE, last |-> Never, next |-> ComputeNext(j, Never, now)]
    ELSE operator.copy[j]

\* Schedule.put and remove.  A job put again has never been fired.
Edited(j, act) ==
    IF act = "add" THEN [here |-> TRUE, on |-> TRUE, last |-> Never, next |-> ComputeNext(j, Never, now)]
    ELSE Absent

OpWrite ==
    /\ operator # Idle /\ disk
    /\ jobs' = [operator.copy EXCEPT ![operator.job] = Edited(operator.job, operator.act)]
    /\ excused' = excused \cup Undone(operator.copy) \cup {operator.job}
    /\ late' = [j \in Jobs |->
                  IF j # operator.job THEN IF j \in Undone(operator.copy) THEN Never ELSE late[j]
                  ELSE IF operator.act = "remove" THEN 0 ELSE Never]
    /\ operator' = Idle
    /\ UNCHANGED daemonVars /\ UNCHANGED <<now, disk, ops, failures, wokeAt>>

OpFails ==
    /\ operator # Idle /\ ~disk
    /\ operator' = Idle
    /\ UNCHANGED file /\ UNCHANGED daemonVars /\ UNCHANGED <<now, disk, ops, failures>>

-----------------------------------------------------------------------------
(* The clock, the disk and the process.                                    *)

Tick ==
    /\ now < MaxTime
    /\ now' = now + 1
    /\ UNCHANGED file /\ UNCHANGED daemonVars /\ UNCHANGED <<operator, disk, ops, failures>>

DiskFails ==
    /\ disk /\ failures < MaxFailures
    /\ disk' = FALSE /\ failures' = failures + 1
    /\ UNCHANGED file /\ UNCHANGED daemonVars /\ UNCHANGED <<now, operator, ops>>

DiskRecovers ==
    /\ ~disk
    /\ disk' = TRUE
    /\ UNCHANGED file /\ UNCHANGED daemonVars /\ UNCHANGED <<now, operator, ops, failures>>

ScheduleCrash ==
    /\ pc # "down" /\ failures < MaxFailures
    /\ failures' = failures + 1
    /\ pc' = "down" /\ ready' = {} /\ NewCur(NoJob)
    /\ excused' = IF pc \in {"log", "mark", "save"} THEN excused \cup {firing} ELSE excused
    /\ UNCHANGED <<now, jobs, operator, disk, ops, wokeAt, late>>

ScheduleRestart ==
    /\ pc = "down"
    /\ To("idle") /\ UNCHANGED file /\ UNCHANGED <<ready, firing, read>>

-----------------------------------------------------------------------------
ScheduleInit ==
    /\ now = 0 /\ jobs = NoFile
    /\ pc = "idle" /\ ready = {} /\ firing = NoJob /\ read = NoRead
    /\ operator = Idle /\ disk = TRUE /\ ops = 0 /\ failures = 0
    /\ wokeAt = [j \in Jobs |-> Never] /\ excused = {} /\ late = [j \in Jobs |-> Never]

ScheduleThread ==
    \/ ScheduleBegin \/ ScheduleEnd \/ Log \/ MarkRead \/ MarkSave \/ WriteFails \/ ScheduleHandle
    \/ \E j \in Jobs : Fire(j) \/ Refuse(j)

ScheduleNext ==
    \/ ScheduleThread \/ OpWrite \/ OpFails
    \/ Tick \/ DiskFails \/ DiskRecovers \/ ScheduleCrash \/ ScheduleRestart
    \/ \E j \in Jobs, act \in {"add", "remove"} : OpRead(j, act)

\* The thread runs while it lives, and the supervisor restarts the process.
ScheduleFairness == WF_scheduleVars(ScheduleThread) /\ WF_scheduleVars(ScheduleRestart)

ScheduleSpec == ScheduleInit /\ [][ScheduleNext]_scheduleVars /\ ScheduleFairness

-----------------------------------------------------------------------------
(* What the schedule promises.                                             *)

\* "A job cannot fire again within its own floor, whatever the schedule says":
\* two wakes of a job are its spacing apart (spaced_enough, mark_fired), across
\* late firings, local time going back, and restarts.  The exceptions are the ones
\* named: a firing that was not marked because of a crash or a failed write, a
\* mark that another process's write undid, and a job the operator put again.
FiringsSpaced ==
    [][\A j \in Jobs :
         (wokeAt'[j] # wokeAt[j] /\ wokeAt[j] # Never /\ j \notin excused)
            => wokeAt'[j] - wokeAt[j] >= Spacing[j]]_scheduleVars

\* A job the operator removed fires once more at most, when the pass had already
\* found it due, unless a write from an older reading of the file brings it back
\* (remove, mark_fired).
RemovedFiresOnceMore == \A j \in Jobs : late[j] <= 1

\* "Deferring it forever is the other failure": a job that is due, however late,
\* is fired, or stops being due, as long as the thread lives and no malformed job
\* makes every pass raise (due, _schedule_loop).
DueFires == \A j \in Jobs : Due(j) ~> (~Due(j) \/ pc = "dead" \/ DueRaises)

\* "The first matching minute strictly after": the time a cron job is given next
\* is later than the time it was fired (next_after, compute_next).
NextIsLater == \A j \in Jobs :
    (Kind[j] = "cron" /\ jobs[j].last # Never /\ jobs[j].next # Never) => jobs[j].next > jobs[j].last
=============================================================================
