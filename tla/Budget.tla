------------------------------- MODULE Budget -------------------------------
(***************************************************************************)
(* bothy/budget.py: the ledger that runs reserve budget from before they   *)
(* start, report to while they run and settle with at the end, and the     *)
(* processes that race on it: the runner that owns a run, `bothy cancel`   *)
(* and `bothy reap` in processes of their own, and the daemon's janitor.   *)
(*                                                                         *)
(* Every method of BudgetLedger is one transaction under a thread lock and *)
(* an flock, ended by one atomic replace of the file (or by no write), so  *)
(* a method is one action.  Money is counted in whole units.  The runner   *)
(* never asks for a specific amount, so every reservation is of PerRun.    *)
(*                                                                         *)
(* Clocks are abstracted to what the code compares: age[r] is how long a   *)
(* reservation has stood, saturating past TTL, and `rolled' says whether   *)
(* the day written in the file is the current UTC day.                     *)
(***************************************************************************)
EXTENDS Integers, FiniteSets

CONSTANTS
    Runs,       \* the runs that may ask for budget
    Mode,       \* "api": we add up the spend.  "subscription": Codex does
    PerRun,     \* policy.per_run(): what a run reserves
    Ceiling,    \* policy.ceiling()
    TTL,        \* policy.reservation_ttl_seconds, in ticks
    RunLimit,   \* ticks within which a supervised run ends (wall clock + hold)
    MaxSpend,   \* bound: the largest cost a run reaches
    Observed    \* the window positions Codex may report in subscription mode

ASSUME BudgetAssumption ==
    /\ IsFiniteSet(Runs)
    /\ Mode \in {"api", "subscription"}
    /\ PerRun \in Nat /\ Ceiling \in Nat /\ MaxSpend \in Nat
    /\ TTL \in Nat /\ RunLimit \in Nat
    /\ Observed \subseteq Nat

VARIABLES
    \* the file
    accrued,    \* spend settled since the file's day began
    rolled,     \* the file's day is today
    open,       \* the runs that hold a reservation
    actual,     \* Reservation.actual, 0 without a reservation
    age,        \* the age of a reservation, 0 without one
    \* the runs
    phase,      \* see Phases
    spent,      \* what the run has cost, as its own process knows it
    \* history, read by no action's guard
    bill,       \* what the ledger charged for a run when its reservation left
    todays      \* the runs charged since the day was last rolled

ledgerVars == <<accrued, rolled, open, actual, age, bill, todays>>
vars == <<accrued, rolled, open, actual, age, phase, spent, bill, todays>>

\* "killed": the group was killed from outside and the runner has yet to notice.
\* "done": the runner settled it.  "cut": the runner ended and found the
\* reservation gone.  "dead": it ended without settling, because its process died
\* or the settle failed.
Phases == {"idle", "running", "killed", "done", "cut", "dead"}

Max2(a, b) == IF a >= b THEN a ELSE b
Min2(a, b) == IF a <= b THEN a ELSE b

\* The sum of f over the finite set S of runs, as a number of units: one pair
\* <<r, i>> for the i-th unit of r.
Units(f, S) == UNION {{r} \X (1 .. f[r]) : r \in S}
Sum(f, S) == Cardinality(Units(f, S))

-----------------------------------------------------------------------------
(* The ledger's methods.  A definition marked "slip" is a mistake someone  *)
(* could make in the one that follows it: no specification uses it, it is  *)
(* kept to show which property would notice.                               *)

\* What a reservation occupies: the larger of promise and spend.
Held == [r \in Runs |-> Max2(PerRun, actual[r])]

Outstanding(S) == Sum(Held, S)

\* slip: a reservation expires on the tick its TTL ends.
ExpiredOnTime == {r \in open : age[r] >= TTL}

\* clock.age_seconds(expires_at) > 0
Expired == {r \in open : age[r] > TTL}

\* slip: every rewrite of the file starts the day again.
RollAlways == 0

\* _roll_day: a new day starts from nothing accrued; reservations survive.
RollDay == IF rolled THEN accrued ELSE 0
RolledTodays == IF rolled THEN todays ELSE {}

\* slip: only what a run spent beyond its promise is added.
AccruesExcess(cost, S) == IF Mode = "api" THEN Sum(cost, S) - PerRun * Cardinality(S) ELSE 0

\* Only api mode accrues.
Accrues(cost, S) == IF Mode = "api" THEN Sum(cost, S) ELSE 0

\* slip: the reservations are charged and left in the file.
TransactKeeping(S, cost, New) ==
    /\ rolled' = TRUE
    /\ accrued' = RollDay + Accrues(cost, S)
    /\ open' = open \cup New
    /\ bill' = [r \in Runs |-> IF r \in S /\ Mode = "api" THEN cost[r] ELSE bill[r]]
    /\ todays' = RolledTodays \cup (IF Mode = "api" THEN S ELSE {})
    /\ UNCHANGED <<actual, age>>

\* The part the settling methods share: roll the day, pop the reservations of
\* S accruing cost[r] for each, add those of New, save.
Transact(S, cost, New) ==
    /\ rolled' = TRUE
    /\ accrued' = RollDay + Accrues(cost, S)
    /\ open' = (open \ S) \cup New
    /\ actual' = [r \in Runs |-> IF r \in S \cup New THEN 0 ELSE actual[r]]
    /\ age' = [r \in Runs |-> IF r \in S \cup New THEN 0 ELSE age[r]]
    /\ bill' = [r \in Runs |-> IF r \in S /\ Mode = "api" THEN cost[r] ELSE bill[r]]
    /\ todays' = RolledTodays \cup (IF Mode = "api" THEN S ELSE {})

\* What the window already holds: our own total, which the expired have just
\* joined, or Codex's report.
Base(observed) ==
    IF Mode = "subscription" THEN observed ELSE RollDay + Accrues(Held, Expired)

\* slip: a run is admitted against what was spent, not what is promised.
ReserveUnheld(r, observed) ==
    /\ Base(observed) + PerRun <= Ceiling
    /\ Transact(Expired, Held, {r})

\* reserve().  A refusal raises before the save, so it changes nothing.
Reserve(r, observed) ==
    /\ Base(observed) + Outstanding(open \ Expired) + PerRun <= Ceiling
    /\ Transact(Expired, Held, {r})

\* report(): replaces `actual', or does nothing once the reservation is gone.
\* It does not roll the day.
Report(r, cost) ==
    /\ actual' = IF r \in open THEN [actual EXCEPT ![r] = cost] ELSE actual
    /\ UNCHANGED <<accrued, rolled, open, age, bill, todays>>

\* settle(): accrues the final cost; with the reservation gone it only rolls
\* the day and saves.
Settle(r, cost) ==
    Transact(open \cap {r}, [x \in Runs |-> cost], {})

\* slip: a run settled from outside is charged what it last reported.
SettleRunAsReported(r) ==
    IF r \in open THEN Transact({r}, actual, {}) ELSE UNCHANGED ledgerVars

\* settle_run(): accrues held(), and saves only if it found a reservation.
SettleRun(r) ==
    IF r \in open THEN Transact({r}, Held, {}) ELSE UNCHANGED ledgerVars

\* slip: the expired are dropped in memory and not saved.
ExpireUnsaved == FALSE /\ UNCHANGED vars

\* expire_stale(): likewise saves only if something expired.
ExpireStale ==
    /\ Expired # {}
    /\ Transact(Expired, Held, {})
    /\ UNCHANGED <<phase, spent>>

-----------------------------------------------------------------------------
(* The processes that use it.                                              *)

Init ==
    /\ accrued = 0 /\ rolled = TRUE /\ open = {}
    /\ actual = [r \in Runs |-> 0] /\ age = [r \in Runs |-> 0]
    /\ phase = [r \in Runs |-> "idle"] /\ spent = [r \in Runs |-> 0]
    /\ bill = [r \in Runs |-> 0] /\ todays = {}

\* The costs a run's process may come to know.  In subscription mode the meter
\* counts nothing.
Costs(r) == IF Mode = "api" THEN spent[r] .. MaxSpend ELSE {spent[r]}

Start(r, observed) ==
    /\ phase[r] = "idle"
    /\ Reserve(r, observed)
    /\ phase' = [phase EXCEPT ![r] = "running"]
    /\ UNCHANGED spent

\* meter(): each usage notification is priced and pushed into the ledger.
Meter(r) ==
    /\ phase[r] = "running"
    /\ \E cost \in Costs(r) \ {spent[r]} :
          /\ spent' = [spent EXCEPT ![r] = cost]
          /\ Report(r, cost)
    /\ UNCHANGED phase

\* The runner's finally block settles with the turn's final usage.
Finish(r) ==
    /\ phase[r] \in {"running", "killed"}
    /\ \E cost \in Costs(r) :
          /\ spent' = [spent EXCEPT ![r] = cost]
          /\ Settle(r, cost)
    /\ phase' = [phase EXCEPT ![r] = IF r \in open THEN "done" ELSE "cut"]

\* The runs of S end and nothing is settled: the process that runs them dies, or
\* the settle of one of them raises, the lock or the file being out of reach.
Crash(S) ==
    /\ \A r \in S : phase[r] \in {"running", "killed"}
    /\ phase' = [r \in Runs |-> IF r \in S THEN "dead" ELSE phase[r]]
    /\ UNCHANGED <<accrued, rolled, open, actual, age, bill, todays, spent>>

\* "bothy cancel" gave up waiting, killed the group and settles the run; so does
\* a "bothy reap" beside the live process, which spares no recorded worker.
Cancel(r) ==
    /\ phase[r] = "running"
    /\ phase' = [phase EXCEPT ![r] = "killed"]
    /\ SettleRun(r)
    /\ UNCHANGED spent

\* "bothy reap", or cancel, of a worker left on record by a process that died or
\* failed to settle it.
Reap(r) ==
    /\ phase[r] = "dead" /\ r \in open
    /\ SettleRun(r)
    /\ UNCHANGED <<phase, spent>>

\* Run ids are never reused; the model lets the id of a run that has ended, and
\* that the ledger keeps nothing of, stand for a later run.
Recycle(r) ==
    /\ phase[r] \in {"done", "cut", "dead"}
    /\ r \notin open \cup todays
    /\ phase' = [phase EXCEPT ![r] = "idle"]
    /\ spent' = [spent EXCEPT ![r] = 0]
    /\ bill' = [bill EXCEPT ![r] = 0]
    /\ UNCHANGED <<accrued, rolled, open, actual, age, todays>>

\* Time passes.  A supervised run ends within RunLimit: its wall clock plus its
\* question hold.  Config.validate_hold keeps that under the TTL, but only when
\* a hold is configured; without one the wall clock may be any.
Tick ==
    /\ \A r \in open : phase[r] = "running" => age[r] < RunLimit
    /\ \E r \in open : age[r] <= TTL
    /\ age' = [r \in Runs |-> IF r \in open /\ age[r] <= TTL THEN age[r] + 1 ELSE age[r]]
    /\ UNCHANGED <<accrued, rolled, open, actual, phase, spent, bill, todays>>

NewDay ==
    /\ rolled
    /\ rolled' = FALSE
    /\ UNCHANGED <<accrued, open, actual, age, phase, spent, bill, todays>>

Next ==
    \/ \E r \in Runs, observed \in Observed : Start(r, observed)
    \/ \E r \in Runs : Meter(r) \/ Finish(r) \/ Cancel(r) \/ Reap(r) \/ Recycle(r)
    \/ \E S \in SUBSET Runs : Crash(S)
    \/ ExpireStale \/ Tick \/ NewDay

Spec == Init /\ [][Next]_vars

\* Time passes, the janitor's timer runs, and a supervised run ends (its wall
\* clock stops it).  Nobody is obliged to cancel or to reap.
Fairness ==
    /\ WF_vars(Tick) /\ WF_vars(ExpireStale)
    /\ \A r \in Runs : WF_vars(Finish(r))

FairSpec == Spec /\ Fairness

-----------------------------------------------------------------------------
(* Properties.                                                             *)

\* Every variable keeps to the values the file and the processes can hold.
TypeOK ==
    /\ accrued \in Nat /\ rolled \in BOOLEAN
    /\ open \subseteq Runs /\ todays \subseteq Runs
    /\ actual \in [Runs -> Nat] /\ age \in [Runs -> Nat]
    /\ phase \in [Runs -> Phases]
    /\ spent \in [Runs -> 0 .. MaxSpend] /\ bill \in [Runs -> Nat]

\* The cap.  What the day has charged, up to each run's own promise, plus the
\* promises of the runs in flight, stays within the ceiling: however many runs
\* are admitted between two settlements, the day can pass its ceiling only by
\* what single runs spent beyond what they reserved (budget.py, reserve).
Promised == [r \in Runs |-> Min2(PerRun, bill[r])]
Promise == [r \in Runs |-> PerRun]
CapHolds == Sum(Promised, todays) + Sum(Promise, open) <= Ceiling

\* The day's total is exactly the bills of the runs charged today: no way out
\* of the ledger (settle, cancel, reap, expiry, and a settle that comes after
\* any of them) charges a run twice or loses its charge, midnight included.
ChargedOnce ==
    /\ accrued = IF Mode = "api" THEN Sum(bill, todays) ELSE 0
    /\ open \cap todays = {}

\* A run is billed for what it spent.  One settled by its own process costs
\* exactly its spend.  Any other costs its promise at least, and at most what it
\* had spent by its end when that is more (held(), settle_run, _drop_expired);
\* and exactly the larger of the two when it was cancelled or never settled, as
\* long as reservations outlive runs.
Billed(r) ==
    LET worst == Max2(PerRun, spent[r]) IN
    /\ phase[r] = "done" => bill[r] = spent[r]
    /\ phase[r] # "done" => bill[r] \in PerRun .. worst
    /\ phase[r] \in {"killed", "dead"} /\ RunLimit <= TTL => bill[r] = worst
BilledForSpend ==
    \A r \in Runs : Mode = "api" /\ phase[r] # "idle" /\ r \notin open => Billed(r)

\* As long as reservations outlive runs, a run whose process still supervises it
\* holds its reservation: only a cancellation takes budget from a live run.
LiveRunsHold ==
    RunLimit <= TTL => \A r \in Runs : phase[r] = "running" => r \in open

\* "Reap reservations whose run died without settling" (_drop_expired): whatever
\* the wall clock, expiry takes the reservations of dead runs and no others.
OnlyTheDeadExpire ==
    [][\A r \in open \ open' : phase'[r] # "running"]_vars

\* The total shown for the day falls only when the day changes.
AccruedFallsAtMidnightOnly == [][accrued' < accrued => ~rolled]_vars

\* "Every exclusive slot needs exactly one automatic path back to empty": a
\* reservation leaves the ledger even when the process that took it is gone.
ReservationsReturn == \A r \in Runs : r \in open ~> r \notin open
=============================================================================
