-------------------------------- MODULE Drain --------------------------------
(***************************************************************************)
(* bothy/daemon.py: the drain loop, which turns pending wakes into runs.   *)
(* One thread passes over the queue again and again; for each wake it      *)
(* abandons, waits, defers, or calls the runner and settles or retries     *)
(* according to the answer and, for a wake with a goal, the goal's check.  *)
(*                                                                         *)
(* Every mark and every audit record is a step, so that the process may    *)
(* die, or the disk refuse the write, between any two of them.  Fields of  *)
(* a wake that only this thread writes are read from the file rather than  *)
(* from the pass's copy, which is the same.  The wakes of a pass are taken *)
(* in any order.                                                           *)
(*                                                                         *)
(* What other loops have too (Poll, Schedule) has the name of this one in  *)
(* its own, so that one module can extend them all.                        *)
(***************************************************************************)
EXTENDS Integers, FiniteSets, Loop

CONSTANTS
    Wakes,          \* the wakes that may arrive
    Goals,          \* those with a goal
    Subjects,       \* what wakes are about
    Subject,        \* Subject[w]: the lane of wake w
    Nothing,        \* no wake in hand
    MaxAttempts,    \* max_wake_attempts: deferrals before a wake is abandoned
    GoalAttempts,   \* the goal's max_attempts
    MaxFaults       \* bound: crashes and disk outages in a behaviour

ASSUME DrainAssumption ==
    /\ Goals \subseteq Wakes /\ Nothing \notin Wakes
    /\ Subject \in [Wakes -> Subjects]
    /\ MaxAttempts \in Nat \ {0} /\ GoalAttempts \in Nat \ {0} /\ MaxFaults \in Nat

VARIABLES
    \* wakes.jsonl
    outcome,    \* "absent", "pending", or how the wake was settled
    attempts,   \* how often it was deferred
    tries,      \* goal_attempts
    \* time
    later,      \* next_attempt_at is still to come
    old,        \* it has waited max_wake_age_seconds
    \* the drain thread
    cur,        \* the wake in hand
    ahead,      \* the wakes this pass has yet to look at
    busy,       \* busy_lanes of this pass
    exhausted,  \* pool_exhausted of this pass
    result,     \* what the runner answered
    \* the environment
    faults,     \* crashes and outages so far
    \* history, read by no action's guard
    ran         \* the calls of runner.run that were not refused for capacity

wakeVars == <<outcome, attempts, tries, later>>
passVars == <<ahead, busy, exhausted>>
drainVars == <<outcome, attempts, tries, later, old, pc, cur, ahead, busy, exhausted,
          result, disk, faults, ran>>

Outcomes == {"ran", "verified", "unverified", "abandoned"}
Settled(w) == outcome[w] \in Outcomes
Queued == {w \in Wakes : outcome[w] = "pending"}

\* _too_old, _too_many_attempts
TooMany(w) == attempts[w] >= MaxAttempts
Hopeless(w) == old[w] \/ TooMany(w)

\* The locals of the pass's body, and of the pass, where nothing reads them.
EmptyHand == cur' = Nothing /\ result' = "none"
NoPass == ahead' = {} /\ busy' = {} /\ exhausted' = FALSE

-----------------------------------------------------------------------------
(* A pass over the queue (drain).  A definition marked "slip" is used by   *)
(* no specification: it is a mistake the properties would notice.          *)

\* slip: the pass looks at every wake of the queue, settled ones too.
DrainBeginOverAll ==
    /\ pc = "idle"
    /\ pc' = "pass" /\ ahead' = {w \in Wakes : outcome[w] # "absent"}
    /\ busy' = {} /\ exhausted' = FALSE
    /\ UNCHANGED wakeVars /\ UNCHANGED <<old, cur, result, disk, faults, ran>>

DrainBegin ==
    /\ pc = "idle"
    /\ pc' = "pass" /\ ahead' = Queued /\ busy' = {} /\ exhausted' = FALSE
    /\ UNCHANGED wakeVars /\ UNCHANGED <<old, cur, result, disk, faults, ran>>

DrainEnd ==
    /\ pc = "pass" /\ ahead = {}
    /\ pc' = "idle" /\ NoPass
    /\ UNCHANGED wakeVars /\ UNCHANGED <<old, cur, result, disk, faults, ran>>

\* The next wake, whose fate is decided in the order of the code: abandoned,
\* left for later, deferred unseen, out of goal attempts, counted, or run.
Take(w) ==
    /\ pc = "pass" /\ w \in ahead
    /\ ahead' = ahead \ {w}
    /\ cur' = IF ~Hopeless(w) /\ later[w] THEN Nothing ELSE w
    /\ pc' = IF Hopeless(w) THEN "abandon"
             ELSE IF later[w] THEN "pass"
             ELSE IF Subject[w] \in busy \/ exhausted THEN "defer"
             ELSE IF w \notin Goals THEN "call"
             ELSE IF tries[w] >= GoalAttempts THEN "giveup"
             ELSE "count"
    /\ UNCHANGED wakeVars /\ UNCHANGED <<old, busy, exhausted, result, disk, faults, ran>>

\* A mark or an audit record on a disk that takes it; all else is unchanged.
Writes(from, to) ==
    /\ pc = from /\ disk
    /\ pc' = to
    /\ IF to = "pass" THEN EmptyHand ELSE UNCHANGED <<cur, result>>
    /\ UNCHANGED passVars /\ UNCHANGED <<old, disk, faults, ran>>

\* slip: a wake is given up in the audit and in chat, and left pending.
AbandonUnmarked ==
    /\ Writes("abandon", "audit")
    /\ UNCHANGED wakeVars

\* _abandon, or an exhausted goal: settled first, then audited.
Abandon ==
    /\ Writes("abandon", "audit")
    /\ outcome' = [outcome EXCEPT ![cur] = "abandoned"]
    /\ UNCHANGED <<attempts, tries, later>>

GiveUp ==
    /\ Writes("giveup", "audit")
    /\ outcome' = [outcome EXCEPT ![cur] = "unverified"]
    /\ UNCHANGED <<attempts, tries, later>>

AuditSettled == Writes("audit", "pass") /\ UNCHANGED wakeVars

\* _defer: counted, and not looked at again for a while.
Defer ==
    /\ Writes("defer", "pass")
    /\ attempts' = [attempts EXCEPT ![cur] = @ + 1]
    /\ later' = [later EXCEPT ![cur] = TRUE]
    /\ UNCHANGED <<outcome, tries>>

\* "Count before starting: a crash must not replenish the retry budget."
CountGoal ==
    /\ Writes("count", "call")
    /\ tries' = [tries EXCEPT ![cur] = @ + 1]
    /\ UNCHANGED <<outcome, attempts, later>>

-----------------------------------------------------------------------------
(* runner.run, external to this module (Pool has the door).                *)

\* Refused for capacity: the lane, or the pool, is known busy for this pass.
RefusedForCapacity ==
    /\ pc = "call"
    /\ \/ busy' = busy \cup {Subject[cur]} /\ UNCHANGED exhausted
       \/ exhausted' = TRUE /\ UNCHANGED busy
    /\ pc' = IF cur \in Goals THEN "giveback" ELSE "defer"
    /\ UNCHANGED wakeVars /\ UNCHANGED <<old, cur, ahead, result, disk, faults, ran>>

\* Refused for the budget, or for a reason that is a verdict on the wake.
RefusedForGood ==
    /\ pc = "call"
    /\ result' \in {"nobudget", "refused"}
    /\ pc' = "ended"
    /\ ran' = [ran EXCEPT ![cur] = @ + 1]
    /\ UNCHANGED wakeVars /\ UNCHANGED passVars /\ UNCHANGED <<old, cur, disk, faults>>

Admitted ==
    /\ pc = "call"
    /\ pc' = "running"
    /\ ran' = [ran EXCEPT ![cur] = @ + 1]
    /\ UNCHANGED wakeVars /\ UNCHANGED passVars /\ UNCHANGED <<old, cur, result, disk, faults>>

RunEnds ==
    /\ pc = "running"
    /\ result' \in {"completed", "failed"}
    /\ pc' = "ended"
    /\ UNCHANGED wakeVars /\ UNCHANGED passVars /\ UNCHANGED <<old, cur, disk, faults, ran>>

-----------------------------------------------------------------------------
(* After the runner's answer.                                              *)

\* slip: a capacity refusal keeps the count.
KeepCount == Writes("giveback", "defer") /\ UNCHANGED wakeVars

\* A capacity refusal returns the count to what the pass read.
GiveBack ==
    /\ Writes("giveback", "defer")
    /\ tries' = [tries EXCEPT ![cur] = @ - 1]
    /\ UNCHANGED <<outcome, attempts, later>>

\* A wake without a goal is settled whatever the run came to.
Settle ==
    /\ Writes("ended", "pass")
    /\ cur \notin Goals
    /\ outcome' = [outcome EXCEPT ![cur] = "ran"]
    /\ UNCHANGED <<attempts, tries, later>>

\* goal.check: only a completed run can pass.  The verdict is audited ...
Check ==
    /\ cur \in Goals
    /\ pc = "ended" /\ disk
    /\ pc' = "checked"
    /\ result' \in IF result = "completed" THEN {"verified", "failed"} ELSE {result}
    /\ UNCHANGED wakeVars /\ UNCHANGED passVars /\ UNCHANGED <<old, cur, disk, faults, ran>>

Retry == result \notin {"verified", "nobudget"} /\ tries[cur] < GoalAttempts

\* ... its evidence is recorded, and the wake is put off or settled.
Feedback == Writes("checked", "decide") /\ UNCHANGED wakeVars

RetryGoal ==
    /\ Writes("decide", "pass")
    /\ Retry
    /\ later' = [later EXCEPT ![cur] = TRUE]
    /\ UNCHANGED <<outcome, attempts, tries>>

SettleGoal ==
    /\ Writes("decide", "pass")
    /\ ~Retry
    /\ outcome' = [outcome EXCEPT ![cur] =
                    IF result = "verified" THEN "verified" ELSE "unverified"]
    /\ UNCHANGED <<attempts, tries, later>>

-----------------------------------------------------------------------------
(* What goes wrong.                                                        *)

\* A write raises: the pass is lost.
DrainRaise ==
    /\ pc \in {"abandon", "giveup", "audit", "defer", "count", "giveback",
               "ended", "checked", "decide"}
    /\ ~disk
    /\ pc' = "handler" /\ EmptyHand /\ NoPass
    /\ UNCHANGED wakeVars /\ UNCHANGED <<old, disk, faults, ran>>

DrainHandle ==
    /\ Handled
    /\ UNCHANGED wakeVars /\ UNCHANGED passVars
    /\ UNCHANGED <<old, cur, result, faults, ran>>

\* The daemon dies and is started again.
DrainCrash ==
    /\ faults < MaxFaults
    /\ pc' = "idle" /\ EmptyHand /\ NoPass
    /\ faults' = faults + 1
    /\ UNCHANGED wakeVars /\ UNCHANGED <<old, disk, ran>>

Outage ==
    /\ disk /\ faults < MaxFaults
    /\ disk' = FALSE /\ faults' = faults + 1
    /\ UNCHANGED wakeVars /\ UNCHANGED passVars /\ UNCHANGED <<old, pc, cur, result, ran>>

Repair ==
    /\ ~disk
    /\ disk' = TRUE
    /\ UNCHANGED wakeVars /\ UNCHANGED passVars
    /\ UNCHANGED <<old, pc, cur, result, faults, ran>>

-----------------------------------------------------------------------------
(* The rest of the world.                                                  *)

\* A listener, a poll or a job stores a wake.
Arrive(w) ==
    /\ outcome[w] = "absent"
    /\ outcome' = [outcome EXCEPT ![w] = "pending"]
    /\ UNCHANGED passVars
    /\ UNCHANGED <<attempts, tries, later, old, pc, cur, result, disk, faults, ran>>

\* next_attempt_at passes (_retry_delay keeps it at most 64 seconds away).
RetryDue(w) ==
    /\ later[w]
    /\ later' = [later EXCEPT ![w] = FALSE]
    /\ UNCHANGED passVars
    /\ UNCHANGED <<outcome, attempts, tries, old, pc, cur, result, disk, faults, ran>>

Ages(w) ==
    /\ outcome[w] = "pending" /\ ~old[w]
    /\ old' = [old EXCEPT ![w] = TRUE]
    /\ UNCHANGED wakeVars /\ UNCHANGED passVars
    /\ UNCHANGED <<pc, cur, result, disk, faults, ran>>

DrainInit ==
    /\ outcome = [w \in Wakes |-> "absent"]
    /\ attempts = [w \in Wakes |-> 0] /\ tries = [w \in Wakes |-> 0]
    /\ later = [w \in Wakes |-> FALSE] /\ old = [w \in Wakes |-> FALSE]
    /\ pc = "idle" /\ cur = Nothing
    /\ ahead = {} /\ busy = {} /\ exhausted = FALSE /\ result = "none"
    /\ disk = TRUE /\ faults = 0
    /\ ran = [w \in Wakes |-> 0]

DrainThread ==
    \/ DrainBegin \/ DrainEnd \/ (\E w \in Wakes : Take(w))
    \/ Abandon \/ GiveUp \/ AuditSettled \/ Defer \/ CountGoal
    \/ RefusedForCapacity \/ RefusedForGood \/ Admitted \/ RunEnds
    \/ GiveBack \/ Settle \/ Check \/ Feedback \/ RetryGoal \/ SettleGoal
    \/ DrainRaise \/ DrainHandle

DrainNext ==
    \/ DrainThread
    \/ DrainCrash \/ Outage \/ Repair
    \/ \E w \in Wakes : Arrive(w) \/ RetryDue(w) \/ Ages(w)

DrainSpec == DrainInit /\ [][DrainNext]_drainVars

\* The thread runs (its wait has a timeout), a run ends, and time passes.
\* Nobody owes the disk a repair, nor the runner an admission.
DrainFairness ==
    /\ WF_drainVars(DrainThread)
    /\ \A w \in Wakes : WF_drainVars(RetryDue(w)) /\ WF_drainVars(Ages(w))

DrainFairSpec == DrainSpec /\ DrainFairness

-----------------------------------------------------------------------------
(* Properties.                                                             *)

\* Every variable keeps to its values; a wake is deferred at most MaxAttempts
\* times and a goal counted at most GoalAttempts times.
TypeOK ==
    /\ outcome \in [Wakes -> {"absent", "pending"} \cup Outcomes]
    /\ attempts \in [Wakes -> 0 .. MaxAttempts]
    /\ tries \in [Wakes -> 0 .. GoalAttempts]
    /\ later \in [Wakes -> BOOLEAN] /\ old \in [Wakes -> BOOLEAN]
    /\ pc \in {"idle", "pass", "abandon", "giveup", "audit", "defer", "count", "call",
               "running", "giveback", "ended", "checked", "decide", "handler", "dead"}
    /\ cur \in Wakes \cup {Nothing}
    /\ ahead \subseteq Wakes /\ busy \subseteq Subjects /\ exhausted \in BOOLEAN
    /\ result \in {"none", "completed", "failed", "refused", "nobudget", "verified"}
    /\ disk \in BOOLEAN /\ faults \in 0 .. MaxFaults
    /\ ran \in [Wakes -> Nat]

\* "A crash must not replenish the retry budget": a goal is worked on at most
\* max_attempts times, whatever dies in between.
GoalRunsBounded == \A w \in Goals : ran[w] <= GoalAttempts

\* Waiting for a lane or for the pool costs a goal none of its attempts: the
\* count of a pending goal exceeds the calls made for it by the one in hand, and
\* otherwise only by what a crash or a lost pass took.
RefusalsGiveBack ==
    \A w \in Goals : outcome[w] = "pending" =>
        tries[w] <= ran[w] + faults
                    + IF cur = w /\ pc \in {"call", "giveback"} THEN 1 ELSE 0

\* A wake without a goal runs once; only a crash or an outage between its run
\* and the mark that settles it makes it run again.
RerunsNeedFaults == \A w \in Wakes \ Goals : ran[w] <= 1 + faults

\* Every attempt is accounted for: none is granted twice, none is charged for
\* waiting, and none is repeated without a fault.
AttemptsCounted == TypeOK /\ GoalRunsBounded /\ RefusalsGiveBack /\ RerunsNeedFaults

\* A wake that is settled stays as it was settled, and nothing runs for it.
SettledForGood ==
    [][\A w \in Wakes : Settled(w) => outcome'[w] = outcome[w] /\ ran'[w] = ran[w]]_drainVars

\* "Every path that requeues work must advance a counter that eventually gives
\* up": with its thread alive, the daemon settles every wake it accepted, be the
\* lanes busy, the pool exhausted or the goal failing for ever.
WakesSettle ==
    [](pc # "dead") => \A w \in Wakes : (outcome[w] = "pending") ~> Settled(w)

\* "A loop must not die of one bad pass": once the disk can be written again,
\* and stays so, the daemon settles what is pending.
WakesSettleAfterOutage ==
    <>[]disk => \A w \in Wakes : (outcome[w] = "pending") ~> Settled(w)
=============================================================================
