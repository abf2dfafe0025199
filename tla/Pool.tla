-------------------------------- MODULE Pool --------------------------------
(***************************************************************************)
(* bothy/pool.py, the door every run goes through, over the ledger of      *)
(* Budget: one Admission per process (the daemon, and each `bothy run'),   *)
(* all of them on the one budget file.  With it the budget position of     *)
(* bothy/runner.py that admission is asked with: the subscription window   *)
(* as this process last saw it.                                            *)
(*                                                                         *)
(* admit, release and report run under the Admission's RLock, so each is   *)
(* one action, and one more for its failing halfway, where the ledger      *)
(* cannot be locked or saved: what the door did before stays done.  The    *)
(* ledger transaction inside is the action of Budget of the same name, and *)
(* every step of Pool is a step of Budget or leaves the ledger alone.      *)
(***************************************************************************)
EXTENDS Budget, Sequences

CONSTANTS
    Procs,          \* the processes that start runs
    Subjects,       \* what runs are about
    NoRun,          \* a free lane
    NoSubject,      \* the subject of a run that is not live
    Unknown,        \* a window position nobody has read yet
    MaxWorkers, MinWorkers,                     \* PoolPolicy
    RecentSamples, MinSamples,
    GrowBelow, ShrinkAbove, CollapseAbove       \* its ratios, in percent

ASSUME PoolAssumption ==
    /\ IsFiniteSet(Procs) /\ IsFiniteSet(Subjects)
    /\ NoRun \notin Runs /\ NoSubject \notin Subjects /\ Unknown \notin Observed
    /\ MinWorkers \in 1 .. MaxWorkers /\ MaxWorkers \in Nat
    /\ MinSamples \in 1 .. RecentSamples /\ RecentSamples \in Nat
    /\ GrowBelow \in 0 .. 100 /\ ShrinkAbove \in 0 .. 100 /\ CollapseAbove \in 0 .. 100

VARIABLES
    lanes,      \* _lanes: for each process, the run on each subject
    live,       \* _live: for each process, the subject of each admitted run
    health,     \* _effective and _state
    outcomes,   \* the samples the failure ratio is taken over, oldest first
    due,        \* recompute_seconds have passed since the last recompute
    window,     \* what the subscription window really holds
    seen        \* _last_used_percent: what this process believes it holds

doorVars == <<lanes, live, health, outcomes, due>>
poolVars == <<accrued, rolled, open, actual, age, phase, spent, bill, todays,
          lanes, live, health, outcomes, due, window, seen>>

Healths == [size : 0 .. MaxWorkers, state : {"healthy", "degraded", "probing"}]

Live(p) == {r \in Runs : live[p][r] # NoSubject}

-----------------------------------------------------------------------------
(* Health.  As in Budget, a definition marked "slip" is used by no          *)
(* specification: it is a mistake the properties would notice.             *)

\* _Outcomes.record and ratio: the last RecentSamples outcomes.
Record(samples, ok) ==
    LET all == Append(samples, ok)
    IN  IF Len(all) > RecentSamples THEN Tail(all) ELSE all

Failures(samples) == Cardinality({i \in 1 .. Len(samples) : ~samples[i]})

\* slip: a good patch heals the state and leaves the size.
ResizedNeverUp(h, f, n) ==
    IF n < MinSamples THEN h
    ELSE IF 100 * f > CollapseAbove * n THEN [size |-> 1, state |-> "probing"]
    ELSE IF 100 * f > ShrinkAbove * n
         THEN [size |-> Max2(MinWorkers, h.size - 1), state |-> "degraded"]
    ELSE IF 100 * f < GrowBelow * n THEN [h EXCEPT !.state = "healthy"]
    ELSE h

\* The size and state that n samples with f failures lead to.
Resized(h, f, n) ==
    LET grown == Min2(MaxWorkers, h.size + 1)
    IN  IF n < MinSamples THEN h
        ELSE IF 100 * f > CollapseAbove * n THEN [size |-> 1, state |-> "probing"]
        ELSE IF 100 * f > ShrinkAbove * n
             THEN [size |-> Max2(MinWorkers, h.size - 1), state |-> "degraded"]
        ELSE IF 100 * f < GrowBelow * n
             THEN [size |-> grown,
                   state |-> IF grown >= MaxWorkers THEN "healthy" ELSE "degraded"]
        ELSE h

\* _recompute: at most once per recompute_seconds.
Recomputed(p) ==
    IF due[p] THEN Resized(health[p], Failures(outcomes[p]), Len(outcomes[p]))
    ELSE health[p]

-----------------------------------------------------------------------------
(* The gate.                                                               *)

\* The local checks of admit, after the recompute: the probe, the lane, the slot.
Free(p, s, h) ==
    /\ h.state = "probing" => Live(p) = {}
    /\ lanes[p][s] = NoRun
    /\ Cardinality(Live(p)) < h.size

\* What admit is told about the window; api mode does not look at it.
Position(p) == IF Mode = "subscription" THEN seen[p] ELSE 0

\* slip: the checks use the health from before the recompute.
AdmitStale(p, r, s) ==
    /\ Position(p) # Unknown
    /\ Free(p, s, health[p])
    /\ Start(r, Position(p))
    /\ lanes' = [lanes EXCEPT ![p][s] = r]
    /\ live' = [live EXCEPT ![p][r] = s]
    /\ health' = [health EXCEPT ![p] = Recomputed(p)]
    /\ due' = [due EXCEPT ![p] = FALSE]
    /\ UNCHANGED <<outcomes, window, seen>>

\* slip: in subscription mode, where Codex counts, nothing is reserved.
AdmitUnreserved(p, r, s) ==
    /\ Position(p) # Unknown
    /\ Free(p, s, health[p])
    /\ phase[r] = "idle"
    /\ phase' = [phase EXCEPT ![r] = "running"]
    /\ lanes' = [lanes EXCEPT ![p][s] = r]
    /\ live' = [live EXCEPT ![p][r] = s]
    /\ UNCHANGED <<accrued, rolled, open, actual, age, spent, bill, todays>>
    /\ UNCHANGED <<health, outcomes, due, window, seen>>

\* admit(), all three gates open: the reservation, the lane and the slot.
Admit(p, r, s) ==
    LET h == Recomputed(p) IN
    /\ Position(p) # Unknown
    /\ Free(p, s, h)
    /\ Start(r, Position(p))
    /\ lanes' = [lanes EXCEPT ![p][s] = r]
    /\ live' = [live EXCEPT ![p][r] = s]
    /\ health' = [health EXCEPT ![p] = h]
    /\ due' = [due EXCEPT ![p] = FALSE]
    /\ UNCHANGED <<outcomes, window, seen>>

\* admit() refused: by a local check or, at the last gate, by the budget.  The
\* recompute has been done all the same.
Refuse(p, s) ==
    LET h == Recomputed(p) IN
    /\ Position(p) # Unknown
    /\ Free(p, s, h) =>
          Base(Position(p)) + Outstanding(open \ Expired) + PerRun > Ceiling
    /\ health' = [health EXCEPT ![p] = h]
    /\ due' = [due EXCEPT ![p] = FALSE]
    /\ UNCHANGED vars /\ UNCHANGED <<lanes, live, outcomes, window, seen>>

\* admit() whose reservation cannot be saved: reserve raises past the door.
AdmitFails(p, s) ==
    LET h == Recomputed(p) IN
    /\ Position(p) # Unknown
    /\ Free(p, s, h)
    /\ health' = [health EXCEPT ![p] = h]
    /\ due' = [due EXCEPT ![p] = FALSE]
    /\ UNCHANGED vars /\ UNCHANGED <<lanes, live, outcomes, window, seen>>

\* slip: the lane and the slot stay taken until the reservation is settled.
LeaveLast(p, r, ok) ==
    /\ r \in Live(p)
    /\ outcomes' = [outcomes EXCEPT ![p] = Record(@, ok)]
    /\ IF phase'[r] = "dead" THEN UNCHANGED <<lanes, live>>
       ELSE /\ lanes' = [lanes EXCEPT ![p][live[p][r]] = NoRun]
            /\ live' = [live EXCEPT ![p][r] = NoSubject]
    /\ UNCHANGED <<health, due, window, seen>>

\* What release() does before it settles: the run leaves its slot and its lane,
\* its outcome is recorded, and a successful probe reopens the door.
Leave(p, r, ok) ==
    LET reopens == health[p].state = "probing" /\ ok IN
    /\ r \in Live(p)
    /\ lanes' = [lanes EXCEPT ![p][live[p][r]] = NoRun]
    /\ live' = [live EXCEPT ![p][r] = NoSubject]
    /\ outcomes' = [outcomes EXCEPT ![p] = Record(@, ok)]
    /\ health' = [health EXCEPT ![p].state = IF reopens THEN "degraded" ELSE @]
    /\ UNCHANGED <<due, window, seen>>

\* release(), settled.  The outcome is the turn's: a run that completed may
\* have been cancelled from outside all the same.
Release(p, r, ok) == Finish(r) /\ Leave(p, r, ok)

\* release() whose settle cannot lock or save the file: it raises, and the
\* reservation stays behind without a run.
ReleaseFails(p, r, ok) == Crash({r}) /\ Leave(p, r, ok)

-----------------------------------------------------------------------------
(* What the process knows of the window (Runner.rate_limit_position).      *)

\* A probe, sent only while nothing is known; Unknown stays unknown, and
\* nothing is admitted, for as long as it fails.
Probe(p) ==
    /\ Mode = "subscription" /\ seen[p] = Unknown
    /\ seen' = [seen EXCEPT ![p] = window]
    /\ UNCHANGED vars /\ UNCHANGED doorVars /\ UNCHANGED window

\* _observe: a turn that ended brought the position with it.
Observe(p) ==
    /\ Mode = "subscription" /\ Live(p) # {} /\ seen[p] # window
    /\ seen' = [seen EXCEPT ![p] = window]
    /\ UNCHANGED vars /\ UNCHANGED doorVars /\ UNCHANGED window

\* Other use of the account raises the window, and in time it resets.
WindowMoves ==
    /\ Mode = "subscription"
    /\ window' \in Observed \ {window}
    /\ UNCHANGED vars /\ UNCHANGED doorVars /\ UNCHANGED seen

-----------------------------------------------------------------------------
(* Time, crashes and the other processes.                                  *)

RecomputeDue(p) ==
    /\ ~due[p]
    /\ due' = [due EXCEPT ![p] = TRUE]
    /\ UNCHANGED vars /\ UNCHANGED <<lanes, live, health, outcomes, window, seen>>

\* _trim: the oldest sample is older than window_seconds.
Forget(p) ==
    /\ outcomes[p] # <<>>
    /\ outcomes' = [outcomes EXCEPT ![p] = Tail(@)]
    /\ UNCHANGED vars /\ UNCHANGED <<lanes, live, health, due, window, seen>>

FreshHealth == [size |-> MaxWorkers, state |-> "healthy"]

\* The process dies with its runs and its Admission; the next one starts afresh.
Die(p) ==
    /\ Crash(Live(p))
    /\ lanes' = [lanes EXCEPT ![p] = [s \in Subjects |-> NoRun]]
    /\ live' = [live EXCEPT ![p] = [r \in Runs |-> NoSubject]]
    /\ health' = [health EXCEPT ![p] = FreshHealth]
    /\ outcomes' = [outcomes EXCEPT ![p] = <<>>]
    /\ due' = [due EXCEPT ![p] = FALSE]
    /\ seen' = [seen EXCEPT ![p] = Unknown]
    /\ UNCHANGED window

\* Steps on the ledger alone: report() by a live run, which is all the pool does
\* with it; cancel and reap by other processes, the janitor, time and midnight.
LedgerOnly ==
    /\ \/ \E p \in Procs : \E r \in Live(p) : Meter(r)
       \/ \E r \in Runs : Cancel(r) \/ Reap(r) \/ Recycle(r)
       \/ ExpireStale \/ Tick \/ NewDay
    /\ UNCHANGED doorVars /\ UNCHANGED <<window, seen>>

-----------------------------------------------------------------------------

PoolInit ==
    /\ Init
    /\ lanes = [p \in Procs |-> [s \in Subjects |-> NoRun]]
    /\ live = [p \in Procs |-> [r \in Runs |-> NoSubject]]
    /\ health = [p \in Procs |-> FreshHealth]
    /\ outcomes = [p \in Procs |-> <<>>]
    /\ due = [p \in Procs |-> FALSE]
    /\ window \in Observed
    /\ seen = [p \in Procs |-> Unknown]

PoolNext ==
    \/ \E p \in Procs, r \in Runs, s \in Subjects : Admit(p, r, s)
    \/ \E p \in Procs, s \in Subjects : Refuse(p, s) \/ AdmitFails(p, s)
    \/ \E p \in Procs, r \in Runs, ok \in BOOLEAN :
          Release(p, r, ok) \/ ReleaseFails(p, r, ok)
    \/ \E p \in Procs : Probe(p) \/ Observe(p) \/ RecomputeDue(p) \/ Forget(p) \/ Die(p)
    \/ WindowMoves \/ LedgerOnly

PoolSpec == PoolInit /\ [][PoolNext]_poolVars

\* Work keeps arriving at every process, runs end, timers fire, and run ids are
\* to be had.  Nothing obliges a run to succeed, or the file to be written.
PoolFairness ==
    /\ \A p \in Procs :
          /\ WF_poolVars(\E r \in Runs, s \in Subjects : Admit(p, r, s))
          /\ WF_poolVars(\E s \in Subjects : Refuse(p, s))
          /\ WF_poolVars(\E ok \in BOOLEAN, r \in Runs :
                           Release(p, r, ok) \/ ReleaseFails(p, r, ok))
          /\ WF_poolVars(Probe(p)) /\ WF_poolVars(RecomputeDue(p)) /\ WF_poolVars(Forget(p))
    /\ WF_poolVars(Tick /\ LedgerOnly) /\ WF_poolVars(ExpireStale /\ LedgerOnly)
    /\ \A r \in Runs : WF_poolVars(Recycle(r) /\ LedgerOnly)

PoolFairSpec == PoolSpec /\ PoolFairness

-----------------------------------------------------------------------------
(* Properties.                                                             *)

\* Every variable of the door keeps to the values pool.py can give it.
DoorTypeOK ==
    /\ lanes \in [Procs -> [Subjects -> Runs \cup {NoRun}]]
    /\ live \in [Procs -> [Runs -> Subjects \cup {NoSubject}]]
    /\ health \in [Procs -> Healths]
    /\ outcomes \in [Procs -> Seq(BOOLEAN)]
    /\ \A p \in Procs : Len(outcomes[p]) <= RecentSamples
    /\ due \in [Procs -> BOOLEAN]
    /\ window \in Observed /\ seen \in [Procs -> Observed \cup {Unknown}]

\* "Never two runs on the same thing at once", inside one process: a lane and a
\* live run always name each other, and every live run is one that was started
\* and has neither been settled nor lost its process.
LanesMatchLive ==
    \A p \in Procs, r \in Runs :
        /\ \A s \in Subjects : lanes[p][s] = r <=> live[p][r] = s
        /\ r \in Live(p) => phase[r] \in {"running", "killed"}
        /\ \A q \in Procs \ {p} : ~(r \in Live(p) /\ r \in Live(q))

\* "It never stops dead": a process with nothing in flight refuses no subject
\* for a lane, a slot or a probe.  Only the budget can hold an idle pool back.
NeverStopsDead ==
    \A p \in Procs : Live(p) = {} => \A s \in Subjects : Free(p, s, Recomputed(p))

\* Every reservation in the file belongs to a run some process still answers
\* for, or to one that ended without settling, by the death of its process or
\* because its settle failed: a release that went through leaves none behind,
\* and neither does an admission that failed.
ReservationsHaveOwners ==
    \A r \in open : phase[r] = "dead" \/ \E p \in Procs : r \in Live(p)

\* The door and the ledger agree, whatever expires, is cancelled, reaped or dies
\* under a live lane and whichever write fails, and what they agree on never
\* shuts an idle pool.
DoorAgrees == DoorTypeOK /\ LanesMatchLive /\ ReservationsHaveOwners /\ NeverStopsDead

\* A run admitted by a pool that is probing, or that starts to probe in that
\* very call, runs alone.
ProbesAlone ==
    [][\A p \in Procs :
          (health'[p].state = "probing" /\ Live(p)' \ Live(p) # {})
              => Cardinality(Live(p)') = 1]_poolVars

\* The door keeps the ledger's promises: every step is a step of Budget.
BudgetImplemented == Spec

\* "It climbs back without anyone being paged": once nothing the pool remembers
\* is a failure, it keeps remembering enough runs to judge by, and the window
\* has room for every run, it returns to full size and health.
RoomFor(position) ==
    position # Unknown => position + PerRun * Cardinality(Runs) <= Ceiling
Calm == \A p \in Procs : Failures(outcomes[p]) = 0 /\ RoomFor(Position(p))
Busy == \A p \in Procs : Len(outcomes[p]) >= MinSamples
Recovered == \A p \in Procs : health[p] = FreshHealth
BusyPoolClimbsBack == <>[](Calm /\ Busy) => <>[]Recovered

\* A budget refusal lasts "until the window resets" (runner.py, the reaction of
\* the budget incident): once the window has room for good, no process goes on
\* believing that it has none.
WindowReopens ==
    (<>[]RoomFor(window)) => \A p \in Procs : []<>RoomFor(Position(p))
=============================================================================
