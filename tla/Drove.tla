-------------------------------- MODULE Drove --------------------------------
(***************************************************************************)
(* bothy/drove.py, DroveRuns and DroveCli, with the drove thread of        *)
(* bothy/daemon.py: wakes that ask for a Drove run, and the watch kept on  *)
(* every run that was started until it is down or its deadline passes.     *)
(*                                                                         *)
(* A start reads what is watched, asks Drove, and only then records the    *)
(* run; `bothy drove start` does the same from a process of its own.  The  *)
(* file of runs is loaded and replaced under a lock of one process, so     *)
(* these are two steps.  The audit, the wake's mark and every save may be  *)
(* refused by the disk, and the process may die between any two steps.     *)
(*                                                                         *)
(* External: Drove itself, which makes a run or refuses, and whose roster  *)
(* may be unreadable; the drain, which abandons wakes that waited too long *)
(* (Drain).  Left out: the wording of reports, the count of unreadable     *)
(* rosters, the pruning of records that are no longer watched, the command *)
(* that stops a run (RunEnds), and the intervals: what is due for a look   *)
(* is left open.                                                           *)
(***************************************************************************)
EXTENDS Integers, FiniteSets

CONSTANTS
    Wakes,          \* the wakes that ask for a run
    Target,         \* Target[w], and Target["hand"]: what the run is for
    Runs,           \* the ids Drove can give its runs
    MaxRuns,        \* drove_max_runs
    Nothing,        \* no wake, no run, no file
    MaxEvents       \* bound: starts by hand, crashes and failed writes

\* drove-runs.json: how the record of each run stands.
Files == [Runs -> {"absent", "watching", "down", "vanished", "deadline"}]

ASSUME DroveAssumption ==
    /\ "hand" \notin Wakes /\ Wakes \cup {"hand"} \subseteq DOMAIN Target
    /\ IsFiniteSet(Runs)
    /\ Nothing \notin Wakes /\ Nothing # "hand" /\ Nothing \notin Runs /\ Nothing \notin Files
    /\ MaxRuns \in Nat \ {0} /\ MaxEvents \in Nat

VARIABLES
    world,      \* Drove's runs: "none", "up" or "down"
    purpose,    \* what Drove's run was made for: a wake, or "hand"
    records,    \* drove-runs.json
    expired,    \* runs whose deadline has passed
    wake,       \* how each wake stands
    deferred,   \* wakes put off until next_attempt_at
    starting,   \* the start() in progress in the daemon, and the one by hand
    pc,         \* the drove thread: "idle", "wakes", "mark", "tick", "look",
                \* "update", "finish", "told", "handler", "dead", "down"
    todo,       \* the wakes, or the runs, this pass has yet to look at
    look,       \* the run being looked at, what was read, and the file loaded
    events,     \* how often the outside has interfered
    \* history, read by no action's guard
    lost,       \* runs that Drove made and no record was kept of
    crossed     \* a start overlapped another, or a write undid one

Unseen == [run |-> Nothing, status |-> Nothing, late |-> FALSE, file |-> Nothing]
NoStart == [stage |-> "none", for |-> Nothing, code |-> Nothing, run |-> Nothing, file |-> Nothing]

external == <<world, purpose, expired>>
vars == <<external, records, wake, deferred, starting, pc, todo, look, events, lost, crossed>>

Watching(file) == {r \in Runs : file[r] = "watching"}
Transient == {"capacity", "herdr-down"}

\* Runs whose record the writing of `file` removes or brings back.
Undone(file) == {r \in Runs : file[r] # records[r]}

-----------------------------------------------------------------------------
(* DroveRuns.start, for a wake or by hand.  A definition marked "slip" is  *)
(* used by no specification: it is a mistake the properties would notice.  *)

\* The result of a start that is not to be: audited, then returned.
Refused(p, code) ==
    starting' = [starting EXCEPT ![p].stage = "audit", ![p].code = code]

\* slip: what is watched already is not looked at.
LiveNone == {}

Live == Watching(records)

\* What is watched is read; with nothing against it, Drove is asked.
Check(p, for) ==
    /\ starting[p] = NoStart
    /\ starting' = [starting EXCEPT ![p] =
          IF \E r \in Live : Target[purpose[r]] = Target[for]
          THEN [NoStart EXCEPT !.stage = "audit", !.for = for, !.code = "already_running"]
          ELSE IF Cardinality(Live) >= MaxRuns
          THEN [NoStart EXCEPT !.stage = "audit", !.for = for, !.code = "capacity"]
          ELSE [NoStart EXCEPT !.stage = "asked", !.for = for]]
    /\ crossed' = (crossed \/ \E q \in DOMAIN starting : q # p /\ starting[q] # NoStart)

\* Drove makes a run.
Fresh == CHOOSE r \in Runs : world[r] = "none"
MakeRun(p) ==
    /\ \E r \in Runs : world[r] = "none"
    /\ world' = [world EXCEPT ![Fresh] = "up"]
    /\ purpose' = [purpose EXCEPT ![Fresh] = starting[p].for]
    /\ UNCHANGED expired

\* Drove answers with the run it made ...
AnswerRun(p) ==
    /\ starting[p].stage = "asked"
    /\ MakeRun(p)
    /\ starting' = [starting EXCEPT ![p].stage = "answered", ![p].code = "started", ![p].run = Fresh]
    /\ UNCHANGED lost

\* ... or with a code, or not within the time it has, when it may have made one.
AnswerNot(p) ==
    /\ starting[p].stage = "asked"
    /\ \/ \E code \in {"herdr-down", "failed"} : Refused(p, code)
          /\ UNCHANGED external /\ UNCHANGED lost
       \/ /\ Refused(p, "failed")
          /\ MakeRun(p) /\ lost' = lost \cup {Fresh}

LoadRuns(p) ==
    /\ starting[p].stage = "answered"
    /\ starting' = [starting EXCEPT ![p].stage = "loaded", ![p].file = records]

\* slip: the run is not on record until its wake is marked.
SaveRunLater(p) ==
    /\ starting[p].stage = "loaded"
    /\ starting' = [starting EXCEPT ![p].stage = "audit", ![p].file = Nothing]
    /\ UNCHANGED <<records, lost, crossed>>

SaveRun(p) ==
    LET start == starting[p] IN
    /\ start.stage = "loaded"
    /\ records' = [start.file EXCEPT ![start.run] = "watching"]
    /\ lost' = lost \cup {r \in Undone(start.file) : records'[r] = "absent"}
    /\ crossed' = (crossed \/ Undone(start.file) # {})
    /\ starting' = [starting EXCEPT ![p].stage = "audit", ![p].file = Nothing]

\* The run of a start that ended before its record was saved.
Dropped(p) == IF starting[p].stage \in {"answered", "loaded"} THEN {starting[p].run} ELSE {}

-----------------------------------------------------------------------------
(* Wakes (drove_wakes).                                                    *)

rest == <<wake, deferred, events>>

\* The wakes whose time has come.
BeginPass ==
    /\ pc = "idle"
    /\ pc' = "wakes"
    /\ \E ready \in SUBSET deferred : deferred' = deferred \ ready
    /\ todo' = {w \in Wakes \ deferred' : wake[w] = "pending"}
    /\ UNCHANGED external /\ UNCHANGED <<records, wake, starting, look, events, lost, crossed>>

StartForWake(w) ==
    /\ pc = "wakes" /\ w \in todo /\ wake[w] # "abandoned"
    /\ Check("daemon", w)
    /\ todo' = todo \ {w} /\ pc' = "mark"
    /\ UNCHANGED external /\ UNCHANGED rest /\ UNCHANGED <<records, look, lost>>

Ask ==
    /\ AnswerRun("daemon") \/ AnswerNot("daemon")
    /\ UNCHANGED rest /\ UNCHANGED <<records, pc, todo, look, crossed>>

Load ==
    /\ LoadRuns("daemon")
    /\ UNCHANGED external /\ UNCHANGED rest /\ UNCHANGED <<records, pc, todo, look, lost, crossed>>

Save ==
    /\ SaveRun("daemon")
    /\ UNCHANGED external /\ UNCHANGED rest /\ UNCHANGED <<pc, todo, look>>

\* The start is audited; the wake is deferred, or settled with the outcome.
Mark ==
    LET start == starting["daemon"] IN
    /\ pc = "mark" /\ start.stage = "audit"
    /\ wake' = IF start.code \in Transient THEN wake
               ELSE [wake EXCEPT ![start.for] = IF start.code = "started" THEN "started" ELSE "refused"]
    /\ deferred' = IF start.code \in Transient THEN deferred \cup {start.for} ELSE deferred
    /\ starting' = [starting EXCEPT !["daemon"] = NoStart]
    /\ pc' = "wakes"
    /\ UNCHANGED external /\ UNCHANGED <<records, todo, look, events, lost, crossed>>

-----------------------------------------------------------------------------
(* The watch (tick, _observe, _finish).                                    *)

ThreadOnly == UNCHANGED external /\ UNCHANGED rest /\ UNCHANGED starting

\* Runs not looked at for a while, and those whose deadline has passed.
BeginTick ==
    /\ pc = "wakes" /\ \A w \in todo : wake[w] = "abandoned"
    /\ pc' = "tick"
    /\ \E due \in SUBSET Watching(records) :
          todo' = due \cup (expired \cap Watching(records))
    /\ ThreadOnly /\ UNCHANGED <<records, look, lost, crossed>>

EndTick ==
    /\ pc = "tick" /\ todo = {}
    /\ pc' = "idle"
    /\ ThreadOnly /\ UNCHANGED <<records, todo, look, lost, crossed>>

\* What the roster may say of a run: one that is down may be forgotten by now.
Roster(r) == {"unknown"} \cup (IF world[r] = "up" THEN {"up"} ELSE {"down", "no-run"})

\* slip: a roster that cannot be read is not held against the deadline.
ReadRosterPatiently ==
    /\ pc = "tick"
    /\ \E r \in todo, said \in {"unknown", "up", "down", "no-run"} :
          /\ said \in Roster(r)
          /\ todo' = todo \ {r}
          /\ look' = [Unseen EXCEPT !.run = r, !.status = said,
                                    !.late = r \in expired /\ said # "unknown"]
          /\ pc' = IF said \in {"down", "no-run"} THEN "finish" ELSE "update"
    /\ ThreadOnly /\ UNCHANGED <<records, lost, crossed>>

\* The deadline is looked at before the roster is asked for.
ReadRoster ==
    /\ pc = "tick"
    /\ \E r \in todo, said \in {"unknown", "up", "down", "no-run"} :
          /\ said \in Roster(r)
          /\ todo' = todo \ {r}
          /\ look' = [Unseen EXCEPT !.run = r, !.status = said, !.late = r \in expired]
          /\ pc' = IF said \in {"down", "no-run"} THEN "finish" ELSE "update"
    /\ ThreadOnly /\ UNCHANGED <<records, lost, crossed>>

LoadWatch ==
    /\ pc \in {"update", "finish"} /\ look.file = Nothing
    /\ look' = [look EXCEPT !.file = records]
    /\ ThreadOnly /\ UNCHANGED <<records, pc, todo, lost, crossed>>

SaveWatch(file) ==
    /\ look.file # Nothing
    /\ records' = file
    /\ lost' = lost \cup {r \in Undone(look.file) : records'[r] = "absent"}
    /\ crossed' = (crossed \/ Undone(look.file) # {})
    /\ look' = [look EXCEPT !.file = Nothing]

\* Up, or unknown: neither finished nor dead, unless the deadline has passed.
Update ==
    /\ pc = "update"
    /\ SaveWatch(look.file)
    /\ pc' = IF look.late THEN "finish" ELSE "tick"
    /\ ThreadOnly /\ UNCHANGED todo

How == IF look.status = "down" THEN "down" ELSE IF look.status = "no-run" THEN "vanished" ELSE "deadline"

\* The record is closed, if it is still there, before anything is said.
Finish ==
    /\ pc = "finish"
    /\ SaveWatch([look.file EXCEPT ![look.run] = IF @ = "absent" THEN @ ELSE How])
    /\ pc' = "told"
    /\ ThreadOnly /\ UNCHANGED todo

Tell ==
    /\ pc = "told"
    /\ pc' = "tick" /\ look' = Unseen
    /\ ThreadOnly /\ UNCHANGED <<records, todo, lost, crossed>>

-----------------------------------------------------------------------------
(* What ends a pass.                                                       *)

Writing == \/ starting["daemon"].stage \in {"loaded", "audit"}
           \/ look.file # Nothing \/ pc = "told"

\* The pass is over.  A wake in hand stays pending; a run without a record is lost.
Abort(where) ==
    /\ pc' = where /\ todo' = {} /\ look' = Unseen
    /\ starting' = [starting EXCEPT !["daemon"] = NoStart]
    /\ UNCHANGED <<expired, records, wake, deferred, crossed>>

Happens == events < MaxEvents /\ events' = events + 1

WriteFails ==
    /\ Writing /\ Happens
    /\ Abort("handler")
    /\ lost' = lost \cup Dropped("daemon")
    /\ UNCHANGED <<world, purpose>>

\* The handler audits, tells, and the loop goes on; or its audit is refused in its
\* turn, and the thread is over.
Handle ==
    /\ pc = "handler"
    /\ pc' \in {"idle", "dead"}
    /\ ThreadOnly /\ UNCHANGED <<records, todo, look, lost, crossed>>

\* Drove, asked by a process that dies, may make the run all the same.
Crash ==
    /\ pc # "down" /\ Happens
    /\ Abort("down")
    /\ \/ lost' = lost \cup Dropped("daemon") /\ UNCHANGED <<world, purpose>>
       \/ /\ starting["daemon"].stage = "asked" /\ MakeRun("daemon")
          /\ lost' = lost \cup {Fresh}

Restart ==
    /\ pc = "down"
    /\ pc' = "idle"
    /\ ThreadOnly /\ UNCHANGED <<records, todo, look, lost, crossed>>

-----------------------------------------------------------------------------
(* bothy drove start, the drain, Drove and the clock.                      *)

threadVars == <<pc, todo, look>>

HandStart ==
    /\ Happens
    /\ Check("hand", "hand")
    /\ UNCHANGED external /\ UNCHANGED threadVars /\ UNCHANGED <<records, wake, deferred, lost>>

HandWorks ==
    /\ \/ (AnswerRun("hand") \/ AnswerNot("hand")) /\ UNCHANGED <<records, crossed>>
       \/ LoadRuns("hand") /\ UNCHANGED external /\ UNCHANGED <<records, lost, crossed>>
       \/ SaveRun("hand") /\ UNCHANGED external
    /\ UNCHANGED threadVars /\ UNCHANGED rest

\* It is audited, or fails to be; a save that fails ends the command.
HandEnds ==
    /\ \/ starting["hand"].stage = "audit" /\ UNCHANGED events
       \/ starting["hand"].stage = "loaded" /\ Happens
    /\ starting' = [starting EXCEPT !["hand"] = NoStart]
    /\ lost' = lost \cup Dropped("hand")
    /\ UNCHANGED external /\ UNCHANGED threadVars /\ UNCHANGED <<wake, deferred, records, crossed>>

Arrive(w) ==
    /\ wake[w] = "absent"
    /\ wake' = [wake EXCEPT ![w] = "pending"]
    /\ UNCHANGED external /\ UNCHANGED threadVars
    /\ UNCHANGED <<records, deferred, starting, events, lost, crossed>>

\* A wake grows too old, and the drain abandons it.
Abandon(w) ==
    /\ wake[w] = "pending"
    /\ wake' = [wake EXCEPT ![w] = "abandoned"]
    /\ UNCHANGED external /\ UNCHANGED threadVars
    /\ UNCHANGED <<records, deferred, starting, events, lost, crossed>>

RunEnds(r) ==
    /\ world[r] = "up"
    /\ world' = [world EXCEPT ![r] = "down"]
    /\ UNCHANGED <<purpose, expired>> /\ UNCHANGED threadVars /\ UNCHANGED rest
    /\ UNCHANGED <<records, starting, lost, crossed>>

DeadlinePasses(r) ==
    /\ records[r] = "watching" /\ r \notin expired
    /\ expired' = expired \cup {r}
    /\ UNCHANGED <<world, purpose>> /\ UNCHANGED threadVars /\ UNCHANGED rest
    /\ UNCHANGED <<records, starting, lost, crossed>>

-----------------------------------------------------------------------------
Init ==
    /\ world = [r \in Runs |-> "none"] /\ purpose = [r \in Runs |-> Nothing]
    /\ records = [r \in Runs |-> "absent"] /\ expired = {}
    /\ wake = [w \in Wakes |-> "absent"] /\ deferred = {}
    /\ starting = [p \in {"daemon", "hand"} |-> NoStart]
    /\ pc = "idle" /\ todo = {} /\ look = Unseen
    /\ events = 0 /\ lost = {} /\ crossed = FALSE

Thread ==
    \/ BeginPass \/ Ask \/ Load \/ Save \/ Mark
    \/ BeginTick \/ EndTick \/ ReadRoster \/ LoadWatch \/ Update \/ Finish \/ Tell
    \/ WriteFails \/ Handle \/ Restart
    \/ \E w \in Wakes : StartForWake(w)

Next ==
    \/ Thread \/ Crash \/ HandStart \/ HandWorks \/ HandEnds
    \/ \E w \in Wakes : Arrive(w) \/ Abandon(w)
    \/ \E r \in Runs : RunEnds(r) \/ DeadlinePasses(r)

\* The thread runs while it lives (every command it waits for has a deadline), the
\* process is restarted, and time passes.
Fairness == WF_vars(Thread) /\ \A r \in Runs : WF_vars(DeadlinePasses(r))

Spec == Init /\ [][Next]_vars /\ Fairness

-----------------------------------------------------------------------------
(* What Bothy promises about Drove.                                        *)

\* "Two live runs for one target is a mistake": no target is watched twice, and no
\* more runs are watched than drove_max_runs, unless a start by hand overlapped one
\* of the daemon's or a write undid another (start, _update).
WatchedOnce ==
    \/ crossed
    \/ /\ Cardinality(Watching(records)) <= MaxRuns
       /\ \A r, s \in Watching(records) : Target[purpose[r]] = Target[purpose[s]] => r = s

\* A wake makes one run, through crashes, failed writes and retries: the second is
\* refused because the first is watched, which is looked at before the watch is
\* (drove_once).  A second run is made only if the first was made and never recorded,
\* by a start that was cut short, or was recorded and undone by another process.
OneRunPerWake ==
    \A w \in Wakes : ~crossed => Cardinality({r \in Runs \ lost : purpose[r] = w}) <= 1

\* "Until the run is down or a deadline passes": no watch goes on for ever, whether or
\* not the roster can be read, as long as the thread lives (tick, _observe).
WatchEnds == \A r \in Runs : records[r] = "watching" ~> (records[r] # "watching" \/ pc = "dead")
=============================================================================
