# Bothy in TLA+

Bothy is an unattended harness around Codex: wakes arrive, become supervised
runs, and leave a record. This directory models the parts of it where several
actors share state: TLA+ modules translated from `src/bothy`, TLC configurations
that check them on small instances, and proofs that hold for every instance.

    tlc -workers 2 -config MCBudget.cfg MCBudget      # check
    tlapm PoolProofs.tla                              # prove, as the other *Proofs

`PROJECT.json` lists the components, the runs, what each definition translates,
the hazards and the mutants. Paths below are relative to `src/bothy` unless they
start with `docs`.

## 1. The system

### Components

| Component | State | Operations | Hard because | Right when |
|---|---|---|---|---|
| **Budget ledger** `budget.py` | `budget.json`: the day, accrued spend, open reservations | reserve, report, settle, settle_run, expire_stale | runners, `cancel`, `reap` and the janitor use it from several processes; runners die; days change | the ceiling holds, each run is charged once and for what it cost, every reservation comes back |
| **Admission pool** `pool.py` | in memory: lanes, live runs, size, health, outcomes | admit, release, report | it decides on health that its own decision changes; the ledger below has other users | one run per subject, a probe runs alone, it never shuts itself for good |
| **Runner** `runner.py` | the last window position; one run's progress | run: position, admit, meter, wall clock, settle, release | many ways out | every way out settles and releases |
| **Wake store, listener** `wake.py`, `vendor/a2a_reactor/queue.py` | `wakes.jsonl`, `seen.json` | seen_before, append, mark, pending; do_POST | request threads, two marking loops and the sweep on one file, partly without a lock | an acknowledged wake stays until settled; one delivery, one wake |
| **Retention** `retention.py` | none of its own | sweep | it rewrites others' files | it drops only what is finished |
| **Drain loop, goals** `daemon.py`, `goal.py` | fields of a wake; the pass's copy | drain, _defer, _abandon | crash or failed write between any two marks | bounded attempts, every wake settled, no rerun without a fault |
| **Codex protocol, holds** `codex.py`, `interrupts.py` | open questions, control files | _hold, answer, activate_interrupt, _tick_interrupts | answers race expiry, the announcement and the stop | one answer per question, the first |
| **Registry, lifecycle** `proc.py`, `lifecycle.py`, `daemon.start` | `workers.json`, the lock, the ledger of the last run | register, unregister, reap; acquire, mark_running, detect_unclean, close_run | restarts beside live workers, kills that fail, a registry two processes save | never two daemons, no worker forgotten, a death told from a stop |
| **Schedule** `schedule.py`, `cronspec.py` | `jobs.json` | put, remove; due, fire, mark_fired | a crash between firing and recording it, a second writer, an hour that comes twice | a firing is due, spaced from the last, and not lost |
| **Pollers** `poll.py` | `poll.json`: ids seen, a validator | poll, remember | remembered before appended, capped lists, a poll by hand on the same file | an item becomes one wake |
| **Drove** `drove.py` | `drove-runs.json` | start, tick | check, slow call, then record | no target twice, one run for a wake, every watch ends |
| **Attention, chat** `drove.py`, `discord.py`, `slack.py`, the bridges of `daemon.py` | the items told, the claims; a session in memory | poll, answer; run_forever, handle, _store | sessions that drop, messages sent again, notices posted before they are recorded | a message wakes once, an item is told once, an answer is no wake |
| **Audit** `audit.py` | a hash chain in segments | append, rotate, verify | several processes with cached tips, crashes inside a write | the chain joins, an edit shows |
| Alerts, limiter, policy `alert.py`, `ratelimit.py`, `policy.py` | dedupe state, buckets | incident, check, evaluate | repetition | not modelled but for their answers |
| The rest | | | text, protocols of third parties, I/O | not modelled, see section 8 |

### How they interact

A request thread of the listener records the delivery key, appends the wake,
answers, and sets an event. The drain loop reads the pending wakes and calls the
runner for one after the other, in its own thread and under a lease, so inside
the daemon runs follow each other; a `bothy run` in a shell is another process
with its own pool on the same ledger. The runner asks the pool for a lane and a
slot; the pool reserves from the ledger under its own lock; usage notifications
are pushed into the ledger while the turn runs; the runner's `finally` releases,
which settles. `bothy cancel` and `bothy reap` settle from outside. The janitor
expires reservations and sweeps the queue, each a read and a replace of the
whole file. The drove loop marks wakes as the drain does, in a thread of its own.

Inside a run, the reader thread receives what the worker asks. A question or an
approval that may be held goes into `interrupts`; the supervisor, which ticks ten
times a second, starts an announcer for it, reads the answer files that `bothy
answer` leaves in `state/control`, and tells the worker. A reply in chat comes in
a thread of the bridge through the interrupt board.

Wakes come from five places: the listener, the schedule thread, the poll thread,
and the two chat bridges; all of them append to the one queue. Each thread writes
to the same audit log, as do the commands in a shell. A daemon that starts takes
the instance lock, reads the ledger of the last run and the registry of workers,
reports an unclean death, reaps what was left if told to, and only then builds its
threads. The janitor beats, sweeps and rotates beside all of them. The Drove
thread starts the runs wakes ask for, watches them, and hands what needs a person
to the forwarder, which posts it in chat and takes the replies.

## 2. Modules

| Module | Models | Composes |
|---|---|---|
| `Budget` | the ledger and the processes around it | |
| `Pool` | one admission door per process, the window position | EXTENDS `Budget`, on its variables |
| `WakeStore` | the queue file, delivery keys, marks and sweeps | |
| `Loop` | what the daemon's loops share: the handler of a lost pass | |
| `Drain` | the drain thread with goals | EXTENDS `Loop` |
| `Hold` | the questions and approvals of one run | |
| `Audit` | the hash-chained log, its writers, rotation and verify | `Trail == INSTANCE AuditTrail WITH trail <- Stored, ...` |
| `AuditTrail` | what the log promises a reader | |
| `Lifecycle` | lock, ledger, registry, start, stop, reap, the sweep of homes | |
| `Schedule` | jobs, cron, the schedule thread, `bothy schedule` | EXTENDS `Loop` |
| `Lists` | parts of a list by the ranks of their places: what is in a set, what is repeated | |
| `Poll` | the poll thread, `bothy poll`, the remembered ids | EXTENDS `Loop`, `Lists` |
| `Drove` | runs asked for by wakes and by hand, and their watches | |
| `Chat` | both listeners, both bridges, the attention forwarder | |
| `PoolProofs` | the theorems of `Budget` and `Pool` | EXTENDS `Pool` |
| `LoopProofs` | the theorems of `Poll`, `Schedule` and `Drain` | EXTENDS the three |
| `WakeStoreProofs`, `HoldProofs`, `LifecycleProofs`, `DroveProofs`, `ChatProofs`, `AuditProofs` | the theorems of each | EXTENDS the module of its name |
| `MC*` | values of the constants for TLC | |

Definitions marked *slip* are mistakes someone could make in the definition that
follows them. No specification uses them; they show which property would notice.

A module that another one stands on, or that is extended beside others, carries its
name in what the others have too: `Init`, `Next` and `Spec` are Budget's in `Pool`,
which has `PoolInit`, `PoolNext` and `PoolSpec`; beside `Poll`, `Schedule` has
`ScheduleSpec` and `ScheduleCrash`, `Drain` has `DrainSpec` and `DrainCrash`.

### Budget

Each `BudgetLedger` method runs under a thread lock and an `flock` and ends in one
atomic replace, so it is one action: `Reserve`, `Report`, `Settle`, `SettleRun`,
`ExpireStale`. `Transact` is what the settling ones share (roll the day, pop,
accrue, save). The details that matter are kept: a refusal raises before the save
and changes nothing; `report` does not roll the day; `settle` saves even when the
reservation is gone, while `settle_run` and `expire_stale` do not; `reserve` drops the
expired first, so a reservation may expire inside another run's reserve; only
api mode accrues. Money is whole units, every reservation is of `PerRun` (the
runner never asks for another amount), time is the age of a reservation in ticks,
and `rolled` says whether the day in the file is today. `bill` and `todays` are
history: what a run was charged, and who was charged today.

The actors are `Start`, `Meter`, `Finish` (runner), `Cancel`, `Reap` (shell commands),
`ExpireStale` (janitor), `Crash` of any set of runs, `Tick`, `NewDay`. `RunLimit` is how
long a supervised run can last, startup, wall clock and question hold together.
`config.validate_hold` keeps it below the TTL only when a hold is configured, so
`RunLimit` is any number and the properties that need `RunLimit <= TTL` say so.

### Pool

An `Admission` works under one RLock, so `Admit`, `Refuse` and `Release` are actions,
with the ledger's `Start` or `Finish` inside them. The recompute that opens
`admit` is part of it, refused or not. The ledger may raise: `AdmitFails` is a
reservation that cannot be saved, and `ReleaseFails` a settle that cannot, after the
lane and the slot were freed, which leaves the reservation without a run in a process
that lives on. `cancel`, `reap` or expiry gives it back. A run's outcome is its turn's:
one that completed counts as a success though it was found cancelled. `window` is what Codex's window holds, `seen`
what this process last read of it: by a `Probe` while it knows nothing, by `Observe`
after turns. A process dies (`Die`) with its door and its live runs.

### WakeStore

The only locks are `WakeStore._lock`, held by `seen_before` and `mark`, and not by
`append`; the sweep holds none. So `append` is open, then write; `mark` and the sweep
are a read, then a replace; each may fail or be cut by a crash. `TurnAway` is every
refusal before the key is recorded, `Receive` the recording itself. A handle opened
before a replace writes to a file nobody reads any more ("stale"). A torn line
swallows the next one. A sweep keeps a set of positions of what it read and writes
the lines there back in their order (`InOrder`). `exposed` collects the wakes whose
line met one of these overlaps, which is what `LossNeedsOverlap` is about.

### Drain

One thread: `DrainBegin`, `Take` for each wake, then the marks and audit records in
the order of the code, each a step that needs the disk (`Writes`). With the disk
out the step raises, the pass is lost, and the handler's own record decides
whether the thread goes on (`Handled` of `Loop`, as in the other loops). `runner.run`
is external here: refused for capacity, refused for good, or admitted and ended.
`DrainCrash` puts a new thread at the start of its loop. `ran` counts the calls that
were not refused for capacity.

### Hold

The reader (`Decline`, `MayHold`, `Enter`: the checks take no lock, the entry does),
the announcer (`Announce`, `Posted`, `WriteMarker`, `Activate`, `ClearMarker`), the
supervisor (`Look` to `Return`: one action per lock or transaction of a tick) and the
people (`MatchChat` then `AnswerChat`, `ReadMarker` then `WriteAnswer`). A tick is a
subroutine: `pc` is where it is, `after` where it returns to. `past` says that the
request's present deadline has passed; the deadline of five seconds before the
announcement and the longer one after it are the same flag, since activation
needs the first not to have passed. `TokenCap` is the only other cause of a stop; a
cancellation, the budget and the wall clock are `Look`'s choice. Texts are told
apart by who says them. A hosted tool that waits for approval is a request like
the others. `first` and `sent` are history.

### Audit and AuditTrail

`append` and `rotate` run under a lock on the file, so each is a step, whose write
may stop anywhere. A file is a set of lines, each with the number of the write that
made it, and is read in the order of these numbers; beside them is the tail without a
newline that a cut write leaves. A tail that a later append joins is rubble: a line
that keeps its number and is not `whole`. A record's hash is its number; `intact` says
that the body still is what was hashed. A writer is an `AuditLog` with its cached tip,
valid while the file's inode and size are what it saw (`known`).

Records are written as UTF-8 with text beyond ASCII as it is, and a file is read as
strict UTF-8. `split` are the writes that were cut inside a character, and the lines
such a remainder was joined to: a file that has one is not `Legible`, and `records`,
`all_records` and `verify` raise for all of it. The last line is looked at as bytes, so
a writer whose last line is whole, or whose cached tip is valid, can go on; any other
append, and a rotation, raises too (`TipFound`). A rotated segment takes its name from
the second of its rotation, and segments are read in the order of their names;
`archived` supposes two rotations in two different seconds and a clock that is not set
back across one.

An edit alters a record or deletes one (`Edit`). `scarred` are the records that must
show it: one that was altered, and one that stood after a deleted one. Deleting the
last records of a file leaves a chain that joins, so no property can ask for more.
An unlink of an old segment that fails is left out: it is tried again.

`Stored` are the records in all segments, a tail left out (the next write makes it
rubble); `Visible` is what `all_records` returns, which is all of them or, while a
segment is not legible, nothing. `Stored` is the trail of `AuditTrail`: a set of records
in the order of their numbers, which grows at its end by a record that commits to its
last, and loses records at its beginning only. A failed write or an edit is a step of
the trail too, after which it owes no commitment; and a failed write may take the trail
out of a reader's reach (`legible`), to which only a rotation brings it back. These are
the weaknesses of the abstract specification.

### Lifecycle

A daemon goes through `Acquire`, `Look`, `Claim`, `Tell`, `Reaped`, `Build`, each an
access to a file or a refusal with its exit code; `up`; then `Stop`, `AuditStopped`,
`CloseRun`, `Leave`. A run is spawned, registered, closed (its group is killed) and
unregistered, by a daemon or by a foreground run. A reap is a read, a kill for each
worker and a save, and `register` may come in between. A group may survive its
kill. `death`, `excuse`, `ever`, `overlap` and the others are history: what really
happened, which no guard reads. The start time and the boot id keep a reused pid
out of a record, so a record names a run and not a pid.

### Schedule

Time is in minutes; `Local` maps a tick to local time and goes back once. `NextAfter`
is `next_after`: the first matching minute of local time, turned into an instant as
`datetime` does it, which takes the first of two. `ComputeNext` gives each kind of
job its next time. A pass is `ScheduleBegin` (due), `Fire` or `Refuse`, `Log`, `MarkRead`,
`MarkSave`; any of the writes may fail and end the pass. `OpRead` and `OpWrite` are
`bothy schedule` in a process of its own, with the file in its hands in between.
`excused` are the jobs whose last firing is not on record.

### Poll

A poll is asked with the entry it read (`Ask`), gets the list or a failure, and
remembers by loading and replacing the file (`Load`, `Save`); only then does the thread
store the wakes one by one (`StoreWake`). `bothy poll` does the same by hand and stores
nothing. `seen` is read before the loop over an answer and not extended in it, so an
item that the answer lists twice makes two wakes (`NewItems`); `remember` keeps its id
once (`Remembered`). An answer that is no JSON is a failure like another, but bytes that
are no text (`Garbled` items) are not the error `poll` catches, and raise out of the
pass like a template that cannot be formatted (`Raises`).

### Drove

`Check` reads what is watched, `Ask` waits for Drove, `Load` and `Save` record the run,
`Mark` settles the wake; a tick looks at each watch, reads the roster, and finishes
it when the run is down or its deadline has passed. A start by hand is the same in
another process. A run's id is any that no run had (`Fresh`). `lost` are the runs Drove
made that nobody recorded; `crossed` says that two processes' reads and writes
overlapped, which no lock prevents.

### Chat

The gateway numbers its frames. `Hello` resumes if it can, `Handled` is `handle` on a
message with the whole of the bridge's `_store` inside it (`Receive`: the answer to a
notice, if it is one; else a wake), and `Advanced` moves the sequence number only if
the message was kept. Slack acknowledges what was kept, and an acknowledgement may be
lost. The forwarder marks what is new and gone (`Mark`), posts (`Deliver`) and records
(`Record`) under its lock; `Answered` claims a reply by its delivery. `base` are the
frames that went to an earlier session. What may happen is a budget for each kind of
event, chosen initially among `Scenes`, so that one run covers seven situations
without their product.

## 3. What is checked

| Run | Instance | Shows |
|---|---|---|
| `budget` | 3 runs, ceiling 2, spend up to twice the promise, TTL and run limit 1 | `CapHolds`, `ChargedOnce`, `BilledForSpend`, `LiveRunsHold`, `AccruedFallsAtMidnightOnly`, `ReservationsReturn` |
| `pool` | 1 process, 2 runs, 2 subjects, 3 samples | `DoorAgrees`, `ProbesAlone`, `BudgetImplemented`, `BusyPoolClimbsBack` |
| `wake_store` | 3 requests (two of one delivery), 2 markers, a cut at 1 line | `DeliveriesOnce`, `LossNeedsOverlap`, `MarksNeverUndone` |
| `drain` | a wake with a goal and one without, on one lane, 2 attempts each, 2 faults | `AttemptsCounted`, `SettledForGood`, `WakesSettle` |
| `hold` | 2 requests, a reply in chat to either, a `bothy answer` to the first, 1 slot for posts | `AnsweredOnce`, `NothingOutlivesItsQuestion`, `EveryRequestAnswered` |
| `audit` | 2 writers, 6 records, 2 faults, 2 edits, rotation at 2 lines, 1 segment kept | `ChainHolds`, `EditsShow`, `TrailImplemented` |
| `lifecycle` | 2 daemons, 2 starts, a foreground run, the operator; a crash, an outage, a group that will not die | `RegistryOverstates`, `RestartReplaces`, `LedgerTellsDeaths`, `HomesOfTheLiveStay` |
| `schedule` | an at, an every and a cron job, a fold of local time, 3 edits, 1 fault | `FiringsSpaced`, `RemovedFiresOnceMore`, `DueFires` |
| `poll` | 2 sources, the first of which may answer with bytes that are no text, 3 items, 2 looked at, a memory of 1, 1 event | `OneWakePerItem`, `KnownItemsWake`, `LeadersAreSeen` |
| `drove` | 2 wakes, 2 runs, 1 watch allowed, 1 event | `WatchedOnce`, `OneRunPerWake`, `WatchEnds` |
| `chat` | 1 item, 2 frames or 2 envelopes, 7 scenes | `MessagesOnce`, `ToldOnce`, `ForwarderSettles`, `MessagesArrive` |
| `wake_acked` | as `wake_store`, no cut | that `AckedWakeKept` fails |

Every property of a passing run has a mutant: one definition replaced by its slip,
under which TLC finds the property violated.

Some invariants are joined, each part a definition with a comment of its own:
`DoorAgrees` of `Pool` (`DoorTypeOK`, `LanesMatchLive`, `ReservationsHaveOwners`,
`NeverStopsDead`), `DeliveriesOnce` of `WakeStore` (`TypeOK`, `OneLinePerWake`,
`OneWakePerDelivery`, `DuplicatesHaveOriginals`), `AttemptsCounted` of `Drain` (`TypeOK`,
`GoalRunsBounded`, `RefusalsGiveBack`, `RerunsNeedFaults`), `AnsweredOnce` of `Hold`
(`TypeOK`, `RepliedOnce`, `FirstAnswerWins`, `DroppedOnlyByStop`), `ChainHolds` of `Audit`
(`InOrder`, `SegmentsJoin`, `LegibleCostsOneRecord`), `MessagesOnce` of `Chat` (`NothingSkipped`,
`OneWakePerMessage`, `RepliesAreNotWakes`).

### Where the code and its words part

`wake_acked` is the one of these that PROJECT.json runs. The others have a
configuration each and are run by hand (`tlc -config X.cfg M`); TLC reports the
property violated.

| Configuration | Property | What the code says | What it does |
|---|---|---|---|
| `MCWakeStoreAcked` | `AckedWakeKept` | "Durable BEFORE the ack." (`wake.py:461`) | a line appended between a mark's read and its replace is gone, 202 or not |
| `MCWakeStoreReplay` | `ReplaysWereStored` | "`fsync`, then acknowledge." (`docs/DESIGN.md:100`) | the key is recorded before the append (`wake.py:426`): the retry of a failed append is told "duplicate" |
| `MCBudgetLong` | `OnlyTheDeadExpire` | expiry reaps reservations "whose run died" (`budget.py:436`) | with no hold configured a wall clock beyond the TTL is accepted (`config.py:250`), and a live run loses its reservation |
| `MCPoolWindow` | `WindowReopens` | "wait for the window to reset" (`runner.py:445`) | the position is probed only while unknown (`runner.py:131`): the refusal lasts until a restart |
| `MCDrainOutage` | `WakesSettleAfterOutage` | "a loop must not die of one bad pass" (`daemon.py:728`) | the handler writes to the same disk (`:729`); if that raises the thread ends. The schedule, poll, drove and janitor loops have the same shape |
| `MCHoldMarker` | `LiveHoldsKeepTheirMarker` | "Answer while the hold is live" (`docs/OPERATING.md:212`) | an early `bothy answer` removes the marker written since it looked (`cli.py:935`): later ones are refused |
| `MCAuditTorn` | `CostsOneRecord` | "A truncated final line costs one record rather than the file" (`audit.py:91`) | a write cut inside a character makes the file undecodable (`audit.py:96`, written with `ensure_ascii=False` at `:274`): `records`, `all_records` and `verify` raise for all of it, and so does an append that has to look for its tip once a line was joined to the remains |
| `MCAuditLoss` | `LossShows` | "verify is the thing that will notice" (`audit.py:91-92`) | a record joined to the remains of a failed write is rubble; the chain goes on from the record before, and verify passes |
| `MCLifecycleHalt` | `ComesBack` | "75 EX_TEMPFAIL something transient -- restart me" (`lifecycle.py:20-22`) | an outage of the disk while starting is reported with 78 (`daemon.py:1010`), after which a supervisor does not restart |
| `MCScheduleFold` | `NextIsLater` | "The first matching minute strictly after ``moment``" (`cronspec.py:109-124`) | in the second of two equal hours the minute found stands for the first one, which is past; the job is due at once, and only its spacing holds it |
| `MCPollRepeat` | `IdsAreDeduped` | "dedupe on the item's own id load-bearing" (`poll.py:16-17`) | `seen` gets no id in the loop over an answer (`poll.py:284`): one that lists an item twice makes two wakes, and the queue does not look at their equal keys |
| `MCPollGarbled` | `OthersNeverStop` | "A source that fails backs off on its own and never stops the others." (`poll.py:25`) | bytes that do not decode raise `UnicodeDecodeError`, which `poll.py:265` does not catch: nothing is saved, the source stays due, and every pass ends at it |
| `MCPollStranded` | `NoneStranded` | "rather than stranding the oldest behind a cap forever" (`poll.py:282-283`) | only the first `max_items_per_poll` of a list are looked at: an item that stays behind that many others is never seen |

`MCPoolShared.cfg` is a further passing instance for use by hand: two processes with a
door each and room in the ledger for one run.

Met while modelling, and described rather than checked:

- A crash loses the gateway's session, which is in memory only, with whatever was
  sent meanwhile (`discord.py:406` speaks of replay); a frame that was kept moves the
  number past an earlier one whose handling raised.
- A wake appended and not audited (`daemon.py:1220`) is made again when the message
  is sent again; nothing looks the delivery up. A notice posted and not recorded is
  posted again, and replies to it are taken for instructions. A reply claimed whose
  audit then fails is never sent.
- `active_hours` that lack an end (`--active-from` alone, `cli.py:410`) make `due`
  raise in every pass, and no job fires. A malformed prompt template does the same
  to the sources after its own (`MCPollStranded` has one).
- A refusal of the start after `mark_running` (`daemon.py:882` and on) leaves a ledger
  that says running; the next start reports a death there was not.
- `bothy poll` remembers the items it prints (`cli.py:629`); the daemon will not
  wake for them. The drain may abandon a Drove wake while its start is under way.

### Bounds, and why they are enough

- *Budget*: three runs make a third ask for room while two hold it, and let one
  expire inside another's reserve while a third is live. Spend reaches 2 with a
  promise of 1, so promise and spend differ both ways. TTL 1 gives the ages
  within, at and past it. Ids are recycled, so behaviours are unbounded.
- *Pool*: with percentages 20/40/60, none, one, two of three samples fall in
  different branches, so a window of three reaches grow, keep, shrink and collapse.
  Two subjects and two runs make lane, slot and probe refuse independently. The
  positions are "empty" and "full". Spend is not metered in subscription mode
  (`MaxSpend` 0). `MCPoolShared` trades samples and subjects for a second process;
  its ceiling of 1 makes the processes compete. A settle or a reservation may fail at
  any time.
- *WakeStore*: a delivery, its retry and a request without a key; two markers are
  what the daemon has (drain and drove). A cut at one line makes the sweep drop
  pending wakes; in `wake_acked` the cut never happens, so that run's loss needs
  no sweep limit. The delivery and its retry are symmetric, and so are the markers;
  the run has no liveness property.
- *Drain*: two wakes on one lane are enough for one to find the lane busy. Two
  attempts distinguish the first, the last and one too many. Two faults allow an
  outage and a crash, or two crashes, in every order. The wakes of a pass are
  taken in any order, which covers the code's.
- *Hold*: two requests make one wait for the slot the other's post holds, and be in
  one tick together, where a reply that cannot be sent cuts it short. One reply in
  chat and one command, each as often as it likes, are two different answers to
  one request by two ways; the command keeps to the first request, since what two
  files do to each other is nothing. The limit of held requests is not reached; being
  declined for it is one of the reasons in `Decline`. `MCHoldMarker` needs one request.
- *Audit*: six records fill three segments of two lines with one kept, so a segment
  is dropped and a rotation follows a rotation. Two writers make one's cached tip
  stale; two faults put a second failed write onto the remains of the first; two edits
  let the second remove what showed the first. Each fault may be a cut inside a character.
- *Lifecycle*: the second of two starts meets what the first left; the two daemons can
  also start at the same time. One run is in turn the daemon's and the foreground's;
  registering it while a reap is under way takes only one. The daemons are symmetric.
- *Schedule*: five minutes with hours of two minutes and a fold reach every
  branch of `ComputeNext`; three edits add a job, remove it and add it again. One
  fault is a crash or an outage; the exceptions of the properties each need one.
- *Poll*: the first source lists an item whose bytes are no text, or nothing; the
  second two items, of which one may be listed once more. With two looked at, a repeat
  and its item, or two items, are looked at together, and a third entry waits behind
  them; a memory of one evicts. The one event is that repeat, a poll by hand, an outage
  or a crash, anywhere in a pass. Larger instances were run once each: two items with
  two events for the invariants, one item per source with two for `LeadersAreSeen`.
- *Drove*: two wakes for two targets, a start by hand for the first's target, and a
  limit of one watch make a start be refused for either reason. One event is a start
  by hand, a crash or a failed write.
- *Chat*: each scene gives the budget to one situation: a session that drops twice
  and whose url dies, a crash in it, an item that comes and goes four times, two
  replies to a notice, a reply to an item that goes, a reply around a crash,
  envelopes whose acknowledgement is lost. Two frames are an unkept one and a kept
  one after it. Thresholds and limits are 1 or 2, so that each is reached.

`CHECK_DEADLOCK FALSE` is in every configuration but `MCChat`: a system with nothing to
do may stop (all requests answered, all wakes settled, all bounds used).

### Fairness

- *Budget*: time passes, the janitor's timer runs, a supervised run ends (its wall
  clock kills it). Cancel, reap and crashes are never owed.
- *Pool*: work keeps arriving at every process (a claim about a busy site, needed
  only for the climb back, and stated in `BusyPoolClimbsBack` by `Busy`), runs end,
  timers fire, an unknown position is probed. Nothing obliges a run to succeed or
  the window to move.
- *WakeStore*: none. Its properties are safety.
- *Hold*: the supervisor takes steps (its wait has a timeout), the reader finishes
  what it began, deadlines pass. No post returns, no answer comes and no turn ends
  unless it wants to.
- *Drain*: the thread takes steps (its wait has a timeout of its own), and time
  passes for `next_attempt_at` and for age. The disk owes no repair and the runner
  no admission. `WakesSettle` is conditional on the thread being alive, because
  `MCDrainOutage` shows that it may die.
- *Audit*, *Lifecycle*: none; their runs check safety. `MCLifecycleHalt` alone assumes a
  supervisor that starts the daemon unless it said 78, and a disk that comes back.
- *Schedule*, *Poll*, *Drove*: the thread takes steps while it lives (its wait has a
  timeout, each command and request a deadline) and the process is restarted after
  a crash. `Poll` also assumes that an interval elapses again and again and that a
  source asked again and again answers now and then (strong fairness, for the
  sources of readable items; another may fail for ever); `Drove` that a deadline passes. The operator, the
  disk and Drove's runs owe nothing.
- *Chat*: listeners, bridges and forwarder take steps, and the process is restarted.
  What the outside may do is bounded by the scene, so that it stops in the end; this
  is what "once Drove's list stays as it is" means in `ForwarderSettles`.

## 4. What is proved

Each theorem holds for every value of the constants that satisfies the module's
assumption: any finite sets of runs, processes, requests, wakes or items, any
limits, and any number of crashes, outages, failed writes and edits. Every one
follows the same line. There is an inductive invariant (`IInv`, or `LedgerInv`,
`PollInv`, `ScheduleInv`, `DrainInv` and `AuditInv` after what they are of): one lemma
says that it holds initially, one per part (`...Kept`) that every step keeps it, and
the theorem is what it implies. An action property is shown of a step from a state
with the invariant, a refinement of each step. Every invariant was checked by TLC, on
the instance of its run, before it was proved.

Every safety and action property of the passing runs is stated by a theorem:

| Module | Theorem | Property |
|---|---|---|
| `PoolProofs` | `TypeCorrect` | `TypeOK` |
| | `CapIsKept` | `CapHolds` |
| | `EveryChargeCountsOnce` | `ChargedOnce` |
| | `LiveRunsKeepTheirBudget` | `LiveRunsHold` |
| | `BillsMatchSpend` | `BilledForSpend` |
| | `TotalFallsAtMidnightOnly` | `AccruedFallsAtMidnightOnly` |
| | `DoorAgreesAlways` | `DoorAgrees` |
| | `ProbeRunsAlone` | `ProbesAlone` |
| | `PoolImplementsBudget` | `BudgetImplemented` |
| | `LedgerHoldsUnderPools` | Budget's four invariants, of `PoolSpec` |
| `LoopProofs` | `ItemsWakeOnce` | `OneWakePerItem` |
| | `RememberedItemsWake` | `KnownItemsWake` |
| | `FiringsAreSpaced` | `FiringsSpaced` |
| | `RemovedJobsRest` | `RemovedFiresOnceMore` |
| | `EveryAttemptCounted` | `AttemptsCounted` |
| | `SettlingIsFinal` | `SettledForGood` |
| `WakeStoreProofs` | `DeliveredOnce` | `DeliveriesOnce` |
| | `LossIsOverlap` | `LossNeedsOverlap` |
| | `MarksHold` | `MarksNeverUndone` |
| `HoldProofs` | `OneAnswerReachesTheWorker` | `AnsweredOnce` |
| | `RepliedIsUnreachable` | `NothingOutlivesItsQuestion` |
| `LifecycleProofs` | `RegistryNeverForgets` | `RegistryOverstates` |
| | `LedgerIsRight` | `LedgerTellsDeaths` |
| | `RestartReplacesAlways` | `RestartReplaces` |
| | `LiveHomesStay` | `HomesOfTheLiveStay` |
| `DroveProofs` | `NoTargetWatchedTwice` | `WatchedOnce` |
| | `WakesRunOnce` | `OneRunPerWake` |
| `ChatProofs` | `MessagesWakeOnce` | `MessagesOnce` |
| | `ItemsToldOnce` | `ToldOnce` |
| `AuditProofs` | `ChainNeverBreaks` | `ChainHolds` |
| | `EditsAlwaysShow` | `EditsShow` |
| | `LogImplementsTrail` | `TrailImplemented` |

### Budget

*Sums.* `Sum(f, S)` is the cardinality of a set of pairs rather than a fold, so that
what it does on a union, a difference and a changed function follows from the
library's theorems on finite sets; these are the first lemmas.

*The invariant.* `LedgerInv` joins the properties with what they need to be inductive:
`SubscriptionChargesNobody` (in that mode nothing is in `todays`, so the cap's first
sum is zero), `IdleHoldsNothing` (an idle run holds no reservation and is not charged
today, so `Start` adds it to the sums once), and `SupervisedIsYoung` (a run that is
supervised is no older than its limit, so expiry cannot meet it while
`RunLimit <= TTL`). Each action is shown to keep each part; the part of a day already
charged moves from `Promise` to `Promised` without growing, because `Held` is at
least the promise.

*The bills.* `BillInv` adds `SpendReported` to `BilledForSpend`: what the ledger has as
`actual` for a held reservation is what its process has spent, so that `Held`
charges the larger of promise and spend when someone else settles.

### Pool

Lanes and live runs name each other because `Admit` takes a free lane for an idle
run and nothing but `Leave`, the part of `Release` before it settles, and a death of
the process frees it. The door never
closes for good because a recompute leaves every size at one or more (`RoomForOne`,
which needs `1 <= MinWorkers <= MaxWorkers`); with nothing live, slot, lane and probe
are then free. `PoolImplementsBudget` goes step by step: `Admit` is `Start`, `Release`
is `Finish`, a release whose settle fails is `Crash` of that run and the death of a
process of all its live runs (which are running or killed, by `LanesMatchLive`), so a
reservation without a live run is of one that ended without settling. `LedgerOnly` is the ledger's own step, and the rest
leaves the ledger alone. So what is proved of the ledger by itself holds under any
number of pools (`LedgerHoldsUnderPools`).

### WakeStore

What makes a rewrite of the queue safe is stated of every copy somebody may yet write
back (`Copies`: the file, what a mark read, what a sweep read). No copy has two lines
of a wake (`CopiesUnique`). A wake that met no overlap is pending in every copy until
it is settled (`SafeInCopies`), hence `LossNeedsOverlap`. Settling runs ahead of the
copies in one direction (`CopiesInOrder`): nothing that is done in the queue is
pending in what a mark read, since marks exclude each other (`LockHeld`), so only a
sweep's replace can undo a mark. A key that is remembered belongs to a request that
passed, and whatever passed left its key (`KeysHaveOwners`), which gives
`OneWakePerDelivery` and `DuplicatesHaveOriginals`.

### Drain

`HandHoldsPending` and `TakenInBounds` say what the checks of `Take` leave true of the
wake in hand. `CountedFirst` bounds the runs of a goal by its count. The other
direction is an account of faults: a count without a run (`CountsPaidFor`) and a run
without its mark (`RunsPaidFor`) are each paid for by a fault, where an outage that
has not cost a pass yet is a credit. It is needed because the same outage must not
pay twice.

### Schedule

What `spaced_enough` looks at is the time on record, and what the property is about is
the wake. `WakesOnRecord` joins them: the last wake of a job is on record, or the
thread is about to record it, or the job is `excused`; so it names where the two
part. A pass fires later than it asked, and time only adds to a gap: what was found
due stays spaced (`FoundSpaced`), since the thread fires a job once of each time it
found it. `ReadingFollows` says that the mark is of a time no earlier than the wake.
A removed job has at most the one firing that was found before (`RemovedStaysAway`).
Nothing is asked of the calendar or of local time: with any, the spacing holds.

### Poll

`Only` and `Once` take the elements of a list that stand at certain places, each at its
rank among them; what they return is a matter of ranks and of injections between
finite sets (`PlacesPick`), not of induction.

A wake is stored long after its id was remembered, and the file may be replaced in
between. `OneWakePerItem` needs that what the thread has in its hands is unwoken: the
entry that a poll asks with already has every item of its source with a wake (or
the id was forgotten), the items of a poll that waits to save have none, and so have
those still to be stored, unless an answer repeated them (`NewIsUnwoken`, by which what
a list in hand has twice is in `repeated`); and an item with a wake is in the file
(`WokenIsSeen`). Items are of one source and sources of a name, so what one poll saves
does not touch another's. `KnownItemsWake` needs that each reading of the file that
may be written back knows only items that are accounted for (`ReadingsAccounted`).

### Audit

A chain that joins at every record is not inductive: a deleted record leaves the next
one without its predecessor, and a cached tip may name a record that is not in the
file. The invariant keeps that a record commits to the one before it, or is *stray*:
it names a record that is not there (`Linked`). A stray record stays stray, because an
append never brings a number back, and `verify` stops at it. A tip that a writer
trusts is of the last record or of none that is there (`TipsAreLast`), so an append
keeps `Linked`, and at or before each scarred record something shows (`Shown`): what
was altered itself, or the one behind a deletion, which is stray. That is where the
number of edits stops to matter. For the chain while nobody edits, `Undisturbed` says
that trusted tips are what a reader finds, and `LossPaid` counts a tail as a debt: a
cut write costs nothing yet, and the record that is joined to it is then lost. What is
in `split` is rubble or a tail (`SplitKnown`), so no edit and no finished write makes a
file legible or illegible, and a rotation can only drop what is not.

The refinement goes step by step, with what each does to the records of one file
(`Records` of its lines) and to their union: an append adds its record at the end, a
rotation moves the file without changing `Stored`, or drops the oldest segment,
whose numbers are below the rest. That a segment is oldest, a record last, or the
record before another exists are facts about least numbers, from the library's
well-foundedness of `<` on the naturals.

### Hold

`AnsweredOnce` rests on one fact: until the reply to a request goes out it has had
none, and what it would be told is what was taken first (`ReplyIsAhead`); the
supervisor's lists hold no request in another state (`SupervisorKnows`). A stop is
on its way out of the loop (`StopsLeaveTheLoop`), so a tick that declines what was
answered is one that ends the turn. What a late announcer leaves is only what it is
about to take away (`AnnouncedFirst`, `OnlyTheLateRemain`).

### Lifecycle

`LockHeld` (one daemon between the lock and the closing of the ledger) makes the
ledger of the last run a matter of one writer, whence `DeathsKept`: a death stays to be
reported until it has been, and the daemon that starts has seen it. For the
registry the invariant follows the reaps: what a reap has yet to kill covers every
registered group it will forget (`ReapsCover`), and what a daemon found is dead once
it is past its reap (`FoundAreGone`). `immortal` and `overlap`, the groups that survive
their kill and those registered inside a reap, are the exceptions the properties
name, and the proof needs no other.

### Drove

`Check` reads the watches and `Save` writes them much later. While nothing crosses, one
start is under way at a time (`OneAtATime`) and what it found is still so
(`ChecksHold`), so what it records leaves `WatchedOnce` true. That a wake runs once
needs where each run stands: `RunsAccountedFor` says that a run which was recorded has
its wake settled, is in the hands of the start that made it, or is watched and stands
guard, which is to say that its wake is not deferred and that this pass has yet to come
to it or will settle it. Then a start that asks, asks for the first of its wake
(`AsksForTheFirst`), since the guard would have refused it.

### Chat

Of the gateway: a connection that serves has handed on everything up to the frame it
read last (`HandedOn`), and what is ahead of the sequence number was not kept
(`UnkeptAhead`). So a frame that is sent again was not kept, and each of its handlings
either settles it or is counted as raised (`WakesPaidFor`). Of the forwarder: it
goes on only with entries that it marked under the lock (`PollsKnow`). A reply is to a
post that exists, and while a post waits for its record every reply that became a
wake came before it (`RepliesFollowPosts`: the lock keeps replies out from the post to
the record), so the record that is then written is of none of them. An entry that is
new has not been told, and none becomes new again (`NewIsUntold`).

## 5. What is only model-checked

- The liveness properties (`ReservationsReturn`, `BusyPoolClimbsBack`, `WakesSettle`,
  `EveryRequestAnswered`, `DueFires`, `LeadersAreSeen`, `WatchEnds`, `ForwarderSettles`,
  `MessagesArrive`): the prover does not reason about fairness and ENABLED.
- What the calendar yields (`NextAfter`, `Instant`, `CronDue`): no theorem depends on it.
- The properties that the code does not keep (section 3) have counterexamples.

## 6. Abstractions to know of

- A state file that cannot be read is taken for an empty one, and the next save wipes
  the rest: `BudgetLedger._load` (`budget.py:271`), `Schedule._load`, `PollState._load`,
  `drove._JsonFile.load`. The models read files as they are; only writes fail.
- In `Pool` a usage report that cannot be saved is not a step: the worker's reader
  swallows it (`codex.py:938`), and it is a `Meter` that has not come.
- In `Audit` a file that cannot be decoded is mended by nobody; by hand, `Edit` alters
  or deletes records and leaves rubble alone. Two rotations in one second, the second of
  which would replace the first's segment, are not modelled: only the janitor rotates,
  once per sweep, when the file has reached its size. Nor is a clock set back.
- `Drain` reads a wake's counters from the file, not from the pass's copy; only
  this thread writes them, so they agree. `_retry_delay`'s own mark of a malformed
  time is left out. A graceful stop between two wakes is a `Crash` there.
- `Pool` does not model the subject exclusion between processes, because the code
  has none: lanes are per process.
- In `Hold` the process of the run does not die (a marker whose owner is dead is
  refused by its identity), and a chat reply may match any entry of the board.
  An answer that was taken and audited may still be declined when the turn is
  stopped before the next tick; `DroppedOnlyByStop` says that nothing else does it.
- A pool that shrank and then sees fewer than `min_samples` runs keeps its size
  (`pool.py:152`); `BusyPoolClimbsBack` says so by its condition.
- Alerts, wording, tracker and trace calls are left out of every action: no
  guard reads what they write.
- A local hour that does not exist (a clock set forward) is not in `Schedule`'s
  instance; `Local` may be any function, and the theorems hold for it.
- `Schedule` leaves out the count of missed firings: nothing reads it, and for a cron
  job the code never raises it. `Poll` leaves out the count of failures.
- `Drove` does not prune finished records, so run ids are never reused there. A start
  by hand that dies while it waits for Drove's answer is not a step of its own; one whose
  answer does not come in time (`AnswerNot`) leaves the same behind.
- In `Chat` the heartbeat's effect is `Drop`. Its thread shares a flag with the next
  connection's, so a stale one can drop a healthy connection; `Drop` may come at any
  time and covers it. The cap of 1024 on claims is not reached. The write of a claim
  does not fail there; if it did, `handle` would raise as where an audit fails, and the
  reply would be neither claimed nor sent.
- `Lifecycle` writes a file in one step: `lifecycle.py` and `proc.py` replace files
  atomically.

## 7. Plan

1. A composition of `WakeStore` and `Drain`: the drain over a queue that can lose and
   bring back wakes. `MarksNeverUndone` and `SettledForGood` each hold their half of
   what would join them: only a sweep's replace undoes a mark.
2. The same of `Drove` and `WakeStore`, whose marks go to the one file.

## 8. Not modelled, and why

`capability.py`, `install.py`, `config.py` apart from the hold check, and the printing
commands of `cli.py` produce or parse text. `memory.py` and `memory_index.py` write
text files under one lock. `ws.py` and `tailnet.py` speak protocols of third parties;
of `discord.py` and `slack.py` the formats and the heartbeat's thread are left out.
`tracker.py` and `trace.py` are output nobody reads back. `clock.py` and `ids.py` are
formats. `policy.py` decides in one step of the reader by a lookup in a profile's
rules; `Hold` leaves its verdict open. The buckets of `ratelimit.py` and the dedupe of
`alert.py` decide whether a request is refused or an incident told, on which nothing
else here depends. In `codex.py` the handshake and the matching of responses to
requests are not modelled, nor in `runner.py` a run's recovery. The vendored reactor
is used for its queue and its lease only.
