------------------------------- MODULE Lifecycle -------------------------------
(***************************************************************************)
(* How Bothy starts, dies, and accounts for what it left running:          *)
(* lifecycle.py (the instance lock and the ledger of the last run), proc.py *)
(* (the registry of worker groups and the reaper), the daemon's start, stop *)
(* and janitor, a run's spawn, register, close and unregister (the daemon's *)
(* and `bothy run's), and the operator's `bothy reap' and `bothy cancel'.   *)
(* A daemon is one process; two of them share the state directory.          *)
(***************************************************************************)
EXTENDS Naturals, FiniteSets

CONSTANTS Daemons, Runs,
          Operator,      \* the process of `bothy reap'
          Foreground,    \* the process of a `bothy run'
          Nobody,
          MaxStarts,     \* bound: starts of a daemon
          MaxCrashes,    \* bound: processes and machines that die
          MaxStuck,      \* bound: groups that survive SIGKILL's grace period
          MaxOutages,    \* bound: times the disk stops taking writes
          Flags,         \* whether a start may be with --reap, without, or both
          Misconfigured  \* whether a bridge, a route or a port may be wrong

ASSUME LifecycleAssumption ==
  /\ {MaxStarts, MaxCrashes, MaxStuck, MaxOutages} \subseteq Nat
  /\ Flags \subseteq BOOLEAN /\ Misconfigured \in BOOLEAN
  /\ {Operator, Foreground, Nobody} \cap Daemons = {}

VARIABLES pc,        \* where each daemon is in start, its life and stop
          lock,      \* the holder of the instance lock
          phase,     \* of the ledger: "none", "running" or "stopped"
          saw,       \* what start read: an unclean death, survivors, its --reap
          beat,      \* the daemons whose janitor is between beat's read and write
          sweep,     \* a janitor's list of homes to remove, or none yet
          disk,      \* whether writes succeed
          halted,    \* the last daemon said 78 and none has been started since
          run,       \* where each run is
          owner,     \* the process that supervises it
          group,     \* the runs whose worker group is alive
          home,      \* the runs whose worker home exists
          registry,  \* the runs recorded in the registry file
          reap,      \* the reaps between their read and their save
          starts, crashes, stuck, outages,
          death,     \* a daemon died that no start has reported
          excuse,    \* ways a ledger may say running with no such death
          ever,      \* runs whose register returned
          immortal,  \* runs whose group survived a kill that forgot it
          overlap,   \* runs that registered while a reap was under way
          found,     \* workers without a supervisor when each daemon looked
          stripped   \* runs whose home was removed under a living worker

daemonVars == <<pc, lock, phase, saw, beat, sweep, halted>>
runVars == <<run, owner, group, home>>
counters == <<starts, crashes, stuck, outages>>
history == <<death, excuse, ever, immortal, overlap, found, stripped>>
vars == <<daemonVars, disk, runVars, registry, reap, counters, history>>

-------------------------------------------------------------------------------
Reapers == Daemons \cup {Operator}
NoReap == [active |-> FALSE, todo |-> {}]
Unread == [unclean |-> FALSE, survivors |-> FALSE, reap |-> FALSE]
NoSweep == {Nobody}

Idle == {d \in Daemons : pc[d] = "off"}
(* The daemons that have marked the ledger and not yet closed it. *)
Claimed == {d \in Daemons : pc[d] \in {"claimed", "told", "reaped", "up", "stopping", "closing"}}
Supervised(r) == run[r] \in {"spawned", "registered", "closed"}
Of(d) == {r \in Runs : owner[r] = d /\ Supervised(r)}

(* Recorded workers whose group is alive and theirs: the start time and the  *)
(* boot id in the record keep a reused pid out.                              *)
Survivors == registry \cap group

Init ==
  /\ pc = [d \in Daemons |-> "off"] /\ lock = Nobody /\ phase = "none"
  /\ saw = [d \in Daemons |-> Unread]
  /\ beat = {} /\ sweep = [d \in Daemons |-> NoSweep]
  /\ disk = TRUE /\ halted = FALSE
  /\ run = [r \in Runs |-> "idle"] /\ owner = [r \in Runs |-> Nobody]
  /\ group = {} /\ home = {} /\ registry = {}
  /\ reap = [x \in Reapers |-> NoReap]
  /\ starts = 0 /\ crashes = 0 /\ stuck = 0 /\ outages = 0
  /\ death = FALSE /\ excuse = {} /\ ever = {} /\ immortal = {} /\ overlap = {}
  /\ found = [d \in Daemons |-> {}] /\ stripped = {}

-------------------------------------------------------------------------------
(* A process is gone: the kernel drops its lock, and its threads with it. *)
Gone(ds) ==
  /\ pc' = [d \in Daemons |-> IF d \in ds THEN "off" ELSE pc[d]]
  /\ lock' = IF lock \in ds THEN Nobody ELSE lock
  /\ beat' = beat \ ds
  /\ sweep' = [d \in Daemons |-> IF d \in ds THEN NoSweep ELSE sweep[d]]
  /\ reap' = [x \in Reapers |-> IF x \in ds THEN NoReap ELSE reap[x]]
  /\ saw' = [d \in Daemons |-> IF d \in ds THEN Unread ELSE saw[d]]
  /\ found' = [d \in Daemons |-> IF d \in ds THEN {} ELSE found[d]]

Orphaned(rs) == /\ run' = [r \in Runs |-> IF r \in rs THEN "orphaned" ELSE run[r]]
                /\ owner' = [r \in Runs |-> IF r \in rs THEN Nobody ELSE owner[r]]

(* run_forever returns: 78 for a refusal, 75 for what may pass. *)
Exits(d, code, why) ==
  /\ Gone({d}) /\ Orphaned(Of(d))
  /\ halted' = (code = "78")
  /\ excuse' = excuse \cup why
  /\ UNCHANGED <<phase, disk, group, home, registry, counters>>
  /\ UNCHANGED <<death, ever, immortal, overlap, stripped>>

Goes(d, there) ==
  /\ pc' = [pc EXCEPT ![d] = there]
  /\ UNCHANGED <<lock, beat, sweep, halted, disk, runVars, starts, crashes, stuck, outages>>

(* start takes the lock; with AlreadyRunning it ends and nothing changes.   *)
(* Both service managers start it with --reap, an operator may not.         *)
Acquire(d) ==
  /\ pc[d] = "off" /\ lock = Nobody /\ starts < MaxStarts
  /\ pc' = [pc EXCEPT ![d] = "locked"] /\ lock' = d
  /\ starts' = starts + 1 /\ halted' = FALSE
  /\ \E wants \in Flags : saw' = [saw EXCEPT ![d].reap = wants]
  /\ UNCHANGED <<phase, beat, sweep, disk, runVars, registry, reap>>
  /\ UNCHANGED <<crashes, stuck, outages, history>>

\* slip: the ledger is claimed as soon as the lock is held.
LookClaiming(d) ==
  /\ pc[d] = "locked"
  /\ phase' = "running"
  /\ saw' = [saw EXCEPT ![d].unclean = (phase = "running"), ![d].survivors = (Survivors # {})]
  /\ found' = [found EXCEPT ![d] = {r \in group : ~Supervised(r)}]
  /\ pc' = [pc EXCEPT ![d] = IF Survivors # {} /\ ~saw[d].reap THEN "off" ELSE "checked"]
  /\ lock' = IF Survivors # {} /\ ~saw[d].reap THEN Nobody ELSE lock
  /\ UNCHANGED <<beat, sweep, halted, disk, runVars, counters>>
  /\ UNCHANGED <<registry, reap, death, excuse, ever, immortal, overlap, stripped>>

(* Detect the last death, then look for its workers: a refusal for them     *)
(* comes before the ledger is claimed.                                      *)
Look(d) ==
  /\ pc[d] = "locked"
  /\ IF Survivors # {} /\ ~saw[d].reap
       THEN Exits(d, "78", {})
       ELSE /\ saw' = [saw EXCEPT ![d].unclean = (phase = "running"), ![d].survivors = (Survivors # {})]
            /\ found' = [found EXCEPT ![d] = {r \in group : ~Supervised(r)}]
            /\ Goes(d, "checked")
            /\ UNCHANGED <<phase, registry, reap, death, excuse, ever, immortal, overlap, stripped>>

(* mark_running. *)
Claim(d) ==
  /\ pc[d] = "checked"
  /\ IF disk THEN /\ phase' = "running"
                  /\ Goes(d, "claimed")
                  /\ UNCHANGED <<saw, registry, reap, history>>
             ELSE Exits(d, "75", {})

(* The audit record and the alert of an unclean death.  An audit that fails *)
(* raises AuditError, a RuntimeError, which run_forever takes for a refusal. *)
Tell(d) ==
  /\ pc[d] = "claimed"
  /\ IF saw[d].unclean /\ ~disk
       THEN Exits(d, "78", {"refused"})
       ELSE /\ death' = (death /\ ~saw[d].unclean)
            /\ excuse' = IF saw[d].unclean THEN {} ELSE excuse
            /\ Goes(d, "told")
            /\ UNCHANGED <<phase, saw, registry, reap, ever, immortal, overlap, found, stripped>>

\* slip: start reports a death and leaves its workers alone.
ReapedAnyway(d) ==
  /\ pc[d] = "told"
  /\ Goes(d, "reaped")
  /\ UNCHANGED <<phase, saw, registry, reap, history>>

(* What start reaped is on record, or there was nothing to reap. *)
Reaped(d) ==
  /\ pc[d] = "told" /\ ~saw[d].survivors
  /\ Goes(d, "reaped")
  /\ UNCHANGED <<phase, saw, registry, reap, history>>

(* The bridges, the routes, the listeners, the threads and the `started'    *)
(* record.  A bridge without its token or an unusable public route refuses, *)
(* a port that is taken or an unwritable record raises.                     *)
Build(d) ==
  /\ pc[d] = "reaped"
  /\ \/ /\ disk
        /\ Goes(d, "up")
        /\ UNCHANGED <<phase, saw, registry, reap, history>>
     \/ (~disk \/ Misconfigured) /\ Exits(d, "78", {"refused"})
     \/ Misconfigured /\ Exits(d, "75", {"refused"})

-------------------------------------------------------------------------------
(* beat reads the ledger, and writes it back with a new time if it says     *)
(* running; an unwritable ledger is passed over.                            *)
BeatRead(d) ==
  /\ pc[d] = "up" /\ d \notin beat /\ sweep[d] = NoSweep /\ phase = "running"
  /\ beat' = beat \cup {d}
  /\ UNCHANGED <<pc, lock, phase, saw, sweep, halted, disk, runVars, registry, reap, counters, history>>

BeatWrite(d) ==
  /\ d \in beat
  /\ beat' = beat \ {d}
  /\ phase' = IF disk THEN "running" ELSE phase
  /\ excuse' = IF phase' # phase THEN excuse \cup {"late beat"} ELSE excuse
  /\ UNCHANGED <<pc, lock, saw, sweep, halted, disk, runVars, registry, reap, counters>>
  /\ UNCHANGED <<death, ever, immortal, overlap, found, stripped>>

\* slip: the sweep goes by age alone.
SweepLookOld(d) ==
  /\ pc[d] = "up" /\ d \notin beat /\ sweep[d] = NoSweep
  /\ \E old \in SUBSET {r \in home : run[r] # "spawned"} :
       old # {} /\ sweep' = [sweep EXCEPT ![d] = old]
  /\ UNCHANGED <<pc, lock, phase, saw, beat, halted, disk, runVars, registry, reap, counters, history>>

(* The sweep lists the live workers, then removes the homes that are not    *)
(* among them and have not been touched for an hour: none of a run that is  *)
(* only just starting.                                                      *)
SweepLook(d) ==
  /\ pc[d] = "up" /\ d \notin beat /\ sweep[d] = NoSweep
  /\ \E old \in SUBSET {r \in home : run[r] # "spawned"} :
       /\ old # {}
       /\ sweep' = [sweep EXCEPT ![d] = old \ Survivors]
  /\ UNCHANGED <<pc, lock, phase, saw, beat, halted, disk, runVars, registry, reap, counters, history>>

SweepHomes(d) ==
  /\ sweep[d] # NoSweep
  /\ home' = home \ sweep[d]
  /\ stripped' = stripped \cup (sweep[d] \cap home \cap group)
  /\ sweep' = [sweep EXCEPT ![d] = NoSweep]
  /\ UNCHANGED <<pc, lock, phase, saw, beat, halted, disk, run, owner, group, registry, reap, counters>>
  /\ UNCHANGED <<death, excuse, ever, immortal, overlap, found>>

(* stop: wait for the runs and the threads, each for a time only; record it; *)
(* close the ledger, which passes over a disk that fails; give the lock back. *)
Stop(d) ==
  /\ pc[d] = "up"
  /\ Goes(d, "stopping")
  /\ UNCHANGED <<phase, saw, registry, reap, history>>

AuditStopped(d) ==
  /\ pc[d] = "stopping"
  /\ IF disk THEN /\ Goes(d, "closing")
                  /\ UNCHANGED <<phase, saw, registry, reap, history>>
             ELSE Exits(d, "1", {"refused"})

CloseRun(d) ==
  /\ pc[d] = "closing"
  /\ pc' = [pc EXCEPT ![d] = "leaving"] /\ lock' = Nobody
  /\ phase' = IF disk THEN "stopped" ELSE phase
  /\ excuse' = IF disk THEN excuse ELSE excuse \cup {"not closed"}
  /\ UNCHANGED <<saw, beat, sweep, halted, disk, runVars, registry, reap, counters>>
  /\ UNCHANGED <<death, ever, immortal, overlap, found, stripped>>

Leave(d) == pc[d] = "leaving" /\ Exits(d, "0", {})

Crash(d) ==
  /\ pc[d] # "off" /\ crashes < MaxCrashes
  /\ Gone({d}) /\ Orphaned(Of(d))
  /\ crashes' = crashes + 1
  /\ death' = (death \/ d \in Claimed)
  /\ UNCHANGED <<phase, halted, disk, group, home, registry, starts, stuck, outages>>
  /\ UNCHANGED <<excuse, ever, immortal, overlap, stripped>>

(* Every process dies, and the boot id with it. *)
Reboot ==
  /\ crashes < MaxCrashes /\ Idle # Daemons
  /\ Gone(Daemons \cup {Operator})
  /\ Orphaned({r \in Runs : Supervised(r)}) /\ group' = {}
  /\ crashes' = crashes + 1
  /\ death' = (death \/ Claimed # {})
  /\ UNCHANGED <<phase, halted, disk, home, registry, starts, stuck, outages>>
  /\ UNCHANGED <<excuse, ever, immortal, overlap, stripped>>

(* The disk stops taking writes for a time. *)
DiskFails == /\ disk /\ outages < MaxOutages
             /\ disk' = FALSE /\ outages' = outages + 1
             /\ UNCHANGED <<daemonVars, runVars, registry, reap, starts, crashes, stuck, history>>
DiskBack == /\ ~disk /\ disk' = TRUE
            /\ UNCHANGED <<daemonVars, runVars, registry, reap, counters, history>>

-------------------------------------------------------------------------------
StillRuns(p) == p = Foreground \/ (p \in Daemons /\ pc[p] \in {"up", "stopping", "closing"})

(* The home is seeded and the worker spawned, in a group of its own. *)
Spawn(r, p) ==
  /\ run[r] = "idle" /\ StillRuns(p)
  /\ run' = [run EXCEPT ![r] = "spawned"] /\ owner' = [owner EXCEPT ![r] = p]
  /\ group' = group \cup {r} /\ home' = home \cup {r}
  /\ UNCHANGED <<daemonVars, disk, registry, reap, counters, history>>

Register(r) ==
  /\ run[r] = "spawned" /\ disk
  /\ run' = [run EXCEPT ![r] = "registered"]
  /\ registry' = registry \cup {r} /\ ever' = ever \cup {r}
  /\ overlap' = overlap \cup {x \in {r} : \E k \in Reapers : reap[k].active}
  /\ UNCHANGED <<daemonVars, disk, owner, group, home, reap, counters>>
  /\ UNCHANGED <<death, excuse, immortal, found, stripped>>

WorkerExits(r) ==
  /\ r \in group
  /\ group' = group \ {r}
  /\ UNCHANGED <<daemonVars, disk, run, owner, home, registry, reap, counters, history>>

(* kill_group: SIGTERM, a grace period, SIGKILL, another one, and a group   *)
(* that is still there is given up as unkillable.                           *)
Killed(r, forgets) ==
  \/ group' = group \ {r} /\ UNCHANGED <<stuck, immortal>>
  \/ /\ r \in group /\ stuck < MaxStuck
     /\ stuck' = stuck + 1
     /\ immortal' = IF forgets THEN immortal \cup {r} ELSE immortal
     /\ UNCHANGED group

\* slip: the record goes before the group does.
CloseLast(r) ==
  /\ run[r] \in {"spawned", "registered"}
  /\ run' = [run EXCEPT ![r] = "closed"]
  /\ registry' = registry \ {r}
  /\ UNCHANGED <<daemonVars, disk, owner, group, home, reap, counters, history>>

(* The run's finally: close first, whatever happened since the spawn. *)
Close(r) ==
  /\ run[r] \in {"spawned", "registered"}
  /\ run' = [run EXCEPT ![r] = "closed"]
  /\ Killed(r, TRUE)
  /\ UNCHANGED <<daemonVars, disk, owner, home, registry, reap, starts, crashes, outages>>
  /\ UNCHANGED <<death, excuse, ever, overlap, found, stripped>>

(* ... and last the home and the record; an unwritable registry raises. *)
Unregister(r) ==
  /\ run[r] = "closed"
  /\ run' = [run EXCEPT ![r] = "done"] /\ owner' = [owner EXCEPT ![r] = Nobody]
  /\ home' = home \ {r}
  /\ registry' = IF disk THEN registry \ {r} ELSE registry
  /\ UNCHANGED <<daemonVars, disk, group, reap, counters, history>>

(* The process of a `bothy run' dies. *)
ForegroundDies(r) ==
  /\ Supervised(r) /\ owner[r] = Foreground /\ crashes < MaxCrashes
  /\ Orphaned({r})
  /\ crashes' = crashes + 1
  /\ UNCHANGED <<daemonVars, disk, group, home, registry, reap, starts, stuck, outages, history>>

-------------------------------------------------------------------------------
(* reap reads the records, kills group after group and saves an empty       *)
(* registry, outside the lock that register takes.                          *)
ReapRead(x) ==
  /\ ~reap[x].active
  /\ x \in Daemons => pc[x] = "told" /\ saw[x].survivors
  /\ reap' = [reap EXCEPT ![x] = [active |-> TRUE, todo |-> registry]]
  /\ UNCHANGED <<daemonVars, disk, runVars, registry, counters, history>>

ReapKill(x, r) ==
  /\ reap[x].active /\ r \in reap[x].todo
  /\ reap' = [reap EXCEPT ![x].todo = @ \ {r}]
  /\ Killed(r, TRUE)
  /\ UNCHANGED <<daemonVars, disk, run, owner, home, registry, starts, crashes, outages>>
  /\ UNCHANGED <<death, excuse, ever, overlap, found, stripped>>

(* The save, and the audit records that follow; either may raise. *)
ReapSave(x) ==
  /\ reap[x].active /\ reap[x].todo = {}
  /\ IF disk
       THEN /\ registry' = {}
            /\ reap' = [reap EXCEPT ![x] = NoReap]
            /\ IF x = Operator THEN UNCHANGED <<pc, lock, beat, sweep, halted, disk, runVars, counters>>
                               ELSE Goes(x, "reaped")
            /\ UNCHANGED <<phase, saw, history>>
       ELSE IF x = Operator
         THEN /\ reap' = [reap EXCEPT ![x] = NoReap]
              /\ UNCHANGED <<daemonVars, disk, runVars, registry, counters, history>>
         ELSE \E code \in {"75", "78"} : Exits(x, code, {"refused"})

(* `bothy cancel' on a worker that does not stop by itself: it keeps the    *)
(* record of a group it cannot kill.                                        *)
Cancel(r) ==
  /\ r \in Survivors /\ disk
  /\ Killed(r, FALSE)
  /\ registry' = IF r \in group' THEN registry ELSE registry \ {r}
  /\ UNCHANGED <<daemonVars, disk, run, owner, home, reap, starts, crashes, outages>>
  /\ UNCHANGED <<death, excuse, ever, overlap, found, stripped>>

-------------------------------------------------------------------------------
Starting(d) == \/ Acquire(d) \/ Look(d) \/ Claim(d) \/ Tell(d) \/ Reaped(d) \/ Build(d)

Living(d) == \/ BeatRead(d) \/ BeatWrite(d) \/ SweepLook(d) \/ SweepHomes(d)
             \/ Stop(d) \/ AuditStopped(d) \/ CloseRun(d) \/ Leave(d) \/ Crash(d)

Running(r) == \/ Register(r) \/ WorkerExits(r) \/ Close(r) \/ Unregister(r)
              \/ ForegroundDies(r) \/ Cancel(r)
              \/ \E p \in Daemons \cup {Foreground} : Spawn(r, p)

Reaping(x) == ReapRead(x) \/ ReapSave(x) \/ \E r \in Runs : ReapKill(x, r)

Next == \/ \E d \in Daemons : Starting(d) \/ Living(d)
        \/ \E r \in Runs : Running(r)
        \/ \E x \in Reapers : Reaping(x)
        \/ DiskFails \/ DiskBack \/ Reboot

Spec == Init /\ [][Next]_vars

(* A supervisor that starts the daemon again unless it said 78, a disk that *)
(* comes back, and a start that goes on.                                    *)
Supervisor ==
  /\ WF_vars(~halted /\ \E d \in Daemons : Acquire(d))
  /\ \A d \in Daemons : WF_vars(Look(d) \/ Claim(d) \/ Tell(d) \/ Reaped(d) \/ Build(d) \/ Reaping(d))
  /\ WF_vars(DiskBack)
SupervisedSpec == Spec /\ Supervisor

-------------------------------------------------------------------------------
Forgivable == immortal \cup overlap

(* The registry over-states (ProcessRegistry's docstring): a living group   *)
(* whose run was registered is on record, unless it could not be killed, or *)
(* was registered between a reap's read and its save.                       *)
RegistryOverstates == group \cap ever \subseteq registry \cup Forgivable

(* "A restart replaces, it does not add" (lifecycle.py): when a daemon is   *)
(* up, no worker that was without a supervisor as it looked is alive, save  *)
(* those nobody could know of or kill.                                      *)
RestartReplaces ==
  \A d \in Daemons : pc[d] = "up" =>
    found[d] \cap group \subseteq (Runs \ ever) \cup Forgivable

(* The ledger between two lives: it says running exactly if a death is to   *)
(* be reported, or for one of the reasons named (LifecycleLedger).          *)
LedgerTellsDeaths ==
  Claimed = {} => /\ death => phase = "running"
                  /\ phase = "running" => death \/ excuse # {}

(* "Removing a home out from under a live worker is far worse" (sweep): it  *)
(* happens only to workers the registry does not know.                      *)
HomesOfTheLiveStay == stripped \subseteq (Runs \ ever) \cup Forgivable

(* "75 EX_TEMPFAIL something transient -- restart me" (lifecycle.py): after *)
(* a crash and an outage that ends, a supervised daemon comes back up.      *)
ComesBack == death ~> (\E d \in Daemons : pc[d] = "up") \/ starts = MaxStarts
===============================================================================
