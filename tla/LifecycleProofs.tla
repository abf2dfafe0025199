--------------------------- MODULE LifecycleProofs ---------------------------
(***************************************************************************)
(* Theorems about Lifecycle, for every set of daemons and of runs and for   *)
(* any number of starts, crashes, outages and groups that will not die.     *)
(***************************************************************************)
EXTENDS Lifecycle, TLAPS

-------------------------------------------------------------------------------
(* The inductive invariant.                                                 *)

Places == {"off", "locked", "checked", "claimed", "told", "reaped", "up",
           "stopping", "closing", "leaving"}
RunPlaces == {"idle", "spawned", "registered", "closed", "done", "orphaned"}

\* The values of the variables the argument looks at.
Types ==
  /\ pc \in [Daemons -> Places] /\ lock \in Daemons \cup {Nobody}
  /\ saw \in [Daemons -> [unclean : BOOLEAN, survivors : BOOLEAN, reap : BOOLEAN]]
  /\ sweep \in [Daemons -> SUBSET (Runs \cup {Nobody})]
  /\ run \in [Runs -> RunPlaces]
  /\ group \subseteq Runs /\ home \subseteq Runs /\ registry \subseteq Runs
  /\ reap \in [Reapers -> [active : BOOLEAN, todo : SUBSET Runs]]
  /\ death \in BOOLEAN /\ ever \subseteq Runs
  /\ found \in [Daemons -> SUBSET Runs] /\ stripped \subseteq Runs

\* One daemon at a time is between the lock and the closing of the ledger, and a
\* daemon reaps nowhere but in the middle of its start.
Holding == Places \ {"off", "leaving"}
LockHeld ==
  \A d \in Daemons :
    /\ pc[d] \in Holding => lock = d
    /\ reap[d].active => pc[d] = "told" /\ saw[d].survivors

\* While a daemon has the ledger it says running; a death stays to be reported
\* until it has been, and the daemon that starts has seen it.
DeathsKept ==
  /\ Claimed # {} \/ death => phase = "running"
  /\ \A d \in Daemons :
       /\ death /\ pc[d] \in {"checked", "claimed"} => saw[d].unclean
       /\ pc[d] \in {"told", "reaped", "up", "stopping", "closing"} => ~death

\* A run that has neither been registered nor given up.
Young(r) == run[r] \in {"idle", "spawned"}

\* No run is old without a process to show for it, and none is closed with its
\* group alive but one that would not die.
RunsOrderly ==
  /\ \A r \in ever : ~Young(r)
  /\ \A r \in group \cup home : run[r] # "idle"
  /\ \A r \in group : run[r] = "closed" => r \in immortal

\* What a reap has yet to kill covers every registered group it will forget.
ReapsCover ==
  \A x \in Reapers : reap[x].active => group \cap ever \subseteq reap[x].todo \cup Forgivable

\* What a daemon found unsupervised is past registering, and once it knows of no
\* survivor, or has reaped them, is dead but for the forgivable.
FoundAreGone ==
  \A d \in Daemons :
    /\ \A r \in found[d] : ~Young(r)
    /\ \/ pc[d] \in {"reaped", "up", "stopping", "closing", "leaving"}
       \/ pc[d] \in {"checked", "claimed", "told"} /\ ~saw[d].survivors
       => found[d] \cap group \cap ever \subseteq Forgivable

\* The homes a sweep is about to remove, and those it did, are of no registered
\* run that lives, but for the forgivable.
SweepsSpareTheLive ==
  /\ \A d \in Daemons : sweep[d] # NoSweep =>
       \A r \in sweep[d] \cap Runs :
         ~Young(r) /\ (r \in group \cap ever => r \in Forgivable)
  /\ \A r \in stripped : ~Young(r) /\ (r \in ever => r \in Forgivable)

IInv ==
  /\ Types
  /\ LockHeld
  /\ DeathsKept
  /\ LedgerTellsDeaths
  /\ RunsOrderly
  /\ RegistryOverstates
  /\ ReapsCover
  /\ FoundAreGone
  /\ SweepsSpareTheLive

LEMMA InvariantHolds == Init => IInv
<1> SUFFICES ASSUME Init PROVE IInv
  OBVIOUS
<1> USE DEF Init
<1>1. Types
  <2>1. Unread \in [unclean : BOOLEAN, survivors : BOOLEAN, reap : BOOLEAN]
    BY DEF Unread
  <2>2. NoReap \in [active : BOOLEAN, todo : SUBSET Runs]
    BY DEF NoReap
  <2>3. NoSweep \subseteq Runs \cup {Nobody}
    BY DEF NoSweep
  <2> QED
    BY <2>1, <2>2, <2>3 DEF Types, Places, RunPlaces
<1>2. LockHeld /\ DeathsKept /\ LedgerTellsDeaths
  BY DEF LockHeld, Holding, DeathsKept, LedgerTellsDeaths, Claimed, NoReap, Reapers
<1>3. RunsOrderly /\ RegistryOverstates /\ ReapsCover
  BY DEF RunsOrderly, RegistryOverstates, ReapsCover, NoReap
<1>4. FoundAreGone /\ SweepsSpareTheLive
  BY DEF FoundAreGone, SweepsSpareTheLive
<1> QED
  BY <1>1, <1>2, <1>3, <1>4 DEF IInv

-------------------------------------------------------------------------------
(* The steps, the exits of a daemon apart from the actions they can end.    *)

Quits(d) ==
  \E code \in {"0", "1", "75", "78"}, why \in SUBSET {"refused"} :
    Exits(d, code, why) /\ (d \in Claimed => why # {})

LooksOn(d) == Look(d) /\ ~(Survivors # {} /\ ~saw[d].reap)
ClaimsOn(d) == Claim(d) /\ disk
TellsOn(d) == Tell(d) /\ ~(saw[d].unclean /\ ~disk)

\* A daemon goes on to the next place and touches nothing else.
MovesOn(d) ==
  /\ \/ pc[d] = "told" /\ ~saw[d].survivors /\ Goes(d, "reaped")
     \/ pc[d] = "reaped" /\ Goes(d, "up")
     \/ pc[d] = "up" /\ Goes(d, "stopping")
     \/ pc[d] = "stopping" /\ Goes(d, "closing")
  /\ UNCHANGED <<phase, saw, registry, reap, history>>

SavesReap(x) == ReapSave(x) /\ disk

\* The operator's reap that cannot save.
AbandonsReap ==
  /\ reap' = [reap EXCEPT ![Operator] = NoReap]
  /\ UNCHANGED <<daemonVars, disk, runVars, registry, counters, history>>

DiskStep == DiskFails \/ DiskBack

LEMMA Steps ==
  ASSUME [Next]_vars
  PROVE  \/ \E d \in Daemons :
              \/ Quits(d)
              \/ Acquire(d) \/ LooksOn(d) \/ ClaimsOn(d) \/ TellsOn(d) \/ MovesOn(d)
              \/ BeatRead(d) \/ BeatWrite(d) \/ SweepLook(d) \/ SweepHomes(d)
              \/ CloseRun(d) \/ Crash(d)
         \/ \E r \in Runs :
              \/ Register(r) \/ WorkerExits(r) \/ Close(r) \/ Unregister(r)
              \/ ForegroundDies(r) \/ Cancel(r)
              \/ \E p \in Daemons \cup {Foreground} : Spawn(r, p)
         \/ \E x \in Reapers : ReapRead(x) \/ SavesReap(x) \/ \E r \in Runs : ReapKill(x, r)
         \/ AbandonsReap \/ DiskStep \/ Reboot \/ UNCHANGED vars
<1>1. ASSUME NEW d \in Daemons, Look(d)
      PROVE  LooksOn(d) \/ Quits(d)
  BY <1>1 DEF Look, LooksOn, Quits, Claimed
<1>2. ASSUME NEW d \in Daemons, Claim(d)
      PROVE  ClaimsOn(d) \/ Quits(d)
  BY <1>2 DEF Claim, ClaimsOn, Quits, Claimed
<1>3. ASSUME NEW d \in Daemons, Tell(d)
      PROVE  TellsOn(d) \/ Quits(d)
  BY <1>3 DEF Tell, TellsOn, Quits
<1>4. ASSUME NEW d \in Daemons, Build(d)
      PROVE  MovesOn(d) \/ Quits(d)
  BY <1>4 DEF Build, MovesOn, Quits
<1>5. ASSUME NEW d \in Daemons, AuditStopped(d)
      PROVE  MovesOn(d) \/ Quits(d)
  BY <1>5 DEF AuditStopped, MovesOn, Quits
<1>6. ASSUME NEW d \in Daemons, Leave(d)
      PROVE  Quits(d)
  BY <1>6 DEF Leave, Quits, Claimed
<1>7. ASSUME NEW d \in Daemons, Reaped(d) \/ Stop(d)
      PROVE  MovesOn(d)
  BY <1>7 DEF Reaped, Stop, MovesOn
<1>8. ASSUME NEW x \in Reapers, ReapSave(x)
      PROVE  SavesReap(x) \/ AbandonsReap \/ (x \in Daemons /\ Quits(x))
  <2>1. CASE disk
    BY <1>8, <2>1 DEF SavesReap
  <2>2. CASE ~disk /\ x = Operator
    BY <1>8, <2>2 DEF ReapSave, AbandonsReap
  <2>3. CASE ~disk /\ x # Operator
    <3>1. x \in Daemons
      BY <2>3 DEF Reapers
    <3>2. \E code \in {"75", "78"} : Exits(x, code, {"refused"})
      BY <1>8, <2>3 DEF ReapSave
    <3>3. {"refused"} \in SUBSET {"refused"} /\ {"refused"} # {}
      OBVIOUS
    <3> QED
      BY <3>1, <3>2, <3>3 DEF Quits
  <2> QED
    BY <2>1, <2>2, <2>3
<1> QED
  BY <1>1, <1>2, <1>3, <1>4, <1>5, <1>6, <1>7, <1>8
     DEF Next, Starting, Living, Running, Reaping, DiskStep

-------------------------------------------------------------------------------
(* The parts are kept.                                                      *)

LEMMA LockKept ==
  ASSUME IInv, [Next]_vars
  PROVE  LockHeld'
<1> USE DEF IInv, Types, LockHeld, Holding, Places, Reapers, NoReap
<1>1. CASE \E d \in Daemons : Quits(d) \/ Crash(d)
  BY <1>1 DEF Quits, Exits, Crash, Gone
<1>2. CASE \E d \in Daemons : Acquire(d)
  BY <1>2, LifecycleAssumption DEF Acquire
<1>3. CASE \E d \in Daemons : LooksOn(d) \/ ClaimsOn(d) \/ TellsOn(d) \/ MovesOn(d)
  BY <1>3 DEF LooksOn, Look, ClaimsOn, Claim, TellsOn, Tell, MovesOn, Goes
<1>4. CASE \E d \in Daemons : CloseRun(d)
  BY <1>4, ZenonT(30) DEF CloseRun
<1>5. CASE \E x \in Reapers : SavesReap(x)
  <2> PICK x \in Reapers : SavesReap(x)
    BY <1>5
  <2>1. CASE x = Operator
    BY <2>1, LifecycleAssumption DEF SavesReap, ReapSave
  <2>2. CASE x \in Daemons /\ x # Operator
    BY <2>2 DEF SavesReap, ReapSave, Goes
  <2> QED
    BY <2>1, <2>2
<1>6. CASE Reboot
  BY <1>6 DEF Reboot, Gone
<1>7. CASE AbandonsReap \/ \E x \in Reapers : ReapRead(x) \/ \E r \in Runs : ReapKill(x, r)
  <2>1. UNCHANGED <<pc, lock, saw>>
    BY <1>7 DEF AbandonsReap, ReapRead, ReapKill, daemonVars
  <2>2. CASE AbandonsReap
    BY <2>1, <2>2 DEF AbandonsReap
  <2>3. CASE \E x \in Reapers : ReapRead(x)
    BY <2>1, <2>3 DEF ReapRead
  <2>4. CASE \E x \in Reapers, r \in Runs : ReapKill(x, r)
    BY <2>1, <2>4 DEF ReapKill
  <2> QED
    BY <1>7, <2>2, <2>3, <2>4
<1>8. CASE UNCHANGED <<pc, lock, saw, reap>>
  BY <1>8
<1> QED
  BY <1>1, <1>2, <1>3, <1>4, <1>5, <1>6, <1>7, <1>8, Steps
     DEF BeatRead, BeatWrite, SweepLook, SweepHomes, Register, WorkerExits, Close, Unregister,
         ForegroundDies, Cancel, Spawn, DiskStep, DiskFails, DiskBack, daemonVars, vars

LEMMA TypesKept ==
  ASSUME IInv, [Next]_vars
  PROVE  Types'
<1> USE DEF IInv, Types, Places, RunPlaces, Reapers
<1>1. Unread \in [unclean : BOOLEAN, survivors : BOOLEAN, reap : BOOLEAN]
  BY DEF Unread
<1>2. NoReap \in [active : BOOLEAN, todo : SUBSET Runs]
  BY DEF NoReap
<1>3. NoSweep \in SUBSET (Runs \cup {Nobody})
  BY DEF NoSweep
<1>4. CASE \E d \in Daemons : Quits(d)
  BY <1>1, <1>2, <1>3, <1>4 DEF Quits, Exits, Gone, Orphaned
<1>5. CASE \E d \in Daemons : Crash(d)
  BY <1>1, <1>2, <1>3, <1>5 DEF Crash, Gone, Orphaned
<1>6. CASE Reboot
  BY <1>1, <1>2, <1>3, <1>6 DEF Reboot, Gone, Orphaned
<1>7. CASE \E d \in Daemons : Acquire(d)
  BY <1>7, LifecycleAssumption DEF Acquire, runVars, history
<1>8. CASE \E d \in Daemons : LooksOn(d)
  <2> PICK d \in Daemons : LooksOn(d)
    BY <1>8
  <2> DEFINE unclean == (phase = "running")
             survivors == (Survivors # {})
  <2>1. unclean \in BOOLEAN /\ survivors \in BOOLEAN
    OBVIOUS
  <2>2. saw' = [saw EXCEPT ![d].unclean = unclean, ![d].survivors = survivors]
    BY DEF LooksOn, Look
  <2> HIDE DEF unclean, survivors
  <2>3. saw' \in [Daemons -> [unclean : BOOLEAN, survivors : BOOLEAN, reap : BOOLEAN]]
    BY <2>1, <2>2, ZenonT(30)
  <2>4. found' \in [Daemons -> SUBSET Runs]
    BY SMTT(20) DEF LooksOn, Look
  <2> QED
    BY <2>3, <2>4 DEF LooksOn, Look, Goes, runVars
<1>9. CASE \E d \in Daemons : ClaimsOn(d) \/ TellsOn(d) \/ MovesOn(d)
  BY <1>9, ZenonT(30) DEF ClaimsOn, Claim, TellsOn, Tell, MovesOn, Goes, runVars, history
<1>10. CASE \E d \in Daemons : BeatRead(d) \/ BeatWrite(d) \/ CloseRun(d)
  BY <1>10 DEF BeatRead, BeatWrite, CloseRun, runVars, history
<1>11. CASE \E d \in Daemons : SweepLook(d) \/ SweepHomes(d)
  <2>1. sweep' \in [Daemons -> SUBSET (Runs \cup {Nobody})]
    BY <1>3, <1>11 DEF SweepLook, SweepHomes
  <2>2. home' \subseteq Runs /\ stripped' \subseteq Runs
    BY <1>11 DEF SweepLook, SweepHomes, runVars, history
  <2> QED
    BY <1>11, <2>1, <2>2 DEF SweepLook, SweepHomes, runVars, history
<1>12. CASE \E r \in Runs : Register(r) \/ WorkerExits(r) \/ Unregister(r) \/ ForegroundDies(r)
  BY <1>12 DEF Register, WorkerExits, Unregister, ForegroundDies, Orphaned, daemonVars, history
<1>13. CASE \E r \in Runs : Close(r) \/ Cancel(r)
  BY <1>13 DEF Close, Cancel, Killed, daemonVars
<1>14. CASE \E r \in Runs, p \in Daemons \cup {Foreground} : Spawn(r, p)
  BY <1>14 DEF Spawn, daemonVars, history
<1>15. CASE \E x \in Reapers : ReapRead(x) \/ \E r \in Runs : ReapKill(x, r)
  <2>1. ASSUME NEW x \in Reapers, ReapRead(x)
        PROVE  reap' \in [Reapers -> [active : BOOLEAN, todo : SUBSET Runs]]
    <3>1. [active |-> TRUE, todo |-> registry] \in [active : BOOLEAN, todo : SUBSET Runs]
      OBVIOUS
    <3> QED
      BY <2>1, <3>1 DEF ReapRead
  <2>2. ASSUME NEW x \in Reapers, NEW r \in Runs, ReapKill(x, r)
        PROVE  reap' \in [Reapers -> [active : BOOLEAN, todo : SUBSET Runs]]
    BY <2>2 DEF ReapKill
  <2>3. reap' \in [Reapers -> [active : BOOLEAN, todo : SUBSET Runs]]
    BY <1>15, <2>1, <2>2
  <2>4. group' \subseteq Runs
    BY <1>15 DEF ReapRead, ReapKill, Killed, runVars
  <2> QED
    BY <1>15, <2>3, <2>4 DEF ReapRead, ReapKill, Killed, daemonVars, runVars, history
<1>16. CASE \E x \in Reapers : SavesReap(x)
  <2> PICK x \in Reapers : SavesReap(x)
    BY <1>16
  <2>1. CASE x = Operator
    BY <1>2, <2>1 DEF SavesReap, ReapSave, runVars, history
  <2>2. CASE x \in Daemons /\ x # Operator
    <3>1. pc' \in [Daemons -> Places]
      BY <2>2 DEF SavesReap, ReapSave, Goes
    <3>2. reap' \in [Reapers -> [active : BOOLEAN, todo : SUBSET Runs]]
      BY <1>2 DEF SavesReap, ReapSave
    <3> QED
      BY <2>2, <3>1, <3>2 DEF SavesReap, ReapSave, Goes, runVars, history
  <2> QED
    BY <2>1, <2>2
<1>17. CASE AbandonsReap \/ DiskStep \/ UNCHANGED vars
  BY <1>2, <1>17 DEF AbandonsReap, DiskStep, DiskFails, DiskBack, daemonVars, runVars, history, vars
<1> QED
  BY <1>4, <1>5, <1>6, <1>7, <1>8, <1>9, <1>10, <1>11, <1>12, <1>13, <1>14, <1>15, <1>16,
     <1>17, Steps

LEMMA DeathKept ==
  ASSUME IInv, [Next]_vars
  PROVE  DeathsKept' /\ LedgerTellsDeaths'
<1> USE DEF IInv, Types, DeathsKept, LedgerTellsDeaths, LockHeld, Holding, Places, Claimed
<1>1. CASE \E d \in Daemons : Quits(d)
  <2> PICK d \in Daemons, why \in SUBSET {"refused"} :
        /\ \E code \in {"0", "1", "75", "78"} : Exits(d, code, why)
        /\ d \in Claimed => why # {}
    BY <1>1 DEF Quits
  <2>1. /\ \A e \in Daemons : pc'[e] = IF e = d THEN "off" ELSE pc[e]
        /\ \A e \in Daemons \ {d} : saw'[e] = saw[e]
        /\ excuse' = excuse \cup why /\ phase' = phase /\ death' = death
    BY DEF Exits, Gone
  <2>2. DeathsKept'
    BY <2>1
  <2>3. Claimed' = Claimed \ {d}
    BY <2>1
  <2>4. CASE why # {}
    <3>1. excuse' # {}
      BY <2>1, <2>4
    <3> QED
      BY <2>1, <2>2, <3>1
  <2>5. CASE d \notin Claimed
    <3>1. Claimed' = Claimed
      BY <2>3, <2>5
    <3>2. excuse # {} => excuse' # {}
      BY <2>1
    <3> HIDE DEF Claimed
    <3> QED
      BY <2>1, <2>2, <3>1, <3>2
  <2> QED
    BY <2>4, <2>5
<1>2. CASE \E d \in Daemons : Crash(d)
  <2> PICK d \in Daemons : Crash(d)
    BY <1>2
  <2>1. /\ \A e \in Daemons : pc'[e] = IF e = d THEN "off" ELSE pc[e]
        /\ \A e \in Daemons \ {d} : saw'[e] = saw[e]
        /\ UNCHANGED <<phase, excuse>>
    BY DEF Crash, Gone
  <2>2. CASE d \in Claimed
    <3>1. death' = TRUE
      BY <2>2 DEF Crash
    <3>2. phase = "running" /\ lock = d
      BY <2>2
    <3> QED
      BY <2>1, <3>1, <3>2
  <2>3. CASE d \notin Claimed
    <3>1. death' = death
      BY <2>3, Zenon DEF Crash
    <3> QED
      BY <2>1, <2>3, <3>1
  <2> QED
    BY <2>2, <2>3
<1>3. CASE Reboot
  BY <1>3 DEF Reboot, Gone
<1>4. CASE \E d \in Daemons : Acquire(d)
  BY <1>4 DEF Acquire, history
<1>5. CASE \E d \in Daemons : LooksOn(d)
  BY <1>5 DEF LooksOn, Look, Goes
<1>6. CASE \E d \in Daemons : ClaimsOn(d)
  BY <1>6 DEF ClaimsOn, Claim, Goes, history
<1>7. CASE \E d \in Daemons : TellsOn(d)
  BY <1>7 DEF TellsOn, Tell, Goes
<1>8. CASE \E d \in Daemons : MovesOn(d)
  BY <1>8 DEF MovesOn, Goes, history
<1>9. CASE \E d \in Daemons : BeatWrite(d)
  <2>1. UNCHANGED <<pc, saw, death>> /\ (phase' = "running" \/ phase' = phase)
    BY <1>9 DEF BeatWrite
  <2>2. phase' # phase => excuse' # {}
    BY <1>9 DEF BeatWrite
  <2>3. phase' = phase => excuse' = excuse
    BY <1>9 DEF BeatWrite
  <2> QED
    BY <2>1, <2>2, <2>3
<1>10. CASE \E d \in Daemons : CloseRun(d)
  <2> PICK d \in Daemons : CloseRun(d)
    BY <1>10
  <2>1. UNCHANGED <<saw, death>> /\ ~death /\ pc' = [pc EXCEPT ![d] = "leaving"]
    BY DEF CloseRun
  <2>2. \A e \in Daemons : e # d => pc[e] \notin Holding
    BY DEF CloseRun
  <2>3. Claimed' = {}
    BY <2>1, <2>2
  <2>4. phase' = "stopped" \/ excuse' # {}
    BY DEF CloseRun
  <2> QED
    BY <2>1, <2>2, <2>3, <2>4
<1>11. CASE \E x \in Reapers : SavesReap(x)
  <2> PICK x \in Reapers : SavesReap(x)
    BY <1>11
  <2>1. CASE x = Operator
    BY <2>1 DEF SavesReap, ReapSave, history
  <2>2. CASE x \in Daemons /\ x # Operator
    BY <2>2 DEF SavesReap, ReapSave, Goes, history
  <2> QED
    BY <2>1, <2>2 DEF Reapers
<1>12. CASE UNCHANGED <<pc, phase, saw, death, excuse>>
  BY <1>12
<1> QED
  BY <1>1, <1>2, <1>3, <1>4, <1>5, <1>6, <1>7, <1>8, <1>9, <1>10, <1>11, <1>12,
     Steps, ZenonT(30)
     DEF BeatRead, SweepLook, SweepHomes, Register, WorkerExits, Close, Unregister,
         ForegroundDies, Cancel, Spawn, ReapRead, ReapKill, AbandonsReap, DiskStep, DiskFails,
         DiskBack, daemonVars, history, vars

\* Runs only grow older, are registered and given a group when young, and what
\* is forgivable stays so.
LEMMA RunsAge ==
  ASSUME IInv, [Next]_vars, NEW r \in Runs
  PROVE  /\ ~Young(r) => ~Young(r)'
         /\ r \in ever' \ ever => Young(r)
         /\ r \in group' \ group => run[r] = "idle"
         /\ r \in Forgivable => r \in Forgivable'
<1> USE DEF IInv, Types, RunPlaces, Young, Forgivable
<1>1. CASE \E d \in Daemons : Quits(d)
  BY <1>1 DEF Quits, Exits, Orphaned
<1>2. CASE Reboot \/ \E d \in Daemons : Crash(d)
  BY <1>2 DEF Reboot, Crash, Orphaned
<1>3. CASE \E d \in Daemons : LooksOn(d) \/ ClaimsOn(d) \/ TellsOn(d) \/ MovesOn(d)
  BY <1>3 DEF LooksOn, Look, ClaimsOn, Claim, TellsOn, Tell, MovesOn, Goes, runVars, history
<1>4. CASE \E d \in Daemons :
             \/ Acquire(d) \/ BeatRead(d) \/ BeatWrite(d) \/ SweepLook(d) \/ SweepHomes(d)
             \/ CloseRun(d)
  BY <1>4 DEF Acquire, BeatRead, BeatWrite, SweepLook, SweepHomes, CloseRun, runVars, history
<1>5. CASE \E q \in Runs : Register(q) \/ WorkerExits(q) \/ Unregister(q) \/ ForegroundDies(q)
  BY <1>5 DEF Register, WorkerExits, Unregister, ForegroundDies, Orphaned, history
<1>6. CASE \E q \in Runs : Close(q) \/ Cancel(q)
  BY <1>6 DEF Close, Cancel, Killed
<1>7. CASE \E q \in Runs, p \in Daemons \cup {Foreground} : Spawn(q, p)
  BY <1>7 DEF Spawn, history
<1>8. CASE \E x \in Reapers : ReapRead(x) \/ \E q \in Runs : ReapKill(x, q)
  BY <1>8 DEF ReapRead, ReapKill, Killed, runVars, history
<1>9. CASE \E x \in Reapers : SavesReap(x)
  BY <1>9 DEF SavesReap, ReapSave, Goes, runVars, history
<1>10. CASE AbandonsReap \/ DiskStep \/ UNCHANGED vars
  BY <1>10 DEF AbandonsReap, DiskStep, DiskFails, DiskBack, runVars, history, vars
<1> QED
  BY <1>1, <1>2, <1>3, <1>4, <1>5, <1>6, <1>7, <1>8, <1>9, <1>10, Steps

LEMMA OrderKept ==
  ASSUME IInv, [Next]_vars
  PROVE  RunsOrderly'
<1> USE DEF IInv, Types, RunPlaces, Young, RunsOrderly
<1>1. CASE \E d \in Daemons : Quits(d)
  BY <1>1 DEF Quits, Exits, Orphaned, Of, Supervised
<1>2. CASE Reboot \/ \E d \in Daemons : Crash(d)
  BY <1>2, ZenonT(30) DEF Reboot, Crash, Orphaned, Of, Supervised
<1>3. CASE \E d \in Daemons : SweepHomes(d)
  BY <1>3 DEF SweepHomes
<1>4. CASE \E q \in Runs : Register(q) \/ WorkerExits(q) \/ Unregister(q) \/ ForegroundDies(q)
  BY <1>4 DEF Register, WorkerExits, Unregister, ForegroundDies, Orphaned, history
<1>5. CASE \E q \in Runs : Close(q) \/ Cancel(q)
  BY <1>5 DEF Close, Cancel, Killed
<1>6. CASE \E q \in Runs, p \in Daemons \cup {Foreground} : Spawn(q, p)
  BY <1>6 DEF Spawn, history
<1>7. CASE \E x \in Reapers, q \in Runs : ReapKill(x, q)
  BY <1>7 DEF ReapKill, Killed
<1>8. CASE UNCHANGED <<run, group, home, ever, immortal>>
  BY <1>8
<1>9. CASE \E x \in Reapers : ReapRead(x) \/ SavesReap(x)
  BY <1>8, <1>9 DEF ReapRead, SavesReap, ReapSave, Goes, runVars, history
<1>10. CASE \E d \in Daemons : LooksOn(d) \/ ClaimsOn(d) \/ TellsOn(d) \/ MovesOn(d)
  BY <1>8, <1>10 DEF LooksOn, Look, ClaimsOn, Claim, TellsOn, Tell, MovesOn, Goes, runVars, history
<1>11. CASE \E d \in Daemons :
              Acquire(d) \/ BeatRead(d) \/ BeatWrite(d) \/ SweepLook(d) \/ CloseRun(d)
  BY <1>8, <1>11 DEF Acquire, BeatRead, BeatWrite, SweepLook, CloseRun, runVars, history
<1>12. CASE AbandonsReap \/ DiskStep \/ UNCHANGED vars
  BY <1>8, <1>12 DEF AbandonsReap, DiskStep, DiskFails, DiskBack, runVars, history, vars
<1> QED
  BY <1>1, <1>2, <1>3, <1>4, <1>5, <1>6, <1>7, <1>9, <1>10, <1>11, <1>12, Steps

LEMMA RegistryKept ==
  ASSUME IInv, [Next]_vars
  PROVE  RegistryOverstates' /\ ReapsCover'
<1> USE DEF IInv, Types, RunPlaces, RegistryOverstates, ReapsCover, Forgivable, Reapers
<1>1. CASE \E d \in Daemons : Quits(d)
  BY <1>1 DEF Quits, Exits, Gone, NoReap
<1>2. CASE \E d \in Daemons : Crash(d)
  BY <1>2 DEF Crash, Gone, NoReap
<1>3. CASE Reboot
  BY <1>3 DEF Reboot
<1>4. CASE \E r \in Runs : Register(r)
  BY <1>4 DEF Register
<1>5. CASE \E r \in Runs : Unregister(r)
  BY <1>5 DEF Unregister, RunsOrderly, history
<1>6. CASE \E r \in Runs : WorkerExits(r) \/ ForegroundDies(r)
  BY <1>6 DEF WorkerExits, ForegroundDies, history
<1>7. CASE \E r \in Runs : Close(r)
  BY <1>7 DEF Close, Killed
<1>8. CASE \E r \in Runs : Cancel(r)
  BY <1>8 DEF Cancel, Killed
<1>9. CASE \E r \in Runs, p \in Daemons \cup {Foreground} : Spawn(r, p)
  BY <1>9 DEF Spawn, RunsOrderly, Young, history
<1>10. CASE \E x \in Reapers : ReapRead(x)
  <2> PICK x \in Reapers : ReapRead(x)
    BY <1>10
  <2>1. /\ UNCHANGED <<group, registry, ever, immortal, overlap>>
        /\ reap'[x].todo = registry
        /\ \A y \in Reapers \ {x} : reap'[y] = reap[y]
    BY DEF ReapRead, runVars, history
  <2> QED
    BY <2>1
<1>11. CASE \E x \in Reapers, r \in Runs : ReapKill(x, r)
  <2> PICK x \in Reapers, r \in Runs : ReapKill(x, r)
    BY <1>11
  <2>1. /\ reap'[x].todo = reap[x].todo \ {r} /\ reap'[x].active = reap[x].active
        /\ \A y \in Reapers \ {x} : reap'[y] = reap[y]
        /\ UNCHANGED <<registry, ever, overlap>>
    BY DEF ReapKill
  <2>2. /\ group' \subseteq group /\ immortal \subseteq immortal'
        /\ r \in group' => r \in immortal'
    BY DEF ReapKill, Killed
  <2> QED
    BY <2>1, <2>2
<1>12. CASE \E x \in Reapers : SavesReap(x)
  <2> PICK x \in Reapers : SavesReap(x)
    BY <1>12
  <2>1. UNCHANGED <<group, ever, immortal, overlap>>
    BY DEF SavesReap, ReapSave, Goes, runVars, history
  <2>2. group \cap ever \subseteq Forgivable
    BY DEF SavesReap, ReapSave
  <2> QED
    BY <2>1, <2>2
<1>13. CASE AbandonsReap
  BY <1>13 DEF AbandonsReap, NoReap, runVars, history
<1>14. CASE UNCHANGED <<group, registry, ever, immortal, overlap, reap>>
  BY <1>14
<1>15. CASE \E d \in Daemons : LooksOn(d) \/ ClaimsOn(d) \/ TellsOn(d) \/ MovesOn(d)
  BY <1>14, <1>15 DEF LooksOn, Look, ClaimsOn, Claim, TellsOn, Tell, MovesOn, Goes, runVars, history
<1>16. CASE \E d \in Daemons :
              \/ Acquire(d) \/ BeatRead(d) \/ BeatWrite(d) \/ SweepLook(d) \/ SweepHomes(d)
              \/ CloseRun(d)
  BY <1>14, <1>16 DEF Acquire, BeatRead, BeatWrite, SweepLook, SweepHomes, CloseRun, runVars, history
<1>17. CASE DiskStep \/ UNCHANGED vars
  BY <1>14, <1>17 DEF DiskStep, DiskFails, DiskBack, runVars, history, vars
<1> QED
  BY <1>1, <1>2, <1>3, <1>4, <1>5, <1>6, <1>7, <1>8, <1>9, <1>10, <1>11, <1>12, <1>13,
     <1>15, <1>16, <1>17, Steps

LEMMA FoundKept ==
  ASSUME IInv, [Next]_vars
  PROVE  FoundAreGone'
<1> USE DEF FoundAreGone
<1> DEFINE Settled(d) ==
             \/ pc[d] \in {"reaped", "up", "stopping", "closing", "leaving"}
             \/ pc[d] \in {"checked", "claimed", "told"} /\ ~saw[d].survivors
\* Where a daemon neither looks again nor settles, it is enough that runs age.
<1>1. ASSUME NEW d \in Daemons, found'[d] = found[d], Settled(d)' => Settled(d)
      PROVE  /\ \A r \in found'[d] : ~Young(r)'
             /\ Settled(d)' => found'[d] \cap group' \cap ever' \subseteq Forgivable'
  <2>1. \A r \in found[d] : r \in Runs /\ ~Young(r)
    BY DEF IInv, Types
  <2>2. Settled(d) => found[d] \cap group \cap ever \subseteq Forgivable
    BY DEF IInv
  <2> HIDE DEF Settled
  <2> QED
    BY <1>1, <2>1, <2>2, RunsAge DEF Young
<1>2. ASSUME NEW d \in Daemons, found'[d] = {}
      PROVE  /\ \A r \in found'[d] : ~Young(r)'
             /\ Settled(d)' => found'[d] \cap group' \cap ever' \subseteq Forgivable'
  BY <1>2
<1>3. SUFFICES ASSUME NEW d \in Daemons
               PROVE  /\ \A r \in found'[d] : ~Young(r)'
                      /\ Settled(d)' => found'[d] \cap group' \cap ever' \subseteq Forgivable'
  OBVIOUS
<1> USE DEF IInv, Types, Places
<1>4. CASE \E e \in Daemons : Quits(e) \/ Crash(e)
  <2>1. found'[d] = {} \/ (found'[d] = found[d] /\ pc'[d] = pc[d] /\ saw'[d] = saw[d])
    BY <1>4 DEF Quits, Exits, Crash, Gone
  <2> QED
    BY <1>1, <1>2, <2>1
<1>5. CASE Reboot
  BY <1>2, <1>5 DEF Reboot, Gone
<1>6. CASE \E e \in Daemons : Acquire(e)
  BY <1>1, <1>6 DEF Acquire, history
<1>7. CASE \E e \in Daemons : LooksOn(e)
  <2> PICK e \in Daemons : LooksOn(e)
    BY <1>7
  <2>1. CASE e = d
    <3>1. /\ pc'[d] = "checked" /\ found'[d] = {r \in group : ~Supervised(r)}
          /\ saw'[d].survivors = (Survivors # {})
          /\ UNCHANGED <<run, group, ever, immortal, overlap>>
      BY <2>1 DEF LooksOn, Look, Goes, runVars
    <3>2. \A r \in found'[d] : ~Young(r)'
      BY <3>1 DEF Young, Supervised, RunsOrderly, RunPlaces
    <3>3. Settled(d)' => Survivors = {}
      BY <3>1
    <3>4. Survivors = {} => group \cap ever \subseteq Forgivable
      BY DEF Survivors, RegistryOverstates
    <3>5. Forgivable' = Forgivable
      BY <3>1 DEF Forgivable
    <3> QED
      BY <3>1, <3>2, <3>3, <3>4, <3>5
  <2>2. CASE e # d
    <3>1. found'[d] = found[d] /\ pc'[d] = pc[d] /\ saw'[d] = saw[d]
      BY <2>2 DEF LooksOn, Look, Goes
    <3> QED
      BY <1>1, <3>1
  <2> QED
    BY <2>1, <2>2
<1>8. CASE \E e \in Daemons : ClaimsOn(e) \/ TellsOn(e) \/ MovesOn(e) \/ CloseRun(e)
  <2>1. found'[d] = found[d] /\ saw'[d] = saw[d]
    BY <1>8 DEF ClaimsOn, Claim, TellsOn, Tell, MovesOn, CloseRun, history
  <2>2. Settled(d)' => Settled(d)
    <3>1. ASSUME NEW e \in Daemons, ClaimsOn(e) \/ TellsOn(e)
          PROVE  Settled(d)' => Settled(d)
      BY <2>1, <3>1 DEF ClaimsOn, Claim, TellsOn, Tell, Goes
    <3>2. ASSUME NEW e \in Daemons, MovesOn(e)
          PROVE  Settled(d)' => Settled(d)
      BY <2>1, <3>2 DEF MovesOn, Goes
    <3>3. ASSUME NEW e \in Daemons, CloseRun(e)
          PROVE  Settled(d)' => Settled(d)
      BY <2>1, <3>3 DEF CloseRun
    <3> QED
      BY <1>8, <3>1, <3>2, <3>3
  <2> QED
    BY <1>1, <2>1, <2>2
<1>9. CASE \E x \in Reapers : SavesReap(x)
  <2> PICK x \in Reapers : SavesReap(x)
    BY <1>9
  <2>1. found' = found /\ UNCHANGED <<run, group, ever, immortal, overlap>>
    BY DEF SavesReap, ReapSave, Goes, runVars, history
  <2>2. group \cap ever \subseteq Forgivable
    BY DEF SavesReap, ReapSave, ReapsCover
  <2>3. Forgivable' = Forgivable
    BY <2>1 DEF Forgivable
  <2>4. \A r \in found[d] : ~Young(r)'
    BY <2>1 DEF Young
  <2> QED
    BY <2>1, <2>2, <2>3, <2>4
<1>10. CASE UNCHANGED <<pc, saw, found>>
  BY <1>1, <1>10
<1> QED
  BY <1>4, <1>5, <1>6, <1>7, <1>8, <1>9, <1>10, Steps
     DEF BeatRead, BeatWrite, SweepLook, SweepHomes, Register, WorkerExits, Close, Unregister,
         ForegroundDies, Cancel, Spawn, ReapRead, ReapKill, AbandonsReap, DiskStep, DiskFails,
         DiskBack, daemonVars, history, vars

LEMMA SweepsKept ==
  ASSUME IInv, [Next]_vars
  PROVE  SweepsSpareTheLive'
<1> DEFINE Spared(r) == ~Young(r) /\ (r \in group \cap ever => r \in Forgivable)
           Kept(r) == ~Young(r) /\ (r \in ever => r \in Forgivable)
<1>1. \A r \in Runs : (Spared(r) => Spared(r)') /\ (Kept(r) => Kept(r)')
  BY RunsAge DEF Young
<1>2. ASSUME NEW d \in Daemons, sweep'[d] = sweep[d], sweep[d] # NoSweep
      PROVE  \A r \in sweep'[d] \cap Runs : Spared(r)'
  <2>1. \A r \in sweep[d] \cap Runs : Spared(r)
    BY <1>2 DEF IInv, SweepsSpareTheLive
  <2> QED
    BY <1>1, <1>2, <2>1
<1>3. \A r \in stripped : r \in Runs /\ Kept(r)'
  <2>1. \A r \in stripped : r \in Runs /\ Kept(r)
    BY DEF IInv, SweepsSpareTheLive, Types
  <2> QED
    BY <1>1, <2>1
<1>4. CASE \E d \in Daemons : SweepLook(d)
  <2> PICK d \in Daemons : SweepLook(d)
    BY <1>4
  <2>1. PICK old \in SUBSET {r \in home : run[r] # "spawned"} :
          sweep' = [sweep EXCEPT ![d] = old \ Survivors]
    BY DEF SweepLook
  <2>2. \A r \in (old \ Survivors) \cap Runs : Spared(r)
    BY DEF IInv, RunsOrderly, RegistryOverstates, Survivors, Young
  <2>3. sweep'[d] = old \ Survivors /\ \A e \in Daemons \ {d} : sweep'[e] = sweep[e]
    BY <2>1 DEF IInv, Types
  <2>4. stripped' = stripped
    BY DEF SweepLook, history
  <2> HIDE DEF Spared, Kept
  <2>5. \A e \in Daemons : sweep'[e] # NoSweep => \A r \in sweep'[e] \cap Runs : Spared(r)'
    BY <1>1, <1>2, <2>2, <2>3
  <2> QED
    BY <1>3, <2>4, <2>5 DEF SweepsSpareTheLive, Spared, Kept
<1>5. CASE \E d \in Daemons : SweepHomes(d)
  <2> PICK d \in Daemons : SweepHomes(d)
    BY <1>5
  <2>1. /\ sweep'[d] = NoSweep /\ \A e \in Daemons \ {d} : sweep'[e] = sweep[e]
        /\ stripped' = stripped \cup (sweep[d] \cap home \cap group)
        /\ sweep[d] # NoSweep
        /\ UNCHANGED <<run, group, ever, immortal, overlap>>
    BY DEF SweepHomes, IInv, Types
  <2>2. \A r \in sweep[d] \cap home \cap group : r \in Runs /\ Kept(r)
    BY <2>1 DEF IInv, Types, SweepsSpareTheLive
  <2>3. \A r \in stripped' : Kept(r)'
    BY <1>1, <1>3, <2>1, <2>2
  <2>4. \A e \in Daemons : sweep'[e] # NoSweep => \A r \in sweep'[e] \cap Runs : Spared(r)'
    BY <1>2, <2>1
  <2> QED
    BY <2>3, <2>4 DEF SweepsSpareTheLive
<1>6. ASSUME UNCHANGED stripped, \A d \in Daemons : sweep'[d] \in {NoSweep, sweep[d]}
      PROVE  SweepsSpareTheLive'
  BY <1>2, <1>3, <1>6 DEF SweepsSpareTheLive
<1>7. CASE Reboot \/ \E d \in Daemons : Quits(d) \/ Crash(d)
  BY <1>6, <1>7 DEF Reboot, Quits, Exits, Crash, Gone
<1>8. CASE UNCHANGED <<sweep, stripped>>
  BY <1>6, <1>8
<1>9. CASE \E d \in Daemons : LooksOn(d) \/ ClaimsOn(d) \/ TellsOn(d) \/ MovesOn(d)
  BY <1>8, <1>9 DEF LooksOn, Look, ClaimsOn, Claim, TellsOn, Tell, MovesOn, Goes, history
<1>10. CASE \E d \in Daemons : Acquire(d) \/ BeatRead(d) \/ BeatWrite(d) \/ CloseRun(d)
  BY <1>8, <1>10 DEF Acquire, BeatRead, BeatWrite, CloseRun, history
<1>11. CASE \E x \in Reapers :
              ReapRead(x) \/ SavesReap(x) \/ \E r \in Runs : ReapKill(x, r)
  BY <1>8, <1>11 DEF ReapRead, SavesReap, ReapSave, ReapKill, Goes, daemonVars, history
<1>12. CASE \E r \in Runs :
              \/ Register(r) \/ WorkerExits(r) \/ Close(r) \/ Unregister(r)
              \/ ForegroundDies(r) \/ Cancel(r)
              \/ \E p \in Daemons \cup {Foreground} : Spawn(r, p)
  BY <1>8, <1>12 DEF Register, WorkerExits, Close, Unregister, ForegroundDies, Cancel, Spawn,
                     daemonVars, history
<1>13. CASE AbandonsReap \/ DiskStep \/ UNCHANGED vars
  BY <1>8, <1>13 DEF AbandonsReap, DiskStep, DiskFails, DiskBack, daemonVars, history, vars
<1> QED
  BY <1>4, <1>5, <1>7, <1>9, <1>10, <1>11, <1>12, <1>13, Steps

LEMMA InvariantAlways == Spec => []IInv
<1>1. IInv /\ [Next]_vars => IInv'
  BY TypesKept, LockKept, DeathKept, OrderKept, RegistryKept, FoundKept, SweepsKept DEF IInv
<1> QED
  BY <1>1, InvariantHolds, PTL DEF Spec

-------------------------------------------------------------------------------
(* The theorems.                                                            *)

\* No registered worker group is alive and off the record, save one that
\* survived SIGKILL or registered while a reap was under way (proc.py,
\* ProcessRegistry and reap).
THEOREM RegistryNeverForgets == Spec => []RegistryOverstates
<1>1. IInv => RegistryOverstates
  BY DEF IInv
<1> QED
  BY <1>1, InvariantAlways, PTL

\* Between two lives the ledger says running exactly when a death is to be
\* reported or one of its four named excuses holds (lifecycle.py).
THEOREM LedgerIsRight == Spec => []LedgerTellsDeaths
<1>1. IInv => LedgerTellsDeaths
  BY DEF IInv
<1> QED
  BY <1>1, InvariantAlways, PTL

\* A daemon that is up left no worker of an earlier life alive but the
\* forgivable (daemon.py, start with its reap).
THEOREM RestartReplacesAlways == Spec => []RestartReplaces
<1>1. IInv => RestartReplaces
  BY DEF IInv, Types, FoundAreGone, RestartReplaces
<1> QED
  BY <1>1, InvariantAlways, PTL

\* The janitor takes no home from a living registered worker but the
\* forgivable (retention.py, the sweep of worker homes).
THEOREM LiveHomesStay == Spec => []HomesOfTheLiveStay
<1>1. IInv => HomesOfTheLiveStay
  BY DEF IInv, Types, SweepsSpareTheLive, HomesOfTheLiveStay
<1> QED
  BY <1>1, InvariantAlways, PTL
===============================================================================
