----------------------------- MODULE DroveProofs -----------------------------
(***************************************************************************)
(* Theorems about Drove, for every set of wakes and of runs, every target  *)
(* and limit, and any number of crashes, failed writes and starts by hand: *)
(* no target is watched twice, and a wake makes one run.                   *)
(***************************************************************************)
EXTENDS Drove, FiniteSetTheorems, TLAPS

-----------------------------------------------------------------------------
(* The inductive invariant.                                                *)

Starters == {"daemon", "hand"}

Starts == [stage : {"none", "asked", "answered", "loaded", "audit"},
           for : Wakes \cup {"hand", Nothing},
           code : {Nothing, "already_running", "capacity", "herdr-down", "failed", "started"},
           run : Runs \cup {Nothing},
           file : Files \cup {Nothing}]

Looks == [run : Runs \cup {Nothing},
          status : {Nothing, "unknown", "up", "down", "no-run"},
          late : BOOLEAN,
          file : Files \cup {Nothing}]

TypeOK ==
    /\ world \in [Runs -> {"none", "up", "down"}]
    /\ purpose \in [Runs -> Wakes \cup {"hand", Nothing}]
    /\ records \in Files
    /\ wake \in [Wakes -> {"absent", "pending", "abandoned", "started", "refused"}]
    /\ deferred \subseteq Wakes
    /\ starting \in [Starters -> Starts]
    /\ pc \notin {"wakes", "mark"} => todo \subseteq Runs
    /\ look \in Looks
    /\ crossed \in BOOLEAN

\* Only runs that Drove made are on record, in the file and in every copy of it.
OnlyMadeRuns(file) == \A r \in Runs : file[r] # "absent" => world[r] # "none"
FilesTellOfRuns ==
    /\ OnlyMadeRuns(records)
    /\ look.file # Nothing => OnlyMadeRuns(look.file)
    /\ \A p \in Starters : starting[p].stage = "loaded" => OnlyMadeRuns(starting[p].file)

\* A start knows what it is for, and the run it was given is for that.
Made(start) == start.stage \in {"answered", "loaded"}
StartsKnow ==
    /\ \A p \in Starters : Made(starting[p]) =>
          /\ starting[p].code = "started"
          /\ starting[p].run \in Runs
          /\ world[starting[p].run] # "none"
          /\ purpose[starting[p].run] = starting[p].for
    /\ \A p \in Starters : starting[p].stage = "loaded" => starting[p].file \in Files
    /\ starting["hand"] # NoStart => starting["hand"].for = "hand"
    /\ starting["daemon"] # NoStart =>
          starting["daemon"].for \in Wakes /\ wake[starting["daemon"].for] # "absent"

\* The wakes of a pass: none of them is settled, deferred or in hand.
PassesAreClean ==
    /\ pc = "mark" <=> starting["daemon"] # NoStart
    /\ pc = "mark" => starting["daemon"].for \notin deferred \cup todo
    /\ pc \in {"wakes", "mark"} =>
          /\ todo \subseteq Wakes \ deferred
          /\ \A w \in todo : wake[w] \in {"pending", "abandoned"}

\* While nothing crosses, one start is under way at a time ...
OneAtATime ==
    ~crossed => starting["daemon"] = NoStart \/ starting["hand"] = NoStart

\* ... and what it found when it looked at the watches is still so.
Room(for) ==
    /\ Cardinality(Watching(records)) < MaxRuns
    /\ \A r \in Watching(records) : Target[purpose[r]] # Target[for]
ChecksHold ==
    ~crossed => \A p \in Starters :
        starting[p].stage \in {"asked", "answered", "loaded"} => Room(starting[p].for)

Over == {"started", "refused", "abandoned"}

\* Where a run that is watched stands in the way of a second one for its wake:
\* outside a pass, before its wake's turn in the pass, and in its wake's turn.
Guarded(r) ==
    LET w == purpose[r]  start == starting["daemon"] IN
    /\ w \notin deferred
    /\ \/ pc \in {"idle", "handler", "dead", "down"}
       \/ pc \in {"wakes", "mark"} /\ w \in todo
       \/ pc = "mark" /\ start.stage = "audit" /\ start.for = w /\ start.code \notin Transient

\* Of a run that a wake made and that is not lost, the wake is over, or it is in the
\* hands of the start that made it, or it is watched and stands guard.
Accounted(r) ==
    \/ wake[purpose[r]] \in Over
    \/ Made(starting["daemon"]) /\ starting["daemon"].run = r
    \/ wake[purpose[r]] = "pending" /\ records[r] = "watching" /\ Guarded(r)
RunsAccountedFor ==
    ~crossed => \A r \in Runs \ lost : purpose[r] \in Wakes => Accounted(r)

\* A start that asks for a run asks for the first of its wake.
AsksForTheFirst ==
    ~crossed /\ starting["daemon"].stage = "asked" =>
        \A r \in Runs \ lost : purpose[r] # starting["daemon"].for

\* OneRunPerWake, said of the runs and not of their number.
OneEach ==
    ~crossed => \A r, s \in Runs \ lost :
        purpose[r] \in Wakes /\ purpose[r] = purpose[s] => r = s

IInv ==
    /\ TypeOK
    /\ FilesTellOfRuns
    /\ StartsKnow
    /\ PassesAreClean
    /\ OneAtATime
    /\ ChecksHold
    /\ WatchedOnce
    /\ RunsAccountedFor
    /\ AsksForTheFirst
    /\ OneEach

USE DroveAssumption DEF Starters

-----------------------------------------------------------------------------
(* What Drove makes, and how the state ages.                               *)

\* An id is fresh until a run has it.
LEMMA FreshIsNew ==
    ASSUME NEW p \in Starters, MakeRun(p)
    PROVE  Fresh \in Runs /\ world[Fresh] = "none"
  BY DEF MakeRun, Fresh

\* Making a run leaves those there are alone.
LEMMA MakeRunEffect ==
    ASSUME TypeOK, NEW p \in Starters, MakeRun(p)
    PROVE  /\ world' \in [Runs -> {"none", "up", "down"}]
           /\ purpose' \in [Runs -> Wakes \cup {"hand", Nothing}]
           /\ world'[Fresh] = "up" /\ purpose'[Fresh] = starting[p].for
           /\ \A r \in Runs \ {Fresh} : world'[r] = world[r] /\ purpose'[r] = purpose[r]
<1>1. Fresh \in Runs
  BY FreshIsNew
<1>2. starting[p].for \in Wakes \cup {"hand", Nothing}
  BY DEF TypeOK, Starts
<1> QED
  BY <1>1, <1>2 DEF MakeRun, TypeOK

\* A start and its record.
LEMMA NoStartIsStart == NoStart \in Starts /\ NoStart.stage = "none"
  BY DEF NoStart, Starts

LEMMA TypeKept ==
    ASSUME IInv, [Next]_vars
    PROVE  TypeOK'
<1> USE DEF IInv, TypeOK
<1>1. CASE UNCHANGED vars
  BY <1>1 DEF vars, external
<1>2. CASE BeginPass
  BY <1>2 DEF BeginPass, external
<1>3. ASSUME NEW w \in Wakes, StartForWake(w)
      PROVE  TypeOK'
  <2>1. starting' \in [Starters -> Starts] /\ crossed' \in BOOLEAN
    BY <1>3 DEF StartForWake, Check, NoStart, Starts
  <2> QED
    BY <1>3, <2>1 DEF StartForWake, external, rest
<1>4. ASSUME NEW p \in Starters, AnswerRun(p) \/ AnswerNot(p)
      PROVE  /\ starting' \in [Starters -> Starts]
             /\ world' \in [Runs -> {"none", "up", "down"}]
             /\ purpose' \in [Runs -> Wakes \cup {"hand", Nothing}]
  <2>1. CASE AnswerRun(p)
    BY <2>1, FreshIsNew, MakeRunEffect DEF AnswerRun, Starts
  <2>2. CASE AnswerNot(p)
    BY <2>2, MakeRunEffect DEF AnswerNot, Refused, Starts, external
  <2> QED
    BY <1>4, <2>1, <2>2
<1>5. CASE Ask
  BY <1>5, <1>4 DEF Ask, rest
<1>6. ASSUME NEW p \in Starters, LoadRuns(p)
      PROVE  starting' \in [Starters -> Starts]
  BY <1>6 DEF LoadRuns, Starts
<1>7. CASE Load
  BY <1>7, <1>6 DEF Load, external, rest
<1>8. ASSUME NEW p \in Starters, SaveRun(p)
      PROVE  starting' \in [Starters -> Starts] /\ records' \in Files /\ crossed' \in BOOLEAN
  <2>1. starting[p].file \in Files
    BY <1>8 DEF SaveRun, StartsKnow
  <2>2. records' \in Files
    BY <1>8, <2>1 DEF SaveRun, Files
  <2>3. starting' \in [Starters -> Starts]
    BY <1>8 DEF SaveRun, Starts
  <2>4. crossed' \in BOOLEAN
    BY <1>8 DEF SaveRun
  <2> QED
    BY <2>2, <2>3, <2>4
<1>9. CASE Save
  BY <1>9, <1>8 DEF Save, external, rest
<1>10. CASE Mark
  <2>1. starting["daemon"] \in Starts /\ starting["daemon"].for \in Wakes
    BY <1>10, NoStartIsStart DEF Mark, StartsKnow
  <2>2. starting' \in [Starters -> Starts]
    BY <1>10, NoStartIsStart DEF Mark
  <2> QED
    BY <1>10, <2>1, <2>2 DEF Mark, external
<1>11. CASE BeginTick \/ EndTick
  BY <1>11 DEF BeginTick, EndTick, Watching, ThreadOnly, external, rest
<1>12. CASE ReadRoster
  <2>1. PICK r \in todo, said \in {"unknown", "up", "down", "no-run"} :
            look' = [Unseen EXCEPT !.run = r, !.status = said, !.late = r \in expired]
    BY <1>12 DEF ReadRoster
  <2>2. ASSUME NEW late \in BOOLEAN
        PROVE  [Unseen EXCEPT !.run = r, !.status = said, !.late = late] \in Looks
    BY <1>12 DEF ReadRoster, Looks, Unseen
  <2>3. (r \in expired) \in BOOLEAN
    OBVIOUS
  <2>4. look' \in Looks
    BY <2>1, <2>2, <2>3, Zenon
  <2> QED
    BY <1>12, <2>4 DEF ReadRoster, ThreadOnly, external, rest
<1>13. CASE LoadWatch
  <2>1. look' \in Looks
    BY <1>13 DEF LoadWatch, Looks
  <2> QED
    BY <1>13, <2>1 DEF LoadWatch, ThreadOnly, external, rest
<1>14. CASE Update
  BY <1>14 DEF Update, SaveWatch, Looks, ThreadOnly, external, rest
<1>15. CASE Finish
  <2>1. look.file \in Files
    BY <1>15 DEF Finish, SaveWatch, Looks
  <2>2. records' \in Files
    BY <1>15, <2>1 DEF Finish, SaveWatch, Files, How
  <2>3. look' \in Looks
    BY <1>15 DEF Finish, SaveWatch, Looks
  <2>4. crossed' \in BOOLEAN
    BY <1>15 DEF Finish, SaveWatch
  <2> QED
    BY <1>15, <2>2, <2>3, <2>4 DEF Finish, ThreadOnly, external, rest
<1>16. Unseen \in Looks
  BY DEF Unseen, Looks
<1>17. CASE Tell
  BY <1>17, <1>16 DEF Tell, ThreadOnly, external, rest
<1>18. CASE WriteFails
  BY <1>18, <1>16, NoStartIsStart DEF WriteFails, Abort
<1>19. CASE Crash
  BY <1>19, <1>16, NoStartIsStart, MakeRunEffect DEF Crash, Abort
<1>20. CASE Handle \/ Restart
  BY <1>20 DEF Handle, Restart, ThreadOnly, external, rest
<1>21. CASE HandStart
  <2>1. starting' \in [Starters -> Starts] /\ crossed' \in BOOLEAN
    BY <1>21 DEF HandStart, Check, NoStart, Starts
  <2> QED
    BY <1>21, <2>1 DEF HandStart, external, threadVars
<1>22. CASE HandWorks
  BY <1>22, <1>4, <1>6, <1>8 DEF HandWorks, external, threadVars, rest
<1>23. CASE HandEnds
  BY <1>23, NoStartIsStart DEF HandEnds, external, threadVars
<1>24. ASSUME NEW w \in Wakes, Arrive(w) \/ Abandon(w)
       PROVE  TypeOK'
  BY <1>24 DEF Arrive, Abandon, external, threadVars
<1>25. ASSUME NEW r \in Runs, RunEnds(r) \/ DeadlinePasses(r)
       PROVE  TypeOK'
  BY <1>25 DEF RunEnds, DeadlinePasses, threadVars, rest
<1> QED
  BY <1>1, <1>2, <1>3, <1>5, <1>7, <1>9, <1>10, <1>11, <1>12, <1>13, <1>14, <1>15, <1>17,
     <1>18, <1>19, <1>20, <1>21, <1>22, <1>23, <1>24, <1>25 DEF Next, Thread

\* What a step may do to a start.
LEMMA StartSteps ==
    ASSUME IInv, [Next]_vars, NEW p \in Starters
    PROVE  \/ starting'[p] = starting[p]
           \/ starting'[p] = NoStart
           \/ p = "daemon" /\ \E w \in Wakes : StartForWake(w)
           \/ p = "hand" /\ HandStart
           \/ AnswerRun(p)
           \/ AnswerNot(p)
           \/ LoadRuns(p) /\ UNCHANGED external
           \/ SaveRun(p) /\ UNCHANGED external
<1> USE DEF IInv, TypeOK
<1>1. CASE UNCHANGED vars
  BY <1>1 DEF vars
<1>2. CASE Ask
  BY <1>2 DEF Ask, AnswerRun, AnswerNot, Refused
<1>3. CASE Load
  BY <1>3 DEF Load, LoadRuns
<1>4. CASE Save
  BY <1>4 DEF Save, SaveRun
<1>5. ASSUME NEW w \in Wakes, StartForWake(w)
      PROVE  \/ starting'[p] = starting[p]
             \/ p = "daemon" /\ \E v \in Wakes : StartForWake(v)
  BY <1>5 DEF StartForWake, Check
<1>6. CASE Mark \/ HandEnds
  BY <1>6 DEF Mark, HandEnds
<1>7. CASE WriteFails \/ Crash
  BY <1>7 DEF WriteFails, Crash, Abort
<1>8. CASE HandStart
  BY <1>8 DEF HandStart, Check
<1>9. CASE HandWorks
  BY <1>9 DEF HandWorks, AnswerRun, AnswerNot, Refused, LoadRuns, SaveRun
<1>10. CASE BeginPass
  BY <1>10 DEF BeginPass
<1>11. CASE BeginTick \/ EndTick \/ ReadRoster \/ LoadWatch \/ Update \/ Finish \/ Tell
            \/ Handle \/ Restart
  BY <1>11 DEF BeginTick, EndTick, ReadRoster, LoadWatch, Update, Finish, Tell, Handle,
               Restart, ThreadOnly
<1>12. ASSUME NEW w \in Wakes, Arrive(w) \/ Abandon(w)
       PROVE  starting' = starting
  BY <1>12 DEF Arrive, Abandon
<1>13. ASSUME NEW r \in Runs, RunEnds(r) \/ DeadlinePasses(r)
       PROVE  starting' = starting
  BY <1>13 DEF RunEnds, DeadlinePasses
<1> QED
  BY <1>1, <1>2, <1>3, <1>4, <1>5, <1>6, <1>7, <1>8, <1>9, <1>10, <1>11, <1>12, <1>13
     DEF Next, Thread

\* What each step of a start makes of it.
LEMMA CheckEffect ==
    ASSUME IInv, NEW p \in Starters, NEW for, Check(p, for)
    PROVE  LET start == starting'[p] IN
           /\ start # NoStart /\ start.stage \in {"asked", "audit"} /\ start.for = for
           /\ start.stage = "asked" =>
                Cardinality(Live) < MaxRuns /\ \A r \in Live : Target[purpose[r]] # Target[for]
           /\ (\E r \in Live : Target[purpose[r]] = Target[for]) => start.code = "already_running"
<1> USE DEF IInv, TypeOK
<1>1. CASE \E r \in Live : Target[purpose[r]] = Target[for]
  <2>1. starting'[p] = [NoStart EXCEPT !.stage = "audit", !.for = for, !.code = "already_running"]
    BY <1>1 DEF Check
  <2>2. starting'[p].stage = "audit" /\ starting'[p].for = for /\ starting'[p].code = "already_running"
    BY <2>1 DEF NoStart
  <2> QED
    BY <1>1, <2>2, NoStartIsStart
<1>2. CASE /\ ~\E r \in Live : Target[purpose[r]] = Target[for]
           /\ Cardinality(Live) >= MaxRuns
  <2>1. starting'[p] = [NoStart EXCEPT !.stage = "audit", !.for = for, !.code = "capacity"]
    BY <1>2 DEF Check
  <2>2. starting'[p].stage = "audit" /\ starting'[p].for = for /\ starting'[p].code = "capacity"
    BY <2>1 DEF NoStart
  <2> QED
    BY <1>2, <2>2, NoStartIsStart
<1>3. CASE /\ ~\E r \in Live : Target[purpose[r]] = Target[for]
           /\ ~(Cardinality(Live) >= MaxRuns)
  <2>1. starting'[p] = [NoStart EXCEPT !.stage = "asked", !.for = for]
    BY <1>3 DEF Check
  <2>2. Cardinality(Live) \in Nat
    BY FS_CardinalityType, FS_Subset DEF Live, Watching
  <2>3. starting'[p].stage = "asked" /\ starting'[p].for = for
    BY <2>1 DEF NoStart
  <2> QED
    BY <1>3, <2>2, <2>3, NoStartIsStart
<1> QED
  BY <1>1, <1>2, <1>3

LEMMA AnswerEffect ==
    ASSUME IInv, NEW p \in Starters
    PROVE  /\ AnswerRun(p) =>
                /\ starting[p].stage = "asked" /\ starting'[p].stage = "answered"
                /\ starting'[p].code = "started" /\ starting'[p].run = Fresh
                /\ starting'[p].for = starting[p].for
           /\ AnswerNot(p) =>
                /\ starting[p].stage = "asked" /\ starting'[p].stage = "audit"
                /\ starting'[p].for = starting[p].for
  BY DEF IInv, TypeOK, Starts, AnswerRun, AnswerNot, Refused

LEMMA FileEffect ==
    ASSUME IInv, NEW p \in Starters
    PROVE  /\ LoadRuns(p) =>
                /\ starting[p].stage = "answered" /\ starting'[p].stage = "loaded"
                /\ starting'[p].code = starting[p].code /\ starting'[p].run = starting[p].run
                /\ starting'[p].for = starting[p].for /\ starting'[p].file = records
           /\ SaveRun(p) =>
                /\ starting[p].stage = "loaded" /\ starting'[p].stage = "audit"
                /\ starting'[p].code = starting[p].code
                /\ starting'[p].for = starting[p].for
  BY DEF IInv, TypeOK, Starts, LoadRuns, SaveRun

\* Where a start was not under way, it can only begin.
LEMMA StartsBegin ==
    ASSUME IInv, [Next]_vars, NEW p \in Starters, starting[p] = NoStart, starting'[p] # NoStart
    PROVE  \/ p = "daemon" /\ \E w \in Wakes : StartForWake(w)
           \/ p = "hand" /\ HandStart
  BY StartSteps, NoStartIsStart DEF AnswerRun, AnswerNot, LoadRuns, SaveRun

\* What a step may do to the file of runs.
LEMMA FileSteps ==
    ASSUME IInv, [Next]_vars
    PROVE  \/ records' = records
           \/ \E p \in Starters : SaveRun(p) /\ UNCHANGED external
           \/ Update
           \/ Finish
<1>1. CASE UNCHANGED vars
  BY <1>1 DEF vars
<1>2. CASE Ask \/ Load \/ Mark \/ BeginPass
  BY <1>2 DEF Ask, Load, Mark, BeginPass
<1>3. CASE Save \/ HandWorks
  BY <1>3 DEF Save, HandWorks
<1>4. ASSUME NEW w \in Wakes, StartForWake(w) \/ Arrive(w) \/ Abandon(w)
      PROVE  records' = records
  BY <1>4 DEF StartForWake, Arrive, Abandon
<1>5. CASE BeginTick \/ EndTick \/ ReadRoster \/ LoadWatch \/ Tell \/ Handle \/ Restart
  BY <1>5 DEF BeginTick, EndTick, ReadRoster, LoadWatch, Tell, Handle, Restart
<1>6. CASE WriteFails \/ Crash
  BY <1>6 DEF WriteFails, Crash, Abort
<1>7. CASE HandStart \/ HandEnds
  BY <1>7 DEF HandStart, HandEnds
<1>8. ASSUME NEW r \in Runs, RunEnds(r) \/ DeadlinePasses(r)
      PROVE  records' = records
  BY <1>8 DEF RunEnds, DeadlinePasses
<1> QED
  BY <1>1, <1>2, <1>3, <1>4, <1>5, <1>6, <1>7, <1>8 DEF Next, Thread

\* What a step may do to Drove: a run is made for a start that is told of it, or is
\* lost at once.
LEMMA WorldSteps ==
    ASSUME IInv, [Next]_vars
    PROVE  \/ UNCHANGED <<world, purpose>>
           \/ \E r \in Runs : RunEnds(r)
           \/ \E p \in Starters : AnswerRun(p)
           \/ \E p \in Starters : MakeRun(p) /\ Fresh \in lost' /\ starting[p].stage = "asked"
<1>1. CASE UNCHANGED vars
  BY <1>1 DEF vars, external
<1>2. CASE Ask \/ HandWorks
  BY <1>2 DEF Ask, HandWorks, AnswerNot, external
<1>3. CASE Load \/ Save \/ Mark \/ BeginPass
  BY <1>3 DEF Load, Save, Mark, BeginPass, external
<1>4. ASSUME NEW w \in Wakes, StartForWake(w) \/ Arrive(w) \/ Abandon(w)
      PROVE  UNCHANGED <<world, purpose>>
  BY <1>4 DEF StartForWake, Arrive, Abandon, external
<1>5. CASE BeginTick \/ EndTick \/ ReadRoster \/ LoadWatch \/ Update \/ Finish \/ Tell
           \/ Handle \/ Restart
  BY <1>5 DEF BeginTick, EndTick, ReadRoster, LoadWatch, Update, Finish, Tell, Handle,
              Restart, ThreadOnly, external
<1>6. CASE WriteFails \/ Crash
  BY <1>6 DEF WriteFails, Crash
<1>7. CASE HandStart \/ HandEnds
  BY <1>7 DEF HandStart, HandEnds, external
<1>8. ASSUME NEW r \in Runs, RunEnds(r) \/ DeadlinePasses(r)
      PROVE  UNCHANGED <<world, purpose>> \/ RunEnds(r)
  BY <1>8 DEF DeadlinePasses
<1> QED
  BY <1>1, <1>2, <1>3, <1>4, <1>5, <1>6, <1>7, <1>8 DEF Next, Thread

\* A run that was made stays made, and for what it was made for.
LEMMA RunsStay ==
    ASSUME IInv, [Next]_vars, NEW r \in Runs, world[r] # "none"
    PROVE  world'[r] # "none" /\ purpose'[r] = purpose[r]
<1> USE DEF IInv, TypeOK
<1>1. ASSUME NEW s \in Runs, RunEnds(s)
      PROVE  world'[r] # "none" /\ purpose'[r] = purpose[r]
  BY <1>1 DEF RunEnds
<1>2. ASSUME NEW p \in Starters, MakeRun(p)
      PROVE  world'[r] # "none" /\ purpose'[r] = purpose[r]
  BY <1>2, FreshIsNew, MakeRunEffect
<1> QED
  BY WorldSteps, <1>1, <1>2 DEF AnswerRun

\* A wake that is over stays so, and one that came does not go.
LEMMA WakesStay ==
    ASSUME IInv, [Next]_vars, NEW w \in Wakes
    PROVE  /\ wake[w] \in Over => wake'[w] \in Over
           /\ wake[w] # "absent" => wake'[w] # "absent"
<1> USE DEF IInv, TypeOK, Over
<1>1. CASE UNCHANGED vars
  BY <1>1 DEF vars
<1>2. CASE Ask \/ Load \/ Save \/ BeginPass
  BY <1>2 DEF Ask, Load, Save, BeginPass, rest
<1>3. CASE Mark
  BY <1>3 DEF Mark
<1>4. ASSUME NEW v \in Wakes, StartForWake(v) \/ Arrive(v) \/ Abandon(v)
      PROVE  /\ wake[w] \in Over => wake'[w] \in Over
             /\ wake[w] # "absent" => wake'[w] # "absent"
  BY <1>4 DEF StartForWake, Arrive, Abandon, rest
<1>5. CASE BeginTick \/ EndTick \/ ReadRoster \/ LoadWatch \/ Update \/ Finish \/ Tell
           \/ Handle \/ Restart
  BY <1>5 DEF BeginTick, EndTick, ReadRoster, LoadWatch, Update, Finish, Tell, Handle,
              Restart, ThreadOnly, rest
<1>6. CASE WriteFails \/ Crash
  BY <1>6 DEF WriteFails, Crash, Abort
<1>7. CASE HandStart \/ HandWorks \/ HandEnds
  BY <1>7 DEF HandStart, HandWorks, HandEnds, rest
<1>8. ASSUME NEW r \in Runs, RunEnds(r) \/ DeadlinePasses(r)
      PROVE  wake' = wake
  BY <1>8 DEF RunEnds, DeadlinePasses, rest
<1> QED
  BY <1>1, <1>2, <1>3, <1>4, <1>5, <1>6, <1>7, <1>8 DEF Next, Thread

\* What is lost stays lost, and what crossed stays crossed.
LEMMA HistoryGrows ==
    ASSUME IInv, [Next]_vars
    PROVE  lost \subseteq lost' /\ (crossed => crossed')
<1> USE DEF IInv, TypeOK
<1>1. CASE UNCHANGED vars
  BY <1>1 DEF vars
<1>2. CASE Ask \/ HandWorks
  BY <1>2 DEF Ask, HandWorks, AnswerRun, AnswerNot, SaveRun
<1>3. CASE Load \/ Save \/ Mark \/ BeginPass
  BY <1>3 DEF Load, Save, SaveRun, Mark, BeginPass
<1>4. ASSUME NEW w \in Wakes, StartForWake(w) \/ Arrive(w) \/ Abandon(w)
      PROVE  lost \subseteq lost' /\ (crossed => crossed')
  BY <1>4 DEF StartForWake, Check, Arrive, Abandon
<1>5. CASE BeginTick \/ EndTick \/ ReadRoster \/ LoadWatch \/ Update \/ Finish \/ Tell
           \/ Handle \/ Restart
  BY <1>5 DEF BeginTick, EndTick, ReadRoster, LoadWatch, Update, Finish, Tell, Handle,
              Restart, SaveWatch
<1>6. CASE WriteFails \/ Crash
  BY <1>6 DEF WriteFails, Crash, Abort
<1>7. CASE HandStart \/ HandEnds
  BY <1>7 DEF HandStart, HandEnds, Check
<1>8. ASSUME NEW r \in Runs, RunEnds(r) \/ DeadlinePasses(r)
      PROVE  lost \subseteq lost' /\ (crossed => crossed')
  BY <1>8 DEF RunEnds, DeadlinePasses
<1> QED
  BY <1>1, <1>2, <1>3, <1>4, <1>5, <1>6, <1>7, <1>8 DEF Next, Thread

\* Without a crossing, what is written is what is there but for the run in hand.
LEMMA OwnWrite ==
    ASSUME TypeOK, NEW file \in Files, Undone(file) = {}
    PROVE  file = records
  BY DEF TypeOK, Undone, Files

LEMMA SavedAlone ==
    ASSUME IInv, ~crossed', NEW p \in Starters, SaveRun(p)
    PROVE  /\ ~crossed /\ starting[p].stage = "loaded"
           /\ starting[p].run \in Runs
           /\ records' = [records EXCEPT ![starting[p].run] = "watching"]
<1>1. starting[p].stage = "loaded" /\ starting[p].file \in Files /\ starting[p].run \in Runs
  BY DEF SaveRun, IInv, StartsKnow, Made
<1>2. ~crossed /\ Undone(starting[p].file) = {}
  BY DEF SaveRun, IInv, TypeOK
<1> QED
  BY <1>1, <1>2, OwnWrite DEF SaveRun, IInv

LEMMA ClosedAlone ==
    ASSUME IInv, ~crossed', Update \/ Finish
    PROVE  /\ ~crossed
           /\ \A r \in Runs : records'[r] # records[r] => pc = "finish" /\ records'[r] = How
           /\ \A r \in Runs : records'[r] = "absent" <=> records[r] = "absent"
<1>1. look.file \in Files
  BY DEF IInv, TypeOK, Looks, Update, Finish, SaveWatch
<1>2. ~crossed /\ Undone(look.file) = {}
  BY DEF Update, Finish, SaveWatch, IInv, TypeOK
<1>3. look.file = records
  BY <1>1, <1>2, OwnWrite DEF IInv
<1> QED
  BY <1>1, <1>2, <1>3 DEF Update, Finish, SaveWatch, How, Files

\* The watches of a file that nothing crossed: a start adds its run, an end takes one
\* away.
LEMMA WatchingSteps ==
    ASSUME IInv, [Next]_vars, ~crossed'
    PROVE  /\ ~crossed
           /\ \/ Watching(records') \subseteq Watching(records)
              \/ \E p \in Starters :
                    /\ SaveRun(p) /\ UNCHANGED external
                    /\ starting[p].stage = "loaded"
                    /\ starting[p].run \in Runs
                    /\ Watching(records') = Watching(records) \cup {starting[p].run}
<1>1. ~crossed
  BY HistoryGrows
<1>2. CASE records' = records
  BY <1>1, <1>2
<1>3. ASSUME NEW p \in Starters, SaveRun(p), UNCHANGED external
      PROVE  /\ starting[p].stage = "loaded"
             /\ starting[p].run \in Runs
             /\ Watching(records') = Watching(records) \cup {starting[p].run}
  BY <1>3, SavedAlone DEF Watching, IInv, TypeOK, Files
<1>4. CASE Update \/ Finish
  BY <1>1, <1>4, ClosedAlone DEF Watching, How
<1> QED
  BY <1>1, <1>2, <1>3, <1>4, FileSteps

LEMMA WatchesAreFew ==
    ASSUME IInv
    PROVE  IsFiniteSet(Watching(records))
  BY FS_Subset DEF Watching

-----------------------------------------------------------------------------
(* The invariant is inductive, part by part.                               *)

\* Nothing has been asked of Drove yet.
LEMMA InvariantHolds == Init => IInv
<1> SUFFICES ASSUME Init PROVE IInv
  OBVIOUS
<1> USE DEF Init
<1>1. TypeOK
  BY NoStartIsStart DEF TypeOK, Files, Looks, Unseen
<1>2. FilesTellOfRuns /\ StartsKnow /\ PassesAreClean
  BY NoStartIsStart
     DEF FilesTellOfRuns, OnlyMadeRuns, StartsKnow, Made, PassesAreClean, Unseen
<1>3. OneAtATime /\ ChecksHold
  BY NoStartIsStart DEF OneAtATime, ChecksHold
<1>4. WatchedOnce
  <2>1. Watching(records) = {}
    BY DEF Watching
  <2> QED
    BY <2>1, FS_EmptySet DEF WatchedOnce
<1>5. RunsAccountedFor /\ AsksForTheFirst /\ OneEach
  BY NoStartIsStart DEF RunsAccountedFor, AsksForTheFirst, OneEach
<1> QED
  BY <1>1, <1>2, <1>3, <1>4, <1>5 DEF IInv

\* A record is made of a run that Drove answered with, or is copied.
LEMMA FilesKept ==
    ASSUME IInv, [Next]_vars
    PROVE  FilesTellOfRuns'
<1> USE DEF IInv, FilesTellOfRuns, OnlyMadeRuns
<1>1. \A r \in Runs : records'[r] # "absent" => world'[r] # "none"
  <2>1. ASSUME NEW p \in Starters, SaveRun(p), NEW r \in Runs, records'[r] # "absent"
        PROVE  world[r] # "none"
    BY <2>1 DEF SaveRun, StartsKnow, Made, Files
  <2>2. ASSUME Update \/ Finish, NEW r \in Runs, records'[r] # "absent"
        PROVE  world[r] # "none"
    BY <2>2 DEF Update, Finish, SaveWatch, TypeOK, Looks, Files
  <2> QED
    BY <2>1, <2>2, FileSteps, RunsStay
<1>2. look'.file \in {Nothing, look.file, records}
  <2> USE DEF TypeOK, Looks
  <2>1. CASE LoadWatch
    BY <2>1 DEF LoadWatch
  <2>2. CASE Update \/ Finish
    BY <2>2 DEF Update, Finish, SaveWatch
  <2>3. CASE Tell \/ WriteFails \/ Crash
    BY <2>3 DEF Tell, WriteFails, Crash, Abort, Unseen
  <2>9. CASE ReadRoster
    <3>1. PICK r, said :
              look' = [Unseen EXCEPT !.run = r, !.status = said, !.late = r \in expired]
      BY <2>9 DEF ReadRoster
    <3>2. ASSUME NEW late
          PROVE  [Unseen EXCEPT !.run = r, !.status = said, !.late = late].file = Nothing
      BY DEF Unseen
    <3>3. look'.file = Nothing
      BY <3>1, <3>2, Zenon
    <3> QED
      BY <3>3
  <2>4. CASE UNCHANGED vars
    BY <2>4 DEF vars
  <2>5. CASE Ask \/ Load \/ Save \/ Mark \/ BeginPass \/ BeginTick \/ EndTick \/ Handle \/ Restart
    BY <2>5 DEF Ask, Load, Save, Mark, BeginPass, BeginTick, EndTick, Handle, Restart
  <2>6. CASE HandStart \/ HandWorks \/ HandEnds
    BY <2>6 DEF HandStart, HandWorks, HandEnds, threadVars
  <2>7. ASSUME NEW w \in Wakes, StartForWake(w) \/ Arrive(w) \/ Abandon(w)
        PROVE  look' = look
    BY <2>7 DEF StartForWake, Arrive, Abandon, threadVars
  <2>8. ASSUME NEW r \in Runs, RunEnds(r) \/ DeadlinePasses(r)
        PROVE  look' = look
    BY <2>8 DEF RunEnds, DeadlinePasses, threadVars
  <2> QED
    BY <2>1, <2>2, <2>3, <2>4, <2>5, <2>6, <2>7, <2>8, <2>9 DEF Next, Thread
<1>3. ASSUME NEW p \in Starters, starting'[p].stage = "loaded"
      PROVE  \/ starting'[p] = starting[p]
             \/ starting'[p].file = records
  BY <1>3, StartSteps, NoStartIsStart, CheckEffect, AnswerEffect, FileEffect
     DEF StartForWake, HandStart
<1> QED
  BY <1>1, <1>2, <1>3, RunsStay

\* A start is told of a run that was made for it, and takes it to the file.
LEMMA StartsKept ==
    ASSUME IInv, [Next]_vars
    PROVE  StartsKnow'
<1> USE DEF IInv, StartsKnow, Made
<1>1. ASSUME NEW p \in Starters, starting'[p].stage \in {"answered", "loaded"}
      PROVE  /\ starting'[p].code = "started"
             /\ starting'[p].run \in Runs
             /\ world'[starting'[p].run] # "none"
             /\ purpose'[starting'[p].run] = starting'[p].for
  <2>1. CASE starting'[p] = starting[p]
    BY <1>1, <2>1, RunsStay
  <2>2. CASE AnswerRun(p)
    <3>1. MakeRun(p)
      BY <2>2 DEF AnswerRun
    <3>2. /\ Fresh \in Runs /\ world'[Fresh] = "up"
          /\ purpose'[Fresh] = starting[p].for
      BY <3>1, FreshIsNew, MakeRunEffect
    <3>3. /\ starting'[p].code = "started" /\ starting'[p].run = Fresh
          /\ starting'[p].for = starting[p].for
      BY <2>2, AnswerEffect
    <3> QED
      BY <3>2, <3>3
  <2>3. CASE LoadRuns(p) /\ UNCHANGED external
    BY <2>3, FileEffect DEF external
  <2> QED
    BY <1>1, <2>1, <2>2, <2>3, StartSteps, NoStartIsStart, CheckEffect, AnswerEffect, FileEffect
       DEF StartForWake, HandStart
<1>2. ASSUME NEW p \in Starters, starting'[p].stage = "loaded"
      PROVE  starting'[p].file \in Files
  BY <1>2, StartSteps, NoStartIsStart, CheckEffect, AnswerEffect, FileEffect
     DEF StartForWake, HandStart, TypeOK
<1>3. ASSUME starting'["hand"] # NoStart
      PROVE  starting'["hand"].for = "hand"
  BY <1>3, StartSteps, NoStartIsStart, CheckEffect, AnswerEffect, FileEffect
     DEF HandStart, AnswerRun, AnswerNot, LoadRuns, SaveRun
<1>4. ASSUME starting'["daemon"] # NoStart
      PROVE  starting'["daemon"].for \in Wakes /\ wake'[starting'["daemon"].for] # "absent"
  <2>1. CASE \E w \in Wakes : StartForWake(w)
    <3>1. PICK w \in Wakes : StartForWake(w)
      BY <2>1
    <3>2. starting'["daemon"].for = w /\ wake'[w] = wake[w] /\ wake[w] # "absent"
      BY <3>1, CheckEffect DEF StartForWake, rest, PassesAreClean
    <3> QED
      BY <3>2
  <2>2. CASE ~\E w \in Wakes : StartForWake(w)
    <3>1. /\ starting["daemon"] # NoStart
          /\ starting'["daemon"].for = starting["daemon"].for
      BY <1>4, <2>2, StartSteps, NoStartIsStart, AnswerEffect, FileEffect
         DEF AnswerRun, AnswerNot, LoadRuns, SaveRun
    <3> QED
      BY <3>1, WakesStay DEF TypeOK
  <2> QED
    BY <2>1, <2>2
<1> QED
  BY <1>1, <1>2, <1>3, <1>4

\* A start begins only where none is under way, or is counted as a crossing.
LEMMA OneKept ==
    ASSUME IInv, [Next]_vars
    PROVE  OneAtATime'
<1> SUFFICES ASSUME ~crossed', starting'["daemon"] # NoStart, starting'["hand"] # NoStart
             PROVE  FALSE
  BY DEF OneAtATime
<1>1. starting["daemon"] = NoStart \/ starting["hand"] = NoStart
  BY HistoryGrows DEF IInv, OneAtATime
<1>2. ASSUME NEW w \in Wakes, StartForWake(w)
      PROVE  FALSE
  <2>1. starting["hand"] = NoStart
    BY <1>2 DEF StartForWake, Check, IInv, TypeOK
  <2> QED
    BY <1>2, <2>1 DEF StartForWake, Check, IInv, TypeOK
<1>3. CASE HandStart
  <2>1. starting["daemon"] = NoStart
    BY <1>3 DEF HandStart, Check, IInv, TypeOK
  <2> QED
    BY <1>3, <2>1 DEF HandStart, Check, IInv, TypeOK
<1> QED
  BY <1>1, <1>2, <1>3, StartsBegin

\* While a start is under way nothing else adds a watch.
LEMMA ChecksKept ==
    ASSUME IInv, [Next]_vars
    PROVE  ChecksHold'
<1> SUFFICES ASSUME ~crossed', NEW p \in Starters,
                    starting'[p].stage \in {"asked", "answered", "loaded"}
             PROVE  Room(starting[p].for)'
  BY DEF ChecksHold
<1>1. ~crossed
  BY WatchingSteps
<1>2. CASE \/ p = "daemon" /\ \E w \in Wakes : StartForWake(w)
           \/ p = "hand" /\ HandStart
  <2>1. Check(p, starting'[p].for) /\ UNCHANGED <<purpose, records>>
    BY <1>2, CheckEffect DEF StartForWake, HandStart, external
  <2> QED
    BY <2>1, CheckEffect DEF Room, Live
<1>3. CASE \/ starting'[p] = starting[p]
           \/ AnswerRun(p)
           \/ LoadRuns(p)
  <2>1. starting'[p].for = starting[p].for /\ starting[p].stage \in {"asked", "answered", "loaded"}
    BY <1>3, AnswerEffect, FileEffect
  <2>2. Room(starting[p].for)
    BY <1>1, <2>1 DEF IInv, ChecksHold
  <2>3. Watching(records') \subseteq Watching(records)
    <3>1. ASSUME NEW q \in Starters, SaveRun(q)
          PROVE  FALSE
      <4>1. starting[q] # NoStart /\ starting[p] # NoStart
        BY <3>1, <2>1, NoStartIsStart DEF SaveRun
      <4>2. q = p
        BY <1>1, <4>1 DEF IInv, OneAtATime
      <4> QED
        BY <1>3, <3>1, <4>2, AnswerEffect, FileEffect
    <3> QED
      BY <3>1, WatchingSteps
  <2>4. \A r \in Watching(records) : purpose'[r] = purpose[r]
    BY RunsStay DEF IInv, FilesTellOfRuns, OnlyMadeRuns, Watching
  <2>5. Cardinality(Watching(records')) <= Cardinality(Watching(records))
    BY <2>3, WatchesAreFew, FS_Subset
  <2>6. Cardinality(Watching(records')) \in Nat /\ Cardinality(Watching(records)) \in Nat
    BY <2>3, WatchesAreFew, FS_Subset, FS_CardinalityType
  <2> QED
    BY <2>1, <2>2, <2>3, <2>4, <2>5, <2>6 DEF Room
<1> QED
  BY <1>2, <1>3, StartSteps, NoStartIsStart, AnswerEffect, FileEffect

\* The watch a start adds is of a target and a number it has looked at.
LEMMA WatchesKept ==
    ASSUME IInv, [Next]_vars
    PROVE  WatchedOnce'
<1> SUFFICES ASSUME ~crossed'
             PROVE  /\ Cardinality(Watching(records')) <= MaxRuns
                    /\ \A r, s \in Watching(records') :
                          Target[purpose'[r]] = Target[purpose'[s]] => r = s
  BY DEF WatchedOnce
<1>1. ~crossed
  BY WatchingSteps
<1>2. /\ Cardinality(Watching(records)) <= MaxRuns
      /\ \A r, s \in Watching(records) : Target[purpose[r]] = Target[purpose[s]] => r = s
  BY <1>1 DEF IInv, WatchedOnce
<1>3. \A r \in Watching(records) : purpose'[r] = purpose[r]
  BY RunsStay DEF IInv, FilesTellOfRuns, OnlyMadeRuns, Watching
<1>4. CASE Watching(records') \subseteq Watching(records)
  <2>1. Cardinality(Watching(records')) <= Cardinality(Watching(records))
    BY <1>4, WatchesAreFew, FS_Subset
  <2>2. Cardinality(Watching(records')) \in Nat /\ Cardinality(Watching(records)) \in Nat
    BY <1>4, WatchesAreFew, FS_Subset, FS_CardinalityType
  <2> QED
    BY <1>2, <1>3, <1>4, <2>1, <2>2
<1>5. ASSUME NEW p \in Starters, UNCHANGED external, starting[p].stage = "loaded",
             starting[p].run \in Runs,
             Watching(records') = Watching(records) \cup {starting[p].run}
      PROVE  /\ Cardinality(Watching(records')) <= MaxRuns
             /\ \A r, s \in Watching(records') :
                   Target[purpose'[r]] = Target[purpose'[s]] => r = s
  <2>1. Room(starting[p].for) /\ purpose[starting[p].run] = starting[p].for
    BY <1>1, <1>5 DEF IInv, ChecksHold, StartsKnow, Made
  <2>2. Cardinality(Watching(records')) <= Cardinality(Watching(records)) + 1
    <3>1. Cardinality(Watching(records) \cup {starting[p].run}) =
             IF starting[p].run \in Watching(records) THEN Cardinality(Watching(records))
             ELSE Cardinality(Watching(records)) + 1
      BY WatchesAreFew, FS_AddElement
    <3>2. Cardinality(Watching(records)) \in Nat
      BY WatchesAreFew, FS_CardinalityType
    <3> QED
      BY <1>5, <3>1, <3>2
  <2>3. Cardinality(Watching(records')) \in Nat /\ Cardinality(Watching(records)) \in Nat
    BY <1>5, WatchesAreFew, FS_AddElement, FS_CardinalityType
  <2> QED
    BY <1>2, <1>5, <2>1, <2>2, <2>3 DEF Room, external
<1> QED
  BY <1>4, <1>5, WatchingSteps

\* A pass takes wakes that are pending and not deferred, one after the other.
LEMMA PassesKept ==
    ASSUME IInv, [Next]_vars
    PROVE  PassesAreClean'
<1> USE DEF IInv, TypeOK, PassesAreClean
<1>1. CASE UNCHANGED <<pc, todo, wake, deferred>> /\ starting'["daemon"] = starting["daemon"]
  BY <1>1
<1>2. CASE BeginPass
  BY <1>2 DEF BeginPass
<1>3. ASSUME NEW w \in Wakes, StartForWake(w)
      PROVE  PassesAreClean'
  <2>1. starting'["daemon"] # NoStart /\ starting'["daemon"].for = w
    BY <1>3, CheckEffect DEF StartForWake
  <2> QED
    BY <1>3, <2>1 DEF StartForWake, rest
<1>4. CASE Ask \/ Load \/ Save
  <2>1. UNCHANGED <<pc, todo, wake, deferred>>
    BY <1>4 DEF Ask, Load, Save, rest
  <2>2. /\ starting["daemon"] # NoStart /\ starting'["daemon"] # NoStart
        /\ starting'["daemon"].for = starting["daemon"].for
    BY <1>4, NoStartIsStart, AnswerEffect, FileEffect DEF Ask, Load, Save
  <2> QED
    BY <2>1, <2>2
<1>5. CASE Mark
  <2>1. starting["daemon"].for \in Wakes
    BY <1>5, NoStartIsStart DEF Mark, StartsKnow
  <2> QED
    BY <1>5, <2>1 DEF Mark
<1>6. CASE BeginTick \/ EndTick \/ ReadRoster \/ Update \/ Finish \/ Tell \/ Handle \/ Restart
  BY <1>6 DEF BeginTick, EndTick, ReadRoster, Update, Finish, SaveWatch, Tell, Handle, Restart,
              ThreadOnly, rest
<1>7. CASE LoadWatch
  BY <1>1, <1>7 DEF LoadWatch, ThreadOnly, rest
<1>8. CASE WriteFails \/ Crash
  BY <1>8 DEF WriteFails, Crash, Abort
<1>9. CASE HandStart \/ HandEnds
  BY <1>1, <1>9 DEF HandStart, Check, HandEnds, threadVars
<1>10. CASE HandWorks
  <2>1. starting'["daemon"] = starting["daemon"]
    BY <1>10 DEF HandWorks, AnswerRun, AnswerNot, Refused, LoadRuns, SaveRun
  <2> QED
    BY <1>1, <1>10, <2>1 DEF HandWorks, threadVars, rest
<1>11. ASSUME NEW w \in Wakes, Arrive(w) \/ Abandon(w)
       PROVE  PassesAreClean'
  BY <1>11 DEF Arrive, Abandon, threadVars
<1>12. ASSUME NEW r \in Runs, RunEnds(r) \/ DeadlinePasses(r)
       PROVE  PassesAreClean'
  BY <1>1, <1>12 DEF RunEnds, DeadlinePasses, threadVars, rest
<1>13. CASE UNCHANGED vars
  BY <1>1, <1>13 DEF vars
<1> QED
  BY <1>2, <1>3, <1>4, <1>5, <1>6, <1>7, <1>8, <1>9, <1>10, <1>11, <1>12, <1>13 DEF Next, Thread

\* A run that is not lost and that this step did not make was made for the same.
LEMMA OldOrFresh ==
    ASSUME IInv, [Next]_vars, NEW r \in Runs \ lost', purpose'[r] \in Wakes
    PROVE  \/ r \in Runs \ lost /\ purpose'[r] = purpose[r]
           \/ AnswerRun("daemon") /\ r = Fresh /\ purpose'[r] = starting["daemon"].for
<1> USE DEF IInv, TypeOK
<1>1. r \in Runs \ lost
  BY HistoryGrows
<1>2. ASSUME NEW p \in Starters, AnswerRun(p)
      PROVE  \/ purpose'[r] = purpose[r]
             \/ AnswerRun("daemon") /\ r = Fresh /\ purpose'[r] = starting["daemon"].for
  <2>1. MakeRun(p)
    BY <1>2 DEF AnswerRun
  <2>2. CASE r # Fresh
    BY <2>1, <2>2, MakeRunEffect
  <2>3. CASE r = Fresh
    <3>1. purpose'[r] = starting[p].for
      BY <2>1, <2>3, MakeRunEffect
    <3>2. starting["hand"].for = "hand" \/ p # "hand"
      BY <1>2, NoStartIsStart DEF AnswerRun, StartsKnow
    <3> QED
      BY <1>2, <2>3, <3>1, <3>2
  <2> QED
    BY <2>2, <2>3
<1>3. ASSUME NEW p \in Starters, MakeRun(p), Fresh \in lost'
      PROVE  purpose'[r] = purpose[r]
  BY <1>3, MakeRunEffect
<1>4. ASSUME NEW s \in Runs, RunEnds(s)
      PROVE  purpose'[r] = purpose[r]
  BY <1>4 DEF RunEnds
<1> QED
  BY <1>1, <1>2, <1>3, <1>4, WorldSteps

\* The run of a start that asked for the first of its wake is the first.
LEMMA OneEachKept ==
    ASSUME IInv, [Next]_vars
    PROVE  OneEach'
<1> SUFFICES ASSUME ~crossed', NEW r \in Runs \ lost', NEW s \in Runs \ lost',
                    purpose'[r] \in Wakes, purpose'[r] = purpose'[s]
             PROVE  r = s
  BY DEF OneEach
<1>1. ~crossed
  BY HistoryGrows
<1>2. CASE AnswerRun("daemon")
  <2>1. \A q \in Runs \ lost : purpose[q] # starting["daemon"].for
    BY <1>1, <1>2 DEF AnswerRun, IInv, AsksForTheFirst
  <2> QED
    BY <1>1, <2>1, OldOrFresh DEF IInv, OneEach
<1>3. CASE ~AnswerRun("daemon")
  BY <1>1, <1>3, OldOrFresh DEF IInv, OneEach
<1> QED
  BY <1>2, <1>3

\* Where a start may ask, no run of its wake is accounted for.
LEMMA FirstKept ==
    ASSUME IInv, [Next]_vars
    PROVE  AsksForTheFirst'
<1> SUFFICES ASSUME ~crossed', starting'["daemon"].stage = "asked", NEW r \in Runs \ lost'
             PROVE  purpose'[r] # starting'["daemon"].for
  BY DEF AsksForTheFirst
<1>1. ~crossed
  BY HistoryGrows
<1>2. CASE starting'["daemon"] = starting["daemon"]
  <2>1. ~AnswerRun("daemon") /\ starting["daemon"].for \in Wakes
    BY <1>2, AnswerEffect, NoStartIsStart DEF IInv, StartsKnow
  <2> QED
    BY <1>1, <1>2, <2>1, OldOrFresh DEF IInv, AsksForTheFirst
<1>3. ASSUME NEW w \in Wakes, StartForWake(w), purpose'[r] = w
      PROVE  FALSE
  <2>1. r \in Runs \ lost /\ purpose[r] = w
    BY <1>3 DEF StartForWake, external
  <2>2. /\ pc = "wakes" /\ w \in todo /\ wake[w] = "pending"
        /\ starting["daemon"] = NoStart
    BY <1>3 DEF StartForWake, Check, IInv, PassesAreClean
  <2>3. records[r] = "watching"
    BY <1>1, <1>3, <2>1, <2>2, NoStartIsStart
       DEF IInv, RunsAccountedFor, Accounted, Made, Over
  <2>4. r \in Live /\ Target[purpose[r]] = Target[w]
    BY <2>1, <2>3 DEF Live, Watching
  <2>5. starting'["daemon"].stage = "asked" => \A q \in Live : Target[purpose[q]] # Target[w]
    BY <1>3, CheckEffect DEF StartForWake
  <2> QED
    BY <2>4, <2>5
<1>4. ASSUME NEW w \in Wakes, StartForWake(w)
      PROVE  starting'["daemon"].for = w
  BY <1>4, CheckEffect DEF StartForWake
<1> QED
  BY <1>2, <1>3, <1>4, StartSteps, NoStartIsStart, AnswerEffect, FileEffect

\* Of the other runs of the file, the ones watched are watched still, unless one of
\* them was looked at and found down.
LEMMA WatchStays ==
    ASSUME IInv, [Next]_vars, ~crossed', NEW r \in Runs, records[r] = "watching"
    PROVE  records'[r] = "watching" \/ pc = "finish"
<1>1. ASSUME NEW p \in Starters, SaveRun(p)
      PROVE  records'[r] = "watching"
  BY <1>1, SavedAlone DEF IInv, TypeOK, Files
<1>2. CASE Update \/ Finish
  BY <1>2, ClosedAlone
<1> QED
  BY <1>1, <1>2, FileSteps

\* A start that has made its run keeps it, records it, or loses it.
LEMMA MadeIsAccounted ==
    ASSUME IInv, [Next]_vars, ~crossed', NEW r \in Runs \ lost', purpose'[r] = purpose[r],
           Made(starting["daemon"]), starting["daemon"].run = r
    PROVE  Accounted(r)'
<1> USE DEF IInv, TypeOK
<1>1. /\ starting["daemon"] # NoStart /\ pc = "mark"
      /\ starting["daemon"].for = purpose[r] /\ starting["daemon"].for \notin deferred
  BY NoStartIsStart DEF Made, PassesAreClean, StartsKnow
<1>2. CASE starting'["daemon"] = starting["daemon"]
  BY <1>2 DEF Accounted, Made
<1>3. CASE LoadRuns("daemon")
  BY <1>3, FileEffect DEF Accounted, Made
<1>4. CASE Save
  <2>1. records'[r] = "watching" /\ UNCHANGED <<pc, deferred, wake>>
    BY <1>4, SavedAlone DEF Save, rest, Files
  <2>2. /\ starting'["daemon"].stage = "audit" /\ starting'["daemon"].code = "started"
        /\ starting'["daemon"].for = purpose[r]
    BY <1>1, <1>4, FileEffect DEF Save, StartsKnow, Made
  <2>3. Guarded(r)'
    BY <1>1, <2>1, <2>2 DEF Guarded, Transient
  <2>4. wake'[purpose[r]] \in Over \cup {"pending"}
    BY <1>1, <2>1 DEF StartsKnow, Over
  <2> QED
    BY <2>1, <2>3, <2>4 DEF Accounted
<1>5. CASE WriteFails \/ Crash
  <2>1. r \in Dropped("daemon") /\ starting["daemon"].stage # "asked"
    BY DEF Dropped, Made
  <2>2. r \in lost'
    BY <1>5, <2>1 DEF WriteFails, Crash
  <2> QED
    BY <2>2
<1>6. CASE HandWorks
  <2>1. starting'["daemon"] = starting["daemon"]
    BY <1>6 DEF HandWorks, AnswerRun, AnswerNot, Refused, LoadRuns, SaveRun
  <2> QED
    BY <1>2, <2>1
<1>7. CASE HandStart \/ HandEnds
  BY <1>2, <1>7 DEF HandStart, Check, HandEnds
<1>8. ASSUME NEW w \in Wakes, Arrive(w) \/ Abandon(w)
      PROVE  starting' = starting
  BY <1>8 DEF Arrive, Abandon
<1>9. ASSUME NEW q \in Runs, RunEnds(q) \/ DeadlinePasses(q)
      PROVE  starting' = starting
  BY <1>9 DEF RunEnds, DeadlinePasses
<1>10. CASE UNCHANGED vars
  BY <1>2, <1>10 DEF vars
<1>11. ASSUME Ask PROVE FALSE
  BY <1>11, AnswerEffect DEF Ask, Made
<1>12. ASSUME NEW w \in Wakes, StartForWake(w) PROVE FALSE
  BY <1>1, <1>12 DEF StartForWake
<1>13. ASSUME BeginPass \/ Mark \/ BeginTick \/ EndTick \/ ReadRoster \/ LoadWatch \/ Update
              \/ Finish \/ Tell \/ Handle \/ Restart
       PROVE  FALSE
  BY <1>1, <1>13 DEF BeginPass, Mark, BeginTick, EndTick, ReadRoster, LoadWatch, Update,
                     Finish, Tell, Handle, Restart, Made
<1> QED
  BY <1>2, <1>3, <1>4, <1>5, <1>6, <1>7, <1>8, <1>9, <1>10, <1>11, <1>12, <1>13
     DEF Next, Thread, Load

\* Nothing ends a watch while it stands guard, but its wake's end.
LEMMA GuardKept ==
    ASSUME IInv, [Next]_vars, NEW r \in Runs, purpose'[r] = purpose[r],
           purpose[r] \in Wakes, wake[purpose[r]] = "pending",
           records[r] = "watching", Guarded(r)
    PROVE  Guarded(r)' \/ wake'[purpose[r]] \in Over
<1> USE DEF IInv, TypeOK, Guarded, Over, PassesAreClean
<1> DEFINE w == purpose[r]
<1>1. CASE UNCHANGED <<pc, todo, deferred>> /\ starting'["daemon"] = starting["daemon"]
  BY <1>1
<1>2. CASE BeginPass
  BY <1>2 DEF BeginPass
<1>3. ASSUME NEW v \in Wakes, StartForWake(v)
      PROVE  Guarded(r)'
  <2>1. CASE w = v
    <3>1. starting'["daemon"].stage = "audit" /\ starting'["daemon"].code = "already_running"
          /\ starting'["daemon"].for = w
      <4>1. r \in Live
        BY DEF Live, Watching
      <4> QED
        BY <1>3, <2>1, <4>1, CheckEffect DEF StartForWake
    <3> QED
      BY <1>3, <2>1, <3>1 DEF StartForWake, rest, Transient
  <2>2. CASE w # v
    BY <1>3, <2>2 DEF StartForWake, Check, rest
  <2> QED
    BY <2>1, <2>2
<1>4. CASE Ask \/ Load \/ Save
  <2>1. UNCHANGED <<pc, todo, deferred>> /\ starting["daemon"].stage # "audit"
    BY <1>4 DEF Ask, Load, Save, rest, AnswerRun, AnswerNot, LoadRuns, SaveRun
  <2>2. pc = "mark"
    BY <1>4, NoStartIsStart DEF Ask, Load, Save, AnswerRun, AnswerNot, LoadRuns, SaveRun
  <2> QED
    BY <2>1, <2>2
<1>5. CASE Mark
  <2>1. starting["daemon"].for \in Wakes
    BY <1>5, NoStartIsStart DEF Mark, StartsKnow
  <2> QED
    BY <1>5, <2>1 DEF Mark
<1>6. CASE BeginTick
  BY <1>6 DEF BeginTick
<1>7. ASSUME EndTick \/ ReadRoster \/ LoadWatch \/ Update \/ Finish \/ Tell
      PROVE  FALSE
  BY <1>7 DEF EndTick, ReadRoster, LoadWatch, Update, Finish, Tell
<1>8. CASE Handle \/ Restart
  BY <1>8 DEF Handle, Restart, ThreadOnly, rest
<1>9. CASE WriteFails \/ Crash
  BY <1>9 DEF WriteFails, Crash, Abort
<1>10. CASE HandStart \/ HandEnds
  BY <1>1, <1>10 DEF HandStart, Check, HandEnds, threadVars
<1>11. CASE HandWorks
  <2>1. starting'["daemon"] = starting["daemon"]
    BY <1>11 DEF HandWorks, AnswerRun, AnswerNot, Refused, LoadRuns, SaveRun
  <2> QED
    BY <1>1, <1>11, <2>1 DEF HandWorks, threadVars, rest
<1>12. ASSUME NEW v \in Wakes, Arrive(v) \/ Abandon(v)
       PROVE  Guarded(r)'
  BY <1>1, <1>12 DEF Arrive, Abandon, threadVars
<1>13. ASSUME NEW q \in Runs, RunEnds(q) \/ DeadlinePasses(q)
       PROVE  Guarded(r)'
  BY <1>1, <1>13 DEF RunEnds, DeadlinePasses, threadVars, rest
<1>14. CASE UNCHANGED vars
  BY <1>1, <1>14 DEF vars
<1> QED
  BY <1>2, <1>3, <1>4, <1>5, <1>6, <1>7, <1>8, <1>9, <1>10, <1>11, <1>12, <1>13, <1>14
     DEF Next, Thread

\* A wake is looked at before the watch on its run is, and finds it.
LEMMA AccountsKept ==
    ASSUME IInv, [Next]_vars
    PROVE  RunsAccountedFor'
<1> SUFFICES ASSUME ~crossed', NEW r \in Runs \ lost', purpose'[r] \in Wakes
             PROVE  Accounted(r)'
  BY DEF RunsAccountedFor
<1>1. ~crossed
  BY HistoryGrows
<1>2. CASE AnswerRun("daemon") /\ r = Fresh
  BY <1>2, AnswerEffect DEF Accounted, Made
<1>3. ASSUME r \in Runs \ lost, purpose'[r] = purpose[r]
      PROVE  Accounted(r)'
  <2>1. Accounted(r)
    BY <1>1, <1>3 DEF IInv, RunsAccountedFor
  <2>2. CASE wake[purpose[r]] \in Over
    BY <1>3, <2>2, WakesStay DEF Accounted
  <2>3. CASE Made(starting["daemon"]) /\ starting["daemon"].run = r
    BY <1>3, <2>3, MadeIsAccounted
  <2>4. CASE wake[purpose[r]] = "pending" /\ records[r] = "watching" /\ Guarded(r)
    <3>1. pc # "finish"
      BY <2>4 DEF Guarded
    <3>2. records'[r] = "watching"
      BY <2>4, <3>1, WatchStays
    <3>3. Guarded(r)' \/ wake'[purpose[r]] \in Over
      BY <1>3, <2>4, GuardKept
    <3>4. wake'[purpose[r]] \in Over \cup {"pending"}
      BY <1>3, <2>4, WakesStay, TypeKept DEF TypeOK, Over
    <3> QED
      BY <1>3, <3>2, <3>3, <3>4 DEF Accounted
  <2> QED
    BY <2>1, <2>2, <2>3, <2>4 DEF Accounted
<1> QED
  BY <1>2, <1>3, OldOrFresh

-----------------------------------------------------------------------------
(* The theorems.                                                           *)

LEMMA InvariantKept == IInv /\ [Next]_vars => IInv'
<1> SUFFICES ASSUME IInv, [Next]_vars PROVE IInv'
  OBVIOUS
<1> QED
  BY TypeKept, FilesKept, StartsKept, PassesKept, OneKept, ChecksKept, WatchesKept,
     AccountsKept, FirstKept, OneEachKept DEF IInv

LEMMA InvariantAlways == Spec => []IInv
  BY InvariantHolds, InvariantKept, PTL DEF Spec

\* No target is watched twice, and no more runs are watched than drove_max_runs, unless
\* a start by hand overlapped one of the daemon's or a write undid another: what start
\* looked at is still so when it records its run.
THEOREM NoTargetWatchedTwice == Spec => []WatchedOnce
<1>1. IInv => WatchedOnce
  BY DEF IInv
<1> QED
  BY <1>1, InvariantAlways, PTL

\* A wake makes one run, through crashes, failed writes and retries: drove_wakes looks
\* at the wakes before the watches, so that a wake that is taken again is refused for
\* the run it made.
THEOREM WakesRunOnce == Spec => []OneRunPerWake
<1>1. ASSUME IInv, NEW w \in Wakes, ~crossed
      PROVE  Cardinality({r \in Runs \ lost : purpose[r] = w}) <= 1
  <2> DEFINE R == {r \in Runs \ lost : purpose[r] = w}
  <2>1. \A r, s \in R : r = s
    BY <1>1 DEF IInv, OneEach
  <2>2. CASE R = {}
    BY <2>2, FS_EmptySet
  <2>3. CASE R # {}
    <3>1. PICK r : R = {r}
      BY <2>1, <2>3
    <3>2. Cardinality(R) = 1
      BY <3>1, FS_Singleton
    <3> QED
      BY <3>2
  <2> QED
    BY <2>2, <2>3
<1>2. IInv => OneRunPerWake
  BY <1>1 DEF OneRunPerWake
<1> QED
  BY <1>2, InvariantAlways, PTL
===============================================================================
