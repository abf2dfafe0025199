------------------------------ MODULE WakeStore ------------------------------
(***************************************************************************)
(* bothy/wake.py: the durable queue of wakes and its record of deliveries, *)
(* as the listener's request threads, the threads that mark wakes (drain   *)
(* and drove) and the janitor's sweep (bothy/retention.py) use them, over  *)
(* the file operations of a2a_reactor/queue.py.                            *)
(*                                                                         *)
(* The queue file is appended to without a lock and replaced as a whole:   *)
(* by mark() under the store's lock, by sweep() under none.  A replace     *)
(* writes what was read some steps earlier; an append writes to the file   *)
(* that the path named when it was opened.  So reading and replacing,      *)
(* opening and writing are steps of their own.  seen_before() is one       *)
(* critical section over a file nobody else touches: one action.           *)
(***************************************************************************)
EXTENDS Integers, Sequences, FiniteSets

CONSTANTS
    Requests,       \* the signed requests senders make; each makes one wake id
    Keys,           \* delivery keys
    NoKey,          \* the key of a request without a delivery header
    Key,            \* Key[q]: the delivery key request q carries
    Markers,        \* the threads that mark wakes
    Nobody,         \* no mark, or no sweep, in progress
    KeepEntries     \* policy.wake_keep_entries

ASSUME WakeStoreAssumption ==
    /\ NoKey \notin Keys /\ Key \in [Requests -> Keys \cup {NoKey}]
    /\ KeepEntries \in Nat \ {0}

VARIABLES
    queue,      \* the well-formed lines of wakes.jsonl
    torn,       \* the file ends in part of a line
    seen,       \* the keys in seen.json
    req,        \* where each request stands
    marking,    \* for each marker, the mark() it is inside
    sweeping,   \* the queue a sweep read and has yet to replace
    known,      \* for each marker, the pending wakes it has read
    \* history, read by no action's guard
    settled,    \* the wakes some mark() has written as processed
    lapsed,     \* the keys that were dropped for their age
    exposed     \* see LossNeedsOverlap

vars == <<queue, torn, seen, req, marking, sweeping, known, settled, lapsed, exposed>>

Entries == [id : Requests, processed : BOOLEAN]

\* "open" and "stale" hold a handle on the queue: on the file the path names,
\* or on one that has been replaced since.
Standing == {"unsent", "refused", "new", "open", "stale", "stored", "accepted",
             "duplicate", "invalid", "failed", "cut"}

Ids(q) == {q[i].id : i \in DOMAIN q}
Pending(q) == {q[i].id : i \in {j \in DOMAIN q : ~q[j].processed}}

\* The queue is being rewritten from an older reading of it.
Rewriting == sweeping # Nobody \/ \E m \in Markers : marking[m] # Nobody

-----------------------------------------------------------------------------
(* The listener: do_POST.  A definition marked "slip" is used by no        *)
(* specification: it is a mistake the properties would notice.             *)

\* slip: the key is recorded before the gates are passed.
TurnAwayRecorded(q) ==
    /\ req[q] = "unsent"
    /\ req' = [req EXCEPT ![q] = "refused"]
    /\ seen' = IF Key[q] = NoKey THEN seen ELSE seen \cup {Key[q]}
    /\ UNCHANGED <<queue, torn, marking, sweeping, known, settled, lapsed, exposed>>

\* 429, 403, 404, 400, 413, 401: the limiter, the peer check, the route, the
\* length or the signature turns the request away before anything is recorded.
TurnAway(q) ==
    /\ req[q] = "unsent"
    /\ req' = [req EXCEPT ![q] = "refused"]
    /\ UNCHANGED <<queue, torn, seen, marking, sweeping, known, settled, lapsed, exposed>>

\* seen_before(), under the lock that mark() holds for all of its work.  A save
\* drops the keys past their time; which those are is left open.
Receive(q) ==
    /\ req[q] = "unsent"
    /\ \A m \in Markers : marking[m] = Nobody
    /\ \/ /\ Key[q] = NoKey
          /\ req' = [req EXCEPT ![q] = "new"]
          /\ UNCHANGED <<seen, lapsed>>
       \/ /\ Key[q] \in seen
          /\ req' = [req EXCEPT ![q] = "duplicate"]
          /\ UNCHANGED <<seen, lapsed>>
       \/ /\ Key[q] \in Keys \ seen
          /\ \E old \in SUBSET seen :
                /\ seen' = (seen \ old) \cup {Key[q]}
                /\ lapsed' = lapsed \cup old
          /\ req' = [req EXCEPT ![q] = "new"]
    /\ UNCHANGED <<queue, torn, marking, sweeping, known, settled, exposed>>

\* 400 and 422: the payload is no JSON, or the route's action rejects it.
Reject(q) ==
    /\ req[q] = "new"
    /\ req' = [req EXCEPT ![q] = "invalid"]
    /\ UNCHANGED <<queue, torn, seen, marking, sweeping, known, settled, lapsed, exposed>>

\* append_event: open(path, "a") ...
OpenQueue(q) ==
    /\ req[q] = "new"
    /\ req' = [req EXCEPT ![q] = "open"]
    /\ UNCHANGED <<queue, torn, seen, marking, sweeping, known, settled, lapsed, exposed>>

\* ... then write, flush and fsync.  A line that follows part of another is one
\* malformed line with it; one written to a replaced file is in no queue.
AppendEvent(q) ==
    LET lands == req[q] = "open" IN
    /\ req[q] \in {"open", "stale"}
    /\ queue' = IF lands /\ ~torn THEN Append(queue, [id |-> q, processed |-> FALSE])
                ELSE queue
    /\ torn' = IF lands THEN FALSE ELSE torn
    /\ exposed' = IF ~lands \/ torn \/ Rewriting THEN exposed \cup {q} ELSE exposed

WriteLine(q) ==
    /\ AppendEvent(q)
    /\ req' = [req EXCEPT ![q] = "stored"]
    /\ UNCHANGED <<seen, marking, sweeping, known, settled, lapsed>>

\* The disk is full or the fsync fails: 500, with none, part or all of the line
\* in the file.
WriteFails(q) ==
    /\ \/ /\ req[q] \in {"open", "stale"}
          /\ UNCHANGED <<queue, torn, exposed>>
       \/ /\ req[q] = "open"
          /\ torn' = TRUE /\ UNCHANGED <<queue, exposed>>
       \/ AppendEvent(q)
    /\ req' = [req EXCEPT ![q] = "failed"]
    /\ UNCHANGED <<seen, marking, sweeping, known, settled, lapsed>>

\* slip: the answer does not wait for the line.
AcceptFirst(q) ==
    /\ req[q] \in {"open", "stored"}
    /\ req' = [req EXCEPT ![q] = "accepted"]
    /\ UNCHANGED <<queue, torn, seen, marking, sweeping, known, settled, lapsed, exposed>>

\* 202, only once the line is on disk.
Accept(q) ==
    /\ req[q] = "stored"
    /\ req' = [req EXCEPT ![q] = "accepted"]
    /\ UNCHANGED <<queue, torn, seen, marking, sweeping, known, settled, lapsed, exposed>>

-----------------------------------------------------------------------------
(* The threads that work on wakes.                                         *)

\* pending(), at the start of a pass.
ReadPending(m) ==
    /\ marking[m] = Nobody
    /\ known[m] # Pending(queue)
    /\ known' = [known EXCEPT ![m] = Pending(queue)]
    /\ UNCHANGED <<queue, torn, seen, req, marking, sweeping, settled, lapsed, exposed>>

\* os.replace: the queue is q now, whole lines only, and every handle on the
\* file it replaces is stale.
Replace(q) ==
    /\ queue' = q
    /\ torn' = FALSE
    /\ req' = [r \in Requests |-> IF req[r] = "open" THEN "stale" ELSE req[r]]

\* slip: the queue is read before the lock is taken.
BeginMarkUnlocked(m, w, settles) ==
    /\ w \in known[m] /\ marking[m] = Nobody
    /\ marking' = [marking EXCEPT ![m] = [wake |-> w, settles |-> settles, read |-> queue]]
    /\ UNCHANGED <<queue, torn, seen, req, sweeping, known, settled, lapsed, exposed>>

\* mark(w, ...), inside the lock: the queue is read, with the fields of w
\* changed; `settles' when processed is among them ...
BeginMark(m, w, settles) ==
    /\ w \in known[m]
    /\ \A n \in Markers : marking[n] = Nobody
    /\ marking' = [marking EXCEPT ![m] = [wake |-> w, settles |-> settles, read |-> queue]]
    /\ UNCHANGED <<queue, torn, seen, req, sweeping, known, settled, lapsed, exposed>>

Marked(k) ==
    [i \in DOMAIN k.read |->
        IF k.read[i].id = k.wake /\ k.settles THEN [k.read[i] EXCEPT !.processed = TRUE]
        ELSE k.read[i]]

\* ... then written back.
EndMark(m) ==
    LET k == marking[m] IN
    /\ k # Nobody
    /\ Replace(Marked(k))
    /\ marking' = [marking EXCEPT ![m] = Nobody]
    /\ known' = IF k.settles THEN [known EXCEPT ![m] = @ \ {k.wake}] ELSE known
    /\ settled' = IF k.settles THEN settled \cup ({k.wake} \cap Ids(k.read)) ELSE settled
    /\ UNCHANGED <<seen, sweeping, lapsed, exposed>>

\* write_queue raises: the file stays, the pass is lost.
MarkFails(m) ==
    /\ marking[m] # Nobody
    /\ marking' = [marking EXCEPT ![m] = Nobody]
    /\ known' = [known EXCEPT ![m] = {}]
    /\ UNCHANGED <<queue, torn, seen, req, sweeping, settled, lapsed, exposed>>

-----------------------------------------------------------------------------
(* The janitor.                                                            *)

BeginSweep ==
    /\ sweeping = Nobody
    /\ sweeping' = queue
    /\ UNCHANGED <<queue, torn, seen, req, marking, known, settled, lapsed, exposed>>

\* The lines a sweep keeps that finds the wakes of `old' past wake_keep_days: those
\* not processed or not old, the last KeepEntries of them.
Unswept(q, old) == {i \in DOMAIN q : ~(q[i].processed /\ q[i].id \in old)}
Kept(q, old) ==
    {i \in Unswept(q, old) : Cardinality({j \in Unswept(q, old) : j >= i}) <= KeepEntries}

\* The lines of q at the positions K, in the order they have in q.
InOrder(q, K) ==
    LET n == Cardinality(K)
    IN  {[k \in 1 .. n |-> q[f[k]]] :
            f \in {g \in [1 .. n -> K] : \A i, j \in 1 .. n : i < j => g[i] < g[j]}}

\* The queue is replaced only if something is dropped.
EndSweep ==
    /\ sweeping # Nobody
    /\ \E old \in SUBSET Ids(sweeping) :
          IF Kept(sweeping, old) # DOMAIN sweeping
          THEN \E kept \in InOrder(sweeping, Kept(sweeping, old)) :
                  /\ Replace(kept)
                  /\ exposed' = exposed \cup (Pending(sweeping) \ Ids(kept))
          ELSE UNCHANGED <<queue, torn, req, exposed>>
    /\ sweeping' = Nobody
    /\ UNCHANGED <<seen, marking, known, settled, lapsed>>

-----------------------------------------------------------------------------

\* The daemon dies.  A line being written may be left half on disk.
Crash ==
    /\ \/ UNCHANGED torn
       \/ (\E q \in Requests : req[q] = "open") /\ torn' = TRUE
    /\ req' = [q \in Requests |->
                IF req[q] \in {"new", "open", "stale", "stored"} THEN "cut" ELSE req[q]]
    /\ marking' = [m \in Markers |-> Nobody]
    /\ sweeping' = Nobody
    /\ known' = [m \in Markers |-> {}]
    /\ UNCHANGED <<queue, seen, settled, lapsed, exposed>>

Init ==
    /\ queue = <<>> /\ torn = FALSE /\ seen = {}
    /\ req = [q \in Requests |-> "unsent"]
    /\ marking = [m \in Markers |-> Nobody]
    /\ sweeping = Nobody
    /\ known = [m \in Markers |-> {}]
    /\ settled = {} /\ lapsed = {} /\ exposed = {}

Next ==
    \/ \E q \in Requests :
          \/ TurnAway(q) \/ Receive(q) \/ Reject(q) \/ OpenQueue(q)
          \/ WriteLine(q) \/ WriteFails(q) \/ Accept(q)
    \/ \E m \in Markers :
          \/ ReadPending(m) \/ EndMark(m) \/ MarkFails(m)
          \/ \E w \in Requests, settles \in BOOLEAN : BeginMark(m, w, settles)
    \/ BeginSweep \/ EndSweep \/ Crash

Spec == Init /\ [][Next]_vars

-----------------------------------------------------------------------------
(* Properties.                                                             *)

\* Every variable keeps to the values the files and the threads can hold.
TypeOK ==
    /\ queue \in Seq(Entries) /\ torn \in BOOLEAN
    /\ seen \subseteq Keys /\ lapsed \subseteq Keys
    /\ req \in [Requests -> Standing]
    /\ marking \in [Markers -> {Nobody} \cup
                       [wake : Requests, settles : BOOLEAN, read : Seq(Entries)]]
    /\ sweeping \in {Nobody} \cup Seq(Entries)
    /\ known \in [Markers -> SUBSET Requests]
    /\ settled \subseteq Requests /\ exposed \subseteq Requests

\* A wake has one line, whatever rewrites the queue: no mark, sweep or retry
\* makes an agent run on the same wake from two entries.
OneLinePerWake ==
    \A i, j \in DOMAIN queue : queue[i].id = queue[j].id => i = j

\* "A replay is answered 200": of the requests that carry one delivery key, at
\* most one reaches the queue for as long as the key is remembered, across
\* crashes, failed appends and requests served at the same time.
OneWakePerDelivery ==
    \A p, q \in Requests :
        /\ p # q /\ Key[p] = Key[q] /\ Key[p] \in Keys \ lapsed
        => ~({req[p], req[q]} \subseteq {"new", "open", "stale", "stored", "accepted"})

\* A request that was turned away leaves no key behind: who is told `duplicate'
\* repeats a delivery that passed every gate, so that nobody without the secret
\* can make a genuine delivery look like a replay.
DuplicatesHaveOriginals ==
    \A q \in Requests : req[q] = "duplicate" =>
        \E p \in Requests :
            Key[p] = Key[q] /\ req[p] \notin {"unsent", "refused", "duplicate"}

\* A delivery makes one wake, and a wake one line; only what passed the gates
\* counts as a delivery.
DeliveriesOnce ==
    TypeOK /\ OneLinePerWake /\ OneWakePerDelivery /\ DuplicatesHaveOriginals

\* The lock does its work: whichever threads mark at the same time, a wake that
\* was settled is not pending again.  Only a sweep, which takes no lock, can
\* bring it back.
MarksNeverUndone ==
    [][\A w \in Requests :
          (w \in Ids(queue) \ Pending(queue) /\ w \in Pending(queue)')
              => sweeping # Nobody /\ sweeping' = Nobody]_vars

\* "Durable BEFORE the ack": an accepted wake stays in the queue until it is
\* settled, unless its line was written while the queue was being rewritten, to
\* a replaced file, or behind part of another line, or was cut off by a sweep
\* of more than KeepEntries entries.  There is no other way to lose one.
LossNeedsOverlap ==
    \A q \in Requests :
        req[q] = "accepted" /\ q \notin settled \cup exposed => q \in Pending(queue)

\* "If the reactor crashes, the event is still here" (a2a_reactor/queue.py) and
\* "Durable BEFORE the ack" (wake.py), where nothing crashes and no write fails:
\* a wake whose sender was told 202 is in the queue or was settled.
AckedWakeKept ==
    (\A p \in Requests : req[p] \notin {"failed", "cut"}) =>
        \A q \in Requests : req[q] = "accepted" => q \in settled \cup Ids(queue)

\* "fsync, then acknowledge", a replay included: a sender that is told 200, so
\* that it stops, has a request with that key that was stored, that is still
\* being served, or whose payload no retry would mend (crashes aside).
ReplaysWereStored ==
    \A q \in Requests : req[q] = "duplicate" =>
        \E p \in Requests :
            /\ Key[p] = Key[q]
            /\ req[p] \notin {"unsent", "refused", "duplicate", "failed"} \/ p \in settled \cup Ids(queue)
=============================================================================
