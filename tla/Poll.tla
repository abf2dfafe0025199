--------------------------------- MODULE Poll ---------------------------------
(***************************************************************************)
(* bothy/poll.py and the poll thread of bothy/daemon.py: remote lists read *)
(* again and again, each item new to a source becoming one wake.  `bothy   *)
(* poll`, in a process of its own, reads a source by hand and enqueues     *)
(* nothing; it uses the same Poller on the same state file, poll.json.     *)
(*                                                                         *)
(* A poll reads the source's entry, waits for the answer, and then         *)
(* remembers what it found: it loads the whole file and replaces it, two   *)
(* steps for either process, since the lock is a lock of one.  Only then   *)
(* are the wakes stored, one by one.                                       *)
(*                                                                         *)
(* External: the source, whose answer is its list, and its validator,      *)
(* which changes whenever the list does.  An answer may list an item more  *)
(* than once, and may be cut or broken inside a character.  Left out: the  *)
(* failure count, which nothing reads, the cursor, items without an id.    *)
(***************************************************************************)
EXTENDS Integers, Sequences, SequencesExt, Lists, Loop

CONSTANTS
    Sources,        \* the configured sources, in order: a sequence
    Items, Origin,  \* Origin[i]: the source that lists item i
    Malformed,      \* sources whose prompt template cannot be formatted
    Garbled,        \* items whose bytes are no text: an answer with one is not decoded
    MaxItems,       \* max_items_per_poll
    SeenCap,        \* seen_cap
    Nobody,         \* no poll in progress
    MaxEvents       \* bound: polls by hand, outages, crashes, items listed once more

Names == {Sources[k] : k \in DOMAIN Sources}

ASSUME PollAssumption ==
    /\ Sources \in Seq(Names) /\ Origin \in [Items -> Names]
    /\ Malformed \subseteq Names /\ Garbled \subseteq Items
    /\ MaxItems \in Nat \ {0} /\ SeenCap \in Nat \ {0}
    /\ Nobody \notin {"asked", "loaded"}

VARIABLES
    lists,      \* what each source lists, in its order
    due,        \* the sources whose interval has elapsed
    entries,    \* poll.json: for each source, the ids seen and the validator kept
    poller,     \* the poll inside the daemon, and the one by hand
    todo,       \* the sources this pass has yet to look at
    wakes,      \* the wakes the poll returned, still to be stored
    events,     \* polls by hand, outages, crashes, items listed once more, so far
    listed,     \* the items that have been listed; read by Publish alone
    \* history, read by no action's guard
    woke,       \* how many wakes each item has had
    forgotten,  \* items whose id left `seen`
    repeated,   \* items that one answer gave twice, both as new
    dropped     \* items remembered, whose wake was never stored

thread == <<pc, todo, wakes>>
history == <<woke, forgotten, repeated, dropped>>
vars == <<lists, due, entries, poller, pc, todo, wakes, disk, events, listed, history>>

NoValidator == <<Nobody>>
NoPoll == [stage |-> Nobody, source |-> Nobody, entry |-> Nobody, new |-> <<>>,
           validator |-> NoValidator, file |-> Nobody]
Pollers == {"daemon", "hand"}

Seen(file, s) == ToSet(file[s].seen)
Known(file) == UNION {Seen(file, s) : s \in Names}

-----------------------------------------------------------------------------
(* Poller.poll, by whichever process.  A definition marked "slip" is used  *)
(* by no specification: it is a mistake the properties would notice.       *)

\* PollState.get
Ask(p, s) ==
    poller' = [poller EXCEPT ![p] = [NoPoll EXCEPT !.stage = "asked", !.source = s,
                                                   !.entry = entries[s]]]

\* slip: what was seen before is not looked at.
NewItemsAll(list, entry) == SubSeq(list, 1, IF Len(list) < MaxItems THEN Len(list) ELSE MaxItems)

\* The first items of the list, then those of them not seen before.  What was
\* seen is read once, before: an item that is listed twice is new twice.
NewItems(list, entry) ==
    Only(SubSeq(list, 1, IF Len(list) < MaxItems THEN Len(list) ELSE MaxItems),
         Items \ ToSet(entry.seen))

\* An answer that cannot be decoded is not the JSON error that poll() catches;
\* and the prompt of a new item is formatted inside poll().
Undecodable(s) == ToSet(lists[s]) \cap Garbled # {}
Raises(p) ==
    LET s == poller[p].source  entry == poller[p].entry
    IN  /\ poller[p].stage = "asked" /\ entry.validator # lists[s]
        /\ Undecodable(s) \/ (s \in Malformed /\ NewItems(lists[s], entry) # <<>>)

\* The answer is here, and remember() loads the file.
Load(p, new, validator) ==
    /\ poller[p].stage = "asked"
    /\ poller' = [poller EXCEPT ![p] =
          [stage |-> "loaded", source |-> poller[p].source, entry |-> Nobody, new |-> new,
           validator |-> validator, file |-> entries]]

\* 304, or a list.  With 304 nothing is new.
Answer(p) ==
    LET list == lists[poller[p].source]  entry == poller[p].entry IN
    /\ poller[p].stage = "asked" /\ ~Raises(p)
    /\ Load(p, IF entry.validator = list THEN <<>> ELSE NewItems(list, entry), list)

\* No credential, no answer, or text that is no JSON: the file is written all the
\* same.
AnswerFails(p) == Load(p, <<>>, NoValidator)

\* "Bounded, oldest first."
Kept(ids) == SubSeq(ids, IF Len(ids) > SeenCap THEN Len(ids) - SeenCap + 1 ELSE 1, Len(ids))

\* slip: all that is listed counts as seen, woken for or not.
RememberedAll(entry, poll) ==
    [seen |-> Kept(entry.seen \o Only(IF poll.validator = NoValidator THEN <<>> ELSE poll.validator,
                                      Items \ ToSet(entry.seen))),
     validator |-> IF poll.validator = NoValidator THEN entry.validator ELSE poll.validator]

Remembered(entry, poll) ==
    LET fresh == Once(Only(poll.new, Items \ ToSet(entry.seen)))
    IN  [seen |-> Kept(entry.seen \o fresh),
         validator |-> IF poll.validator = NoValidator THEN entry.validator ELSE poll.validator]

\* remember() saves, from what it loaded.
Save(p) ==
    LET poll == poller[p]  s == poll.source IN
    /\ poll.stage = "loaded" /\ disk
    /\ entries' = [poll.file EXCEPT ![s] = Remembered(@, poll)]
    /\ forgotten' = forgotten \cup (Known(entries) \ Known(entries'))
                              \cup {i \in ToSet(poll.new) : i \notin Known(entries')}
    /\ poller' = [poller EXCEPT ![p] = NoPoll]

-----------------------------------------------------------------------------
(* The poll thread (_poll_loop, poll_once).                                *)

rest == <<lists, disk, events, listed>>

\* slip: a pass looks at the first source that is due.
BeginPassFirst ==
    \E elapsed \in SUBSET Names :
        LET visit == Only(Sources, due \cup elapsed) IN
        /\ pc = "idle" /\ visit # <<>>
        /\ pc' = "pass" /\ todo' = <<Head(visit)>> /\ due' = due \cup elapsed
        /\ UNCHANGED rest /\ UNCHANGED <<entries, poller, wakes, woke, forgotten, repeated, dropped>>

\* A pass over the sources whose interval has elapsed, which others may have
\* since the last pass.
BeginPass ==
    \E elapsed \in SUBSET Names :
        LET visit == Only(Sources, due \cup elapsed) IN
        /\ pc = "idle" /\ visit # <<>>
        /\ pc' = "pass" /\ todo' = visit /\ due' = due \cup elapsed
        /\ UNCHANGED rest /\ UNCHANGED <<entries, poller, wakes, woke, forgotten, repeated, dropped>>

PollNext ==
    /\ pc = "pass" /\ poller["daemon"] = NoPoll
    /\ Ask("daemon", Head(todo))
    /\ UNCHANGED rest /\ UNCHANGED <<due, entries, pc, todo, wakes, woke, forgotten, repeated, dropped>>

Wait ==
    /\ Answer("daemon") \/ AnswerFails("daemon")
    /\ repeated' = repeated \cup Repeats(poller'["daemon"].new)
    /\ UNCHANGED rest /\ UNCHANGED thread
    /\ UNCHANGED <<due, entries, woke, forgotten, dropped>>

\* poll() returns: the next time is set, and the wakes are to be stored.
Return ==
    /\ Save("daemon")
    /\ due' = due \ {poller["daemon"].source}
    /\ pc' = "store" /\ wakes' = poller["daemon"].new
    /\ UNCHANGED rest /\ UNCHANGED <<todo, woke, repeated, dropped>>

StoreWake ==
    /\ pc = "store" /\ wakes # <<>> /\ disk
    /\ woke' = [woke EXCEPT ![Head(wakes)] = @ + 1]
    /\ wakes' = Tail(wakes)
    /\ UNCHANGED rest /\ UNCHANGED <<due, entries, poller, pc, todo, forgotten, repeated, dropped>>

\* All stored; what the poll did is audited.
Finish ==
    /\ pc = "store" /\ wakes = <<>> /\ disk
    /\ todo' = Tail(todo) /\ pc' = IF todo' = <<>> THEN "idle" ELSE "pass"
    /\ UNCHANGED rest /\ UNCHANGED <<due, entries, poller, wakes, woke, forgotten, repeated, dropped>>

\* An exception in a pass: the rest of it, wakes and sources, is given up.
Raise ==
    /\ \/ Raises("daemon")
       \/ ~disk /\ (poller["daemon"].stage = "loaded" \/ pc = "store")
    /\ pc' = "handler" /\ todo' = <<>> /\ wakes' = <<>>
    /\ poller' = [poller EXCEPT !["daemon"] = NoPoll]
    /\ dropped' = dropped \cup ToSet(wakes)
    /\ UNCHANGED rest /\ UNCHANGED <<due, entries, woke, forgotten, repeated>>

Handle ==
    /\ Handled
    /\ UNCHANGED <<lists, events, listed>>
    /\ UNCHANGED <<due, entries, poller, todo, wakes, woke, forgotten, repeated, dropped>>

-----------------------------------------------------------------------------
(* bothy poll: "without enqueuing anything".                               *)

HandAsk(s) ==
    /\ poller["hand"] = NoPoll /\ events < MaxEvents
    /\ events' = events + 1
    /\ Ask("hand", s)
    /\ UNCHANGED thread /\ UNCHANGED history /\ UNCHANGED <<lists, due, entries, disk, listed>>

HandWait ==
    /\ Answer("hand") \/ AnswerFails("hand")
    /\ UNCHANGED rest /\ UNCHANGED thread
    /\ UNCHANGED <<due, entries, woke, forgotten, repeated, dropped>>

\* The wakes that poll() returned are printed, and their items remembered.
HandSave ==
    /\ Save("hand")
    /\ dropped' = dropped \cup ToSet(poller["hand"].new)
    /\ UNCHANGED rest /\ UNCHANGED thread /\ UNCHANGED <<due, woke, repeated>>

HandDies ==
    /\ \/ Raises("hand")
       \/ poller["hand"].stage = "loaded" /\ ~disk
    /\ poller' = [poller EXCEPT !["hand"] = NoPoll]
    /\ UNCHANGED rest /\ UNCHANGED thread
    /\ UNCHANGED <<due, entries, woke, forgotten, repeated, dropped>>

-----------------------------------------------------------------------------
(* The source, the disk and the process.                                   *)

\* An item is listed, before or after the others, or once more, or it is no
\* longer listed.
Publish(i) ==
    LET s == Origin[i] IN
    /\ i \in listed => events < MaxEvents
    /\ events' = IF i \in listed THEN events + 1 ELSE events
    /\ listed' = listed \cup {i}
    /\ lists' = [lists EXCEPT ![s] = <<i>> \o @] \/ lists' = [lists EXCEPT ![s] = Append(@, i)]
    /\ UNCHANGED thread /\ UNCHANGED history /\ UNCHANGED <<due, entries, poller, disk>>

Delist(i) ==
    LET s == Origin[i] IN
    /\ i \in ToSet(lists[s])
    /\ lists' = [lists EXCEPT ![s] = Only(@, Items \ {i})]
    /\ UNCHANGED thread /\ UNCHANGED history
    /\ UNCHANGED <<due, entries, poller, disk, events, listed>>

DiskChanges ==
    /\ disk' = ~disk
    /\ disk => events < MaxEvents
    /\ events' = IF disk THEN events + 1 ELSE events
    /\ UNCHANGED thread /\ UNCHANGED history /\ UNCHANGED <<lists, due, entries, poller, listed>>

\* The next times are kept in memory: after a restart every source is due.
Crash ==
    /\ pc # "down" /\ events < MaxEvents
    /\ events' = events + 1
    /\ pc' = "down" /\ todo' = <<>> /\ wakes' = <<>>
    /\ poller' = [poller EXCEPT !["daemon"] = NoPoll]
    /\ due' = Names
    /\ dropped' = dropped \cup ToSet(wakes)
    /\ UNCHANGED <<lists, entries, disk, listed, woke, forgotten, repeated>>

Restart ==
    /\ pc = "down"
    /\ pc' = "idle"
    /\ UNCHANGED rest
    /\ UNCHANGED <<due, entries, poller, todo, wakes, woke, forgotten, repeated, dropped>>

-----------------------------------------------------------------------------
Init ==
    /\ lists = [s \in Names |-> <<>>]
    /\ due = Names
    /\ entries = [s \in Names |-> [seen |-> <<>>, validator |-> NoValidator]]
    /\ poller = [p \in Pollers |-> NoPoll]
    /\ pc = "idle" /\ todo = <<>> /\ wakes = <<>>
    /\ disk = TRUE /\ events = 0
    /\ listed = {} /\ woke = [i \in Items |-> 0]
    /\ forgotten = {} /\ repeated = {} /\ dropped = {}

Thread ==
    \/ BeginPass \/ PollNext \/ Wait \/ Return
    \/ StoreWake \/ Finish \/ Raise \/ Handle \/ Restart

Next ==
    \/ Thread \/ HandWait \/ HandSave \/ HandDies
    \/ DiskChanges \/ Crash
    \/ \E s \in Names : HandAsk(s)
    \/ \E i \in Items : Publish(i) \/ Delist(i)

\* Items with nothing wrong about them or the template of their source.
Readable == {i \in Items \ Garbled : Origin[i] \notin Malformed}

\* The thread runs while it lives and is restarted when the process died; the
\* intervals elapse, and a source asked again and again answers in the end.  Of a
\* source that never has a readable item neither is asked: it may always fail.
Visits(s) == BeginPass /\ s \in due'
Answers(s) == poller["daemon"].source = s /\ Answer("daemon") /\ Wait
Fairness ==
    /\ WF_vars(Thread)
    /\ \A s \in {Origin[i] : i \in Readable} : SF_vars(Visits(s)) /\ SF_vars(Answers(s))

Spec == Init /\ [][Next]_vars /\ Fairness

-----------------------------------------------------------------------------
(* What polling promises.                                                  *)

\* "A restart must not reopen the window": an item is woken for once, however
\* often it is read, across crashes, failed writes and polls by hand.  The
\* exceptions are an id that left the file, evicted while its item is still listed
\* or undone by a write from an older reading, and an item that one answer listed
\* twice before it was seen (poll, seen, remember).
OneWakePerItem == \A i \in Items : woke[i] <= 1 \/ i \in forgotten \/ i \in repeated

\* "Dedupe on the item's own id is load-bearing": an item whose id is kept in the
\* file has one wake.  It fails when one answer lists an item twice: `seen' gets no
\* id inside the loop over the answer.
IdsAreDeduped == \A i \in Items : woke[i] <= 1 \/ i \in forgotten

\* An item remembered has its wake, or will have it as soon as the thread gets to
\* it, or lost it in a way that is named: the process died or a write failed
\* between remembering and storing, or `bothy poll` saw the item first (poll_once,
\* cmd_poll).
KnownItemsWake ==
    \A i \in Known(entries) : woke[i] > 0 \/ i \in ToSet(wakes) \/ i \in dropped

\* A list that changed is read: an item among the first of its list is remembered
\* in the end, when no source's poll raises.  One that raises, for its template or
\* for an answer that cannot be decoded, ends every pass before the later sources.
Leads(i) == i \in ToSet(SubSeq(lists[Origin[i]], 1,
    IF Len(lists[Origin[i]]) < MaxItems THEN Len(lists[Origin[i]]) ELSE MaxItems))
Remembers(i) == i \in Seen(entries, Origin[i]) \/ i \in forgotten
Starved == pc = "dead" \/ \E s \in Names : Undecodable(s) \/ (s \in Malformed /\ lists[s] # <<>>)
LeadersAreSeen == \A i \in Readable : Leads(i) ~> (Remembers(i) \/ ~Leads(i) \/ Starved)

\* "A source that fails backs off on its own and never stops the others": the same
\* of an item whose own source can be read, whatever the others answer.  It fails
\* behind a source whose answer cannot be decoded (poll, _poll_loop).
OthersNeverStop == \A i \in Readable :
    Leads(i) ~> (Remembers(i) \/ ~Leads(i) \/ Undecodable(Origin[i]) \/ pc = "dead")

\* "rather than stranding the oldest behind a cap forever": an item that stays
\* listed is remembered in the end, wherever it stands.
NoneStranded == \A i \in Items :
    (i \in ToSet(lists[Origin[i]])) ~> (Remembers(i) \/ i \notin ToSet(lists[Origin[i]]) \/ Starved)
=============================================================================
