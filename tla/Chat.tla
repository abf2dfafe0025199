--------------------------------- MODULE Chat ---------------------------------
(***************************************************************************)
(* bothy/discord.py (GatewayListener), bothy/slack.py (SocketModeListener),*)
(* bothy/daemon.py (the two bridges) and bothy/drove.py                    *)
(* (AttentionForwarder): what people say in chat becomes a wake, or the    *)
(* answer to something Drove asked, and what Drove needs a person for is   *)
(* said in chat once.                                                      *)
(*                                                                         *)
(* Three threads of one process: a listener each, whose callback runs the  *)
(* bridge and answer() to their end, and the Drove loop, whose poll holds  *)
(* the lock of the forwarder's file from marking to the last send.  The    *)
(* session of the gateway is in memory only; the wakes, the entries and    *)
(* the claims are files.                                                   *)
(*                                                                         *)
(* Frames are numbered over all sessions.  Left out: the heartbeat, whose  *)
(* effect on a socket is Drop; the InterruptBoard, which Hold models; the  *)
(* messages of bots and of other channels, handled as other dispatches     *)
(* are; items that are answered in their pane, declined as strangers are.  *)
(***************************************************************************)
EXTENDS Integers, Sequences, FiniteSets, FiniteSetsExt

CONSTANTS
    Items,          \* the ids of Drove's attention items
    None,           \* no entry
    Threshold,      \* RESUME_FAILURE_THRESHOLD
    ResolveAfter,   \* RESOLVE_AFTER_ABSENT
    SendsPerPoll,   \* MAX_SENDS_PER_POLL
    MaxAttempts,    \* MAX_DELIVERY_ATTEMPTS
    Slots,          \* the senders _ANSWER_SLOTS allows
    Scenes          \* what may happen: how many frames, drops, crashes, ...

\* An entry of the file of attention items.
Entries == [state : {"new", "open", "closing", "abandoned"}, attempts : Nat, absent : Nat, ref : Nat]

ChatLimits == {"frames", "envelopes", "drops", "crashes", "faults", "flips", "ends"}

ASSUME ChatAssumption ==
    /\ IsFiniteSet(Items) /\ None \notin Items /\ None \notin Entries
    /\ {Threshold, ResolveAfter, SendsPerPoll, MaxAttempts, Slots} \subseteq Nat \ {0}
    /\ Scenes \subseteq [ChatLimits -> Nat]

VARIABLES
    \* the gateway and the channel
    log,        \* the frames of the gateway, and what became of each
    wire,       \* the last frame that was read from the socket
    urlDead,    \* nothing answers at the resume_url
    expired,    \* the gateway has given up the session
    posts,      \* how many messages were posted about each item
    \* GatewayListener
    conn,       \* see Connections
    sequence,   \* session.sequence; NoSession when there is none to resume
    failures,   \* session.resume_failures
    base,       \* history: the frames up to here went to an earlier session
    \* Slack and SocketModeListener
    envelopes,  \* the envelopes of the socket, and what became of each
    slack,      \* "off", "down", "up" or "ended"
    \* Drove and AttentionForwarder
    listed,     \* the items Drove lists
    entries,    \* the items of the file
    claims,     \* answer_deliveries: the frames claimed
    poll,       \* where the poll is, and what it has in hand
    senders,    \* the answers being sent
    lives,      \* history: how often an entry was made for each item
    told,       \* history: how often an item was recorded as told
    \* the process
    up,
    left        \* what may still happen

slackVars == <<envelopes, slack>>
discordVars == <<log, wire, urlDead, expired, conn, sequence, failures, base>>
gatewayVars == <<discordVars, slackVars>>
fileVars == <<entries, claims, lives, told>>
vars == <<gatewayVars, posts, listed, fileVars, poll, senders, up, left>>

NoSession == -1
Connections == {"off", "down", "dialled", "identifying", "resuming", "up", "ended"}
Served == {"identifying", "resuming", "up"}

CanResume == sequence # NoSession

Idle == [pc |-> "idle", seen |-> {}, todo |-> {}, item |-> None, ok |-> FALSE]

\* AttentionForwarder.poll and answer take the file's lock.
Locked == poll.pc \in {"send", "posted"}

Frame(kind, item, to) ==
    [kind |-> kind, item |-> item, to |-> to, wakes |-> 0, fails |-> 0, kept |-> FALSE]

Spend(what) ==
    /\ left[what] > 0
    /\ left' = [left EXCEPT ![what] = @ - 1]

\* An audit record may not be written; the exception goes to the caller.
Audited(ok) == IF ok THEN UNCHANGED left ELSE Spend("faults")

Init ==
    /\ log = <<>> /\ wire = 0 /\ urlDead = FALSE /\ expired = FALSE
    /\ posts = [i \in Items |-> 0]
    /\ left \in Scenes
    /\ conn = (IF left["frames"] > 0 THEN "down" ELSE "off")
    /\ slack = (IF left["envelopes"] > 0 THEN "down" ELSE "off")
    /\ sequence = NoSession /\ failures = 0 /\ base = 0 /\ envelopes = <<>>
    /\ listed = {} /\ entries = [i \in Items |-> None] /\ claims = {}
    /\ poll = Idle /\ senders = {}
    /\ lives = [i \in Items |-> 0] /\ told = [i \in Items |-> 0]
    /\ up = TRUE

-----------------------------------------------------------------------------
(* The people, Drove and the network.                                      *)

\* Somebody who is allowed says something, or answers a post; somebody who is
\* not says something; something else happens on the server.
Say(frame) ==
    /\ Spend("frames")
    /\ log' = Append(log, frame)
    /\ UNCHANGED <<wire, urlDead, expired, conn, sequence, failures, base, slackVars, posts, listed,
                   fileVars, poll, senders, up>>

Remark(kind) == Say(Frame(kind, None, 0))
Reply(i, k) == k <= posts[i] /\ Say(Frame("reply", i, k))

\* An item is listed, or is listed no more.
Flip(i) ==
    /\ Spend("flips")
    /\ listed' = IF i \in listed THEN listed \ {i} ELSE listed \cup {i}
    /\ UNCHANGED <<gatewayVars, posts, fileVars, poll, senders, up>>

\* The host of the resume_url is gone.
DeadUrl ==
    /\ Spend("ends") /\ CanResume /\ ~urlDead
    /\ urlDead' = TRUE
    /\ UNCHANGED <<log, wire, expired, conn, sequence, failures, base, slackVars, posts, listed,
                   fileVars, poll, senders, up>>

-----------------------------------------------------------------------------
(* GatewayListener                                                         *)

\* WebSocket.connect.  A session is resumed at its own url, however often
\* that fails.
Dial ==
    /\ up /\ conn = "down" /\ ~(CanResume /\ urlDead)
    /\ conn' = "dialled"
    /\ UNCHANGED <<log, wire, urlDead, expired, sequence, failures, base, slackVars, posts, listed,
                   fileVars, poll, senders, up, left>>

\* HELLO: RESUME, after which the gateway sends what followed the sequence
\* number, or IDENTIFY.
Hello ==
    /\ up /\ conn = "dialled"
    /\ IF CanResume THEN conn' = "resuming" /\ wire' = sequence
       ELSE conn' = "identifying" /\ UNCHANGED wire
    /\ UNCHANGED <<log, urlDead, expired, sequence, failures, base, slackVars, posts, listed,
                   fileVars, poll, senders, up, left>>

\* READY and RESUMED are dispatches: they have a sequence number of their own.
Opened(resumed) ==
    /\ log' = Append(log, Frame("other", None, 0))
    /\ conn' = "up" /\ wire' = Len(log) + 1 /\ sequence' = Len(log) + 1
    /\ failures' = 0
    /\ IF resumed THEN UNCHANGED <<base, urlDead, expired>>
       ELSE base' = Len(log) + 1 /\ urlDead' = FALSE /\ expired' = FALSE
    /\ UNCHANGED <<slackVars, posts, listed, fileVars, poll, senders, up, left>>

\* READY: a session that begins with what comes next.
Ready == up /\ conn = "identifying" /\ Opened(FALSE)

\* RESUMED, once everything was sent again.
Resumed == up /\ conn = "resuming" /\ ~expired /\ wire = Len(log) /\ Opened(TRUE)

\* slip: a session is kept for as long as the gateway calls it resumable
InvalidPatient(resumable) ==
    /\ up /\ conn \in Served
    /\ IF conn = "resuming" /\ expired THEN UNCHANGED left ELSE Spend("drops")
    /\ conn' = "down" /\ expired' = (expired \/ ~resumable)
    /\ sequence' = IF resumable THEN sequence ELSE NoSession
    /\ UNCHANGED <<log, wire, urlDead, failures, base, slackVars, posts, listed, fileVars, poll,
                   senders, up>>

\* INVALID_SESSION: the answer to the RESUME of a session the gateway has given
\* up, and now and then to what it has not.
Invalid(resumable) ==
    /\ up /\ conn \in Served
    /\ IF conn = "resuming" /\ expired THEN UNCHANGED left ELSE Spend("drops")
    /\ conn' = "down" /\ expired' = (expired \/ ~resumable)
    /\ IF ~resumable \/ failures + 1 >= Threshold
         THEN sequence' = NoSession /\ failures' = 0
         ELSE failures' = failures + 1 /\ UNCHANGED sequence
    /\ UNCHANGED <<log, wire, urlDead, base, slackVars, posts, listed, fileVars, poll, senders, up>>

\* The socket closes: RECONNECT, the network, a heartbeat unanswered; by the
\* next connection the gateway may have given up the session.
Drop(given) ==
    /\ up /\ conn \in Served \cup {"dialled"} /\ Spend("drops")
    /\ conn' = "down" /\ expired' = (expired \/ given)
    /\ UNCHANGED <<log, wire, urlDead, sequence, failures, base, slackVars, posts, listed,
                   fileVars, poll, senders, up>>

\* A close code of FATAL_CLOSE_CODES: the listener ends.
Fatal ==
    /\ up /\ conn \in Served /\ Spend("ends")
    /\ conn' = "ended"
    /\ UNCHANGED <<log, wire, urlDead, expired, sequence, failures, base, slackVars, posts, listed,
                   fileVars, poll, senders, up>>

-----------------------------------------------------------------------------
(* DiscordBridge._store and AttentionForwarder.answer                      *)

\* slip: a message that was not kept moves the number too
AdvancedAlways(n, kept) == sequence' = n

\* handle(): the sequence number advances only to a message that was kept.
Advanced(n, kept) == sequence' = IF kept THEN n ELSE sequence

\* The sequence of another dispatch always advances.
Other(n) ==
    /\ Advanced(n, TRUE)
    /\ UNCHANGED <<log, claims, senders, left>>

\* on_message answered, or raised.
Handled(n, kept, wakes) ==
    /\ LET frame == [log[n] EXCEPT !.kept = kept, !.wakes = @ + wakes,
                                   !.fails = @ + (IF kept THEN 0 ELSE 1)]
       IN  log' = [log EXCEPT ![n] = frame]
    /\ Advanced(n, kept)

\* All there is to do is to audit.
Declined(n) ==
    \E ok \in BOOLEAN :
        /\ Audited(ok) /\ Handled(n, ok, 0)
        /\ UNCHANGED <<claims, senders>>

\* The wake is appended, then audited; either may raise.
MakeWake(n) ==
    \E stored, audited \in BOOLEAN :
        /\ audited => stored
        /\ Audited(audited) /\ Handled(n, audited, IF stored THEN 1 ELSE 0)
        /\ UNCHANGED <<claims, senders>>

\* The item a reply answers: the entry that holds the message it refers to.
Refers(n) == LET e == entries[log[n].item] IN e # None /\ e.ref = log[n].to

\* The claim is saved before the answer is sent; without a slot there is only
\* a record that it was not.
Answer(n) ==
    /\ entries[log[n].item].state = "open"
    /\ claims' = claims \cup {n}
    /\ IF Cardinality(senders) < Slots
         THEN senders' = senders \cup {n} /\ Handled(n, TRUE, 0) /\ UNCHANGED left
         ELSE /\ \E ok \in BOOLEAN : Audited(ok) /\ Handled(n, ok, 0)
              /\ UNCHANGED senders

Answered(n) ==
    \/ /\ n \in claims
       /\ Handled(n, TRUE, 0) /\ UNCHANGED <<claims, senders, left>>
    \/ n \notin claims /\ Refers(n) /\ Answer(n)
    \/ n \notin claims /\ Refers(n) /\ entries[log[n].item].state # "open" /\ Declined(n)
    \/ n \notin claims /\ ~Refers(n) /\ MakeWake(n)

\* The next frame.  What refers to a message waits for the forwarder's lock.
Receive ==
    LET n == wire + 1
        kind == log[n].kind
    IN  /\ up /\ conn \in {"resuming", "up"} /\ ~expired /\ n <= Len(log)
        /\ wire' = n
        /\ \/ kind = "other" /\ Other(n)
           \/ kind = "stranger" /\ Declined(n)
           \/ kind = "plain" /\ MakeWake(n)
           \/ kind = "reply" /\ ~Locked /\ Answered(n)
        /\ UNCHANGED <<urlDead, expired, conn, failures, base, slackVars, posts, listed, entries, lives,
                       told, poll, up>>

\* _send_answer: the slot is given back, whatever came of it.
SenderDone(n) ==
    /\ n \in senders
    /\ senders' = senders \ {n}
    /\ UNCHANGED <<gatewayVars, posts, listed, fileVars, poll, up, left>>

-----------------------------------------------------------------------------
(* SocketModeListener and SlackBridge._store                               *)

othersOfSlack == <<discordVars, posts, listed, fileVars, poll, senders, up>>

SlackSay(kind) ==
    /\ Spend("envelopes")
    /\ envelopes' = Append(envelopes, [kind |-> kind, wakes |-> 0, fails |-> 0, unheard |-> 0,
                                       kept |-> FALSE, acked |-> FALSE])
    /\ UNCHANGED <<slack, othersOfSlack>>

SlackOpen ==
    /\ up /\ slack = "down" /\ slack' = "up"
    /\ UNCHANGED <<envelopes, othersOfSlack, left>>

\* A disconnect frame, or an error of the socket.
SlackDrop ==
    /\ up /\ slack = "up" /\ Spend("drops") /\ slack' = "down"
    /\ UNCHANGED <<envelopes, othersOfSlack>>

\* SlackAuthError: the listener ends.
SlackEnds ==
    /\ up /\ slack = "down" /\ Spend("ends") /\ slack' = "ended"
    /\ UNCHANGED <<envelopes, othersOfSlack>>

\* _serve acknowledges what the bridge has kept.
Acks(kept) == kept

\* The bridge is done with an envelope; if the socket is dead by then, the
\* acknowledgement is lost, and so is the connection.
Enveloped(e, wakes, kept, heard) ==
    /\ LET envelope == [envelopes[e] EXCEPT
                            !.wakes = @ + wakes, !.kept = @ \/ kept,
                            !.acked = Acks(kept) /\ heard,
                            !.fails = @ + (IF kept THEN 0 ELSE 1),
                            !.unheard = @ + (IF heard THEN 0 ELSE 1)]
       IN  envelopes' = [envelopes EXCEPT ![e] = envelope]
    /\ slack' = IF heard THEN slack ELSE "down"

\* An envelope, or one again that was not acknowledged.  What a stranger says
\* is audited only; the rest is appended, then audited.
SlackReceive(e) ==
    LET wake == IF envelopes[e].kind = "stranger" THEN 0 ELSE 1
    IN  /\ up /\ slack = "up" /\ ~envelopes[e].acked
        /\ \/ Enveloped(e, wake, TRUE, TRUE) /\ UNCHANGED left
           \/ Enveloped(e, wake, TRUE, FALSE) /\ Spend("drops")
           \/ \E made \in {0, wake} : Enveloped(e, made, FALSE, TRUE) /\ Spend("faults")
        /\ UNCHANGED othersOfSlack

-----------------------------------------------------------------------------
(* AttentionForwarder.poll                                                 *)

NewEntry == [state |-> "new", attempts |-> 0, absent |-> 0, ref |-> 0]

\* slip: an item that is back is a new one
PresentAfresh(e) ==
    CASE e = None -> NewEntry
      [] e # None /\ e.state = "closing" -> [e EXCEPT !.absent = 0, !.state = "new", !.attempts = 0]
      [] OTHER -> [e EXCEPT !.absent = 0]

\* An item that is listed.
Present(e) ==
    CASE e = None -> NewEntry
      [] e # None /\ e.state = "closing" -> [e EXCEPT !.absent = 0, !.state = "open", !.attempts = 0]
      [] OTHER -> [e EXCEPT !.absent = 0]

\* slip: what was given up is never dropped
AbsentKept(e) ==
    LET gone == [e EXCEPT !.absent = IF @ < ResolveAfter THEN @ + 1 ELSE @]
    IN  CASE gone.absent < ResolveAfter -> gone
          [] gone.absent >= ResolveAfter /\ e.state = "open" ->
                [gone EXCEPT !.state = "closing", !.attempts = 0]
          [] gone.absent >= ResolveAfter /\ e.state = "new" -> None
          [] OTHER -> gone

\* An entry that is not.
Absent(e) ==
    LET gone == [e EXCEPT !.absent = IF @ < ResolveAfter THEN @ + 1 ELSE @]
    IN  CASE gone.absent < ResolveAfter -> gone
          [] gone.absent >= ResolveAfter /\ e.state = "open" ->
                [gone EXCEPT !.state = "closing", !.attempts = 0]
          [] gone.absent >= ResolveAfter /\ e.state = "closing" -> gone
          [] OTHER -> None

Marked(seen) ==
    [i \in Items |-> IF i \in seen THEN Present(entries[i])
                     ELSE IF entries[i] = None THEN None ELSE Absent(entries[i])]

\* snapshot().  A read that fails changes nothing.
Snapshot ==
    /\ up /\ poll.pc = "idle"
    /\ poll' = [Idle EXCEPT !.pc = "mark", !.seen = listed]
    /\ UNCHANGED <<gatewayVars, posts, listed, fileVars, senders, up, left>>

\* The entries are marked and saved, and the sends of this poll are known; an
\* entry that is dropped is audited before the file is saved.
Mark ==
    LET marked == Marked(poll.seen)
        made == {i \in Items : entries[i] = None /\ marked[i] # None}
        dropped == {i \in Items : entries[i] # None /\ marked[i] = None}
        pending == {i \in Items : marked[i] # None /\ marked[i].state \in {"new", "closing"}}
    IN  /\ up /\ poll.pc = "mark"
        /\ \/ /\ \E todo \in kSubset(Min({SendsPerPoll, Cardinality(pending)}), pending) :
                    poll' = IF todo = {} THEN Idle ELSE [Idle EXCEPT !.pc = "send", !.todo = todo]
              /\ entries' = marked
              /\ lives' = [i \in Items |-> lives[i] + IF i \in made THEN 1 ELSE 0]
              /\ UNCHANGED left
           \/ /\ dropped # {} /\ Audited(FALSE)
              /\ poll' = Idle /\ UNCHANGED <<entries, lives>>
        /\ UNCHANGED <<gatewayVars, posts, listed, claims, told, senders, up>>

\* _deliver: posted and known to be, posted and not known, or not posted.
Deliver(i, posted, ok) ==
    /\ up /\ poll.pc = "send" /\ i \in poll.todo /\ (ok => posted)
    /\ posts' = [posts EXCEPT ![i] = @ + IF posted /\ entries[i].state = "new" THEN 1 ELSE 0]
    /\ poll' = [poll EXCEPT !.pc = "posted", !.item = i, !.ok = ok]
    /\ UNCHANGED <<gatewayVars, listed, fileVars, senders, up, left>>

\* What the entry becomes: told, followed up, given up, or one attempt more.
Recorded(e, ok, last) ==
    CASE ok /\ e.state = "new" -> [e EXCEPT !.state = "open", !.attempts = 0, !.ref = last]
      [] ok /\ e.state = "closing" -> None
      [] ~ok /\ e.attempts + 1 < MaxAttempts -> [e EXCEPT !.attempts = @ + 1]
      [] OTHER -> IF e.state = "new" THEN [e EXCEPT !.state = "abandoned", !.attempts = @ + 1]
                  ELSE None

\* Audited, then saved; a record that is not written ends the poll unsaved.
Record ==
    LET i == poll.item
        e == entries[i]
        rest == poll.todo \ {i}
        spoken == poll.ok \/ e.attempts + 1 >= MaxAttempts
    IN  /\ up /\ poll.pc = "posted"
        /\ \/ /\ entries' = [entries EXCEPT ![i] = Recorded(e, poll.ok, posts[i])]
              /\ told' = [told EXCEPT ![i] = @ + IF poll.ok /\ e.state = "new" THEN 1 ELSE 0]
              /\ poll' = IF rest = {} THEN Idle ELSE [Idle EXCEPT !.pc = "send", !.todo = rest]
              /\ UNCHANGED left
           \/ /\ spoken /\ Audited(FALSE)
              /\ poll' = Idle /\ UNCHANGED <<entries, told>>
        /\ UNCHANGED <<gatewayVars, posts, listed, claims, lives, senders, up>>

-----------------------------------------------------------------------------
(* The process.                                                            *)

\* A bridge that is not configured stays off.
Closed(c) == IF c = "off" THEN "off" ELSE "down"

Crash ==
    /\ up /\ Spend("crashes")
    /\ up' = FALSE /\ conn' = Closed(conn) /\ slack' = Closed(slack)
    /\ sequence' = NoSession /\ failures' = 0
    /\ poll' = Idle /\ senders' = {}
    /\ UNCHANGED <<log, wire, urlDead, expired, base, envelopes, posts, listed, fileVars>>

Restart ==
    /\ ~up /\ up' = TRUE
    /\ UNCHANGED <<gatewayVars, posts, listed, fileVars, poll, senders, left>>

Refused == conn = "resuming" /\ expired /\ \E resumable \in BOOLEAN : Invalid(resumable)
Listener == Dial \/ Hello \/ Ready \/ Resumed \/ Receive \/ Refused
SlackListener == SlackOpen \/ \E e \in DOMAIN envelopes : SlackReceive(e)
Forwarder ==
    \/ Snapshot \/ Mark \/ Record
    \/ \E i \in Items, posted, ok \in BOOLEAN : Deliver(i, posted, ok)

Next ==
    \/ \E kind \in {"plain", "stranger", "other"} : Remark(kind)
    \/ \E i \in Items : Flip(i) \/ \E k \in 1 .. posts[i] : Reply(i, k)
    \/ DeadUrl \/ Fatal
    \/ \E given \in BOOLEAN : Drop(given) \/ Invalid(given)
    \/ \E kind \in {"plain", "stranger"} : SlackSay(kind)
    \/ SlackDrop \/ SlackEnds
    \/ Listener \/ SlackListener \/ Forwarder
    \/ \E n \in senders : SenderDone(n)
    \/ Crash \/ Restart

\* The threads run, an answer ends by its timeout, and the unit restarts the
\* process.
Spec ==
    /\ Init /\ [][Next]_vars
    /\ WF_vars(Listener) /\ WF_vars(SlackListener) /\ WF_vars(Forwarder) /\ WF_vars(Restart)
    /\ WF_vars(\E n \in senders : SenderDone(n))

-----------------------------------------------------------------------------
(* Properties                                                              *)

IsMessage(n) == log[n].kind # "other"

\* GatewayListener.handle: within a session no message is skipped.  The
\* sequence number is never that of a message that was not kept, and one below
\* it that was not kept was handed on, and raised.  SocketModeListener._serve:
\* an envelope that was acknowledged was kept.
NothingSkipped ==
    /\ \A n \in 1 .. Len(log) :
        base < n /\ n <= sequence /\ IsMessage(n) /\ ~log[n].kept
            => n < sequence /\ log[n].fails > 0
    /\ \A e \in DOMAIN envelopes : envelopes[e].acked => envelopes[e].kept

\* The _store of both bridges: whatever is sent again, a message makes one wake
\* and one more only for each time its handling raised or its acknowledgement
\* was lost.
OneWakePerMessage ==
    /\ \A n \in 1 .. Len(log) : log[n].wakes <= 1 + log[n].fails
    /\ \A e \in DOMAIN envelopes :
        envelopes[e].wakes <= 1 + envelopes[e].fails + envelopes[e].unheard

\* A reply that was taken for an instruction to the agent answers no message
\* that is on record, then or later, and was not claimed as an answer: poll
\* holds the lock while a post has no record yet, and a claim is looked for
\* before the entry.
RepliesAreNotWakes ==
    \A n \in 1 .. Len(log) :
        log[n].kind = "reply" /\ log[n].wakes > 0 => n \notin claims /\ ~Refers(n)

\* What people write wakes the daemon once, and not at all when it is for the
\* notices; nothing they write within a session is passed over.
MessagesOnce == NothingSkipped /\ OneWakePerMessage /\ RepliesAreNotWakes

\* AttentionForwarder.poll: an entry is recorded as told at most once while it
\* lasts, however its item comes and goes.
ToldOnce == \A i \in Items : told[i] <= lives[i]

\* AttentionForwarder.poll: once Drove's list stays as it is, what is on it was
\* told or given up, and nothing else is kept.
StateOf(i) == IF entries[i] = None THEN "none" ELSE entries[i].state
ForwarderSettles ==
    <>[](\A i \in Items :
            StateOf(i) \in IF i \in listed THEN {"open", "abandoned"} ELSE {"none"})

\* The run_forever of both listeners: a message is kept, or raised, or fell to
\* a session that was given up, unless the listener ended or holds to a url
\* nobody answers at; an envelope is acknowledged unless the listener ended.
Settled(n) == log[n].kept \/ log[n].fails > 0 \/ n <= base
Stuck == conn = "ended" \/ (CanResume /\ urlDead)
MessagesArrive ==
    /\ <>[](Stuck \/ \A n \in 1 .. Len(log) : IsMessage(n) => Settled(n))
    /\ <>[](slack = "ended" \/ \A e \in DOMAIN envelopes : envelopes[e].acked)

=============================================================================
