--------------------------------- MODULE Hold ---------------------------------
(***************************************************************************)
(* bothy/codex.py, bothy/interrupts.py and the callbacks bothy/runner.py   *)
(* gives them: what happens to a question or an approval that the worker   *)
(* asks for while a turn runs, when a hold is configured.  One run.        *)
(*                                                                         *)
(* Four kinds of thread share it: the reader that receives the worker's    *)
(* requests, the supervisor that ticks and answers them, one announcer per *)
(* request, and the people: replies in chat, through the InterruptBoard,   *)
(* and `bothy answer' in a shell, through files in state/control.  A body  *)
(* under _holds_lock, the board's lock or control_transaction is one step. *)
(***************************************************************************)
EXTENDS Integers, FiniteSets

CONSTANTS
    Asks,       \* the requests the worker may send
    Chats,      \* the replies in chat being handled
    Shells,     \* the invocations of `bothy answer'
    About,      \* About[p]: the requests that p, of either kind, may answer
    Nothing,    \* no text, no file, no request
    MaxHeld,    \* _MAX_PENDING_INTERRUPTS
    MaxPosts    \* the slots of _NOTIFY_SLOTS

\* What somebody answers is told apart by who says it.
Texts == Chats \cup Shells

ASSUME HoldAssumption ==
    /\ IsFiniteSet(Asks) /\ About \in [Texts -> SUBSET Asks]
    /\ Nothing \notin Texts \cup Asks /\ "declined" \notin Texts \cup {Nothing}
    /\ MaxHeld \in Nat /\ MaxPosts \in Nat

VARIABLES
    \* a request
    stage,      \* see Stages
    text,       \* PendingInterrupt.text
    past,       \* its deadline has passed
    post,       \* see Posts: its announcer, and the announced and failed flags
    reply,      \* what the worker was sent
    \* the control directory and the board
    marker,     \* the requests with a .pending file
    file,       \* the .answer file of each request
    board,      \* InterruptBoard._entries
    \* the supervisor
    pc, after,  \* where it is, and where the tick it is in returns to
    stopping,   \* the argument of that tick
    snapshot,   \* the requests it looks at
    todo,       \* those whose answer file it has yet to read
    hand,       \* the request whose file it has just taken, and its text
    out,        \* those it has resolved and not yet replied to
    \* the client
    stop,       \* _stop_reason is set
    closed,     \* _closed is set
    broken,     \* the worker reads its stdin no more
    \* the people
    chat,       \* the request each reply was matched with
    shell,      \* what each invocation read
    \* history, read by no action's guard
    first,      \* the first answer to each request that was taken and audited
    sent        \* how many replies each request got

askVars == <<stage, text, past, post, reply>>
fileVars == <<marker, file, board>>
tickVars == <<pc, after, stopping, snapshot, todo, hand, out>>
clientVars == <<stop, closed, broken>>
peopleVars == <<chat, shell>>
history == <<first, sent>>
vars == <<stage, text, past, post, reply, marker, file, board, pc, after, stopping,
          snapshot, todo, hand, out, stop, closed, broken, chat, shell, first, sent>>

\* "checked": the reader found that it may be held.  "held": in `interrupts'.
\* "closed": resolved, or declined at once.
Stages == {"unasked", "checked", "held", "closed"}

\* "thread" to "marked" are the steps of the announcer, "announced" and "failed"
\* its outcomes, "clearing" the way to a late failure.
Posts == {"none", "thread", "posting", "posted", "marked", "announced", "clearing", "failed"}

Held == {q \in Asks : stage[q] = "held"}
Posting == {q \in Asks : post[q] \in {"thread", "posting", "posted", "marked", "clearing"}}

-----------------------------------------------------------------------------
(* The reader (_handle_server_request, _hold).  A definition marked "slip" *)
(* is used by no specification: it is a mistake the properties would       *)
(* notice.                                                                 *)

Reading == ~broken /\ \A q \in Asks : stage[q] # "checked"

\* No hold for this one: a secret, no reply channel, a policy that denies, too
\* many held, the client stopping, or no allowance left.
Decline(q) ==
    /\ Reading /\ stage[q] = "unasked"
    /\ stage' = [stage EXCEPT ![q] = "closed"]
    /\ reply' = [reply EXCEPT ![q] = "declined"]
    /\ sent' = [sent EXCEPT ![q] = @ + 1]
    /\ UNCHANGED <<text, past, post, first>>
    /\ UNCHANGED fileVars /\ UNCHANGED tickVars /\ UNCHANGED clientVars /\ UNCHANGED peopleVars

\* The tests at the head of _hold take no lock ...
MayHold(q) ==
    /\ Reading /\ stage[q] = "unasked"
    /\ ~closed /\ ~stop /\ Cardinality(Held) < MaxHeld
    /\ stage' = [stage EXCEPT ![q] = "checked"]
    /\ UNCHANGED <<text, past, post, reply>>
    /\ UNCHANGED fileVars /\ UNCHANGED tickVars /\ UNCHANGED clientVars
    /\ UNCHANGED peopleVars /\ UNCHANGED history

\* ... the entry is made under it.
Enter(q) ==
    /\ stage[q] = "checked"
    /\ stage' = [stage EXCEPT ![q] = "held"]
    /\ UNCHANGED <<text, past, post, reply>>
    /\ UNCHANGED fileVars /\ UNCHANGED tickVars /\ UNCHANGED clientVars
    /\ UNCHANGED peopleVars /\ UNCHANGED history

-----------------------------------------------------------------------------
(* Answers (CodexClient.answer).                                           *)

Takes(q) ==
    /\ stage[q] = "held" /\ ~closed /\ ~stop
    /\ post[q] = "announced" /\ text[q] = Nothing /\ ~past[q]

\* The first answer wins, if it can be audited.
Answer(q, t) ==
    \/ /\ Takes(q)
       /\ text' = [text EXCEPT ![q] = t]
       /\ first' = IF first[q] = Nothing THEN [first EXCEPT ![q] = t] ELSE first
    \/ UNCHANGED <<text, first>>

\* A reply in chat: matched with a live entry of the board ...
MatchChat(c, q) ==
    /\ chat[c] = Nothing
    /\ q \in board \cap About[c]
    /\ chat' = [chat EXCEPT ![c] = q]
    /\ UNCHANGED askVars /\ UNCHANGED fileVars /\ UNCHANGED tickVars
    /\ UNCHANGED clientVars /\ UNCHANGED shell /\ UNCHANGED history

\* ... then given to its client, without the board's lock.
AnswerChat(c) ==
    /\ chat[c] # Nothing
    /\ Answer(chat[c], c)
    /\ chat' = [chat EXCEPT ![c] = Nothing]
    /\ UNCHANGED <<stage, past, post, reply, shell, sent>>
    /\ UNCHANGED fileVars /\ UNCHANGED tickVars /\ UNCHANGED clientVars

\* A marker's deadline is that of the announced request; the one before it is
\* earlier, or the same when the turn has no allowance left.
MarkerStands(q) == q \in marker /\ ~(past[q] /\ post[q] = "announced")
MarkerLapsed(q) == q \notin marker \/ past[q]

\* `bothy answer': reads the marker and probes its owner outside the lock ...
ReadMarker(s, q) ==
    /\ shell[s] = Nothing /\ q \in About[s]
    /\ \E live \in BOOLEAN :
          /\ IF live THEN MarkerStands(q) ELSE MarkerLapsed(q)
          /\ shell' = [shell EXCEPT ![s] = [ask |-> q, live |-> live]]
    /\ UNCHANGED askVars /\ UNCHANGED fileVars /\ UNCHANGED tickVars
    /\ UNCHANGED clientVars /\ UNCHANGED chat /\ UNCHANGED history

\* ... and under it leaves an answer, or removes what is there.
WriteAnswer(s) ==
    LET q == shell[s].ask IN
    /\ shell[s] # Nothing
    /\ \/ /\ shell[s].live /\ MarkerStands(q)
          /\ file' = [file EXCEPT ![q] = s]
          /\ UNCHANGED marker
       \/ /\ ~shell[s].live \/ MarkerLapsed(q)
          /\ file' = [file EXCEPT ![q] = Nothing]
          /\ marker' = marker \ {q}
    /\ shell' = [shell EXCEPT ![s] = Nothing]
    /\ UNCHANGED askVars /\ UNCHANGED board /\ UNCHANGED tickVars
    /\ UNCHANGED clientVars /\ UNCHANGED chat /\ UNCHANGED history

-----------------------------------------------------------------------------
(* The announcer of a request (_announce_interrupt, interrupt_asked,       *)
(* activate_interrupt).                                                    *)

\* On the board before the post, so that a reply finds the request it is for.
Announce(q) ==
    /\ post[q] = "thread"
    /\ IF stage[q] = "held" /\ ~closed
       THEN board' = board \cup {q} /\ post' = [post EXCEPT ![q] = "posting"]
       ELSE post' = [post EXCEPT ![q] = "failed"] /\ UNCHANGED board
    /\ UNCHANGED <<stage, text, past, reply, marker, file>>
    /\ UNCHANGED tickVars /\ UNCHANGED clientVars /\ UNCHANGED peopleVars /\ UNCHANGED history

\* The post returns, with a message or without.  It may never return.
Posted(q) ==
    /\ post[q] = "posting"
    /\ \E p \in {"posted", "failed"} : post' = [post EXCEPT ![q] = p]
    /\ UNCHANGED <<stage, text, past, reply>>
    /\ UNCHANGED fileVars /\ UNCHANGED tickVars /\ UNCHANGED clientVars
    /\ UNCHANGED peopleVars /\ UNCHANGED history

WriteMarker(q) ==
    /\ post[q] = "posted"
    /\ marker' = marker \cup {q}
    /\ post' = [post EXCEPT ![q] = "marked"]
    /\ UNCHANGED <<stage, text, past, reply, file, board>>
    /\ UNCHANGED tickVars /\ UNCHANGED clientVars /\ UNCHANGED peopleVars /\ UNCHANGED history

\* slip: an activation that comes too late leaves its marker.
ActivateCareless(q) ==
    /\ post[q] = "marked"
    /\ IF stage[q] = "held" /\ ~closed /\ ~past[q]
       THEN board' = board \cup {q} /\ post' = [post EXCEPT ![q] = "announced"]
       ELSE post' = [post EXCEPT ![q] = "failed"] /\ UNCHANGED board
    /\ UNCHANGED <<stage, text, past, reply, marker, file>>
    /\ UNCHANGED tickVars /\ UNCHANGED clientVars /\ UNCHANGED peopleVars /\ UNCHANGED history

\* Still held and in time: from here on, with a deadline of its own, it can be
\* answered.
Activate(q) ==
    /\ post[q] = "marked"
    /\ IF stage[q] = "held" /\ ~closed /\ ~past[q]
       THEN board' = board \cup {q} /\ post' = [post EXCEPT ![q] = "announced"]
       ELSE post' = [post EXCEPT ![q] = "clearing"] /\ UNCHANGED board
    /\ UNCHANGED <<stage, text, past, reply, marker, file>>
    /\ UNCHANGED tickVars /\ UNCHANGED clientVars /\ UNCHANGED peopleVars /\ UNCHANGED history

ClearMarker(q) ==
    /\ post[q] = "clearing"
    /\ marker' = marker \ {q}
    /\ file' = [file EXCEPT ![q] = Nothing]
    /\ post' = [post EXCEPT ![q] = "failed"]
    /\ UNCHANGED <<stage, text, past, reply, board>>
    /\ UNCHANGED tickVars /\ UNCHANGED clientVars /\ UNCHANGED peopleVars /\ UNCHANGED history

-----------------------------------------------------------------------------
(* The supervisor (run_turn, _tick_interrupts, close).                     *)

\* A tick begins: with the requests held now; unless it stops, their answer
\* files are read.
Tick(s, return) ==
    /\ pc' = "files" /\ after' = return /\ stopping' = s
    /\ snapshot' = Held /\ todo' = IF s THEN {} ELSE Held
    /\ UNCHANGED <<hand, out>>

\* An iteration of the loop.  It stops for a cancellation, the budget, the wall
\* clock, or a reason already set.
Look ==
    /\ pc = "loop"
    /\ \E s \in BOOLEAN : (stop => s) /\ Tick(s, IF s THEN "stop" ELSE "loop")
    /\ UNCHANGED askVars /\ UNCHANGED fileVars /\ UNCHANGED clientVars
    /\ UNCHANGED peopleVars /\ UNCHANGED history

\* The token cap sets the reason between two ticks.
TokenCap ==
    /\ pc = "loop" /\ ~stop
    /\ stop' = TRUE
    /\ UNCHANGED <<closed, broken>> /\ UNCHANGED askVars /\ UNCHANGED fileVars
    /\ UNCHANGED tickVars /\ UNCHANGED peopleVars /\ UNCHANGED history

\* The reason is set, and a second tick declines what came since the first.
Interrupt ==
    /\ pc = "stop"
    /\ stop' = TRUE
    /\ Tick(TRUE, "interrupted")
    /\ UNCHANGED <<closed, broken>> /\ UNCHANGED askVars /\ UNCHANGED fileVars
    /\ UNCHANGED peopleVars /\ UNCHANGED history

\* The turn completes, or the worker is given up: the last tick of run_turn.
TurnEnds ==
    /\ pc \in {"loop", "interrupted"}
    /\ Tick(TRUE, "close")
    /\ UNCHANGED askVars /\ UNCHANGED fileVars /\ UNCHANGED clientVars
    /\ UNCHANGED peopleVars /\ UNCHANGED history

Close ==
    /\ pc = "close"
    /\ closed' = TRUE
    /\ Tick(TRUE, "kill")
    /\ UNCHANGED <<stop, broken>> /\ UNCHANGED askVars /\ UNCHANGED fileVars
    /\ UNCHANGED peopleVars /\ UNCHANGED history

\* The group is killed, and the runner clears up after what was announced.
Kill ==
    /\ pc = "kill"
    /\ pc' = "over" /\ broken' = TRUE
    /\ board' = {}
    /\ file' = [q \in Asks |-> IF post[q] \in {"none", "thread"} THEN file[q] ELSE Nothing]
    /\ UNCHANGED <<after, stopping, snapshot, todo, hand, out, marker, stop, closed>>
    /\ UNCHANGED askVars /\ UNCHANGED peopleVars /\ UNCHANGED history

\* An announcer is started, if a slot is free (other runs use them too) and the
\* thread can be.
StartAnnouncer(q) ==
    /\ pc = "files" /\ ~stopping /\ todo = snapshot
    /\ q \in snapshot
    /\ post[q] = "none" /\ ~past[q] /\ Cardinality(Posting) < MaxPosts
    /\ \E p \in {"thread", "failed"} : post' = [post EXCEPT ![q] = p]
    /\ UNCHANGED <<stage, text, past, reply>>
    /\ UNCHANGED fileVars /\ UNCHANGED tickVars /\ UNCHANGED clientVars
    /\ UNCHANGED peopleVars /\ UNCHANGED history

\* An answer file is read and removed ...
TakeFile(q) ==
    /\ pc = "files" /\ q \in todo
    /\ todo' = todo \ {q}
    /\ file' = [file EXCEPT ![q] = Nothing]
    /\ IF file[q] = Nothing THEN UNCHANGED <<pc, hand>>
       ELSE pc' = "give" /\ hand' = [ask |-> q, text |-> file[q]]
    /\ UNCHANGED <<after, stopping, snapshot, out, marker, board>>
    /\ UNCHANGED askVars /\ UNCHANGED clientVars /\ UNCHANGED peopleVars /\ UNCHANGED history

\* ... and its text given like any other.
GiveFile ==
    /\ pc = "give"
    /\ Answer(hand.ask, hand.text)
    /\ pc' = "files" /\ hand' = Nothing
    /\ UNCHANGED <<stage, past, post, reply, sent>>
    /\ UNCHANGED <<after, stopping, snapshot, todo, out>>
    /\ UNCHANGED fileVars /\ UNCHANGED clientVars /\ UNCHANGED peopleVars

\* slip: a request nobody answers waits for somebody who will.
ResolveWaiting ==
    /\ pc = "files" /\ todo = {}
    /\ out' = {q \in snapshot \cap Held :
                  stopping \/ text[q] # Nothing \/ post[q] = "failed"}
    /\ stage' = [q \in Asks |-> IF q \in out' THEN "closed" ELSE stage[q]]
    /\ pc' = "send" /\ snapshot' = {}
    /\ UNCHANGED <<after, stopping, todo, hand, text, past, post, reply>>
    /\ UNCHANGED fileVars /\ UNCHANGED clientVars /\ UNCHANGED peopleVars /\ UNCHANGED history

\* What is answered, failed, past or stopped leaves `interrupts'.
Resolve ==
    /\ pc = "files" /\ todo = {}
    /\ out' = {q \in snapshot \cap Held :
                  stopping \/ text[q] # Nothing \/ post[q] = "failed" \/ past[q]}
    /\ stage' = [q \in Asks |-> IF q \in out' THEN "closed" ELSE stage[q]]
    /\ pc' = "send" /\ snapshot' = {}
    /\ UNCHANGED <<after, stopping, todo, hand, text, past, post, reply>>
    /\ UNCHANGED fileVars /\ UNCHANGED clientVars /\ UNCHANGED peopleVars /\ UNCHANGED history

\* slip: what is past its deadline has expired, answered or not.
VerdictByClock(q) == IF stopping \/ past[q] \/ text[q] = Nothing THEN "declined" ELSE text[q]

\* "stopped" comes before "answered".
Verdict(q) == IF stopping \/ text[q] = Nothing THEN "declined" ELSE text[q]

\* The files and the board are cleared, then the worker is told.  A worker that
\* is gone raises: out of run_turn into close, and there to the end.
Send(q) ==
    /\ pc = "send" /\ q \in out
    /\ marker' = marker \ {q} /\ board' = board \ {q}
    /\ file' = [file EXCEPT ![q] = Nothing]
    /\ IF broken
       THEN /\ out' = {} /\ pc' = IF after = "kill" THEN "kill" ELSE "close"
            /\ UNCHANGED <<text, reply, sent>>
       ELSE /\ out' = out \ {q} /\ UNCHANGED pc
            /\ text' = [text EXCEPT ![q] = Nothing]
            /\ reply' = [reply EXCEPT ![q] = Verdict(q)]
            /\ sent' = [sent EXCEPT ![q] = @ + 1]
    /\ UNCHANGED <<stage, past, post, first, after, stopping, snapshot, todo, hand>>
    /\ UNCHANGED clientVars /\ UNCHANGED peopleVars

Return ==
    /\ pc = "send" /\ out = {}
    /\ pc' = after /\ stopping' = FALSE
    /\ UNCHANGED <<after, snapshot, todo, hand, out>> /\ UNCHANGED askVars
    /\ UNCHANGED fileVars /\ UNCHANGED clientVars /\ UNCHANGED peopleVars /\ UNCHANGED history

-----------------------------------------------------------------------------

\* A deadline passes; an announced request has a later one.
Passes(q) ==
    /\ stage[q] = "held" /\ ~past[q]
    /\ past' = [past EXCEPT ![q] = TRUE]
    /\ UNCHANGED <<stage, text, post, reply>>
    /\ UNCHANGED fileVars /\ UNCHANGED tickVars /\ UNCHANGED clientVars
    /\ UNCHANGED peopleVars /\ UNCHANGED history

\* The worker dies.  The reader finds its end of file and closes the client, or
\* has ended before on a reply it could not send.
WorkerDies ==
    /\ ~broken
    /\ broken' = TRUE
    /\ closed' \in {closed, TRUE}
    /\ UNCHANGED stop /\ UNCHANGED askVars /\ UNCHANGED fileVars /\ UNCHANGED tickVars
    /\ UNCHANGED peopleVars /\ UNCHANGED history

Init ==
    /\ stage = [q \in Asks |-> "unasked"] /\ text = [q \in Asks |-> Nothing]
    /\ past = [q \in Asks |-> FALSE] /\ post = [q \in Asks |-> "none"]
    /\ reply = [q \in Asks |-> Nothing]
    /\ marker = {} /\ file = [q \in Asks |-> Nothing] /\ board = {}
    /\ pc = "loop" /\ after = "loop" /\ stopping = FALSE
    /\ snapshot = {} /\ todo = {} /\ hand = Nothing /\ out = {}
    /\ stop = FALSE /\ closed = FALSE /\ broken = FALSE
    /\ chat = [c \in Chats |-> Nothing] /\ shell = [s \in Shells |-> Nothing]
    /\ first = [q \in Asks |-> Nothing] /\ sent = [q \in Asks |-> 0]

Supervise ==
    \/ Look \/ TokenCap \/ Interrupt \/ TurnEnds \/ Close \/ Kill
    \/ GiveFile \/ Resolve \/ Return
    \/ \E q \in Asks : StartAnnouncer(q) \/ TakeFile(q) \/ Send(q)

Next ==
    \/ Supervise
    \/ \E q \in Asks :
          \/ Decline(q) \/ MayHold(q) \/ Enter(q) \/ Passes(q)
          \/ Announce(q) \/ Posted(q) \/ WriteMarker(q) \/ Activate(q) \/ ClearMarker(q)
    \/ \E c \in Chats : AnswerChat(c) \/ \E q \in Asks : MatchChat(c, q)
    \/ \E s \in Shells : WriteAnswer(s) \/ \E q \in Asks : ReadMarker(s, q)
    \/ WorkerDies

Spec == Init /\ [][Next]_vars

\* The supervisor and the reader take steps, and time passes.  No post returns
\* and nobody answers unless they want to.
Fairness ==
    /\ WF_vars(Supervise)
    /\ WF_vars(\E q \in Asks : Enter(q)) /\ WF_vars(\E q \in Asks : Passes(q))

FairSpec == Spec /\ Fairness

-----------------------------------------------------------------------------
(* Properties                                                              *)

\* Every variable has its type, and the slots for posts are not exceeded.
TypeOK ==
    /\ stage \in [Asks -> Stages] /\ post \in [Asks -> Posts]
    /\ text \in [Asks -> Texts \cup {Nothing}] /\ first \in [Asks -> Texts \cup {Nothing}]
    /\ reply \in [Asks -> Texts \cup {Nothing, "declined"}]
    /\ file \in [Asks -> Texts \cup {Nothing}]
    /\ past \in [Asks -> BOOLEAN] /\ sent \in [Asks -> Nat]
    /\ marker \subseteq Asks /\ board \subseteq Asks
    /\ pc \in {"loop", "files", "give", "send", "stop", "interrupted", "close", "kill", "over"}
    /\ after \in {"loop", "stop", "interrupted", "close", "kill"}
    /\ todo \subseteq snapshot /\ snapshot \subseteq Asks /\ out \subseteq Asks
    /\ hand \in {Nothing} \cup [ask : Asks, text : Texts]
    /\ {stopping, stop, closed, broken} \subseteq BOOLEAN
    /\ chat \in [Chats -> Asks \cup {Nothing}]
    /\ shell \in [Shells -> {Nothing} \cup [ask : Asks, live : BOOLEAN]]
    /\ Cardinality(Posting) <= MaxPosts

\* The worker gets one reply to a request, however the answers, the deadline, a
\* failed announcement, the stop and the close of the client fall together.
RepliedOnce == \A q \in Asks : sent[q] <= 1

\* What the worker is told is the answer that was taken first: none that came
\* later by another way, and none that was refused (codex.py: "First answer
\* wins").
FirstAnswerWins == \A q \in Asks : reply[q] \in Texts => reply[q] = first[q]

\* An answer that was taken, and is in the audit log as given, is declined only
\* by a tick that stops the turn or comes at its end, never because its deadline
\* passed between the answer and the tick that looks at it.
DroppedOnlyByStop ==
    \A q \in Asks : reply[q] = "declined" /\ first[q] # Nothing => stop \/ after # "loop"

\* One answer, the first, reaches the worker, and none that was taken is lost but
\* to the stop.
AnsweredOnce == TypeOK /\ RepliedOnce /\ FirstAnswerWins /\ DroppedOnlyByStop

\* Once a request has its reply and its announcer is through, nobody can reach
\* it: no marker invites `bothy answer', no answer waits in a file, and the board
\* matches no reply with it; a post that returns late does not bring it back.
NothingOutlivesItsQuestion ==
    \A q \in Asks :
        reply[q] # Nothing /\ q \notin Posting =>
            q \notin marker /\ file[q] = Nothing /\ q \notin board

\* Every request gets its reply, whether anyone answers or not, whether its post
\* returns or not, as long as the worker lives to read it.
EveryRequestAnswered ==
    LET Waiting == {q \in Asks : stage[q] # "unasked" /\ reply[q] = Nothing}
    IN  Waiting # {} ~> Waiting = {} \/ broken

\* docs/OPERATING.md: "Answer while the hold is live", which the CLI tells by the
\* marker: a hold that can be answered has one.
LiveHoldsKeepTheirMarker ==
    \A q \in Asks :
        stage[q] = "held" /\ post[q] = "announced" /\ ~past[q] /\ ~closed => q \in marker
=============================================================================
