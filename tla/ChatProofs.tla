------------------------------ MODULE ChatProofs ------------------------------
(***************************************************************************)
(* Theorems about Chat, for any items, thresholds and limits, and for any  *)
(* number of messages, envelopes, dropped sessions, crashes and failed     *)
(* writes: a message wakes once, and an item is told once.                 *)
(***************************************************************************)
EXTENDS Chat, SequenceTheorems, TLAPS

-----------------------------------------------------------------------------
(* The inductive invariant.                                                *)

Frames == [kind : {"plain", "stranger", "other", "reply"}, item : Items \cup {None}, to : Nat,
           wakes : Nat, fails : Nat, kept : BOOLEAN]

Envelopes == [kind : {"plain", "stranger"}, wakes : Nat, fails : Nat, unheard : Nat,
              kept : BOOLEAN, acked : BOOLEAN]

Polls == [pc : {"idle", "mark", "send", "posted"}, seen : SUBSET Items, todo : SUBSET Items,
          item : Items \cup {None}, ok : BOOLEAN]

TypeOK ==
    /\ log \in Seq(Frames)
    /\ wire \in Nat /\ sequence \in Nat \cup {NoSession} /\ base \in Nat
    /\ conn \in Connections
    /\ envelopes \in Seq(Envelopes)
    /\ posts \in [Items -> Nat] /\ lives \in [Items -> Nat] /\ told \in [Items -> Nat]
    /\ listed \subseteq Items
    /\ entries \in [Items -> Entries \cup {None}]
    /\ poll \in Polls

\* What is known of frames is about frames that were sent.
WithinLog == wire <= Len(log) /\ sequence <= Len(log)

\* A connection that serves messages has a session, is at or past its number, and has
\* handed on whatever it read.
Serving == conn \in {"resuming", "up"}
HandedOn ==
    Serving =>
        /\ CanResume /\ sequence <= wire
        /\ \A n \in 1 .. Len(log) :
              base < n /\ n <= wire /\ IsMessage(n) => log[n].kept \/ log[n].fails > 0

\* What is sent again was not kept.
UnkeptAhead ==
    CanResume => \A n \in 1 .. Len(log) : sequence < n => ~log[n].kept

\* A wake too many for a frame, or for an envelope, is one of a handling that raised or
\* of an acknowledgement that was lost.
WakesPaidFor ==
    /\ \A n \in 1 .. Len(log) : log[n].wakes <= log[n].fails + IF log[n].kept THEN 1 ELSE 0
    /\ \A e \in 1 .. Len(envelopes) :
          envelopes[e].wakes <= envelopes[e].fails + envelopes[e].unheard
                                    + IF envelopes[e].acked THEN 1 ELSE 0

\* A poll has in hand entries that are to be told or followed up.
InHand(i) == entries[i] # None /\ entries[i].state \in {"new", "closing"}
PollsKnow ==
    /\ Locked => \A i \in poll.todo : InHand(i)
    /\ poll.pc = "posted" => poll.item \in poll.todo

\* A reply is to a post, and one that was taken for an instruction is to a post that no
\* record will be of: it came before the post in hand.
RepliesFollowPosts ==
    \A n \in 1 .. Len(log) : log[n].kind = "reply" =>
        LET i == log[n].item IN
        /\ i \in Items /\ log[n].to \in 1 .. posts[i]
        /\ (/\ log[n].wakes > 0
            /\ poll.pc = "posted" /\ poll.item = i /\ poll.ok /\ entries[i].state = "new")
                => log[n].to < posts[i]

\* An entry that is new has not been told.
NewIsUntold ==
    \A i \in Items :
        told[i] <= lives[i] - IF entries[i] # None /\ entries[i].state = "new" THEN 1 ELSE 0

IInv ==
    /\ TypeOK
    /\ WithinLog
    /\ HandedOn
    /\ UnkeptAhead
    /\ NothingSkipped
    /\ WakesPaidFor
    /\ PollsKnow
    /\ RepliesFollowPosts
    /\ RepliesAreNotWakes
    /\ NewIsUntold

-----------------------------------------------------------------------------
(* What the steps do to what the invariant reads.                          *)

chat == <<posts, listed, entries, claims, poll, lives, told>>

\* Nothing, but for the list of items.
Quiet ==
    /\ listed' \subseteq Items
    /\ UNCHANGED <<log, wire, conn, sequence, base, envelopes, posts, entries, claims, poll,
                   lives, told>>

\* A message is sent.
Said ==
    /\ \E f \in Frames :
          /\ log' = Append(log, f) /\ f.wakes = 0 /\ f.fails = 0 /\ f.kept = FALSE
          /\ f.kind = "reply" => f.item \in Items /\ f.to \in 1 .. posts[f.item]
    /\ UNCHANGED <<wire, conn, sequence, base, envelopes, chat>>

\* A connection is made or lost, and the session with it.
Relinked ==
    /\ conn' \in Connections /\ wire' \in {wire, sequence} /\ sequence' \in {sequence, NoSession}
    /\ conn' \in {"resuming", "up"} => sequence' # NoSession /\ wire' = sequence'
    /\ wire' # wire => sequence # NoSession
    /\ poll' \in {poll, Idle}
    /\ UNCHANGED <<log, base, envelopes, posts, listed, entries, claims, lives, told>>

\* READY or RESUMED.
Begun ==
    /\ log' = Append(log, Frame("other", None, 0))
    /\ conn' = "up" /\ wire' = Len(log) + 1 /\ sequence' = Len(log) + 1
    /\ base' = Len(log) + 1 \/ (base' = base /\ Serving /\ wire = Len(log))
    /\ UNCHANGED <<envelopes, chat>>

\* The next frame, and what was done about it.
Changed(n, kept, wakes) ==
    /\ log' \in Seq(Frames) /\ Len(log') = Len(log)
    /\ \A m \in 1 .. Len(log) : m # n => log'[m] = log[m]
    /\ log'[n].kind = log[n].kind /\ log'[n].item = log[n].item /\ log'[n].to = log[n].to
    /\ log'[n].kept = kept /\ log'[n].wakes = log[n].wakes + wakes
    /\ log'[n].fails = log[n].fails + (IF kept THEN 0 ELSE 1)

Read(n) ==
    /\ Serving /\ n = wire + 1 /\ n \in 1 .. Len(log) /\ wire' = n
    /\ UNCHANGED <<conn, base, envelopes, posts, listed, entries, poll, lives, told>>
    /\ \/ ~IsMessage(n) /\ sequence' = n /\ UNCHANGED <<log, claims>>
       \/ \E kept \in BOOLEAN, wakes \in {0, 1} :
            /\ IsMessage(n) /\ Changed(n, kept, wakes)
            /\ sequence' = IF kept THEN n ELSE sequence
            /\ claims' \in {claims, claims \cup {n}}
            /\ n \in claims' => n \in claims \/ Refers(n)
            /\ wakes = 1 /\ log[n].kind = "reply" => n \notin claims' /\ ~Refers(n)
            /\ log[n].kind = "reply" => ~Locked

\* An envelope is sent, or received.
Enclosed ==
    /\ \E kind \in {"plain", "stranger"} :
          envelopes' = Append(envelopes, [kind |-> kind, wakes |-> 0, fails |-> 0, unheard |-> 0,
                                          kept |-> FALSE, acked |-> FALSE])
    /\ UNCHANGED <<log, wire, conn, sequence, base, chat>>

Unclosed ==
    /\ \E e \in 1 .. Len(envelopes) : \E kept, heard \in BOOLEAN, wakes \in {0, 1} :
          /\ ~envelopes[e].acked
          /\ envelopes' \in Seq(Envelopes) /\ Len(envelopes') = Len(envelopes)
          /\ \A m \in 1 .. Len(envelopes) : m # e => envelopes'[m] = envelopes[m]
          /\ envelopes'[e].acked = (kept /\ heard)
          /\ envelopes'[e].acked => envelopes'[e].kept
          /\ envelopes'[e].wakes = envelopes[e].wakes + wakes
          /\ envelopes'[e].fails = envelopes[e].fails + (IF kept THEN 0 ELSE 1)
          /\ envelopes'[e].unheard = envelopes[e].unheard + (IF heard THEN 0 ELSE 1)
    /\ UNCHANGED <<log, wire, conn, sequence, base, chat>>

LEMMA LogTyped ==
    ASSUME TypeOK
    PROVE  /\ Len(log) \in Nat /\ Len(envelopes) \in Nat
           /\ DOMAIN envelopes = 1 .. Len(envelopes)
           /\ \A n \in 1 .. Len(log) : log[n] \in Frames
           /\ \A e \in 1 .. Len(envelopes) : envelopes[e] \in Envelopes
<1> QED
  BY LenProperties, ElementOfSeq DEF TypeOK

LEMMA HandledChanges ==
    ASSUME TypeOK, NEW n \in 1 .. Len(log), NEW kept \in BOOLEAN, NEW wakes \in {0, 1},
           Handled(n, kept, wakes)
    PROVE  Changed(n, kept, wakes) /\ sequence' = IF kept THEN n ELSE sequence
<1> DEFINE f == [log[n] EXCEPT !.kept = kept, !.wakes = @ + wakes,
                               !.fails = @ + (IF kept THEN 0 ELSE 1)]
<1>1. log \in Seq(Frames) /\ log[n] \in Frames
  BY LogTyped DEF TypeOK
<1>2. PICK d \in {0, 1} : d = IF kept THEN 0 ELSE 1
  OBVIOUS
<1>3. PICK w, g \in Nat : w = log[n].wakes + wakes /\ g = log[n].fails + d
  BY <1>1, SMTT(20) DEF Frames
<1>4. f = [log[n] EXCEPT !.kept = kept, !.wakes = w, !.fails = g]
  BY <1>2, <1>3, Zenon
<1>5. log' = [log EXCEPT ![n] = f]
  BY DEF Handled
<1> HIDE DEF f
<1>6. /\ f \in Frames
      /\ f.kind = log[n].kind /\ f.item = log[n].item /\ f.to = log[n].to /\ f.kept = kept
      /\ f.wakes = w /\ f.fails = g
  BY <1>1, <1>4 DEF Frames
<1>7. /\ log' \in Seq(Frames) /\ Len(log') = Len(log)
      /\ \A m \in 1 .. Len(log) : log'[m] = IF m = n THEN f ELSE log[m]
  BY <1>1, <1>5, <1>6, ExceptSeq
<1>8. Changed(n, kept, wakes)
  BY <1>2, <1>3, <1>6, <1>7 DEF Changed
<1> QED
  BY <1>8 DEF Handled, Advanced

LEMMA EnvelopedChanges ==
    ASSUME TypeOK, NEW e \in 1 .. Len(envelopes), ~envelopes[e].acked,
           NEW kept \in BOOLEAN, NEW heard \in BOOLEAN, NEW wakes \in {0, 1},
           Enveloped(e, wakes, kept, heard), othersOfSlack' = othersOfSlack
    PROVE  Unclosed
<1> DEFINE f == [envelopes[e] EXCEPT
                    !.wakes = @ + wakes, !.kept = @ \/ kept, !.acked = kept /\ heard,
                    !.fails = @ + (IF kept THEN 0 ELSE 1),
                    !.unheard = @ + (IF heard THEN 0 ELSE 1)]
<1>1. /\ envelopes \in Seq(Envelopes) /\ envelopes[e] \in Envelopes
      /\ envelopes[e].wakes \in Nat /\ envelopes[e].fails \in Nat /\ envelopes[e].unheard \in Nat
  BY LogTyped DEF TypeOK, Envelopes
<1>2. PICK a, k \in BOOLEAN : a = (kept /\ heard) /\ k = (envelopes[e].kept \/ kept)
  OBVIOUS
<1>3. PICK c, d \in {0, 1} : c = (IF kept THEN 0 ELSE 1) /\ d = (IF heard THEN 0 ELSE 1)
  OBVIOUS
<1>4. PICK w, g, h \in Nat : /\ w = envelopes[e].wakes + wakes
                            /\ g = envelopes[e].fails + c /\ h = envelopes[e].unheard + d
  <2> HIDE <1>2, <1>3
  <2>1. /\ envelopes[e].wakes + wakes \in Nat /\ envelopes[e].fails + c \in Nat
        /\ envelopes[e].unheard + d \in Nat
    BY <1>1
  <2> QED
    BY <2>1, Zenon
<1>5. f = [envelopes[e] EXCEPT !.wakes = w, !.kept = k, !.acked = a, !.fails = g, !.unheard = h]
  BY <1>2, <1>3, <1>4, Zenon
<1>6. envelopes' = [envelopes EXCEPT ![e] = f]
  BY DEF Enveloped, Acks
<1> HIDE DEF f
<1>7. /\ f \in Envelopes /\ f.acked = a /\ f.kept = k
      /\ f.wakes = w /\ f.fails = g /\ f.unheard = h
  BY <1>1, <1>5 DEF Envelopes
<1>8. /\ envelopes' \in Seq(Envelopes) /\ Len(envelopes') = Len(envelopes)
      /\ \A m \in 1 .. Len(envelopes) : envelopes'[m] = IF m = e THEN f ELSE envelopes[m]
  BY <1>1, <1>6, <1>7, ExceptSeq
<1>9. f.acked = (kept /\ heard) /\ (f.acked => f.kept)
  BY <1>2, <1>7
<1> QED
  BY <1>3, <1>4, <1>7, <1>8, <1>9 DEF Unclosed, othersOfSlack, discordVars, fileVars, chat

LEMMA ReceiveReads == ASSUME IInv, Receive PROVE Read(wire + 1)
<1> DEFINE n == wire + 1
<1> USE DEF IInv
<1>1. /\ Serving /\ n \in 1 .. Len(log) /\ wire' = n
      /\ UNCHANGED <<conn, base, envelopes, posts, listed, entries, poll, lives, told>>
  BY LogTyped DEF Receive, Serving, TypeOK, slackVars
<1>2. CASE log[n].kind = "other" /\ Other(n)
  BY <1>1, <1>2 DEF Read, Other, IsMessage, Advanced
<1>3. ASSUME IsMessage(n), NEW kept \in BOOLEAN, NEW wakes \in {0, 1}, Handled(n, kept, wakes),
             claims' \in {claims, claims \cup {n}},
             n \in claims' => n \in claims \/ Refers(n),
             wakes = 1 /\ log[n].kind = "reply" => n \notin claims' /\ ~Refers(n),
             log[n].kind = "reply" => ~Locked
      PROVE  Read(n)
  <2>1. Changed(n, kept, wakes) /\ sequence' = IF kept THEN n ELSE sequence
    BY <1>1, <1>3, HandledChanges
  <2> QED
    BY <1>1, <1>3, <2>1 DEF Read
<1>4. ASSUME IsMessage(n), Declined(n), log[n].kind = "reply" => ~Locked PROVE Read(n)
  BY <1>3, <1>4 DEF Declined
<1>5. ASSUME IsMessage(n), MakeWake(n),
             log[n].kind = "reply" => ~Locked /\ n \notin claims /\ ~Refers(n)
      PROVE  Read(n)
  <2>1. PICK stored, audited \in BOOLEAN : Handled(n, audited, IF stored THEN 1 ELSE 0)
                                           /\ UNCHANGED claims
    BY <1>5 DEF MakeWake
  <2>2. (IF stored THEN 1 ELSE 0) \in {0, 1}
    OBVIOUS
  <2> QED
    BY <1>3, <1>5, <2>1, <2>2
<1>6. CASE log[n].kind = "reply" /\ ~Locked /\ Answered(n)
  <2>1. IsMessage(n)
    BY <1>6 DEF IsMessage
  <2>2. CASE n \in claims /\ Handled(n, TRUE, 0) /\ UNCHANGED claims
    <3>1. 0 \in {0, 1} /\ TRUE \in BOOLEAN /\ 0 # 1
      OBVIOUS
    <3> QED
      BY <1>3, <1>6, <2>1, <2>2, <3>1
  <2>3. CASE Refers(n) /\ Answer(n)
    <3>1. claims' = claims \cup {n} /\ \E ok \in BOOLEAN : Handled(n, ok, 0)
      BY <2>3 DEF Answer
    <3> QED
      BY <1>3, <1>6, <2>1, <2>3, <3>1
  <2>4. CASE Declined(n)
    BY <1>4, <1>6, <2>1, <2>4
  <2>5. CASE n \notin claims /\ ~Refers(n) /\ MakeWake(n)
    BY <1>5, <1>6, <2>1, <2>5
  <2> QED
    BY <1>6, <2>2, <2>3, <2>4, <2>5 DEF Answered
<1> QED
  BY <1>2, <1>4, <1>5, <1>6 DEF Receive, IsMessage

-----------------------------------------------------------------------------
(* The steps of Next, by what they do.                                     *)

LEMMA Sayings ==
    ASSUME IInv,
           \/ \E kind \in {"plain", "stranger", "other"} : Remark(kind)
           \/ \E i \in Items : \E k \in 1 .. posts[i] : Reply(i, k)
    PROVE  Said
<1> USE DEF IInv, TypeOK
<1>1. ASSUME NEW kind \in {"plain", "stranger", "other"}, Remark(kind) PROVE Said
  <2>1. Frame(kind, None, 0) \in Frames
    BY DEF Frame, Frames
  <2> QED
    BY <1>1, <2>1 DEF Remark, Say, Said, Frame, chat, slackVars, fileVars
<1>2. ASSUME NEW i \in Items, NEW k \in 1 .. posts[i], Reply(i, k) PROVE Said
  <2>1. posts[i] \in Nat
    OBVIOUS
  <2>2. Frame("reply", i, k) \in Frames
    BY <2>1 DEF Frame, Frames
  <2> QED
    BY <1>2, <2>2 DEF Reply, Say, Said, Frame, chat, slackVars, fileVars
<1> QED
  BY <1>1, <1>2

LEMMA Links ==
    ASSUME IInv,
           \/ Dial \/ Hello \/ Fatal \/ Refused \/ Crash
           \/ \E given \in BOOLEAN : Drop(given) \/ Invalid(given)
    PROVE  Relinked
<1> USE DEF IInv, TypeOK, Connections, NoSession
<1>1. CASE Dial
  BY <1>1 DEF Dial, Relinked, slackVars, fileVars
<1>2. CASE Hello
  BY <1>2 DEF Hello, Relinked, CanResume, slackVars, fileVars
<1>3. CASE Fatal
  BY <1>3 DEF Fatal, Relinked, slackVars, fileVars
<1>4. ASSUME NEW given \in BOOLEAN, Invalid(given) PROVE Relinked
  <2>1. sequence' \in {sequence, NoSession} /\ conn' = "down" /\ wire' = wire
    BY <1>4 DEF Invalid
  <2> QED
    BY <1>4, <2>1 DEF Invalid, Relinked, slackVars, fileVars
<1>5. ASSUME NEW given \in BOOLEAN, Drop(given) PROVE Relinked
  BY <1>5 DEF Drop, Relinked, slackVars, fileVars
<1>6. CASE Refused
  BY <1>4, <1>6 DEF Refused
<1>7. CASE Crash
  BY <1>7 DEF Crash, Closed, Relinked, fileVars
<1> QED
  BY <1>1, <1>2, <1>3, <1>4, <1>5, <1>6, <1>7

LEMMA Beginnings == ASSUME IInv, Ready \/ Resumed PROVE Begun
<1>1. CASE Ready
  BY <1>1 DEF Ready, Opened, Begun, chat, slackVars, fileVars
<1>2. CASE Resumed
  BY <1>2 DEF Resumed, Opened, Begun, Serving, chat, slackVars, fileVars
<1> QED
  BY <1>1, <1>2

LEMMA Envelopings ==
    ASSUME IInv
    PROVE  /\ (\E kind \in {"plain", "stranger"} : SlackSay(kind)) => Enclosed
           /\ (\E e \in DOMAIN envelopes : SlackReceive(e)) => Unclosed
<1> USE DEF IInv
<1>1. ASSUME NEW kind \in {"plain", "stranger"}, SlackSay(kind) PROVE Enclosed
  BY <1>1 DEF SlackSay, Enclosed, othersOfSlack, discordVars, fileVars, chat
<1>2. ASSUME NEW e \in DOMAIN envelopes, SlackReceive(e) PROVE Unclosed
  <2>1. e \in 1 .. Len(envelopes)
    BY LogTyped
  <2>2. PICK wake \in {0, 1} :
            \/ Enveloped(e, wake, TRUE, TRUE) \/ Enveloped(e, wake, TRUE, FALSE)
            \/ \E made \in {0, wake} : Enveloped(e, made, FALSE, TRUE)
    <3>1. (IF envelopes[e].kind = "stranger" THEN 0 ELSE 1) \in {0, 1}
      OBVIOUS
    <3> QED
      BY <1>2, <3>1 DEF SlackReceive
  <2>3. PICK made \in {0, 1} : \E kept, heard \in BOOLEAN : Enveloped(e, made, kept, heard)
    BY <2>2
  <2> QED
    BY <1>2, <2>1, <2>3, EnvelopedChanges DEF SlackReceive
<1> QED
  BY <1>1, <1>2

LEMMA StepsAre ==
    ASSUME IInv, [Next]_vars
    PROVE  \/ Quiet \/ Said \/ Relinked \/ Begun \/ Read(wire + 1) \/ Enclosed \/ Unclosed
           \/ Snapshot \/ Mark \/ Record
           \/ \E i \in Items, posted, ok \in BOOLEAN : Deliver(i, posted, ok)
<1> USE DEF IInv, TypeOK
<1>1. CASE \E i \in Items : Flip(i)
  BY <1>1 DEF Flip, Quiet, gatewayVars, discordVars, slackVars, fileVars
<1>2. CASE DeadUrl \/ SlackOpen \/ SlackDrop \/ SlackEnds \/ Restart
           \/ \E n \in senders : SenderDone(n)
  BY <1>2 DEF DeadUrl, SlackOpen, SlackDrop, SlackEnds, Restart, SenderDone, Quiet,
              gatewayVars, discordVars, slackVars, fileVars, othersOfSlack
<1>3. CASE UNCHANGED vars
  BY <1>3 DEF vars, Quiet, gatewayVars, discordVars, slackVars, fileVars
<1>4. CASE \/ \E kind \in {"plain", "stranger", "other"} : Remark(kind)
           \/ \E i \in Items : \E k \in 1 .. posts[i] : Reply(i, k)
  BY <1>4, Sayings
<1>5. CASE \/ Dial \/ Hello \/ Fatal \/ Refused \/ Crash
           \/ \E given \in BOOLEAN : Drop(given) \/ Invalid(given)
  BY <1>5, Links
<1>6. CASE Ready \/ Resumed
  BY <1>6, Beginnings
<1>7. CASE Receive
  BY <1>7, ReceiveReads
<1>8. CASE (\E kind \in {"plain", "stranger"} : SlackSay(kind))
           \/ (\E e \in DOMAIN envelopes : SlackReceive(e))
  BY <1>8, Envelopings
<1>9. CASE Forwarder
  BY <1>9 DEF Forwarder
<1> QED
  BY <1>1, <1>2, <1>3, <1>4, <1>5, <1>6, <1>7, <1>8, <1>9 DEF Next, Listener, SlackListener

-----------------------------------------------------------------------------
(* AttentionForwarder.poll.                                                *)

\* An item that is listed has an entry: its own, or a new one.
LEMMA PresentIs ==
    ASSUME NEW e \in Entries \cup {None}
    PROVE  /\ Present(e) \in Entries /\ Present(e) # None
           /\ e = None => Present(e).state = "new" /\ Present(e).ref = 0
           /\ e # None => /\ Present(e).ref = e.ref
                          /\ Present(e).state = "new" => e.state = "new"
<1>1. CASE e = None
  BY <1>1, ChatAssumption DEF Present, NewEntry, Entries
<1>2. CASE e # None /\ e.state = "closing"
  <2>1. e \in Entries
    BY <1>2
  <2> DEFINE x == [e EXCEPT !.absent = 0, !.state = "open", !.attempts = 0]
  <2>2. x \in Entries /\ x.ref = e.ref /\ x.state = "open"
    BY <2>1 DEF Entries
  <2>3. Present(e) = x
    BY <1>2 DEF Present
  <2> HIDE DEF x
  <2> QED
    BY <1>2, <2>2, <2>3, ChatAssumption
<1>3. CASE e # None /\ e.state # "closing"
  BY <1>3, ChatAssumption DEF Present, Entries
<1> QED
  BY <1>1, <1>2, <1>3

\* An entry whose item is listed no more is kept, closed or dropped.
LEMMA AbsentIs ==
    ASSUME NEW e \in Entries
    PROVE  /\ Absent(e) \in Entries \cup {None}
           /\ Absent(e) # None => /\ Absent(e).ref = e.ref
                                  /\ Absent(e).state = "new" => e.state = "new"
<1>1. PICK n \in Nat : n = IF e.absent < ResolveAfter THEN e.absent + 1 ELSE e.absent
  BY DEF Entries
<1> DEFINE gone == [e EXCEPT !.absent = n]
<1>2. gone \in Entries /\ gone.ref = e.ref /\ gone.state = e.state /\ gone.absent = n
  BY DEF Entries
<1>3. Absent(e) =
        CASE n < ResolveAfter -> gone
          [] n >= ResolveAfter /\ e.state = "open" ->
                [gone EXCEPT !.state = "closing", !.attempts = 0]
          [] n >= ResolveAfter /\ e.state = "closing" -> gone
          [] OTHER -> None
  <2>1. [e EXCEPT !.absent = IF @ < ResolveAfter THEN @ + 1 ELSE @] = gone
    BY <1>1
  <2> HIDE <1>1
  <2> QED
    BY <1>2, <2>1 DEF Absent
<1> HIDE DEF gone
<1>4. ResolveAfter \in Nat
  BY ChatAssumption
<1>5. CASE n < ResolveAfter
  BY <1>2, <1>3, <1>4, <1>5
<1>6. CASE n >= ResolveAfter /\ e.state = "open"
  <2> DEFINE x == [gone EXCEPT !.state = "closing", !.attempts = 0]
  <2>1. Absent(e) = x
    BY <1>3, <1>4, <1>6
  <2>2. x \in Entries /\ x.ref = gone.ref /\ x.state = "closing"
    BY <1>2 DEF Entries
  <2> HIDE DEF x
  <2> QED
    BY <1>2, <2>1, <2>2
<1>7. CASE n >= ResolveAfter /\ e.state # "open"
  BY <1>2, <1>3, <1>4, <1>7
<1> QED
  BY <1>4, <1>5, <1>6, <1>7

Remarked ==
    /\ UNCHANGED <<log, wire, conn, sequence, base, envelopes, posts, listed, claims, told>>
    /\ poll' \in Polls /\ poll'.pc \in {"idle", "send"}
    /\ entries' \in [Items -> Entries \cup {None}] /\ lives' \in [Items -> Nat]
    /\ poll'.pc = "send" => \A i \in poll'.todo : InHand(i)'
    /\ \A i \in Items :
          /\ lives'[i] >= lives[i]
          /\ entries'[i] # None =>
                /\ entries[i] = None => entries'[i].ref = 0 /\ lives'[i] = lives[i] + 1
                /\ entries[i] # None =>
                      /\ entries'[i].ref = entries[i].ref
                      /\ entries'[i].state = "new" => entries[i].state = "new"

LEMMA MarkMarks == ASSUME IInv, Mark PROVE Remarked
<1> USE DEF IInv, TypeOK
<1> DEFINE marked == Marked(poll.seen)
           made == {i \in Items : entries[i] = None /\ marked[i] # None}
           pending == {i \in Items : marked[i] # None /\ marked[i].state \in {"new", "closing"}}
<1>1. Idle \in Polls /\ Idle.pc = "idle"
  BY DEF Idle, Polls
<1>2. UNCHANGED <<log, wire, conn, sequence, base, envelopes, posts, listed, claims, told>>
  BY DEF Mark, gatewayVars, discordVars, slackVars
<1>3. CASE poll' = Idle /\ UNCHANGED <<entries, lives>>
  <2>1. \A i \in Items : lives[i] >= lives[i]
    OBVIOUS
  <2> QED
    BY <1>1, <1>2, <1>3, <2>1 DEF Remarked
<1>4. CASE /\ \E todo \in kSubset(Min({SendsPerPoll, Cardinality(pending)}), pending) :
                 poll' = IF todo = {} THEN Idle ELSE [Idle EXCEPT !.pc = "send", !.todo = todo]
           /\ entries' = marked
           /\ lives' = [i \in Items |-> lives[i] + IF i \in made THEN 1 ELSE 0]
  <2>1. ASSUME NEW i \in Items
        PROVE  /\ marked[i] \in Entries \cup {None}
               /\ marked[i] # None =>
                     /\ entries[i] = None => marked[i].ref = 0
                     /\ entries[i] # None =>
                           /\ marked[i].ref = entries[i].ref
                           /\ marked[i].state = "new" => entries[i].state = "new"
    <3>1. entries[i] \in Entries \cup {None}
      OBVIOUS
    <3>2. CASE i \in poll.seen
      <4>1. marked[i] = Present(entries[i])
        BY <3>2 DEF Marked
      <4> QED
        BY <3>1, <4>1, PresentIs
    <3>3. CASE i \notin poll.seen /\ entries[i] = None
      BY <3>3 DEF Marked
    <3>4. CASE i \notin poll.seen /\ entries[i] # None
      <4>1. marked[i] = Absent(entries[i]) /\ entries[i] \in Entries
        BY <3>1, <3>4 DEF Marked
      <4> QED
        BY <3>4, <4>1, AbsentIs
    <3> QED
      BY <3>2, <3>3, <3>4
  <2>2. marked = [i \in Items |-> marked[i]]
    BY DEF Marked
  <2> HIDE DEF marked
  <2>3. entries' \in [Items -> Entries \cup {None}]
    BY <1>4, <2>1, <2>2
  <2>4. lives' \in [Items -> Nat] /\ \A i \in Items :
            lives'[i] >= lives[i] /\ (i \in made => lives'[i] = lives[i] + 1)
    BY <1>4
  <2>5. PICK todo \in SUBSET pending :
            poll' = IF todo = {} THEN Idle ELSE [Idle EXCEPT !.pc = "send", !.todo = todo]
    BY <1>4, Zenon DEF kSubset
  <2>6. poll' \in Polls /\ poll'.pc \in {"idle", "send"} /\ (poll'.pc = "send" => poll'.todo = todo)
    BY <2>5 DEF Idle, Polls
  <2>7. poll'.pc = "send" => \A i \in poll'.todo : InHand(i)'
    BY <1>4, <2>6 DEF InHand
  <2>8. \A i \in Items : entries[i] = None /\ entries'[i] # None => i \in made
    BY <1>4
  <2>9. \A i \in Items : entries'[i] # None =>
            /\ entries[i] = None => entries'[i].ref = 0
            /\ entries[i] # None =>
                  /\ entries'[i].ref = entries[i].ref
                  /\ entries'[i].state = "new" => entries[i].state = "new"
    BY <1>4, <2>1
  <2> HIDE DEF made, pending
  <2> QED
    BY <1>2, <2>3, <2>4, <2>6, <2>7, <2>8, <2>9 DEF Remarked
<1> QED
  BY <1>3, <1>4 DEF Mark

\* The entry in hand is told, followed up, given up or tried once more.
LEMMA RecordedIs ==
    ASSUME NEW e \in Entries, e.state \in {"new", "closing"}, NEW ok \in BOOLEAN,
           NEW last \in Nat
    PROVE  LET x == Recorded(e, ok, last) IN
           /\ x \in Entries \cup {None}
           /\ x # None => x.ref = e.ref \/ (x.ref = last /\ ok /\ e.state = "new")
           /\ x # None /\ x.state = "new" => ~ok /\ e.state = "new"
<1> USE DEF Entries
<1>1. MaxAttempts \in Nat /\ e.attempts + 1 \in Nat
  BY ChatAssumption
<1>2. CASE ok /\ e.state = "new"
  BY <1>2 DEF Recorded
<1>3. CASE ok /\ e.state = "closing"
  BY <1>3 DEF Recorded
<1>4. CASE ~ok /\ e.attempts + 1 < MaxAttempts
  BY <1>1, <1>4 DEF Recorded
<1>5. CASE ~ok /\ ~(e.attempts + 1 < MaxAttempts)
  <2>1. Recorded(e, ok, last) =
            IF e.state = "new" THEN [e EXCEPT !.state = "abandoned", !.attempts = @ + 1]
            ELSE None
    BY <1>5 DEF Recorded
  <2> QED
    BY <1>1, <2>1
<1> QED
  BY <1>2, <1>3, <1>4, <1>5

Rerecorded ==
    /\ UNCHANGED <<log, wire, conn, sequence, base, envelopes, posts, listed, claims, lives>>
    /\ poll.pc = "posted" /\ poll.item \in Items /\ InHand(poll.item)
    /\ poll' \in Polls /\ poll'.pc \in {"idle", "send"}
    /\ poll'.pc = "send" => poll'.todo = poll.todo \ {poll.item}
    /\ entries' \in [Items -> Entries \cup {None}] /\ told' \in [Items -> Nat]
    /\ \A i \in Items \ {poll.item} : entries'[i] = entries[i] /\ told'[i] = told[i]
    /\ LET i == poll.item
           e == entries[i]
           x == entries'[i]
           news == poll.ok /\ e.state = "new"
       IN  \/ x = e /\ told'[i] = told[i]
           \/ /\ told'[i] = told[i] + IF news THEN 1 ELSE 0
              /\ x # None => x.ref = e.ref \/ (x.ref = posts[i] /\ news)
              /\ x # None /\ x.state = "new" => ~poll.ok /\ e.state = "new"

LEMMA RecordRecords == ASSUME IInv, Record PROVE Rerecorded
<1> USE DEF IInv, TypeOK
<1> DEFINE i == poll.item
           e == entries[i]
           x == Recorded(e, poll.ok, posts[i])
           rest == poll.todo \ {i}
<1>1. poll.pc = "posted" /\ i \in Items /\ InHand(i) /\ poll.ok \in BOOLEAN
  BY DEF Record, PollsKnow, Locked, Polls
<1>2. e \in Entries /\ e.state \in {"new", "closing"} /\ posts[i] \in Nat
  BY <1>1 DEF InHand
<1>3. UNCHANGED <<log, wire, conn, sequence, base, envelopes, posts, listed, claims, lives>>
  BY DEF Record, gatewayVars, discordVars, slackVars
<1>4. Idle \in Polls /\ Idle.pc = "idle"
  BY DEF Idle, Polls
<1>5. CASE poll' = Idle /\ UNCHANGED <<entries, told>>
  BY <1>1, <1>3, <1>4, <1>5 DEF Rerecorded
<1>6. CASE /\ entries' = [entries EXCEPT ![i] = x]
           /\ told' = [told EXCEPT ![i] = @ + IF poll.ok /\ e.state = "new" THEN 1 ELSE 0]
           /\ poll' = IF rest = {} THEN Idle ELSE [Idle EXCEPT !.pc = "send", !.todo = rest]
  <2>1. /\ x \in Entries \cup {None}
        /\ x # None => x.ref = e.ref \/ (x.ref = posts[i] /\ poll.ok /\ e.state = "new")
        /\ x # None /\ x.state = "new" => ~poll.ok /\ e.state = "new"
    BY <1>1, <1>2, RecordedIs
  <2> HIDE DEF x
  <2>2. /\ entries' \in [Items -> Entries \cup {None}] /\ entries'[i] = x
        /\ \A j \in Items \ {i} : entries'[j] = entries[j]
    BY <1>1, <1>6, <2>1
  <2>3. PICK d \in {0, 1} : d = IF poll.ok /\ e.state = "new" THEN 1 ELSE 0
    OBVIOUS
  <2>4. /\ told' \in [Items -> Nat] /\ told'[i] = told[i] + d
        /\ \A j \in Items \ {i} : told'[j] = told[j]
    BY <1>1, <1>6, <2>3
  <2>5. rest \in SUBSET Items
    BY DEF Polls
  <2>6. /\ poll' \in Polls /\ poll'.pc \in {"idle", "send"}
        /\ poll'.pc = "send" => poll'.todo = rest
    BY <1>6, <2>5 DEF Idle, Polls
  <2> QED
    BY <1>1, <1>3, <2>1, <2>2, <2>3, <2>4, <2>6 DEF Rerecorded
<1> QED
  BY <1>5, <1>6 DEF Record

Posted ==
    /\ UNCHANGED <<log, wire, conn, sequence, base, envelopes, listed, entries, claims, lives,
                   told>>
    /\ poll' \in Polls /\ poll.pc = "send" /\ poll'.pc = "posted"
    /\ poll'.item \in poll.todo /\ poll'.todo = poll.todo
    /\ posts' \in [Items -> Nat] /\ \A i \in Items : posts'[i] >= posts[i]
    /\ poll'.ok /\ entries[poll'.item].state = "new"
           => posts'[poll'.item] = posts[poll'.item] + 1

LEMMA DeliverPosts ==
    ASSUME IInv, NEW i \in Items, NEW posted \in BOOLEAN, NEW ok \in BOOLEAN,
           Deliver(i, posted, ok)
    PROVE  Posted
<1> USE DEF IInv, TypeOK
<1>1. /\ poll' \in Polls /\ poll'.pc = "posted" /\ poll'.item = i /\ poll'.ok = ok
      /\ poll'.todo = poll.todo /\ poll.pc = "send" /\ i \in poll.todo
  BY DEF Deliver, Polls
<1>2. PICK d \in {0, 1} : d = IF posted /\ entries[i].state = "new" THEN 1 ELSE 0
  OBVIOUS
<1>3. posts' = [posts EXCEPT ![i] = @ + d]
  BY <1>2 DEF Deliver
<1>4. /\ posts' \in [Items -> Nat] /\ \A j \in Items : posts'[j] >= posts[j]
      /\ posts'[i] = posts[i] + d
  <2> HIDE <1>2
  <2> QED
    BY <1>3
<1>5. ok => posted
  BY DEF Deliver
<1>6. UNCHANGED <<log, wire, conn, sequence, base, envelopes, listed, entries, claims, lives, told>>
  BY DEF Deliver, gatewayVars, discordVars, slackVars, fileVars
<1> QED
  BY <1>1, <1>2, <1>4, <1>5, <1>6 DEF Posted

-----------------------------------------------------------------------------
(* Every step keeps the invariant: first what is about the gateway.        *)

Delivered == \E i \in Items, posted, ok \in BOOLEAN : Deliver(i, posted, ok)

LEMMA ForwarderSteps ==
    ASSUME IInv, Snapshot \/ Mark \/ Record \/ Delivered
    PROVE  /\ UNCHANGED <<log, wire, conn, sequence, base, envelopes, listed, claims>>
           /\ posts' \in [Items -> Nat] /\ \A i \in Items : posts'[i] >= posts[i]
           /\ poll' \in Polls
<1> USE DEF IInv, TypeOK
<1>1. \A i \in Items : posts[i] >= posts[i]
  OBVIOUS
<1>2. CASE Snapshot
  BY <1>1, <1>2 DEF Snapshot, Idle, Polls, gatewayVars, discordVars, slackVars, fileVars
<1>3. CASE Mark
  BY <1>1, <1>3, MarkMarks DEF Remarked
<1>4. CASE Record
  BY <1>1, <1>4, RecordRecords DEF Rerecorded
<1>5. CASE Delivered
  BY <1>5, DeliverPosts DEF Delivered, Posted
<1> QED
  BY <1>2, <1>3, <1>4, <1>5

LEMMA TypesKept == ASSUME IInv, [Next]_vars PROVE TypeOK'
<1> USE DEF IInv, TypeOK
<1>1. /\ Len(log) \in Nat
      /\ Frame("other", None, 0) \in Frames
      /\ Idle \in Polls
  BY LogTyped DEF Frame, Frames, Idle, Polls
<1>2. CASE Quiet
  BY <1>2 DEF Quiet
<1>3. CASE Said
  BY <1>3, AppendProperties DEF Said, chat
<1>4. CASE Relinked
  BY <1>1, <1>4 DEF Relinked, NoSession
<1>5. CASE Begun
  BY <1>1, <1>5, AppendProperties DEF Begun, chat, Connections
<1>6. CASE Read(wire + 1)
  BY <1>6 DEF Read, Changed
<1>7. CASE Enclosed
  <2>1. PICK kind \in {"plain", "stranger"} :
            envelopes' = Append(envelopes, [kind |-> kind, wakes |-> 0, fails |-> 0,
                                            unheard |-> 0, kept |-> FALSE, acked |-> FALSE])
    BY <1>7 DEF Enclosed
  <2>2. envelopes' \in Seq(Envelopes)
    BY <2>1, AppendProperties DEF Envelopes
  <2> QED
    BY <1>7, <2>2 DEF Enclosed, chat
<1>8. CASE Unclosed
  BY <1>8 DEF Unclosed, chat
<1>9. CASE Snapshot
  BY <1>9, ForwarderSteps DEF Snapshot, fileVars
<1>10. CASE Mark
  BY <1>10, MarkMarks DEF Remarked
<1>11. CASE Record
  BY <1>11, RecordRecords DEF Rerecorded
<1>12. CASE Delivered
  BY <1>12, DeliverPosts DEF Delivered, Posted
<1> QED
  BY <1>2, <1>3, <1>4, <1>5, <1>6, <1>7, <1>8, <1>9, <1>10, <1>11, <1>12, StepsAre DEF Delivered

\* What a frame that is added leaves of the others.
LEMMA SaidLog ==
    ASSUME IInv, Said \/ Begun
    PROVE  /\ Len(log') = Len(log) + 1
           /\ \A n \in 1 .. Len(log) : log'[n] = log[n]
           /\ log'[Len(log) + 1].kept = FALSE /\ log'[Len(log) + 1].wakes = 0
           /\ log'[Len(log) + 1].fails = 0
           /\ Begun => log'[Len(log) + 1].kind = "other"
<1>1. Frame("other", None, 0) \in Frames
  BY DEF Frame, Frames
<1>2. CASE Said
  <2>1. PICK f \in Frames : /\ log' = Append(log, f)
                            /\ f.wakes = 0 /\ f.fails = 0 /\ f.kept = FALSE
    BY <1>2 DEF Said
  <2>2. Begun => f.kind = "other"
    <3>1. Begun => Append(log, f) = Append(log, Frame("other", None, 0))
      BY <2>1 DEF Begun
    <3>2. Begun => f = Frame("other", None, 0)
      BY <1>1, <3>1, AppendProperties DEF IInv, TypeOK
    <3> QED
      BY <3>2 DEF Frame
  <2> QED
    BY <2>1, <2>2, AppendProperties DEF IInv, TypeOK
<1>3. CASE Begun
  <2>1. /\ Frame("other", None, 0).kept = FALSE /\ Frame("other", None, 0).wakes = 0
        /\ Frame("other", None, 0).fails = 0 /\ Frame("other", None, 0).kind = "other"
    BY DEF Frame
  <2>2. log' = Append(log, Frame("other", None, 0))
    BY <1>3 DEF Begun
  <2> QED
    BY <1>1, <2>1, <2>2, AppendProperties DEF IInv, TypeOK
<1> QED
  BY <1>2, <1>3

GatewayInv == WithinLog /\ HandedOn /\ UnkeptAhead

\* A frame is handed on in its turn, and is ahead of every number while it is not kept.
LEMMA GatewayKept == ASSUME IInv, [Next]_vars PROVE GatewayInv'
<1> USE DEF IInv, TypeOK, GatewayInv, WithinLog, HandedOn, UnkeptAhead, Serving, CanResume, NoSession
<1>1. Len(log) \in Nat
  BY LogTyped
<1>2. ASSUME UNCHANGED <<log, wire, conn, sequence, base>> PROVE GatewayInv'
  BY <1>2 DEF IsMessage
<1>3. CASE Quiet \/ Enclosed \/ Unclosed \/ Snapshot \/ Mark \/ Record \/ Delivered
  BY <1>2, <1>3, ForwarderSteps DEF Quiet, Enclosed, Unclosed
<1>4. CASE Said
  BY <1>1, <1>4, SaidLog DEF Said, IsMessage
<1>5. CASE Begun
  <2>1. /\ conn' = "up" /\ wire' = Len(log) + 1 /\ sequence' = Len(log) + 1
        /\ base' = Len(log) + 1 \/ (base' = base /\ Serving /\ wire = Len(log))
    BY <1>5 DEF Begun
  <2>2. /\ Len(log') = Len(log) + 1 /\ \A n \in 1 .. Len(log) : log'[n] = log[n]
        /\ log'[Len(log) + 1].kind = "other"
    BY <1>5, SaidLog
  <2>3. WithinLog' /\ UnkeptAhead'
    BY <1>1, <2>1, <2>2
  <2>4. CASE base' = Len(log) + 1
    BY <1>1, <2>1, <2>2, <2>3, <2>4
  <2>5. CASE base' = base /\ Serving /\ wire = Len(log)
    <3>1. \A n \in 1 .. Len(log) : base < n /\ log[n].kind # "other"
                                        => log[n].kept \/ log[n].fails > 0
      BY <1>1, <2>5 DEF IsMessage
    <3>2. \A n \in 1 .. Len(log') : n \in 1 .. Len(log) \/ n = Len(log) + 1
      BY <1>1, <2>2
    <3>3. \A n \in 1 .. Len(log') : base < n /\ log'[n].kind # "other"
                                        => log'[n].kept \/ log'[n].fails > 0
      BY <2>2, <3>1, <3>2
    <3> QED
      BY <1>1, <2>1, <2>3, <2>5, <3>3 DEF IsMessage
  <2> QED
    BY <2>1, <2>4, <2>5
<1>6. CASE Relinked
  <2>1. WithinLog'
    BY <1>1, <1>6 DEF Relinked
  <2>2. UnkeptAhead'
    BY <1>6 DEF Relinked
  <2>3. HandedOn'
    <3>1. Serving' => sequence' # NoSession /\ wire' = sequence' /\ sequence' = sequence
      BY <1>6 DEF Relinked
    <3>2. \A n \in 1 .. Len(log) : base < n /\ n <= sequence /\ IsMessage(n)
                                        => log[n].kept \/ log[n].fails > 0
      BY DEF NothingSkipped
    <3> QED
      BY <1>6, <3>1, <3>2 DEF Relinked, IsMessage
  <2> QED
    BY <2>1, <2>2, <2>3
<1>7. CASE Read(wire + 1)
  <2> DEFINE n == wire + 1
  <2>1. CASE ~IsMessage(n) /\ sequence' = n /\ UNCHANGED log
    BY <1>1, <1>7, <2>1 DEF Read, IsMessage
  <2>2. CASE \E kept \in BOOLEAN, wakes \in {0, 1} :
                Changed(n, kept, wakes) /\ sequence' = IF kept THEN n ELSE sequence
    <3>1. PICK kept \in BOOLEAN, wakes \in {0, 1} :
                Changed(n, kept, wakes) /\ sequence' = IF kept THEN n ELSE sequence
      BY <2>2
    <3>2. log[n] \in Frames /\ log[n].fails \in Nat
      BY <1>7, LogTyped DEF Read, Frames
    <3>3. log'[n].kept \/ log'[n].fails > 0
      BY <3>1, <3>2 DEF Changed
    <3>4. WithinLog' /\ HandedOn'
      BY <1>1, <1>7, <3>1, <3>3 DEF Read, Changed, IsMessage
    <3>5. UnkeptAhead'
      BY <1>1, <1>7, <3>1 DEF Read, Changed
    <3> QED
      BY <3>4, <3>5
  <2> QED
    BY <1>7, <2>1, <2>2 DEF Read
<1> QED
  BY <1>3, <1>4, <1>5, <1>6, <1>7, StepsAre DEF Delivered

\* Within a session no message is passed over, and an acknowledged envelope was kept.
LEMMA NothingSkippedKept == ASSUME IInv, [Next]_vars PROVE NothingSkipped'
<1> USE DEF IInv, TypeOK
<1> DEFINE Frames1 == \A n \in 1 .. Len(log) :
                          base < n /\ n <= sequence /\ IsMessage(n) /\ ~log[n].kept
                              => n < sequence /\ log[n].fails > 0
           Acked1 == \A e \in DOMAIN envelopes : envelopes[e].acked => envelopes[e].kept
<1>1. Len(log) \in Nat /\ Len(envelopes) \in Nat
  BY LogTyped
<1>2. Frames1 /\ Acked1
  BY DEF NothingSkipped
<1>3. Frames1'
  <2>1. ASSUME UNCHANGED <<log, sequence, base>> PROVE Frames1'
    BY <1>2, <2>1 DEF IsMessage
  <2>2. CASE Quiet \/ Enclosed \/ Unclosed \/ Snapshot \/ Mark \/ Record \/ Delivered
    BY <2>1, <2>2, ForwarderSteps DEF Quiet, Enclosed, Unclosed
  <2>3. CASE Said
    <3>1. sequence <= Len(log)
      BY DEF WithinLog
    <3> QED
      BY <1>1, <1>2, <2>3, <3>1, SaidLog DEF Said, IsMessage, NoSession
  <2>4. CASE Begun
    <3>1. CASE base' = Len(log) + 1
      BY <1>1, <2>4, <3>1, SaidLog DEF Begun
    <3>2. CASE base' = base /\ Serving /\ wire = Len(log)
      <4>1. \A n \in 1 .. Len(log) :
                base < n /\ IsMessage(n) => log[n].kept \/ log[n].fails > 0
        BY <1>1, <3>2 DEF HandedOn
      <4>2. /\ Len(log') = Len(log) + 1 /\ \A n \in 1 .. Len(log) : log'[n] = log[n]
            /\ log'[Len(log) + 1].kind = "other"
        BY <2>4, SaidLog
      <4>3. sequence' = Len(log) + 1
        BY <2>4 DEF Begun
      <4>4. ASSUME NEW n \in 1 .. Len(log'), base' < n,
                   log'[n].kind # "other", ~log'[n].kept
            PROVE  n < sequence' /\ log'[n].fails > 0
        <5>1. n \in 1 .. Len(log)
          BY <1>1, <4>2, <4>4
        <5>2. log'[n] = log[n] /\ base < n
          BY <3>2, <4>2, <4>4, <5>1
        <5>3. log[n].fails > 0
          BY <4>1, <4>4, <5>1, <5>2 DEF IsMessage
        <5> QED
          BY <1>1, <4>3, <5>1, <5>2, <5>3
      <4> QED
        BY <4>4 DEF IsMessage
    <3> QED
      BY <2>4, <3>1, <3>2 DEF Begun
  <2>5. CASE Relinked
    <3>1. sequence' = sequence \/ sequence' = -1
      BY <2>5 DEF Relinked, NoSession
    <3> QED
      BY <1>1, <1>2, <2>5, <3>1 DEF Relinked, IsMessage
  <2>6. CASE Read(wire + 1)
    <3> DEFINE n == wire + 1
    <3>1. /\ n \in 1 .. Len(log) /\ base' = base /\ sequence <= wire /\ sequence \in Nat
          /\ \A m \in 1 .. Len(log) :
                base < m /\ m < n /\ IsMessage(m) => log[m].kept \/ log[m].fails > 0
      BY <1>1, <2>6 DEF Read, HandedOn, CanResume
    <3>2. CASE ~IsMessage(n) /\ sequence' = n /\ UNCHANGED log
      BY <1>1, <3>1, <3>2 DEF IsMessage
    <3>3. CASE \E kept \in BOOLEAN, wakes \in {0, 1} :
                  Changed(n, kept, wakes) /\ sequence' = IF kept THEN n ELSE sequence
      BY <1>1, <1>2, <3>1, <3>3 DEF Changed, IsMessage
    <3> QED
      BY <2>6, <3>2, <3>3 DEF Read
  <2> QED
    BY <2>2, <2>3, <2>4, <2>5, <2>6, StepsAre DEF Delivered
<1>4. Acked1'
  <2>1. ASSUME UNCHANGED envelopes PROVE Acked1'
    BY <1>2, <2>1
  <2>2. CASE Quiet \/ Said \/ Relinked \/ Begun \/ Read(wire + 1) \/ Snapshot \/ Mark \/ Record
             \/ Delivered
    BY <2>1, <2>2, ForwarderSteps DEF Quiet, Said, Relinked, Begun, Read
  <2>3. CASE Enclosed
    <3>1. PICK kind \in {"plain", "stranger"} :
              envelopes' = Append(envelopes, [kind |-> kind, wakes |-> 0, fails |-> 0,
                                              unheard |-> 0, kept |-> FALSE, acked |-> FALSE])
      BY <2>3 DEF Enclosed
    <3>2. /\ envelopes' \in Seq(Envelopes) /\ Len(envelopes') = Len(envelopes) + 1
          /\ \A m \in 1 .. Len(envelopes) : envelopes'[m] = envelopes[m]
          /\ ~envelopes'[Len(envelopes) + 1].acked
      BY <3>1, AppendProperties DEF Envelopes
    <3>3. DOMAIN envelopes = 1 .. Len(envelopes) /\ DOMAIN envelopes' = 1 .. Len(envelopes')
      BY <3>2, LenProperties
    <3> QED
      BY <1>1, <1>2, <3>2, <3>3
  <2>4. CASE Unclosed
    <3>1. envelopes' \in Seq(Envelopes) /\ Len(envelopes') = Len(envelopes)
      BY <2>4 DEF Unclosed
    <3>2. DOMAIN envelopes = 1 .. Len(envelopes) /\ DOMAIN envelopes' = 1 .. Len(envelopes')
      BY <3>1, LenProperties
    <3> QED
      BY <1>2, <2>4, <3>1, <3>2 DEF Unclosed
  <2> QED
    BY <2>2, <2>3, <2>4, StepsAre DEF Delivered
<1> QED
  BY <1>3, <1>4 DEF NothingSkipped

\* A handling makes a wake for a frame or an envelope that was not settled before, and
\* either settles it or is counted.
LEMMA WakesPaidForKept == ASSUME IInv, [Next]_vars PROVE WakesPaidFor'
<1> USE DEF IInv, TypeOK
<1> DEFINE Frames2 == \A n \in 1 .. Len(log) :
                          log[n].wakes <= log[n].fails + IF log[n].kept THEN 1 ELSE 0
           Envelopes2 == \A e \in 1 .. Len(envelopes) :
                          envelopes[e].wakes <= envelopes[e].fails + envelopes[e].unheard
                                                    + IF envelopes[e].acked THEN 1 ELSE 0
<1>1. Len(log) \in Nat /\ Len(envelopes) \in Nat
  BY LogTyped
<1>2. Frames2 /\ Envelopes2
  BY DEF WakesPaidFor
<1>3. Frames2'
  <2>1. ASSUME UNCHANGED log PROVE Frames2'
    BY <1>2, <2>1
  <2>2. CASE Quiet \/ Relinked \/ Enclosed \/ Unclosed \/ Snapshot \/ Mark \/ Record \/ Delivered
    BY <2>1, <2>2, ForwarderSteps DEF Quiet, Relinked, Enclosed, Unclosed
  <2>3. CASE Said \/ Begun
    <3>1. /\ Len(log') = Len(log) + 1 /\ \A n \in 1 .. Len(log) : log'[n] = log[n]
          /\ log'[Len(log) + 1].wakes = 0 /\ log'[Len(log) + 1].fails = 0
          /\ log'[Len(log) + 1].kept = FALSE
      BY <2>3, SaidLog
    <3>2. \A n \in 1 .. Len(log') : n \in 1 .. Len(log) \/ n = Len(log) + 1
      BY <1>1, <3>1
    <3>3. ASSUME NEW n \in 1 .. Len(log')
          PROVE  log'[n].wakes <= log'[n].fails + IF log'[n].kept THEN 1 ELSE 0
      <4>1. CASE n \in 1 .. Len(log)
        BY <1>2, <3>1, <4>1
      <4>2. CASE n = Len(log) + 1
        BY <3>1, <4>2
      <4> QED
        BY <3>2, <4>1, <4>2
    <3> QED
      BY <3>3
  <2>4. CASE Read(wire + 1)
    <3> DEFINE n == wire + 1
    <3>1. n \in 1 .. Len(log) /\ log[n] \in Frames /\ ~log[n].kept
      BY <1>1, <2>4, LogTyped DEF Read, HandedOn, UnkeptAhead, NoSession, CanResume
    <3>2. log[n].wakes \in Nat /\ log[n].fails \in Nat /\ log[n].wakes <= log[n].fails
      BY <1>2, <3>1 DEF Frames
    <3>3. ASSUME NEW kept \in BOOLEAN, NEW wakes \in {0, 1}, Changed(n, kept, wakes)
          PROVE  Frames2'
      <4>1. log'[n].wakes <= log'[n].fails + IF log'[n].kept THEN 1 ELSE 0
        BY <3>2, <3>3 DEF Changed
      <4> QED
        BY <1>2, <3>3, <4>1 DEF Changed
    <3> QED
      BY <2>1, <2>4, <3>3 DEF Read
  <2> QED
    BY <2>2, <2>3, <2>4, StepsAre DEF Delivered
<1>4. Envelopes2'
  <2>1. ASSUME UNCHANGED envelopes PROVE Envelopes2'
    BY <1>2, <2>1
  <2>2. CASE Quiet \/ Said \/ Relinked \/ Begun \/ Read(wire + 1) \/ Snapshot \/ Mark \/ Record
             \/ Delivered
    BY <2>1, <2>2, ForwarderSteps DEF Quiet, Said, Relinked, Begun, Read
  <2>3. CASE Enclosed
    <3>1. PICK kind \in {"plain", "stranger"} :
              envelopes' = Append(envelopes, [kind |-> kind, wakes |-> 0, fails |-> 0,
                                              unheard |-> 0, kept |-> FALSE, acked |-> FALSE])
      BY <2>3 DEF Enclosed
    <3> DEFINE last == Len(envelopes) + 1
    <3>2. /\ Len(envelopes') = Len(envelopes) + 1
          /\ \A m \in 1 .. Len(envelopes) : envelopes'[m] = envelopes[m]
          /\ envelopes'[last].wakes = 0 /\ envelopes'[last].fails = 0
          /\ envelopes'[last].unheard = 0 /\ ~envelopes'[last].acked
      BY <3>1, AppendProperties DEF Envelopes
    <3>3. \A m \in 1 .. Len(envelopes') : m \in 1 .. Len(envelopes) \/ m = last
      BY <1>1, <3>2
    <3>4. ASSUME NEW e \in 1 .. Len(envelopes')
          PROVE  envelopes'[e].wakes <= envelopes'[e].fails + envelopes'[e].unheard
                                            + IF envelopes'[e].acked THEN 1 ELSE 0
      <4>1. CASE e \in 1 .. Len(envelopes)
        BY <1>2, <3>2, <4>1
      <4>2. CASE e = last
        BY <3>2, <4>2
      <4> QED
        BY <3>3, <4>1, <4>2
    <3> QED
      BY <3>4
  <2>4. CASE Unclosed
    <3>1. PICK e \in 1 .. Len(envelopes), kept, heard \in BOOLEAN, wakes \in {0, 1} :
             /\ ~envelopes[e].acked
             /\ Len(envelopes') = Len(envelopes)
             /\ \A m \in 1 .. Len(envelopes) : m # e => envelopes'[m] = envelopes[m]
             /\ envelopes'[e].acked = (kept /\ heard)
             /\ envelopes'[e].wakes = envelopes[e].wakes + wakes
             /\ envelopes'[e].fails = envelopes[e].fails + (IF kept THEN 0 ELSE 1)
             /\ envelopes'[e].unheard = envelopes[e].unheard + (IF heard THEN 0 ELSE 1)
      BY <2>4 DEF Unclosed
    <3>2. /\ envelopes[e].wakes \in Nat /\ envelopes[e].fails \in Nat
          /\ envelopes[e].unheard \in Nat
      BY LogTyped DEF Envelopes
    <3>3. envelopes[e].wakes <= envelopes[e].fails + envelopes[e].unheard
      BY <1>2, <3>1, <3>2
    <3>4. envelopes'[e].wakes <= envelopes'[e].fails + envelopes'[e].unheard
                                    + IF envelopes'[e].acked THEN 1 ELSE 0
      <4>1. CASE kept /\ heard
        <5>1. envelopes'[e].acked
          BY <3>1, <4>1, Zenon
        <5>2. /\ envelopes'[e].wakes = envelopes[e].wakes + wakes
              /\ envelopes'[e].fails = envelopes[e].fails
              /\ envelopes'[e].unheard = envelopes[e].unheard
          BY <3>1, <3>2, <4>1
        <5> QED
          BY <3>2, <3>3, <5>1, <5>2
      <4>2. CASE ~kept
        <5>1. ~envelopes'[e].acked
          BY <3>1, <4>2, Zenon
        <5>2. /\ envelopes'[e].wakes = envelopes[e].wakes + wakes
              /\ envelopes'[e].fails = envelopes[e].fails + 1
              /\ \/ envelopes'[e].unheard = envelopes[e].unheard
                 \/ envelopes'[e].unheard = envelopes[e].unheard + 1
          BY <3>1, <3>2, <4>2
        <5>3. wakes = 0 \/ wakes = 1
          OBVIOUS
        <5>4. envelopes'[e].wakes <= envelopes'[e].fails + envelopes'[e].unheard
          <6> HIDE DEF IInv, TypeOK
          <6>1. CASE envelopes'[e].unheard = envelopes[e].unheard
            BY <3>2, <3>3, <5>2, <5>3, <6>1
          <6>2. CASE envelopes'[e].unheard = envelopes[e].unheard + 1
            BY <3>2, <3>3, <5>2, <5>3, <6>2, SMTT(20)
          <6> QED
            BY <5>2, <6>1, <6>2
        <5> QED
          BY <3>2, <5>1, <5>2, <5>4
      <4>3. CASE kept /\ ~heard
        <5>1. ~envelopes'[e].acked
          BY <3>1, <4>3, Zenon
        <5>2. /\ envelopes'[e].wakes = envelopes[e].wakes + wakes
              /\ envelopes'[e].fails = envelopes[e].fails
              /\ envelopes'[e].unheard = envelopes[e].unheard + 1
          BY <3>1, <3>2, <4>3
        <5> QED
          BY <3>2, <3>3, <5>1, <5>2, SMTT(20)
      <4> QED
        BY <4>1, <4>2, <4>3
    <3> QED
      BY <1>2, <3>1, <3>4
  <2> QED
    BY <2>2, <2>3, <2>4, StepsAre DEF Delivered
<1> QED
  BY <1>3, <1>4 DEF WakesPaidFor

-----------------------------------------------------------------------------
(* What is about the forwarder.                                            *)

\* A poll goes on with entries that are to be told or followed up: nothing else changes
\* them while it holds the lock.
LEMMA PollsKnowKept == ASSUME IInv, [Next]_vars PROVE PollsKnow'
<1> USE DEF IInv, TypeOK, Locked, InHand
<1>1. CASE Quiet \/ Said \/ Begun \/ Read(wire + 1) \/ Enclosed \/ Unclosed
  BY <1>1 DEF PollsKnow, Quiet, Said, Begun, Read, Enclosed, Unclosed, chat
<1>2. CASE Relinked
  BY <1>2 DEF PollsKnow, Relinked, Idle
<1>3. CASE Snapshot
  BY <1>3 DEF PollsKnow, Snapshot, Idle
<1>4. CASE Mark
  BY <1>4, MarkMarks DEF PollsKnow, Remarked
<1>5. CASE Record
  <2>1. /\ poll'.pc \in {"idle", "send"} /\ poll.pc = "posted"
        /\ poll'.pc = "send" => poll'.todo = poll.todo \ {poll.item}
        /\ \A i \in Items \ {poll.item} : entries'[i] = entries[i]
    BY <1>5, RecordRecords DEF Rerecorded
  <2>2. poll.todo \subseteq Items
    BY DEF Polls
  <2> QED
    BY <2>1, <2>2 DEF PollsKnow
<1>6. CASE Delivered
  BY <1>6, DeliverPosts DEF PollsKnow, Delivered, Posted
<1> QED
  BY <1>1, <1>2, <1>3, <1>4, <1>5, <1>6, StepsAre DEF Delivered

\* What a step that reads no frame leaves of the frames and the claims: the old ones are
\* as they were, and the new one woke nobody.
OldFrames ==
    /\ claims' = claims
    /\ \A n \in 1 .. Len(log') :
          (n \in 1 .. Len(log) /\ log'[n] = log[n]) \/ log'[n].wakes = 0

LEMMA FramesOfOld ==
    ASSUME IInv, \/ Quiet \/ Said \/ Relinked \/ Begun \/ Enclosed \/ Unclosed
                 \/ Snapshot \/ Mark \/ Record \/ Delivered
    PROVE  OldFrames
<1>1. Len(log) \in Nat
  BY LogTyped DEF IInv
<1>2. CASE Said \/ Begun
  <2>1. Len(log') = Len(log) + 1 /\ \A n \in 1 .. Len(log) : log'[n] = log[n]
    BY <1>2, SaidLog
  <2>2. log'[Len(log) + 1].wakes = 0 /\ claims' = claims
    BY <1>2, SaidLog DEF Said, Begun, chat
  <2>3. \A n \in 1 .. Len(log') : n \in 1 .. Len(log) \/ n = Len(log) + 1
    BY <1>1, <2>1
  <2> QED
    BY <2>1, <2>2, <2>3 DEF OldFrames
<1>3. CASE Quiet \/ Relinked \/ Enclosed \/ Unclosed \/ Snapshot \/ Mark \/ Record \/ Delivered
  <2>1. log' = log /\ claims' = claims
    BY <1>3, ForwarderSteps DEF Quiet, Relinked, Enclosed, Unclosed, chat
  <2> QED
    BY <2>1 DEF OldFrames
<1> QED
  BY <1>2, <1>3

\* A reply that was taken for an instruction came before the post in hand: poll holds the
\* lock from the post to its record.
LEMMA RepliesFollowPostsKept == ASSUME IInv, [Next]_vars PROVE RepliesFollowPosts'
<1> USE DEF IInv, TypeOK
<1> DEFINE Told(n, i) == /\ poll.pc = "posted" /\ poll.item = i /\ poll.ok
                         /\ entries[i].state = "new"
           Follows(n) == LET i == log[n].item IN
                /\ i \in Items /\ log[n].to \in 1 .. posts[i]
                /\ log[n].wakes > 0 /\ Told(n, i) => log[n].to < posts[i]
<1>1. Len(log) \in Nat /\ \A n \in 1 .. Len(log) : log[n] \in Frames
  BY LogTyped
<1>2. \A n \in 1 .. Len(log) : log[n].kind = "reply" => Follows(n)
  BY DEF RepliesFollowPosts
<1>3. SUFFICES ASSUME NEW n \in 1 .. Len(log'), log'[n].kind = "reply" PROVE Follows(n)'
  BY DEF RepliesFollowPosts
<1>4. CASE Said
  <2>1. PICK f \in Frames :
            /\ log' = Append(log, f) /\ f.wakes = 0
            /\ f.kind = "reply" => f.item \in Items /\ f.to \in 1 .. posts[f.item]
    BY <1>4 DEF Said
  <2>2. posts' = posts /\ poll' = poll /\ entries' = entries
    BY <1>4 DEF Said, chat
  <2>3. \/ n \in 1 .. Len(log) /\ log'[n] = log[n]
        \/ log'[n] = f
    BY <1>1, <2>1, AppendProperties
  <2> HIDE <1>4
  <2>4. CASE n \in 1 .. Len(log) /\ log'[n] = log[n]
    BY <1>2, <1>3, <2>2, <2>4
  <2>5. CASE log'[n] = f
    BY <1>3, <2>1, <2>2, <2>5
  <2> QED
    BY <2>3, <2>4, <2>5
<1>5. CASE Begun
  <2>1. /\ Len(log') = Len(log) + 1 /\ log'[Len(log) + 1].kind = "other"
        /\ \A m \in 1 .. Len(log) : log'[m] = log[m]
    BY <1>5, SaidLog
  <2>2. n \in 1 .. Len(log) /\ log'[n] = log[n]
    <3>1. n # Len(log) + 1
      BY <1>3, <2>1
    <3> HIDE DEF IInv, TypeOK
    <3>2. n \in 1 .. Len(log)
      BY <1>1, <1>3, <2>1, <3>1
    <3> QED
      BY <2>1, <3>2
  <2>3. posts' = posts /\ poll' = poll /\ entries' = entries
    BY <1>5 DEF Begun, chat
  <2> QED
    BY <1>2, <1>3, <2>2, <2>3
<1>6. CASE Quiet \/ Enclosed \/ Unclosed
  BY <1>2, <1>3, <1>6 DEF Quiet, Enclosed, Unclosed, chat
<1>7. CASE Relinked
  <2>1. log' = log /\ posts' = posts /\ entries' = entries /\ poll' \in {poll, Idle}
    BY <1>7 DEF Relinked
  <2> QED
    BY <1>2, <1>3, <2>1 DEF Idle
<1>8. CASE Read(wire + 1)
  <2>1. posts' = posts /\ poll' = poll /\ entries' = entries
    BY <1>8 DEF Read
  <2>2. /\ n \in 1 .. Len(log) /\ log'[n].kind = log[n].kind /\ log'[n].item = log[n].item
        /\ log'[n].to = log[n].to
        /\ log'[n].wakes = log[n].wakes \/ poll.pc # "posted"
    <3>1. CASE log' = log
      BY <1>3, <3>1
    <3>2. CASE \E kept \in BOOLEAN, wakes \in {0, 1} :
                  /\ Changed(wire + 1, kept, wakes)
                  /\ log[wire + 1].kind = "reply" => ~Locked
      BY <1>1, <1>3, <1>8, <3>2 DEF Changed, Locked, Read
    <3> QED
      BY <1>8, <3>1, <3>2 DEF Read
  <2> QED
    BY <1>2, <1>3, <2>1, <2>2
<1>9. CASE Snapshot \/ Mark \/ Record
  <2>1. log' = log /\ posts' = posts
    BY <1>9, ForwarderSteps, MarkMarks, RecordRecords DEF Snapshot, Remarked, Rerecorded
  <2>2. poll'.pc # "posted"
    BY <1>9, MarkMarks, RecordRecords DEF Snapshot, Remarked, Rerecorded, Idle
  <2> QED
    BY <1>2, <1>3, <2>1, <2>2
<1>10. CASE Delivered
  <2>1. /\ log' = log /\ entries' = entries /\ \A i \in Items : posts'[i] >= posts[i]
        /\ posts' \in [Items -> Nat]
        /\ poll'.ok /\ entries[poll'.item].state = "new"
               => posts'[poll'.item] = posts[poll'.item] + 1
    BY <1>10, DeliverPosts DEF Delivered, Posted
  <2> DEFINE i == log[n].item
  <2>2. n \in 1 .. Len(log) /\ i \in Items /\ log[n].to \in 1 .. posts[i]
    BY <1>2, <1>3, <2>1
  <2>3. posts[i] \in Nat /\ posts'[i] \in Nat /\ posts'[i] >= posts[i]
    BY <2>1, <2>2
  <2>4. Told(n, i)' => posts'[i] = posts[i] + 1
    BY <2>1, <2>2
  <2>5. log[n].to \in 1 .. posts'[i]
    BY <2>2, <2>3
  <2>6. Told(n, i)' => log[n].to < posts'[i]
    BY <2>2, <2>3, <2>4
  <2> QED
    BY <2>1, <2>2, <2>5, <2>6
<1> QED
  BY <1>4, <1>5, <1>6, <1>7, <1>8, <1>9, <1>10, StepsAre DEF Delivered

\* What was taken for an instruction stays one: its post gets no record, and no claim.
LEMMA RepliesAreNotWakesKept == ASSUME IInv, [Next]_vars PROVE RepliesAreNotWakes'
<1> USE DEF IInv, TypeOK
<1>1. Len(log) \in Nat /\ \A n \in 1 .. Len(log) : log[n] \in Frames
  BY LogTyped
<1>2. ASSUME NEW n \in 1 .. Len(log), log[n].kind = "reply"
      PROVE  /\ log[n].item \in Items /\ log[n].to \in 1 .. posts[log[n].item]
             /\ log[n].wakes > 0 => n \notin claims /\ ~Refers(n)
  BY <1>2 DEF RepliesAreNotWakes, RepliesFollowPosts
<1>3. SUFFICES ASSUME NEW n \in 1 .. Len(log'), log'[n].kind = "reply", log'[n].wakes > 0
               PROVE  n \notin claims' /\ ~Refers(n)'
  BY DEF RepliesAreNotWakes
<1>4. ASSUME OldFrames PROVE n \in 1 .. Len(log) /\ log'[n] = log[n] /\ claims' = claims
  <2> HIDE DEF IInv, TypeOK
  <2>1. log'[n].wakes # 0
    BY <1>3
  <2> QED
    BY <1>3, <1>4, <2>1 DEF OldFrames
<1>5. ASSUME OldFrames, UNCHANGED entries PROVE n \notin claims' /\ ~Refers(n)'
  BY <1>2, <1>3, <1>4, <1>5 DEF Refers
<1>6. CASE Quiet \/ Said \/ Relinked \/ Begun \/ Enclosed \/ Unclosed \/ Snapshot \/ Delivered
  <2>1. UNCHANGED entries
    BY <1>6, DeliverPosts DEF Quiet, Said, Relinked, Begun, Enclosed, Unclosed, Snapshot,
                              Delivered, Posted, chat, fileVars
  <2> QED
    BY <1>5, <1>6, <2>1, FramesOfOld
<1>7. CASE Mark
  <2>1. /\ n \in 1 .. Len(log) /\ log'[n] = log[n] /\ claims' = claims
        /\ log[n].item \in Items /\ log[n].to \in Nat \ {0} /\ n \notin claims /\ ~Refers(n)
    BY <1>2, <1>3, <1>4, <1>7, FramesOfOld
  <2> DEFINE i == log[n].item
  <2>2. entries'[i] # None => /\ entries[i] = None => entries'[i].ref = 0
                              /\ entries[i] # None => entries'[i].ref = entries[i].ref
    BY <1>7, <2>1, MarkMarks DEF Remarked
  <2> QED
    BY <2>1, <2>2 DEF Refers
<1>8. CASE Record
  <2>1. /\ n \in 1 .. Len(log) /\ log'[n] = log[n] /\ claims' = claims
        /\ log[n].kind = "reply" /\ log[n].wakes > 0
        /\ log[n].item \in Items /\ n \notin claims /\ ~Refers(n)
    BY <1>2, <1>3, <1>4, <1>8, FramesOfOld
  <2> DEFINE i == log[n].item
  <2>2. CASE i # poll.item \/ entries'[i] = entries[i]
    BY <1>8, <2>1, <2>2, RecordRecords, SMTT(20) DEF Rerecorded, Refers
  <2>3. CASE i = poll.item /\ entries'[i] # entries[i]
    <3>1. /\ entries[i] # None /\ poll.pc = "posted"
          /\ entries'[i] # None => \/ entries'[i].ref = entries[i].ref
                                   \/ /\ entries'[i].ref = posts[i]
                                      /\ poll.ok /\ entries[i].state = "new"
      BY <1>8, <2>3, RecordRecords DEF Rerecorded, InHand
    <3>2. poll.ok /\ entries[i].state = "new" => log[n].to < posts[i]
      BY <2>1, <2>3, <3>1 DEF RepliesFollowPosts
    <3>3. posts[i] \in Nat /\ log[n].to \in Nat
      BY <1>1, <2>1 DEF Frames
    <3> QED
      BY <2>1, <3>1, <3>2, <3>3 DEF Refers
  <2> QED
    BY <2>2, <2>3
<1>9. CASE Read(wire + 1)
  <2>1. entries' = entries
    BY <1>9 DEF Read
  <2>2. CASE log' = log /\ claims' = claims
    BY <1>2, <1>3, <2>1, <2>2 DEF Refers
  <2>3. CASE \E kept \in BOOLEAN, wakes \in {0, 1} :
                /\ Changed(wire + 1, kept, wakes)
                /\ claims' \in {claims, claims \cup {wire + 1}}
                /\ wire + 1 \in claims' => wire + 1 \in claims \/ Refers(wire + 1)
                /\ wakes = 1 /\ log[wire + 1].kind = "reply"
                       => wire + 1 \notin claims' /\ ~Refers(wire + 1)
    <3>1. PICK kept \in BOOLEAN, wakes \in {0, 1} :
                /\ Changed(wire + 1, kept, wakes)
                /\ claims' \in {claims, claims \cup {wire + 1}}
                /\ wire + 1 \in claims' => wire + 1 \in claims \/ Refers(wire + 1)
                /\ wakes = 1 /\ log[wire + 1].kind = "reply"
                       => wire + 1 \notin claims' /\ ~Refers(wire + 1)
      BY <2>3
    <3>2. n \in 1 .. Len(log) /\ wire + 1 \in 1 .. Len(log)
      BY <1>3, <1>9, <3>1 DEF Changed, Read
    <3>3. CASE n # wire + 1
      <4>1. log'[n] = log[n] /\ (n \in claims' => n \in claims)
        BY <3>1, <3>2, <3>3 DEF Changed
      <4> QED
        BY <1>2, <1>3, <2>1, <3>2, <4>1 DEF Refers
    <3>4. CASE n = wire + 1
      <4>1. /\ log'[n].kind = log[n].kind /\ log'[n].item = log[n].item
            /\ log'[n].to = log[n].to /\ log'[n].wakes = log[n].wakes + wakes
        BY <3>1, <3>4 DEF Changed
      <4>2. log[n].kind = "reply" /\ Refers(n)' = Refers(n)
        BY <1>3, <2>1, <4>1 DEF Refers
      <4>3. CASE wakes = 1
        BY <3>1, <3>4, <4>2, <4>3
      <4>4. CASE wakes = 0
        <5>1. log[n].wakes \in Nat
          BY <1>1, <3>2 DEF Frames
        <5>2. log[n].wakes > 0
          BY <1>3, <4>1, <4>4, <5>1
        <5>3. n \notin claims /\ ~Refers(n)
          BY <1>2, <3>2, <4>2, <5>2
        <5> QED
          BY <3>1, <3>4, <4>2, <5>3
      <4> QED
        BY <4>3, <4>4
    <3> QED
      BY <3>3, <3>4
  <2> QED
    BY <1>9, <2>2, <2>3 DEF Read
<1> QED
  BY <1>6, <1>7, <1>8, <1>9, StepsAre DEF Delivered

\* An entry is told once: it is new until it is, and never again.
LEMMA NewIsUntoldKept == ASSUME IInv, [Next]_vars PROVE NewIsUntold'
<1> USE DEF IInv, TypeOK
<1> DEFINE New(i) == entries[i] # None /\ entries[i].state = "new"
           Untold(i) == told[i] <= lives[i] - IF New(i) THEN 1 ELSE 0
<1>1. \A i \in Items : Untold(i) /\ told[i] \in Nat /\ lives[i] \in Nat
  BY DEF NewIsUntold
<1>2. SUFFICES ASSUME NEW i \in Items PROVE Untold(i)'
  BY DEF NewIsUntold
<1>3. CASE Quiet \/ Said \/ Relinked \/ Begun \/ Read(wire + 1) \/ Enclosed \/ Unclosed
           \/ Snapshot \/ Delivered
  <2>1. UNCHANGED <<entries, lives, told>>
    BY <1>3, DeliverPosts DEF Quiet, Said, Relinked, Begun, Read, Enclosed, Unclosed, Snapshot,
                              Delivered, Posted, chat, fileVars
  <2> QED
    BY <1>1, <2>1
<1>4. CASE Mark
  <2>1. /\ told'[i] = told[i] /\ lives'[i] \in Nat /\ lives'[i] >= lives[i]
        /\ New(i)' => lives'[i] = lives[i] + 1 \/ New(i)
    BY <1>2, <1>4, MarkMarks DEF Remarked
  <2>2. told[i] \in Nat /\ lives[i] \in Nat /\ Untold(i)
    BY <1>1
  <2> HIDE DEF New
  <2> QED
    BY <2>1, <2>2
<1>5. CASE Record
  <2>1. lives' = lives /\ poll.item \in Items
    BY <1>5, RecordRecords DEF Rerecorded
  <2>2. CASE i # poll.item
    BY <1>1, <1>2, <1>5, <2>1, <2>2, RecordRecords DEF Rerecorded
  <2>3. CASE i = poll.item
    <3> DEFINE news == poll.ok /\ entries[i].state = "new"
    <3>1. entries[i] # None
      BY <1>5, <2>3, RecordRecords DEF Rerecorded, InHand
    <3>2. \/ entries'[i] = entries[i] /\ told'[i] = told[i]
          \/ /\ told'[i] = told[i] + IF news THEN 1 ELSE 0
             /\ New(i)' => ~poll.ok /\ New(i)
      BY <1>5, <2>3, <3>1, RecordRecords DEF Rerecorded
    <3>3. news => New(i) /\ ~(~poll.ok)
      BY <3>1
    <3>4. told[i] \in Nat /\ lives[i] \in Nat /\ Untold(i)
      BY <1>1
    <3>5. CASE entries'[i] = entries[i] /\ told'[i] = told[i]
      BY <2>1, <3>4, <3>5
    <3>6. CASE news /\ told'[i] = told[i] + 1 /\ ~New(i)'
      <4>1. New(i)
        BY <3>3, <3>6
      <4> HIDE DEF New
      <4> QED
        BY <2>1, <3>4, <3>6, <4>1
    <3>7. CASE ~news /\ told'[i] = told[i] /\ (New(i)' => New(i))
      <4> HIDE DEF New, news
      <4> QED
        BY <2>1, <3>4, <3>7
    <3> QED
      BY <3>2, <3>3, <3>4, <3>5, <3>6, <3>7
  <2> QED
    BY <2>2, <2>3
<1> QED
  BY <1>3, <1>4, <1>5, StepsAre DEF Delivered

-----------------------------------------------------------------------------
(* The theorems.                                                           *)

LEMMA InvariantHolds == Init => IInv
<1> SUFFICES ASSUME Init PROVE IInv
  OBVIOUS
<1> USE DEF Init
<1>1. Idle \in Polls
  BY DEF Idle, Polls
<1>2. log = <<>> /\ Len(log) = 0 /\ envelopes = <<>> /\ Len(envelopes) = 0
  BY EmptySeq
<1>3. TypeOK
  BY <1>1, <1>2 DEF TypeOK, NoSession, Connections
<1>4. WithinLog /\ HandedOn /\ UnkeptAhead
  BY <1>2 DEF WithinLog, HandedOn, Serving, UnkeptAhead, NoSession, CanResume
<1>5. NothingSkipped
  <2>1. DOMAIN envelopes = {}
    BY <1>2
  <2> QED
    BY <1>2, <2>1 DEF NothingSkipped
<1>6. WakesPaidFor /\ RepliesFollowPosts /\ RepliesAreNotWakes
  BY <1>2 DEF WakesPaidFor, RepliesFollowPosts, RepliesAreNotWakes
<1>7. PollsKnow /\ NewIsUntold
  BY DEF PollsKnow, Locked, Idle, NewIsUntold
<1> QED
  BY <1>3, <1>4, <1>5, <1>6, <1>7 DEF IInv

LEMMA InvariantKept == IInv /\ [Next]_vars => IInv'
<1> SUFFICES ASSUME IInv, [Next]_vars PROVE IInv'
  OBVIOUS
<1> QED
  BY TypesKept, GatewayKept, NothingSkippedKept, WakesPaidForKept, PollsKnowKept,
     RepliesFollowPostsKept, RepliesAreNotWakesKept, NewIsUntoldKept DEF IInv, GatewayInv

LEMMA InvariantAlways == Spec => []IInv
  BY InvariantHolds, InvariantKept, PTL DEF Spec

\* GatewayListener.handle, SocketModeListener._serve and the _store of both bridges: within
\* a session no message is passed over, a message wakes once and once more only for a
\* handling that raised or an acknowledgement that was lost, and a reply that was taken
\* for an instruction answers nothing Drove asked.
THEOREM MessagesWakeOnce == Spec => []MessagesOnce
<1>1. IInv => MessagesOnce
  <2> SUFFICES ASSUME IInv PROVE MessagesOnce
    OBVIOUS
  <2> USE DEF IInv
  <2>1. ASSUME NEW n \in 1 .. Len(log) PROVE log[n].wakes <= 1 + log[n].fails
    <3>1. log[n].wakes \in Nat /\ log[n].fails \in Nat
      BY LogTyped DEF Frames
    <3>2. log[n].wakes <= log[n].fails + IF log[n].kept THEN 1 ELSE 0
      BY DEF WakesPaidFor
    <3> QED
      BY <3>1, <3>2
  <2>2. ASSUME NEW e \in DOMAIN envelopes
        PROVE  envelopes[e].wakes <= 1 + envelopes[e].fails + envelopes[e].unheard
    <3>1. e \in 1 .. Len(envelopes)
      BY LogTyped
    <3>2. /\ envelopes[e].wakes \in Nat /\ envelopes[e].fails \in Nat
          /\ envelopes[e].unheard \in Nat
      BY <3>1, LogTyped DEF Envelopes
    <3>3. envelopes[e].wakes <= envelopes[e].fails + envelopes[e].unheard
                                    + IF envelopes[e].acked THEN 1 ELSE 0
      BY <3>1 DEF WakesPaidFor
    <3> HIDE DEF IInv
    <3> QED
      BY <3>2, <3>3
  <2> QED
    BY <2>1, <2>2 DEF MessagesOnce, OneWakePerMessage
<1> QED
  BY <1>1, InvariantAlways, PTL

\* AttentionForwarder.poll: whatever crashes, raises or comes back, an entry is recorded as
\* told at most once while it lasts.
THEOREM ItemsToldOnce == Spec => []ToldOnce
<1>1. IInv => ToldOnce
  <2> SUFFICES ASSUME IInv, NEW i \in Items PROVE told[i] <= lives[i]
    BY DEF ToldOnce
  <2>1. told[i] \in Nat /\ lives[i] \in Nat
    BY DEF IInv, TypeOK
  <2>2. told[i] <= lives[i] - IF entries[i] # None /\ entries[i].state = "new" THEN 1 ELSE 0
    BY DEF IInv, NewIsUntold
  <2> QED
    BY <2>1, <2>2
<1> QED
  BY <1>1, InvariantAlways, PTL
===============================================================================
