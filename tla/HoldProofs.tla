----------------------------- MODULE HoldProofs -----------------------------
(***************************************************************************)
(* Theorems about Hold, for every set of requests, of replies in chat and  *)
(* of invocations of `bothy answer', and whatever each of them is about:   *)
(* one answer reaches the worker and nothing outlives its question.        *)
(***************************************************************************)
EXTENDS Hold, FiniteSetTheorems, TLAPS

-----------------------------------------------------------------------------
(* The inductive invariant.                                                *)

\* A request that is not held yet has no announcer and no answer.
Pristine ==
    \A q \in Asks : stage[q] \in {"unasked", "checked"} =>
        first[q] = Nothing /\ post[q] = "none"

\* The supervisor looks at requests that were held, replies to those it has
\* resolved, and has a text in hand when it gives one.
SupervisorKnows ==
    /\ \A q \in snapshot : stage[q] \in {"held", "closed"}
    /\ \A q \in out : stage[q] = "closed"
    /\ pc # "send" => out = {}
    /\ pc = "give" => hand \in [ask : Asks, text : Texts]

\* Until its reply goes out a request has had none, and what it would be told is
\* what was taken first.
ReplyIsAhead ==
    \A q \in Asks : stage[q] # "closed" \/ q \in out =>
        sent[q] = 0 /\ reply[q] = Nothing /\ text[q] = first[q]

\* A tick that stops is on its way out of the loop.
StopsLeaveTheLoop ==
    /\ pc = "loop" => after = "loop"
    /\ pc \in {"files", "give", "send"} /\ stopping => after # "loop"

\* What people find of a request is what its announcer put there.
AnnouncedFirst ==
    \A q \in Asks :
        /\ q \in marker \/ file[q] # Nothing => post[q] \in {"marked", "announced", "clearing"}
        /\ q \in board => post[q] # "none"

\* After the reply only an announcer that is about to clear up has left anything.
OnlyTheLateRemain ==
    \A q \in Asks : reply[q] # Nothing =>
        /\ q \notin board
        /\ q \in marker \/ file[q] # Nothing => post[q] \in {"marked", "clearing"}

IInv ==
    /\ TypeOK
    /\ Pristine
    /\ SupervisorKnows
    /\ ReplyIsAhead
    /\ StopsLeaveTheLoop
    /\ AnnouncedFirst
    /\ OnlyTheLateRemain
    /\ RepliedOnce
    /\ FirstAnswerWins
    /\ DroppedOnlyByStop

LEMMA InvariantHolds == Init => IInv
<1> SUFFICES ASSUME Init PROVE IInv
  OBVIOUS
<1> USE DEF Init
<1>1. Posting = {}
  BY DEF Posting
<1>2. Cardinality(Posting) <= MaxPosts
  BY <1>1, FS_EmptySet, HoldAssumption
<1>3. past \in [Asks -> BOOLEAN]
  OBVIOUS
<1>4. TypeOK
  BY <1>2, <1>3 DEF TypeOK, Stages, Posts
<1>5. Pristine /\ SupervisorKnows /\ ReplyIsAhead /\ StopsLeaveTheLoop
  BY DEF Pristine, SupervisorKnows, ReplyIsAhead, StopsLeaveTheLoop
<1>6. AnnouncedFirst /\ OnlyTheLateRemain
  BY DEF AnnouncedFirst, OnlyTheLateRemain
<1>7. RepliedOnce /\ FirstAnswerWins /\ DroppedOnlyByStop
  BY HoldAssumption DEF RepliedOnce, FirstAnswerWins, DroppedOnlyByStop, Texts
<1> QED
  BY <1>4, <1>5, <1>6, <1>7 DEF IInv

-----------------------------------------------------------------------------
(* It is kept.  The steps fall into these groups.                          *)

ReaderStep == \E q \in Asks : Decline(q) \/ MayHold(q) \/ Enter(q)
AnswerStep == GiveFile \/ \E c \in Chats : AnswerChat(c)
PeopleStep ==
    \/ \E q \in Asks, c \in Chats : MatchChat(c, q)
    \/ \E q \in Asks, s \in Shells : ReadMarker(s, q)
PosterStep ==
    \E q \in Asks : Announce(q) \/ Posted(q) \/ WriteMarker(q) \/ Activate(q) \/ ClearMarker(q)
TickStep == Look \/ Interrupt \/ TurnEnds \/ Close
QuietStep == TokenCap \/ WorkerDies \/ Return \/ \E q \in Asks : Passes(q)

LEMMA Steps ==
    ASSUME [Next]_vars
    PROVE  \/ ReaderStep \/ AnswerStep \/ PeopleStep \/ PosterStep \/ TickStep \/ QuietStep
           \/ \E s \in Shells : WriteAnswer(s)
           \/ \E q \in Asks : StartAnnouncer(q)
           \/ \E q \in Asks : TakeFile(q)
           \/ \E q \in Asks : Send(q)
           \/ Resolve \/ Kill
           \/ UNCHANGED vars
BY DEF Next, Supervise, ReaderStep, AnswerStep, PeopleStep, PosterStep, TickStep, QuietStep

LEMMA SlotsKept ==
    ASSUME IInv, [Next]_vars
    PROVE  Cardinality(Posting') <= MaxPosts
<1>1. IsFiniteSet(Posting) /\ Cardinality(Posting) \in Nat /\ Cardinality(Posting) <= MaxPosts
  BY FS_Subset, FS_CardinalityType, HoldAssumption DEF IInv, TypeOK, Posting
<1>2. CASE \E q \in Asks : StartAnnouncer(q)
  <2> PICK q \in Asks : StartAnnouncer(q)
    BY <1>2
  <2>1. Posting' \subseteq Posting \cup {q}
    BY DEF StartAnnouncer, IInv, TypeOK, Posting
  <2>2. Cardinality(Posting \cup {q}) <= Cardinality(Posting) + 1 /\ IsFiniteSet(Posting \cup {q})
    BY <1>1, FS_AddElement
  <2>3. Cardinality(Posting) < MaxPosts
    BY DEF StartAnnouncer
  <2>4. /\ Cardinality(Posting') <= Cardinality(Posting \cup {q})
        /\ Cardinality(Posting') \in Nat /\ Cardinality(Posting \cup {q}) \in Nat
    BY <2>1, <2>2, FS_Subset, FS_CardinalityType
  <2> QED
    BY <1>1, <2>2, <2>3, <2>4, HoldAssumption
<1>3. CASE PosterStep
  <2>1. Posting' \subseteq Posting
    BY <1>3 DEF PosterStep, Announce, Posted, WriteMarker, Activate, ClearMarker,
                IInv, TypeOK, Posting
  <2>2. Cardinality(Posting') <= Cardinality(Posting) /\ Cardinality(Posting') \in Nat
    BY <1>1, <2>1, FS_Subset, FS_CardinalityType
  <2> QED
    BY <1>1, <2>2, HoldAssumption
<1>4. CASE UNCHANGED post
  BY <1>1, <1>4 DEF Posting
<1> QED
  BY <1>2, <1>3, <1>4, Steps DEF ReaderStep, AnswerStep, PeopleStep, TickStep, QuietStep,
     Decline, MayHold, Enter, GiveFile, AnswerChat, MatchChat, ReadMarker, Look, Interrupt,
     TurnEnds, Close, TokenCap, WorkerDies, Return, Passes, WriteAnswer, TakeFile, Send,
     Resolve, Kill, askVars, vars

LEMMA TypeKept ==
    ASSUME IInv, [Next]_vars
    PROVE  TypeOK'
<1>1. Cardinality(Posting') <= MaxPosts
  BY SlotsKept
<1> USE DEF IInv, TypeOK, Stages, Posts, Texts
<1>2. CASE ReaderStep
  BY <1>1, <1>2 DEF ReaderStep, Decline, MayHold, Enter, fileVars, tickVars, clientVars,
              peopleVars, history
<1>3. CASE AnswerStep
  <2>1. ASSUME NEW c \in Chats, AnswerChat(c) PROVE TypeOK'
    BY <1>1, <2>1 DEF AnswerChat, Answer, Takes, fileVars, tickVars, clientVars
  <2>2. ASSUME GiveFile PROVE TypeOK'
    BY <1>1, <2>2 DEF SupervisorKnows, GiveFile, Answer, Takes, fileVars, clientVars, peopleVars
  <2> QED
    BY <1>3, <2>1, <2>2 DEF AnswerStep
<1>4. CASE PeopleStep
  BY <1>1, <1>4 DEF PeopleStep, MatchChat, ReadMarker, askVars, fileVars, tickVars,
              clientVars, history
<1>5. CASE PosterStep
  BY <1>1, <1>5 DEF PosterStep, Announce, Posted, WriteMarker, Activate, ClearMarker, fileVars,
              tickVars, clientVars, peopleVars, history
<1>6. CASE TickStep
  BY <1>1, <1>6 DEF TickStep, Look, Interrupt, TurnEnds, Close, Tick, Held, askVars, fileVars,
              clientVars, peopleVars, history
<1>7. CASE QuietStep
  <2>1. past' \in [Asks -> BOOLEAN]
    BY <1>7 DEF QuietStep, TokenCap, WorkerDies, Return, Passes, askVars
  <2> QED
    BY <1>1, <1>7, <2>1, ZenonT(30)
    DEF QuietStep, TokenCap, WorkerDies, Return, Passes, askVars, fileVars,
                tickVars, clientVars, peopleVars, history
<1>8. CASE \E s \in Shells : WriteAnswer(s)
  BY <1>1, <1>8 DEF WriteAnswer, askVars, tickVars, clientVars, history
<1>9. CASE \E q \in Asks : StartAnnouncer(q)
  BY <1>1, <1>9 DEF StartAnnouncer, fileVars, tickVars, clientVars, peopleVars, history
<1>10. CASE \E q \in Asks : TakeFile(q)
  BY <1>1, <1>10 DEF TakeFile, askVars, clientVars, peopleVars, history
<1>11. CASE \E q \in Asks : Send(q)
  BY <1>1, <1>11 DEF Send, Verdict, clientVars, peopleVars
<1>12. CASE Resolve
  BY <1>1, <1>12 DEF Resolve, Held, fileVars, clientVars, peopleVars, history
<1>13. CASE Kill
  BY <1>1, <1>13 DEF Kill, askVars, peopleVars, history
<1>14. CASE UNCHANGED vars
  BY <1>1, <1>14 DEF vars
<1> QED
  BY <1>2, <1>3, <1>4, <1>5, <1>6, <1>7, <1>8, <1>9, <1>10, <1>11, <1>12, <1>13, <1>14, Steps

LEMMA SupervisorKept ==
    ASSUME IInv, [Next]_vars
    PROVE  SupervisorKnows' /\ StopsLeaveTheLoop'
<1> USE DEF IInv, TypeOK, SupervisorKnows, StopsLeaveTheLoop, Stages
<1>1. CASE ReaderStep
  BY <1>1 DEF ReaderStep, Decline, MayHold, Enter, tickVars
<1>2. CASE AnswerStep \/ PeopleStep \/ PosterStep \/ \E s \in Shells : WriteAnswer(s)
  BY <1>2 DEF AnswerStep, GiveFile, AnswerChat, PeopleStep, MatchChat, ReadMarker, PosterStep,
              Announce, Posted, WriteMarker, Activate, ClearMarker, WriteAnswer,
              askVars, tickVars
<1>3. CASE TickStep
  BY <1>3 DEF TickStep, Look, Interrupt, TurnEnds, Close, Tick, Held, askVars
<1>4. CASE QuietStep
  <2>1. CASE Return
    BY <2>1 DEF Return, askVars
  <2>2. CASE TokenCap \/ WorkerDies
    <3>1. UNCHANGED <<stage, pc, after, stopping, snapshot, hand, out>>
      BY <2>2 DEF TokenCap, WorkerDies, askVars, tickVars
    <3> QED
      BY <3>1
  <2>3. CASE \E q \in Asks : Passes(q)
    BY <2>3 DEF Passes, tickVars
  <2> QED
    BY <1>4, <2>1, <2>2, <2>3 DEF QuietStep
<1>8. CASE Kill \/ UNCHANGED vars \/ \E q \in Asks : StartAnnouncer(q)
  BY <1>8 DEF Kill, StartAnnouncer, askVars, tickVars, vars
<1>5. CASE \E q \in Asks : TakeFile(q)
  BY <1>5, HoldAssumption DEF TakeFile, askVars
<1>6. CASE \E q \in Asks : Send(q)
  BY <1>6 DEF Send
<1>7. CASE Resolve
  BY <1>7 DEF Resolve, Held
<1> QED
  BY <1>1, <1>2, <1>3, <1>4, <1>5, <1>6, <1>7, <1>8, Steps

\* What an answer can change: the text and the first answer of one held request
\* that had none, to the same text.
LEMMA AnswerEffect ==
    ASSUME IInv, NEW q \in Asks, NEW t \in Texts, Answer(q, t)
    PROVE  \/ UNCHANGED <<text, first>>
           \/ /\ stage[q] = "held" /\ text[q] = Nothing /\ first[q] = Nothing
              /\ text' = [text EXCEPT ![q] = t] /\ first' = [first EXCEPT ![q] = t]
BY DEF Answer, Takes, IInv, ReplyIsAhead

LEMMA AnswerStepEffect ==
    ASSUME IInv, AnswerStep
    PROVE  /\ UNCHANGED <<stage, post, reply, sent, out, after, stop>> /\ UNCHANGED fileVars
           /\ \/ UNCHANGED <<text, first>>
              \/ \E q \in Asks, t \in Texts :
                    /\ stage[q] = "held" /\ text[q] = Nothing /\ first[q] = Nothing
                    /\ text' = [text EXCEPT ![q] = t] /\ first' = [first EXCEPT ![q] = t]
<1>1. ASSUME NEW c \in Chats, AnswerChat(c)
      PROVE  /\ UNCHANGED <<stage, post, reply, sent, out, after, stop>> /\ UNCHANGED fileVars
             /\ \E q \in Asks, t \in Texts : Answer(q, t)
  BY <1>1 DEF AnswerChat, tickVars, clientVars, IInv, TypeOK, Texts
<1>2. ASSUME GiveFile
      PROVE  /\ UNCHANGED <<stage, post, reply, sent, out, after, stop>> /\ UNCHANGED fileVars
             /\ \E q \in Asks, t \in Texts : Answer(q, t)
  BY <1>2 DEF GiveFile, clientVars, IInv, TypeOK, SupervisorKnows
<1> QED
  BY <1>1, <1>2, AnswerEffect DEF AnswerStep

LEMMA RequestsKept ==
    ASSUME IInv, [Next]_vars
    PROVE  Pristine' /\ ReplyIsAhead' /\ RepliedOnce'
<1> USE DEF IInv, TypeOK, Pristine, ReplyIsAhead, RepliedOnce
<1>1. CASE ReaderStep
  BY <1>1 DEF ReaderStep, Decline, MayHold, Enter, SupervisorKnows, tickVars, history
<1>2. CASE AnswerStep
  BY <1>2, AnswerStepEffect DEF SupervisorKnows
<1>3. CASE PeopleStep \/ UNCHANGED vars \/ Kill \/ QuietStep \/ \E s \in Shells : WriteAnswer(s)
  BY <1>3 DEF PeopleStep, MatchChat, ReadMarker, WriteAnswer, Kill, QuietStep, TokenCap,
              WorkerDies, Return, Passes, askVars, tickVars, history, vars
<1>4. CASE PosterStep
  BY <1>4 DEF PosterStep, Announce, Posted, WriteMarker, Activate, ClearMarker, tickVars, history
<1>5. CASE TickStep \/ \E q \in Asks : TakeFile(q)
  BY <1>5 DEF TickStep, Look, Interrupt, TurnEnds, Close, Tick, TakeFile, askVars, history
<1>6. CASE \E q \in Asks : StartAnnouncer(q)
  BY <1>6 DEF StartAnnouncer, SupervisorKnows, tickVars, history
<1>7. CASE \E q \in Asks : Send(q)
  BY <1>7 DEF Send, SupervisorKnows
<1>8. CASE Resolve
  BY <1>8 DEF Resolve, SupervisorKnows, Held, history
<1> QED
  BY <1>1, <1>2, <1>3, <1>4, <1>5, <1>6, <1>7, <1>8, Steps

LEMMA AnnouncedKept ==
    ASSUME IInv, [Next]_vars
    PROVE  AnnouncedFirst' /\ OnlyTheLateRemain'
<1> USE DEF IInv, TypeOK, AnnouncedFirst, OnlyTheLateRemain, Posts
<1>1. CASE ReaderStep
  BY <1>1 DEF ReaderStep, Decline, MayHold, Enter, Pristine, fileVars
<1>2. CASE AnswerStep
  BY <1>2, AnswerStepEffect DEF fileVars
<1>3. CASE PeopleStep \/ UNCHANGED vars \/ QuietStep \/ TickStep
  BY <1>3 DEF PeopleStep, MatchChat, ReadMarker, QuietStep, TokenCap, WorkerDies, Return, Passes,
              TickStep, Look, Interrupt, TurnEnds, Close, askVars, fileVars, vars
<1>4. CASE \E s \in Shells : WriteAnswer(s)
  BY <1>4 DEF WriteAnswer, MarkerStands, askVars
<1>5. CASE PosterStep
  <2> PICK q \in Asks :
        Announce(q) \/ Posted(q) \/ WriteMarker(q) \/ Activate(q) \/ ClearMarker(q)
    BY <1>5 DEF PosterStep
  <2>1. reply[q] = Nothing \/ stage[q] = "closed"
    BY DEF ReplyIsAhead
  <2>2. CASE Announce(q)
    BY <2>1, <2>2 DEF Announce
  <2>3. CASE Posted(q) \/ WriteMarker(q)
    BY <2>3 DEF Posted, WriteMarker, fileVars
  <2>4. CASE Activate(q)
    BY <2>1, <2>4 DEF Activate
  <2>5. CASE ClearMarker(q)
    BY <2>5 DEF ClearMarker
  <2> QED
    BY <2>2, <2>3, <2>4, <2>5
<1>6. CASE \E q \in Asks : StartAnnouncer(q)
  BY <1>6 DEF StartAnnouncer, fileVars
<1>7. CASE \E q \in Asks : TakeFile(q)
  BY <1>7 DEF TakeFile, askVars
<1>8. CASE \E q \in Asks : Send(q)
  BY <1>8 DEF Send
<1>9. CASE Resolve
  BY <1>9 DEF Resolve, fileVars
<1>10. CASE Kill
  BY <1>10 DEF Kill, askVars
<1> QED
  BY <1>1, <1>2, <1>3, <1>4, <1>5, <1>6, <1>7, <1>8, <1>9, <1>10, Steps

LEMMA AnswersKept ==
    ASSUME IInv, [Next]_vars
    PROVE  FirstAnswerWins' /\ DroppedOnlyByStop'
<1> USE DEF IInv, TypeOK, FirstAnswerWins, DroppedOnlyByStop
<1>1. CASE ReaderStep
  BY <1>1, HoldAssumption DEF ReaderStep, Decline, MayHold, Enter, Pristine, tickVars, clientVars,
              history, Texts
<1>2. CASE AnswerStep
  <2>1. \A q \in Asks : stage[q] = "held" => reply[q] = Nothing
    BY DEF ReplyIsAhead
  <2> QED
    BY <1>2, <2>1, AnswerStepEffect, HoldAssumption
<1>3. CASE PeopleStep \/ UNCHANGED vars \/ Kill
  BY <1>3 DEF PeopleStep, MatchChat, ReadMarker, Kill, askVars, tickVars, clientVars, history, vars
<1>7. CASE QuietStep
  <2>1. UNCHANGED <<reply, first, after>>
    BY <1>7 DEF QuietStep, TokenCap, WorkerDies, Return, Passes, askVars, tickVars, history
  <2>2. stop' = stop \/ stop' = TRUE
    BY <1>7, Zenon DEF QuietStep, TokenCap, WorkerDies, Return, Passes, clientVars
  <2> QED
    BY <2>1, <2>2
<1>8. CASE PosterStep
  BY <1>8 DEF PosterStep, Announce, Posted, WriteMarker, Activate, ClearMarker,
              tickVars, clientVars, history
<1>4. CASE TickStep
  BY <1>4 DEF TickStep, Look, Interrupt, TurnEnds, Close, Tick, StopsLeaveTheLoop,
              askVars, clientVars, history
<1>5. CASE \/ \E s \in Shells : WriteAnswer(s)
           \/ \E q \in Asks : StartAnnouncer(q) \/ TakeFile(q)
           \/ Resolve
  BY <1>5 DEF WriteAnswer, StartAnnouncer, TakeFile, Resolve, askVars, tickVars, clientVars, history
<1>6. CASE \E q \in Asks : Send(q)
  <2> PICK q \in Asks : Send(q)
    BY <1>6
  <2>1. UNCHANGED <<first, after, stop>> /\ pc = "send" /\ text[q] = first[q]
    BY DEF Send, ReplyIsAhead, clientVars
  <2>2. CASE UNCHANGED reply
    BY <2>1, <2>2
  <2>3. CASE reply' = [reply EXCEPT ![q] = Verdict(q)]
    <3>1. Verdict(q) \in Texts => Verdict(q) = first[q]
      BY <2>1, HoldAssumption DEF Verdict
    <3>2. Verdict(q) = "declined" /\ first[q] # Nothing => stop \/ after # "loop"
      BY <2>1, HoldAssumption DEF Verdict, StopsLeaveTheLoop
    <3> QED
      BY <2>1, <2>3, <3>1, <3>2
  <2> QED
    BY <2>2, <2>3 DEF Send
<1> QED
  BY <1>1, <1>2, <1>3, <1>4, <1>5, <1>6, <1>7, <1>8, Steps

LEMMA InvariantAlways == Spec => []IInv
<1>1. IInv /\ [Next]_vars => IInv'
  BY TypeKept, SupervisorKept, RequestsKept, AnnouncedKept, AnswersKept DEF IInv
<1> QED
  BY <1>1, InvariantHolds, PTL DEF Spec

-----------------------------------------------------------------------------
(* The theorems.                                                           *)

\* However replies in chat, `bothy answer', the deadline, a failed post, a stop
\* and the close of the client interleave, the worker gets one reply to a
\* request, it is the answer taken first, and only a stop overrides one that was
\* taken (codex.py, answer and _tick_interrupts).
THEOREM OneAnswerReachesTheWorker == Spec => []AnsweredOnce
<1>1. IInv => AnsweredOnce
  BY DEF IInv, AnsweredOnce
<1> QED
  BY <1>1, InvariantAlways, PTL

\* A request that has had its reply is out of reach once its announcer is
\* through, however late the post returns (interrupts.py and the runner's
\* callbacks).
THEOREM RepliedIsUnreachable == Spec => []NothingOutlivesItsQuestion
<1>1. IInv => NothingOutlivesItsQuestion
  BY DEF IInv, OnlyTheLateRemain, NothingOutlivesItsQuestion, Posting
<1> QED
  BY <1>1, InvariantAlways, PTL
=============================================================================
