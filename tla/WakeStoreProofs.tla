--------------------------- MODULE WakeStoreProofs ---------------------------
(***************************************************************************)
(* Theorems about WakeStore, for any requests, delivery keys, marking      *)
(* threads and limit of a sweep.                                           *)
(***************************************************************************)
EXTENDS WakeStore, SequenceTheorems, FiniteSetTheorems, TLAPS

-----------------------------------------------------------------------------
(* The invariant.                                                          *)

Unique(s) == \A i, j \in DOMAIN s : s[i].id = s[j].id => i = j
Done(s) == {s[i].id : i \in {j \in DOMAIN s : s[j].processed}}

\* The readings of the queue that somebody may yet write back, and the queue.
Reads == {marking[m].read : m \in {n \in Markers : marking[n] # Nobody}}
Sweeps == IF sweeping = Nobody THEN {} ELSE {sweeping}
Copies == {queue} \cup Reads \cup Sweeps

\* Requests whose line may be in a file, and those that got past the delivery keys.
Landed == {q \in Requests : req[q] \in {"stored", "accepted", "failed", "cut"}}
Serving == {"new", "open", "stale", "stored", "accepted"}
Passed == {q \in Requests : req[q] \notin {"unsent", "refused", "duplicate"}}

\* One thread is inside mark() at a time.
LockHeld ==
    \A m, n \in Markers : marking[m] # Nobody /\ marking[n] # Nobody => m = n

\* No copy has two lines of a wake, or a line nobody has written yet.
CopiesUnique == \A s \in Copies : Unique(s) /\ Ids(s) \subseteq Landed

\* Settling runs ahead of the copies in one order only: a wake settled in what
\* the sweep read is settled in what a mark read, and there, in the queue.
CopiesInOrder ==
    /\ \A s \in Reads : Done(queue) \cap Pending(s) = {}
    /\ \A t \in Sweeps : Done(t) \cap Pending(queue) = {}
    /\ \A t \in Sweeps, s \in Reads : Done(t) \cap Pending(s) = {}

\* A wake that met no overlap is pending in every copy until it is settled.
SafeInCopies ==
    \A q \in Requests \ (settled \cup exposed) :
        req[q] \in {"stored", "accepted"} => \A s \in Copies : q \in Pending(s)

\* A remembered key has a request that passed; what is being served left its key.
KeysHaveOwners ==
    /\ \A k \in seen : \E p \in Passed : Key[p] = k
    /\ \A p \in Passed : Key[p] \in Keys \ lapsed => Key[p] \in seen

IInv ==
    /\ TypeOK /\ LockHeld /\ CopiesUnique /\ CopiesInOrder /\ SafeInCopies
    /\ KeysHaveOwners /\ OneWakePerDelivery /\ DuplicatesHaveOriginals

-----------------------------------------------------------------------------
(* Queues.                                                                 *)

\* What is settled and what is pending are told apart when no wake has two lines.
LEMMA DoneOrPending ==
    ASSUME NEW s, Unique(s)
    PROVE  Done(s) \cap Pending(s) = {} /\ Ids(s) = Done(s) \cup Pending(s)
  BY DEF Unique, Done, Pending, Ids

\* The lines of a queue are wakes that requests made.
LEMMA LinesAreRequests ==
    ASSUME NEW s \in Seq(Entries)
    PROVE  Ids(s) \subseteq Requests /\ Pending(s) \subseteq Requests
<1>1. s \in [1 .. Len(s) -> Entries] /\ DOMAIN s = 1 .. Len(s)
  BY LenProperties
<1>2. \A i \in DOMAIN s : s[i].id \in Requests
  BY <1>1 DEF Entries
<1> QED
  BY <1>2 DEF Ids, Pending

\* A new line at the end of a queue.
LEMMA AppendedLine ==
    ASSUME NEW s \in Seq(Entries), Unique(s), NEW q \in Requests, q \notin Ids(s),
           NEW t, t = Append(s, [id |-> q, processed |-> FALSE])
    PROVE  /\ t \in Seq(Entries) /\ Unique(t) /\ Ids(t) = Ids(s) \cup {q}
           /\ Pending(t) = Pending(s) \cup {q} /\ Done(t) = Done(s)
<1> DEFINE e == [id |-> q, processed |-> FALSE]
<1>1. e \in Entries /\ e.id = q /\ e.processed = FALSE
  BY DEF Entries
<1>2. /\ t \in Seq(Entries) /\ Len(t) = Len(s) + 1
      /\ \A i \in 1 .. Len(s) : t[i] = s[i]
      /\ t[Len(s) + 1] = e
  BY <1>1, AppendProperties
<1>3. /\ Len(s) \in Nat /\ DOMAIN s = 1 .. Len(s)
      /\ DOMAIN t = 1 .. Len(t)
  BY <1>2, LenProperties
<1> HIDE DEF e
<1>4. DOMAIN t = DOMAIN s \cup {Len(s) + 1} /\ Len(s) + 1 \notin DOMAIN s
  BY <1>2, <1>3
<1>5. Unique(t)
  BY <1>1, <1>2, <1>3, <1>4 DEF Unique, Ids
<1>6. Ids(t) = Ids(s) \cup {q}
  BY <1>1, <1>2, <1>3, <1>4 DEF Ids
<1>7. Pending(t) = Pending(s) \cup {q}
  BY <1>1, <1>2, <1>3, <1>4 DEF Pending
<1>8. Done(t) = Done(s)
  BY <1>1, <1>2, <1>3, <1>4 DEF Done
<1> QED
  BY <1>2, <1>5, <1>6, <1>7, <1>8

\* A queue with the fields of one wake changed.
LEMMA MarkedLines ==
    ASSUME NEW k, k.read \in Seq(Entries), Unique(k.read), k.settles \in BOOLEAN
    PROVE  /\ Marked(k) \in Seq(Entries) /\ Unique(Marked(k)) /\ Ids(Marked(k)) = Ids(k.read)
           /\ Pending(Marked(k)) =
                  IF k.settles THEN Pending(k.read) \ {k.wake} ELSE Pending(k.read)
<1> DEFINE s == k.read
           t == Marked(k)
<1>1. Len(s) \in Nat /\ s \in [1 .. Len(s) -> Entries] /\ DOMAIN s = 1 .. Len(s)
  BY LenProperties
<1>2. /\ DOMAIN t = 1 .. Len(s)
      /\ \A i \in 1 .. Len(s) :
            t[i] = IF s[i].id = k.wake /\ k.settles THEN [s[i] EXCEPT !.processed = TRUE]
                   ELSE s[i]
  BY <1>1 DEF Marked
<1>3. ASSUME NEW i \in 1 .. Len(s)
      PROVE  /\ t[i] \in Entries /\ t[i].id = s[i].id
             /\ s[i].id = k.wake /\ k.settles => t[i].processed
             /\ ~(s[i].id = k.wake /\ k.settles) => t[i].processed = s[i].processed
  BY <1>1, <1>2 DEF Entries
<1>4. t = [i \in 1 .. Len(s) |-> t[i]]
  BY <1>1 DEF Marked
<1> HIDE DEF t
<1>5. t \in [1 .. Len(s) -> Entries]
  BY <1>3, <1>4
<1>6. t \in Seq(Entries)
  BY <1>1, <1>5, SeqDef
<1>7. Unique(t) /\ Ids(t) = Ids(s)
  BY <1>1, <1>2, <1>3 DEF Unique, Ids
<1>8. Pending(t) = IF k.settles THEN Pending(s) \ {k.wake} ELSE Pending(s)
  BY <1>1, <1>2, <1>3 DEF Pending, Unique
<1> QED
  BY <1>6, <1>7, <1>8 DEF t

\* Some lines of a queue, in their order.
LEMMA KeptLines ==
    ASSUME NEW s \in Seq(Entries), Unique(s), NEW K \in SUBSET DOMAIN s,
           NEW t \in InOrder(s, K)
    PROVE  /\ t \in Seq(Entries) /\ Unique(t) /\ Ids(t) \subseteq Ids(s)
           /\ Pending(t) \subseteq Pending(s) /\ Ids(t) \cap Pending(s) \subseteq Pending(t)
           /\ Done(t) \subseteq Done(s)
<1> DEFINE n == Cardinality(K)
<1>1. Len(s) \in Nat /\ s \in [1 .. Len(s) -> Entries] /\ DOMAIN s = 1 .. Len(s)
  BY LenProperties
<1>2. n \in Nat
  <2>1. IsFiniteSet(1 .. Len(s))
    BY <1>1, FS_Interval, 1 \in Int, Len(s) \in Int
  <2>2. IsFiniteSet(K)
    BY <1>1, <2>1, FS_Subset
  <2> QED
    BY <2>2, FS_CardinalityType
<1>3. PICK f \in [1 .. n -> K] : /\ \A i, j \in 1 .. n : i < j => f[i] < f[j]
                                 /\ t = [i \in 1 .. n |-> s[f[i]]]
  BY DEF InOrder
<1> HIDE DEF n
<1>4. /\ DOMAIN t = 1 .. n
      /\ \A i \in 1 .. n : f[i] \in DOMAIN s /\ f[i] \in Nat /\ t[i] = s[f[i]] /\ t[i] \in Entries
  BY <1>1, <1>3
<1>5. \A i, j \in 1 .. n : f[i] = f[j] => i = j
  BY <1>2, <1>3, <1>4
<1>6. t \in [1 .. n -> Entries]
  BY <1>3, <1>4
<1>7. t \in Seq(Entries)
  BY <1>2, <1>6, SeqDef
<1>8. Unique(t)
  BY <1>4, <1>5 DEF Unique
<1>9. Ids(t) \subseteq Ids(s)
  BY <1>4 DEF Ids
<1>10. Pending(t) \subseteq Pending(s)
  BY <1>4 DEF Pending
<1>11. Ids(t) \cap Pending(s) \subseteq Pending(t)
  BY <1>4 DEF Ids, Pending, Unique
<1>12. Done(t) \subseteq Done(s)
  BY <1>4 DEF Done
<1> QED
  BY <1>7, <1>8, <1>9, <1>10, <1>11, <1>12

-----------------------------------------------------------------------------
(* The copies of the queue.                                                *)

\* The copies are sequences of entries.
LEMMA CopyTypes ==
    ASSUME TypeOK, NEW s \in Copies
    PROVE  s \in Seq(Entries)
  BY DEF TypeOK, Copies, Reads, Sweeps

\* A step that makes no new copy, and stores nothing it does not expose, keeps
\* what is true of every copy.
LEMMA NoNewCopy ==
    ASSUME IInv, Copies' \subseteq Copies, Landed \subseteq Landed',
           settled \subseteq settled', exposed \subseteq exposed',
           \A q \in Requests : req'[q] \in {"stored", "accepted"} =>
               req[q] \in {"stored", "accepted"} \/ q \in exposed'
    PROVE  CopiesUnique' /\ SafeInCopies'
  BY DEF IInv, CopiesUnique, SafeInCopies

\* A step that touches neither the queue nor a reading of it.
LEMMA CopiesUntouched ==
    ASSUME IInv, UNCHANGED <<queue, marking, sweeping>>, Landed \subseteq Landed',
           settled \subseteq settled', exposed \subseteq exposed',
           \A q \in Requests : req'[q] \in {"stored", "accepted"} =>
               req[q] \in {"stored", "accepted"} \/ q \in exposed'
    PROVE  LockHeld' /\ CopiesUnique' /\ CopiesInOrder' /\ SafeInCopies'
<1>1. Reads' = Reads /\ Sweeps' = Sweeps /\ Copies' = Copies
  BY DEF Reads, Sweeps, Copies
<1>2. LockHeld' /\ CopiesInOrder'
  BY <1>1 DEF IInv, LockHeld, CopiesInOrder
<1> QED
  BY <1>1, <1>2, NoNewCopy

\* A line that lands in the queue: the wake is new to every copy, and exposed
\* if anybody may write one of them back.
LEMMA LineLands ==
    ASSUME IInv, NEW q \in Requests, req[q] = "open", ~torn, AppendEvent(q),
           UNCHANGED <<marking, sweeping, settled>>,
           req' = [req EXCEPT ![q] = "stored"] \/ req' = [req EXCEPT ![q] = "failed"]
    PROVE  queue' \in Seq(Entries) /\ CopiesUnique' /\ CopiesInOrder' /\ SafeInCopies'
<1> DEFINE e == [id |-> q, processed |-> FALSE]
<1>1. /\ queue' = Append(queue, e)
      /\ exposed' = IF Rewriting THEN exposed \cup {q} ELSE exposed
  BY DEF AppendEvent
<1>2. /\ queue \in Copies /\ queue \in Seq(Entries)
      /\ req \in [Requests -> Standing] /\ q \notin Landed
      /\ \A s \in Copies : Unique(s) /\ q \notin Ids(s)
  BY DEF IInv, TypeOK, CopiesUnique, Copies, Landed
<1>3. /\ queue' \in Seq(Entries) /\ Unique(queue') /\ Ids(queue') = Ids(queue) \cup {q}
      /\ Pending(queue') = Pending(queue) \cup {q} /\ Done(queue') = Done(queue)
  BY <1>1, <1>2, AppendedLine
<1>4. Landed' = Landed \cup {q}
  BY <1>2 DEF Landed
<1>5. Reads' = Reads /\ Sweeps' = Sweeps /\ Copies' = {queue'} \cup Reads \cup Sweeps
  BY DEF Reads, Sweeps, Copies
<1>6. CopiesUnique'
  BY <1>3, <1>4, <1>5 DEF IInv, CopiesUnique, Copies
<1>7. ASSUME NEW t \in Sweeps PROVE q \notin Done(t)
  BY <1>2, DoneOrPending DEF Copies
<1>8. CopiesInOrder'
  BY <1>3, <1>5, <1>7 DEF IInv, CopiesInOrder
<1>9. Reads \cup Sweeps # {} => q \in exposed'
  BY <1>1 DEF Reads, Sweeps, Rewriting
<1>10. SafeInCopies'
  <2> SUFFICES ASSUME NEW w \in Requests, w \notin settled, w \notin exposed',
                      req'[w] \in {"stored", "accepted"}, NEW s \in Copies'
               PROVE  w \in Pending(s)
    BY DEF SafeInCopies
  <2>1. CASE w = q
    BY <1>3, <1>5, <1>9, <2>1
  <2>2. CASE w # q
    <3>1. req[w] \in {"stored", "accepted"} /\ w \notin exposed
      BY <1>1, <1>2, <2>2
    <3> QED
      BY <1>3, <1>5, <3>1 DEF IInv, SafeInCopies, Copies
  <2> QED
    BY <2>1, <2>2
<1> QED
  BY <1>3, <1>6, <1>8, <1>10

\* mark() writes back what it read, which no sweep is behind in what is settled.
LEMMA MarkWritten ==
    ASSUME IInv, NEW m \in Markers, EndMark(m)
    PROVE  queue' \in Seq(Entries) /\ LockHeld' /\ CopiesUnique' /\ CopiesInOrder'
           /\ SafeInCopies'
<1> DEFINE k == marking[m]
<1>1. /\ k # Nobody /\ queue' = Marked(k)
      /\ req' = [r \in Requests |-> IF req[r] = "open" THEN "stale" ELSE req[r]]
      /\ marking' = [marking EXCEPT ![m] = Nobody] /\ sweeping' = sweeping
      /\ settled' = IF k.settles THEN settled \cup ({k.wake} \cap Ids(k.read)) ELSE settled
      /\ exposed' = exposed
  BY DEF EndMark, Replace
<1>2. /\ k.read \in Reads /\ k.read \in Copies /\ Unique(k.read) /\ Ids(k.read) \subseteq Landed
      /\ k.read \in Seq(Entries) /\ k.settles \in BOOLEAN
  BY <1>1 DEF IInv, TypeOK, CopiesUnique, Copies, Reads
<1> HIDE DEF k
<1>3. /\ queue' \in Seq(Entries) /\ Unique(queue') /\ Ids(queue') = Ids(k.read)
      /\ Pending(queue') = IF k.settles THEN Pending(k.read) \ {k.wake} ELSE Pending(k.read)
  BY <1>1, <1>2, MarkedLines
<1>4. \A n \in Markers : marking'[n] # Nobody => FALSE
  <2> SUFFICES ASSUME NEW n \in Markers, marking'[n] # Nobody PROVE FALSE
    OBVIOUS
  <2>1. marking' = [marking EXCEPT ![m] = Nobody] /\ m \in DOMAIN marking
    BY <1>1 DEF IInv, TypeOK
  <2> QED
    BY <1>1, <2>1 DEF IInv, LockHeld, k
<1>5. Reads' = {} /\ Sweeps' = Sweeps /\ Copies' = {queue'} \cup Sweeps
  BY <1>1, <1>4 DEF Reads, Sweeps, Copies
<1>6. LockHeld'
  BY <1>4 DEF LockHeld
<1>7. Landed' = Landed
  BY <1>1 DEF IInv, TypeOK, Landed
<1>8. CopiesUnique'
  BY <1>2, <1>3, <1>5, <1>7 DEF IInv, CopiesUnique, Copies
<1>9. CopiesInOrder'
  BY <1>2, <1>3, <1>5 DEF IInv, CopiesInOrder
<1>10. SafeInCopies'
  <2> SUFFICES ASSUME NEW w \in Requests, w \notin settled', w \notin exposed',
                      req'[w] \in {"stored", "accepted"}, NEW s \in Copies'
               PROVE  w \in Pending(s)
    BY DEF SafeInCopies
  <2>1. /\ req[w] \in {"stored", "accepted"} /\ w \notin settled /\ w \notin exposed
        /\ k.settles => w \notin {k.wake} \cap Ids(k.read)
    BY <1>1
  <2>2. \A t \in Copies : w \in Pending(t)
    BY <2>1 DEF IInv, SafeInCopies
  <2>3. w \in Pending(k.read) /\ w \in Ids(k.read)
    BY <1>2, <2>2, DoneOrPending
  <2> QED
    BY <1>3, <1>5, <2>1, <2>2, <2>3 DEF Copies
<1> QED
  BY <1>3, <1>6, <1>8, <1>9, <1>10

\* The sweep writes back lines it read, and exposes the pending it leaves out.
LEMMA SweepWritten ==
    ASSUME IInv, EndSweep
    PROVE  queue' \in Seq(Entries) /\ LockHeld' /\ CopiesUnique' /\ CopiesInOrder'
           /\ SafeInCopies'
<1>1. /\ sweeping # Nobody /\ sweeping' = Nobody
      /\ marking' = marking /\ settled' = settled
  BY DEF EndSweep
<1>2. PICK old \in SUBSET Ids(sweeping) :
          IF Kept(sweeping, old) # DOMAIN sweeping
          THEN \E kept \in InOrder(sweeping, Kept(sweeping, old)) :
                  /\ Replace(kept)
                  /\ exposed' = exposed \cup (Pending(sweeping) \ Ids(kept))
          ELSE UNCHANGED <<queue, torn, req, exposed>>
  BY DEF EndSweep
<1>3. /\ sweeping \in Sweeps /\ sweeping \in Copies /\ sweeping \in Seq(Entries)
      /\ Unique(sweeping) /\ Ids(sweeping) \subseteq Landed
  BY <1>1 DEF IInv, TypeOK, CopiesUnique, Copies, Sweeps
<1>4. Reads' = Reads /\ Sweeps' = {} /\ Copies' = {queue'} \cup Reads
  BY <1>1 DEF Reads, Sweeps, Copies
<1>5. LockHeld'
  BY <1>1 DEF IInv, LockHeld
<1>6. CASE Kept(sweeping, old) = DOMAIN sweeping
  <2>1. UNCHANGED <<queue, torn, req, exposed>>
    BY <1>2, <1>6
  <2>2. Copies' \subseteq Copies /\ Landed' = Landed
    BY <1>4, <2>1 DEF Copies, Landed
  <2>3. CopiesUnique' /\ SafeInCopies'
    BY <1>1, <2>1, <2>2, NoNewCopy
  <2>4. CopiesInOrder'
    BY <1>4, <2>1 DEF IInv, CopiesInOrder
  <2>5. queue' \in Seq(Entries)
    BY <2>1 DEF IInv, TypeOK
  <2> QED
    BY <1>5, <2>3, <2>4, <2>5
<1>7. CASE Kept(sweeping, old) # DOMAIN sweeping
  <2>1. PICK kept \in InOrder(sweeping, Kept(sweeping, old)) :
            /\ Replace(kept)
            /\ exposed' = exposed \cup (Pending(sweeping) \ Ids(kept))
    BY <1>2, <1>7
  <2>2. Kept(sweeping, old) \in SUBSET DOMAIN sweeping
    BY DEF Kept, Unswept
  <2>3. /\ queue' = kept
        /\ req' = [r \in Requests |-> IF req[r] = "open" THEN "stale" ELSE req[r]]
    BY <2>1 DEF Replace
  <2>4. /\ queue' \in Seq(Entries) /\ Unique(queue') /\ Ids(queue') \subseteq Ids(sweeping)
        /\ Pending(queue') \subseteq Pending(sweeping)
        /\ Ids(queue') \cap Pending(sweeping) \subseteq Pending(queue')
        /\ Done(queue') \subseteq Done(sweeping)
    BY <1>3, <2>2, <2>3, KeptLines
  <2>5. Landed' = Landed
    BY <2>3 DEF IInv, TypeOK, Landed
  <2>6. CopiesUnique'
    BY <1>3, <1>4, <2>4, <2>5 DEF IInv, CopiesUnique, Copies
  <2>7. CopiesInOrder'
    BY <1>3, <1>4, <2>4 DEF IInv, CopiesInOrder
  <2>8. SafeInCopies'
    <3> SUFFICES ASSUME NEW w \in Requests, w \notin settled', w \notin exposed',
                        req'[w] \in {"stored", "accepted"}, NEW s \in Copies'
                 PROVE  w \in Pending(s)
      BY DEF SafeInCopies
    <3>1. /\ req[w] \in {"stored", "accepted"} /\ w \notin settled /\ w \notin exposed
          /\ w \notin Pending(sweeping) \ Ids(kept)
      BY <1>1, <2>1, <2>3
    <3>2. \A t \in Copies : w \in Pending(t)
      BY <3>1 DEF IInv, SafeInCopies
    <3> QED
      BY <1>3, <1>4, <2>3, <2>4, <3>1, <3>2 DEF Copies
  <2> QED
    BY <1>5, <2>4, <2>6, <2>7, <2>8
<1> QED
  BY <1>6, <1>7

\* A mark that begins reads the queue as it is, alone.
LEMMA MarkBegun ==
    ASSUME IInv, NEW m \in Markers, NEW w \in Requests, NEW settles \in BOOLEAN,
           BeginMark(m, w, settles)
    PROVE  LockHeld' /\ CopiesUnique' /\ CopiesInOrder' /\ SafeInCopies'
<1> DEFINE k == [wake |-> w, settles |-> settles, read |-> queue]
<1>1. /\ \A n \in Markers : marking[n] = Nobody
      /\ marking' = [marking EXCEPT ![m] = k] /\ k.read = queue
      /\ UNCHANGED <<queue, req, sweeping, settled, exposed>>
  BY DEF BeginMark
<1>2. marking \in [Markers -> {Nobody} \cup
                       [wake : Requests, settles : BOOLEAN, read : Seq(Entries)]]
  BY DEF IInv, TypeOK
<1> HIDE DEF k
<1>3. \A n \in Markers : marking'[n] # Nobody => n = m /\ marking'[n].read = queue
  BY <1>1, <1>2
<1>4. Reads' \subseteq {queue} /\ Sweeps' = Sweeps /\ Copies' \subseteq Copies
  BY <1>1, <1>3 DEF Reads, Sweeps, Copies
<1>5. LockHeld'
  BY <1>3 DEF LockHeld
<1>6. Landed' = Landed
  BY <1>1 DEF Landed
<1>7. CopiesUnique' /\ SafeInCopies'
  BY <1>1, <1>4, <1>6, NoNewCopy
<1>8. Unique(queue)
  BY DEF IInv, CopiesUnique, Copies
<1>9. CopiesInOrder'
  BY <1>1, <1>4, <1>8, DoneOrPending DEF IInv, CopiesInOrder
<1> QED
  BY <1>5, <1>7, <1>9

\* A sweep that begins reads a queue in which a mark's reading is not ahead.
LEMMA SweepBegun ==
    ASSUME IInv, BeginSweep
    PROVE  LockHeld' /\ CopiesUnique' /\ CopiesInOrder' /\ SafeInCopies'
<1>1. /\ sweeping = Nobody /\ sweeping' = queue
      /\ UNCHANGED <<queue, req, marking, settled, exposed>>
  BY DEF BeginSweep
<1>2. Reads' = Reads /\ Sweeps' \subseteq {queue} /\ Copies' \subseteq Copies
  BY <1>1 DEF Reads, Sweeps, Copies
<1>3. Landed' = Landed
  BY <1>1 DEF Landed
<1>4. CopiesUnique' /\ SafeInCopies'
  BY <1>1, <1>2, <1>3, NoNewCopy
<1>5. Unique(queue)
  BY DEF IInv, CopiesUnique, Copies
<1>6. CopiesInOrder'
  BY <1>1, <1>2, <1>5, DoneOrPending DEF IInv, CopiesInOrder
<1>7. LockHeld'
  BY <1>1 DEF IInv, LockHeld
<1> QED
  BY <1>4, <1>6, <1>7

\* Copies that are given up are no longer written back.
LEMMA CopiesDropped ==
    ASSUME IInv, (\E m \in Markers : MarkFails(m)) \/ Crash
    PROVE  LockHeld' /\ CopiesUnique' /\ CopiesInOrder' /\ SafeInCopies'
<1>types. /\ req \in [Requests -> Standing]
          /\ marking \in [Markers -> {Nobody} \cup
                             [wake : Requests, settles : BOOLEAN, read : Seq(Entries)]]
  BY DEF IInv, TypeOK
<1>1. /\ queue' = queue /\ settled' = settled /\ exposed' = exposed
      /\ sweeping' \in {sweeping, Nobody}
      /\ \A n \in Markers : marking'[n] # Nobody => marking'[n] = marking[n]
  BY <1>types DEF MarkFails, Crash
<1>2. /\ Landed \subseteq Landed'
      /\ \A q \in Requests : req'[q] \in {"stored", "accepted"} =>
             req[q] \in {"stored", "accepted"}
  BY <1>types DEF MarkFails, Crash, Landed
<1>3. Reads' \subseteq Reads /\ Sweeps' \subseteq Sweeps
  BY <1>1 DEF Reads, Sweeps
<1>4. Copies' \subseteq Copies
  BY <1>1, <1>3 DEF Copies
<1>5. CopiesUnique' /\ SafeInCopies'
  BY <1>1, <1>2, <1>4, NoNewCopy
<1>6. LockHeld' /\ CopiesInOrder'
  BY <1>1, <1>3 DEF IInv, LockHeld, CopiesInOrder
<1> QED
  BY <1>5, <1>6

\* Every step keeps what is true of the copies.
LEMMA CopiesKept ==
    ASSUME IInv, [Next]_vars
    PROVE  LockHeld' /\ CopiesUnique' /\ CopiesInOrder' /\ SafeInCopies'
<1>types. req \in [Requests -> Standing]
  BY DEF IInv, TypeOK
<1>1. ASSUME NEW q \in Requests,
             TurnAway(q) \/ Receive(q) \/ Reject(q) \/ OpenQueue(q) \/ Accept(q)
      PROVE  LockHeld' /\ CopiesUnique' /\ CopiesInOrder' /\ SafeInCopies'
  <2>1. /\ UNCHANGED <<queue, marking, sweeping, settled, exposed>>
        /\ \E to \in Standing : req' = [req EXCEPT ![q] = to]
        /\ req[q] \notin {"accepted", "failed", "cut"}
        /\ req[q] = "stored" <=> req'[q] = "accepted"
        /\ req'[q] # "stored"
    BY <1>1, <1>types DEF TurnAway, Receive, Reject, OpenQueue, Accept, Standing
  <2>2. /\ Landed \subseteq Landed'
        /\ \A p \in Requests : req'[p] \in {"stored", "accepted"} =>
               req[p] \in {"stored", "accepted"}
    BY <1>types, <2>1 DEF Landed
  <2> QED
    BY <2>1, <2>2, CopiesUntouched
<1>2. ASSUME NEW q \in Requests, WriteLine(q) \/ WriteFails(q)
      PROVE  LockHeld' /\ CopiesUnique' /\ CopiesInOrder' /\ SafeInCopies'
  <2>1. /\ UNCHANGED <<marking, sweeping, settled>> /\ req[q] \in {"open", "stale"}
        /\ \/ req' = [req EXCEPT ![q] = "stored"] /\ AppendEvent(q)
           \/ req' = [req EXCEPT ![q] = "failed"]
              /\ (AppendEvent(q) \/ UNCHANGED <<queue, exposed>>)
    BY <1>2 DEF WriteLine, WriteFails, AppendEvent
  <2>2. CASE req[q] = "open" /\ ~torn /\ AppendEvent(q)
    <3>1. LockHeld'
      BY <2>1 DEF IInv, LockHeld
    <3> QED
      BY <2>1, <2>2, <3>1, LineLands
  <2>3. CASE UNCHANGED <<queue, exposed>> /\ req' = [req EXCEPT ![q] = "failed"]
    <3>1. /\ Landed \subseteq Landed'
          /\ \A p \in Requests : req'[p] \in {"stored", "accepted"} =>
                 req[p] \in {"stored", "accepted"}
      BY <1>types, <2>3 DEF Landed
    <3> QED
      BY <2>1, <2>3, <3>1, CopiesUntouched
  <2>4. CASE AppendEvent(q) /\ ~(req[q] = "open" /\ ~torn)
    <3>1. queue' = queue /\ exposed' = exposed \cup {q}
      BY <2>1, <2>4 DEF AppendEvent
    <3>2. /\ Landed \subseteq Landed'
          /\ \A p \in Requests : req'[p] \in {"stored", "accepted"} =>
                 req[p] \in {"stored", "accepted"} \/ p \in exposed'
      BY <1>types, <2>1, <3>1 DEF Landed
    <3> QED
      BY <2>1, <3>1, <3>2, CopiesUntouched
  <2> QED
    BY <2>1, <2>2, <2>3, <2>4
<1>3. ASSUME NEW m \in Markers,
             EndMark(m) \/ MarkFails(m)
             \/ \E w \in Requests, settles \in BOOLEAN : BeginMark(m, w, settles)
      PROVE  LockHeld' /\ CopiesUnique' /\ CopiesInOrder' /\ SafeInCopies'
  BY <1>3, MarkWritten, MarkBegun, CopiesDropped
<1>4. CASE BeginSweep \/ EndSweep \/ Crash
  BY <1>4, SweepBegun, SweepWritten, CopiesDropped
<1>5. CASE (\E m \in Markers : ReadPending(m)) \/ UNCHANGED vars
  <2>1. UNCHANGED <<queue, req, marking, sweeping, settled, exposed>>
    BY <1>5 DEF ReadPending, vars
  <2>2. Landed' = Landed
    BY <2>1 DEF Landed
  <2> QED
    BY <2>1, <2>2, CopiesUntouched
<1> QED
  BY <1>1, <1>2, <1>3, <1>4, <1>5 DEF Next

-----------------------------------------------------------------------------
(* Types and delivery keys.                                                *)

\* Requests, keys, handles and the wakes a thread knows keep to their values.
LEMMA TypeKept ==
    ASSUME IInv, [Next]_vars
    PROVE  TypeOK'
<1> USE WakeStoreAssumption DEF IInv, TypeOK
<1>1. ASSUME NEW q \in Requests,
             TurnAway(q) \/ Receive(q) \/ Reject(q) \/ OpenQueue(q) \/ Accept(q)
      PROVE  TypeOK'
  BY <1>1 DEF TurnAway, Receive, Reject, OpenQueue, Accept, Standing
<1>2. ASSUME NEW q \in Requests, WriteLine(q) \/ WriteFails(q)
      PROVE  TypeOK'
  <2>1. queue' \in Seq(Entries) /\ torn' \in BOOLEAN
    <3>1. [id |-> q, processed |-> FALSE] \in Entries
      BY DEF Entries
    <3>2. Append(queue, [id |-> q, processed |-> FALSE]) \in Seq(Entries)
      BY <3>1, AppendProperties
    <3> QED
      BY <1>2, <3>2 DEF WriteLine, WriteFails, AppendEvent
  <2>2. req' \in [Requests -> Standing]
    BY <1>2 DEF WriteLine, WriteFails, Standing
  <2>3. exposed' \in {exposed, exposed \cup {q}}
    BY <1>2 DEF WriteLine, WriteFails, AppendEvent
  <2> QED
    BY <1>2, <2>1, <2>2, <2>3 DEF WriteLine, WriteFails
<1>3. ASSUME NEW m \in Markers, ReadPending(m) \/ MarkFails(m)
      PROVE  TypeOK'
  <2>1. Pending(queue) \subseteq Requests
    BY LinesAreRequests
  <2> QED
    BY <1>3, <2>1 DEF ReadPending, MarkFails
<1>4. ASSUME NEW m \in Markers, NEW w \in Requests, NEW settles \in BOOLEAN,
             BeginMark(m, w, settles)
      PROVE  TypeOK'
  BY <1>4 DEF BeginMark
<1>5. ASSUME NEW m \in Markers, EndMark(m)
      PROVE  TypeOK'
  <2>1. queue' \in Seq(Entries)
    BY <1>5, MarkWritten
  <2>2. marking[m].wake \in Requests
    BY <1>5 DEF EndMark
  <2> QED
    BY <1>5, <2>1, <2>2 DEF EndMark, Replace, Standing
<1>6. CASE BeginSweep
  BY <1>6 DEF BeginSweep
<1>7. CASE EndSweep
  <2>1. queue' \in Seq(Entries)
    BY <1>7, SweepWritten
  <2>2. sweeping \in Seq(Entries) /\ Pending(sweeping) \subseteq Requests
    BY <1>7, LinesAreRequests DEF EndSweep
  <2>3. torn' \in BOOLEAN /\ req' \in [Requests -> Standing] /\ exposed' \subseteq Requests
    BY <1>7, <2>2 DEF EndSweep, Replace, Standing
  <2> QED
    BY <1>7, <2>1, <2>3 DEF EndSweep
<1>8. CASE Crash
  BY <1>8 DEF Crash, Standing
<1>9. CASE UNCHANGED vars
  BY <1>9 DEF vars
<1> QED
  BY <1>1, <1>2, <1>3, <1>4, <1>5, <1>6, <1>7, <1>8, <1>9 DEF Next

\* Once past the keys a request stays past them, and no key is forgotten but
\* through its age: what the other steps keep.
LEMMA KeysUntouched ==
    ASSUME IInv, UNCHANGED <<seen, lapsed>>,
           \A q \in Requests : q \in Passed <=> q \in Passed',
           \A q \in Requests : req'[q] \in Serving => req[q] \in Serving,
           \A q \in Requests : req'[q] = "duplicate" <=> req[q] = "duplicate"
    PROVE  KeysHaveOwners' /\ OneWakePerDelivery' /\ DuplicatesHaveOriginals'
<1>1. Passed' = Passed
  BY DEF Passed
<1>2. KeysHaveOwners'
  BY <1>1 DEF IInv, KeysHaveOwners
<1>3. OneWakePerDelivery'
  BY DEF IInv, OneWakePerDelivery, Serving
<1>4. DuplicatesHaveOriginals'
  BY <1>1 DEF IInv, DuplicatesHaveOriginals, Passed
<1> QED
  BY <1>2, <1>3, <1>4

\* A key is recorded by the one request that is let in with it.
LEMMA KeyRecorded ==
    ASSUME IInv, NEW q \in Requests, Receive(q)
    PROVE  KeysHaveOwners' /\ OneWakePerDelivery' /\ DuplicatesHaveOriginals'
<1> USE WakeStoreAssumption
<1>types. req \in [Requests -> Standing] /\ seen \subseteq Keys /\ req[q] = "unsent"
  BY DEF IInv, TypeOK, Receive
<1>1. CASE Key[q] \in seen /\ req' = [req EXCEPT ![q] = "duplicate"] /\ UNCHANGED <<seen, lapsed>>
  <2>1. Passed' = Passed
    BY <1>types, <1>1 DEF Passed
  <2>2. KeysHaveOwners'
    BY <1>1, <2>1 DEF IInv, KeysHaveOwners
  <2>3. OneWakePerDelivery'
    BY <1>types, <1>1 DEF IInv, OneWakePerDelivery
  <2>4. DuplicatesHaveOriginals'
    BY <1>types, <1>1, <2>1 DEF IInv, DuplicatesHaveOriginals, KeysHaveOwners, Passed
  <2> QED
    BY <2>2, <2>3, <2>4
<1>2. CASE Key[q] = NoKey /\ req' = [req EXCEPT ![q] = "new"] /\ UNCHANGED <<seen, lapsed>>
  <2>1. Passed' = Passed \cup {q}
    BY <1>types, <1>2 DEF Passed
  <2>2. KeysHaveOwners'
    BY <1>2, <2>1 DEF IInv, KeysHaveOwners
  <2>3. OneWakePerDelivery'
    BY <1>types, <1>2 DEF IInv, OneWakePerDelivery
  <2>4. DuplicatesHaveOriginals'
    BY <1>types, <1>2 DEF IInv, DuplicatesHaveOriginals
  <2> QED
    BY <2>2, <2>3, <2>4
<1>3. ASSUME NEW old \in SUBSET seen, Key[q] \in Keys \ seen,
             seen' = (seen \ old) \cup {Key[q]}, lapsed' = lapsed \cup old,
             req' = [req EXCEPT ![q] = "new"]
      PROVE  KeysHaveOwners' /\ OneWakePerDelivery' /\ DuplicatesHaveOriginals'
  <2>1. Passed' = Passed \cup {q}
    BY <1>types, <1>3 DEF Passed
  <2>2. KeysHaveOwners'
    BY <1>3, <2>1 DEF IInv, KeysHaveOwners
  <2>3. ASSUME NEW p \in Requests, Key[p] = Key[q], Key[q] \in Keys \ lapsed'
        PROVE  req[p] \notin Serving
    <3>1. p \notin Passed
      BY <1>3, <2>3 DEF IInv, KeysHaveOwners
    <3> QED
      BY <3>1 DEF Passed, Serving
  <2>4. OneWakePerDelivery'
    <3> SUFFICES ASSUME NEW p \in Requests, NEW r \in Requests, p # r, Key[p] = Key[r],
                        Key[p] \in Keys \ lapsed', {req'[p], req'[r]} \subseteq Serving
                 PROVE  FALSE
      BY DEF OneWakePerDelivery, Serving
    <3>1. CASE p = q \/ r = q
      BY <1>types, <1>3, <2>3, <3>1
    <3>2. CASE p # q /\ r # q
      BY <1>types, <1>3, <3>2 DEF IInv, OneWakePerDelivery, Serving
    <3> QED
      BY <3>1, <3>2
  <2>5. DuplicatesHaveOriginals'
    BY <1>types, <1>3 DEF IInv, DuplicatesHaveOriginals
  <2> QED
    BY <2>2, <2>4, <2>5
<1> QED
  BY <1>1, <1>2, <1>3 DEF Receive

\* Every step keeps what is true of the keys.
LEMMA KeysKept ==
    ASSUME IInv, [Next]_vars
    PROVE  KeysHaveOwners' /\ OneWakePerDelivery' /\ DuplicatesHaveOriginals'
<1>types. req \in [Requests -> Standing]
  BY DEF IInv, TypeOK
<1> USE DEF Passed, Serving, Standing
<1>1. ASSUME NEW q \in Requests, TurnAway(q)
      PROVE  KeysHaveOwners' /\ OneWakePerDelivery' /\ DuplicatesHaveOriginals'
  BY <1>types, <1>1, KeysUntouched DEF TurnAway
<1>2. ASSUME NEW q \in Requests, Receive(q)
      PROVE  KeysHaveOwners' /\ OneWakePerDelivery' /\ DuplicatesHaveOriginals'
  BY <1>2, KeyRecorded
<1>3. ASSUME NEW q \in Requests,
             Reject(q) \/ OpenQueue(q) \/ WriteLine(q) \/ WriteFails(q) \/ Accept(q)
      PROVE  KeysHaveOwners' /\ OneWakePerDelivery' /\ DuplicatesHaveOriginals'
  <2>1. /\ UNCHANGED <<seen, lapsed>> /\ req[q] \in {"new", "open", "stale", "stored"}
        /\ \E to \in {"invalid", "open", "stored", "failed", "accepted"} :
              req' = [req EXCEPT ![q] = to]
    BY <1>3 DEF Reject, OpenQueue, WriteLine, WriteFails, Accept, AppendEvent
  <2> QED
    BY <1>types, <2>1, KeysUntouched
<1>4. CASE Crash
  <2>1. /\ UNCHANGED <<seen, lapsed>>
        /\ req' = [q \in Requests |->
                IF req[q] \in {"new", "open", "stale", "stored"} THEN "cut" ELSE req[q]]
    BY <1>4 DEF Crash
  <2> QED
    BY <1>types, <2>1, KeysUntouched
<1>5. ASSUME UNCHANGED <<seen, lapsed>>,
             \/ req' = req
             \/ req' = [r \in Requests |-> IF req[r] = "open" THEN "stale" ELSE req[r]]
      PROVE  KeysHaveOwners' /\ OneWakePerDelivery' /\ DuplicatesHaveOriginals'
  BY <1>types, <1>5, KeysUntouched
<1>6. ASSUME NEW m \in Markers,
             ReadPending(m) \/ EndMark(m) \/ MarkFails(m)
             \/ \E w \in Requests, settles \in BOOLEAN : BeginMark(m, w, settles)
      PROVE  KeysHaveOwners' /\ OneWakePerDelivery' /\ DuplicatesHaveOriginals'
  BY <1>5, <1>6 DEF ReadPending, EndMark, Replace, MarkFails, BeginMark
<1>7. CASE BeginSweep \/ EndSweep \/ UNCHANGED vars
  BY <1>5, <1>7 DEF BeginSweep, EndSweep, Replace, vars
<1> QED
  BY <1>1, <1>2, <1>3, <1>4, <1>6, <1>7 DEF Next

-----------------------------------------------------------------------------
(* The results.                                                            *)

\* Nothing is sent and the queue is empty.
LEMMA InvariantHolds == Init => IInv
<1> SUFFICES ASSUME Init PROVE IInv
  OBVIOUS
<1>1. TypeOK
  BY EmptySeq DEF Init, TypeOK, Standing
<1>2. Copies = {<<>>} /\ Reads = {} /\ Sweeps = {} /\ DOMAIN <<>> = {}
  BY DEF Init, Copies, Reads, Sweeps
<1>3. CopiesUnique
  BY <1>2 DEF CopiesUnique, Unique, Ids
<1>4. LockHeld /\ CopiesInOrder /\ SafeInCopies
  BY <1>2 DEF Init, LockHeld, CopiesInOrder, SafeInCopies
<1>5. KeysHaveOwners /\ OneWakePerDelivery /\ DuplicatesHaveOriginals
  BY DEF Init, KeysHaveOwners, OneWakePerDelivery, DuplicatesHaveOriginals, Passed
<1> QED
  BY <1>1, <1>3, <1>4, <1>5 DEF IInv

LEMMA InvariantAlways == Spec => []IInv
<1>1. IInv /\ [Next]_vars => IInv'
  BY TypeKept, CopiesKept, KeysKept DEF IInv
<1> QED
  BY InvariantHolds, <1>1, PTL DEF Spec

\* One wake for a delivery, and one line for a wake, for any number of retries,
\* crashes, marks and sweeps at the same time (wake.py, seen_before and append).
THEOREM DeliveredOnce == Spec => []DeliveriesOnce
<1>1. IInv => DeliveriesOnce
  BY DEF IInv, DeliveriesOnce, OneLinePerWake, CopiesUnique, Copies, Unique
<1> QED
  BY InvariantAlways, <1>1, PTL

\* The overlaps that `exposed' collects are all the ways an accepted wake can be
\* lost (wake.py, append beside mark; retention.py, sweep).
THEOREM LossIsOverlap == Spec => []LossNeedsOverlap
<1>1. IInv => LossNeedsOverlap
  BY DEF IInv, LossNeedsOverlap, SafeInCopies, Copies
<1> QED
  BY InvariantAlways, <1>1, PTL

\* Only a sweep writes back a queue in which a settled wake is pending.
LEMMA SettledStays ==
    ASSUME IInv, [Next]_vars, NEW w \in Requests, w \in Ids(queue) \ Pending(queue),
           w \in Pending(queue)'
    PROVE  sweeping # Nobody /\ sweeping' = Nobody
<1>1. Unique(queue) /\ w \in Done(queue) /\ queue \in Seq(Entries) /\ Ids(queue) \subseteq Landed
  BY DoneOrPending DEF IInv, TypeOK, CopiesUnique, Copies
<1>2. queue' # queue
  OBVIOUS
<1>3. CASE EndSweep
  BY <1>3 DEF EndSweep
<1>4. ASSUME NEW q \in Requests, WriteLine(q) \/ WriteFails(q)
      PROVE  FALSE
  <2>1. queue' = Append(queue, [id |-> q, processed |-> FALSE]) /\ req[q] = "open"
    BY <1>2, <1>4 DEF WriteLine, WriteFails, AppendEvent
  <2>2. q \notin Ids(queue)
    BY <1>1, <2>1 DEF Landed
  <2>3. Pending(queue') = Pending(queue) \cup {q}
    BY <1>1, <2>1, <2>2, AppendedLine
  <2> QED
    BY <2>2, <2>3
<1>5. ASSUME NEW m \in Markers, EndMark(m)
      PROVE  FALSE
  <2>1. /\ marking[m] # Nobody /\ queue' = Marked(marking[m])
        /\ marking[m].read \in Reads /\ marking[m].read \in Seq(Entries)
        /\ marking[m].settles \in BOOLEAN
    BY <1>5 DEF EndMark, Replace, IInv, TypeOK, Reads
  <2>2. Unique(marking[m].read)
    BY <2>1 DEF IInv, CopiesUnique, Copies
  <2>3. Pending(queue') \subseteq Pending(marking[m].read)
    BY <2>1, <2>2, MarkedLines
  <2> QED
    BY <1>1, <2>1, <2>3 DEF IInv, CopiesInOrder
<1> QED
  BY <1>2, <1>3, <1>4, <1>5
     DEF Next, TurnAway, Receive, Reject, OpenQueue, Accept, ReadPending, BeginMark,
         MarkFails, BeginSweep, Crash, vars

\* The lock of mark() does its work for any number of marking threads.
THEOREM MarksHold == Spec => MarksNeverUndone
<1>1. IInv /\ [Next]_vars =>
          [\A w \in Requests :
              (w \in Ids(queue) \ Pending(queue) /\ w \in Pending(queue)')
                  => sweeping # Nobody /\ sweeping' = Nobody]_vars
  BY SettledStays
<1> QED
  BY <1>1, InvariantAlways, PTL DEF Spec, MarksNeverUndone
=============================================================================
