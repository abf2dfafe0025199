----------------------------- MODULE LoopProofs -----------------------------
(***************************************************************************)
(* Theorems about the daemon's loops that make wakes and act on them:      *)
(* Poll, for every set of sources and items and every cap; Schedule, for   *)
(* every set of jobs and every calendar; Drain, for every set of wakes and *)
(* goals and every number of attempts; each with any number of crashes,    *)
(* outages and edits.                                                      *)
(*                                                                         *)
(* Each is a specification by itself, and no theorem joins them.  `pc' and *)
(* `disk' are Loop's: the thread and the disk of whichever loop a theorem  *)
(* is about.                                                               *)
(***************************************************************************)
EXTENDS Poll, Schedule, Drain, TLAPS, FiniteSetTheorems, SequenceTheorems

-----------------------------------------------------------------------------
(* What the lists of a poll need.                                          *)

\* What AtPlaces picks: the elements at those places.  A place has a rank, ranks are
\* distinct, and so every number up to theirs is a rank.
LEMMA PlacesPick ==
    ASSUME NEW T, NEW q \in Seq(T), NEW K, K \subseteq DOMAIN q
    PROVE  AtPlaces(q, K) \in Seq(T) /\ ToSet(AtPlaces(q, K)) = {q[k] : k \in K}
<1> DEFINE UpTo(n) == {k \in K : k <= n}
           Rank(n) == Cardinality(UpTo(n))
           N == Cardinality(K)
<1>1. K \subseteq 1 .. Len(q) /\ DOMAIN q = 1 .. Len(q) /\ Len(q) \in Nat
  BY LenProperties
<1>2. IsFiniteSet(K) /\ N \in Nat
  <2>1. IsFiniteSet(1 .. Len(q))
    BY <1>1, FS_Interval
  <2>2. K \in SUBSET (1 .. Len(q))
    BY <1>1
  <2>3. IsFiniteSet(K)
    BY <2>1, <2>2, FS_Subset
  <2> QED
    BY <2>3, FS_CardinalityType
<1>3. ASSUME NEW k \in K PROVE Rank(k) \in 1 .. N
  <2>1. UpTo(k) \in SUBSET K /\ k \in UpTo(k)
    BY <1>1
  <2>2. IsFiniteSet(UpTo(k)) /\ Rank(k) <= N
    BY <1>2, <2>1, FS_Subset
  <2>3. Rank(k) \in Nat /\ Rank(k) # 0
    BY <2>1, <2>2, FS_CardinalityType, FS_EmptySet
  <2> QED
    BY <1>2, <2>2, <2>3
<1>4. ASSUME NEW k \in K, NEW l \in K, k < l PROVE Rank(k) # Rank(l)
  <2>1. UpTo(k) \in SUBSET UpTo(l) /\ l \in UpTo(l) /\ l \notin UpTo(k)
    BY <1>1, <1>4
  <2>2. IsFiniteSet(UpTo(l))
    BY <1>2, FS_Subset
  <2>3. Cardinality(UpTo(l)) = Cardinality(UpTo(k)) => UpTo(l) = UpTo(k)
    BY <2>1, <2>2, FS_Subset
  <2> QED
    BY <2>1, <2>3
<1>5. \A k, l \in K : Rank(k) = Rank(l) => k = l
  <2> SUFFICES ASSUME NEW k \in K, NEW l \in K, Rank(k) = Rank(l), k # l PROVE FALSE
    OBVIOUS
  <2>1. k \in Int /\ l \in Int
    BY <1>1
  <2>2. k < l \/ l < k
    BY <2>1
  <2> QED
    BY <1>4, <2>2
<1>6. \A p \in 1 .. N : \E k \in K : Rank(k) = p
  <2> DEFINE r == [k \in K |-> Rank(k)]
  <2>1. r \in Injection(K, 1 .. N)
    <3>1. r \in [K -> 1 .. N]
      BY <1>3
    <3> HIDE DEF Rank
    <3> QED
      BY <1>5, <3>1 DEF Injection, IsInjective
  <2>2. IsFiniteSet(1 .. N) /\ Cardinality(1 .. N) = N
    BY <1>2, FS_Interval
  <2>3. r \in Surjection(K, 1 .. N)
    <3> HIDE DEF r
    <3> QED
      BY <2>1, <2>2, FS_Injection
  <2> HIDE DEF Rank
  <2> QED
    BY <2>3 DEF Surjection
<1> DEFINE Place(p) == CHOOSE k \in K : Rank(k) = p
<1>7. \A p \in 1 .. N : Place(p) \in K /\ Rank(Place(p)) = p
  <2> HIDE DEF Rank
  <2> QED
    BY <1>6
<1>8. AtPlaces(q, K) = [p \in 1 .. N |-> q[Place(p)]]
  BY DEF AtPlaces
<1>9. \A k \in K : q[k] \in T
  BY <1>1, ElementOfSeq
<1> DEFINE o == AtPlaces(q, K)
<1>10. o \in [1 .. N -> T] /\ \A p \in 1 .. N : o[p] = q[Place(p)]
  <2> HIDE DEF Place, N
  <2> QED
    BY <1>7, <1>8, <1>9
<1>11. o \in Seq(T) /\ DOMAIN o = 1 .. N
  <2> HIDE DEF N, o
  <2> QED
    BY <1>2, <1>10
<1>12. ToSet(o) = {q[k] : k \in K}
  <2>1. \A k \in K : Rank(k) \in 1 .. N /\ Place(Rank(k)) = k
    <3> HIDE DEF Rank, N
    <3> QED
      BY <1>3, <1>5, <1>7
  <2> HIDE DEF Rank, N, Place, o
  <2> QED
    BY <1>7, <1>10, <1>11, <2>1 DEF ToSet
<1> QED
  BY <1>11, <1>12

\* What Only picks: those elements that are in R.
LEMMA OnlyPicks ==
    ASSUME NEW T, NEW q \in Seq(T), NEW R
    PROVE  Only(q, R) \in Seq(T) /\ ToSet(Only(q, R)) = ToSet(q) \cap R
<1> DEFINE K == {k \in DOMAIN q : q[k] \in R}
<1>1. K \in SUBSET DOMAIN q /\ Only(q, R) = AtPlaces(q, K)
  BY DEF Only
<1>2. {q[k] : k \in K} = ToSet(q) \cap R
  BY DEF ToSet
<1> HIDE DEF K
<1> QED
  BY <1>1, <1>2, PlacesPick

\* A list without its repeats holds none but its elements.
LEMMA OncePicks ==
    ASSUME NEW T, NEW q \in Seq(T)
    PROVE  Once(q) \in Seq(T) /\ ToSet(Once(q)) \subseteq ToSet(q)
<1> DEFINE K == DOMAIN q \ Again(q)
<1>1. K \in SUBSET DOMAIN q /\ Once(q) = AtPlaces(q, K)
  BY DEF Once
<1>2. {q[k] : k \in K} \subseteq ToSet(q)
  BY <1>1 DEF ToSet
<1> HIDE DEF K
<1> QED
  BY <1>1, <1>2, PlacesPick

\* A part of a list holds some of its elements, each where it stood.
LEMMA PartPicks ==
    ASSUME NEW T, NEW q \in Seq(T), NEW m \in 1 .. Len(q) + 1, NEW n \in 0 .. Len(q)
    PROVE  /\ SubSeq(q, m, n) \in Seq(T)
           /\ ToSet(SubSeq(q, m, n)) \subseteq ToSet(q)
<1> DEFINE p == SubSeq(q, m, n)
<1>1. Len(q) \in Nat /\ DOMAIN q = 1 .. Len(q) /\ \A k \in 1 .. Len(q) : q[k] \in T
  BY LenProperties, ElementOfSeq
<1>2. /\ p \in Seq(T)
      /\ Len(p) = IF m <= n THEN n - m + 1 ELSE 0
      /\ \A k \in 1 .. n - m + 1 : p[k] = q[m + k - 1]
  BY <1>1, SubSeqProperties
<1> HIDE DEF p
<1>3. DOMAIN p = 1 .. Len(p) /\ Len(p) \in Nat
  BY <1>2, LenProperties
<1>4. \A k \in DOMAIN p : m + k - 1 \in DOMAIN q /\ p[k] = q[m + k - 1]
  BY <1>1, <1>2, <1>3
<1>5. ToSet(p) \subseteq ToSet(q)
  BY <1>4 DEF ToSet
<1> QED
  BY <1>2, <1>5 DEF p

\* The elements of two lists, one after the other.
LEMMA JoinPicks ==
    ASSUME NEW T, NEW q \in Seq(T), NEW r \in Seq(T)
    PROVE  q \o r \in Seq(T) /\ ToSet(q \o r) = ToSet(q) \cup ToSet(r)
<1>1. /\ Len(q) \in Nat /\ DOMAIN q = 1 .. Len(q)
      /\ Len(r) \in Nat /\ DOMAIN r = 1 .. Len(r)
  BY LenProperties
<1>2. /\ q \o r \in Seq(T) /\ Len(q \o r) = Len(q) + Len(r)
      /\ \A k \in 1 .. Len(q) + Len(r) :
            (q \o r)[k] = IF k <= Len(q) THEN q[k] ELSE r[k - Len(q)]
  BY ConcatProperties
<1> DEFINE j == q \o r
<1>3. DOMAIN j = 1 .. Len(q) + Len(r)
  BY <1>2, LenProperties
<1> HIDE DEF j
<1>4. \A k \in DOMAIN j : j[k] \in ToSet(q) \cup ToSet(r)
  <2> SUFFICES ASSUME NEW k \in DOMAIN j PROVE j[k] \in ToSet(q) \cup ToSet(r)
    OBVIOUS
  <2>1. CASE k <= Len(q)
    BY <1>1, <1>2, <1>3, <2>1 DEF ToSet, j
  <2>2. CASE k > Len(q)
    <3>1. k - Len(q) \in DOMAIN r /\ j[k] = r[k - Len(q)]
      BY <1>1, <1>2, <1>3, <2>2 DEF j
    <3> QED
      BY <3>1 DEF ToSet
  <2> QED
    BY <1>1, <1>3, <2>1, <2>2
<1>5. \A k \in DOMAIN q : k \in DOMAIN j /\ j[k] = q[k]
  BY <1>1, <1>2, <1>3 DEF j
<1>6. \A k \in DOMAIN r : Len(q) + k \in DOMAIN j /\ j[Len(q) + k] = r[k]
  BY <1>1, <1>2, <1>3 DEF j
<1>7. ToSet(j) = ToSet(q) \cup ToSet(r)
  BY <1>4, <1>5, <1>6 DEF ToSet
<1> QED
  BY <1>2, <1>7 DEF j

\* The first of a list and the others: what the others repeat the list repeats,
\* and the first too if they have it again.
LEMMA HeadAndTail ==
    ASSUME NEW T, NEW q \in Seq(T), q # <<>>
    PROVE  /\ Head(q) \in T /\ Tail(q) \in Seq(T)
           /\ ToSet(q) = {Head(q)} \cup ToSet(Tail(q))
           /\ Repeats(Tail(q)) \subseteq Repeats(q)
           /\ Head(q) \in ToSet(Tail(q)) => Head(q) \in Repeats(q)
<1> DEFINE t == Tail(q)
<1>1. /\ Head(q) \in T /\ t \in Seq(T) /\ Len(t) = Len(q) - 1 /\ Len(q) \in Nat \ {0}
      /\ \A i \in 1 .. Len(t) : t[i] = q[i + 1]
  BY HeadTailProperties, EmptySeq
<1>2. DOMAIN q = 1 .. Len(q) /\ DOMAIN t = 1 .. Len(q) - 1 /\ Head(q) = q[1]
  BY <1>1, LenProperties
<1> HIDE DEF t
<1>3. \A i \in DOMAIN t : i + 1 \in DOMAIN q /\ t[i] = q[i + 1] /\ i \in Nat \ {0}
  BY <1>1, <1>2
<1>4. \A i \in DOMAIN q : i = 1 \/ (i - 1 \in DOMAIN t /\ q[i] = t[i - 1])
  BY <1>1, <1>2
<1>5. 1 \in DOMAIN q
  BY <1>1, <1>2
<1>6. ToSet(q) = {Head(q)} \cup ToSet(t)
  BY <1>2, <1>3, <1>4, <1>5 DEF ToSet
<1>7. ASSUME NEW k \in Again(t) PROVE t[k] \in Repeats(q)
  <2>1. PICK j \in DOMAIN t : k \in DOMAIN t /\ j < k /\ t[j] = t[k]
    BY DEF Again
  <2>2. /\ k + 1 \in DOMAIN q /\ j + 1 \in DOMAIN q /\ j + 1 < k + 1
        /\ q[j + 1] = q[k + 1] /\ t[k] = q[k + 1]
    BY <1>3, <2>1
  <2>3. k + 1 \in Again(q)
    BY <2>2 DEF Again
  <2> QED
    BY <2>2, <2>3 DEF Repeats
<1>8. ASSUME NEW k \in DOMAIN t, t[k] = q[1] PROVE q[1] \in Repeats(q)
  <2>1. k + 1 \in DOMAIN q /\ 1 < k + 1 /\ q[1] = q[k + 1]
    BY <1>3, <1>8
  <2>2. k + 1 \in Again(q)
    BY <1>5, <2>1 DEF Again
  <2> QED
    BY <2>1, <2>2 DEF Repeats
<1>9. Repeats(t) \subseteq Repeats(q)
  BY <1>7 DEF Repeats
<1>10. Head(q) \in ToSet(t) => Head(q) \in Repeats(q)
  BY <1>2, <1>8 DEF ToSet
<1> QED
  BY <1>1, <1>6, <1>9, <1>10 DEF t

\* A list that gets an element, before or after the others.
LEMMA OneMore ==
    ASSUME NEW T, NEW q \in Seq(T), NEW e \in T
    PROVE  <<e>> \o q \in Seq(T) /\ Append(q, e) \in Seq(T)
<1>1. <<e>> \in Seq(T)
  OBVIOUS
<1>2. Append(q, e) \in Seq(T)
  BY AppendProperties
<1> QED
  BY <1>1, <1>2, JoinPicks


-----------------------------------------------------------------------------
(* Poll: the invariant.                                                    *)

Of(s) == {i \in Items : Origin[i] = s}

\* A reading of poll.json: what a source has seen are items of its own.
IsFile(f) == /\ f = [s \in Names |-> f[s]]
             /\ \A s \in Names : f[s].seen \in Seq(Of(s))

\* A poll that asks, one that has its answer and the file, and none.
IsPoll(v) ==
    \/ v = NoPoll
    \/ /\ v.source \in Names
       /\ \/ v.stage = "asked" /\ v.entry.seen \in Seq(Of(v.source))
          \/ v.stage = "loaded" /\ v.new \in Seq(Of(v.source)) /\ IsFile(v.file)

Asking(p) == poller[p].stage = "asked"
Loaded(p) == poller[p].stage = "loaded"

PollTyped ==
    /\ lists = [s \in Names |-> lists[s]]
    /\ \A s \in Names : lists[s] \in Seq(Of(s))
    /\ IsFile(entries)
    /\ poller = [p \in Pollers |-> poller[p]] /\ \A p \in Pollers : IsPoll(poller[p])
    /\ wakes \in Seq(Items) /\ woke \in [Items -> Nat]
    /\ todo \in Seq(Names)

\* The thread polls, or stores what the poll returned, or does neither.
OneThing ==
    /\ poller["daemon"] # NoPoll => pc = "pass"
    /\ wakes # <<>> => pc = "store"
    /\ pc \in {"pass", "store"} => todo # <<>>

\* What is known of an item by a reading of the file that may still be written.
Accounted(i) == woke[i] > 0 \/ i \in ToSet(wakes) \/ i \in dropped
ReadingsAccounted ==
    \A p \in Pollers : Loaded(p) => \A i \in Known(poller[p].file) : Accounted(i)

\* An item that has its wake, or is about to, is remembered.
WokenIsSeen ==
    \A i \in Items \ forgotten :
        woke[i] > 0 \/ i \in ToSet(wakes) => i \in Seen(entries, Origin[i])

\* What the thread has in its hands has no wake yet, and has a place of its own
\* there, if it is not excepted.
NewIsUnwoken ==
    /\ Asking("daemon") =>
          \A i \in Of(poller["daemon"].source) \ forgotten :
              woke[i] > 0 => i \in ToSet(poller["daemon"].entry.seen)
    /\ Loaded("daemon") =>
          /\ \A i \in ToSet(poller["daemon"].new) \ forgotten : woke[i] = 0
          /\ Repeats(poller["daemon"].new) \subseteq repeated
    /\ \A i \in ToSet(wakes) \ (forgotten \cup repeated) : woke[i] = 0
    /\ Repeats(wakes) \subseteq repeated

PollInv ==
    /\ PollTyped /\ OneThing /\ KnownItemsWake /\ ReadingsAccounted
    /\ WokenIsSeen /\ NewIsUnwoken /\ OneWakePerItem

-----------------------------------------------------------------------------
(* What the operators of a poll return.                                    *)

LEMMA NothingListed == ToSet(<<>>) = {} /\ Repeats(<<>>) = {} /\ \A R : <<>> \in Seq(R)
  BY DEF ToSet, Repeats, Again

\* New items are of the list, and none of them was seen.
LEMMA NewItemsAreNew ==
    ASSUME PollAssumption, NEW R, NEW list, list \in Seq(R), NEW entry
    PROVE  /\ NewItems(list, entry) \in Seq(R)
           /\ ToSet(NewItems(list, entry)) \subseteq ToSet(list) \ ToSet(entry.seen)
<1> DEFINE n == IF Len(list) < MaxItems THEN Len(list) ELSE MaxItems
           part == SubSeq(list, 1, n)
<1>1. list \in Seq(R) /\ Len(list) \in Nat
  BY LenProperties
<1>2. 1 \in 1 .. Len(list) + 1 /\ n \in 0 .. Len(list)
  BY <1>1 DEF PollAssumption
<1> HIDE DEF n
<1>3. part \in Seq(R) /\ ToSet(part) \subseteq ToSet(list)
  BY <1>1, <1>2, PartPicks
<1> HIDE DEF part
<1> DEFINE o == Only(part, Items \ ToSet(entry.seen))
<1>4. o \in Seq(R) /\ ToSet(o) = ToSet(part) \cap (Items \ ToSet(entry.seen))
  BY <1>3, OnlyPicks
<1>5. NewItems(list, entry) = o
  BY DEF NewItems, part, n
<1> QED
  BY <1>3, <1>4, <1>5

LEMMA KeptAreOfTheList ==
    ASSUME PollAssumption, NEW T, NEW ids \in Seq(T)
    PROVE  Kept(ids) \in Seq(T) /\ ToSet(Kept(ids)) \subseteq ToSet(ids)
<1> DEFINE m == IF Len(ids) > SeenCap THEN Len(ids) - SeenCap + 1 ELSE 1
<1>1. Len(ids) \in Nat
  BY LenProperties
<1>2. m \in 1 .. Len(ids) + 1 /\ Len(ids) \in 0 .. Len(ids)
  BY <1>1 DEF PollAssumption
<1>3. Kept(ids) = SubSeq(ids, m, Len(ids))
  BY DEF Kept
<1> HIDE DEF m
<1> QED
  BY <1>2, <1>3, PartPicks

\* Remembering adds to what was seen what is new, and nothing else.
LEMMA RememberedIsSeenOrNew ==
    ASSUME PollAssumption, NEW T, NEW entry, entry.seen \in Seq(T), NEW poll, poll.new \in Seq(T)
    PROVE  /\ Remembered(entry, poll).seen \in Seq(T)
           /\ ToSet(Remembered(entry, poll).seen) \subseteq ToSet(entry.seen) \cup ToSet(poll.new)
<1> DEFINE unseen == Only(poll.new, Items \ ToSet(entry.seen))
           fresh == Once(unseen)
<1>1. fresh \in Seq(T) /\ ToSet(fresh) \subseteq ToSet(poll.new)
  <2>1. unseen \in Seq(T) /\ ToSet(unseen) \subseteq ToSet(poll.new)
    BY OnlyPicks
  <2> HIDE DEF unseen
  <2> QED
    BY <2>1, OncePicks
<1>2. Remembered(entry, poll).seen = Kept(entry.seen \o fresh)
  BY DEF Remembered
<1> DEFINE seen == entry.seen
           both == seen \o fresh
<1> HIDE DEF fresh, seen
<1>3. both \in Seq(T) /\ ToSet(both) = ToSet(seen) \cup ToSet(fresh)
  BY <1>1, JoinPicks DEF seen
<1> HIDE DEF both
<1>4. Kept(both) \in Seq(T) /\ ToSet(Kept(both)) \subseteq ToSet(both)
  BY <1>3, KeptAreOfTheList
<1> QED
  BY <1>1, <1>2, <1>3, <1>4 DEF seen, both

\* What a save leaves in the file is what it had loaded, or new.
LEMMA SaveRemembers ==
    ASSUME PollAssumption, PollTyped, NEW p \in Pollers, Save(p)
    PROVE  /\ Loaded(p) /\ IsPoll(poller[p]) /\ poller[p] # NoPoll
           /\ poller[p].new \in Seq(Items)
           /\ poller' = [poller EXCEPT ![p] = NoPoll]
           /\ IsFile(entries')
           /\ Known(entries') \subseteq Known(poller[p].file) \cup ToSet(poller[p].new)
<1> DEFINE v == poller[p]  s == v.source  f == v.file
<1>1. Loaded(p) /\ IsPoll(v) /\ v # NoPoll
  BY DEF Save, PollTyped, Loaded, NoPoll, PollAssumption
<1>2. s \in Names /\ v.new \in Seq(Of(s)) /\ IsFile(f)
  BY <1>1 DEF IsPoll, Loaded
<1>3. entries' = [f EXCEPT ![s] = Remembered(@, v)] /\ poller' = [poller EXCEPT ![p] = NoPoll]
  BY DEF Save
<1> HIDE DEF v, s, f
<1>4. f[s].seen \in Seq(Of(s)) /\ v.new \in Seq(Of(s))
  BY <1>2 DEF IsFile
<1> DEFINE e == Remembered(f[s], v)
<1>5. e.seen \in Seq(Of(s)) /\ ToSet(e.seen) \subseteq ToSet(f[s].seen) \cup ToSet(v.new)
  BY <1>4, RememberedIsSeenOrNew
<1>6. entries' = [t \in Names |-> IF t = s THEN e ELSE f[t]]
  BY <1>2, <1>3 DEF IsFile
<1> HIDE DEF e
<1>7. IsFile(entries')
  BY <1>2, <1>5, <1>6 DEF IsFile
<1>8. \A t \in Names : Seen(entries', t) \subseteq Known(f) \cup ToSet(v.new)
  BY <1>2, <1>5, <1>6 DEF Seen, Known
<1>9. v.new \in Seq(Items)
  <2>1. Seq(Of(s)) \subseteq Seq(Items)
    BY DEF Of
  <2> QED
    BY <1>2, <2>1
<1> QED
  BY <1>1, <1>3, <1>7, <1>8, <1>9 DEF Known, v, s, f

\* An item known by a reading is in the entry of its source.
LEMMA KnownAtItsSource ==
    ASSUME NEW f, IsFile(f), NEW i \in Known(f) PROVE i \in Seen(f, Origin[i])
<1>1. PICK s \in Names : i \in Seen(f, s)
  BY DEF Known
<1>2. f[s].seen \in Seq(Of(s))
  BY DEF IsFile
<1>3. i \in Of(s)
  BY <1>1, <1>2, ElementOfSeq, LenProperties DEF Seen, ToSet
<1> QED
  BY <1>1, <1>3 DEF Of

\* An answer loads the file; what is new is of the source, and was not seen.
LEMMA AnswerLoads ==
    ASSUME PollAssumption, PollTyped, NEW p \in Pollers, Answer(p) \/ AnswerFails(p)
    PROVE  /\ Asking(p) /\ IsPoll(poller[p])
           /\ poller' = [poller EXCEPT ![p] = poller'[p]]
           /\ IsPoll(poller'[p]) /\ Loaded(p)' /\ poller'[p].file = entries
           /\ ToSet(poller'[p].new) \subseteq Of(poller[p].source) \ ToSet(poller[p].entry.seen)
<1> DEFINE v == poller[p]  s == v.source  R == Of(s)
<1>1. PICK new, validator :
        /\ Load(p, new, validator)
        /\ new = <<>> \/ new = NewItems(lists[s], v.entry)
  BY DEF Answer, AnswerFails
<1>2. Asking(p)
  BY <1>1 DEF Load, Asking
<1>3. IsPoll(v) /\ v.source \in Names
  BY <1>2 DEF PollTyped, IsPoll, Asking, NoPoll, PollAssumption
<1>4. lists[s] \in Seq(R) /\ IsFile(entries)
  BY <1>3 DEF PollTyped
<1>5. new \in Seq(R) /\ ToSet(new) \subseteq R \ ToSet(v.entry.seen)
  <2>1. CASE new = <<>>
    BY <2>1, NothingListed
  <2>2. CASE new = NewItems(lists[s], v.entry)
    <3>1. /\ new \in Seq(R)
          /\ ToSet(new) \subseteq ToSet(lists[s]) \ ToSet(v.entry.seen)
      BY <1>4, <2>2, NewItemsAreNew
    <3>2. ToSet(lists[s]) \subseteq R
      BY <1>4, ElementOfSeq, LenProperties DEF ToSet
    <3> QED
      BY <3>1, <3>2
  <2> QED
    BY <1>1, <2>1, <2>2
<1> DEFINE w == [stage |-> "loaded", source |-> s, entry |-> Nobody, new |-> new,
                 validator |-> validator, file |-> entries]
<1>6. poller' = [poller EXCEPT ![p] = w]
  BY <1>1 DEF Load
<1>7. poller'[p] = w
  BY <1>6 DEF PollTyped
<1>8. IsPoll(w)
  BY <1>3, <1>4, <1>5 DEF IsPoll
<1>9. ToSet(w.new) \subseteq R \ ToSet(v.entry.seen) /\ w.stage = "loaded" /\ w.file = entries
  BY <1>5
<1> HIDE DEF w, v
<1> QED
  BY <1>2, <1>3, <1>6, <1>7, <1>8, <1>9 DEF Loaded, v

-----------------------------------------------------------------------------
(* Poll: the invariant is inductive.                                       *)

LEMMA PollInitially == ASSUME PollAssumption, Init PROVE PollInv
<1> USE DEF Init
<1>1. IsFile(entries) /\ \A s \in Names : Seen(entries, s) = {}
  BY NothingListed DEF IsFile, Seen
<1>2. PollTyped
  <2>1. \A R : <<>> \in Seq(R)
    BY NothingListed
  <2> QED
    BY <1>1, <2>1, NothingListed DEF PollTyped, IsPoll
<1>3. \A p \in Pollers : ~Loaded(p) /\ ~Asking(p)
  BY DEF Loaded, Asking, NoPoll, PollAssumption
<1> QED
  BY <1>1, <1>2, <1>3, NothingListed
  DEF PollInv, OneThing, KnownItemsWake, ReadingsAccounted, WokenIsSeen, NewIsUnwoken,
      OneWakePerItem, Known, Pollers

\* What asks is typed, and what a poll leaves is.
LEMMA AskIsTyped ==
    ASSUME PollTyped, NEW p \in Pollers, NEW s \in Names, Ask(p, s)
    PROVE  /\ poller' = [poller EXCEPT ![p] = poller'[p]]
           /\ IsPoll(poller'[p]) /\ Asking(p)'
           /\ poller'[p].source = s /\ poller'[p].entry = entries[s]
  BY DEF Ask, NoPoll, IsPoll, PollTyped, IsFile, Asking

LEMMA PollTypeKept ==
    ASSUME PollAssumption, PollInv, [Next]_vars PROVE PollTyped'
<1> USE DEF PollInv
<1>1. CASE BeginPass
  <2>1. todo' \in Seq(Names)
    BY <1>1, OnlyPicks DEF BeginPass, PollAssumption
  <2> QED
    BY <1>1, <2>1 DEF BeginPass, PollTyped, rest
<1>2. CASE PollNext
  <2>1. Head(todo) \in Names
    BY <1>2, HeadAndTail DEF PollNext, PollTyped, OneThing
  <2>2. "daemon" \in Pollers /\ Ask("daemon", Head(todo))
    BY <1>2 DEF PollNext, Pollers
  <2>3. poller' = [poller EXCEPT !["daemon"] = poller'["daemon"]] /\ IsPoll(poller'["daemon"])
    BY <2>1, <2>2, AskIsTyped
  <2> QED
    BY <1>2, <2>3 DEF PollNext, PollTyped, rest
<1>3. CASE Wait \/ HandWait
  <2>1. PICK p \in Pollers : Answer(p) \/ AnswerFails(p)
    BY <1>3 DEF Wait, HandWait, Pollers
  <2>2. poller' = [poller EXCEPT ![p] = poller'[p]] /\ IsPoll(poller'[p])
    BY <2>1, AnswerLoads
  <2>3. UNCHANGED <<lists, entries, wakes, woke, todo>>
    BY <1>3 DEF Wait, HandWait, rest, thread
  <2> QED
    BY <2>2, <2>3 DEF PollTyped
<1>4. CASE Return \/ HandSave
  <2>1. PICK p \in Pollers : Save(p) /\ (wakes' = wakes \/ wakes' = poller[p].new)
    BY <1>4 DEF Return, HandSave, Pollers, thread
  <2>2. /\ poller[p].new \in Seq(Items) /\ IsFile(entries')
        /\ poller' = [poller EXCEPT ![p] = NoPoll]
    BY <2>1, SaveRemembers
  <2>3. UNCHANGED <<lists, woke, todo>>
    BY <1>4 DEF Return, HandSave, rest, thread
  <2> QED
    BY <2>1, <2>2, <2>3 DEF PollTyped, IsPoll
<1>5. CASE StoreWake
  <2>1. wakes' = Tail(wakes) /\ Head(wakes) \in Items /\ wakes' \in Seq(Items)
    BY <1>5, HeadAndTail DEF StoreWake, PollTyped
  <2> QED
    BY <1>5, <2>1 DEF StoreWake, PollTyped, rest
<1>6. CASE Finish
  <2>1. todo' \in Seq(Names)
    BY <1>6, HeadAndTail DEF Finish, PollTyped, OneThing
  <2> QED
    BY <1>6, <2>1 DEF Finish, PollTyped, rest
<1>7. CASE Raise \/ HandDies \/ Crash
  <2>1. \E p \in Pollers : poller' = [poller EXCEPT ![p] = NoPoll]
    BY <1>7 DEF Raise, HandDies, Crash, Pollers
  <2>2. UNCHANGED <<lists, entries, woke>>
        /\ wakes' \in {wakes, <<>>} /\ todo' \in {todo, <<>>}
    BY <1>7 DEF Raise, HandDies, Crash, rest, thread
  <2>3. <<>> \in Seq(Items) /\ <<>> \in Seq(Names)
    BY NothingListed
  <2> QED
    BY <2>1, <2>2, <2>3 DEF PollTyped, IsPoll
<1>8. ASSUME NEW s \in Names, HandAsk(s) PROVE PollTyped'
  <2>1. "hand" \in Pollers /\ Ask("hand", s)
    BY <1>8 DEF HandAsk, Pollers
  <2>2. poller' = [poller EXCEPT !["hand"] = poller'["hand"]] /\ IsPoll(poller'["hand"])
    BY <2>1, AskIsTyped
  <2> QED
    BY <1>8, <2>2 DEF HandAsk, PollTyped, thread, history
<1>9. ASSUME NEW i \in Items, Publish(i) PROVE PollTyped'
  <2> DEFINE s == Origin[i]
  <2>1. s \in Names /\ i \in Of(s) /\ lists[s] \in Seq(Of(s))
    BY DEF PollAssumption, PollTyped, Of
  <2>2. PICK l \in {<<i>> \o lists[s], Append(lists[s], i)} : lists' = [lists EXCEPT ![s] = l]
    BY <1>9 DEF Publish
  <2>3. l \in Seq(Of(s))
    BY <2>1, OneMore
  <2>4. UNCHANGED <<entries, poller, wakes, woke, todo>>
    BY <1>9 DEF Publish, thread, history
  <2> HIDE DEF s
  <2> QED
    BY <2>1, <2>2, <2>3, <2>4 DEF PollTyped
<1>10. ASSUME NEW i \in Items, Delist(i) PROVE PollTyped'
  <2> DEFINE s == Origin[i]  l == Only(lists[s], Items \ {i})
  <2>1. s \in Names /\ lists[s] \in Seq(Of(s))
    BY DEF PollTyped, PollAssumption
  <2>2. l \in Seq(Of(s))
    BY <2>1, OnlyPicks
  <2>3. lists' = [lists EXCEPT ![s] = l]
    BY <1>10, <2>1 DEF Delist, PollTyped
  <2> HIDE DEF s, l
  <2> QED
    BY <1>10, <2>1, <2>2, <2>3 DEF Delist, PollTyped, thread, history
<1>11. CASE Handle \/ Restart \/ DiskChanges \/ UNCHANGED vars
  BY <1>11 DEF Handle, Handled, Restart, DiskChanges, vars, PollTyped, rest, thread, history
<1> QED
  BY <1>1, <1>2, <1>3, <1>4, <1>5, <1>6, <1>7, <1>8, <1>9, <1>10, <1>11 DEF Next, Thread

LEMMA OneThingKept ==
    ASSUME PollAssumption, PollInv, [Next]_vars PROVE OneThing'
<1> USE DEF PollInv, OneThing
<1>1. poller = [p \in Pollers |-> poller[p]] /\ "daemon" \in Pollers /\ "hand" \in Pollers
  BY DEF PollTyped, Pollers
<1>2. CASE BeginPass \/ PollNext \/ StoreWake \/ Finish
  BY <1>1, <1>2 DEF BeginPass, PollNext, Ask, StoreWake, Finish, rest
<1>3. CASE Wait
  <2>1. pc = "pass"
    BY <1>3, <1>1, AnswerLoads DEF Wait, Asking, NoPoll, PollAssumption
  <2> QED
    BY <1>3, <2>1 DEF Wait, thread
<1>4. CASE Return
  <2>1. pc = "pass" /\ poller' = [poller EXCEPT !["daemon"] = NoPoll]
    BY <1>1, <1>4, SaveRemembers DEF Return
  <2> QED
    BY <1>1, <1>4, <2>1 DEF Return
<1>5. CASE Raise \/ Crash
  BY <1>1, <1>5 DEF Raise, Crash
<1>6. CASE Handle \/ Restart
  BY <1>6 DEF Handle, Handled, Restart, rest
<1>7. CASE HandWait \/ HandSave \/ HandDies \/ \E s \in Names : HandAsk(s)
  BY <1>1, <1>7 DEF HandWait, HandSave, HandDies, HandAsk, Ask, Answer, AnswerFails, Load,
                    Save, thread, rest
<1>8. CASE DiskChanges \/ (\E i \in Items : Publish(i) \/ Delist(i)) \/ UNCHANGED vars
  BY <1>8 DEF DiskChanges, Publish, Delist, vars, thread
<1> QED
  BY <1>2, <1>3, <1>4, <1>5, <1>6, <1>7, <1>8 DEF Next, Thread

\* Every save empties the hand that saves, and the thread holds no wakes then.
LEMMA SaveOf ==
    ASSUME PollAssumption, PollInv, Return \/ HandSave
    PROVE  \E p \in Pollers :
              /\ Save(p) /\ UNCHANGED woke /\ dropped \subseteq dropped'
              /\ ToSet(wakes) \subseteq ToSet(wakes')
              /\ p = "daemon" => wakes' = poller[p].new
              /\ p = "hand" => wakes' = wakes /\ ToSet(poller[p].new) \subseteq dropped'
<1>1. CASE Return
  <2>1. "daemon" \in Pollers /\ Save("daemon")
    BY <1>1 DEF Return, Pollers
  <2>2. wakes = <<>>
    BY <2>1, SaveRemembers DEF PollInv, OneThing
  <2> QED
    BY <1>1, <2>1, <2>2, NothingListed DEF Return, rest
<1>2. CASE HandSave
  BY <1>2 DEF HandSave, Pollers, thread, rest
<1> QED
  BY <1>1, <1>2

\* What is accounted for stays so.
LEMMA AccountedStays ==
    ASSUME PollAssumption, PollInv, [Next]_vars, NEW i \in Items, Accounted(i) PROVE Accounted(i)'
<1> USE DEF PollInv, Accounted
<1>1. CASE Return \/ HandSave
  BY <1>1, SaveOf
<1>2. CASE StoreWake
  <2>1. /\ Head(wakes) \in Items /\ wakes' = Tail(wakes)
        /\ ToSet(wakes) = {Head(wakes)} \cup ToSet(Tail(wakes))
    BY <1>2, HeadAndTail DEF StoreWake, PollTyped
  <2>2. woke' = [woke EXCEPT ![Head(wakes)] = @ + 1] /\ UNCHANGED dropped
    BY <1>2 DEF StoreWake
  <2>3. woke \in [Items -> Nat]
    BY DEF PollTyped
  <2>4. CASE i = Head(wakes)
    BY <2>1, <2>2, <2>3, <2>4
  <2>5. CASE i # Head(wakes)
    BY <2>1, <2>2, <2>3, <2>5
  <2> QED
    BY <2>4, <2>5
<1>3. CASE Raise \/ Crash
  BY <1>3 DEF Raise, Crash, rest
<1>4. UNCHANGED <<woke, wakes, dropped>> \/ StoreWake \/ Return \/ Raise \/ HandSave \/ Crash
  BY DEF Next, Thread, BeginPass, PollNext, Wait, Finish, Handle, Handled, Restart, HandWait,
         HandDies, HandAsk, DiskChanges, Publish, Delist, vars, thread, history, rest
<1> QED
  BY <1>1, <1>2, <1>3, <1>4

LEMMA OwnItems == ASSUME NEW f, IsFile(f) PROVE Known(f) \subseteq Items
<1> SUFFICES ASSUME NEW s \in Names PROVE Seen(f, s) \subseteq Items
  BY DEF Known
<1>1. f[s].seen \in Seq(Of(s))
  BY DEF IsFile
<1> QED
  BY <1>1, ElementOfSeq, LenProperties DEF Seen, ToSet, Of

LEMMA KnownKept ==
    ASSUME PollAssumption, PollInv, [Next]_vars PROVE KnownItemsWake'
<1>1. \A i \in Items : Accounted(i) => Accounted(i)'
  BY AccountedStays
<1>2. \A i \in Known(entries) : i \in Items /\ Accounted(i)
  BY OwnItems DEF PollInv, PollTyped, KnownItemsWake, Accounted
<1>3. CASE UNCHANGED entries
  BY <1>1, <1>2, <1>3 DEF KnownItemsWake, Accounted, Known, Seen
<1>4. CASE Return \/ HandSave
  <2>1. PICK p \in Pollers :
              /\ Save(p)
              /\ p = "daemon" => wakes' = poller[p].new
              /\ p = "hand" => ToSet(poller[p].new) \subseteq dropped'
    BY <1>4, SaveOf
  <2>2. /\ Loaded(p) /\ IsFile(entries') /\ IsPoll(poller[p])
        /\ Known(entries') \subseteq Known(poller[p].file) \cup ToSet(poller[p].new)
    BY <2>1, SaveRemembers DEF PollInv
  <2>3. IsFile(poller[p].file)
    BY <2>2 DEF IsPoll, Loaded, NoPoll, PollAssumption
  <2>4. \A i \in Known(poller[p].file) : Accounted(i)'
    BY <1>1, <2>2, <2>3, OwnItems DEF PollInv, ReadingsAccounted
  <2>5. \A i \in ToSet(poller[p].new) : Accounted(i)'
    BY <2>1 DEF Accounted, Pollers
  <2> QED
    BY <2>2, <2>4, <2>5 DEF KnownItemsWake, Accounted
<1>5. UNCHANGED entries \/ Return \/ HandSave
  BY DEF Next, Thread, BeginPass, PollNext, Wait, StoreWake, Finish, Raise, Handle, Handled, Restart,
         HandWait, HandDies, HandAsk, DiskChanges, Crash, Publish, Delist, vars
<1> QED
  BY <1>3, <1>4, <1>5

\* A poll that holds a reading held it before, or reads the file now.
LEMMA ReadingsKept ==
    ASSUME PollAssumption, PollInv, [Next]_vars PROVE ReadingsAccounted'
<1>1. \A i \in Items : Accounted(i) => Accounted(i)'
  BY AccountedStays
<1>2. \A i \in Known(entries) : Accounted(i)'
  BY <1>1, OwnItems DEF PollInv, PollTyped, KnownItemsWake, Accounted
<1>3. ASSUME NEW q \in Pollers, Loaded(q) PROVE \A i \in Known(poller[q].file) : Accounted(i)'
  <2>1. IsFile(poller[q].file)
    BY <1>3 DEF PollInv, PollTyped, IsPoll, Loaded, NoPoll, PollAssumption
  <2> QED
    BY <1>1, <1>3, <2>1, OwnItems DEF PollInv, ReadingsAccounted
<1>4. CASE UNCHANGED poller
  BY <1>3, <1>4 DEF ReadingsAccounted, Known, Seen, Loaded
<1>5. CASE \E p \in Pollers : poller' = [poller EXCEPT ![p] = NoPoll]
  <2>1. PICK p \in Pollers : poller' = [poller EXCEPT ![p] = NoPoll]
    BY <1>5
  <2>2. \A q \in Pollers : Loaded(q)' => Loaded(q) /\ poller'[q] = poller[q]
    BY <2>1 DEF Loaded, NoPoll, PollAssumption, PollInv, PollTyped
  <2> QED
    BY <1>3, <2>2 DEF ReadingsAccounted, Known, Seen
<1>6. CASE \E p \in Pollers, s \in Names : Ask(p, s)
  <2>1. PICK p \in Pollers, s \in Names : Ask(p, s)
    BY <1>6
  <2>2. poller' = [poller EXCEPT ![p] = poller'[p]] /\ Asking(p)'
    BY <2>1, AskIsTyped DEF PollInv
  <2>3. \A q \in Pollers : Loaded(q)' => Loaded(q) /\ poller'[q] = poller[q]
    BY <2>2 DEF Loaded, Asking, PollInv, PollTyped
  <2> QED
    BY <1>3, <2>3 DEF ReadingsAccounted, Known, Seen
<1>7. CASE Wait \/ HandWait
  <2>1. PICK p \in Pollers : Answer(p) \/ AnswerFails(p)
    BY <1>7 DEF Wait, HandWait, Pollers
  <2>2. poller' = [poller EXCEPT ![p] = poller'[p]] /\ poller'[p].file = entries
    BY <2>1, AnswerLoads DEF PollInv
  <2>3. \A q \in Pollers : Loaded(q)' =>
            (Loaded(q) /\ poller'[q] = poller[q]) \/ poller'[q].file = entries
    BY <2>2 DEF Loaded, PollInv, PollTyped
  <2> QED
    BY <1>2, <1>3, <2>3 DEF ReadingsAccounted, Known, Seen
<1>8. CASE Return \/ HandSave \/ Raise \/ HandDies \/ Crash
  BY <1>5, <1>8 DEF Return, HandSave, Save, Raise, HandDies, Crash, Pollers
<1>9. CASE PollNext \/ \E s \in Names : HandAsk(s)
  <2>1. "daemon" \in Pollers /\ "hand" \in Pollers
    BY DEF Pollers
  <2>2. PollNext => Head(todo) \in Names
    BY HeadAndTail DEF PollNext, PollInv, PollTyped, OneThing
  <2> QED
    BY <1>6, <1>9, <2>1, <2>2 DEF PollNext, HandAsk
<1>10. CASE BeginPass \/ StoreWake \/ Finish \/ Handle \/ Restart
  BY <1>4, <1>10 DEF BeginPass, StoreWake, Finish, Handle, Handled, Restart
<1>11. CASE DiskChanges \/ (\E i \in Items : Publish(i) \/ Delist(i)) \/ UNCHANGED vars
  BY <1>4, <1>11 DEF DiskChanges, Publish, Delist, vars
<1> QED
  BY <1>7, <1>8, <1>9, <1>10, <1>11 DEF Next, Thread

LEMMA WokenKept ==
    ASSUME PollAssumption, PollInv, [Next]_vars PROVE WokenIsSeen'
<1> DEFINE IsGiven(i) == woke[i] > 0 \/ i \in ToSet(wakes)
<1>1. \A i \in Items \ forgotten : IsGiven(i) => i \in Seen(entries, Origin[i])
  BY DEF PollInv, WokenIsSeen
<1>2. CASE Return \/ HandSave
  <2>1. PICK p \in Pollers : /\ Save(p) /\ UNCHANGED woke
                             /\ wakes' = wakes \/ wakes' = poller[p].new
    BY <1>2, SaveOf DEF Pollers
  <2>2. IsFile(entries') /\ IsFile(entries)
    BY <2>1, SaveRemembers DEF PollInv, PollTyped
  <2>3. forgotten' = forgotten \cup (Known(entries) \ Known(entries'))
                               \cup {i \in ToSet(poller[p].new) : i \notin Known(entries')}
    BY <2>1 DEF Save
  <2> SUFFICES ASSUME NEW i \in Items, i \notin forgotten',
                      woke'[i] > 0 \/ i \in ToSet(wakes')
               PROVE  i \in Seen(entries', Origin[i])
    BY DEF WokenIsSeen
  <2>4. IsGiven(i) \/ i \in ToSet(poller[p].new)
    BY <2>1
  <2>5. ASSUME IsGiven(i) PROVE i \in Known(entries)
    <3>1. i \in Seen(entries, Origin[i])
      BY <1>1, <2>3, <2>5
    <3>2. Origin[i] \in Names
      BY DEF PollAssumption
    <3> QED
      BY <3>1, <3>2 DEF Known
  <2>6. i \in Known(entries')
    BY <2>3, <2>4, <2>5
  <2> QED
    BY <2>2, <2>6, KnownAtItsSource
<1>3. CASE UNCHANGED <<entries, forgotten>> /\ \A i \in Items : IsGiven(i)' => IsGiven(i)
  BY <1>1, <1>3 DEF WokenIsSeen, Seen
<1>4. CASE StoreWake
  <2>1. /\ Head(wakes) \in Items /\ wakes' = Tail(wakes)
        /\ ToSet(wakes) = {Head(wakes)} \cup ToSet(Tail(wakes))
    BY <1>4, HeadAndTail DEF StoreWake, PollInv, PollTyped
  <2>2. woke' = [woke EXCEPT ![Head(wakes)] = @ + 1] /\ UNCHANGED <<entries, forgotten>>
    BY <1>4 DEF StoreWake
  <2>3. \A i \in Items : IsGiven(i)' => IsGiven(i)
    BY <2>1, <2>2 DEF PollInv, PollTyped
  <2> QED
    BY <1>3, <2>2, <2>3
<1>5. CASE Raise \/ Crash
  <2>1. wakes' = <<>> /\ UNCHANGED <<entries, forgotten, woke>>
    BY <1>5 DEF Raise, Crash
  <2> QED
    BY <1>3, <2>1, NothingListed
<1>6. \/ UNCHANGED <<woke, wakes, entries, forgotten>>
      \/ StoreWake \/ Return \/ Raise \/ HandSave \/ Crash
  BY DEF Next, Thread, BeginPass, PollNext, Wait, Finish, Handle, Handled, Restart, HandWait,
         HandDies, HandAsk, DiskChanges, Publish, Delist, vars, thread, history, rest
<1> QED
  BY <1>2, <1>3, <1>4, <1>5, <1>6

LEMMA NewKept ==
    ASSUME PollAssumption, PollInv, [Next]_vars PROVE NewIsUnwoken'
<1> DEFINE d == poller["daemon"]
           AskedUnwoken ==
               \A i \in Of(d.source) \ forgotten : woke[i] > 0 => i \in ToSet(d.entry.seen)
           NewUnwoken == /\ \A i \in ToSet(d.new) \ forgotten : woke[i] = 0
                         /\ Repeats(d.new) \subseteq repeated
           WakesUnwoken == /\ \A i \in ToSet(wakes) \ (forgotten \cup repeated) : woke[i] = 0
                           /\ Repeats(wakes) \subseteq repeated
<1>1. /\ Asking("daemon") => AskedUnwoken
      /\ Loaded("daemon") => NewUnwoken
      /\ WakesUnwoken
  BY DEF PollInv, NewIsUnwoken
<1>2. SUFFICES /\ Asking("daemon")' => AskedUnwoken'
               /\ Loaded("daemon")' => NewUnwoken'
               /\ WakesUnwoken'
  BY DEF NewIsUnwoken
<1>3. /\ poller = [p \in Pollers |-> poller[p]] /\ "daemon" \in Pollers /\ "hand" \in Pollers
      /\ NoPoll.stage \notin {"asked", "loaded"}
  BY DEF PollInv, PollTyped, Pollers, NoPoll, PollAssumption
<1>4. ASSUME UNCHANGED woke, forgotten \subseteq forgotten', repeated \subseteq repeated',
             wakes' = wakes \/ wakes' = <<>>, d' = d \/ d' = NoPoll
      PROVE  /\ Asking("daemon")' => AskedUnwoken'
             /\ Loaded("daemon")' => NewUnwoken'
             /\ WakesUnwoken'
  <2>1. WakesUnwoken'
    BY <1>1, <1>4, NothingListed
  <2>2. CASE d' = NoPoll
    BY <1>3, <2>1, <2>2 DEF Asking, Loaded
  <2>3. CASE d' = d
    BY <1>1, <1>4, <2>1, <2>3 DEF Asking, Loaded
  <2> QED
    BY <1>4, <2>2, <2>3
<1>5. CASE PollNext
  <2>1. Head(todo) \in Names
    BY <1>5, HeadAndTail DEF PollNext, PollInv, PollTyped, OneThing
  <2>2. Asking("daemon")' /\ d'.source = Head(todo) /\ d'.entry = entries[Head(todo)]
    BY <1>3, <1>5, <2>1, AskIsTyped DEF PollNext, PollInv
  <2>3. UNCHANGED <<woke, wakes, forgotten, repeated>>
    BY <1>5 DEF PollNext
  <2>4. AskedUnwoken'
    <3> SUFFICES ASSUME NEW i \in Of(Head(todo)), i \notin forgotten, woke[i] > 0
                 PROVE  i \in ToSet(entries[Head(todo)].seen)
      BY <2>2, <2>3
    <3> QED
      BY DEF PollInv, WokenIsSeen, Seen, Of
  <2>5. WakesUnwoken'
    BY <1>1, <2>3
  <2>6. ~Loaded("daemon")'
    BY <2>2 DEF Asking, Loaded
  <2> QED
    BY <2>4, <2>5, <2>6
<1>6. CASE Wait
  <2>1. /\ Asking("daemon") /\ Loaded("daemon")'
        /\ ToSet(d'.new) \subseteq Of(d.source) \ ToSet(d.entry.seen)
    BY <1>3, <1>6, AnswerLoads DEF Wait, PollInv
  <2>2. /\ UNCHANGED <<woke, wakes, forgotten>>
        /\ repeated \subseteq repeated' /\ Repeats(d'.new) \subseteq repeated'
    BY <1>6 DEF Wait, thread
  <2>3. NewUnwoken'
    <3> SUFFICES ASSUME NEW i \in ToSet(d'.new), i \notin forgotten PROVE woke[i] = 0
      BY <2>2
    <3>1. i \in Of(d.source) /\ i \notin ToSet(d.entry.seen)
      BY <2>1
    <3>2. ~(woke[i] > 0)
      BY <1>1, <2>1, <3>1
    <3> QED
      BY <3>1, <3>2 DEF PollInv, PollTyped, Of
  <2>4. WakesUnwoken'
    BY <1>1, <2>2
  <2>5. ~Asking("daemon")'
    BY <2>1 DEF Asking, Loaded
  <2> QED
    BY <2>3, <2>4, <2>5
<1>7. CASE Return
  <2>1. Loaded("daemon") /\ d' = NoPoll
    BY <1>3, <1>7, SaveRemembers DEF Return, PollInv
  <2>2. wakes' = d.new /\ UNCHANGED <<woke, repeated>> /\ forgotten \subseteq forgotten'
    BY <1>7 DEF Return, Save
  <2> QED
    BY <1>1, <1>3, <2>1, <2>2 DEF Asking, Loaded
<1>8. CASE StoreWake
  <2>1. /\ Head(wakes) \in Items /\ ToSet(wakes) = {Head(wakes)} \cup ToSet(Tail(wakes))
        /\ Head(wakes) \in ToSet(Tail(wakes)) => Head(wakes) \in Repeats(wakes)
        /\ Repeats(Tail(wakes)) \subseteq Repeats(wakes)
    BY <1>8, HeadAndTail DEF StoreWake, PollInv, PollTyped
  <2>2. /\ woke' = [woke EXCEPT ![Head(wakes)] = @ + 1] /\ wakes' = Tail(wakes)
        /\ UNCHANGED <<forgotten, repeated, poller>>
    BY <1>8 DEF StoreWake
  <2>3. d = NoPoll
    BY <1>8 DEF StoreWake, PollInv, OneThing
  <2>4. WakesUnwoken'
    BY <1>1, <2>1, <2>2 DEF PollInv, PollTyped
  <2> QED
    BY <1>3, <2>2, <2>3, <2>4 DEF Asking, Loaded
<1>9. CASE HandWait \/ HandSave \/ HandDies \/ \E s \in Names : HandAsk(s)
  <2>1. poller' = [poller EXCEPT !["hand"] = poller'["hand"]]
    BY <1>3, <1>9 DEF HandWait, HandSave, HandDies, HandAsk, Ask, Answer, AnswerFails, Load, Save
  <2>2. d' = d
    BY <1>3, <2>1
  <2>3. /\ UNCHANGED <<woke, wakes>> /\ forgotten \subseteq forgotten'
        /\ repeated \subseteq repeated'
    BY <1>9 DEF HandWait, HandSave, HandDies, HandAsk, Save, thread, history
  <2> QED
    BY <1>4, <2>2, <2>3
<1>10. CASE Raise \/ Crash
  <2>1. d' = NoPoll /\ UNCHANGED <<woke, forgotten, repeated>> /\ wakes' = <<>>
    BY <1>3, <1>10 DEF Raise, Crash
  <2> QED
    BY <1>4, <2>1
<1>11. CASE BeginPass \/ Finish \/ Handle \/ Restart
  BY <1>4, <1>11 DEF BeginPass, Finish, Handle, Handled, Restart
<1>12. CASE DiskChanges \/ (\E i \in Items : Publish(i) \/ Delist(i)) \/ UNCHANGED vars
  BY <1>4, <1>12 DEF DiskChanges, Publish, Delist, vars, thread, history
<1> QED
  BY <1>5, <1>6, <1>7, <1>8, <1>9, <1>10, <1>11, <1>12 DEF Next, Thread

LEMMA OnceKept ==
    ASSUME PollAssumption, PollInv, [Next]_vars PROVE OneWakePerItem'
<1>1. forgotten \subseteq forgotten' /\ repeated \subseteq repeated'
  BY DEF Next, Thread, BeginPass, PollNext, Wait, Return, StoreWake, Finish, Raise, Handle, Handled,
         Restart, HandWait, HandSave, HandDies, HandAsk, Save, DiskChanges, Crash, Publish,
         Delist, vars, history
<1>2. CASE UNCHANGED woke
  BY <1>1, <1>2 DEF PollInv, OneWakePerItem
<1>3. CASE StoreWake
  <2>1. Head(wakes) \in Items /\ Head(wakes) \in ToSet(wakes)
    BY <1>3, HeadAndTail DEF StoreWake, PollInv, PollTyped
  <2>2. woke[Head(wakes)] = 0 \/ Head(wakes) \in forgotten \cup repeated
    BY <2>1 DEF PollInv, NewIsUnwoken
  <2>3. woke' = [woke EXCEPT ![Head(wakes)] = @ + 1]
    BY <1>3 DEF StoreWake
  <2> QED
    BY <1>1, <2>2, <2>3 DEF PollInv, PollTyped, OneWakePerItem
<1>4. UNCHANGED woke \/ StoreWake
  BY DEF Next, Thread, BeginPass, PollNext, Wait, Return, Finish, Raise, Handle, Handled, Restart,
         HandWait, HandSave, HandDies, HandAsk, DiskChanges, Crash, Publish, Delist, vars,
         history, rest
<1> QED
  BY <1>2, <1>3, <1>4

LEMMA PollInvariant == ASSUME PollAssumption PROVE Spec => []PollInv
<1>1. Init => PollInv
  BY PollInitially
<1>2. PollInv /\ [Next]_vars => PollInv'
  BY PollTypeKept, OneThingKept, KnownKept, ReadingsKept, WokenKept, NewKept, OnceKept DEF PollInv
<1> QED
  BY <1>1, <1>2, PTL DEF Spec

\* An item is woken for once, however often it is read, across crashes, failed
\* writes and polls by hand, unless its id left the file or one answer listed it
\* twice before it was seen (poll, seen, remember).
THEOREM ItemsWakeOnce == Spec => []OneWakePerItem
<1>1. PollInv => OneWakePerItem
  BY DEF PollInv
<1> QED
  BY <1>1, PollAssumption, PollInvariant, PTL

\* An item that is remembered has its wake or will, or lost it to a crash, a
\* failed write or `bothy poll` (poll_once, cmd_poll).
THEOREM RememberedItemsWake == Spec => []KnownItemsWake
<1>1. PollInv => KnownItemsWake
  BY DEF PollInv
<1> QED
  BY <1>1, PollAssumption, PollInvariant, PTL

-----------------------------------------------------------------------------
(* Schedule: the invariant.                                                *)

\* A reading of jobs.json: a job that is not there is off, and was never fired.
IsJobsFile(f) ==
    /\ DOMAIN f = Jobs /\ f = [j \in Jobs |-> f[j]]
    /\ \A j \in Jobs : f[j].last \in Nat \cup {Never} /\ (f[j].on => f[j].here)

\* The files that are held, and what is known of time.
ScheduleTyped ==
    /\ now \in Nat
    /\ IsJobsFile(jobs)
    /\ operator # Idle => IsJobsFile(operator.copy) /\ operator.job \in Jobs
    /\ pc \in {"log", "mark", "save"} => firing \in Jobs
    /\ ready \subseteq Jobs
    /\ wokeAt \in [Jobs -> Nat \cup {Never}] /\ late \in [Jobs -> Int]
    /\ \A j \in Jobs : wokeAt[j] <= now
    /\ pc \notin {"pass", "log", "mark", "save"} => ready = {}

\* What mark_fired has read is of a time after the wake, and has the job.
ReadingFollows ==
    pc = "save" =>
        /\ IsJobsFile(read.copy) /\ read.copy[firing].here
        /\ read.at \in Nat /\ wokeAt[firing] <= read.at

\* The job in hand was fired, and waits for its mark.
BeingMarked(j) == pc \in {"log", "mark", "save"} /\ firing = j

\* A job's last wake is on record in the file, or is about to be.
WakesOnRecord ==
    \A j \in Jobs \ excused :
        (jobs[j].here /\ wokeAt[j] # Never)
            => BeingMarked(j) \/ (jobs[j].last # Never /\ jobs[j].last >= wokeAt[j])

\* What a pass found due was found at its spacing.
FoundSpaced ==
    \A j \in ready \ excused : wokeAt[j] # Never => now - wokeAt[j] >= Spacing[j]

\* A removed job is not in the file, and its one wake is the one found before.
RemovedStaysAway ==
    \A j \in Jobs :
        /\ late[j] # Never => ~jobs[j].here
        /\ late[j] + (IF j \in ready THEN 1 ELSE 0) <= 1

ScheduleInv == ScheduleTyped /\ ReadingFollows /\ WakesOnRecord /\ FoundSpaced /\ RemovedStaysAway

-----------------------------------------------------------------------------
(* Schedule: the invariant is inductive.                                   *)

LEMMA ScheduleInitially == ASSUME ScheduleAssumption, ScheduleInit PROVE ScheduleInv
<1> USE DEF ScheduleInit, NoFile, Absent, Never
<1>1. IsJobsFile(jobs)
  BY DEF IsJobsFile
<1>2. ScheduleTyped
  BY <1>1 DEF ScheduleTyped, Idle
<1> QED
  BY <1>2 DEF ScheduleInv, ReadingFollows, WakesOnRecord, FoundSpaced, RemovedStaysAway

\* The steps that fire, mark, edit and find; the others leave the file, the
\* wakes and what is known of them alone.
LEMMA ScheduleTypeKept ==
    ASSUME ScheduleAssumption, ScheduleInv, [ScheduleNext]_scheduleVars PROVE ScheduleTyped'
<1> USE DEF ScheduleInv, ScheduleTyped, ScheduleAssumption, file, daemonVars, To,
        NewCur, Never
<1>1. CASE ScheduleBegin
  BY <1>1 DEF ScheduleBegin, Found
<1>2. CASE ScheduleEnd \/ Log \/ MarkRead \/ WriteFails \/ ScheduleHandle
             \/ ScheduleCrash \/ ScheduleRestart
  BY <1>2 DEF ScheduleEnd, Log, MarkRead, WriteFails, ScheduleRaise, ScheduleHandle,
              Handled, ScheduleCrash, ScheduleRestart
<1>3. ASSUME NEW j \in Jobs, Fire(j) PROVE ScheduleTyped'
  BY <1>3 DEF Fire
<1>4. ASSUME NEW j \in Jobs, Refuse(j) PROVE ScheduleTyped'
  BY <1>4 DEF Refuse
<1>5. CASE MarkSave
  <2>1. IsJobsFile(jobs')
    BY <1>5, ZenonT(60) DEF MarkSave, ReadingFollows, IsJobsFile, Fired
  <2> QED
    BY <1>5, <2>1 DEF MarkSave
<1>6. CASE OpWrite
  <2>1. IsJobsFile(jobs')
    BY <1>6, ZenonT(60) DEF OpWrite, IsJobsFile, Edited, Absent
  <2> QED
    BY <1>6, <2>1 DEF OpWrite
<1>7. ASSUME NEW j \in Jobs, NEW act, OpRead(j, act) PROVE ScheduleTyped'
  BY <1>7 DEF OpRead
<1>8. CASE OpFails \/ Tick \/ DiskFails \/ DiskRecovers \/ UNCHANGED scheduleVars
  BY <1>8 DEF OpFails, Tick, DiskFails, DiskRecovers, scheduleVars
<1> QED
  BY <1>1, <1>2, <1>3, <1>4, <1>5, <1>6, <1>7, <1>8 DEF ScheduleNext, ScheduleThread

LEMMA ReadingKept ==
    ASSUME ScheduleAssumption, ScheduleInv, [ScheduleNext]_scheduleVars PROVE ReadingFollows'
<1> USE DEF ScheduleInv, ScheduleTyped, ReadingFollows, file, daemonVars, To, NewCur,
        Never
<1>1. CASE ScheduleBegin \/ ScheduleEnd \/ Log \/ MarkSave \/ WriteFails \/ ScheduleHandle
        \/ ScheduleCrash \/ ScheduleRestart
  BY <1>1 DEF ScheduleBegin, ScheduleEnd, Log, MarkSave, WriteFails, ScheduleRaise, ScheduleHandle, Handled,
       ScheduleCrash, ScheduleRestart
<1>2. CASE MarkRead
  BY <1>2 DEF MarkRead
<1>3. ASSUME NEW j \in Jobs, Fire(j) \/ Refuse(j) PROVE ReadingFollows'
  BY <1>3 DEF Fire, Refuse
<1>4. ASSUME NEW j \in Jobs, NEW act, OpRead(j, act) PROVE ReadingFollows'
  BY <1>4 DEF OpRead
<1>5. CASE OpWrite \/ OpFails \/ Tick \/ DiskFails \/ DiskRecovers \/ UNCHANGED scheduleVars
  BY <1>5 DEF OpWrite, OpFails, Tick, DiskFails, DiskRecovers, scheduleVars
<1> QED
  BY <1>1, <1>2, <1>3, <1>4, <1>5 DEF ScheduleNext, ScheduleThread

LEMMA RecordKept ==
    ASSUME ScheduleAssumption, ScheduleInv, [ScheduleNext]_scheduleVars PROVE WakesOnRecord'
<1> USE DEF ScheduleInv, ScheduleTyped, WakesOnRecord, BeingMarked, file, daemonVars, To,
        NewCur, Never
<1>1. CASE ScheduleBegin \/ ScheduleEnd \/ Log \/ ScheduleHandle \/ ScheduleRestart
  BY <1>1 DEF ScheduleBegin, ScheduleEnd, Log, ScheduleHandle, Handled, ScheduleRestart
<1>2. CASE MarkRead
  BY <1>2 DEF MarkRead
<1>3. CASE WriteFails \/ ScheduleCrash
  BY <1>3 DEF WriteFails, ScheduleRaise, ScheduleCrash
<1>4. ASSUME NEW j \in Jobs, Fire(j) PROVE WakesOnRecord'
  BY <1>4 DEF Fire
<1>5. ASSUME NEW j \in Jobs, Refuse(j) PROVE WakesOnRecord'
  BY <1>5 DEF Refuse
<1>6. CASE MarkSave
  BY <1>6 DEF MarkSave, ReadingFollows, IsJobsFile, Fired, Undone
<1>7. CASE OpWrite
  BY <1>7 DEF OpWrite, IsJobsFile, Undone
<1>8. ASSUME NEW j \in Jobs, NEW act, OpRead(j, act) PROVE WakesOnRecord'
  BY <1>8 DEF OpRead
<1>9. CASE OpFails \/ Tick \/ DiskFails \/ DiskRecovers \/ UNCHANGED scheduleVars
  BY <1>9 DEF OpFails, Tick, DiskFails, DiskRecovers, scheduleVars
<1> QED
  BY <1>1, <1>2, <1>3, <1>4, <1>5, <1>6, <1>7, <1>8, <1>9 DEF ScheduleNext, ScheduleThread

\* A pass begins with no job in hand, so what is due has its last wake on record.
LEMMA FoundKept ==
    ASSUME ScheduleAssumption, ScheduleInv, [ScheduleNext]_scheduleVars PROVE FoundSpaced'
<1> USE DEF ScheduleInv, ScheduleTyped, FoundSpaced, ScheduleAssumption, file, daemonVars,
        To, NewCur, Never
<1>1. CASE ScheduleBegin
  <2>1. ready' = {} \/ ready' = {j \in Jobs : Due(j)}
    BY <1>1 DEF ScheduleBegin, Found
  <2>2. ASSUME NEW j \in Jobs, Due(j), j \notin excused, wokeAt[j] # Never
        PROVE  now - wokeAt[j] >= Spacing[j]
    <3>1. jobs[j].here /\ jobs[j].last \in Nat \cup {Never}
      BY <2>2 DEF Due, Pending, IsJobsFile
    <3>2. jobs[j].last # Never /\ jobs[j].last >= wokeAt[j]
      BY <1>1, <2>2, <3>1 DEF WakesOnRecord, BeingMarked, ScheduleBegin
    <3>3. now - jobs[j].last >= Spacing[j]
      BY <2>2, <3>2 DEF Due, SpacedEnough
    <3> QED
      BY <2>2, <3>1, <3>2, <3>3
  <2>3. UNCHANGED <<now, wokeAt, excused>>
    BY <1>1 DEF ScheduleBegin
  <2> QED
    BY <2>1, <2>2, <2>3
<1>2. CASE ScheduleEnd \/ Log \/ MarkRead \/ ScheduleHandle \/ ScheduleRestart
  BY <1>2 DEF ScheduleEnd, Log, MarkRead, ScheduleHandle, Handled, ScheduleRestart
<1>3. CASE WriteFails \/ ScheduleCrash
  BY <1>3 DEF WriteFails, ScheduleRaise, ScheduleCrash
<1>4. ASSUME NEW j \in Jobs, Fire(j) \/ Refuse(j) PROVE FoundSpaced'
  BY <1>4 DEF Fire, Refuse
<1>5. CASE MarkSave \/ OpWrite
  BY <1>5 DEF MarkSave, OpWrite
<1>6. ASSUME NEW j \in Jobs, NEW act, OpRead(j, act) PROVE FoundSpaced'
  BY <1>6 DEF OpRead
<1>7. CASE Tick
  BY <1>7 DEF Tick
<1>8. CASE OpFails \/ DiskFails \/ DiskRecovers \/ UNCHANGED scheduleVars
  BY <1>8 DEF OpFails, DiskFails, DiskRecovers, scheduleVars
<1> QED
  BY <1>1, <1>2, <1>3, <1>4, <1>5, <1>6, <1>7, <1>8 DEF ScheduleNext, ScheduleThread

\* Only a write from an older reading brings a removed job back.
LEMMA RemovedKept ==
    ASSUME ScheduleAssumption, ScheduleInv, [ScheduleNext]_scheduleVars PROVE RemovedStaysAway'
<1> USE DEF ScheduleInv, ScheduleTyped, RemovedStaysAway, file, daemonVars, To, NewCur,
        Never
<1>1. CASE ScheduleBegin
  <2>1. ready' = {} \/ ready' = {j \in Jobs : Due(j)}
    BY <1>1 DEF ScheduleBegin, Found
  <2>2. \A j \in Jobs : Due(j) => jobs[j].here
    BY DEF Due, Pending, IsJobsFile
  <2>3. UNCHANGED <<jobs, late>>
    BY <1>1 DEF ScheduleBegin
  <2> QED
    BY <2>1, <2>2, <2>3
<1>2. CASE ScheduleEnd \/ Log \/ MarkRead \/ WriteFails \/ ScheduleHandle
             \/ ScheduleCrash \/ ScheduleRestart
  BY <1>2 DEF ScheduleEnd, Log, MarkRead, WriteFails, ScheduleRaise, ScheduleHandle,
              Handled, ScheduleCrash, ScheduleRestart
<1>3. ASSUME NEW j \in Jobs, Fire(j) PROVE RemovedStaysAway'
  BY <1>3 DEF Fire
<1>4. ASSUME NEW j \in Jobs, Refuse(j) PROVE RemovedStaysAway'
  BY <1>4 DEF Refuse
<1>5. CASE MarkSave
  BY <1>5 DEF MarkSave, ReadingFollows, IsJobsFile, Fired, Undone
<1>6. CASE OpWrite
  BY <1>6 DEF OpWrite, IsJobsFile, Undone, Edited, Absent
<1>7. ASSUME NEW j \in Jobs, NEW act, OpRead(j, act) PROVE RemovedStaysAway'
  BY <1>7 DEF OpRead
<1>8. CASE OpFails \/ Tick \/ DiskFails \/ DiskRecovers \/ UNCHANGED scheduleVars
  BY <1>8 DEF OpFails, Tick, DiskFails, DiskRecovers, scheduleVars
<1> QED
  BY <1>1, <1>2, <1>3, <1>4, <1>5, <1>6, <1>7, <1>8 DEF ScheduleNext, ScheduleThread

LEMMA ScheduleInvariant == ASSUME ScheduleAssumption PROVE ScheduleSpec => []ScheduleInv
<1>1. ScheduleInit => ScheduleInv
  BY ScheduleInitially
<1>2. ScheduleInv /\ [ScheduleNext]_scheduleVars => ScheduleInv'
  BY ScheduleTypeKept, ReadingKept, RecordKept, FoundKept, RemovedKept DEF ScheduleInv
<1> QED
  BY <1>1, <1>2, PTL DEF ScheduleSpec

\* A wake is stored for a job in the pass's hands alone.
LEMMA FiresWhatWasFound ==
    ASSUME ScheduleAssumption, ScheduleInv, [ScheduleNext]_scheduleVars, NEW j \in Jobs,
           wokeAt'[j] # wokeAt[j], wokeAt[j] # Never, j \notin excused
    PROVE  wokeAt'[j] - wokeAt[j] >= Spacing[j]
<1> USE DEF ScheduleInv, ScheduleTyped, file, daemonVars, To, NewCur
<1>1. \E k \in Jobs : Fire(k)
  BY DEF ScheduleNext, ScheduleThread, ScheduleBegin, ScheduleEnd, Log, MarkRead, MarkSave, WriteFails,
       ScheduleRaise, ScheduleHandle, Handled,
         Refuse, OpWrite, OpFails, OpRead, Tick, DiskFails, DiskRecovers, ScheduleCrash,
              ScheduleRestart, scheduleVars
<1>2. Fire(j)
  BY <1>1 DEF Fire
<1> QED
  BY <1>2 DEF Fire, FoundSpaced

\* Two wakes of a job are its spacing apart, across slow passes and local time that
\* goes back, and whatever is restarted, edited or fails, unless the earlier one is
\* not on record: a crash or a failed write kept it from being marked, a write from
\* an older reading undid the mark, or the operator put or removed that very job
\* since (due, spaced_enough, mark_fired).
THEOREM FiringsAreSpaced == ScheduleSpec => FiringsSpaced
<1>1. ScheduleInv /\ [ScheduleNext]_scheduleVars =>
        [\A j \in Jobs :
           (wokeAt'[j] # wokeAt[j] /\ wokeAt[j] # Never /\ j \notin excused)
              => wokeAt'[j] - wokeAt[j] >= Spacing[j]]_scheduleVars
  BY ScheduleAssumption, FiresWhatWasFound
<1> QED
  BY <1>1, ScheduleAssumption, ScheduleInvariant, PTL DEF ScheduleSpec, FiringsSpaced

\* A job that was removed wakes at most once more, as it had been found due before
\* (ScheduleStore.remove against a pass in progress).
THEOREM RemovedJobsRest == ScheduleSpec => []RemovedFiresOnceMore
<1>1. ScheduleInv => RemovedFiresOnceMore
  BY DEF ScheduleInv, ScheduleTyped, RemovedStaysAway, RemovedFiresOnceMore
<1> QED
  BY <1>1, ScheduleAssumption, ScheduleInvariant, PTL

-----------------------------------------------------------------------------
(* Drain: the invariant.                                                   *)

\* Where the thread has a wake in its hand, and where that wake is unsettled.
InHand == {"abandon", "giveup", "audit", "defer", "count", "call", "running",
           "giveback", "ended", "checked", "decide"}
Undecided == InHand \ {"audit"}

\* The hand holds a pending wake until it is settled, and a pass has only
\* pending wakes before it, the one in hand not among them.
HandHoldsPending ==
    /\ cur # Nothing <=> pc \in InHand
    /\ pc \in Undecided => outcome[cur] = "pending"
    /\ ahead \subseteq Queued \ {cur}
    /\ pc \notin InHand \cup {"pass"} => ahead = {}

\* What the checks of Take leave true of the wake in hand until it is counted.
TakenInBounds ==
    /\ pc \in {"count", "call", "giveback", "defer"} => attempts[cur] < MaxAttempts
    /\ pc \in {"giveup", "count", "giveback", "checked", "decide"} => cur \in Goals
    /\ pc = "count" => tries[cur] < GoalAttempts

\* The wake of a goal whose count precedes its call.
Counted(w) == cur = w /\ pc \in {"call", "giveback"}

\* A goal is counted before it is run, so its runs never exceed the count.
CountedFirst ==
    \A w \in Goals : ran[w] + (IF Counted(w) THEN 1 ELSE 0) <= tries[w]

\* A count that was not followed by a run has met a fault of its own: while the
\* disk is down, the outage already pays for the count in hand.
CountsPaidFor ==
    \A w \in Goals : ~Settled(w) =>
        tries[w] <= ran[w] + faults + (IF Counted(w) /\ disk THEN 1 ELSE 0)

\* An outage no pass was lost to yet.  It pays for one run that is not settled.
Credit == IF ~disk /\ pc \notin {"handler", "dead"} THEN 1 ELSE 0

\* A run of a wake without a goal is followed by its mark, or paid for by a fault.
RunsPaidFor ==
    \A w \in Wakes \ Goals :
        IF Settled(w) THEN ran[w] <= faults + 1
        ELSE ran[w] + Credit
                <= faults + (IF cur = w /\ pc \in {"running", "ended"} THEN 1 ELSE 0)

DrainInv ==
        /\ TypeOK /\ HandHoldsPending /\ TakenInBounds
        /\ CountedFirst /\ CountsPaidFor /\ RunsPaidFor

-----------------------------------------------------------------------------
(* Drain: the invariant is inductive.                                      *)

\* Nothing has arrived and nothing is in hand.
LEMMA DrainInitially ==
    ASSUME DrainAssumption PROVE DrainInit => DrainInv
<1> SUFFICES ASSUME DrainInit PROVE DrainInv
  OBVIOUS
<1> USE DEF DrainAssumption, DrainInit
<1>1. TypeOK
  <2>1. later \in [Wakes -> BOOLEAN] /\ old \in [Wakes -> BOOLEAN]
    OBVIOUS
  <2>2. exhausted \in BOOLEAN /\ disk \in BOOLEAN
    OBVIOUS
  <2> QED
    BY <2>1, <2>2 DEF TypeOK
<1>2. HandHoldsPending /\ TakenInBounds
  BY DEF HandHoldsPending, TakenInBounds, InHand, Undecided
<1>3. CountedFirst /\ CountsPaidFor
  BY DEF CountedFirst, CountsPaidFor, Counted
<1>4. RunsPaidFor
  BY DEF RunsPaidFor, Credit, Settled, Outcomes
<1> QED
  BY <1>1, <1>2, <1>3, <1>4 DEF DrainInv

\* A wake is deferred and a goal counted within their limits, and nothing else counts.
LEMMA DrainTypeKept ==
    ASSUME DrainAssumption PROVE DrainInv /\ [DrainNext]_drainVars => TypeOK'
<1> SUFFICES ASSUME DrainInv, [DrainNext]_drainVars PROVE TypeOK'
  OBVIOUS
<1> USE DEF DrainAssumption, TypeOK, HandHoldsPending, TakenInBounds, InHand, Undecided,
        wakeVars, passVars, EmptyHand, NoPass
<1>1. CASE DrainBegin \/ DrainEnd
  BY <1>1 DEF DrainInv, DrainBegin, DrainEnd, Queued
<1>2. ASSUME NEW w \in Wakes, Take(w) PROVE TypeOK'
  BY <1>2 DEF DrainInv, Take
<1>3. CASE Abandon \/ GiveUp \/ AuditSettled
  BY <1>3 DEF DrainInv, Abandon, GiveUp, AuditSettled, Writes, Outcomes
<1>4. CASE Defer
  BY <1>4 DEF DrainInv, Defer, Writes
<1>5. CASE CountGoal
  BY <1>5 DEF DrainInv, CountGoal, Writes
<1>6. CASE RefusedForCapacity
  BY <1>6 DEF DrainInv, RefusedForCapacity
<1>7. CASE RefusedForGood \/ Admitted
  BY <1>7 DEF DrainInv, RefusedForGood, Admitted
<1>8. CASE GiveBack
  <2>1. cur \in Goals /\ tries[cur] >= 1
    BY <1>8 DEF DrainInv, GiveBack, Writes, CountedFirst, Counted
  <2> QED
    BY <1>8, <2>1 DEF DrainInv, GiveBack, Writes
<1>9. CASE RunEnds \/ Check
  BY <1>9 DEF DrainInv, RunEnds, Check
<1>10. CASE Settle \/ SettleGoal
  BY <1>10 DEF DrainInv, Settle, SettleGoal, Writes, Outcomes
<1>11. CASE Feedback \/ RetryGoal
  BY <1>11 DEF DrainInv, Feedback, RetryGoal, Writes
<1>12. CASE DrainRaise \/ DrainHandle \/ Repair
  BY <1>12, ZenonT(30) DEF DrainInv, DrainRaise, DrainHandle, Handled, Repair
<1>13. CASE DrainCrash \/ Outage
  <2>1. faults' \in 0 .. MaxFaults
    BY <1>13 DEF DrainInv, DrainCrash, Outage
  <2> QED
    BY <1>13, <2>1 DEF DrainInv, DrainCrash, Outage
<1>14. ASSUME NEW w \in Wakes, Arrive(w) \/ RetryDue(w) \/ Ages(w) PROVE TypeOK'
  BY <1>14, ZenonT(30) DEF DrainInv, Arrive, RetryDue, Ages
<1>15. CASE UNCHANGED drainVars
  BY <1>15 DEF DrainInv, drainVars
<1> QED
  BY <1>1, <1>2, <1>3, <1>4, <1>5, <1>6, <1>7, <1>8, <1>9, <1>10, <1>11, <1>12, <1>13,
     <1>14, <1>15 DEF DrainNext, DrainThread

\* Only the thread settles wakes, and only the one it holds.
LEMMA HandKept ==
    ASSUME DrainAssumption
    PROVE  DrainInv /\ [DrainNext]_drainVars => HandHoldsPending' /\ TakenInBounds'
<1> SUFFICES ASSUME DrainInv, [DrainNext]_drainVars PROVE HandHoldsPending' /\ TakenInBounds'
  OBVIOUS
<1> USE DEF DrainAssumption, DrainInv, TypeOK, HandHoldsPending, TakenInBounds, InHand,
        Undecided, Queued, wakeVars, passVars, EmptyHand, NoPass
<1>1. CASE DrainBegin \/ DrainEnd
  BY <1>1 DEF DrainBegin, DrainEnd
<1>2. ASSUME NEW w \in Wakes, Take(w) PROVE HandHoldsPending' /\ TakenInBounds'
  BY <1>2 DEF Take, Hopeless, TooMany
<1>3. CASE Abandon \/ GiveUp \/ AuditSettled
  BY <1>3 DEF Abandon, GiveUp, AuditSettled, Writes
<1>4. CASE Defer \/ CountGoal \/ GiveBack
  BY <1>4 DEF Defer, CountGoal, GiveBack, Writes
<1>5. CASE RefusedForCapacity \/ RefusedForGood \/ Admitted \/ RunEnds
  BY <1>5 DEF RefusedForCapacity, RefusedForGood, Admitted, RunEnds
<1>6. CASE Settle \/ SettleGoal
  BY <1>6 DEF Settle, SettleGoal, Writes
<1>7. CASE Check \/ Feedback \/ RetryGoal
  BY <1>7 DEF Check, Feedback, RetryGoal, Writes
<1>8. CASE DrainRaise \/ DrainHandle \/ DrainCrash \/ Outage \/ Repair
  BY <1>8 DEF DrainRaise, DrainHandle, Handled, DrainCrash, Outage, Repair
<1>9. ASSUME NEW w \in Wakes, Arrive(w) \/ RetryDue(w) \/ Ages(w)
      PROVE  HandHoldsPending' /\ TakenInBounds'
  BY <1>9 DEF Arrive, RetryDue, Ages
<1>10. CASE UNCHANGED drainVars
  BY <1>10 DEF drainVars
<1> QED
  BY <1>1, <1>2, <1>3, <1>4, <1>5, <1>6, <1>7, <1>8, <1>9, <1>10 DEF DrainNext, DrainThread

\* A goal's count leads its runs by the call in hand and by what faults took.
LEMMA CountsKept ==
    ASSUME DrainAssumption
    PROVE  DrainInv /\ [DrainNext]_drainVars => CountedFirst' /\ CountsPaidFor'
<1> SUFFICES ASSUME DrainInv, [DrainNext]_drainVars PROVE CountedFirst' /\ CountsPaidFor'
  OBVIOUS
<1> USE DEF DrainAssumption, DrainInv, TypeOK, HandHoldsPending, TakenInBounds, InHand,
        Undecided, CountedFirst, CountsPaidFor, Counted, Settled, Outcomes,
        wakeVars, passVars, EmptyHand, NoPass
<1>1. CASE DrainBegin \/ DrainEnd
  BY <1>1 DEF DrainBegin, DrainEnd
<1>2. ASSUME NEW w \in Wakes, Take(w) PROVE CountedFirst' /\ CountsPaidFor'
  BY <1>2 DEF Take
<1>3. CASE Abandon \/ GiveUp \/ AuditSettled \/ Defer
  BY <1>3 DEF Abandon, GiveUp, AuditSettled, Defer, Writes
<1>4. CASE CountGoal
  BY <1>4 DEF CountGoal, Writes
<1>5. CASE GiveBack
  BY <1>5 DEF GiveBack, Writes
<1>6. CASE RefusedForCapacity \/ RefusedForGood \/ Admitted \/ RunEnds
  BY <1>6 DEF RefusedForCapacity, RefusedForGood, Admitted, RunEnds
<1>7. CASE Settle \/ SettleGoal
  BY <1>7 DEF Settle, SettleGoal, Writes
<1>8. CASE Check \/ Feedback \/ RetryGoal
  BY <1>8 DEF Check, Feedback, RetryGoal, Writes
<1>9. CASE DrainRaise \/ DrainHandle \/ Repair
  BY <1>9 DEF DrainRaise, DrainHandle, Handled, Repair
<1>10. CASE DrainCrash
  BY <1>10 DEF DrainCrash
<1>11. CASE Outage
  BY <1>11 DEF Outage
<1>12. ASSUME NEW w \in Wakes, Arrive(w) \/ RetryDue(w) \/ Ages(w)
       PROVE  CountedFirst' /\ CountsPaidFor'
  BY <1>12 DEF Arrive, RetryDue, Ages
<1>13. CASE UNCHANGED drainVars
  BY <1>13 DEF drainVars
<1> QED
  BY <1>1, <1>2, <1>3, <1>4, <1>5, <1>6, <1>7, <1>8, <1>9, <1>10, <1>11, <1>12, <1>13
     DEF DrainNext, DrainThread

\* A run of a wake without a goal that its mark did not follow has met a fault.
LEMMA RunsKept ==
    ASSUME DrainAssumption PROVE DrainInv /\ [DrainNext]_drainVars => RunsPaidFor'
<1> SUFFICES ASSUME DrainInv, [DrainNext]_drainVars PROVE RunsPaidFor'
  OBVIOUS
<1> USE DEF DrainAssumption, DrainInv, TypeOK, HandHoldsPending, InHand, Undecided,
        RunsPaidFor, Credit, Settled, Outcomes, wakeVars, passVars, EmptyHand, NoPass
<1>1. CASE DrainBegin \/ DrainEnd
  BY <1>1 DEF DrainBegin, DrainEnd
<1>2. ASSUME NEW w \in Wakes, Take(w) PROVE RunsPaidFor'
  BY <1>2 DEF Take
<1>3. CASE Abandon \/ GiveUp \/ AuditSettled
  BY <1>3 DEF Abandon, GiveUp, AuditSettled, Writes
<1>4. CASE Defer \/ CountGoal \/ GiveBack
  BY <1>4 DEF Defer, CountGoal, GiveBack, Writes
<1>5. CASE RefusedForCapacity \/ RefusedForGood \/ Admitted \/ RunEnds
  BY <1>5 DEF RefusedForCapacity, RefusedForGood, Admitted, RunEnds
<1>6. CASE Settle \/ SettleGoal
  BY <1>6 DEF Settle, SettleGoal, Writes
<1>7. CASE Check \/ Feedback \/ RetryGoal
  BY <1>7 DEF TakenInBounds, Check, Feedback, RetryGoal, Writes
<1>8. CASE DrainRaise
  BY <1>8 DEF DrainRaise
<1>9. CASE DrainHandle \/ Repair
  BY <1>9 DEF DrainHandle, Handled, Repair
<1>10. CASE DrainCrash
  BY <1>10 DEF DrainCrash
<1>11. CASE Outage
  BY <1>11 DEF Outage
<1>12. ASSUME NEW w \in Wakes, Arrive(w) \/ RetryDue(w) \/ Ages(w) PROVE RunsPaidFor'
  BY <1>12 DEF Arrive, RetryDue, Ages
<1>13. CASE UNCHANGED drainVars
  BY <1>13 DEF drainVars
<1> QED
  BY <1>1, <1>2, <1>3, <1>4, <1>5, <1>6, <1>7, <1>8, <1>9, <1>10, <1>11, <1>12, <1>13
     DEF DrainNext, DrainThread

LEMMA DrainInvariant ==
    ASSUME DrainAssumption PROVE DrainSpec => []DrainInv
<1>1. DrainInv /\ [DrainNext]_drainVars => DrainInv'
  BY DrainTypeKept, HandKept, CountsKept, RunsKept DEF DrainInv
<1> QED
  BY DrainInitially, <1>1, PTL DEF DrainSpec

-----------------------------------------------------------------------------
(* The results.                                                            *)

\* Every attempt is accounted for, however many crashes and outages cut a pass
\* between any two of its marks (daemon.py, drain; "Count before starting").
THEOREM EveryAttemptCounted == DrainSpec => []AttemptsCounted
<1>1. DrainInv => GoalRunsBounded
  BY DrainAssumption DEF DrainInv, TypeOK, CountedFirst, GoalRunsBounded
<1>2. DrainInv => RefusalsGiveBack
  BY DrainAssumption DEF DrainInv, TypeOK, CountsPaidFor, Counted, Settled, Outcomes,
       RefusalsGiveBack
<1>3. DrainInv => RerunsNeedFaults
  BY DrainAssumption DEF DrainInv, TypeOK, RunsPaidFor, Credit, RerunsNeedFaults
<1>4. DrainInv => AttemptsCounted
  BY <1>1, <1>2, <1>3 DEF DrainInv, AttemptsCounted
<1> QED
  BY DrainAssumption, DrainInvariant, <1>4, PTL

\* A step leaves a settled wake as it is: the thread holds no settled wake when
\* it marks or runs.
LEMMA SettledStays ==
    ASSUME DrainInv, [DrainNext]_drainVars, NEW w \in Wakes, Settled(w)
    PROVE  outcome'[w] = outcome[w] /\ ran'[w] = ran[w]
<1> USE DEF DrainInv, TypeOK, HandHoldsPending, InHand, Undecided, Settled, Outcomes,
        wakeVars, passVars
<1>1. CASE Abandon \/ GiveUp \/ Settle \/ SettleGoal
  BY <1>1 DEF Abandon, GiveUp, Settle, SettleGoal, Writes
<1>2. CASE RefusedForGood \/ Admitted
  BY <1>2 DEF RefusedForGood, Admitted
<1>3. ASSUME NEW v \in Wakes, Take(v) \/ Arrive(v) \/ RetryDue(v) \/ Ages(v)
      PROVE  outcome'[w] = outcome[w] /\ ran'[w] = ran[w]
  BY <1>3 DEF Take, Arrive, RetryDue, Ages
<1>4. CASE AuditSettled \/ Defer \/ CountGoal \/ GiveBack \/ Feedback \/ RetryGoal
  BY <1>4 DEF AuditSettled, Defer, CountGoal, GiveBack, Feedback, RetryGoal, Writes
<1>5. CASE DrainBegin \/ DrainEnd \/ RefusedForCapacity \/ RunEnds \/ Check
  BY <1>5 DEF DrainBegin, DrainEnd, RefusedForCapacity, RunEnds, Check
<1>6. CASE DrainRaise \/ DrainHandle \/ DrainCrash \/ Outage \/ Repair \/ UNCHANGED drainVars
  BY <1>6 DEF DrainRaise, DrainHandle, Handled, DrainCrash, Outage, Repair, drainVars
<1> QED
  BY <1>1, <1>2, <1>3, <1>4, <1>5, <1>6 DEF DrainNext, DrainThread

\* Settling is for good, whatever the thread has read before (wake.mark, drain).
THEOREM SettlingIsFinal == DrainSpec => SettledForGood
<1>1. DrainInv /\ [DrainNext]_drainVars =>
          [\A w \in Wakes :
             Settled(w) => outcome'[w] = outcome[w] /\ ran'[w] = ran[w]]_drainVars
  BY DrainAssumption, SettledStays
<1> QED
  BY <1>1, DrainAssumption, DrainInvariant, PTL DEF DrainSpec, SettledForGood
==============================================================================
