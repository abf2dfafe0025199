----------------------------- MODULE AuditProofs -----------------------------
(***************************************************************************)
(* Theorems about Audit, for every set of writers, every size and number   *)
(* of segments, and any number of failed writes and edits by hand.         *)
(***************************************************************************)
EXTENDS Audit, TLAPS, FiniteSetTheorems, SequenceTheorems, WellFoundedInduction

-----------------------------------------------------------------------------
(* The inductive invariant, in named parts.                                *)

Line == [seq : Nat, prev : Nat, id : Nat, marker : BOOLEAN, whole : BOOLEAN, intact : BOOLEAN]
File == [lines : SUBSET Line, tail : SUBSET Line]

AuditTyped ==
    /\ live \in File /\ archived \in Seq(File)
    /\ known \subseteq Writers /\ cache \in [Writers -> [seq : Nat, hash : Nat]]
    /\ count \in Nat /\ faults \in Nat /\ edits \in Nat
    /\ acked \subseteq 1 .. count /\ dropped \subseteq Nat /\ scarred \subseteq 1 .. count

\* A file's lines are numbered by writes, each after the one it commits to; a tail is
\* one line and the last.
WellNumbered(f, n) ==
    /\ \A l \in f.lines \cup f.tail : l.id <= n /\ l.prev < l.id
    /\ \A k, l \in f.lines \cup f.tail : k.id = l.id => k = l
    /\ \A l \in f.lines, t \in f.tail : l.id < t.id
    /\ \A t, u \in f.tail : t = u

Numbered == \A i \in DOMAIN Segments : WellNumbered(Segments[i], count)

\* It names a record that is not among rs: nothing that is appended mends that.
Stray(rs, r) == ~r.marker /\ r.prev # 0 /\ r.prev \notin Ids(rs)

\* A record commits to the one before it, or is stray.
Linked(rs) ==
    \A p, r \in rs :
        p.id < r.id /\ (\A q \in rs : q.id <= p.id \/ r.id <= q.id)
            => ~r.marker /\ (r.prev = p.id \/ Stray(rs, r))

\* At or before every scarred record verify stops.
Shown(rs, scars) ==
    \A r \in rs : r.id \in scars =>
        \E q \in rs : q.id <= r.id /\ (~q.intact \/ Stray(rs, q))

\* A tip that is trusted is the last record's, or of a record that is not there.
TipsAreLast ==
    \A w \in known :
        /\ cache[w].hash \in 1 .. count
        /\ cache[w].hash \in Ids(Readable(live)) => \A id \in Ids(Readable(live)) : id <= cache[w].hash

\* While nothing failed and nobody edited: every line is a record, the live file
\* continues what is archived, and trusted tips are what a reader finds.
Undisturbed ==
    faults = 0 /\ edits = 0 =>
        /\ \A i \in DOMAIN Segments : Segments[i].tail = {} /\ Records(Segments[i].lines) = Segments[i].lines
        /\ archived # <<>> => live.lines # {}
        /\ \A w \in known : live.lines # {} /\ cache[w] = TipOf(Latest(live.lines))

\* What was lost has been paid for, and so has the tail that costs the next record.
LossPaid == Cardinality(LostRecords) + (IF live.tail = {} THEN 0 ELSE 1) <= faults

\* Retained segments chain where nothing failed and nobody edited (SegmentsJoin, but for
\* what a reader can decode).
SegmentsChain ==
  faults = 0 /\ edits = 0 =>
    /\ \A i \in DOMAIN Segments : Chained(Segments[i])
    /\ \A i \in DOMAIN archived : \E first \in Readable(Segments[i+1]) :
         /\ first.marker /\ Before(Readable(Segments[i+1]), first) = {}
         /\ first.prev = Latest(Readable(Segments[i])).id

\* A segment with a scarred record does not chain.
EditsBreak ==
  \A i \in DOMAIN Segments :
    (\E r \in Readable(Segments[i]) : r.id \in scarred) => ~Chained(Segments[i])

\* Only writes that were made are split, and none before one failed.
SplitKnown == split \subseteq 1 .. count /\ (faults = 0 => split = {})

AuditInv ==
    /\ AuditTyped /\ Numbered /\ InOrder
    /\ Linked(Readable(live)) /\ Shown(Readable(live), scarred) /\ TipsAreLast /\ EditsBreak
    /\ Undisturbed /\ SegmentsChain /\ LossPaid /\ SplitKnown

-----------------------------------------------------------------------------
(* Lines in the order of their numbers.                                    *)

\* Records numbered up to n, no number twice.
Listed(rs, n) ==
    /\ rs \subseteq Line /\ n \in Nat
    /\ \A l \in rs : l.id <= n /\ l.prev < l.id
    /\ \A k, l \in rs : k.id = l.id => k = l

\* A set of numbers that is not empty has a least one.
LEMMA LeastOf ==
    ASSUME NEW D \in SUBSET Nat, D # {}
    PROVE  \E d \in D : \A e \in D : d <= e
<1>1. PICK d \in D : \A e \in D : ~(<<e, d>> \in OpToRel(<, Nat))
  BY NatLessThanWellFounded, WFMin, Zenon
<1>2. \A e \in D : e < d => <<e, d>> \in OpToRel(<, Nat)
  BY DEF OpToRel
<1>3. \A e \in D : ~(e < d)
  BY <1>1, <1>2, Zenon
<1> QED
  BY <1>3

LEMMA LatestIsLast ==
    ASSUME NEW S, NEW n \in Nat, S # {}, \A l \in S : l.id \in Nat /\ l.id <= n
    PROVE  Latest(S) \in S /\ \A k \in S : k.id <= Latest(S).id
<1> DEFINE D == {n - l.id : l \in S}
<1>1. D \in SUBSET Nat /\ D # {}
  OBVIOUS
<1>2. PICK d \in D : \A e \in D : d <= e
  <2> HIDE DEF D
  <2> QED
    BY <1>1, LeastOf
<1>3. PICK l \in S : d = n - l.id
  OBVIOUS
<1>4. \A k \in S : n - l.id <= n - k.id
  BY <1>2, <1>3
<1>5. \A k \in S : k.id <= l.id
  BY <1>4
<1> QED
  BY <1>5 DEF Latest

\* The first of the lines that follow one.
LEMMA NextIsThere ==
    ASSUME NEW S, S # {}, \A l \in S : l.id \in Nat
    PROVE  \E f \in S : \A k \in S : f.id <= k.id
<1> DEFINE D == {l.id : l \in S}
<1>1. D \in SUBSET Nat /\ D # {}
  OBVIOUS
<1>2. PICK d \in D : \A e \in D : d <= e
  <2> HIDE DEF D
  <2> QED
    BY <1>1, LeastOf
<1>3. PICK f \in S : d = f.id
  OBVIOUS
<1> QED
  BY <1>2, <1>3

\* A new record is linked if it names the last one, or one that is not there.
LEMMA LinkedGrows ==
    ASSUME NEW rs, NEW n, Listed(rs, n), Linked(rs),
           NEW r \in Line, r.id = n + 1, ~r.marker, r.prev <= n,
           \A p \in rs : (\A q \in rs : q.id <= p.id)
               => r.prev = p.id \/ (r.prev # 0 /\ r.prev \notin Ids(rs))
    PROVE  Linked(rs \cup {r})
<1>1. \A l \in rs : l \in Line /\ l.id \in Nat /\ l.prev \in Nat /\ l.id <= n /\ l.prev <= n
  BY DEF Listed, Line
<1>2. n \in Nat /\ r.id \in Nat /\ r.prev \in Nat /\ \A l \in rs : l.id < r.id
  BY <1>1 DEF Listed, Line
<1>3. \A l \in rs \cup {r} : Stray(rs, l) => Stray(rs \cup {r}, l)
  BY <1>1, <1>2 DEF Stray, Ids
<1> SUFFICES ASSUME NEW p \in rs \cup {r}, NEW s \in rs \cup {r}, p.id < s.id,
                    \A q \in rs \cup {r} : q.id <= p.id \/ s.id <= q.id
             PROVE  ~s.marker /\ (s.prev = p.id \/ Stray(rs \cup {r}, s))
  BY DEF Linked
<1>4. p \in rs
  BY <1>1, <1>2
<1>5. CASE s \in rs
  BY <1>3, <1>4, <1>5 DEF Linked
<1>6. CASE s = r
  <2>1. \A q \in rs : q.id <= p.id
    BY <1>1, <1>2, <1>6
  <2>2. r.prev = p.id \/ (r.prev # 0 /\ r.prev \notin Ids(rs))
    BY <1>4, <2>1
  <2>3. r.prev \notin Ids(rs) => r.prev \notin Ids(rs \cup {r})
    BY <1>2 DEF Ids
  <2> QED
    BY <1>6, <2>2, <2>3 DEF Stray
<1> QED
  BY <1>5, <1>6

\* The last records can go.
LEMMA CutHolds ==
    ASSUME NEW rs, NEW n, Listed(rs, n), Linked(rs), NEW scars, Shown(rs, scars),
           NEW part \in SUBSET rs, \A p \in part, q \in rs \ part : p.id < q.id
    PROVE  Linked(part) /\ Shown(part, scars)
<1>1. \A l \in rs : l \in Line /\ l.id \in Nat
  BY DEF Listed, Line
<1>2. \A l \in part : Stray(rs, l) => Stray(part, l)
  BY DEF Stray, Ids
<1>3. Linked(part)
  <2> SUFFICES ASSUME NEW p \in part, NEW s \in part, p.id < s.id,
                      \A q \in part : q.id <= p.id \/ s.id <= q.id
               PROVE  ~s.marker /\ (s.prev = p.id \/ Stray(part, s))
    BY DEF Linked
  <2>1. \A q \in rs : q.id <= p.id \/ s.id <= q.id
    BY <1>1
  <2> QED
    BY <1>2, <2>1 DEF Linked
<1>4. Shown(part, scars)
  <2> SUFFICES ASSUME NEW r \in part, r.id \in scars
               PROVE  \E q \in part : q.id <= r.id /\ (~q.intact \/ Stray(part, q))
    BY DEF Shown
  <2>1. PICK q \in rs : q.id <= r.id /\ (~q.intact \/ Stray(rs, q))
    BY DEF Shown
  <2>2. q \in part
    BY <1>1, <2>1
  <2> QED
    BY <1>2, <2>1, <2>2
<1> QED
  BY <1>3, <1>4

\* A record whose body was altered keeps its number and what it names.
LEMMA AlterHolds ==
    ASSUME NEW rs, NEW n, Listed(rs, n), Linked(rs), NEW scars, Shown(rs, scars),
           NEW x \in rs, NEW y \in Line,
           y.id = x.id, y.prev = x.prev, y.marker = x.marker, ~y.intact
    PROVE  /\ Linked((rs \ {x}) \cup {y}) /\ Ids((rs \ {x}) \cup {y}) = Ids(rs)
           /\ Shown((rs \ {x}) \cup {y}, scars \cup {x.id})
<1> DEFINE new == (rs \ {x}) \cup {y}
           old(l) == IF l = y THEN x ELSE l
<1>1. \A l \in new : old(l) \in rs /\ old(l).id = l.id /\ old(l).prev = l.prev /\ old(l).marker = l.marker
  OBVIOUS
<1>2. \A l \in rs : \E k \in new : k.id = l.id
  OBVIOUS
<1>3. Ids(new) = Ids(rs)
  <2> HIDE DEF new, old
  <2> QED
    BY <1>1, <1>2 DEF Ids
<1>4. \A l \in new : Stray(rs, old(l)) => Stray(new, l)
  <2> HIDE DEF new, old
  <2> QED
    BY <1>1, <1>3 DEF Stray
<1>5. Linked(new)
  <2> SUFFICES ASSUME NEW p \in new, NEW s \in new, p.id < s.id,
                      \A q \in new : q.id <= p.id \/ s.id <= q.id
               PROVE  ~s.marker /\ (s.prev = p.id \/ Stray(new, s))
    BY DEF Linked
  <2> HIDE DEF new, old
  <2>1. \A q \in rs : q.id <= old(p).id \/ old(s).id <= q.id
    BY <1>1, <1>2
  <2> QED
    BY <1>1, <1>4, <2>1 DEF Linked
<1>6. Shown(new, scars \cup {x.id})
  <2> SUFFICES ASSUME NEW r \in new, r.id \in scars \cup {x.id}
               PROVE  \E q \in new : q.id <= r.id /\ (~q.intact \/ Stray(new, q))
    BY DEF Shown
  <2>1. CASE r.id = x.id
    <3>1. y \in new /\ y.id <= r.id
      BY <2>1 DEF Line
    <3> QED
      BY <3>1
  <2>2. CASE r.id \in scars /\ r.id # x.id
    <3>1. r \in rs
      BY <2>2
    <3>2. PICK q \in rs : q.id <= r.id /\ (~q.intact \/ Stray(rs, q))
      BY <2>2, <3>1 DEF Shown
    <3>3. CASE q = x
      BY <3>2, <3>3
    <3>4. CASE q # x
      <4>1. q \in new
        BY <3>4
      <4>2. Stray(rs, q) => Stray(new, q)
        BY <1>3, <3>4 DEF Stray
      <4> QED
        BY <3>2, <4>1, <4>2
    <3> QED
      BY <3>3, <3>4
  <2> QED
    BY <2>1, <2>2
<1> QED
  BY <1>3, <1>5, <1>6

\* Where one is deleted, the record after it names nothing that is there, and so
\* verify stops before or at every later one.
LEMMA DeleteHolds ==
    ASSUME NEW rs, NEW n, Listed(rs, n), Linked(rs), NEW scars, Shown(rs, scars), NEW x \in rs
    PROVE  /\ Linked(rs \ {x})
           /\ Shown(rs \ {x}, scars \cup Ids({l \in rs : l.id > x.id}))
<1> DEFINE new == rs \ {x}
           behind == {l \in rs : l.id > x.id}
<1>1. \A l \in rs : l \in Line /\ l.id \in Nat /\ l.prev \in Nat /\ l.id # 0
  BY DEF Listed, Line
<1>2. \A l \in new : Stray(rs, l) => Stray(new, l)
  BY DEF Stray, Ids
<1>3. x.id \notin Ids(new)
  BY DEF Ids, Listed
<1>4. ASSUME NEW f \in rs, x.id < f.id, \A q \in rs : q.id <= x.id \/ f.id <= q.id
      PROVE  f \in new /\ Stray(new, f)
  <2>1. ~f.marker /\ (f.prev = x.id \/ Stray(rs, f)) /\ f \in new
    BY <1>1, <1>4 DEF Linked
  <2> QED
    BY <1>1, <1>2, <1>3, <2>1 DEF Stray
<1>5. Linked(new)
  <2> SUFFICES ASSUME NEW p \in new, NEW s \in new, p.id < s.id,
                      \A q \in new : q.id <= p.id \/ s.id <= q.id
               PROVE  ~s.marker /\ (s.prev = p.id \/ Stray(new, s))
    BY DEF Linked
  <2>1. CASE x.id <= p.id \/ s.id <= x.id
    <3>1. \A q \in rs : q.id <= p.id \/ s.id <= q.id
      BY <2>1
    <3> QED
      BY <1>2, <3>1 DEF Linked
  <2>2. CASE ~(x.id <= p.id \/ s.id <= x.id)
    <3>1. x.id < s.id /\ \A q \in rs : q.id <= x.id \/ s.id <= q.id
      BY <1>1, <2>2
    <3> QED
      BY <1>4, <3>1 DEF Stray
  <2> QED
    BY <2>1, <2>2
<1>6. \A r \in new : r.id > x.id => \E q \in new : q.id <= r.id /\ Stray(new, q)
  <2> SUFFICES ASSUME NEW r \in new, r.id > x.id
               PROVE  \E q \in new : q.id <= r.id /\ Stray(new, q)
    OBVIOUS
  <2>1. r \in behind /\ \A l \in behind : l.id \in Nat
    BY <1>1
  <2>2. PICK f \in behind : \A k \in behind : f.id <= k.id
    <3> HIDE DEF behind
    <3> QED
      BY <2>1, NextIsThere
  <2>3. f \in rs /\ x.id < f.id /\ \A q \in rs : q.id <= x.id \/ f.id <= q.id
    BY <1>1, <2>2
  <2> QED
    BY <1>4, <2>1, <2>2, <2>3
<1>7. Shown(new, scars \cup Ids(behind))
  <2> SUFFICES ASSUME NEW r \in new, r.id \in scars \cup Ids(behind)
               PROVE  \E q \in new : q.id <= r.id /\ (~q.intact \/ Stray(new, q))
    BY DEF Shown
  <2>1. CASE r.id > x.id
    BY <1>6, <2>1
  <2>2. CASE ~(r.id > x.id)
    <3>1. r.id \in scars /\ r.id < x.id
      <4>1. r.id # x.id
        BY <1>3 DEF Ids
      <4>2. r.id \notin Ids(behind)
        BY <2>2 DEF Ids
      <4> QED
        BY <1>1, <2>2, <4>1, <4>2
    <3>2. PICK q \in rs : q.id <= r.id /\ (~q.intact \/ Stray(rs, q))
      BY <3>1 DEF Shown
    <3>3. q \in new
      BY <1>1, <3>1, <3>2
    <3> QED
      BY <1>2, <3>2, <3>3
  <2> QED
    BY <2>1, <2>2
<1> QED
  BY <1>5, <1>7

\* Verify does not pass what is scarred.
LEMMA ShownFails ==
    ASSUME NEW f, NEW n, Listed(Readable(f), n), NEW scars, Shown(Readable(f), scars),
           \E r \in Readable(f) : r.id \in scars
    PROVE  ~Chained(f)
<1> DEFINE rs == Readable(f)
<1>1. PICK q \in rs : ~q.intact \/ Stray(rs, q)
  BY DEF Shown
<1> SUFFICES ASSUME Chained(f) PROVE FALSE
  OBVIOUS
<1>2. q.intact /\ IF Before(rs, q) = {} THEN q.marker \/ (q.seq = 1 /\ q.prev = 0)
                  ELSE q.prev = Latest(Before(rs, q)).id
  BY DEF Chained
<1>3. Stray(rs, q)
  BY <1>1, <1>2
<1>4. CASE Before(rs, q) = {}
  BY <1>2, <1>3, <1>4 DEF Stray
<1>5. CASE Before(rs, q) # {}
  <2>1. n \in Nat /\ \A l \in Before(rs, q) : l \in rs /\ l.id \in Nat /\ l.id <= n
    BY DEF Before, Listed, Line
  <2>2. Latest(Before(rs, q)) \in rs
    BY <1>5, <2>1, LatestIsLast
  <2> QED
    BY <1>2, <1>3, <1>5, <2>2 DEF Stray, Ids
<1> QED
  BY <1>4, <1>5

\* Verify passes the records it passed, and a new one that commits to the last.
LEMMA ChainedGrows ==
    ASSUME NEW f, NEW g, NEW n, Listed(Readable(f), n), Chained(f),
           NEW r \in Line, r.id = n + 1, r.intact, Readable(g) = Readable(f) \cup {r},
           IF Readable(f) = {} THEN r.seq = 1 /\ r.prev = 0
           ELSE r.seq = Latest(Readable(f)).seq + 1 /\ r.prev = Latest(Readable(f)).id
    PROVE  Chained(g) /\ \A q \in Readable(f) : Before(Readable(g), q) = Before(Readable(f), q)
<1> DEFINE rs == Readable(f)
<1>1. n \in Nat /\ \A l \in rs : l.id \in Nat /\ l.id < r.id
  BY DEF Listed, Line
<1>2. \A q \in rs : Before(rs \cup {r}, q) = Before(rs, q)
  BY <1>1 DEF Before
<1>3. Before(rs \cup {r}, r) = rs
  BY <1>1 DEF Before
<1> SUFFICES ASSUME NEW q \in rs \cup {r}
             PROVE  /\ q.intact
                    /\ IF Before(rs \cup {r}, q) = {} THEN q.marker \/ (q.seq = 1 /\ q.prev = 0)
                       ELSE LET p == Latest(Before(rs \cup {r}, q)) IN q.seq = p.seq + 1 /\ q.prev = p.id
  BY <1>2 DEF Chained
<1>4. CASE q \in rs
  BY <1>2, <1>4 DEF Chained
<1>5. CASE q = r
  BY <1>3, <1>5
<1> QED
  BY <1>4, <1>5

-----------------------------------------------------------------------------
(* Files, and what a write makes of one.                                   *)

\* The line is there whole, with its newline or without.
Grown(f, g, l) ==
    /\ f.tail = {}
    /\ \/ g = [lines |-> f.lines \cup {l}, tail |-> {}]
       \/ g = [lines |-> f.lines, tail |-> {l}]

\* Rubble is there, for the tail and what followed it or as a tail.
Cut(f, g, id) ==
    \/ f.tail # {} /\ g = [lines |-> f.lines \cup {Rubble(id)}, tail |-> {}]
    \/ g = [lines |-> f.lines, tail |-> {Rubble(id)}]

LEMMA GrownIs ==
    ASSUME NEW f, NEW g, NEW l, Grown(f, g, l)
    PROVE  /\ f.tail = {}
           /\ \/ g.lines = f.lines \cup {l} /\ g.tail = {}
              \/ g.lines = f.lines /\ g.tail = {l}
BY DEF Grown

LEMMA RubbleIsLine ==
    ASSUME NEW id \in Nat
    PROVE  Rubble(id) \in Line /\ ~Rubble(id).whole /\ Rubble(id).id = id /\ Rubble(id).prev = 0
BY DEF Rubble, Line

LEMMA WriteKinds ==
    ASSUME NEW f \in File, NEW l \in Line
    PROVE  /\ Written(f, l) \in File /\ Written(f, l).tail = {}
           /\ IF f.tail = {} THEN Grown(f, Written(f, l), l) ELSE Cut(f, Written(f, l), l.id)
           /\ \A g \in Unfinished(f, l) :
                g \in File /\ (g = f \/ Grown(f, g, l) \/ Cut(f, g, l.id))
<1>1. f = [lines |-> f.lines, tail |-> f.tail] /\ f.lines \subseteq Line /\ f.tail \subseteq Line
  BY DEF File
<1>2. Rubble(l.id) \in Line
  BY RubbleIsLine DEF Line
<1>3. /\ Written(f, l) \in File /\ Written(f, l).tail = {}
      /\ IF f.tail = {} THEN Grown(f, Written(f, l), l) ELSE Cut(f, Written(f, l), l.id)
  BY <1>1, <1>2 DEF Written, Grown, Cut, File
<1>4. ASSUME NEW g \in Unfinished(f, l)
      PROVE  g \in File /\ (g = f \/ Grown(f, g, l) \/ Cut(f, g, l.id))
  <2>1. CASE g = f
    BY <2>1
  <2>2. CASE g = Written(f, l)
    BY <1>3, <2>2
  <2>3. CASE g = [f EXCEPT !.tail = {Rubble(l.id)}]
    <3>1. g = [lines |-> f.lines, tail |-> {Rubble(l.id)}]
      BY <1>1, <2>3
    <3> QED
      BY <1>1, <1>2, <3>1 DEF Cut, File
  <2>4. CASE f.tail = {} /\ g = [f EXCEPT !.tail = {l}]
    <3>1. g = [lines |-> f.lines, tail |-> {l}]
      BY <1>1, <2>4
    <3> QED
      BY <1>1, <2>4, <3>1 DEF Grown, File
  <2> QED
    BY <1>4, <2>1, <2>2, <2>3, <2>4 DEF Unfinished
<1> QED
  BY <1>3, <1>4

LEMMA FileListed ==
    ASSUME NEW f \in File, NEW n \in Nat, WellNumbered(f, n)
    PROVE  /\ Listed(Readable(f), n) /\ Listed(Records(f.lines), n) /\ Listed(f.lines, n)
           /\ Records(f.lines) \subseteq Readable(f)
           /\ \A l \in Readable(f) : l \in Line /\ l.id \in Nat /\ l.id <= n
<1>1. f.lines \subseteq Line /\ f.tail \subseteq Line
  BY DEF File
<1>2. Readable(f) \subseteq Line
  BY <1>1 DEF Readable, Records
<1> QED
  BY <1>1, <1>2 DEF Listed, Line, Readable, Records, WellNumbered

LEMMA GrownReads ==
    ASSUME NEW f \in File, NEW n \in Nat, WellNumbered(f, n), NEW l \in Line, l.whole,
           l.id = n + 1, l.prev <= n, NEW g, Grown(f, g, l)
    PROVE  /\ Readable(g) = Readable(f) \cup {l} /\ WellNumbered(g, n + 1)
           /\ Readable(f) = Records(f.lines)
<1>1. /\ f.lines \subseteq Line /\ f.tail = {} /\ g.lines \cup g.tail = f.lines \cup {l}
      /\ g.tail = {} \/ (g.tail = {l} /\ g.lines = f.lines)
  BY DEF File, Grown
<1>2. Readable(g) = Readable(f) \cup {l}
  BY <1>1 DEF Readable, Records
<1>3. \A k \in f.lines : k \in Line /\ k.id \in Nat /\ k.prev \in Nat /\ k.id < l.id
  BY <1>1 DEF Line, WellNumbered
<1>4. l.id \in Nat /\ l.prev \in Nat
  BY DEF Line
<1>5. \A k \in f.lines \cup {l} : k.id <= n + 1 /\ k.prev < k.id
  BY <1>3, <1>4 DEF WellNumbered
<1>6. \A j, k \in f.lines \cup {l} : j.id = k.id => j = k
  BY <1>3, <1>4 DEF WellNumbered
<1> QED
  BY <1>1, <1>2, <1>3, <1>5, <1>6 DEF WellNumbered, Readable

LEMMA CutReads ==
    ASSUME NEW f \in File, NEW n \in Nat, WellNumbered(f, n), NEW g, Cut(f, g, n + 1)
    PROVE  /\ Readable(g) \in SUBSET Readable(f) /\ Readable(g) = Records(f.lines)
           /\ \A p \in Readable(g), q \in Readable(f) \ Readable(g) : p.id < q.id
           /\ Records(g.lines) = Records(f.lines) /\ WellNumbered(g, n + 1)
<1> DEFINE b == Rubble(n + 1)
<1>1. b \in Line /\ ~b.whole /\ b.id = n + 1 /\ b.prev = 0
  BY RubbleIsLine
<1>2. /\ f.lines \subseteq Line /\ f.tail \subseteq Line /\ g.lines \cup g.tail = f.lines \cup {b}
      /\ \/ g.tail = {} /\ g.lines = f.lines \cup {b}
         \/ g.tail = {b} /\ g.lines = f.lines
  BY DEF File, Cut
<1> HIDE DEF b
<1>3. Readable(g) = Records(f.lines) /\ Records(g.lines) = Records(f.lines)
  BY <1>1, <1>2 DEF Readable, Records
<1>4. \A q \in Readable(f) \ Readable(g) : q \in f.tail
  BY <1>3 DEF Readable, Records
<1>5. \A k \in f.lines : k \in Line /\ k.id \in Nat /\ k.prev \in Nat /\ k.id < b.id
  BY <1>1, <1>2 DEF Line, WellNumbered
<1>6. \A k \in f.lines \cup {b} : k.id <= n + 1 /\ k.prev < k.id
  BY <1>1, <1>5 DEF WellNumbered
<1>7. \A j, k \in f.lines \cup {b} : j.id = k.id => j = k
  BY <1>5 DEF WellNumbered
<1>8. WellNumbered(g, n + 1)
  BY <1>2, <1>5, <1>6, <1>7 DEF WellNumbered
<1>9. \A p \in Readable(g), q \in Readable(f) \ Readable(g) : p.id < q.id
  BY <1>3, <1>4 DEF Records, WellNumbered
<1> QED
  BY <1>3, <1>8, <1>9 DEF Readable, Records

\* The segments are the archived ones and the live one.
LEMMA SegmentsAre ==
    ASSUME NEW a \in Seq(File), NEW l \in File
    PROVE  /\ Append(a, l) \in Seq(File) /\ Len(Append(a, l)) = Len(a) + 1 /\ Len(a) \in Nat
           /\ DOMAIN Append(a, l) = 1 .. Len(a) + 1 /\ DOMAIN a = 1 .. Len(a)
           /\ \A i \in 1 .. Len(a) : Append(a, l)[i] = a[i] /\ a[i] \in File
           /\ Append(a, l)[Len(a) + 1] = l
           /\ \A i \in DOMAIN Append(a, l) : Append(a, l)[i] \in File
OBVIOUS

\* What a reader's tip is: the last record's, where there is no tail.
LEMMA ReadTipIs ==
    ASSUME NEW f \in File, NEW n \in Nat, WellNumbered(f, n)
    PROVE  /\ ReadTip(f) \in [seq : Nat, hash : Nat] /\ ReadTip(f).hash <= n
           /\ f.tail = {} => ReadTip(f) = IF Readable(f) = {} THEN Genesis ELSE TipOf(Latest(Readable(f)))
<1> DEFINE rs == Readable(f)
<1>1. /\ \A l \in rs : l \in Line /\ l.id \in Nat /\ l.id <= n
      /\ \A l \in f.lines : l \in Line /\ l.id \in Nat /\ l.id <= n
      /\ Records(f.lines) \subseteq rs
  BY FileListed DEF File, Line, WellNumbered
<1>2. rs # {} => Latest(rs) \in rs /\ \A k \in rs : k.id <= Latest(rs).id
  <2> HIDE DEF rs
  <2> QED
    BY <1>1, LatestIsLast
<1>3. f.lines # {} => Latest(f.lines) \in f.lines /\ \A k \in f.lines : k.id <= Latest(f.lines).id
  <2> HIDE DEF rs
  <2> QED
    BY <1>1, LatestIsLast
<1>4. CASE f.lines # {} /\ Latest(f.lines).whole
  <2> DEFINE m == Latest(f.lines)
  <2>1. ReadTip(f) = TipOf(m)
    BY <1>4 DEF ReadTip
  <2>2. m \in f.lines /\ m \in rs
    BY <1>1, <1>3, <1>4 DEF Records
  <2>3. ASSUME f.tail = {} PROVE Latest(rs) = m
    <3>1. Latest(rs) \in f.lines /\ m.id <= Latest(rs).id /\ Latest(rs).id <= m.id
      BY <1>2, <1>3, <2>2, <2>3 DEF Readable, Records
    <3>2. Latest(rs).id = m.id
      BY <1>1, <2>2, <3>1
    <3> QED
      BY <2>2, <3>1, <3>2 DEF WellNumbered
  <2> QED
    BY <1>1, <2>1, <2>2, <2>3 DEF TipOf, Line
<1>5. CASE ~(f.lines # {} /\ Latest(f.lines).whole)
  <2>1. ReadTip(f) = IF rs = {} THEN Genesis ELSE TipOf(Latest(rs))
    BY <1>5 DEF ReadTip
  <2>2. rs # {} => Latest(rs) \in Line /\ Latest(rs).id <= n
    BY <1>1, <1>2
  <2> QED
    BY <2>1, <2>2 DEF TipOf, Genesis, Line
<1> QED
  BY <1>4, <1>5

-----------------------------------------------------------------------------
(* What a step does to the files, part by part of the invariant.           *)

LEMMA LiveAndArchived ==
    ASSUME AuditTyped, Numbered
    PROVE  /\ Segments \in Seq(File) /\ DOMAIN Segments = 1 .. Len(archived) + 1
           /\ Len(archived) \in Nat /\ DOMAIN archived = 1 .. Len(archived)
           /\ \A i \in DOMAIN archived : Segments[i] = archived[i]
           /\ Segments[Len(archived) + 1] = live
           /\ \A i \in DOMAIN Segments : Segments[i] \in File /\ Listed(Readable(Segments[i]), count)
           /\ WellNumbered(live, count) /\ Listed(Readable(live), count)
<1>1. /\ Segments \in Seq(File) /\ DOMAIN Segments = 1 .. Len(archived) + 1
      /\ Len(archived) \in Nat /\ DOMAIN archived = 1 .. Len(archived)
      /\ \A i \in 1 .. Len(archived) : Segments[i] = archived[i]
      /\ Segments[Len(archived) + 1] = live
      /\ \A i \in DOMAIN Segments : Segments[i] \in File
  BY SegmentsAre DEF AuditTyped, Segments
<1>2. \A i \in DOMAIN Segments : WellNumbered(Segments[i], count) /\ Listed(Readable(Segments[i]), count)
  BY <1>1, FileListed DEF AuditTyped, Numbered
<1>3. Len(archived) + 1 \in DOMAIN Segments
  BY <1>1
<1> QED
  BY <1>1, <1>2, <1>3

\* The tip a writer chains to names the last record, or one that is not there.
LEMMA TipServes ==
    ASSUME AuditTyped, Numbered, TipsAreLast, NEW w \in Writers
    PROVE  /\ Tip(w) \in [seq : Nat, hash : Nat] /\ Tip(w).hash <= count
           /\ live.tail = {} => \A p \in Readable(live) : (\A q \in Readable(live) : q.id <= p.id)
                => Tip(w).hash = p.id \/ (Tip(w).hash # 0 /\ Tip(w).hash \notin Ids(Readable(live)))
<1> DEFINE rs == Readable(live)
<1>1. live \in File /\ WellNumbered(live, count) /\ count \in Nat
  BY LiveAndArchived DEF AuditTyped
<1>2. /\ \A l \in rs : l \in Line /\ l.id \in Nat /\ l.id <= count
      /\ \A k, l \in rs : k.id = l.id => k = l
  BY <1>1, FileListed DEF Listed
<1>3. CASE w \in known
  <2>1. Tip(w) = cache[w] /\ cache[w] \in [seq : Nat, hash : Nat] /\ cache[w].hash \in 1 .. count
    BY <1>3 DEF Tip, AuditTyped, TipsAreLast
  <2>2. ASSUME NEW p \in rs, \A q \in rs : q.id <= p.id, cache[w].hash \in Ids(rs)
        PROVE  cache[w].hash = p.id
    <3>1. PICK r \in rs : r.id = cache[w].hash
      BY <2>2 DEF Ids
    <3>2. p.id <= r.id /\ r.id <= p.id
      BY <1>3, <2>2, <3>1 DEF TipsAreLast, Ids
    <3> QED
      BY <1>2, <3>1, <3>2
  <2> QED
    BY <1>1, <2>1, <2>2
<1>4. CASE w \notin known
  <2>1. Tip(w) = ReadTip(live)
    BY <1>4 DEF Tip
  <2>2. /\ ReadTip(live) \in [seq : Nat, hash : Nat] /\ ReadTip(live).hash <= count
        /\ live.tail = {} => ReadTip(live) = IF rs = {} THEN Genesis ELSE TipOf(Latest(rs))
    BY <1>1, ReadTipIs
  <2>3. ASSUME live.tail = {}, NEW p \in rs, \A q \in rs : q.id <= p.id
        PROVE  ReadTip(live).hash = p.id
    <3>1. Latest(rs) \in rs /\ \A k \in rs : k.id <= Latest(rs).id
      <4> HIDE DEF rs
      <4> QED
        BY <1>1, <1>2, <2>3, LatestIsLast
    <3>2. ReadTip(live).hash = Latest(rs).id
      BY <2>2, <2>3 DEF TipOf
    <3> QED
      BY <1>2, <2>3, <3>1, <3>2
  <2> QED
    BY <2>1, <2>2, <2>3
<1> QED
  BY <1>3, <1>4

\* A record that a writer adds, as RecordAfter makes it.
LEMMA RecordIs ==
    ASSUME count \in Nat, NEW tip \in [seq : Nat, hash : Nat], NEW marker \in BOOLEAN
    PROVE  /\ RecordAfter(tip, marker) \in Line /\ RecordAfter(tip, marker).id = count + 1
           /\ RecordAfter(tip, marker).prev = tip.hash /\ RecordAfter(tip, marker).seq = tip.seq + 1
           /\ RecordAfter(tip, marker).marker = marker
           /\ RecordAfter(tip, marker).whole /\ RecordAfter(tip, marker).intact
BY DEF RecordAfter, Line

\* The step leaves what is archived and changes the live file, whose records after it
\* were there or are new.
InPlace ==
    /\ archived' = archived /\ live' \in File /\ count' \in Nat /\ count <= count'
    /\ WellNumbered(live', count') /\ Linked(Readable(live'))
    /\ Shown(Readable(live'), scarred')
    /\ \A r \in Readable(live') : r.id \in Ids(Readable(live)) \/ count < r.id
    /\ scarred' \ scarred \subseteq Ids(Readable(live))

LEMMA InPlaceKeeps ==
    ASSUME AuditTyped, Numbered, InOrder, EditsBreak, InPlace
    PROVE  Numbered' /\ InOrder' /\ EditsBreak'
<1> DEFINE last == Len(archived) + 1
<1>1. /\ DOMAIN Segments = 1 .. last /\ Len(archived) \in Nat
      /\ Segments[last] = live /\ count \in Nat
      /\ \A i \in DOMAIN Segments : Segments[i] \in File /\ Listed(Readable(Segments[i]), count)
  BY LiveAndArchived DEF AuditTyped
<1>2. /\ DOMAIN Segments' = 1 .. last /\ Segments'[last] = live'
      /\ \A i \in 1 .. Len(archived) : Segments'[i] = Segments[i]
  <2>1. archived \in Seq(File) /\ live \in File
    BY DEF AuditTyped
  <2>2. Segments = Append(archived, live) /\ Segments' = Append(archived, live')
    BY DEF Segments, InPlace
  <2> QED
    BY <2>1, <2>2, SegmentsAre DEF InPlace
<1>3. \A i \in 1 .. Len(archived) : WellNumbered(Segments[i], count')
  <2> SUFFICES ASSUME NEW i \in 1 .. Len(archived) PROVE WellNumbered(Segments[i], count')
    OBVIOUS
  <2>1. WellNumbered(Segments[i], count) /\ Segments[i] \in File /\ count' \in Nat /\ count <= count'
    BY <1>1 DEF Numbered, InPlace
  <2>2. \A l \in Segments[i].lines \cup Segments[i].tail : l.id \in Nat
    BY <2>1 DEF File, Line
  <2> QED
    BY <1>1, <2>1, <2>2 DEF WellNumbered
<1>4. Numbered'
  BY <1>2, <1>3 DEF Numbered, InPlace
<1>5. \A i \in 1 .. Len(archived) : \A a \in Readable(Segments[i]), b \in Readable(live') : a.id < b.id
  <2> SUFFICES ASSUME NEW i \in 1 .. Len(archived), NEW a \in Readable(Segments[i]), NEW b \in Readable(live')
               PROVE  a.id < b.id
    OBVIOUS
  <2>1. a.id \in Nat /\ a.id <= count
    BY <1>1 DEF Listed, Line
  <2>2. b.id \in Nat
    BY FileListed DEF InPlace
  <2>3. CASE b.id \in Ids(Readable(live))
    BY <1>1, <2>3 DEF Ids, InOrder
  <2>4. CASE count < b.id
    BY <1>1, <2>1, <2>2, <2>4
  <2> QED
    BY <2>3, <2>4 DEF InPlace
<1>6. InOrder'
  BY <1>1, <1>2, <1>5 DEF InOrder
<1>7. ASSUME NEW i \in DOMAIN Segments', \E r \in Readable(Segments'[i]) : r.id \in scarred'
      PROVE  ~Chained(Segments'[i])
  <2>1. CASE i = last
    <3>1. Listed(Readable(live'), count')
      BY FileListed DEF InPlace
    <3>2. Shown(Readable(live'), scarred') /\ Segments'[i] = live'
      BY <1>2, <2>1 DEF InPlace
    <3> QED
      BY <1>7, <3>1, <3>2, ShownFails
  <2>2. CASE i \in 1 .. Len(archived)
    <3>1. PICK r \in Readable(Segments[i]) : r.id \in scarred'
      BY <1>2, <1>7, <2>2
    <3>2. r.id \notin Ids(Readable(live))
      BY <1>1, <2>2 DEF InOrder, Ids, Listed, Line
    <3>3. r.id \in scarred
      BY <3>1, <3>2 DEF InPlace
    <3> QED
      BY <1>1, <1>2, <2>2, <3>1, <3>3 DEF EditsBreak
  <2> QED
    BY <1>1, <1>2, <1>7, <2>1, <2>2
<1>8. EditsBreak'
  BY <1>7 DEF EditsBreak
<1> QED
  BY <1>4, <1>6, <1>8

\* A rotation keeps the segments from some place on, and begins a file with at most one line.
Rolled(off) ==
    /\ off \in 0 .. Len(archived) + 1
    /\ archived' = SubSeq(Segments, off + 1, Len(Segments))
    /\ live' \in File /\ count' = count + 1 /\ scarred' = scarred
    /\ \A l \in live'.lines \cup live'.tail : l.id = count + 1 /\ l.prev <= count
    /\ live'.tail = {} \/ live'.lines = {}
    /\ \A k, l \in live'.lines \cup live'.tail : k = l

\* The same segments, by their places.
LEMMA RolledSegments ==
    ASSUME AuditTyped, Numbered, NEW off, Rolled(off)
    PROVE  /\ archived' \in Seq(File) /\ Len(archived') = Len(archived) + 1 - off
           /\ Len(archived') \in Nat /\ DOMAIN archived' = 1 .. Len(archived')
           /\ DOMAIN Segments' = 1 .. Len(archived') + 1
           /\ \A i \in 1 .. Len(archived') : i + off \in DOMAIN Segments /\ Segments'[i] = Segments[i + off]
           /\ Segments'[Len(archived') + 1] = live'
<1>1. /\ DOMAIN Segments = 1 .. Len(archived) + 1 /\ Len(archived) \in Nat /\ Segments \in Seq(File)
      /\ Len(Segments) = Len(archived) + 1
      /\ \A i \in DOMAIN Segments : Segments[i] \in File
  BY LiveAndArchived, LenProperties
<1>2. /\ archived' = SubSeq(Segments, off + 1, Len(Segments)) /\ live' \in File
      /\ off \in Nat /\ off <= Len(Segments)
  BY <1>1 DEF Rolled
<1>3. /\ archived' \in Seq(File)
      /\ Len(archived') = IF off + 1 <= Len(Segments) THEN Len(Segments) - (off + 1) + 1 ELSE 0
      /\ \A i \in 1 .. Len(Segments) - (off + 1) + 1 : archived'[i] = Segments[off + 1 + i - 1]
  <2>1. off + 1 \in Int /\ Len(Segments) \in Int
    BY <1>1, <1>2
  <2>2. \A i \in off + 1 .. Len(Segments) : Segments[i] \in File
    BY <1>1, <1>2
  <2> QED
    BY <1>2, <2>1, <2>2, SubSeqProperties
<1>4. Len(archived') = Len(archived) + 1 - off
  BY <1>1, <1>2, <1>3
<1>5. /\ DOMAIN Segments' = 1 .. Len(archived') + 1 /\ Len(archived') \in Nat
      /\ DOMAIN archived' = 1 .. Len(archived')
      /\ \A i \in 1 .. Len(archived') : Segments'[i] = archived'[i]
      /\ Segments'[Len(archived') + 1] = live'
  <2>1. Segments' = Append(archived', live')
    BY DEF Segments
  <2> QED
    BY <1>2, <1>3, <2>1, SegmentsAre
<1>6. \A i \in 1 .. Len(archived') : i + off \in DOMAIN Segments /\ Segments'[i] = Segments[i + off]
  <2> SUFFICES ASSUME NEW i \in 1 .. Len(archived')
               PROVE  i + off \in DOMAIN Segments /\ Segments'[i] = Segments[i + off]
    OBVIOUS
  <2>1. i \in 1 .. Len(Segments) - (off + 1) + 1 /\ off + 1 + i - 1 = i + off
    BY <1>1, <1>2, <1>4
  <2> QED
    BY <1>1, <1>2, <1>3, <1>4, <1>5, <2>1
<1> QED
  BY <1>3, <1>4, <1>5, <1>6

LEMMA RolledKeeps ==
    ASSUME AuditTyped, Numbered, InOrder, EditsBreak, NEW off, Rolled(off)
    PROVE  /\ Numbered' /\ InOrder' /\ EditsBreak'
           /\ Linked(Readable(live')) /\ Shown(Readable(live'), scarred')
<1> DEFINE last == Len(archived') + 1
<1>1. /\ DOMAIN Segments' = 1 .. last /\ Len(archived') \in Nat /\ Segments'[last] = live'
      /\ \A i \in 1 .. Len(archived') : i + off \in DOMAIN Segments /\ Segments'[i] = Segments[i + off]
  BY RolledSegments
<1>2. /\ \A i \in DOMAIN Segments : Segments[i] \in File /\ Listed(Readable(Segments[i]), count)
      /\ count \in Nat /\ off \in Nat /\ count' = count + 1 /\ scarred \subseteq 1 .. count
      /\ DOMAIN Segments = 1 .. Len(archived) + 1 /\ Len(archived) \in Nat
  BY LiveAndArchived DEF AuditTyped, Rolled
<1>3. \A l \in Readable(live') : l.id = count + 1
  BY DEF Readable, Records, Rolled
<1>4. Numbered'
  <2>1. WellNumbered(live', count')
    <3>1. \A l \in live'.lines \cup live'.tail : l.id <= count + 1 /\ l.prev < l.id
      <4>1. \A l \in live'.lines \cup live'.tail : l \in Line
        BY DEF Rolled, File
      <4> QED
        BY <1>2, <4>1 DEF Rolled, Line
    <3> QED
      BY <1>2, <3>1 DEF WellNumbered, Rolled
  <2>2. ASSUME NEW i \in DOMAIN Segments PROVE WellNumbered(Segments[i], count')
    <3>1. WellNumbered(Segments[i], count) /\ Segments[i] \in File
      BY <1>2 DEF Numbered
    <3>2. \A l \in Segments[i].lines \cup Segments[i].tail : l.id \in Nat
      BY <3>1 DEF File, Line
    <3> QED
      BY <1>2, <3>1, <3>2 DEF WellNumbered
  <2> QED
    BY <1>1, <2>1, <2>2 DEF Numbered
<1>5. InOrder'
  <2> SUFFICES ASSUME NEW i \in 1 .. last, NEW j \in 1 .. last, i < j,
                      NEW a \in Readable(Segments'[i]), NEW b \in Readable(Segments'[j])
               PROVE  a.id < b.id
    BY <1>1 DEF InOrder
  <2>1. i \in 1 .. Len(archived') /\ i + off \in DOMAIN Segments /\ a \in Readable(Segments[i + off])
    BY <1>1
  <2>2. CASE j = last
    <3>1. b.id = count + 1
      BY <1>1, <1>3, <2>2
    <3>2. a.id \in Nat /\ a.id <= count
      BY <1>2, <2>1 DEF Listed, Line
    <3> QED
      BY <1>2, <3>1, <3>2
  <2>3. CASE j # last
    <3>1. j \in 1 .. Len(archived')
      BY <1>1, <2>3
    <3>2. j + off \in DOMAIN Segments /\ b \in Readable(Segments[j + off])
      BY <1>1, <3>1
    <3>3. i + off < j + off
      BY <1>2
    <3> QED
      BY <2>1, <3>2, <3>3 DEF InOrder
  <2> QED
    BY <2>2, <2>3
<1>6. EditsBreak'
  <2> SUFFICES ASSUME NEW i \in 1 .. last, NEW r \in Readable(Segments'[i]), r.id \in scarred
               PROVE  ~Chained(Segments'[i])
    BY <1>1 DEF EditsBreak, Rolled
  <2>1. i # last
    BY <1>1, <1>2, <1>3
  <2>2. i + off \in DOMAIN Segments /\ Segments'[i] = Segments[i + off]
    BY <1>1, <2>1
  <2> QED
    BY <2>2 DEF EditsBreak
<1>7. Linked(Readable(live')) /\ Shown(Readable(live'), scarred')
  <2>1. \A r \in Readable(live') : r.id \notin scarred'
    BY <1>2, <1>3 DEF Rolled
  <2> QED
    BY <1>2, <1>3, <2>1 DEF Linked, Shown
<1> QED
  BY <1>4, <1>5, <1>6, <1>7

-----------------------------------------------------------------------------
(* The steps.                                                              *)

\* A write to the live file, finished or not.
LEMMA WriteInPlace ==
    ASSUME AuditInv, NEW w \in Writers, archived' = archived, count' = count + 1, scarred' = scarred,
           live' \in File,
           \/ live' = live
           \/ Grown(live, live', RecordAfter(Tip(w), FALSE))
           \/ Cut(live, live', count + 1)
    PROVE  InPlace
<1> DEFINE r == RecordAfter(Tip(w), FALSE)
           rs == Readable(live)
<1>1. /\ live \in File /\ WellNumbered(live, count) /\ Listed(rs, count) /\ count \in Nat
      /\ Linked(rs) /\ Shown(rs, scarred) /\ scarred \subseteq 1 .. count
  BY LiveAndArchived DEF AuditInv, AuditTyped
<1>2. /\ Tip(w) \in [seq : Nat, hash : Nat] /\ Tip(w).hash <= count
      /\ live.tail = {} => \A p \in rs : (\A q \in rs : q.id <= p.id)
           => Tip(w).hash = p.id \/ (Tip(w).hash # 0 /\ Tip(w).hash \notin Ids(rs))
  BY TipServes DEF AuditInv
<1>3. r \in Line /\ r.id = count + 1 /\ r.prev = Tip(w).hash /\ ~r.marker /\ r.whole
  BY <1>1, <1>2, RecordIs
<1> HIDE DEF r
<1>4. \A l \in rs : l.id \in Nat /\ l.id <= count
  BY <1>1, FileListed
<1>5. CASE live' = live
  <2>1. WellNumbered(live, count + 1)
    <3>1. \A l \in live.lines \cup live.tail : l.id \in Nat
      BY <1>1 DEF File, Line
    <3> QED
      BY <1>1, <3>1 DEF WellNumbered
  <2>2. \A l \in Readable(live') : l.id \in Ids(rs)
    BY <1>5 DEF Ids
  <2> QED
    BY <1>1, <1>5, <2>1, <2>2 DEF InPlace
<1>6. CASE Grown(live, live', r)
  <2>1. Readable(live') = rs \cup {r} /\ WellNumbered(live', count + 1) /\ live.tail = {}
    BY <1>1, <1>2, <1>3, <1>6, GrownReads DEF Grown
  <2>2. Linked(rs \cup {r})
    BY <1>1, <1>2, <1>3, <2>1, LinkedGrows
  <2>3. Shown(rs \cup {r}, scarred)
    <3> SUFFICES ASSUME NEW s \in rs \cup {r}, s.id \in scarred
                 PROVE  \E q \in rs \cup {r} : q.id <= s.id /\ (~q.intact \/ Stray(rs \cup {r}, q))
      BY DEF Shown
    <3>1. s \in rs
      BY <1>1, <1>3
    <3>2. PICK q \in rs : q.id <= s.id /\ (~q.intact \/ Stray(rs, q))
      BY <1>1, <3>1 DEF Shown
    <3>3. q.prev # r.id
      BY <1>1, <1>3, <1>4 DEF Listed, Line
    <3>4. Stray(rs, q) => Stray(rs \cup {r}, q)
      BY <3>3 DEF Stray, Ids
    <3> QED
      BY <3>2, <3>4
  <2>4. \A l \in rs \cup {r} : l.id \in Ids(rs) \/ count < l.id
    BY <1>1, <1>3 DEF Ids
  <2> QED
    BY <1>1, <2>1, <2>2, <2>3, <2>4 DEF InPlace
<1>7. CASE Cut(live, live', count + 1)
  <2>1. /\ Readable(live') \in SUBSET rs /\ WellNumbered(live', count + 1)
        /\ \A p \in Readable(live'), q \in rs \ Readable(live') : p.id < q.id
    BY <1>1, <1>7, CutReads
  <2>2. Linked(Readable(live')) /\ Shown(Readable(live'), scarred)
    BY <1>1, <2>1, CutHolds
  <2>3. \A l \in Readable(live') : l.id \in Ids(rs)
    BY <2>1 DEF Ids
  <2> QED
    BY <1>1, <2>1, <2>2, <2>3 DEF InPlace
<1> QED
  BY <1>5, <1>6, <1>7 DEF r

\* What append does to the file, in either case.
LEMMA AppendWrites ==
    ASSUME AuditInv, NEW w \in Writers, AppendRecord(w) \/ AppendFails(w)
    PROVE  /\ InPlace /\ RecordAfter(Tip(w), FALSE) \in Line
           /\ \/ live' = live /\ AppendFails(w)
              \/ Grown(live, live', RecordAfter(Tip(w), FALSE))
              \/ Cut(live, live', count + 1)
           /\ AppendRecord(w) => live'.tail = {}
<1> DEFINE r == RecordAfter(Tip(w), FALSE)
<1>1. live \in File /\ count \in Nat /\ Tip(w) \in [seq : Nat, hash : Nat]
  BY TipServes DEF AuditInv, AuditTyped
<1>2. r \in Line /\ r.id = count + 1
  BY <1>1, RecordIs
<1>3. CASE AppendRecord(w)
  <2>1. live' = Written(live, r) /\ archived' = archived /\ count' = count + 1 /\ scarred' = scarred
    BY <1>3 DEF AppendRecord
  <2> HIDE DEF r
  <2>2. live' \in File /\ live'.tail = {} /\ (Grown(live, live', r) \/ Cut(live, live', count + 1))
    BY <1>1, <1>2, <2>1, WriteKinds
  <2> QED
    BY <1>2, <2>1, <2>2, WriteInPlace DEF r
<1>4. CASE AppendFails(w)
  <2>1. live' \in Unfinished(live, r) /\ archived' = archived /\ count' = count + 1 /\ scarred' = scarred
    BY <1>4 DEF AppendFails
  <2> HIDE DEF r
  <2>2. live' \in File /\ (live' = live \/ Grown(live, live', r) \/ Cut(live, live', count + 1))
    BY <1>1, <1>2, <2>1, WriteKinds
  <2>3. InPlace
    BY <2>1, <2>2, WriteInPlace DEF r
  <2>4. AppendRecord(w) => live'.tail = {}
    BY <1>3
  <2> QED
    BY <1>2, <1>4, <2>2, <2>3, <2>4 DEF r
<1> QED
  BY <1>3, <1>4

\* An alteration leaves every number in its place.
LEMMA AlterChanges ==
    ASSUME live \in File, NEW x \in Records(live.lines), Alter(x)
    PROVE  /\ Ids(Readable(live')) = Ids(Readable(live)) /\ live'.tail = live.tail
           /\ Ids(live'.lines \cup live'.tail) \subseteq Ids(live.lines \cup live.tail)
           /\ \E y \in Line : /\ y.id = x.id
                              /\ Records(live'.lines) = (Records(live.lines) \ {x}) \cup {y}
<1> DEFINE y == [x EXCEPT !.intact = FALSE]
<1>1. x \in live.lines /\ x \in Line /\ x.whole
  BY DEF File, Records
<1>2. y \in Line /\ y.id = x.id /\ y.whole
  BY <1>1 DEF Line
<1>3. live'.lines = (live.lines \ {x}) \cup {y} /\ live'.tail = live.tail
  BY DEF Alter, File
<1> HIDE DEF y
<1>4. Records(live'.lines) = (Records(live.lines) \ {x}) \cup {y}
  BY <1>1, <1>2, <1>3 DEF Records
<1>5. Ids(Records(live'.lines)) = Ids(Records(live.lines))
  BY <1>1, <1>2, <1>4 DEF Ids, Records
<1>6. /\ Readable(live') = Records(live'.lines) \cup Records(live.tail)
      /\ Readable(live) = Records(live.lines) \cup Records(live.tail)
  BY <1>3 DEF Readable, Records
<1>7. Ids(Readable(live')) = Ids(Readable(live))
  BY <1>5, <1>6 DEF Ids
<1>8. Ids(live'.lines \cup live'.tail) \subseteq Ids(live.lines \cup live.tail)
  BY <1>1, <1>2, <1>3 DEF Ids
<1> QED
  BY <1>2, <1>3, <1>4, <1>7, <1>8

\* A deletion takes one.
LEMMA DeleteChanges ==
    ASSUME live \in File, NEW x \in Records(live.lines), Delete(x)
    PROVE  /\ Records(live'.lines) = Records(live.lines) \ {x} /\ live'.tail = live.tail
           /\ Ids(live'.lines \cup live'.tail) \subseteq Ids(live.lines \cup live.tail)
<1>1. live'.lines = live.lines \ {x} /\ live'.tail = live.tail
  BY DEF Delete, File
<1> QED
  BY <1>1 DEF Records, Ids

LEMMA EditInPlace ==
    ASSUME AuditInv, Edit
    PROVE  InPlace
<1> DEFINE rs == Readable(live)
<1>1. /\ live \in File /\ WellNumbered(live, count) /\ Listed(rs, count) /\ count \in Nat
      /\ Linked(rs) /\ Shown(rs, scarred)
      /\ archived' = archived /\ count' = count
  BY LiveAndArchived DEF AuditInv, AuditTyped, Edit
<1>2. /\ live = [lines |-> live.lines, tail |-> live.tail]
      /\ live.lines \subseteq Line /\ live.tail \subseteq Line
  BY <1>1 DEF File
<1>3. PICK x \in Records(live.lines) : Alter(x) \/ Delete(x)
  BY DEF Edit
<1>4. x \in live.lines /\ x \in rs /\ x.whole /\ x \in Line
  BY <1>2, <1>3 DEF Records, Readable
<1>5. x \notin live.tail
  BY <1>1, <1>4 DEF WellNumbered, Line
<1>6. CASE Alter(x)
  <2> DEFINE y == [x EXCEPT !.intact = FALSE]
  <2>1. y \in Line /\ y.id = x.id /\ y.prev = x.prev /\ y.marker = x.marker /\ ~y.intact /\ y.whole
    BY <1>4 DEF Line
  <2> HIDE DEF y
  <2>2. /\ live' = [lines |-> (live.lines \ {x}) \cup {y}, tail |-> live.tail]
        /\ scarred' = scarred \cup {x.id}
    BY <1>2, <1>6 DEF Alter, y
  <2>3. live' \in File
    BY <1>2, <2>1, <2>2 DEF File
  <2>4. Readable(live') = (rs \ {x}) \cup {y}
    BY <1>4, <1>5, <2>1, <2>2 DEF Readable, Records
  <2>5. /\ Linked(Readable(live')) /\ Ids(Readable(live')) = Ids(rs)
        /\ Shown(Readable(live'), scarred')
    BY <1>1, <1>4, <2>1, <2>2, <2>4, AlterHolds
  <2>6. WellNumbered(live', count)
    <3>1. live'.lines \cup live'.tail = ((live.lines \cup live.tail) \ {x}) \cup {y}
      BY <1>5, <2>2
    <3>2. \A k, l \in live'.lines \cup live'.tail : k.id = l.id => k = l
      BY <1>1, <1>4, <2>1, <3>1 DEF WellNumbered
    <3> QED
      BY <1>1, <1>4, <2>1, <2>2, <3>1, <3>2 DEF WellNumbered
  <2>7. scarred' \ scarred \subseteq Ids(rs)
    BY <1>4, <2>2 DEF Ids
  <2>8. \A l \in Readable(live') : l.id \in Ids(rs)
    BY <2>5 DEF Ids
  <2> QED
    BY <1>1, <2>3, <2>5, <2>6, <2>7, <2>8 DEF InPlace
<1>7. CASE Delete(x)
  <2>1. /\ live' = [lines |-> live.lines \ {x}, tail |-> live.tail]
        /\ scarred' = scarred \cup Ids({l \in rs : l.id > x.id})
    BY <1>2, <1>7 DEF Delete
  <2>2. live' \in File
    BY <1>2, <2>1 DEF File
  <2>3. Readable(live') = rs \ {x}
    BY <1>5, <2>1 DEF Readable, Records
  <2>4. Linked(Readable(live')) /\ Shown(Readable(live'), scarred')
    <3>1. Linked(rs \ {x}) /\ Shown(rs \ {x}, scarred \cup Ids({l \in rs : l.id > x.id}))
      <4> HIDE DEF rs
      <4> QED
        BY <1>1, <1>4, DeleteHolds
    <3> QED
      BY <2>1, <2>3, <3>1
  <2>5. WellNumbered(live', count)
    BY <1>1, <2>1 DEF WellNumbered
  <2>6. scarred' \ scarred \subseteq Ids(rs) /\ \A l \in Readable(live') : l.id \in Ids(rs)
    BY <2>1, <2>3 DEF Ids
  <2> QED
    BY <1>1, <2>2, <2>4, <2>5, <2>6 DEF InPlace
<1> QED
  BY <1>3, <1>6, <1>7

LEMMA RestartInPlace ==
    ASSUME AuditInv, NEW w \in Writers, Restart(w)
    PROVE  InPlace
<1>1. /\ live \in File /\ WellNumbered(live, count) /\ count \in Nat
      /\ Linked(Readable(live)) /\ Shown(Readable(live), scarred)
  BY LiveAndArchived DEF AuditInv, AuditTyped
<1>2. live' = live /\ archived' = archived /\ count' = count /\ scarred' = scarred
  BY DEF Restart
<1>3. \A l \in Readable(live) : l.id \in Ids(Readable(live))
  BY DEF Ids
<1> QED
  BY <1>1, <1>2, <1>3 DEF InPlace

\* A rotation that finishes keeps the newest segments, one that fails keeps all.
LEMMA RotationRolls ==
    ASSUME AuditInv, Rotate \/ RotateFails
    PROVE  /\ Marker \in Line
           /\ Rotate => Rolled(Surplus(Segments)) /\ live' = [lines |-> {Marker}, tail |-> {}]
           /\ RotateFails => Rolled(0)
<1>1. /\ live \in File /\ WellNumbered(live, count) /\ count \in Nat
      /\ Segments \in Seq(File) /\ DOMAIN Segments = 1 .. Len(archived) + 1
      /\ Len(archived) \in Nat /\ Keep \in Nat
  BY LiveAndArchived, AuditAssumption DEF AuditInv, AuditTyped
<1>2. ReadTip(live) \in [seq : Nat, hash : Nat] /\ ReadTip(live).hash <= count
  BY <1>1, ReadTipIs
<1>3. Marker \in Line /\ Marker.id = count + 1 /\ Marker.prev <= count
  BY <1>1, <1>2, RecordIs DEF Marker
<1>4. Rubble(count + 1) \in Line /\ Rubble(count + 1).id = count + 1 /\ Rubble(count + 1).prev = 0
  BY <1>1, RubbleIsLine
<1>5. Segments = Append(archived, live) /\ Len(Segments) = Len(archived) + 1
  BY <1>1, LenProperties DEF Segments
<1>6. Written(Empty, Marker) = [lines |-> {Marker}, tail |-> {}]
  BY DEF Written, Empty
<1>7. CASE Rotate
  <2>1. /\ archived' = Newest(Segments) /\ live' = [lines |-> {Marker}, tail |-> {}]
        /\ count' = count + 1 /\ scarred' = scarred
    BY <1>5, <1>6, <1>7 DEF Rotate
  <2>2. Surplus(Segments) \in 0 .. Len(archived) + 1
    BY <1>1, <1>5 DEF Surplus
  <2>3. live' \in File
    BY <1>3, <2>1 DEF File
  <2>4. Rolled(Surplus(Segments))
    BY <1>3, <2>1, <2>2, <2>3 DEF Rolled, Newest
  <2>5. ~RotateFails
    <3>1. Rotate => faults' = faults
      BY DEF Rotate
    <3>2. RotateFails => faults' = faults + 1
      BY DEF RotateFails
    <3>3. faults \in Nat
      BY DEF AuditInv, AuditTyped
    <3> QED
      BY <1>7, <3>1, <3>2, <3>3
  <2> QED
    BY <1>3, <2>1, <2>4, <2>5
<1>8. CASE RotateFails
  <2>1. /\ archived' = Segments /\ live' \in Unfinished(Empty, Marker)
        /\ count' = count + 1 /\ scarred' = scarred
    BY <1>5, <1>8 DEF RotateFails
  <2>2. \/ live' = [lines |-> {}, tail |-> {}]
        \/ live' = [lines |-> {Marker}, tail |-> {}]
        \/ live' = [lines |-> {}, tail |-> {Rubble(count + 1)}]
        \/ live' = [lines |-> {}, tail |-> {Marker}]
    BY <1>3, <1>6, <2>1 DEF Unfinished, Empty
  <2>3. archived' = SubSeq(Segments, 0 + 1, Len(Segments))
    BY <1>1, <2>1, SubSeqFull
  <2>4. /\ live' \in File
        /\ \A l \in live'.lines \cup live'.tail : l.id = count + 1 /\ l.prev <= count
        /\ live'.tail = {} \/ live'.lines = {}
        /\ \A k, l \in live'.lines \cup live'.tail : k = l
    BY <1>1, <1>3, <1>4, <2>2 DEF File
  <2>5. Rolled(0)
    BY <1>1, <2>1, <2>3, <2>4 DEF Rolled
  <2>6. ~Rotate
    <3>1. Rotate => faults' = faults
      BY DEF Rotate
    <3>2. RotateFails => faults' = faults + 1
      BY DEF RotateFails
    <3>3. faults \in Nat
      BY DEF AuditInv, AuditTyped
    <3> QED
      BY <1>8, <3>1, <3>2, <3>3
  <2> QED
    BY <1>3, <2>5, <2>6
<1> QED
  BY <1>7, <1>8

\* The files are in order after every step.
LEMMA FilesKept ==
    ASSUME AuditInv, Next
    PROVE  /\ Numbered' /\ InOrder' /\ EditsBreak'
           /\ Linked(Readable(live')) /\ Shown(Readable(live'), scarred')
           /\ live' \in File /\ archived' \in Seq(File)
<1>1. CASE InPlace
  BY <1>1, InPlaceKeeps DEF AuditInv, AuditTyped, InPlace
<1>2. ASSUME NEW off, Rolled(off)
      PROVE  /\ Numbered' /\ InOrder' /\ EditsBreak'
             /\ Linked(Readable(live')) /\ Shown(Readable(live'), scarred')
             /\ live' \in File /\ archived' \in Seq(File)
  <2>1. live' \in File
    BY <1>2 DEF Rolled
  <2>2. archived' \in Seq(File)
    BY <1>2, RolledSegments DEF AuditInv
  <2> QED
    BY <1>2, <2>1, <2>2, RolledKeeps DEF AuditInv
<1>3. InPlace \/ \E off : Rolled(off)
  BY AppendWrites, EditInPlace, RestartInPlace, RotationRolls DEF Next
<1> QED
  BY <1>1, <1>2, <1>3

LEMMA TypedKept ==
    ASSUME AuditInv, Next
    PROVE  AuditTyped'
<1>1. live' \in File /\ archived' \in Seq(File)
  BY FilesKept
<1>2. /\ known \subseteq Writers /\ cache \in [Writers -> [seq : Nat, hash : Nat]]
      /\ count \in Nat /\ faults \in Nat /\ edits \in Nat
      /\ acked \subseteq 1 .. count /\ dropped \subseteq Nat /\ scarred \subseteq 1 .. count
      /\ live.lines \subseteq Line
  BY DEF AuditInv, AuditTyped, File
<1>3. /\ Ids(Readable(live)) \subseteq 1 .. count
      /\ \A i \in DOMAIN Segments : Ids(Readable(Segments[i])) \subseteq Nat
  <2>1. \A i \in DOMAIN Segments : Listed(Readable(Segments[i]), count)
    BY LiveAndArchived DEF AuditInv
  <2>2. Listed(Readable(live), count)
    BY LiveAndArchived DEF AuditInv
  <2> QED
    BY <1>2, <2>1, <2>2 DEF Ids, Listed, Line
<1>4. ASSUME NEW w \in Writers, AppendRecord(w) PROVE AuditTyped'
  <2> DEFINE r == RecordAfter(Tip(w), FALSE)
  <2>1. r \in Line /\ r.id = count + 1 /\ TipOf(r) \in [seq : Nat, hash : Nat]
    <3>1. Tip(w) \in [seq : Nat, hash : Nat]
      BY TipServes DEF AuditInv
    <3>2. r \in Line /\ r.id = count + 1
      BY <1>2, <3>1, RecordIs
    <3> HIDE DEF r
    <3> QED
      BY <3>2 DEF TipOf, Line
  <2>2. /\ known' = {w} /\ cache' = [cache EXCEPT ![w] = TipOf(r)] /\ count' = count + 1
        /\ acked' = acked \cup {r.id}
        /\ UNCHANGED <<archived, faults, edits, dropped, scarred>>
    BY <1>4 DEF AppendRecord
  <2> HIDE DEF r
  <2>3. cache' \in [Writers -> [seq : Nat, hash : Nat]]
    BY <1>2, <2>1, <2>2
  <2> QED
    BY <1>1, <1>2, <2>1, <2>2, <2>3 DEF AuditTyped
<1>5. ASSUME NEW w \in Writers, AppendFails(w) PROVE AuditTyped'
  <2>1. /\ known' \subseteq known /\ count' = count + 1 /\ faults' = faults + 1
        /\ UNCHANGED <<archived, cache, edits, acked, dropped, scarred>>
    BY <1>5 DEF AppendFails
  <2> QED
    BY <1>1, <1>2, <2>1 DEF AuditTyped
<1>6. ASSUME NEW w \in Writers, Restart(w) PROVE AuditTyped'
  <2>1. /\ known' \subseteq known
        /\ UNCHANGED <<archived, cache, count, faults, edits, acked, dropped, scarred>>
    BY <1>6 DEF Restart
  <2> QED
    BY <1>1, <1>2, <2>1 DEF AuditTyped
<1>7. CASE Rotate
  <2>1. /\ known' = {} /\ count' = count + 1 /\ UNCHANGED <<cache, faults, edits, acked, scarred>>
        /\ dropped' = dropped \cup UNION {Ids(Readable(Segments[i])) : i \in 1 .. Surplus(Segments)}
    BY <1>7 DEF Rotate, Segments
  <2>2. 1 .. Surplus(Segments) \subseteq DOMAIN Segments
    <3>1. DOMAIN Segments = 1 .. Len(archived) + 1 /\ Len(archived) \in Nat
      BY LiveAndArchived DEF AuditInv
    <3>2. Surplus(Segments) \in 0 .. Len(archived) + 1
      BY <1>7, RotationRolls DEF Rolled
    <3> QED
      BY <3>1, <3>2
  <2>3. dropped' \subseteq Nat
    <3> DEFINE gone == {Ids(Readable(Segments[i])) : i \in 1 .. Surplus(Segments)}
    <3>1. \A ids \in gone : ids \subseteq Nat
      BY <1>3, <2>2
    <3> HIDE DEF gone
    <3>2. UNION gone \subseteq Nat
      BY <3>1
    <3> QED
      BY <1>2, <2>1, <3>2 DEF gone
  <2> QED
    BY <1>1, <1>2, <2>1, <2>3 DEF AuditTyped
<1>8. CASE RotateFails
  <2>1. /\ known' = {} /\ count' = count + 1 /\ faults' = faults + 1
        /\ UNCHANGED <<cache, edits, acked, dropped, scarred>>
    BY <1>8 DEF RotateFails
  <2> QED
    BY <1>1, <1>2, <2>1 DEF AuditTyped
<1>9. CASE Edit
  <2>1. /\ edits' = edits + 1 /\ UNCHANGED <<cache, count, faults, acked>>
        /\ known' \subseteq known /\ dropped' \subseteq Nat
    <3>1. PICK x \in Records(live.lines) : Alter(x) \/ Delete(x)
      BY <1>9 DEF Edit
    <3>2. x.id \in Nat
      BY <1>2, <3>1 DEF Records, Line
    <3> QED
      BY <1>2, <1>9, <3>1, <3>2 DEF Edit, Alter, Delete
  <2>2. scarred' \subseteq 1 .. count
    BY <1>2, <1>3, <1>9, EditInPlace DEF InPlace
  <2> QED
    BY <1>1, <1>2, <2>1, <2>2 DEF AuditTyped
<1> QED
  BY <1>4, <1>5, <1>6, <1>7, <1>8, <1>9 DEF Next

LEMMA TipsKept ==
    ASSUME AuditInv, Next
    PROVE  TipsAreLast'
<1>1. /\ live \in File /\ WellNumbered(live, count) /\ Listed(Readable(live), count) /\ count \in Nat
      /\ cache \in [Writers -> [seq : Nat, hash : Nat]] /\ known \subseteq Writers
  BY LiveAndArchived DEF AuditInv, AuditTyped
<1>2. \A id \in Ids(Readable(live)) : id \in Nat /\ id <= count
  BY <1>1 DEF Ids, Listed, Line
<1>3. ASSUME NEW w \in Writers, AppendRecord(w) PROVE TipsAreLast'
  <2> DEFINE r == RecordAfter(Tip(w), FALSE)
  <2>1. r \in Line /\ r.id = count + 1 /\ r.whole /\ r.prev <= count
    BY <1>1, TipServes, RecordIs DEF AuditInv
  <2>2. known' = {w} /\ cache'[w] = TipOf(r) /\ count' = count + 1
    BY <1>1, <1>3 DEF AppendRecord
  <2>3. Grown(live, live', r) \/ Cut(live, live', count + 1)
    <3>1. ~AppendFails(w)
      <4>1. AppendRecord(w) => faults' = faults
        BY DEF AppendRecord
      <4>2. AppendFails(w) => faults' = faults + 1
        BY DEF AppendFails
      <4>3. faults \in Nat
        BY DEF AuditInv, AuditTyped
      <4> QED
        BY <1>3, <4>1, <4>2, <4>3
    <3> QED
      BY <1>3, <3>1, AppendWrites
  <2> HIDE DEF r
  <2>4. \A id \in Ids(Readable(live')) : id <= count + 1
    <3>1. CASE Grown(live, live', r)
      <4>1. Readable(live') = Readable(live) \cup {r}
        BY <1>1, <2>1, <3>1, GrownReads
      <4> QED
        BY <1>1, <1>2, <2>1, <4>1 DEF Ids
    <3>2. CASE Cut(live, live', count + 1)
      <4>1. Readable(live') \subseteq Readable(live)
        BY <1>1, <3>2, CutReads
      <4> QED
        BY <1>1, <1>2, <4>1 DEF Ids
    <3> QED
      BY <2>3, <3>1, <3>2
  <2> QED
    BY <1>1, <2>1, <2>2, <2>4 DEF TipsAreLast, TipOf
<1>4. ASSUME known' \subseteq known, cache' = cache, count' \in Nat, count <= count',
             known' # {} => Ids(Readable(live')) = Ids(Readable(live))
      PROVE  TipsAreLast'
  BY <1>1, <1>4 DEF TipsAreLast, AuditInv
<1>5. ASSUME NEW w \in Writers, AppendFails(w) PROVE TipsAreLast'
  <2>1. /\ known' \subseteq known /\ cache' = cache /\ count' = count + 1
        /\ known' # {} => live' = live
    BY <1>5 DEF AppendFails
  <2> QED
    BY <1>1, <1>4, <2>1
<1>6. ASSUME NEW w \in Writers, Restart(w) PROVE TipsAreLast'
  <2>1. known' \subseteq known /\ cache' = cache /\ count' = count /\ live' = live
    BY <1>6 DEF Restart
  <2> QED
    BY <1>1, <1>4, <2>1
<1>7. CASE Rotate \/ RotateFails
  BY <1>7 DEF Rotate, RotateFails, TipsAreLast
<1>8. CASE Edit
  <2>1. PICK x \in Records(live.lines) : Alter(x) \/ Delete(x)
    BY <1>8 DEF Edit
  <2>2. cache' = cache /\ count' = count
    BY <1>8 DEF Edit
  <2>3. CASE Delete(x)
    BY <2>3 DEF Delete, TipsAreLast
  <2>4. CASE Alter(x)
    <3>1. Ids(Readable(live')) = Ids(Readable(live))
      BY <1>1, <2>1, <2>4, AlterChanges
    <3> QED
      BY <1>1, <1>4, <2>2, <2>4, <3>1 DEF Alter
  <2> QED
    BY <2>1, <2>3, <2>4
<1> QED
  BY <1>3, <1>5, <1>6, <1>7, <1>8 DEF Next

\* The last of a grown file is the new record.
LEMMA LatestIsNew ==
    ASSUME NEW rs, NEW n, Listed(rs, n), NEW r \in Line, r.id = n + 1
    PROVE  Latest(rs \cup {r}) = r
<1>1. n \in Nat /\ \A l \in rs : l.id \in Nat /\ l.id < r.id
  BY DEF Listed, Line
<1>2. \A l \in rs \cup {r} : l.id \in Nat /\ l.id <= n + 1
  BY <1>1
<1>3. Latest(rs \cup {r}) \in rs \cup {r} /\ r.id <= Latest(rs \cup {r}).id
  BY <1>1, <1>2, LatestIsLast
<1> QED
  BY <1>1, <1>3

\* What is so while nothing has failed.
LEMMA WhileUndisturbed ==
    ASSUME AuditInv, faults = 0, edits = 0
    PROVE  /\ \A i \in DOMAIN Segments : Segments[i].tail = {} /\ Readable(Segments[i]) = Segments[i].lines
           /\ live.tail = {} /\ Readable(live) = live.lines /\ Records(live.lines) = live.lines
           /\ archived # <<>> => live.lines # {}
           /\ Chained(live)
           /\ ReadTip(live) = IF live.lines = {} THEN Genesis ELSE TipOf(Latest(live.lines))
           /\ \A w \in Writers : Tip(w) = ReadTip(live)
<1>1. \A i \in DOMAIN Segments : /\ Segments[i].tail = {}
                                 /\ Records(Segments[i].lines) = Segments[i].lines
  BY DEF AuditInv, Undisturbed
<1>2. \A i \in DOMAIN Segments : Readable(Segments[i]) = Segments[i].lines
  BY <1>1 DEF Readable, Records
<1>3. /\ Len(archived) + 1 \in DOMAIN Segments /\ Segments[Len(archived) + 1] = live
      /\ live \in File /\ WellNumbered(live, count) /\ count \in Nat
  BY LiveAndArchived DEF AuditInv, AuditTyped
<1>4. Chained(live)
  BY <1>3 DEF AuditInv, SegmentsChain
<1>5. ReadTip(live) = IF live.lines = {} THEN Genesis ELSE TipOf(Latest(live.lines))
  BY <1>1, <1>2, <1>3, ReadTipIs
<1>6. \A w \in Writers : Tip(w) = ReadTip(live)
  BY <1>5 DEF Tip, AuditInv, Undisturbed
<1> QED
  BY <1>1, <1>2, <1>3, <1>4, <1>5, <1>6 DEF AuditInv, Undisturbed

\* In an undisturbed log an append extends the live file's chain.
LEMMA AppendJoins ==
    ASSUME AuditInv, NEW w \in Writers, AppendRecord(w), faults = 0, edits = 0
    PROVE  Undisturbed' /\ SegmentsChain'
<1> DEFINE r == RecordAfter(Tip(w), FALSE)
           last == Len(archived) + 1
<1>1. /\ live \in File /\ Listed(Readable(live), count) /\ WellNumbered(live, count) /\ count \in Nat
      /\ Segments \in Seq(File) /\ DOMAIN Segments = 1 .. last /\ Len(archived) \in Nat
      /\ DOMAIN archived = 1 .. Len(archived) /\ Segments[last] = live
      /\ archived \in Seq(File) /\ live' \in File
  BY LiveAndArchived, FilesKept DEF AuditInv, AuditTyped, Next
<1>2. /\ live.tail = {} /\ Readable(live) = live.lines /\ Records(live.lines) = live.lines
      /\ Chained(live) /\ Tip(w) = IF live.lines = {} THEN Genesis ELSE TipOf(Latest(live.lines))
      /\ \A i \in DOMAIN Segments : Segments[i].tail = {} /\ Readable(Segments[i]) = Segments[i].lines
  BY WhileUndisturbed
<1>3. /\ r \in Line /\ r.id = count + 1 /\ r.whole /\ r.intact
      /\ r.seq = Tip(w).seq + 1 /\ r.prev = Tip(w).hash
  BY <1>1, TipServes, RecordIs DEF AuditInv
<1>4. live' = Written(live, r) /\ archived' = archived /\ known' = {w} /\ cache'[w] = TipOf(r)
  BY DEF AppendRecord, AuditInv, AuditTyped
<1> HIDE DEF r
<1>5. live'.lines = live.lines \cup {r} /\ live'.tail = {} /\ Readable(live') = live'.lines
      /\ Records(live'.lines) = live'.lines
  <2>1. live' = [lines |-> live.lines \cup {r}, tail |-> {}]
    BY <1>2, <1>4 DEF Written
  <2>2. Records(live'.lines) = live'.lines
    BY <1>2, <1>3, <2>1 DEF Records
  <2> QED
    BY <2>1, <2>2 DEF Readable
<1>6. /\ DOMAIN Segments' = 1 .. last /\ Segments'[last] = live'
      /\ \A i \in 1 .. Len(archived) : Segments'[i] = Segments[i]
  <2>1. Segments = Append(archived, live) /\ Segments' = Append(archived, live')
    BY <1>4 DEF Segments
  <2> QED
    BY <1>1, <2>1, SegmentsAre
<1>7. Chained(live') /\ \A q \in live.lines : Before(live'.lines, q) = Before(live.lines, q)
  <2>1. IF live.lines = {} THEN r.seq = 1 /\ r.prev = 0
        ELSE r.seq = Latest(live.lines).seq + 1 /\ r.prev = Latest(live.lines).id
    BY <1>2, <1>3 DEF TipOf, Genesis
  <2>2. IF Readable(live) = {} THEN r.seq = 1 /\ r.prev = 0
        ELSE r.seq = Latest(Readable(live)).seq + 1 /\ r.prev = Latest(Readable(live)).id
    BY <1>2, <2>1
  <2>3. Readable(live') = Readable(live) \cup {r}
    BY <1>2, <1>5
  <2>4. /\ Chained(live')
        /\ \A q \in Readable(live) : Before(Readable(live'), q) = Before(Readable(live), q)
    BY <1>1, <1>2, <1>3, <2>2, <2>3, ChainedGrows
  <2> QED
    BY <1>2, <1>5, <2>4
<1>8. Latest(live'.lines) = r
  BY <1>1, <1>2, <1>3, <1>5, LatestIsNew
<1>9. Undisturbed'
  <2>1. \A i \in DOMAIN Segments' : Segments'[i].tail = {} /\ Records(Segments'[i].lines) = Segments'[i].lines
    <3>1. \A i \in 1 .. Len(archived) : Segments[i].tail = {} /\ Records(Segments[i].lines) = Segments[i].lines
      BY <1>1 DEF AuditInv, Undisturbed
    <3>2. ASSUME NEW i \in DOMAIN Segments'
          PROVE  Segments'[i].tail = {} /\ Records(Segments'[i].lines) = Segments'[i].lines
      <4>1. i = last \/ i \in 1 .. Len(archived)
        BY <1>1, <1>6
      <4> QED
        BY <1>5, <1>6, <3>1, <4>1
    <3> QED
      BY <3>2
  <2>2. live'.lines # {} /\ \A v \in known' : cache'[v] = TipOf(Latest(live'.lines))
    BY <1>4, <1>5, <1>8
  <2> QED
    BY <2>1, <2>2 DEF Undisturbed
<1>10. SegmentsChain'
  <2>1. \A i \in DOMAIN Segments' : Chained(Segments'[i])
    BY <1>1, <1>6, <1>7 DEF AuditInv, SegmentsChain
  <2>2. ASSUME NEW i \in DOMAIN archived'
        PROVE  \E first \in Readable(Segments'[i+1]) :
                 /\ first.marker /\ Before(Readable(Segments'[i+1]), first) = {}
                 /\ first.prev = Latest(Readable(Segments'[i])).id
    <3>1. i \in 1 .. Len(archived) /\ i + 1 \in DOMAIN Segments /\ Segments'[i] = Segments[i]
      BY <1>1, <1>4, <1>6
    <3>2. PICK first \in Readable(Segments[i+1]) :
            /\ first.marker /\ Before(Readable(Segments[i+1]), first) = {}
            /\ first.prev = Latest(Readable(Segments[i])).id
      BY <1>1, <3>1 DEF AuditInv, SegmentsChain
    <3>3. CASE i + 1 = last
      <4>1. Readable(Segments[i+1]) = live.lines /\ Readable(Segments'[i+1]) = live'.lines
        BY <1>1, <1>2, <1>5, <1>6, <3>3
      <4> QED
        BY <1>5, <1>7, <3>1, <3>2, <4>1
    <3>4. CASE i + 1 # last
      <4>1. Segments'[i+1] = Segments[i+1]
        BY <1>1, <1>6, <3>1, <3>4
      <4> QED
        BY <3>1, <3>2, <4>1
    <3> QED
      BY <3>3, <3>4
  <2> QED
    BY <2>1, <2>2 DEF SegmentsChain
<1> QED
  BY <1>9, <1>10

\* There a rotation's marker continues what it archived.
LEMMA RotateJoins ==
    ASSUME AuditInv, Rotate, faults = 0, edits = 0
    PROVE  Undisturbed' /\ SegmentsChain'
<1> DEFINE off == Surplus(Segments)
           last == Len(archived') + 1
<1>1. /\ live \in File /\ Listed(Readable(live), count) /\ count \in Nat
      /\ DOMAIN Segments = 1 .. Len(archived) + 1 /\ Len(archived) \in Nat
      /\ DOMAIN archived = 1 .. Len(archived) /\ Segments[Len(archived) + 1] = live
  BY LiveAndArchived DEF AuditInv, AuditTyped
<1>2. /\ live.tail = {} /\ Readable(live) = live.lines
      /\ ReadTip(live) = IF live.lines = {} THEN Genesis ELSE TipOf(Latest(live.lines))
  BY WhileUndisturbed
<1>3. live.lines # {}
  <2>1. live # Empty /\ live = [lines |-> live.lines, tail |-> live.tail]
    BY <1>1 DEF Rotate, MayRotate, File
  <2> QED
    BY <1>2, <2>1 DEF Empty
<1>4. Rolled(off) /\ live' = [lines |-> {Marker}, tail |-> {}]
  BY RotationRolls
<1>5. Marker.marker /\ Marker.whole /\ Marker.intact /\ Marker.prev = Latest(live.lines).id
  BY <1>2, <1>3 DEF Marker, RecordAfter, TipOf
<1>6. /\ Readable(live') = {Marker} /\ Records(live'.lines) = live'.lines
      /\ Before({Marker}, Marker) = {}
  <2>1. Marker.id \in Nat
    BY RotationRolls DEF Line
  <2> QED
    BY <1>4, <1>5, <2>1 DEF Readable, Records, Before
<1>7. Chained(live')
  BY <1>5, <1>6 DEF Chained
<1>8. /\ Len(archived') = Len(archived) + 1 - off /\ Len(archived') \in Nat
      /\ DOMAIN archived' = 1 .. Len(archived')
      /\ DOMAIN Segments' = 1 .. last
      /\ \A i \in 1 .. Len(archived') : i + off \in DOMAIN Segments /\ Segments'[i] = Segments[i + off]
      /\ Segments'[last] = live'
      /\ off \in Nat /\ off <= Len(archived) + 1
  <2>1. off \in Nat /\ off <= Len(archived) + 1
    BY <1>1, <1>4 DEF Rolled
  <2> HIDE DEF off
  <2> QED
    BY <1>4, <2>1, RolledSegments DEF AuditInv
<1> HIDE DEF off
<1>9. Undisturbed'
  <2>1. \A i \in DOMAIN Segments' : Segments'[i].tail = {} /\ Records(Segments'[i].lines) = Segments'[i].lines
    <3>1. \A i \in DOMAIN Segments : Segments[i].tail = {} /\ Records(Segments[i].lines) = Segments[i].lines
      BY DEF AuditInv, Undisturbed
    <3>2. ASSUME NEW i \in DOMAIN Segments'
          PROVE  Segments'[i].tail = {} /\ Records(Segments'[i].lines) = Segments'[i].lines
      <4>1. i = last \/ i \in 1 .. Len(archived')
        BY <1>8
      <4>2. live'.tail = {} /\ Records(live'.lines) = live'.lines
        BY <1>4, <1>6
      <4>3. Segments'[last] = live' /\ \A j \in 1 .. Len(archived') : Segments'[j] \in {Segments[k] : k \in DOMAIN Segments}
        BY <1>8
      <4> HIDE DEF last
      <4> QED
        BY <3>1, <4>1, <4>2, <4>3
    <3> QED
      BY <3>2
  <2>2. known' = {} /\ live'.lines # {}
    BY <1>4 DEF Rotate
  <2> QED
    BY <2>1, <2>2 DEF Undisturbed
<1>10. SegmentsChain'
  <2>1. \A i \in DOMAIN Segments' : Chained(Segments'[i])
    <3>1. \A i \in DOMAIN Segments : Chained(Segments[i])
      BY DEF AuditInv, SegmentsChain
    <3>2. ASSUME NEW i \in DOMAIN Segments' PROVE Chained(Segments'[i])
      <4>1. i = last \/ i \in 1 .. Len(archived')
        BY <1>8
      <4>2. Segments'[last] = live' /\ \A j \in 1 .. Len(archived') : Segments'[j] \in {Segments[k] : k \in DOMAIN Segments}
        BY <1>8
      <4> HIDE DEF last
      <4> QED
        BY <1>7, <3>1, <4>1, <4>2
    <3> QED
      BY <3>2
  <2>2. ASSUME NEW i \in DOMAIN archived'
        PROVE  \E first \in Readable(Segments'[i+1]) :
                 /\ first.marker /\ Before(Readable(Segments'[i+1]), first) = {}
                 /\ first.prev = Latest(Readable(Segments'[i])).id
    <3>1. i \in 1 .. Len(archived') /\ i + off \in DOMAIN Segments /\ Segments'[i] = Segments[i + off]
      BY <1>8
    <3>2. CASE i = Len(archived')
      <4>1. i + off = Len(archived) + 1 /\ i + 1 = last
        BY <1>1, <1>8, <3>2
      <4>2. Readable(Segments'[i]) = live.lines /\ Readable(Segments'[i+1]) = {Marker}
        BY <1>1, <1>2, <1>6, <1>8, <3>1, <4>1
      <4> QED
        BY <1>5, <1>6, <4>2
    <3>3. CASE i # Len(archived')
      <4>1. i + 1 \in 1 .. Len(archived') /\ (i + 1) + off = (i + off) + 1 /\ i + off \in DOMAIN archived
        BY <1>1, <1>8, <3>1, <3>3
      <4>2. Segments'[i+1] = Segments[(i + off) + 1]
        BY <1>8, <4>1
      <4>3. \E first \in Readable(Segments[(i + off)+1]) :
              /\ first.marker /\ Before(Readable(Segments[(i + off)+1]), first) = {}
              /\ first.prev = Latest(Readable(Segments[i + off])).id
        BY <4>1 DEF AuditInv, SegmentsChain
      <4> QED
        BY <3>1, <4>2, <4>3
    <3> QED
      BY <3>2, <3>3
  <2> QED
    BY <2>1, <2>2 DEF SegmentsChain
<1> QED
  BY <1>9, <1>10

LEMMA JoinKept ==
    ASSUME AuditInv, Next
    PROVE  Undisturbed' /\ SegmentsChain'
<1>1. SUFFICES ASSUME faults' = 0, edits' = 0
               PROVE  Undisturbed' /\ SegmentsChain'
  BY DEF Undisturbed, SegmentsChain
<1>2. faults \in Nat /\ edits \in Nat
  BY DEF AuditInv, AuditTyped
<1>3. ASSUME NEW w \in Writers, AppendRecord(w) PROVE Undisturbed' /\ SegmentsChain'
  <2>1. faults = 0 /\ edits = 0
    BY <1>1, <1>3 DEF AppendRecord
  <2> QED
    BY <1>3, <2>1, AppendJoins
<1>4. ASSUME NEW w \in Writers, Restart(w) PROVE Undisturbed' /\ SegmentsChain'
  <2>1. /\ known' \subseteq known
        /\ UNCHANGED <<live, archived, cache, faults, edits>>
    BY <1>4 DEF Restart
  <2>2. Segments' = Segments
    BY <2>1 DEF Segments
  <2>3. Undisturbed'
    BY <2>1, <2>2 DEF AuditInv, Undisturbed
  <2>4. SegmentsChain'
    BY <2>1, <2>2 DEF AuditInv, SegmentsChain
  <2> QED
    BY <2>3, <2>4
<1>5. CASE Rotate
  <2>1. faults = 0 /\ edits = 0
    BY <1>1, <1>5 DEF Rotate
  <2> QED
    BY <1>5, <2>1, RotateJoins
<1>6. ASSUME NEW w \in Writers, AppendFails(w) PROVE FALSE
  BY <1>1, <1>2, <1>6 DEF AppendFails
<1>7. ~RotateFails /\ ~Edit
  BY <1>1, <1>2 DEF RotateFails, Edit
<1> QED
  BY <1>3, <1>4, <1>5, <1>6, <1>7 DEF Next

-----------------------------------------------------------------------------
(* What readers see, and what is lost.                                     *)

\* A record that is seen is a complete line of some segment.
LEMMA SeenIn ==
    ASSUME AuditTyped, Numbered
    PROVE  /\ \A r : r \in Stored <=> \E i \in DOMAIN Segments : r \in Records(Segments[i].lines)
           /\ \A i \in DOMAIN Segments : Records(Segments[i].lines) \subseteq Readable(Segments[i])
           /\ \A r \in Stored : r \in Line /\ r.id \in Nat /\ r.id <= count
<1>1. \A r : r \in Stored <=> \E i \in DOMAIN Segments : r \in Records(Segments[i].lines)
  BY DEF Stored
<1>2. \A i \in DOMAIN Segments : Records(Segments[i].lines) \subseteq Readable(Segments[i])
  BY DEF Records, Readable
<1>3. \A i \in DOMAIN Segments : Listed(Readable(Segments[i]), count)
  BY LiveAndArchived
<1>4. \A r \in Stored : r \in Line /\ r.id \in Nat /\ r.id <= count
  BY <1>1, <1>2, <1>3 DEF Listed, Line
<1> QED
  BY <1>1, <1>2, <1>4

\* A step on the live file changes what is seen by what it changes there.
LEMMA SeenInPlace ==
    ASSUME AuditTyped, Numbered, archived' = archived, live' \in File
    PROVE  \A r : r \in Stored' <=>
              \/ \E i \in 1 .. Len(archived) : r \in Records(Segments[i].lines)
              \/ r \in Records(live'.lines)
<1>1. archived \in Seq(File) /\ live \in File
  BY DEF AuditTyped
<1>2. Segments = Append(archived, live) /\ Segments' = Append(archived, live')
  BY DEF Segments
<1>3. /\ DOMAIN Segments' = 1 .. Len(archived) + 1 /\ Segments'[Len(archived) + 1] = live'
      /\ \A i \in 1 .. Len(archived) : Segments'[i] = Segments[i]
      /\ Len(archived) \in Nat
  BY <1>1, <1>2, SegmentsAre
<1>4. \A i : i \in DOMAIN Segments' <=> i \in 1 .. Len(archived) \/ i = Len(archived) + 1
  BY <1>3
<1>5. \A r : r \in Stored' <=> \E i \in DOMAIN Segments' : r \in Records(Segments'[i].lines)
  BY DEF Stored
<1> QED
  BY <1>3, <1>4, <1>5

\* The same before the step.
LEMMA SeenNow ==
    ASSUME AuditTyped, Numbered
    PROVE  \A r : r \in Stored <=>
              \/ \E i \in 1 .. Len(archived) : r \in Records(Segments[i].lines)
              \/ r \in Records(live.lines)
<1>1. /\ DOMAIN Segments = 1 .. Len(archived) + 1 /\ Segments[Len(archived) + 1] = live
      /\ Len(archived) \in Nat
  BY LiveAndArchived
<1>2. \A i : i \in DOMAIN Segments <=> i \in 1 .. Len(archived) \/ i = Len(archived) + 1
  BY <1>1
<1>3. \A r : r \in Stored <=> \E i \in DOMAIN Segments : r \in Records(Segments[i].lines)
  BY DEF Stored
<1> QED
  BY <1>1, <1>2, <1>3

\* A write adds its record to what is seen, or nothing.
LEMMA WriteSeen ==
    ASSUME AuditInv, NEW w \in Writers, archived' = archived, live' \in File,
           \/ live' = live
           \/ Grown(live, live', RecordAfter(Tip(w), FALSE))
           \/ Cut(live, live', count + 1)
    PROVE  /\ \/ Stored' = Stored
              \/ live.tail = {} /\ Stored' = Stored \cup {RecordAfter(Tip(w), FALSE)}
           /\ Cut(live, live', count + 1) => Stored' = Stored
<1> DEFINE r == RecordAfter(Tip(w), FALSE)
<1>1. /\ live \in File /\ WellNumbered(live, count) /\ count \in Nat
      /\ Tip(w) \in [seq : Nat, hash : Nat]
  BY LiveAndArchived, TipServes DEF AuditInv, AuditTyped
<1>2. r.whole
  BY DEF RecordAfter
<1> HIDE DEF r
<1>3. \A s : s \in Stored' <=> \/ \E i \in 1 .. Len(archived) : s \in Records(Segments[i].lines)
                               \/ s \in Records(live'.lines)
  BY SeenInPlace DEF AuditInv
<1>4. \A s : s \in Stored <=> \/ \E i \in 1 .. Len(archived) : s \in Records(Segments[i].lines)
                              \/ s \in Records(live.lines)
  BY SeenNow DEF AuditInv
<1>5. \/ Records(live'.lines) = Records(live.lines)
      \/ live.tail = {} /\ Records(live'.lines) = Records(live.lines) \cup {r}
  <2>1. CASE Grown(live, live', r)
    BY <1>2, <2>1 DEF Grown, Records
  <2>2. CASE Cut(live, live', count + 1)
    BY <1>1, <2>2, CutReads
  <2> QED
    BY <2>1, <2>2 DEF r
<1>6. Cut(live, live', count + 1) => Records(live'.lines) = Records(live.lines)
  BY <1>1, CutReads
<1> QED
  BY <1>3, <1>4, <1>5, <1>6 DEF r

\* A rotation keeps what was in the segments it keeps, and its new line if that is whole.
LEMMA RolledSeen ==
    ASSUME AuditInv, NEW off, Rolled(off)
    PROVE  \A r : r \in Stored' <=>
              \/ \E i \in DOMAIN Segments : off < i /\ r \in Records(Segments[i].lines)
              \/ r \in Records(live'.lines)
<1>1. /\ Len(archived') = Len(archived) + 1 - off /\ Len(archived') \in Nat
      /\ DOMAIN Segments' = 1 .. Len(archived') + 1
      /\ \A i \in 1 .. Len(archived') : i + off \in DOMAIN Segments /\ Segments'[i] = Segments[i + off]
      /\ Segments'[Len(archived') + 1] = live'
  BY RolledSegments DEF AuditInv
<1>2. DOMAIN Segments = 1 .. Len(archived) + 1 /\ Len(archived) \in Nat
  BY LiveAndArchived DEF AuditInv
<1>3. off \in Nat /\ off <= Len(archived) + 1
  BY <1>2 DEF Rolled
<1>4. \A r : r \in Stored' <=> \E i \in DOMAIN Segments' : r \in Records(Segments'[i].lines)
  BY DEF Stored
<1>5. \A i : i \in DOMAIN Segments' <=> i \in 1 .. Len(archived') \/ i = Len(archived') + 1
  BY <1>1
<1>6. \A j \in DOMAIN Segments : off < j => j - off \in 1 .. Len(archived') /\ (j - off) + off = j
  BY <1>1, <1>2, <1>3
<1>7. \A i \in 1 .. Len(archived') : off < i + off
  BY <1>3
<1>8. \A r : (\E i \in 1 .. Len(archived') : r \in Records(Segments'[i].lines))
             <=> \E j \in DOMAIN Segments : off < j /\ r \in Records(Segments[j].lines)
  BY <1>1, <1>6, <1>7
<1> QED
  BY <1>1, <1>4, <1>5, <1>8

\* Only a write that is made now can be split.
LEMMA SplitKept ==
    ASSUME AuditInv, Next
    PROVE  SplitKnown' /\ split' \in {split, split \cup {count + 1}}
<1>1. split \subseteq 1 .. count /\ (faults = 0 => split = {}) /\ count \in Nat /\ faults \in Nat
  BY DEF AuditInv, AuditTyped, SplitKnown
<1>2. Joined \in {split, split \cup {count + 1}} /\ (split = {} => Joined = split)
  BY DEF Joined
<1>3. ASSUME NEW w \in Writers, AppendRecord(w) PROVE SplitKnown' /\ split' \in {split, split \cup {count + 1}}
  <2>1. split' = Joined /\ count' = count + 1 /\ faults' = faults
    BY <1>3 DEF AppendRecord
  <2> QED
    BY <1>1, <1>2, <2>1 DEF SplitKnown
<1>4. ASSUME NEW w \in Writers, AppendFails(w) PROVE SplitKnown' /\ split' \in {split, split \cup {count + 1}}
  <2>1. split' \in {split, split \cup {count + 1}} /\ count' = count + 1 /\ faults' = faults + 1
    BY <1>2, <1>4 DEF AppendFails
  <2> QED
    BY <1>1, <2>1 DEF SplitKnown
<1>5. ASSUME NEW w \in Writers, Restart(w) PROVE SplitKnown' /\ split' = split
  BY <1>1, <1>5 DEF Restart, SplitKnown
<1>6. CASE Rotate
  <2>1. split' = split /\ count' = count + 1 /\ faults' = faults
    BY <1>6 DEF Rotate
  <2> QED
    BY <1>1, <2>1 DEF SplitKnown
<1>7. CASE RotateFails
  <2>1. split' = split /\ count' = count + 1 /\ faults' = faults + 1
    BY <1>7 DEF RotateFails
  <2> QED
    BY <1>1, <2>1 DEF SplitKnown
<1>8. CASE Edit
  BY <1>1, <1>8 DEF Edit, SplitKnown
<1> QED
  BY <1>3, <1>4, <1>5, <1>6, <1>7, <1>8 DEF Next

\* Lines have the numbers of writes that were made.
LEMMA NumbersMade ==
    ASSUME NEW f \in File, NEW n \in Nat, WellNumbered(f, n)
    PROVE  Ids(f.lines \cup f.tail) \subseteq 1 .. n
BY DEF WellNumbered, File, Line, Ids

\* A write leaves the log as legible as it was, or cuts a character and leaves no more
\* records than there were.
LEMMA WriteLegible ==
    ASSUME AuditInv, NEW w \in Writers, AppendRecord(w) \/ AppendFails(w)
    PROVE  \/ AllLegible' <=> AllLegible
           \/ ~AllLegible' /\ AppendFails(w) /\ Cut(live, live', count + 1)
<1> DEFINE b == Rubble(count + 1)
           old == Ids(live.lines \cup live.tail)
           new == Ids(live'.lines \cup live'.tail)
<1>1. /\ live \in File /\ WellNumbered(live, count) /\ count \in Nat /\ archived \in Seq(File)
      /\ DOMAIN Segments = 1 .. Len(archived) + 1 /\ Len(archived) \in Nat
      /\ Segments[Len(archived) + 1] = live
      /\ \A i \in DOMAIN Segments : Segments[i] \in File /\ WellNumbered(Segments[i], count)
  BY LiveAndArchived DEF AuditInv, AuditTyped, Numbered
<1>2. archived' = archived /\ live' \in File
  BY AppendWrites DEF InPlace
<1>3. /\ DOMAIN Segments' = 1 .. Len(archived) + 1 /\ Segments'[Len(archived) + 1] = live'
      /\ \A i \in 1 .. Len(archived) : Segments'[i] = Segments[i]
  <2>1. Segments = Append(archived, live) /\ Segments' = Append(archived, live')
    BY <1>2 DEF Segments
  <2> QED
    BY <1>1, <1>2, <2>1, SegmentsAre
<1>4. split \subseteq 1 .. count /\ split' \in {split, split \cup {count + 1}}
  BY SplitKept DEF AuditInv, SplitKnown, Next
<1>5. \A i \in 1 .. Len(archived) : LET ids == Ids(Segments[i].lines \cup Segments[i].tail) IN
        ids \cap split' = {} <=> ids \cap split = {}
  <2> SUFFICES ASSUME NEW i \in 1 .. Len(archived)
               PROVE  LET ids == Ids(Segments[i].lines \cup Segments[i].tail) IN
                        ids \cap split' = {} <=> ids \cap split = {}
    OBVIOUS
  <2>1. Ids(Segments[i].lines \cup Segments[i].tail) \subseteq 1 .. count
    BY <1>1, NumbersMade
  <2>2. count + 1 \notin 1 .. count
    BY <1>1
  <2> QED
    BY <1>4, <2>1, <2>2
<1>6. \A i : i \in 1 .. Len(archived) + 1 <=> i \in 1 .. Len(archived) \/ i = Len(archived) + 1
  BY <1>1
<1>7. /\ AllLegible <=> /\ \A i \in 1 .. Len(archived) : Ids(Segments[i].lines \cup Segments[i].tail) \cap split = {}
                        /\ old \cap split = {}
      /\ AllLegible' <=> /\ \A i \in 1 .. Len(archived) : Ids(Segments[i].lines \cup Segments[i].tail) \cap split' = {}
                         /\ new \cap split' = {}
  <2>1. AllLegible <=> /\ \A i \in 1 .. Len(archived) : Legible(Segments[i])
                       /\ Legible(live)
    BY <1>1, <1>6 DEF AllLegible
  <2>2. AllLegible' <=> \A i \in DOMAIN Segments' :
                           Ids(Segments'[i].lines \cup Segments'[i].tail) \cap split' = {}
    BY DEF AllLegible, Legible
  <2>3. \A i \in 1 .. Len(archived) : Legible(Segments[i])
          <=> Ids(Segments[i].lines \cup Segments[i].tail) \cap split = {}
    BY DEF Legible
  <2>4. Legible(live) <=> old \cap split = {}
    BY DEF Legible
  <2> HIDE DEF old, new
  <2>5. AllLegible' <=> /\ \A i \in 1 .. Len(archived) : Ids(Segments[i].lines \cup Segments[i].tail) \cap split' = {}
                        /\ new \cap split' = {}
    BY <1>3, <1>6, <2>2 DEF new
  <2>6. AllLegible <=> /\ \A i \in 1 .. Len(archived) : Ids(Segments[i].lines \cup Segments[i].tail) \cap split = {}
                       /\ old \cap split = {}
    BY <2>1, <2>3, <2>4, Zenon
  <2> QED
    BY <2>5, <2>6, Zenon
<1>8. old \subseteq 1 .. count /\ count + 1 \notin 1 .. count /\ count + 1 \notin split
  BY <1>1, <1>4, NumbersMade
<1>9. \/ split' = Joined
      \/ split' = split \cup {count + 1} /\ live'.tail = {b} /\ AppendFails(w)
  BY DEF AppendRecord, AppendFails
<1>10. b.id = count + 1 /\ ~b.whole
  BY <1>1, RubbleIsLine
<1>11. \/ new \cap split' = {} <=> old \cap split = {}
       \/ new \cap split' # {} /\ AppendFails(w) /\ Cut(live, live', count + 1)
  <2> HIDE DEF b
  <2>1. CASE live' = live
    <3>1. live'.tail # {b}
      BY <1>8, <1>10, <2>1 DEF Ids
    <3>2. split' = Joined
      BY <1>9, <3>1
    <3> QED
      BY <1>8, <2>1, <3>2 DEF Joined
  <2>2. ASSUME NEW r, r = RecordAfter(Tip(w), FALSE), Grown(live, live', r)
        PROVE  new \cap split' = {} <=> old \cap split = {}
    <3>1. r.whole /\ r.id = count + 1
      BY <2>2 DEF RecordAfter
    <3>2. /\ live.tail = {} /\ live'.lines \cup live'.tail = live.lines \cup {r}
          /\ live'.tail \in {{}, {r}}
      <4>1. /\ live.tail = {}
            /\ \/ live'.lines = live.lines \cup {r} /\ live'.tail = {}
               \/ live'.lines = live.lines /\ live'.tail = {r}
        BY <2>2, GrownIs
      <4> QED
        BY <4>1
    <3>3. live'.tail # {b}
      BY <1>10, <3>1, <3>2
    <3>4. split' = split
      BY <1>9, <3>2, <3>3 DEF Joined, Ids
    <3>5. new = old \cup {count + 1}
      BY <3>1, <3>2 DEF Ids
    <3> HIDE DEF new, old
    <3> QED
      BY <1>8, <3>4, <3>5
  <2>3. CASE Cut(live, live', count + 1)
    <3>1. live'.lines \cup live'.tail = live.lines \cup {b}
      BY <2>3 DEF Cut, b
    <3>2. new = Ids(live.lines) \cup {count + 1}
      BY <1>10, <3>1 DEF Ids
    <3>3. old = Ids(live.lines) \cup Ids(live.tail)
      BY DEF Ids
    <3> HIDE DEF new, old
    <3>4. CASE split' = Joined
      BY <1>8, <3>2, <3>3, <3>4 DEF Joined
    <3>5. CASE split' = split \cup {count + 1} /\ AppendFails(w)
      BY <2>3, <3>2, <3>5
    <3> QED
      BY <1>9, <3>4, <3>5
  <2> QED
    BY <2>1, <2>2, <2>3, AppendWrites
<1> HIDE DEF new, old
<1> QED
  BY <1>5, <1>7, <1>11

\* A rotation leaves the segments it keeps as they were, and its new line can be read.
LEMMA RolledLegible ==
    ASSUME AuditInv, NEW off, Rolled(off), split' = split
    PROVE  AllLegible' <=> \A i \in DOMAIN Segments : off < i => Legible(Segments[i])
<1>1. /\ Len(archived') = Len(archived) + 1 - off /\ Len(archived') \in Nat
      /\ DOMAIN Segments' = 1 .. Len(archived') + 1
      /\ \A i \in 1 .. Len(archived') : i + off \in DOMAIN Segments /\ Segments'[i] = Segments[i + off]
      /\ Segments'[Len(archived') + 1] = live'
  BY RolledSegments DEF AuditInv
<1>2. DOMAIN Segments = 1 .. Len(archived) + 1 /\ Len(archived) \in Nat
  BY LiveAndArchived DEF AuditInv
<1>3. off \in Nat /\ off <= Len(archived) + 1
  BY <1>2 DEF Rolled
<1>4. Ids(live'.lines \cup live'.tail) \cap split = {}
  <2>1. count + 1 \notin split
    BY DEF AuditInv, AuditTyped, SplitKnown
  <2> QED
    BY <2>1 DEF Rolled, Ids
<1>5. \A i : i \in DOMAIN Segments' <=> i \in 1 .. Len(archived') \/ i = Len(archived') + 1
  BY <1>1
<1>6. \A j \in DOMAIN Segments : off < j => j - off \in 1 .. Len(archived') /\ (j - off) + off = j
  BY <1>1, <1>2, <1>3
<1>7. \A i \in 1 .. Len(archived') : off < i + off
  BY <1>3
<1>8. (\A i \in 1 .. Len(archived') : Legible(Segments'[i]))
        <=> \A j \in DOMAIN Segments : off < j => Legible(Segments[j])
  BY <1>1, <1>6, <1>7
<1>9. AllLegible' <=> (\A i \in 1 .. Len(archived') : Legible(Segments'[i])) /\ Legible(live')
  BY <1>1, <1>5 DEF AllLegible, Legible
<1> QED
  BY <1>4, <1>8, <1>9 DEF Legible

\* An edit leaves what can be read readable.
LEMMA EditLegible ==
    ASSUME AuditInv, Edit, AllLegible
    PROVE  AllLegible'
<1>1. /\ archived \in Seq(File) /\ live \in File /\ live' \in File
      /\ archived' = archived /\ split' = split
  BY EditInPlace DEF AuditInv, AuditTyped, Edit, InPlace
<1>2. Ids(live'.lines \cup live'.tail) \subseteq Ids(live.lines \cup live.tail)
  BY <1>1, AlterChanges, DeleteChanges DEF Edit
<1>3. Segments = Append(archived, live) /\ Segments' = Append(archived, live')
  BY <1>1 DEF Segments
<1>4. /\ DOMAIN Segments = DOMAIN Segments' /\ DOMAIN Segments = 1 .. Len(archived) + 1
      /\ Len(archived) \in Nat
      /\ Segments[Len(archived) + 1] = live /\ Segments'[Len(archived) + 1] = live'
      /\ \A i \in 1 .. Len(archived) : Segments'[i] = Segments[i]
  BY <1>1, <1>3, SegmentsAre
<1>5. \A i : i \in DOMAIN Segments <=> i \in 1 .. Len(archived) \/ i = Len(archived) + 1
  BY <1>4
<1>6. Legible(live) /\ \A i \in 1 .. Len(archived) : Legible(Segments[i])
  BY <1>4, <1>5 DEF AllLegible
<1>7. Ids(live'.lines \cup live'.tail) \cap split' = {}
  BY <1>1, <1>2, <1>6 DEF Legible
<1> QED
  BY <1>1, <1>4, <1>5, <1>6, <1>7 DEF AllLegible, Legible

\* Where no more is lost, what was lost stays paid for: a new tail is a write that failed.
LEMMA StaysPaid ==
    ASSUME AuditTyped, LossPaid, LostRecords' \subseteq LostRecords, faults' \in {faults, faults + 1},
           live'.tail = {} \/ live.tail # {} \/ faults' = faults + 1
    PROVE  LossPaid'
<1>1. LostRecords \subseteq 1 .. count /\ count \in Nat /\ faults \in Nat
  BY DEF AuditTyped, LostRecords
<1>2. IsFiniteSet(LostRecords)
  <2>1. IsFiniteSet(1 .. count)
    BY <1>1, FS_Interval
  <2> QED
    BY <1>1, <2>1, FS_Subset
<1>3. Cardinality(LostRecords') <= Cardinality(LostRecords) /\ IsFiniteSet(LostRecords')
  BY <1>2, FS_Subset
<1>4. Cardinality(LostRecords') \in Nat /\ Cardinality(LostRecords) \in Nat
  BY <1>2, <1>3, FS_CardinalityType
<1> QED
  BY <1>1, <1>3, <1>4 DEF LossPaid

\* A record that joins a tail is lost, and the tail with it.
LEMMA JoinPays ==
    ASSUME AuditTyped, LossPaid, NEW id \in Nat, LostRecords' \subseteq LostRecords \cup {id},
           faults' = faults, live.tail # {}, live'.tail = {}
    PROVE  LossPaid'
<1>1. LostRecords \subseteq 1 .. count /\ count \in Nat /\ faults \in Nat
  BY DEF AuditTyped, LostRecords
<1>2. IsFiniteSet(LostRecords)
  <2>1. IsFiniteSet(1 .. count)
    BY <1>1, FS_Interval
  <2> QED
    BY <1>1, <2>1, FS_Subset
<1>3. /\ IsFiniteSet(LostRecords \cup {id})
      /\ Cardinality(LostRecords \cup {id}) <= Cardinality(LostRecords) + 1
      /\ Cardinality(LostRecords) \in Nat
  <2>1. Cardinality(LostRecords) \in Nat
    BY <1>2, FS_CardinalityType
  <2>2. /\ IsFiniteSet(LostRecords \cup {id})
        /\ Cardinality(LostRecords \cup {id}) = IF id \in LostRecords THEN Cardinality(LostRecords)
                                                ELSE Cardinality(LostRecords) + 1
    BY <1>2, FS_AddElement
  <2> QED
    BY <2>1, <2>2
<1>4. /\ Cardinality(LostRecords') <= Cardinality(LostRecords \cup {id})
      /\ IsFiniteSet(LostRecords')
  BY <1>3, FS_Subset
<1>5. Cardinality(LostRecords') \in Nat /\ Cardinality(LostRecords \cup {id}) \in Nat
  BY <1>3, <1>4, FS_CardinalityType
<1>6. Cardinality(LostRecords) + 1 <= faults
  BY DEF LossPaid
<1>7. Cardinality(LostRecords') + 0 <= faults'
  BY <1>1, <1>3, <1>4, <1>5, <1>6
<1> QED
  BY <1>7 DEF LossPaid

LEMMA LossKept ==
    ASSUME AuditInv, Next
    PROVE  LossPaid'
<1>1. /\ AuditTyped /\ Numbered /\ LossPaid /\ live \in File /\ live' \in File
      /\ count \in Nat /\ faults \in Nat
  BY FilesKept DEF AuditInv, AuditTyped
<1>2. ASSUME NEW w \in Writers, AppendRecord(w) PROVE LossPaid'
  <2> DEFINE r == RecordAfter(Tip(w), FALSE)
  <2>1. /\ live' = Written(live, r) /\ acked' = acked \cup {r.id} /\ UNCHANGED <<archived, faults, dropped>>
    BY <1>2 DEF AppendRecord
  <2>2. r \in Line /\ r.id \in Nat
    BY <1>2, AppendWrites DEF Line
  <2>3. live'.tail = {} /\ (Grown(live, live', r) \/ Cut(live, live', count + 1))
    <3>1. r.id = count + 1
      BY <1>1, <1>2, TipServes, RecordIs DEF AuditInv
    <3> HIDE DEF r
    <3> QED
      BY <1>1, <2>1, <2>2, <3>1, WriteKinds
  <2>4. Stored' = Stored \/ (live.tail = {} /\ Stored' = Stored \cup {r})
    BY <1>1, <2>1, <2>3, WriteSeen
  <2>5. live.tail = {} => Stored' = Stored \cup {r}
    <3>1. SUFFICES ASSUME live.tail = {} PROVE r \in Stored'
      BY <2>4
    <3>2. r \in Records(live'.lines)
      BY <2>1, <3>1 DEF Written, Records, RecordAfter
    <3> QED
      BY <1>1, <2>1, <3>2, SeenInPlace
  <2> HIDE DEF r
  <2>6. CASE live.tail = {}
    <3>1. LostRecords' \subseteq LostRecords
      BY <2>1, <2>5, <2>6 DEF LostRecords, Ids
    <3> QED
      BY <1>1, <2>1, <2>3, <3>1, StaysPaid
  <2>7. CASE live.tail # {}
    <3>1. Stored' = Stored
      BY <2>4, <2>7
    <3>2. LostRecords' \subseteq LostRecords \cup {r.id}
      BY <2>1, <3>1 DEF LostRecords
    <3> QED
      BY <1>1, <2>1, <2>2, <2>3, <2>7, <3>2, JoinPays
  <2> QED
    BY <2>6, <2>7
<1>3. ASSUME NEW w \in Writers, AppendFails(w) PROVE LossPaid'
  <2>1. faults' = faults + 1 /\ UNCHANGED <<archived, acked, dropped>>
    BY <1>3 DEF AppendFails
  <2>2. Stored \subseteq Stored'
    <3>1. \/ live' = live
          \/ Grown(live, live', RecordAfter(Tip(w), FALSE))
          \/ Cut(live, live', count + 1)
      BY <1>3, AppendWrites
    <3>2. Stored' = Stored \/ Stored' = Stored \cup {RecordAfter(Tip(w), FALSE)}
      BY <1>1, <2>1, <3>1, WriteSeen
    <3> QED
      BY <3>2
  <2>3. LostRecords' \subseteq LostRecords
    BY <2>1, <2>2 DEF LostRecords, Ids
  <2> QED
    BY <1>1, <2>1, <2>3, StaysPaid
<1>4. ASSUME NEW w \in Writers, Restart(w) PROVE LossPaid'
  BY <1>1, <1>4 DEF Restart, LossPaid, LostRecords, Stored, Segments
<1>5. CASE Rotate
  <2> DEFINE off == Surplus(Segments)
             gone == UNION {Ids(Readable(Segments[i])) : i \in 1 .. off}
  <2>1. /\ faults' = faults /\ acked' = acked /\ dropped' = dropped \cup gone
        /\ live' = [lines |-> {Marker}, tail |-> {}] /\ Rolled(off)
    BY <1>5, RotationRolls DEF Rotate, Segments
  <2>2. \A s \in Stored : s \in Stored' \/ s.id \in gone
    <3> SUFFICES ASSUME NEW s \in Stored, s \notin Stored' PROVE s.id \in gone
      OBVIOUS
    <3>1. PICK i \in DOMAIN Segments : s \in Records(Segments[i].lines)
      BY <1>1, SeenIn
    <3>2. ~(off < i)
      <4> HIDE DEF off
      <4> QED
        BY <2>1, <3>1, RolledSeen
    <3>3. i \in 1 .. off
      <4>1. i \in Nat /\ i >= 1
        BY <1>1, <3>1, LiveAndArchived
      <4>2. off \in Nat
        BY <1>1, <2>1, LiveAndArchived DEF Rolled
      <4> HIDE DEF off
      <4> QED
        BY <3>2, <4>1, <4>2
    <3>4. s.id \in Ids(Readable(Segments[i]))
      BY <1>1, <3>1, SeenIn DEF Ids
    <3> HIDE DEF off
    <3> QED
      BY <3>3, <3>4
  <2> HIDE DEF gone
  <2>3. LostRecords' \subseteq LostRecords
    BY <2>1, <2>2 DEF LostRecords, Ids
  <2> QED
    BY <1>1, <2>1, <2>3, StaysPaid
<1>6. CASE RotateFails
  <2>1. faults' = faults + 1 /\ acked' = acked /\ dropped' = dropped /\ Rolled(0)
    BY <1>6, RotationRolls DEF RotateFails
  <2>2. Stored \subseteq Stored'
    <3> SUFFICES ASSUME NEW s \in Stored PROVE s \in Stored'
      OBVIOUS
    <3>1. PICK i \in DOMAIN Segments : s \in Records(Segments[i].lines)
      BY <1>1, SeenIn
    <3>2. 0 < i
      BY <1>1, <3>1, LiveAndArchived
    <3> QED
      BY <2>1, <3>1, <3>2, RolledSeen
  <2>3. LostRecords' \subseteq LostRecords
    BY <2>1, <2>2 DEF LostRecords, Ids
  <2> QED
    BY <1>1, <2>1, <2>3, StaysPaid
<1>7. CASE Edit
  <2>1. PICK x \in Records(live.lines) : Alter(x) \/ Delete(x)
    BY <1>7 DEF Edit
  <2>2. archived' = archived /\ acked' = acked /\ faults' = faults
    BY <1>7 DEF Edit
  <2>3. /\ live'.tail = live.tail
        /\ \A s \in Records(live.lines) : s = x \/ s \in Records(live'.lines)
        /\ \A s \in Stored : s = x \/ s \in Stored'
    <3>1. live'.tail = live.tail /\ \A s \in Records(live.lines) : s = x \/ s \in Records(live'.lines)
      BY <1>1, <2>1, AlterChanges, DeleteChanges
    <3>2. \A s \in Stored : s = x \/ s \in Stored'
      BY <1>1, <2>2, <3>1, SeenNow, SeenInPlace
    <3> QED
      BY <3>1, <3>2
  <2>4. dropped \subseteq dropped' /\ x.id \in Ids(Stored') \cup dropped'
    <3>1. CASE Delete(x)
      BY <3>1 DEF Delete
    <3>2. CASE Alter(x)
      <4>1. \E y \in Records(live'.lines) : y.id = x.id
        BY <1>1, <2>1, <3>2, AlterChanges
      <4>2. x.id \in Ids(Stored')
        BY <1>1, <2>2, <4>1, SeenInPlace DEF Ids
      <4> QED
        BY <3>2, <4>2 DEF Alter
    <3> QED
      BY <2>1, <3>1, <3>2
  <2>5. LostRecords' \subseteq LostRecords
    BY <2>2, <2>3, <2>4 DEF LostRecords, Ids
  <2> QED
    BY <1>1, <2>2, <2>3, <2>5, StaysPaid
<1> QED
  BY <1>2, <1>3, <1>4, <1>5, <1>6, <1>7 DEF Next

-----------------------------------------------------------------------------
(* The theorems.                                                           *)

LEMMA InvAtInit == Init => AuditInv
<1> SUFFICES ASSUME Init PROVE AuditInv
  OBVIOUS
<1>1. /\ live = [lines |-> {}, tail |-> {}] /\ archived = <<>> /\ known = {}
      /\ cache = [w \in Writers |-> Genesis]
      /\ count = 0 /\ faults = 0 /\ edits = 0 /\ acked = {} /\ dropped = {} /\ scarred = {}
      /\ split = {}
  BY DEF Init, Empty
<1>2. live \in File /\ archived \in Seq(File)
  BY <1>1 DEF File
<1>3. AuditTyped
  BY <1>1, <1>2 DEF AuditTyped, Genesis
<1>4. DOMAIN Segments = 1 .. 1 /\ Segments[1] = live /\ DOMAIN archived = {}
  <2>1. Len(archived) = 0
    BY <1>1
  <2> QED
    BY <1>2, <2>1, SegmentsAre DEF Segments
<1>5. Records({}) = {} /\ Readable(live) = {}
  BY <1>1 DEF Records, Readable
<1>6. \A i \in DOMAIN Segments : Segments[i] = live
  BY <1>4
<1>7. Numbered
  BY <1>1, <1>6 DEF Numbered, WellNumbered
<1>8. InOrder
  BY <1>5, <1>6 DEF InOrder
<1>9. Linked(Readable(live)) /\ Shown(Readable(live), scarred) /\ TipsAreLast /\ EditsBreak
  BY <1>1, <1>5, <1>6 DEF Linked, Shown, TipsAreLast, EditsBreak
<1>10. Undisturbed
  <2>1. \A i \in DOMAIN Segments : Segments[i].tail = {} /\ Records(Segments[i].lines) = Segments[i].lines
    <3>1. live.tail = {} /\ Records(live.lines) = live.lines
      BY <1>1, <1>5
    <3> QED
      BY <1>6, <3>1
  <2> QED
    BY <1>1, <2>1 DEF Undisturbed
<1>11. SegmentsChain
  BY <1>4, <1>5, <1>6 DEF SegmentsChain, Chained
<1>12. LossPaid
  <2>1. LostRecords = {}
    BY <1>1 DEF LostRecords
  <2> QED
    BY <1>1, <2>1, FS_EmptySet DEF LossPaid
<1>13. SplitKnown
  BY <1>1 DEF SplitKnown
<1> QED
  BY <1>3, <1>7, <1>8, <1>9, <1>10, <1>11, <1>12, <1>13 DEF AuditInv

LEMMA InvKept == AuditInv /\ [Next]_vars => AuditInv'
<1>1. ASSUME AuditInv, Next PROVE AuditInv'
  BY <1>1, FilesKept, TypedKept, TipsKept, JoinKept, LossKept, SplitKept DEF AuditInv
<1>2. ASSUME AuditInv, UNCHANGED vars PROVE AuditInv'
  <2>1. UNCHANGED <<live, archived, known, cache, count, faults, edits, acked, dropped, scarred, split>>
    BY <1>2 DEF vars
  <2>2. Segments' = Segments
    BY <2>1 DEF Segments
  <2>3. LostRecords' = LostRecords
    BY <2>1, <2>2 DEF LostRecords, Stored
  <2>4. AuditTyped' /\ Numbered' /\ InOrder'
    BY <1>2, <2>1, <2>2 DEF AuditInv, AuditTyped, Numbered, InOrder
  <2>5. Linked(Readable(live'))/\ Shown(Readable(live'), scarred') /\ TipsAreLast' /\ EditsBreak'
    BY <1>2, <2>1, <2>2 DEF AuditInv, TipsAreLast, EditsBreak
  <2>6. Undisturbed' /\ SegmentsChain' /\ LossPaid' /\ SplitKnown'
    BY <1>2, <2>1, <2>2, <2>3 DEF AuditInv, Undisturbed, SegmentsChain, LossPaid, SplitKnown
  <2> QED
    BY <2>4, <2>5, <2>6 DEF AuditInv
<1> QED
  BY <1>1, <1>2

\* The inductive invariant holds of every behaviour.
LEMMA AuditInvariant == Spec => []AuditInv
<1> QED
  BY InvAtInit, InvKept, PTL DEF Spec

\* The hash chain is whole and read in the order of its records where nothing failed
\* and nobody edited, across every rotation and between all writers.  Each write that
\* failed costs a reader one acknowledged record at most as long as no segment that is
\* kept has a write that was cut inside a character; what such a segment costs, until it
\* is dropped, is every record (append, rotate, records, verify, tip).
THEOREM ChainNeverBreaks == Spec => []ChainHolds
<1>1. AuditInv => ChainHolds
  <2> SUFFICES ASSUME AuditInv PROVE ChainHolds
    OBVIOUS
  <2>1. LostRecords \subseteq 1 .. count /\ count \in Nat /\ faults \in Nat
    BY DEF AuditInv, AuditTyped, LostRecords
  <2>2. Cardinality(LostRecords) \in Nat
    <3>1. IsFiniteSet(1 .. count)
      BY <2>1, FS_Interval
    <3>2. IsFiniteSet(LostRecords)
      BY <2>1, <3>1, FS_Subset
    <3> QED
      BY <3>2, FS_CardinalityType
  <2>3. LegibleCostsOneRecord
    <3>1. AllLegible => UnreadRecords = LostRecords
      BY DEF UnreadRecords, LostRecords, Visible
    <3>2. Cardinality(LostRecords) <= faults
      BY <2>1, <2>2 DEF AuditInv, LossPaid
    <3> QED
      BY <3>1, <3>2 DEF LegibleCostsOneRecord, CostsOneRecord
  <2>4. SegmentsJoin
    <3>1. faults = 0 => \A i \in DOMAIN Segments : Legible(Segments[i])
      BY DEF AuditInv, SplitKnown, Legible
    <3> QED
      BY <3>1 DEF AuditInv, SegmentsChain, SegmentsJoin, Verifies
  <2> QED
    BY <2>3, <2>4 DEF AuditInv, ChainHolds
<1> QED
  BY <1>1, AuditInvariant, PTL

\* A record that was altered, or from before which one was deleted, keeps verify from
\* passing on its segment for as long as it is kept, whatever is edited, appended,
\* rotated or cut short after (the module's "TAMPER EVIDENCE").
THEOREM EditsAlwaysShow == Spec => []EditsShow
<1>1. AuditInv => EditsShow
  BY DEF AuditInv, EditsBreak, EditsShow, Verifies
<1> QED
  BY <1>1, AuditInvariant, PTL

-----------------------------------------------------------------------------
(* The trail.                                                              *)

\* While nothing failed, the last record a reader sees is the live file's last.
LEMMA LastSeen ==
    ASSUME AuditInv, faults = 0, edits = 0
    PROVE  /\ live.lines = {} => Stored = {}
           /\ live.lines # {} => /\ Latest(live.lines) \in Stored
                                 /\ \A q \in Stored : q.id <= Latest(live.lines).id
<1>1. /\ AuditTyped /\ Numbered /\ count \in Nat /\ live \in File /\ archived \in Seq(File)
      /\ Listed(Readable(live), count) /\ DOMAIN Segments = 1 .. Len(archived) + 1
      /\ Len(archived) \in Nat /\ Segments[Len(archived) + 1] = live
  BY LiveAndArchived DEF AuditInv, AuditTyped
<1>2. /\ Readable(live) = live.lines /\ Records(live.lines) = live.lines
      /\ archived # <<>> => live.lines # {}
  BY WhileUndisturbed
<1>3. \A q : q \in Stored <=> \/ \E i \in 1 .. Len(archived) : q \in Records(Segments[i].lines)
                              \/ q \in live.lines
  BY <1>1, <1>2, SeenNow
<1>4. ASSUME live.lines = {} PROVE Stored = {}
  <2>1. 1 .. Len(archived) = {}
    BY <1>1, <1>2, <1>4
  <2> QED
    BY <1>3, <1>4, <2>1
<1>5. ASSUME live.lines # {}
      PROVE  Latest(live.lines) \in Stored /\ \A q \in Stored : q.id <= Latest(live.lines).id
  <2> DEFINE m == Latest(live.lines)
  <2>1. m \in live.lines /\ \A k \in live.lines : k.id <= m.id
    <3>1. \A l \in live.lines : l.id \in Nat /\ l.id <= count
      BY <1>1, <1>2 DEF Listed, Line
    <3> QED
      BY <1>1, <1>5, <3>1, LatestIsLast
  <2>2. ASSUME NEW i \in 1 .. Len(archived), NEW q \in Records(Segments[i].lines)
        PROVE  q.id <= m.id
    <3>1. q \in Readable(Segments[i]) /\ i \in DOMAIN Segments
      BY <1>1, SeenIn
    <3>2. i < Len(archived) + 1 /\ Len(archived) + 1 \in DOMAIN Segments
      BY <1>1
    <3>3. q.id < m.id
      BY <1>1, <1>2, <2>1, <3>1, <3>2 DEF AuditInv, InOrder
    <3>4. q.id \in Nat /\ m.id \in Nat
      BY <1>1, <1>2, <1>3, <2>1, <2>2, SeenIn
    <3> QED
      BY <3>3, <3>4
  <2> HIDE DEF m
  <2>3. m \in Stored /\ \A q \in Stored : q.id <= m.id
    BY <1>3, <2>1, <2>2
  <2> QED
    BY <2>3 DEF m
<1> QED
  BY <1>4, <1>5

\* There, a record after the reader's tip commits to the trail.
LEMMA TipCommits ==
    ASSUME AuditInv, faults = 0, edits = 0, NEW marker
    PROVE  Trail!Commits(RecordAfter(ReadTip(live), marker))
<1> DEFINE r == RecordAfter(ReadTip(live), marker)
<1>1. ReadTip(live) = IF live.lines = {} THEN Genesis ELSE TipOf(Latest(live.lines))
  BY WhileUndisturbed
<1>2. r.prev = ReadTip(live).hash /\ r.seq = ReadTip(live).seq + 1
  BY DEF RecordAfter
<1> HIDE DEF r
<1>3. CASE live.lines = {}
  <2>1. Stored = {} /\ r.prev = 0 /\ r.seq = 1
    BY <1>1, <1>2, <1>3, LastSeen DEF Genesis
  <2> QED
    BY <2>1 DEF Trail!Commits, r
<1>4. CASE live.lines # {}
  <2>1. /\ Latest(live.lines) \in Stored /\ \A q \in Stored : q.id <= Latest(live.lines).id
        /\ r.prev = Latest(live.lines).id /\ r.seq = Latest(live.lines).seq + 1
    BY <1>1, <1>2, <1>4, LastSeen DEF TipOf
  <2> QED
    BY <2>1 DEF Trail!Commits, Trail!IsLast, r
<1> QED
  BY <1>3, <1>4

\* A new record is the trail's next.
LEMMA NewIsNext ==
    ASSUME AuditInv, NEW r, r.id = count + 1, faults' \in Nat, edits' \in Nat,
           faults' = 0 /\ edits' = 0 => Trail!Commits(r)
    PROVE  Trail!IsNext(r)
<1>1. count \in Nat /\ \A q \in Stored : q.id \in Nat /\ q.id <= count
  BY SeenIn DEF AuditInv, AuditTyped
<1>2. \A q \in Stored : q.id < r.id
  BY <1>1
<1>3. CASE faults' = 0 /\ edits' = 0
  BY <1>2, <1>3 DEF Trail!IsNext
<1>4. CASE ~(faults' = 0 /\ edits' = 0)
  <2>1. \A m, n \in Nat : ~(m = 0 /\ n = 0) => m + n > 0
    OBVIOUS
  <2>2. faults' + edits' > 0
    BY <1>4, <2>1
  <2> QED
    BY <1>2, <2>2 DEF Trail!IsNext
<1> QED
  BY <1>3, <1>4

LEMMA LegibleIsBoolean == AllLegible \in BOOLEAN /\ AllLegible' \in BOOLEAN
BY DEF AllLegible

LEMMA TrailStep ==
    ASSUME AuditInv, Next
    PROVE  [Trail!Next]_(Trail!vars)
<1>1. /\ AuditTyped /\ Numbered /\ live \in File /\ live' \in File
      /\ count \in Nat /\ faults \in Nat /\ edits \in Nat
  BY FilesKept DEF AuditInv, AuditTyped
<1>2. ASSUME NEW w \in Writers, AppendRecord(w) \/ AppendFails(w)
      PROVE  [Trail!Next]_(Trail!vars)
  <2> DEFINE r == RecordAfter(Tip(w), FALSE)
  <2>1. edits' = edits /\ archived' = archived /\ faults' \in {faults, faults + 1}
    BY <1>2 DEF AppendRecord, AppendFails
  <2>2. r.id = count + 1
    BY DEF RecordAfter
  <2>3. /\ Stored' = Stored \/ Stored' = Stored \cup {r}
        /\ Cut(live, live', count + 1) => Stored' = Stored
    <3>1. live' = live \/ Grown(live, live', r) \/ Cut(live, live', count + 1)
      BY <1>2, AppendWrites
    <3> QED
      BY <1>1, <2>1, <3>1, WriteSeen
  <2>4. faults' = 0 /\ edits' = 0 => Trail!Commits(r)
    <3> SUFFICES ASSUME faults' = 0, edits' = 0 PROVE Trail!Commits(r)
      OBVIOUS
    <3>1. faults = 0 /\ edits = 0
      BY <1>1, <2>1
    <3>2. Tip(w) = ReadTip(live)
      BY <3>1, WhileUndisturbed
    <3> QED
      BY <3>1, <3>2, TipCommits
  <2> HIDE DEF r
  <2>5. CASE AllLegible' <=> AllLegible
    <3>1. AllLegible' = AllLegible
      BY <2>5, LegibleIsBoolean
    <3>2. CASE Stored' = Stored
      <4>1. faults' = faults \/ faults' = faults + 1
        BY <2>1
      <4> QED
        BY <2>1, <3>1, <3>2, <4>1 DEF Trail!Next, Trail!Fail, Trail!vars
    <3>3. CASE Stored' = Stored \cup {r}
      <4>1. Trail!IsNext(r)
        BY <1>1, <2>1, <2>2, <2>4, NewIsNext
      <4>2. Trail!Extend
        BY <2>1, <3>1, <3>3, <4>1 DEF Trail!Extend
      <4> QED
        BY <4>2 DEF Trail!Next
    <3> QED
      BY <2>3, <3>2, <3>3
  <2>6. CASE ~AllLegible' /\ AppendFails(w) /\ Cut(live, live', count + 1)
    <3>1. Stored' = Stored /\ faults' = faults + 1
      BY <2>3, <2>6 DEF AppendFails
    <3> QED
      BY <2>1, <2>6, <3>1 DEF Trail!Next, Trail!Fail
  <2> QED
    BY <1>2, <2>5, <2>6, WriteLegible
<1>3. ASSUME NEW w \in Writers, Restart(w) PROVE [Trail!Next]_(Trail!vars)
  <2>1. UNCHANGED <<live, archived, faults, edits, split>>
    BY <1>3 DEF Restart
  <2>2. Stored' = Stored /\ AllLegible' = AllLegible
    BY <2>1 DEF Stored, AllLegible, Legible, Segments
  <2> QED
    BY <2>1, <2>2 DEF Trail!vars
<1>4. CASE Rotate
  <2> DEFINE off == Surplus(Segments)
  <2>1. /\ UNCHANGED <<faults, edits>> /\ live' = [lines |-> {Marker}, tail |-> {}]
        /\ Rolled(off) /\ Marker.id = count + 1 /\ Marker.whole
    BY <1>4, RotationRolls DEF Rotate, Marker, RecordAfter
  <2>2. Records(live'.lines) = {Marker}
    BY <2>1 DEF Records
  <2> HIDE DEF off
  <2>3. \A s : s \in Stored' <=> \/ \E i \in DOMAIN Segments : off < i /\ s \in Records(Segments[i].lines)
                                 \/ s = Marker
    <3>1. \A s : s \in Stored' <=> \/ \E i \in DOMAIN Segments : off < i /\ s \in Records(Segments[i].lines)
                                   \/ s \in Records(live'.lines)
      BY <2>1, RolledSeen
    <3> QED
      BY <2>2, <3>1
  <2>4. \A s : s \in Stored <=> \E i \in DOMAIN Segments : s \in Records(Segments[i].lines)
    BY <1>1, SeenIn
  <2>5. Marker \in Stored' /\ Stored' \subseteq Stored \cup {Marker}
    BY <2>3, <2>4
  <2>6. Trail!IsNext(Marker)
    <3>1. faults' = 0 /\ edits' = 0 => Trail!Commits(Marker)
      BY <2>1, TipCommits DEF Marker
    <3> QED
      BY <1>1, <2>1, <3>1, NewIsNext
  <2>7. ASSUME NEW old \in Stored \ Stored', NEW kept \in Stored'
        PROVE  old.id < kept.id
    <3>1. old.id \in Nat /\ old.id <= count
      BY <1>1, SeenIn
    <3>2. PICK i \in DOMAIN Segments : old \in Records(Segments[i].lines)
      BY <2>4
    <3>3. ~(off < i)
      BY <2>3, <3>2
    <3>4. CASE kept = Marker
      BY <1>1, <2>1, <3>1, <3>4
    <3>5. CASE kept # Marker
      <4>1. PICK j \in DOMAIN Segments : off < j /\ kept \in Records(Segments[j].lines)
        BY <2>3, <3>5
      <4>2. i < j
        <5>1. DOMAIN Segments = 1 .. Len(archived) + 1 /\ Len(archived) \in Nat /\ off \in Nat
          BY <1>1, <2>1, LiveAndArchived DEF Rolled
        <5> QED
          BY <3>3, <4>1, <5>1
      <4>3. old \in Readable(Segments[i]) /\ kept \in Readable(Segments[j])
        BY <1>1, <3>2, <4>1, SeenIn
      <4> QED
        BY <4>2, <4>3 DEF AuditInv, InOrder
    <3> QED
      BY <3>4, <3>5
  <2>8. AllLegible => AllLegible'
    <3>1. split' = split
      BY <1>4 DEF Rotate
    <3> QED
      BY <2>1, <3>1, RolledLegible DEF AllLegible
  <2>9. Trail!Rotate
    BY <2>1, <2>5, <2>6, <2>7, <2>8 DEF Trail!Rotate
  <2> QED
    BY <2>9 DEF Trail!Next
<1>5. CASE RotateFails
  <2>1. /\ faults' = faults + 1 /\ edits' = edits /\ Rolled(0)
    BY <1>5, RotationRolls DEF RotateFails
  <2>2. \A s : s \in Stored' <=> \/ \E i \in DOMAIN Segments : 0 < i /\ s \in Records(Segments[i].lines)
                                 \/ s \in Records(live'.lines)
    BY <2>1, RolledSeen
  <2>3. \A i \in DOMAIN Segments : 0 < i
    BY <1>1, LiveAndArchived
  <2>4. \A s : s \in Stored <=> \E i \in DOMAIN Segments : s \in Records(Segments[i].lines)
    BY <1>1, SeenIn
  <2>5. Stored' = Stored \cup Records(live'.lines)
    BY <2>2, <2>3, <2>4
  <2>9. AllLegible' = AllLegible
    <3>1. split' = split
      BY <1>5 DEF RotateFails
    <3>2. AllLegible' <=> AllLegible
      BY <2>1, <2>3, <3>1, RolledLegible DEF AllLegible
    <3> QED
      BY <3>2, LegibleIsBoolean
  <2>6. CASE Records(live'.lines) = {}
    BY <2>1, <2>5, <2>6, <2>9 DEF Trail!Next, Trail!Fail
  <2>7. CASE Records(live'.lines) # {}
    <3>1. PICK r : r \in Records(live'.lines)
      BY <2>7
    <3>2. r.id = count + 1 /\ Records(live'.lines) = {r}
      BY <2>1, <3>1 DEF Rolled, Records
    <3>3. Trail!IsNext(r)
      BY <1>1, <2>1, <3>2, NewIsNext
    <3>4. Trail!Extend
      BY <2>1, <2>5, <2>9, <3>2, <3>3 DEF Trail!Extend
    <3> QED
      BY <3>4 DEF Trail!Next
  <2> QED
    BY <2>6, <2>7
<1>6. CASE Edit
  <2>1. edits' = edits + 1 /\ faults' = faults /\ archived' = archived
    BY <1>6 DEF Edit
  <2>2. PICK x \in Records(live.lines) : Alter(x) \/ Delete(x)
    BY <1>6 DEF Edit
  <2>3. \A s : s \in Stored' <=> \/ \E i \in 1 .. Len(archived) : s \in Records(Segments[i].lines)
                                 \/ s \in Records(live'.lines)
    BY <1>1, <2>1, SeenInPlace
  <2>4. \A s : s \in Stored <=> \/ \E i \in 1 .. Len(archived) : s \in Records(Segments[i].lines)
                                \/ s \in Records(live.lines)
    BY <1>1, SeenNow
  <2>5. \A i \in 1 .. Len(archived) : x \notin Records(Segments[i].lines)
    <3> SUFFICES ASSUME NEW i \in 1 .. Len(archived), x \in Records(Segments[i].lines) PROVE FALSE
      OBVIOUS
    <3>1. /\ DOMAIN Segments = 1 .. Len(archived) + 1 /\ Len(archived) \in Nat
          /\ Segments[Len(archived) + 1] = live
      BY <1>1, LiveAndArchived
    <3>2. i < Len(archived) + 1 /\ i \in DOMAIN Segments /\ Len(archived) + 1 \in DOMAIN Segments
      BY <3>1
    <3>3. x \in Readable(Segments[i]) /\ x \in Readable(live)
      BY <1>1, <2>2, <3>1, <3>2, SeenIn
    <3>4. x.id < x.id
      BY <3>1, <3>2, <3>3 DEF AuditInv, InOrder
    <3>5. x.id \in Nat
      BY <1>1, <2>2, <2>4, SeenIn
    <3> QED
      BY <3>4, <3>5
  <2>6. CASE Delete(x)
    <3>1. Records(live'.lines) = Records(live.lines) \ {x}
      BY <1>1, <2>2, <2>6, DeleteChanges
    <3>2. Stored' = Stored \ {x} /\ x \in Stored
      BY <2>2, <2>3, <2>4, <2>5, <3>1
    <3> QED
      BY <1>6, <2>1, <3>2, EditLegible DEF Trail!Next, Trail!Edit
  <2>7. CASE Alter(x)
    <3>1. PICK y \in Line : y.id = x.id /\ Records(live'.lines) = (Records(live.lines) \ {x}) \cup {y}
      BY <1>1, <2>2, <2>7, AlterChanges
    <3>2. Stored' = (Stored \ {x}) \cup {y} /\ x \in Stored /\ y \in Stored'
      BY <2>2, <2>3, <2>4, <2>5, <3>1
    <3> QED
      BY <1>6, <2>1, <3>1, <3>2, EditLegible DEF Trail!Next, Trail!Edit
  <2> QED
    BY <2>2, <2>6, <2>7
<1> QED
  BY <1>2, <1>3, <1>4, <1>5, <1>6 DEF Next

\* The log implements the trail: whoever writes, rotates, fails or crashes, what the
\* segments hold grows only at its end, by records that commit to the last, and is
\* trimmed only at its beginning; a reader of all segments is given it whole, and after
\* a write that was cut inside a character is given nothing until the segment with it is
\* dropped: no append and no edit brings that about or mends it (all_records, append,
\* rotate).
THEOREM LogImplementsTrail == Spec => TrailImplemented
<1>1. Init => Trail!Init
  <2> SUFFICES ASSUME Init PROVE Stored = {} /\ AllLegible = TRUE /\ faults = 0 /\ edits = 0
    BY DEF Trail!Init
  <2>1. AuditInv /\ faults = 0 /\ edits = 0 /\ live.lines = {} /\ split = {}
    BY InvAtInit DEF Init, Empty
  <2>2. AllLegible
    BY <2>1 DEF AllLegible, Legible
  <2> QED
    BY <2>1, <2>2, LastSeen, LegibleIsBoolean
<1>2. AuditInv /\ [Next]_vars => [Trail!Next]_(Trail!vars)
  <2>1. ASSUME UNCHANGED vars PROVE UNCHANGED Trail!vars
    BY <2>1 DEF vars, Trail!vars, Stored, AllLegible, Legible, Segments
  <2> QED
    BY <2>1, TrailStep
<1> QED
  BY <1>1, <1>2, AuditInvariant, PTL DEF Spec, TrailImplemented, Trail!Spec
=============================================================================
