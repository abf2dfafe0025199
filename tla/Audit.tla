--------------------------------- MODULE Audit ---------------------------------
(***************************************************************************)
(* audit.py: the hash-chained log that the daemon, `bothy run' and the     *)
(* operator's commands all append to, its rotation by the janitor, and     *)
(* verify.  A writer is one AuditLog object with its cached tip.  append   *)
(* and rotate run under the file lock, so each is one step; a failed write *)
(* or a crash may leave any part of what the step writes.                  *)
(*                                                                         *)
(* Writes are numbered, and a line has the number of the write that made   *)
(* it.  A file is only written at its end, so it is a set of lines, read   *)
(* in the order of their numbers.  The number stands for the hash as well: *)
(* fresh, and true to the body until somebody edits the body.              *)
(*                                                                         *)
(* Records are written as UTF-8, text beyond ASCII included, and a file is *)
(* read back as strict UTF-8.  A write that was cut inside a character     *)
(* therefore keeps all of its file from being read, not its own line only. *)
(*                                                                         *)
(* An old segment is named by the second of its rotation, and segments are *)
(* read in the order of their names.  `archived' is in the order of the    *)
(* rotations, which supposes that two rotations fall into different        *)
(* seconds and that the clock is not set back across one.                  *)
(***************************************************************************)
EXTENDS Naturals, Sequences, FiniteSets

CONSTANTS Writers,     \* AuditLog objects that append
          MaxRecords,  \* bound: records ever written
          MaxFaults,   \* bound: writes that fail or are cut by a crash
          MaxEdits,    \* bound: edits by hand
          RotateAt,    \* lines at which should_rotate says yes
          Keep         \* segments kept

ASSUME AuditAssumption == {MaxRecords, MaxFaults, MaxEdits, RotateAt, Keep} \subseteq Nat

VARIABLES live,      \* the file at path
          archived,  \* the segments beside it, in the order of their names
          known,     \* the writers whose cached inode and size are the file's
          cache,     \* their cached tips
          count,     \* the number of the last write
          faults, edits,
          acked,     \* ids whose append returned
          dropped,   \* ids deleted with an old segment, or by hand
          scarred,   \* ids of records that were altered, or stood after one that was deleted
          split      \* writes that were cut inside a character, or joined what was left of one

vars == <<live, archived, known, cache, count, faults, edits, acked, dropped, scarred, split>>

-------------------------------------------------------------------------------
(* A file is its lines, and a tail that has no newline yet, if there is one. *)
(* A line that is not a record whole is rubble.                              *)
Empty == [lines |-> {}, tail |-> {}]
Genesis == [seq |-> 0, hash |-> 0]

Rubble(id) ==
  [seq |-> 0, prev |-> 0, id |-> id, marker |-> FALSE, whole |-> FALSE, intact |-> FALSE]

Records(lines) == {l \in lines : l.whole}
Readable(file) == Records(file.lines \cup file.tail)
Ids(lines) == {l.id : l \in lines}
Before(lines, l) == {k \in lines : k.id < l.id}
Latest(lines) == CHOOSE l \in lines : \A k \in lines : k.id <= l.id
TipOf(record) == [seq |-> record.seq, hash |-> record.id]

(* The file decodes.  If not, whoever reads it gets an exception.           *)
Legible(file) == Ids(file.lines \cup file.tail) \cap split = {}

(* The last complete line if it is a record; else the last record a reader  *)
(* that skips bad lines finds.                                              *)
ReadTip(file) ==
  CASE file.lines # {} /\ Latest(file.lines).whole -> TipOf(Latest(file.lines))
    [] OTHER -> IF Readable(file) = {} THEN Genesis ELSE TipOf(Latest(Readable(file)))

\* slip: a tip that is cached once is not read again.
TipCached(w) == IF w \in known \/ cache[w] # Genesis THEN cache[w] ELSE ReadTip(live)

Tip(w) == IF w \in known THEN cache[w] ELSE ReadTip(live)

(* The last line is read as bytes; a reader of all lines needs them legible. *)
TipFound == Legible(live) \/ (live.lines # {} /\ Latest(live.lines).whole)

\* slip: verify compares the records' own words only.
VerifiesUnread(file) ==
  LET rs == Readable(file) IN
    \A r \in rs : Before(rs, r) # {} => r.prev = Latest(Before(rs, r)).id

(* Sequence, predecessor and digest, from a rotation's marker or from the   *)
(* beginning of the chain.                                                  *)
Chained(file) ==
  LET rs == Readable(file) IN
    \A r \in rs :
      /\ r.intact
      /\ IF Before(rs, r) = {} THEN r.marker \/ (r.seq = 1 /\ r.prev = 0)
         ELSE LET p == Latest(Before(rs, r)) IN r.seq = p.seq + 1 /\ r.prev = p.id

(* verify passes. *)
Verifies(file) == Legible(file) /\ Chained(file)

Init == /\ live = Empty /\ archived = <<>>
        /\ known = {} /\ cache = [w \in Writers |-> Genesis]
        /\ count = 0 /\ faults = 0 /\ edits = 0
        /\ acked = {} /\ dropped = {} /\ scarred = {} /\ split = {}

-------------------------------------------------------------------------------
(* Writing a line after a tail joins the two, and neither is a record. *)
Written(file, line) ==
  [lines |-> file.lines \cup {IF file.tail = {} THEN line ELSE Rubble(line.id)}, tail |-> {}]

(* What a write that did not finish may leave: nothing, a part, all but the *)
(* newline, or all of it with only the fsync missing.                       *)
Unfinished(file, line) ==
  {file, Written(file, line), [file EXCEPT !.tail = {Rubble(line.id)}]}
    \cup (IF file.tail = {} THEN {[file EXCEPT !.tail = {line}]} ELSE {})

RecordAfter(tip, marker) ==
  [seq |-> tip.seq + 1, prev |-> tip.hash, id |-> count + 1,
   marker |-> marker, whole |-> TRUE, intact |-> TRUE]

(* The next write joins a tail, and with it what the tail has of a character. *)
Joined == IF Ids(live.tail) \cap split = {} THEN split ELSE split \cup {count + 1}

(* append returns: the record is on disk and the writer has the new tip. *)
AppendRecord(w) ==
  /\ count < MaxRecords
  /\ w \in known \/ TipFound
  /\ LET r == RecordAfter(Tip(w), FALSE) IN
       /\ live' = Written(live, r)
       /\ acked' = acked \cup {r.id}
       /\ cache' = [cache EXCEPT ![w] = TipOf(r)]
  /\ known' = {w}
  /\ count' = count + 1 /\ split' = Joined
  /\ UNCHANGED <<archived, faults, edits, dropped, scarred>>

(* append raises in its write, or the process dies in it and comes back:    *)
(* the writer has no tip any more.  What is cut may be cut in a character.   *)
AppendFails(w) ==
  /\ count < MaxRecords /\ faults < MaxFaults
  /\ w \in known \/ TipFound
  /\ live' \in Unfinished(live, RecordAfter(Tip(w), FALSE))
  /\ \/ split' = Joined
     \/ live'.tail = {Rubble(count + 1)} /\ split' = split \cup {count + 1}
  /\ known' = IF live' = live THEN known \ {w} ELSE {}
  /\ count' = count + 1 /\ faults' = faults + 1
  /\ UNCHANGED <<archived, cache, edits, acked, dropped, scarred>>

(* tip() alone, as a writer that has just started, or that finds the file   *)
(* changed, calls it at the beginning of its next append.                   *)
Restart(w) == /\ w \in known
              /\ known' = known \ {w}
              /\ UNCHANGED <<live, archived, cache, count, faults, edits, acked, dropped, scarred, split>>

(* The sweep rotates with an AuditLog of its own, if there is something.  A *)
(* marker is ASCII throughout.                                              *)
Marker == RecordAfter(ReadTip(live), TRUE)
MayRotate ==
  live # Empty /\ TipFound /\ Cardinality(live.lines) >= RotateAt /\ count < MaxRecords

Surplus(segments) == IF Len(segments) > Keep THEN Len(segments) - Keep ELSE 0
Newest(segments) == SubSeq(segments, Surplus(segments) + 1, Len(segments))

\* slip: a new segment begins a new chain.
RotateAfresh ==
  /\ MayRotate
  /\ archived' = Newest(Append(archived, live))
  /\ dropped' = dropped
  /\ live' = Written(Empty, RecordAfter(Genesis, TRUE))
  /\ known' = {}
  /\ count' = count + 1
  /\ UNCHANGED <<cache, faults, edits, acked, scarred, split>>

Rotate ==
  /\ MayRotate
  /\ LET segments == Append(archived, live) IN
       /\ archived' = Newest(segments)
       /\ dropped' = dropped \cup
            UNION {Ids(Readable(segments[i])) : i \in 1 .. Surplus(segments)}
  /\ live' = Written(Empty, Marker)
  /\ known' = {}
  /\ count' = count + 1
  /\ UNCHANGED <<cache, faults, edits, acked, scarred, split>>

(* The file has been renamed and the new one has no marker, a part of it, or *)
(* all of it; nothing has been dropped.                                      *)
RotateFails ==
  /\ MayRotate /\ faults < MaxFaults
  /\ archived' = Append(archived, live)
  /\ live' \in Unfinished(Empty, Marker)
  /\ known' = {}
  /\ count' = count + 1 /\ faults' = faults + 1
  /\ UNCHANGED <<cache, edits, acked, dropped, scarred, split>>

(* Somebody alters a record of the live file, or deletes its line.  An      *)
(* altered record keeps the file's size here, a deleted one does not.       *)
Alter(r) ==
  /\ live' = [live EXCEPT !.lines = (@ \ {r}) \cup {[r EXCEPT !.intact = FALSE]}]
  /\ scarred' = scarred \cup {r.id}
  /\ UNCHANGED <<known, dropped>>

Delete(r) ==
  /\ live' = [live EXCEPT !.lines = @ \ {r}]
  /\ scarred' = scarred \cup Ids({l \in Readable(live) : l.id > r.id})
  /\ known' = {}
  /\ dropped' = dropped \cup {r.id}

Edit ==
  /\ edits < MaxEdits
  /\ \E r \in Records(live.lines) : Alter(r) \/ Delete(r)
  /\ edits' = edits + 1
  /\ UNCHANGED <<archived, cache, count, faults, acked, split>>

Next == \/ \E w \in Writers : AppendRecord(w) \/ AppendFails(w) \/ Restart(w)
        \/ Rotate \/ RotateFails \/ Edit

Spec == Init /\ [][Next]_vars

-------------------------------------------------------------------------------
Segments == Append(archived, live)

(* The records in the files, a tail left out: the next write makes it rubble. *)
Stored == UNION {Records(Segments[i].lines) : i \in DOMAIN Segments}
AllLegible == \A i \in DOMAIN Segments : Legible(Segments[i])

(* What all_records returns; where a segment is not legible it raises.      *)
Visible == IF AllLegible THEN Stored ELSE {}

(* Records whose append returned, nobody deleted and no rotation dropped,   *)
(* and that are in no file, or that no reader is given.                     *)
LostRecords == acked \ (Ids(Stored) \cup dropped)
UnreadRecords == acked \ (Ids(Visible) \cup dropped)

(* The log implements the trail: whoever writes, rotates, fails or crashes, *)
(* what the segments hold only grows at its end, by records that commit to  *)
(* the last, and is trimmed at its beginning; and a reader is given it all, *)
(* or, from a write cut inside a character until its segment is dropped,    *)
(* nothing (AuditLog.all_records, append and rotate).                       *)
Trail == INSTANCE AuditTrail
           WITH trail <- Stored, legible <- AllLegible, failed <- faults, edited <- edits
TrailImplemented == Trail!Spec

(* The segments are read in the order in which their lines were written     *)
(* (AuditLog.all_records, "in chain order").                                *)
InOrder ==
  \A i, j \in DOMAIN Segments : i < j =>
    \A a \in Readable(Segments[i]), b \in Readable(Segments[j]) : a.id < b.id

(* Undisturbed, every retained segment verifies, and each one's marker names *)
(* the last hash of the segment before it (AuditLog.verify's docstring).     *)
SegmentsJoin ==
  faults = 0 /\ edits = 0 =>
    /\ \A i \in DOMAIN Segments : Verifies(Segments[i])
    /\ \A i \in DOMAIN archived : \E first \in Readable(Segments[i+1]) :
         /\ first.marker /\ Before(Readable(Segments[i+1]), first) = {}
         /\ first.prev = Latest(Readable(Segments[i])).id

(* "A truncated final line costs one record rather than the file"            *)
(* (AuditLog.records): each unfinished write costs a reader at most one       *)
(* record that was acknowledged, the one that joins its remains.              *)
CostsOneRecord == Cardinality(UnreadRecords) <= faults

(* So it is while no retained segment has a write that was cut inside a       *)
(* character; after one, once its segment has been dropped.                   *)
LegibleCostsOneRecord == AllLegible => CostsOneRecord

(* The chain is whole and in order where nothing failed, and short of one    *)
(* record for each write that did, as long as it can be read.                *)
ChainHolds == InOrder /\ SegmentsJoin /\ LegibleCostsOneRecord

(* For as long as a record that was altered, or from before which one was   *)
(* deleted, is kept, verify does not pass on its segment, whatever is       *)
(* edited, appended or rotated after and whatever writes fail (the module's *)
(* "TAMPER EVIDENCE").                                                      *)
EditsShow ==
  \A i \in DOMAIN Segments :
    (\E r \in Readable(Segments[i]) : r.id \in scarred) => ~Verifies(Segments[i])

(* "verify is the thing that will notice and say so" (AuditLog.records): a  *)
(* file that lost a record does not verify once another record follows.     *)
LossShows ==
  archived = <<>> /\ (\E lost \in LostRecords, later \in Ids(Stored) : later > lost)
    => ~Verifies(live)

===============================================================================
