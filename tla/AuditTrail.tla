------------------------------ MODULE AuditTrail ------------------------------
(***************************************************************************)
(* What the audit log promises a reader: a trail of records that grows at  *)
(* its end, each record committing to the one before it, and is trimmed at *)
(* its beginning when old segments are dropped.  Nothing in the middle     *)
(* ever changes except by somebody's hand.  After a failed write or such   *)
(* an edit the trail may continue without committing to its last record.   *)
(* A failed write may also take the trail out of a reader's reach; it is   *)
(* back when what failed is trimmed.                                       *)
(* Records are told apart, and ordered, by their ids.                      *)
(***************************************************************************)
EXTENDS Naturals

VARIABLES trail,   \* the records of the log
          legible, \* a reader is given them
          failed,  \* writes that failed or were cut by a crash
          edited   \* records altered or deleted by hand

vars == <<trail, legible, failed, edited>>

Init == trail = {} /\ legible = TRUE /\ failed = 0 /\ edited = 0

IsLast(r) == r \in trail /\ \A q \in trail : q.id <= r.id

(* A record that commits to the last one takes its place and names its hash. *)
Commits(r) == IF trail = {} THEN r.prev = 0 /\ r.seq = 1
              ELSE \E last \in trail : IsLast(last) /\ r.prev = last.id /\ r.seq = last.seq + 1

(* A new record comes after all others. *)
IsNext(r) == /\ \A q \in trail : q.id < r.id
             /\ failed' + edited' > 0 \/ Commits(r)

Extend == /\ \E r \in trail' : IsNext(r) /\ trail' = trail \cup {r}
          /\ failed' \in {failed, failed + 1}
          /\ UNCHANGED <<legible, edited>>

(* A rotation adds a record of its own and drops what is old. *)
Rotate == /\ \E r \in trail' : IsNext(r) /\ trail' \subseteq trail \cup {r}
          /\ \A old \in trail \ trail', kept \in trail' : old.id < kept.id
          /\ legible => legible'
          /\ UNCHANGED <<failed, edited>>

Fail == /\ failed' = failed + 1
        /\ legible' => legible
        /\ UNCHANGED <<trail, edited>>

Edit == /\ edited' = edited + 1
        /\ legible => legible'
        /\ UNCHANGED failed
        /\ \E r \in trail : \/ trail' = trail \ {r}
                            \/ \E s \in trail' : s.id = r.id /\ trail' = (trail \ {r}) \cup {s}

Next == Extend \/ Rotate \/ Fail \/ Edit

Spec == Init /\ [][Next]_vars
===============================================================================
