--------------------------------- MODULE Lists ---------------------------------
(* What the models need of sequences beyond the standard modules. *)
EXTENDS Naturals, Sequences, FiniteSets

\* The elements of seq that stand at the places K, in their order: the p-th of
\* them stands where p of those places have come.
AtPlaces(seq, K) ==
    LET Rank(n) == Cardinality({k \in K : k <= n})
    IN  [p \in 1 .. Cardinality(K) |-> seq[CHOOSE n \in K : Rank(n) = p]]

\* The elements of seq that are in S, each as often as it stands there.
Only(seq, S) == AtPlaces(seq, {k \in DOMAIN seq : seq[k] \in S})

\* The places of seq whose element stood before, its elements without those
\* repeats, and the elements repeated.
Again(seq) == {k \in DOMAIN seq : \E j \in DOMAIN seq : j < k /\ seq[j] = seq[k]}
Once(seq) == AtPlaces(seq, DOMAIN seq \ Again(seq))
Repeats(seq) == {seq[k] : k \in Again(seq)}
================================================================================
