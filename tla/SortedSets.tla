----------------------------- MODULE SortedSets -----------------------------
(* Sets in the order of the keys of their elements, as sorted(..., key=...) *)
(* of the scripts makes them: keys are tuples of numbers, compared from     *)
(* the left, and no two elements have the same.                             *)
EXTENDS Integers, FiniteSets

Before(a, b) == \E i \in DOMAIN a : a[i] < b[i] /\ \A j \in 1..(i - 1) : a[j] = b[j]

\* The place of an element is the number of those that are not behind it.
Sorted(keys) ==
    LET keyed == {<<keys[x], x>> : x \in DOMAIN keys}
        placed == {<<Cardinality({q \in keyed : ~Before(p[1], q[1])}), p[2]>> : p \in keyed}
    IN  [i \in 1..Cardinality(keyed) |-> (CHOOSE p \in placed : p[1] = i)[2]]
=============================================================================
