-------------------------------- MODULE Lists --------------------------------
(***************************************************************************)
(* Lists that are filtered or sorted.  Both are written without the        *)
(* operators SelectSeq and SortSeq, which the proof system cannot expand.  *)
(***************************************************************************)
EXTENDS Integers, SequencesExt

\* The elements of the list that are in the set, in the order of the list.
Among(list, set) == FlattenSeq([i \in DOMAIN list |-> IF list[i] \in set THEN <<list[i]>> ELSE <<>>])

IsAscending(list) == \A i, j \in DOMAIN list : i < j => list[i] < list[j]

\* The numbers of a finite set in ascending order.
Ascending(set) == CHOOSE list \in [1..Cardinality(set) -> set] : IsAscending(list)
=============================================================================
