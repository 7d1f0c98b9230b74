-------------------------------- MODULE Lists --------------------------------
(***************************************************************************)
(* Lists that are made of other lists: Array.prototype.filter and sort, as   *)
(* the risk engine uses them.  An element is found by how many elements come  *)
(* before it, so that nothing is said of how a list is sorted.                 *)
(***************************************************************************)
EXTENDS Integers, FiniteSets

\* The elements of a list at some of its places, each behind those that come before it; Before
\* leaves no two places undecided, as sort does not, which is stable.
Arranged(list, places, Before(_, _)) ==
    [k \in 1..Cardinality(places) |->
        list[CHOOSE i \in places : Cardinality({j \in places : Before(j, i)}) = k - 1]]

\* The elements at some places, in their order.
Kept(list, places) == Arranged(list, places, LAMBDA j, i : j < i)
=============================================================================
