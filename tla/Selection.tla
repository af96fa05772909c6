------------------------------ MODULE Selection ------------------------------
(* What a filter leaves of a list: the elements at the places it keeps, in
   the order they had.  A place is found by its rank among the kept ones, so
   that nothing here is recursive. *)
EXTENDS Naturals, FiniteSets

Nth(places, k) == CHOOSE i \in places : Cardinality({j \in places : j < i}) = k - 1

Kept(list, places) == [k \in 1..Cardinality(places) |-> list[Nth(places, k)]]

=============================================================================
