-------------------------------- MODULE Rows --------------------------------
(* Lists the page keeps in its state, of rows that are known by an id:      *)
(* invoice lines, discounts, attachments.                                   *)
EXTENDS Naturals, Sequences, FiniteSets

\* map: every row of an id is replaced.
WithId(list, id, row) == [i \in DOMAIN list |-> IF list[i].id = id THEN row ELSE list[i]]

\* filter: every row of an id goes, the others keep their order.
Nth(S, k) == CHOOSE i \in S : Cardinality({j \in S : j < i}) = k - 1
Without(list, id) == LET left == {i \in DOMAIN list : list[i].id # id}
                     IN [k \in 1 .. Cardinality(left) |-> list[Nth(left, k)]]
=============================================================================
