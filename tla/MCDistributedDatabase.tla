----------------------- MODULE MCDistributedDatabase -----------------------
EXTENDS DatabaseRefinement, Responses

\* Three servers of one label each, in the order 2, 1, 3 on the ring.
Servers3 == {1, 2, 3}
Hash3x1 == [s \in Servers3 |-> [i \in {0} |-> <<30, 10, 50>>[s]]]

\* Document 1 lies behind all labels and wraps around, document 2 between two.
Docs2 == [d \in 1..2 |-> <<85, 25>>[d]]
=============================================================================
