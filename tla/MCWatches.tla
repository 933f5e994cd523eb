------------------------------- MODULE MCWatches -------------------------------
(***************************************************************************)
(* A small formula for the search with watch lists.                        *)
(***************************************************************************)
EXTENDS Watches

\* 4 is equivalent to 2, 5 is the conjunction of 2 and 3, and 2 implies 3.
\* From the decisions 1 and 2 a bi-asserting clause of 1, 2 and 3 is learned;
\* that 1 and 3 exclude 2 is then seen by no other clause.
Base   == { {3, -2}, {4, -2}, {-4, 2}, {5, -3, -2}, {-5, 3}, {-5, 2}, {-5, -4, -1},
            {1, 2}, {1, -2} }
Later  == { {2, -1} }
Asking == { << >>, <<1, 3, 2>> }

\* 1, 2 and 3 exclude each other, and 3 is contradictory as 4 and -4 are: the
\* conflict over the assumptions is refined to one on level 0.
Contradictory3 == { {-1, -2, -3}, {-3, 4}, {-4, 5}, {-4, -5}, {4, 5}, {4, 6}, {4, -5, -6} }
TwoCalls       == { << >>, <<1, 2, 3>> }
===============================================================================
