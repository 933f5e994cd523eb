-------------------------------- MODULE MCCdcl --------------------------------
(***************************************************************************)
(* Small formulas for the search of the solver.                            *)
(***************************************************************************)
EXTENDS Cdcl

\* 4 is the conjunction of 1 and 2, 5 the disjunction of 4 and 3, so that only
\* 1, 2, 3 need to be decided; the other clauses leave one model, which the
\* last one excludes.  A conflict
\* may be bi-asserting, its clause may have a literal that only recursive
\* minimization removes, and it may jump back over a level in between.
And  == { {-4, 1}, {-4, 2}, {4, -1, -2} }
Or   == { {-5, 4, 3}, {5, -4}, {5, -3} }
Hard == And \cup Or \cup { {-1, -2}, {-1, 4}, {1, -3, -5}, {-2, 3, 5} }
Last == { {1, 2, 5} }

\* 1 and 2 together imply 3, which propagation does not see.
Easy == { {-1, 3, 4}, {-2, 3, -4} }

None  == {}
Later == { {1, 3}, {2, 3}, {-3} }

Plain    == { << >> }
Assuming == { <<1, 2, -3>>, <<-3, 4>> }
===============================================================================
