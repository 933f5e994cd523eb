------------------------------- MODULE Clauses -------------------------------
(***************************************************************************)
(* Literals, clauses and what follows from them: the meaning that the      *)
(* solver's answers are measured against.  A variable is a positive        *)
(* number, its negation the negative one, as in the DIMACS format; a       *)
(* clause is a set of literals, a total assignment the set of the          *)
(* variables it makes true.                                                *)
(***************************************************************************)
EXTENDS Integers, FiniteSets

CONSTANT Vars   \* the variables of the formula

ASSUME VarsAssumption == Vars \subseteq Nat \ {0} /\ IsFiniteSet(Vars)

Lits    == Vars \cup {-v : v \in Vars}
Clause  == SUBSET Lits
Formula == SUBSET Clause

VarOf(l) == IF l > 0 THEN l ELSE -l

Negated(C) == {-l : l \in C}

\* addClause_ recognises a literal next to its complement.
Tautology(C) == \E l \in C : -l \in C

\* A literal and a clause under the total assignment A.
Holds(A, l) == IF l > 0 THEN l \in A ELSE -l \notin A
Sat(A, C)   == \E l \in C : Holds(A, l)

IsModel(A, F) == \A C \in F : Sat(A, C)

\* Every model of F satisfies C.
Entails(F, C) == \A A \in SUBSET Vars : IsModel(A, F) => Sat(A, C)

\* The literals a total assignment makes true.
LitsOf(A) == {l \in Lits : Holds(A, l)}
=============================================================================
