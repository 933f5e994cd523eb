----------------------------- MODULE Propagation -----------------------------
(***************************************************************************)
(* Unit propagation on the clauses themselves: Propagation::process        *)
(* (coprocessor/techniques/Propagation.cc), which the simplifier calls     *)
(* wherever a technique has found units.                                   *)
(***************************************************************************)
EXTENDS Clauses

\* The literals of the trail once all of it is propagated: a clause whose other
\* literals are false gives the last one.
UnitsFrom(F, U) ==
    LET Implied(V) == {l \in UNION F : \E C \in F : l \in C /\ Negated(C \ {l}) \subseteq V}
        after[n \in 0..Cardinality(Vars) + 1] ==
            IF n = 0 THEN U ELSE UNION {V \cup Implied(V) : V \in {after[n - 1]}}
    IN  after[Cardinality(Vars) + 1]

\* A clause has become empty, or a unit contradicts the trail.
FailsWith(F, V) == (\E l \in V : -l \in V) \/ (\E C \in F : Negated(C) \subseteq V)

\* What is left of C: false literals go.
Without(C, V) == C \ Negated(V)

\* Satisfied clauses and the clauses that have become units are removed.
Reduced_KeepsSatisfied(F, V) == {Without(C, V) : C \in F}
Reduced(F, V) == {Without(C, V) : C \in {D \in F : D \cap V = {}}}
==============================================================================
