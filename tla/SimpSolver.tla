----------------------------- MODULE SimpSolver -----------------------------
(***************************************************************************)
(* The simplifier that Riss takes over from MiniSat                        *)
(* (riss/simp/SimpSolver.cc), an alternative to Coprocessor: backward      *)
(* subsumption, asymmetric branching and elimination of variables.  Learnt *)
(* clauses take no part.  The heap, the queues and the limits that say     *)
(* what is worth its price are left out.                                   *)
(***************************************************************************)
EXTENDS CoprocessorData

\* Assumptions and preferred variables are frozen until the call returns.
MayGo(v) == v \in Open \ Frozen /\ {v, -v} \cap Occurring # {}

\* strengthenClause: what remains may be a unit.
StrengthenClause(C, l) == Rewrite((core \ {C}) \cup {C \ {l}}, learnts, {})

\* backwardSubsumptionCheck for the clause C of the queue.
BackwardSubsumed(C, D) ==
    /\ Uses("simp") /\ {C, D} \subseteq core /\ C # D
    /\ \/ C \subseteq D /\ Rewrite(core \ {D}, learnts, {})
       \/ \E l \in C : -l \in D /\ C \ {l} \subseteq D /\ StrengthenClause(D, -l)

\* asymm: the other literals of C cannot all be false.
Asymmetric(C, l) ==
    /\ Uses("simp") /\ C \in core /\ l \in C
    /\ LET V == UnitsFrom(core, units \cup Negated(C \ {l}))
       IN  FailsWith(core, V) /\ StrengthenClause(C, l)

\* merge: the resolvents that are no tautologies.
MergedOn(v) == {C \in {Resolvent(p[1], p[2], v) : p \in (With(v) \cap core) \X (With(-v) \cap core)} : ~ Tautology(C)}

\* implied: a clause that propagation refutes when it is false need not be added.
ImpliedBy(F, C) == FailsWith(F, UnitsFrom(F, units \cup Negated(C)))

\* The shorter list goes to the stack, then the literal that satisfies the other one.
ElimClauses(v) ==
    LET P == With(v) \cap core
        N == With(-v) \cap core
    IN  IF Cardinality(P) > Cardinality(N)
        THEN Entries(N, -v) \o << [lit |-> v, clause |-> {v}] >>
        ELSE Entries(P, v) \o << [lit |-> -v, clause |-> {-v}] >>

\* The resolvents are added, and propagated, before the clauses of v are removed.
EliminateVar(v) ==
    /\ Uses("simp") /\ MayGo(v)
    /\ LET R == {C \in MergedOn(v) : "rcheck" \in start.techniques => ~ ImpliedBy(core, C)}
       IN  Become((core \ (With(v) \cup With(-v))) \cup R, learnts, UnitsFrom(core \cup R, units))
    /\ Push(ElimClauses(v)) /\ UNCHANGED fresh

SimpNext ==
    \/ \E C, D \in core : BackwardSubsumed(C, D)
    \/ \E C \in core : \E l \in C : Asymmetric(C, l)
    \/ \E v \in Vars : EliminateVar(v)
==============================================================================
