---------------------------- MODULE ImpliedClauses ----------------------------
(***************************************************************************)
(* Clauses that other clauses imply: core clauses that a resolvent         *)
(* subsumes go (coprocessor/techniques/Entailed.cc), clauses that a solver *)
(* finds become core clauses (ModPrep.cc, Symmetry.cc).                    *)
(***************************************************************************)
EXTENDS CoprocessorData

\* The core clause D, all literals of which but r are in C, and the core clause E with
\* what r leaves to be found: their resolvent is a subset of C.
Completions(C, D, r) == {E \in core \ {C, D} : (C \ D) \cup {-r} \subseteq E /\ E \subseteq C \cup {-r}}

Entailed(C, D) ==
    /\ Uses("entailed") /\ {C, D} \subseteq core /\ C # D
    /\ \/ D \subseteq C /\ Rewrite(core \ {C}, learnts, {})
       \/ C \subseteq D /\ Cardinality(D) = Cardinality(C) + 1 /\ Rewrite(core \ {D}, learnts, {})
       \/ \E r \in D : D \ C = {r} /\ Completions(C, D, r) # {} /\ Rewrite(core \ {C}, learnts, {})

\* What a solver of its own finds out about the clauses of two neighbouring communities:
\* units, and learnt clauses that become core clauses.
Follows(C, F) == \A A \in SUBSET Open : IsModel(A, F) => Sat(A, C)
Within(W) == {C \in All : {VarOf(l) : l \in C} \subseteq W}

Communities(W) ==
    /\ Uses("modprep")
    /\ \E k, l \in {j \in OpenLits : VarOf(j) \in W} :
        /\ ~ Tautology({k, l}) /\ Follows({k, l}, Within(W))
        /\ IF k = l THEN Rewrite(core, learnts, {k}) ELSE Rewrite(core \cup { {k, l} }, learnts, {})

\* Two variables with the same occurrences: not both of k and l, if propagation or a
\* search under them as assumptions fails.  The learnt clauses of that search may be
\* thrown away, with all the others.
SymmetricPair(k, l) ==
    /\ Uses("symmetry") /\ VarOf(k) # VarOf(l) /\ Follows({-k, -l}, All)
    /\ \E L \in {learnts, {}} : Rewrite(core \cup { {-k, -l} }, L, {})

ImpliedNext ==
    \/ \E C, D \in core : Entailed(C, D)
    \/ \E W \in SUBSET Open : Communities(W)
    \/ \E k, l \in OpenLits : SymmetricPair(k, l)
==============================================================================
