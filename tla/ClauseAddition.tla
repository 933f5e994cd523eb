---------------------------- MODULE ClauseAddition ----------------------------
(***************************************************************************)
(* Longer clauses and more clauses: asymmetric and covered literal         *)
(* addition (coprocessor/techniques/LiteralAddition.cc), resolvents of     *)
(* ternary clauses and redundant binary clauses (Resolving.cc).            *)
(***************************************************************************)
EXTENDS ClauseElimination

\* asymemtricLiteralAddition: C and D have all literals but one each in common; D gets
\* the complement of C's.
AddAsymmetric(C, D) ==
    /\ Uses("ala") /\ {C, D} \subseteq core /\ C # D /\ C \cap D # {}
    /\ \E e \in C \ D : /\ C \ {e} \subseteq D /\ Cardinality(C) = Cardinality(D) /\ -e \notin D
                        /\ Rewrite((core \ {D}) \cup {D \cup {-e}}, learnts, {})

\* coverdLiteralAddition: some of the literals that all proper partners share.  What
\* makes the clause a tautology is left alone; the longer clause is a core clause.
AddCovered(C, l) ==
    /\ Uses("la") /\ l \in C /\ Free(l) /\ Proper(C, l) # {}
    /\ \E X \in SUBSET SharedBy(C, l) \ {{}} :
        /\ ~ Tautology(C \cup X)
        /\ \/ C \in core /\ Become((core \ {C}) \cup {C \cup X}, learnts, {})
           \/ C \in learnts /\ Become(core \cup {C \cup X}, learnts \ {C}, {})
    /\ Push(<< [lit |-> l, clause |-> C] >>) /\ UNCHANGED fresh

-----------------------------------------------------------------------------
(* Resolving.cc *)

Sources == core \cup (IF "resolving learnts" \in start.techniques THEN learnts ELSE {})

\* hasDuplicate: a subset of R in the list of R's first literal; otherwise the clauses
\* that R subsumes go.
FirstOf(R) == CHOOSE l \in R : \A k \in R : VarOf(l) <= VarOf(k)
Known(R)   == \E E \in With(FirstOf(R)) : E \subseteq R
Unsubsumed(F, R) == {E \in F : ~ R \subseteq E}

\* A resolvent of at most three literals is learnt if a parent is.
TernaryResolve(C, D, v) ==
    LET R == Resolvent(C, D, v)
    IN  /\ Uses("resolving")
        /\ {Cardinality(C), Cardinality(D)} \subseteq 2..3 /\ Cardinality(R) < 4 /\ ~ Tautology(R)
        /\ \/ Cardinality(R) = 1 /\ Rewrite(core, learnts, R)
           \/ /\ Cardinality(R) > 1 /\ ~ Known(R)
              /\ \/ {C, D} \subseteq core
                    /\ Rewrite(Unsubsumed(core, R) \cup {R}, Unsubsumed(learnts, R), {})
                 \/ ~ {C, D} \subseteq core
                    /\ Rewrite(Unsubsumed(core, R), Unsubsumed(learnts, R) \cup {R}, {})

\* addRedundantBinaries: a path in the graph of all binary clauses becomes a core clause.
AddRedundantBinary(a, b) ==
    /\ Uses("redundant binaries") /\ a # b /\ b \in Reaches(All, a) /\ ~ Implies(All, a, b)
    /\ \/ b = -a /\ Rewrite(core, learnts, {b})
       \/ b # -a /\ Rewrite(core \cup {{-a, b}}, learnts, {})

ClauseAdditionNext ==
    \/ \E C, D \in All : AddAsymmetric(C, D)
    \/ \E C \in All : \E l \in C : AddCovered(C, l)
    \/ \E v \in Open : \E C \in With(v) \cap Sources, D \in With(-v) \cap Sources : TernaryResolve(C, D, v)
    \/ \E a, b \in OpenLits : AddRedundantBinary(a, b)
==============================================================================
