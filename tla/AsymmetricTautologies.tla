------------------------ MODULE AsymmetricTautologies ------------------------
(***************************************************************************)
(* Clauses whose complement unit propagation refutes, and clauses all      *)
(* resolvents of which on one literal are such (coprocessor/techniques/    *)
(* RATE.cc).  The solver propagates learnt clauses as well.                *)
(***************************************************************************)
EXTENDS ClauseElimination

AT(F, S) == FailsWith(F, UnitsFrom(F, Negated(S)))

AllBut(C) == (core \ {C}) \cup learnts

\* eliminateRAT: the clause itself is one, or its resolvents on l.
EliminateRAT(C, l) ==
    /\ Uses("rate") /\ C \in core /\ Cardinality(C) > 2 /\ Free(l)
    /\ \/ AT(AllBut(C), C) /\ Rewrite(core \ {C}, learnts, {})
       \/ /\ ~ AT(AllBut(C), C)
          /\ \A D \in Proper(C, l) : AT(AllBut(C), C \cup (D \ {-l}))
          /\ Become(core \ {C}, learnts, {}) /\ Push(<< [lit |-> l, clause |-> C] >>) /\ UNCHANGED fresh

\* minimizeRAT: only the literals K are kept besides l.  Which ones are tried first is
\* left open.  If none is needed l becomes true.
Suffices(K, C, l) ==
    \A D \in With(-l) : AT(All, D \ {-l}) \/ AT(AllBut(C), K \cup (D \ {-l}))

MinimizeRAT(C, l) ==
    /\ Uses("ratm") /\ C \in core /\ Cardinality(C) > 2 /\ Free(l)
    /\ \/ Suffices({}, C, l) /\ Rewrite(core, learnts, {l})
       \/ /\ ~ Suffices({}, C, l)
          /\ \E K \in SUBSET (C \ {l}) \ {{}, C \ {l}} :
                Suffices(K, C, l) /\ Rewrite((core \ {C}) \cup {K \cup {l}}, learnts, {})

\* shortATM, with the extended method: the clauses with -l are shortened themselves.
ShortenAT(D, l) ==
    /\ Uses("ratm extended") /\ Free(l) /\ -l \in D
    /\ \E S \in SUBSET (D \ {-l}) \ {{}, D \ {-l}} :
        /\ AT(All, S)
        /\ \/ Cardinality(S) = 1 /\ Rewrite(core, learnts, S)
           \/ D \in core /\ Rewrite((core \ {D}) \cup {S \cup {-l}}, learnts, {})
           \/ D \in learnts /\ Rewrite(core, (learnts \ {D}) \cup {S \cup {-l}}, {})

\* blockedSubstitution: C and the new clause, which is implied or blocked, yield D.
Substitute(C, D) ==
    LET extra == C \ D
        N     == (D \ C) \cup Negated(extra)
        redundant ==
            \/ AT(All, N)
            \/ \E k \in N : /\ Free(k) /\ (Negated(extra) \subseteq D \/ k \notin Negated(extra))
                            /\ \A E \in With(-k) : \E j \in E \ {-k} : -j \in N
    IN  /\ Uses("bcs") /\ Cardinality(C) > 2 /\ Cardinality(C) <= Cardinality(D) /\ C \cap D # {}
        /\ \/ extra = {} /\ (C # D \/ {C} \subseteq core \cap learnts)
              /\ \/ D \in core /\ Rewrite(core \ {D}, learnts, {})
                 \/ D \in learnts /\ Rewrite(core, learnts \ {D}, {})
           \/ /\ Cardinality(extra) = 1 /\ Cardinality(N) > 1 /\ redundant
              /\ \/ D \in core /\ Rewrite((core \ {D}) \cup {N}, learnts, {})
                 \/ D \in learnts /\ Rewrite(core, (learnts \ {D}) \cup {N}, {})

AsymmetricNext ==
    \/ \E C \in All : \E l \in C : EliminateRAT(C, l)
    \/ \E C \in All : \E l \in C : MinimizeRAT(C, l)
    \/ \E C \in All : \E l \in C : ShortenAT(C, -l)
    \/ \E C, D \in All : Substitute(C, D)
==============================================================================
