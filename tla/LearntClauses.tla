---------------------------- MODULE LearntClauses ----------------------------
(***************************************************************************)
(* What the search does to its learnt clauses, and what it finds with      *)
(* them (core/Solver.cc): between the runs of the simplifier the same      *)
(* clauses and the same trail change here.  All steps leave the solver at  *)
(* level 0 or are about clauses only; limits and scores are left out.      *)
(***************************************************************************)
EXTENDS CoprocessorData

Others(C)    == core \cup (learnts \ {C})
\* The trail of F after deciding against all literals of C.
Against(F, C) == UnitsFrom(F, units \cup Negated(C))
Relearn(C, D) == Rewrite(core, (learnts \ {C}) \cup {D}, {})

-----------------------------------------------------------------------------
(* Shorter learnt clauses *)

\* The clause is detached and its literals are decided one after the other, until there is
\* a conflict, one of them is true, or the rest is false: D is what remains of C.
Remains_AllFalse(C, D) == \E l \in C \ D : -l \in Against(Others(C), D)
Remains(C, D) ==
    \/ FailsWith(Others(C), Against(Others(C), D))
    \/ Negated(C \ D) \subseteq Against(Others(C), D)

\* simplifyLearntLCM; a last literal becomes a unit.
MinimizeLearnt(C, D) ==
    /\ Uses("lcm") /\ D # C /\ Remains(C, D)
    /\ Relearn(C, D)

\* interleavedClauseStrengthening does the same before a restart, but shortens the clause only
\* if a literal was false on the way; what analyze learns from a conflict is kept or not.
Learnable(C, D) ==
    {E \in SUBSET (OpenLits \cap Negated(Against(Others(C), D))) :
        /\ Cardinality(E) \in 1..2 /\ ~ Tautology(E)
        /\ FailsWith(Others(C), Against(Others(C), E))}

InterleavedStrengthening(C, D) ==
    /\ Uses("ics") /\ Remains(C, D)
    /\ LET L == (learnts \ {C}) \cup {IF Negated(C \ D) \cap Against(Others(C), D) = {} THEN C ELSE D}
       IN  \/ L # learnts /\ Rewrite(core, L, {})
           \/ \E E \in Learnable(C, D) : Rewrite(core, L \cup {E}, {})

\* searchUHLE: a literal that reaches another one in the graph of the binary clauses goes,
\* unless it is the asserting one, which stays first.
LearntHidden(C, first) ==
    /\ Uses("uhle")
    /\ \E l \in C \ {first} : Reaches(All, l) \cap (C \ {l}) # {} /\ Relearn(C, C \ {l})

\* processOtfss, when the search is at level 0 again: analyze has seen that the resolvent of
\* the conflict was C without l.  Core clauses are shortened too.
OnTheFly(C, l) ==
    /\ Uses("otfss") /\ l \in C /\ FailsWith(All, Against(All, C \ {l}))
    /\ LET In(F) == IF C \in F THEN (F \ {C}) \cup {C \ {l}} ELSE F
       IN  Rewrite(In(core), In(learnts), {})

\* reduceDB: clauses of two literals stay.
Forget(C) == Uses("reduce") /\ Cardinality(C) > 2 /\ Rewrite(core, learnts \ {C}, {})

-----------------------------------------------------------------------------
(* Units from learnt clauses and from trying *)

Successors(a) == {b \in OpenLits : Implies(All, a, b)}

\* analyzeNewLearnedClause, a clause of two literals: each implies b, or something b that
\* the other one implies reaches it.
Backbones(a, b) ==
    {l \in {b} \cup Successors(b) : \E k \in {a} \cup Successors(a) : l \in Reaches(All, k) \ {k}}
\* A longer one: what all its literals imply directly.
Shared(C) == {l \in OpenLits : \A k \in C : l \in Successors(k)}

AnalyzeLearnt(C) ==
    /\ Uses("uhd")
    /\ LET Found == IF Cardinality(C) > 2 THEN Shared(C)
                    ELSE UNION {Backbones(p[1], p[2]) : p \in {q \in C \X C : q[1] # q[2]}}
       IN  \E U \in (SUBSET Found) \ {{}} : Rewrite(core, learnts, U)

\* probing: both values of a variable are tried; a failing one leaves the other, else the
\* literals that both give are units.
Trial(F) == UnitsFrom(All, units \cup F)
FailsTrial(F) == FailsWith(All, Trial(F))

ProbeVariable(v) ==
    /\ Uses("search probing") /\ v \in Open
    /\ IF FailsTrial({v}) THEN Rewrite(core, learnts, {-v})
       ELSE IF FailsTrial({-v}) THEN Rewrite(core, learnts, {v})
       ELSE (Trial({v}) \cap Trial({-v})) \ units # {} /\ Rewrite(core, learnts, Trial({v}) \cap Trial({-v}))

\* laHack: all signs of the decisions D are tried; the first combination is the trail, which
\* has no conflict.  The patterns are filled from one end and masked from the other, so that
\* failing combinations spoil the comparison unless their opposites fail as well.
Combinations(D) == {(D \ S) \cup Negated(S) : S \in SUBSET D}
Possible(D)     == {F \in Combinations(D) : ~ FailsTrial(F)}
Comparable(D)   == D \in Possible(D) /\ \A F \in Possible(D) : Negated(F) \in Possible(D)

InAll(D) == {l \in OpenLits : \A F \in Possible(D) : l \in Trial(F)}
\* Literals that take the value of the decision d in every combination that is left.
Follow(D, d) == {l \in OpenLits : VarOf(l) # VarOf(d) /\ \A F \in Possible(D) : (IF d \in F THEN l ELSE -l) \in Trial(F)}

LookAhead(D) ==
    /\ Uses("look-ahead") /\ ~ Tautology(D) /\ Comparable(D)
    /\ LET Equal == UNION {UNION {{{-d, l}, {d, -l}} : l \in Follow(D, d)} : d \in D}
       IN  /\ InAll(D) \cup Equal # {}
           /\ \/ Rewrite(core, learnts, InAll(D))
              \/ Rewrite(core \cup Equal, learnts, InAll(D))
              \/ Rewrite(core, learnts \cup Equal, InAll(D))

-----------------------------------------------------------------------------
(* Restricted extended resolution: two learnt clauses that differ in one literal become
   one, with a new variable that stands for both *)

\* The number of a literal, from 0 (toInt).
ToInt(l)  == 2 * (VarOf(l) - 1) + (IF l > 0 THEN 0 ELSE 1)
SumOfLits(C)  == FoldSet(LAMBDA l, n : n + ToInt(l), 0, C)

\* The sum of all literals of the second clause is compared with the one of the first
\* clause without its asserting literal k.
Fuses(C, D, k, l) == C \ D = {k} /\ D \ C = {l} /\ SumOfLits(D) = SumOfLits(C \ {k})

\* disjunctionReplace: of the clauses F, those with more than two literals that have both
\* complements get the complement of the new variable instead.
Disjoined(F, k, l, x) ==
    {IF {-k, -l} \subseteq C /\ Cardinality(C) > 2 THEN (C \ {-k, -l}) \cup {-x} ELSE C : C \in F}

\* The formula may only be rewritten if the definition has all its clauses and is part of it.
MayReplace_Learnt(asLearnt, full) == full
MayReplace(asLearnt, full) == full /\ ~ asLearnt

ExtendedResolution(C, D) ==
    /\ Uses("rer") /\ fresh # {} /\ Cardinality(C) > 1
    /\ \E k \in C, l \in D :
        /\ Fuses(C, D, k, l)
        /\ \E asLearnt, full, inFormula, inLearnts \in BOOLEAN :
            LET x    == NextFreshVariable
                Def  == {{-x, k}, {-x, l}} \cup (IF full THEN {{x, -k, -l}} ELSE {})
                R(F, replace) == IF replace THEN Disjoined(F, k, l, x) ELSE F
                Left == R(learnts \ {C, D}, inLearnts) \cup { {x} \cup (C \ {k}) }
            IN  /\ inFormula => MayReplace(asLearnt, full)
                /\ inLearnts => inFormula
                /\ Become(R(core, inFormula) \cup (IF asLearnt THEN {} ELSE Def),
                          Left \cup (IF asLearnt THEN Def ELSE {}), {})
                /\ fresh' = fresh \ {x} /\ UNCHANGED undo

LearntNext ==
    \/ \E C \in learnts : \E D \in (SUBSET C) \ {{}} : MinimizeLearnt(C, D) \/ InterleavedStrengthening(C, D)
    \/ \E C \in learnts : \E l \in C : LearntHidden(C, l)
    \/ \E C \in All : \E l \in C : OnTheFly(C, l)
    \/ \E C \in learnts : Forget(C) \/ AnalyzeLearnt(C)
    \/ \E v \in Open : ProbeVariable(v)
    \/ \E D \in SUBSET OpenLits : Cardinality(D) \in 1..2 /\ LookAhead(D)
    \/ \E C, D \in learnts : ExtendedResolution(C, D)
==============================================================================
