-------------------------- MODULE ClauseElimination --------------------------
(***************************************************************************)
(* Clauses and literals that are redundant because of what they resolve to *)
(* on one literal, or that the binary clauses make redundant: blocked and  *)
(* covered clauses and literals (coprocessor/techniques/BCE.cc), covered   *)
(* clause elimination (ClauseElimination.cc) and hidden tautologies        *)
(* (HiddenTautologyElimination.cc).                                        *)
(***************************************************************************)
EXTENDS CoprocessorData

Free(l) == VarOf(l) \in Open \ Frozen

\* tautologicResolvent: the first literal of C whose complement is in D, if any.
Clashing(C, D, l)  == {k \in C \ {l} : -k \in D}
FirstClash(C, D, l) == {k \in Clashing(C, D, l) : \A j \in Clashing(C, D, l) : VarOf(k) <= VarOf(j)}
Proper(C, l) == {D \in With(-l) : Clashing(C, D, l) = {}}

IsBlockedOn(C, l) == l \in C /\ Free(l) /\ Proper(C, l) = {}

\* What is put in the place of C, in the part of the formula that C is in.
InPlaceOf(C, F, S) == IF C \in F THEN (F \ {C}) \cup S ELSE F

-----------------------------------------------------------------------------
(* BCE.cc *)

BlockedClause(C, l) ==
    /\ Uses("bce") /\ IsBlockedOn(C, l)
    /\ \/ C \in core /\ Become(core \ {C}, learnts, {}) /\ Push(<< [lit |-> l, clause |-> C] >>) /\ UNCHANGED fresh
       \/ C \in learnts /\ Rewrite(core, learnts \ {C}, {})

\* Blocked clause minimisation: only what makes a resolvent with a core clause a
\* tautology is kept.
Minimized(C, l) == {l} \cup UNION {FirstClash(C, D, l) : D \in With(-l) \cap core}

MinimizeBlocked(C, l) ==
    /\ Uses("bcm") /\ IsBlockedOn(C, l) /\ Cardinality(C) > 2 /\ Minimized(C, l) # C
    /\ \/ C \in core /\ Rewrite((core \ {C}) \cup {Minimized(C, l)}, learnts, {})
       \/ C \in learnts /\ Rewrite(core, (learnts \ {C}) \cup {Minimized(C, l)}, {})

\* Literals that all proper partners have, and that no other partner needs.
CoveredIn(C, l) ==
    {k \in C \ {l} : /\ \A D \in Proper(C, l) : k \in D
                     /\ \A D \in With(-l) : -k \notin D}

\* Covered literal elimination; learnt partners become core clauses with a core clause.
ShrinkCovered(C, l) ==
    /\ Uses("cle") /\ l \in C /\ Free(l) /\ Proper(C, l) # {} /\ CoveredIn(C, l) # {}
    /\ LET E == C \ CoveredIn(C, l)
           L == IF C \in core THEN With(-l) \cap learnts ELSE {}
       IN  \/ C \in core /\ Rewrite((core \ {C}) \cup {E} \cup L, learnts \ L, {})
           \/ C \in learnts /\ Rewrite(core, (learnts \ {C}) \cup {E}, {})

\* Covered literal addition: what all proper partners share.  The longer clause is a
\* core clause, whatever C was.
SharedBy(C, l) == {k \in Occurring \ {-l} : \A D \in Proper(C, l) : k \in D}

ExtendCovered(C, l) ==
    /\ Uses("cla") /\ l \in C /\ Free(l) /\ Proper(C, l) # {} /\ SharedBy(C, l) # {}
    /\ LET E == C \cup SharedBy(C, l)
       IN  \/ C \in core /\ Become((core \ {C}) \cup {E}, learnts, {})
           \/ C \in learnts /\ Become(core \cup {E}, learnts \ {C}, {})
    /\ Push(<< [lit |-> l, clause |-> C] >>) /\ UNCHANGED fresh

-----------------------------------------------------------------------------
(* ClauseElimination.cc *)

\* Asymmetric literal addition to the literals S, of a clause C that is not used itself.
\* Frozen literals are looked for only in the clauses of others.
AlaStep(S, C) ==
    {-k : k \in {j \in OpenLits : \E D \in core \ {C} :
        -j \notin S /\ j \in D \ S /\ D \ {j} \subseteq S /\ \E l \in D \ {j} : Free(l)}}
Ala(S, C) ==
    LET more[n \in 0..2 * Cardinality(Open)] ==
            IF n = 0 THEN S ELSE UNION {T \cup AlaStep(T, C) : T \in {more[n - 1]}}
    IN  more[2 * Cardinality(Open)]

IsAsymmetric(T, C) == (\E D \in core \ {C} : D \subseteq T /\ \E l \in D : Free(l)) \/ Tautology(T)

\* One literal l of the extended clause S, whose partners that do not clash with T
\* (S and what ALA adds) share other literals.
SharedWith(T, l) ==
    {k \in OpenLits \ (T \cup {-l}) : \A D \in With(-l) \cap core : (\A j \in D \ {-l} : -j \notin T) => k \in D}
HasPartner(T, l) == \E D \in With(-l) \cap core : \A j \in D \ {-l} : -j \notin T

\* C extended by at most n such steps: records of the clause and its entries.
Extensions(C, n) ==
    LET after[i \in 0..n] ==
        IF i = 0 THEN {[clause |-> C, entries |-> << >>]}
        ELSE after[i - 1] \cup
             {[clause |-> x[1].clause \cup SharedWith(Ala(x[1].clause, C), x[2]),
               entries |-> Append(x[1].entries, [lit |-> x[2], clause |-> x[1].clause])] :
                 x \in {y \in after[i - 1] \X OpenLits :
                            LET T == Ala(y[1].clause, C)
                            IN  /\ y[2] \in y[1].clause /\ Free(y[2]) /\ ~ IsAsymmetric(T, C)
                                /\ HasPartner(T, y[2]) /\ SharedWith(T, y[2]) # {}}}
    IN  after[n]

\* markedBCE looks at learnt clauses as well.
BlockedBy(T, l) == Free(l) /\ \A D \in With(-l) : \E k \in D \ {-l} : -k \in T

CoveredClause(C) ==
    /\ Uses("cce") /\ C \in core /\ Cardinality(C) > 2
    /\ \E x \in Extensions(C, 2) :
        LET T == Ala(x.clause, C)
        IN  /\ \/ IsAsymmetric(T, C) /\ Push(x.entries)
               \/ /\ ~ IsAsymmetric(T, C)
                  /\ \E l \in x.clause :
                        BlockedBy(T, l) /\ Push(Append(x.entries, [lit |-> l, clause |-> x.clause]))
            /\ Become(core \ {C}, learnts, {}) /\ UNCHANGED fresh

-----------------------------------------------------------------------------
(* HiddenTautologyElimination.cc: the binary clauses are core clauses *)

\* fillHlaArrays: a literal and its complement imply i.
FailedLiteral(i) ==
    /\ Uses("hte")
    /\ VarOf(i) \in Open /\ \E k \in OpenLits : i \in Reaches(core, k) /\ i \in Reaches(core, -k)
    /\ Rewrite(core, learnts, {i})

\* The transitive reduction: another path between the literals.
Transitive(C) ==
    /\ Uses("hte") /\ Cardinality(C) = 2
    /\ \E i, j \in C : i # j /\ i \in Reaches(core \ {C}, -j)
    /\ \/ C \in core /\ Rewrite(core \ {C}, learnts, {})
       \/ C \in learnts /\ Rewrite(core, learnts \ {C}, {})

HiddenTautology(C) ==
    /\ Uses("hte") /\ Cardinality(C) > 2
    /\ \E i, j \in C : i # j /\ i \in Reaches(core, -j)
    /\ Rewrite(core \ {C}, learnts \ {C}, {})

\* A literal that implies another one of its clause.
HiddenLiteral(C, i, j) ==
    /\ Uses("hte") /\ Cardinality(C) > 2 /\ i # j /\ i \in Reaches(core, j)
    /\ Rewrite(InPlaceOf(C, core, {C \ {j}}), InPlaceOf(C, learnts, {C \ {j}}), {})

ClauseEliminationNext ==
    \/ \E C \in All : \E l \in C : BlockedClause(C, l)
    \/ \E C \in All : \E l \in C : MinimizeBlocked(C, l)
    \/ \E C \in All : \E l \in C : ShrinkCovered(C, l)
    \/ \E C \in All : \E l \in C : ExtendCovered(C, l)
    \/ \E C \in core : CoveredClause(C)
    \/ \E C \in All : Transitive(C)
    \/ \E C \in All : HiddenTautology(C)
    \/ \E C \in All : \E i, j \in C : HiddenLiteral(C, i, j)
    \/ \E i \in OpenLits : FailedLiteral(i)
==============================================================================
