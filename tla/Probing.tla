------------------------------- MODULE Probing -------------------------------
(***************************************************************************)
(* Failed literals, necessary assignments, equivalences, lazy hyper binary *)
(* resolution and vivification (coprocessor/techniques/Probing.cc): what   *)
(* propagation says about the formula when a literal is tried.  Learnt     *)
(* clauses take part in all of it.                                         *)
(***************************************************************************)
EXTENDS Equivalences

Up(F, U)    == UnitsFrom(F, U)
Fails(F, U) == FailsWith(F, Up(F, U))

\* A clause that was found is dropped, kept as learnt clause, or becomes a core clause.
Keep(C) == Rewrite(core \cup {C}, learnts, {}) \/ Rewrite(core, learnts \cup {C}, {})

\* prAnalyze, on level 1: the complements of some points that every path from l to the
\* conflict goes through.
UnitsOfConflict(l) ==
    /\ Fails(All, {l})
    /\ \E U \in SUBSET {p \in Up(All, {l}) : Fails(All, {p})} :
        U # {} /\ Rewrite(core, learnts, Negated(U))

\* What both literals of a variable imply is true.
Necessary(v) ==
    LET P == Up(All, {v})
        N == Up(All, {-v})
    IN  /\ ~ Fails(All, {v}) /\ ~ Fails(All, {-v}) /\ (P \cap N) \ units # {}
        /\ Rewrite(core, learnts, P \cap N)

\* What one implies and the other one excludes is equivalent.
EquivalentByProbing(v) ==
    LET P == Up(All, {v})
        N == Up(All, {-v})
    IN  /\ ~ Fails(All, {v}) /\ ~ Fails(All, {-v})
        /\ Apply(Unfrozen({-v} \cup {l \in N : -l \in P}))

\* Double look-ahead with k after l: a clause of the conflict, with one literal of the
\* second level, or what l implies because both k and its complement imply it.
DoubleLook(l, k) ==
    LET P == Up(All, {l})
    IN  /\ ~ Fails(All, {l}) /\ {k, -k} \cap P = {}
        /\ \/ /\ Fails(All, {l, k})
              /\ \E p \in Up(All, {l, k}) \ P, q \in P :
                    VarOf(p) # VarOf(q) /\ Fails(All, {p, q}) /\ Keep({-p, -q})
           \/ /\ ~ Fails(All, {l, k}) /\ ~ Fails(All, {l, -k})
              /\ \E t \in (Up(All, {l, k}) \cap Up(All, {l, -k})) \ P : Keep({-l, t})

\* Lazy hyper binary resolution: d implies the complements of all literals of C but f by
\* binary clauses.  C is subsumed by the new clause if -d is in it; a new learnt clause
\* may be thrown away nevertheless.
HyperBinary(C, f, d) ==
    /\ Cardinality(C) > 2 /\ f \in C /\ Negated(C \ {f}) \subseteq Reaches(All, d) \cup {d}
    /\ f \notin {d, -d}
    /\ LET Subsumed == IF -d \in C THEN {C} ELSE {}
       IN  \/ C \in core /\ Rewrite((core \ Subsumed) \cup { {f, -d} }, learnts, {})
           \/ C \in learnts /\ Rewrite(core, (learnts \ Subsumed) \cup { {f, -d} }, {})
           \/ C \in learnts /\ Rewrite(core, learnts \ Subsumed, {})

\* Vivification of C: the complements of its literals are tried one after the other,
\* without C.  A conflict or a literal that becomes true shows that those tried are
\* enough, a literal that becomes false is not needed.
Vivified(C) ==
    LET F == All \ {C}
    IN  {D \in SUBSET C \ {C} :
            \/ Fails(F, Negated(D))
            \/ \E f \in D : f \in Up(F, Negated(D \ {f}))
            \/ Negated(C \ D) \subseteq Up(F, Negated(D))}

Vivify(C) ==
    /\ Uses("vivification") /\ C \in core /\ Cardinality(C) > 2
    /\ \E D \in Vivified(C) : Rewrite((core \ {C}) \cup {D}, learnts, {})

ProbingNext ==
    \/ Uses("probing") /\ \E l \in OpenLits : UnitsOfConflict(l)
    \/ Uses("probing") /\ \E l, k \in OpenLits : DoubleLook(l, k)
    \/ Uses("probing") /\ \E v \in Open : Necessary(v)
    \/ Uses("probing") /\ \E v \in Open : EquivalentByProbing(v)
    \/ Uses("probing") /\ \E C \in All, f, d \in OpenLits : HyperBinary(C, f, d)
    \/ \E C \in core : Vivify(C)
==============================================================================
