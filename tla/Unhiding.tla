------------------------------- MODULE Unhiding -------------------------------
(***************************************************************************)
(* What the time stamps of a depth first search of the binary clauses show *)
(* (coprocessor/techniques/Unhiding.cc), and hyper binary resolution       *)
(* (HBR.cc).  Stamps are intervals: one inside another is reachable.       *)
(***************************************************************************)
EXTENDS Equivalences

\* linStamp: the last ancestor of l that reaches the complement of what l implies.
FailedStamp(l) ==
    /\ VarOf(l) \in Open /\ \E k \in Reaches(All, l) : -k \in Reaches(All, l) \cup {l}
    /\ Rewrite(core, learnts, {-l})

\* An edge to a literal that has been reached since l was discovered.  Learnt clauses
\* are left out of the graph where clauses are removed.
TransitiveEdge_AnyPath(C) ==
    /\ \E l \in C : \E k \in C \ {l} : k \in Reaches(All \ {C}, -l)
    /\ Rewrite(core \ {C}, learnts, {})
TransitiveEdge(C) ==
    /\ \E l \in C : \E k \in C \ {l} : k \in Reaches(core \ {C}, -l)
    /\ Rewrite(core \ {C}, learnts, {})

\* Unhiding finds components as Tarjan's algorithm does; a frozen literal ends one.
StampClass(l) ==
    VarOf(l) \in Open \ Frozen /\ \E K \in SUBSET Component(l) : l \in K /\ Apply(Unfrozen(K))

\* UHTE and UHLE, of core clauses.
RemoveTautology(C) ==
    /\ Cardinality(C) > 2 /\ \E l \in C : \E k \in C \ {l} : k \in Reaches(core, -l)
    /\ Rewrite(core \ {C}, learnts, {})

RemoveHiddenLiteral_Implied(C, l) ==
    /\ \E k \in C \ {l} : l \in Reaches(All \ {C}, k)
    /\ Rewrite((core \ {C}) \cup {C \ {l}}, learnts, {})
RemoveHiddenLiteral(C, l) ==
    /\ Reaches(All \ {C}, l) \cap (C \ {l}) # {}
    /\ Rewrite((core \ {C}) \cup {C \ {l}}, learnts, {})

\* Unhiding based probing: what all literals of a core clause imply, and literals of a
\* binary clause that exclude each other.
ImpliedByAll(C) ==
    /\ \E k \in OpenLits : /\ VarOf(k) \in Open /\ \A l \in C : k \in {l} \cup Reaches(All, l)
                       /\ Rewrite(core, learnts, {k})

Complementary(C) ==
    /\ Cardinality(C) = 2
    /\ \E a \in C : \E b \in C \ {a} : -b \in Reaches(All, a) /\ Apply(Unfrozen({a, -b}))

\* Hyper binary resolution: what all literals of C but k imply.  The new clause is a core
\* clause although learnt clauses may have taken part.
HyperBinaryClause(C, k, l) ==
    /\ Cardinality(C) > 2 /\ {l, -l} \cap C = {} /\ \A j \in C \ {k} : Implies(All, j, l)
    /\ IF Implies(All, k, l) THEN Rewrite(core, learnts, {l})
                             ELSE Rewrite(core \cup { {k, l} }, learnts, {})

UnhidingNext ==
    \/ Uses("unhiding") /\ \E l \in OpenLits : FailedStamp(l)
    \/ Uses("unhiding") /\ \E l \in OpenLits : StampClass(l)
    \/ Uses("unhiding") /\ \E C \in core : TransitiveEdge(C)
    \/ Uses("unhiding") /\ \E C \in core : RemoveTautology(C)
    \/ Uses("unhiding") /\ \E C \in core : ImpliedByAll(C)
    \/ Uses("unhiding") /\ \E C \in core : Complementary(C)
    \/ Uses("unhiding") /\ \E C \in core : \E l \in C : RemoveHiddenLiteral(C, l)
    \/ Uses("hbr") /\ \E C \in core, l \in OpenLits : \E k \in C : HyperBinaryClause(C, k, l)
==============================================================================
