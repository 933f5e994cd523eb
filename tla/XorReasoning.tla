---------------------------- MODULE XorReasoning ----------------------------
(***************************************************************************)
(* Parity constraints that the clauses contain, and Gauss elimination on   *)
(* them (coprocessor/techniques/Xor.cc).  A constraint that has become     *)
(* empty and odd goes unnoticed there, unless a unit made it so: then      *)
(* propagation of the clauses fails as well.                               *)
(***************************************************************************)
EXTENDS Equivalences

\* An exclusive or of variables is odd or even; the clauses that say so.
Xor == [vars : SUBSET Open \ {{}}, odd : BOOLEAN]
ClausesOf(x) ==
    {(x.vars \ N) \cup Negated(N) : N \in {M \in SUBSET x.vars : (Cardinality(M) % 2 = 0) <=> x.odd}}

\* A clause that says T, alone or when one literal is resolved with a binary clause.
Covers(C, T) ==
    \/ C \subseteq T /\ (C = T => C \in core)
    \/ /\ Cardinality(C) <= Cardinality(T)
       /\ \E r \in C \ T : C \ {r} \subseteq T /\ \E l \in T : {-r, l} \in core

\* findXor: one of the clauses is there as it is.
Found ==
    {x \in Xor : /\ Cardinality(x.vars) > 1
                 /\ ClausesOf(x) \cap core # {}
                 /\ \A T \in ClausesOf(x) : \E C \in All : Covers(C, T)}

\* The sums of two that share a variable, and so on.
Sum2_BothOdd(x, y) == [vars |-> (x.vars \ y.vars) \cup (y.vars \ x.vars), odd |-> x.odd \/ y.odd]
Sum2(x, y) == [vars |-> (x.vars \ y.vars) \cup (y.vars \ x.vars), odd |-> x.odd # y.odd]
Sums ==
    LET after[n \in 0..Cardinality(Open)] ==
            IF n = 0 THEN Found
            ELSE UNION {X \cup {Sum2(p[1], p[2]) : p \in {q \in X \X X : q[1].vars \cap q[2].vars # {}}} :
                            X \in {after[n - 1]}}
    IN  after[Cardinality(Open)] \ Found

Literal(v, positive) == IF positive THEN v ELSE -v

XorUnit(x) == \E v \in x.vars : x.vars = {v} /\ Rewrite(core, learnts, {Literal(v, x.odd)})

XorEquivalence(x) ==
    /\ Cardinality(x.vars) = 2
    /\ \E v, w \in x.vars : v < w /\ Apply(Unfrozen({v, Literal(w, ~ x.odd)}))

\* addXorAsClauses, with opt_xor_addAsLearnt or without.
XorClauses(x) ==
    /\ Cardinality(x.vars) \in {3, 4}
    /\ \/ Rewrite(core \cup ClausesOf(x), learnts, {})
       \/ Rewrite(core, learnts \cup ClausesOf(x), {})

XorNext == Uses("xor") /\ \E x \in Sums : XorUnit(x) \/ XorEquivalence(x) \/ XorClauses(x)
==============================================================================
