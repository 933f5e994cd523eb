------------------------- MODULE VariableElimination -------------------------
(***************************************************************************)
(* Bounded variable elimination (coprocessor/techniques/BVE.cc).  The      *)
(* bounds on the number of resolvents are left out: every variable may be  *)
(* eliminated, and every variable may be left alone.                       *)
(***************************************************************************)
EXTENDS CoprocessorData

Candidate(v) == v \in Open \ Frozen /\ {v, -v} \cap Occurring # {}

\* findGates: a core clause with -l whose other literals all imply l, and the binary
\* clauses that say so; without a gate the definition is empty.
Gates(l) ==
    {{C} \cup {{l, -k} : k \in C \ {-l}} :
        C \in {D \in core : -l \in D /\ l \notin D /\ \A k \in D \ {-l} : {l, -k} \in core}}
Definitions(v) == {{}} \cup Gates(v) \cup Gates(-v)

\* With a definition only pairs with exactly one of its clauses are resolved.
Resolved(C, D, gate) == gate = {} \/ ((C \in gate) # (D \in gate))

Meets(C, D, l) == ~ Tautology(Resolvent(C, D, l))

\* anticipateElimination finds units and propagates them before anything is removed.
UnitResolvent(v) ==
    /\ Uses("bve") /\ Candidate(v)
    /\ \E C \in With(v), D \in With(-v), gate \in Definitions(v) :
        /\ Resolved(C, D, gate) /\ Cardinality(Resolvent(C, D, v)) = 1
        /\ Rewrite(core, learnts, Resolvent(C, D, v))

NoUnits(v, gate) ==
    \A C \in With(v), D \in With(-v) : Resolved(C, D, gate) => Cardinality(Resolvent(C, D, v)) > 1

\* A clause that has no resolvent: a core clause is not resolved with learnt ones.
IsBlocked_AnyPartner(C, l, gate) ==
    \E D \in With(-l) \cup {{-l}} : Resolved(C, D, gate) => ~ Meets(C, D, l)
IsBlocked(C, l, gate) ==
    \A D \in With(-l) : Resolved(C, D, gate) /\ (C \in learnts \/ D \in core) => ~ Meets(C, D, l)

Blocked(l, gate) == {C \in With(l) : IsBlocked(C, l, gate)}

\* removeBlockedClauses, when the variable then stays.
RemoveBlocked(v) ==
    /\ Uses("bve") /\ Candidate(v)
    /\ \E gate \in Definitions(v) :
        LET B == Blocked(v, gate) \cup Blocked(-v, gate)
        IN  /\ NoUnits(v, gate) /\ B # {}
            /\ Become(core \ B, learnts \ B, {})
            /\ Push(Entries(Blocked(v, gate) \cap core, v) \o Entries(Blocked(-v, gate) \cap core, -v))
            /\ UNCHANGED fresh

\* resolveSet: a resolvent is learnt if a parent is; opt_resolve_learnts says how many
\* learnt parents it may have.
ResolventsOf(P, N, v, gate) ==
    {Resolvent(p[1], p[2], v) : p \in {q \in P \X N : Resolved(q[1], q[2], gate) /\ Meets(q[1], q[2], v)}}

LearntResolvents(P, N, v, gate, parents) ==
    IF parents = 0 THEN {}
    ELSE ResolventsOf(P \cap learnts, N \cap core, v, gate) \cup ResolventsOf(P \cap core, N \cap learnts, v, gate)
         \cup IF parents = 2 THEN ResolventsOf(P \cap learnts, N \cap learnts, v, gate) ELSE {}

\* The clauses with -v go to the stack, then v itself, which is looked at first.
StackOf_ClausesOnly(N, v) == Entries(N \cap core, -v)
StackOf(N, v) == Entries(N \cap core, -v) \o << [lit |-> v, clause |-> {v}] >>

Eliminate(v) ==
    /\ Uses("bve") /\ Candidate(v)
    /\ \E gate \in Definitions(v), removesBlocked \in BOOLEAN, parents \in 0..2 :
        LET B  == IF removesBlocked THEN Blocked(v, gate) \cup Blocked(-v, gate) ELSE {}
            P  == With(v) \ B
            N  == With(-v) \ B
            Gone == With(v) \cup With(-v)
        IN  /\ NoUnits(v, gate)
            /\ Become((core \ Gone) \cup ResolventsOf(P \cap core, N \cap core, v, gate),
                      (learnts \ Gone) \cup LearntResolvents(P, N, v, gate, parents), {})
            /\ Push(Entries(B \cap With(v) \cap core, v) \o Entries(B \cap With(-v) \cap core, -v) \o StackOf(N, v))
            /\ UNCHANGED fresh

EliminationNext ==
    \/ \E v \in Vars : UnitResolvent(v)
    \/ \E v \in Vars : RemoveBlocked(v)
    \/ \E v \in Vars : Eliminate(v)
==============================================================================
