----------------------------- MODULE Coprocessor -----------------------------
(***************************************************************************)
(* All techniques on one formula (coprocessor/Coprocessor.cc): the         *)
(* pipeline runs them in an order that options choose, some of them        *)
(* several times, so that any step may follow any other.                   *)
(***************************************************************************)
EXTENDS Subsumption, ParallelElimination, ClauseElimination, Probing, Unhiding, VariableAddition, Rewriting,
        ClauseAddition, AsymmetricTautologies, XorReasoning, CardinalityReasoning, ImpliedClauses,
        Gates, SimpSolver, LearntClauses, Compaction

Sequential ==
    \/ SubsumptionNext \/ EliminationNext \/ ClauseEliminationNext \/ EquivalencesNext
    \/ ProbingNext \/ UnhidingNext \/ AdditionNext \/ RewritingNext \/ ClauseAdditionNext
    \/ AsymmetricNext \/ XorNext \/ CardinalityNext \/ ImpliedNext \/ GatesNext \/ SimpNext
    \/ LearntNext

\* A technique of one thread waits until all threads have returned and propagates first.
Next ==
    \/ Quiet /\ Sequential /\ NamesFollow /\ UNCHANGED <<worker, pending>>
    \/ Quiet /\ CompactionNext /\ UNCHANGED <<worker, pending>>
    \/ ParallelNext /\ NamesFollow
Begin == Init /\ ParallelInit /\ NamesInit
Spec == Begin /\ [][Next]_<<vars, names, worker, pending>>

-----------------------------------------------------------------------------
(* Properties *)

\* Kept clauses have two literals at least, none of them assigned unless that is still
\* to be propagated.
TypeOK ==
    /\ core \subseteq Clause /\ learnts \subseteq Clause
    /\ \A C \in All : Cardinality(C) > 1 /\ ~ Tautology(C)
    /\ \A C \in All : {VarOf(l) : l \in C} \subseteq Open \cup {VarOf(l) : l \in pending}
    /\ units \subseteq Lits /\ pending \subseteq units /\ ok \in BOOLEAN /\ fresh \subseteq Vars
    /\ \A i \in DOMAIN undo : undo[i].lit \in undo[i].clause /\ undo[i].clause \in Clause

Given     == start.core
GivenVars == {VarOf(l) : l \in UNION (start.core \cup start.learnts)}

\* What is left has these models, in the solver's numbers.
Left(F) == {A \in SUBSET (Vars \ fresh) : (\A l \in units : Holds(A, l)) /\ IsModel(A, F)}

\* The simplified formula excludes nothing: whatever the given formula allows for the
\* frozen variables, which assumptions and later clauses may mention, is still allowed,
\* by the core clauses, the learnt ones and the units together, whichever techniques
\* have run one after the other.  Variables are eliminated, literals replaced, and
\* clauses added that only preserve satisfiability, so that single clauses need not
\* follow from the given formula.
NothingLost ==
    {A \cap start.frozen : A \in {B \in SUBSET GivenVars : IsModel(B, Given)}}
        \subseteq (IF ok THEN {Decompressed(A) \cap start.frozen : A \in Left(All)} ELSE {})

\* extendModel: a model of the core clauses that are left, which is all that a later
\* search has to respect, becomes a model of the given formula when the extension
\* stack is undone from its end, and keeps the values of the frozen variables.  The
\* entries of several techniques are mixed on that stack.
ModelsExtend ==
    ok => \A A \in {Decompressed(B) : B \in Left(core)} :
            IsModel(Extended(A), Given) /\ Extended(A) \cap start.frozen = A \cap start.frozen
==============================================================================
