--------------------------------- MODULE Cdcl ---------------------------------
(***************************************************************************)
(* The search of the solver (riss/core/Solver.cc): clauses are added on    *)
(* level 0, solve_ searches for a model under assumptions by deciding,     *)
(* propagating, and learning a clause from each conflict; assumptions that *)
(* cannot hold together end in a conflict clause over their negations.     *)
(*                                                                         *)
(* A clause is a set of literals; the order of its literals, on which      *)
(* propagation and locked() rely, is the subject of module Watches, which  *)
(* also shows that propagate() finds every unit and every falsified        *)
(* clause.  Which clause propagates first, which literal is decided, when  *)
(* to restart, how far, and what to remove are heuristics: any choice.     *)
(* An option that switches a technique on is a constant May...: with it    *)
(* the technique is used or not, as its limits may have it.                *)
(***************************************************************************)
EXTENDS Clauses, Sequences, FiniteSetsExt

CONSTANTS
    DecisionVars,     \* the variables that may be decided
    Start,            \* the clauses of the formula at the beginning
    Input,            \* clauses that may be added later
    Questions,        \* sequences of assumptions that may be asked
    CcMinModes,       \* ccmin_mode: how learned clauses are minimized
    MayStopEarly,     \* opt_earlyAssumptionConflict
    MayPrefetch,      \* opt_prefetch_assumption
    MayRefine,        \* opt_refineConflict
    MaxSolves,        \* bound: calls of solve
    MaxRestarts,      \* bound: restarts of a call
    MaxBiAsserting,   \* bound: bi-asserting clauses of a call, 0 without opt_biAsserting
    MaxRemovals       \* bound: runs of simplify or reduceDB that remove, in a call

ASSUME DecisionAssumption  == DecisionVars \subseteq Vars
ASSUME StartAssumption     == Start \subseteq {C \in Clause : ~ Tautology(C) /\ Cardinality(C) > 1}
ASSUME InputAssumption     == Input \subseteq Clause
ASSUME QuestionsAssumption == Questions \subseteq Seq(Lits)
ASSUME CcMinAssumption     == CcMinModes \subseteq 0 .. 2
ASSUME BoundsAssumption    == {MaxSolves, MaxRestarts, MaxBiAsserting, MaxRemovals} \subseteq Nat

NoReason == {}

VARIABLES
    pc,           \* where the solver is
    given,        \* every clause that was added (history)
    ok,           \* FALSE: the clauses are contradictory
    clauses,      \* clauses, core learnt clauses included
    learnts,      \* learnt clauses that may be removed
    weak,         \* bi-asserting clauses, whose units may go unnoticed
    trail,        \* the assigned literals in the order of assignment
    trail_lim,    \* where in the trail the decision levels begin
    level,        \* vardata[v].level, 0 for an unassigned variable
    reason,       \* vardata[v].reason
    assumptions,  \* what is assumed in this search
    saved,        \* refineAssumptions, while a conflict is refined
    refining,     \* in refineFinalConflict()
    work,         \* literals seen in the analysis of a conflict
    merges,       \* literals seen twice in the analysis (up to 2)
    conflict,     \* the conflict clause over the assumptions
    model,        \* the literals of the model
    status,       \* the last answer
    solves, restarts, biasserting, removals   \* how often, for the bounds

base     == <<given, ok, clauses, learnts, weak>>
assigned == <<trail, trail_lim, level, reason>>
asked    == <<assumptions, saved, refining>>
answer   == <<conflict, model, status>>
counters == <<solves, restarts, biasserting, removals>>
vars     == <<pc, base, assigned, asked, work, merges, answer, counters>>

\* The clauses read first, none of them a unit, are attached as they are.
Init ==
    /\ pc = "idle"
    /\ given = Start /\ ok = TRUE /\ clauses = Start /\ learnts = {} /\ weak = {}
    /\ trail = << >> /\ trail_lim = << >>
    /\ level = [v \in Vars |-> 0] /\ reason = [v \in Vars |-> NoReason]
    /\ assumptions = << >> /\ saved = << >> /\ refining = FALSE
    /\ work = {} /\ merges = 0
    /\ conflict = << >> /\ model = {} /\ status = "none"
    /\ solves = 0 /\ restarts = 0 /\ biasserting = 0 /\ removals = 0

-----------------------------------------------------------------------------
(* The assignment *)

Database        == clauses \cup learnts
True(l)         == \E i \in DOMAIN trail : trail[i] = l
False(l)        == True(-l)
Unassigned(l)   == ~ True(l) /\ ~ False(l)
Falsified(C)    == \A l \in C : False(l)
Satisfied_AnyValue(C) == \E l \in C : ~ Unassigned(l)
Satisfied(C)    == \E l \in C : True(l)
DecisionLevel   == Len(trail_lim)
LevelOf(l)      == level[VarOf(l)]
ReasonOf(l)     == reason[VarOf(l)]
AboveLevel0(C)  == {l \in C : LevelOf(l) > 0}
OnThisLevel(C)  == {l \in C : LevelOf(l) = DecisionLevel}

\* l is the only literal of C that is not false, and not assigned.
UnitUnder(C, l) == l \in C /\ Unassigned(l) /\ Falsified(C \ {l})

\* locked(): the clause is the reason of its first literal.  What a binary
\* clause implies has the other literal for its reason, not the clause.
Locked_Never(C) == FALSE
Locked(C) == Cardinality(C) > 2 /\ \E l \in C : True(l) /\ ReasonOf(l) = C

\* Where in the trail the false literal l was falsified, and the literal of
\* C that was falsified last.
Index(l)  == CHOOSE i \in DOMAIN trail : trail[i] = -l
Latest(C) == CHOOSE l \in C : \A m \in C : Index(m) <= Index(l)

\* cancelUntil(to), and uncheckedEnqueue of the literals in queue (at most
\* one) for a reason.
BackTo(to, queue, why) ==
    LET cut  == IF to < DecisionLevel THEN trail_lim[to + 1] ELSE Len(trail)
        keep == {VarOf(trail[i]) : i \in 1 .. cut}
        new  == {VarOf(queue[i]) : i \in DOMAIN queue}
    IN  /\ trail' = SubSeq(trail, 1, cut) \o queue
        /\ trail_lim' = IF to < DecisionLevel THEN SubSeq(trail_lim, 1, to) ELSE trail_lim
        /\ level' = [v \in Vars |-> IF v \in new THEN Len(trail_lim')
                                    ELSE IF v \in keep THEN level[v] ELSE 0]
        /\ reason' = [v \in Vars |-> IF v \in new THEN why
                                     ELSE IF v \in keep THEN reason[v] ELSE NoReason]

Enqueue(l, why) == BackTo(DecisionLevel, <<l>>, why)

\* newDecisionLevel() and uncheckedEnqueue of the decision.
EnqueueDecision(l) ==
    /\ trail' = Append(trail, l)
    /\ trail_lim' = Append(trail_lim, Len(trail))
    /\ level' = [level EXCEPT ![VarOf(l)] = DecisionLevel + 1]
    /\ reason' = [reason EXCEPT ![VarOf(l)] = NoReason]

-----------------------------------------------------------------------------
(* Adding clauses *)

\* addClause_: drop what is false on level 0, ignore what is satisfied.
Reduced(C) == {l \in C : ~ False(l)}

AddClause(C) ==
    /\ pc = "idle"
    /\ given' = given \cup {C}
    /\ LET R == Reduced(C)
       IN  \/ /\ ~ ok \/ Satisfied(C) \/ Tautology(C)
              /\ UNCHANGED <<pc, ok, clauses, assigned>>
           \/ /\ ok /\ ~ Satisfied(C) /\ ~ Tautology(C)
              /\ \/ /\ R = {} /\ ok' = FALSE
                    /\ UNCHANGED <<pc, clauses, assigned>>
                 \/ /\ \E l \in R : R = {l} /\ Enqueue(l, NoReason)
                    /\ pc' = "adding"
                    /\ UNCHANGED <<ok, clauses>>
                 \/ /\ Cardinality(R) > 1
                    /\ clauses' = clauses \cup {R}
                    /\ UNCHANGED <<pc, ok, assigned>>
    /\ UNCHANGED <<learnts, weak, asked, work, merges, answer, counters>>

-----------------------------------------------------------------------------
(* Answers *)

\* solve_: without assumptions to blame, the clauses are contradictory.
Contradictory_WheneverUnsat(result) == result = "unsat"
Contradictory(result) == result = "unsat" /\ conflict = << >>

\* The end of solve_, or of the second search of refineFinalConflict(), whose
\* result is not used: the conflict it found, if any, is.
Return(result, lits) ==
    LET final == IF refining THEN "unsat" ELSE result
    IN  /\ pc' = "idle"
        /\ status' = final
        /\ model' = lits
        /\ ok' = (ok /\ ~ Contradictory(final))
        /\ assumptions' = IF refining THEN saved ELSE assumptions
        /\ saved' = << >> /\ refining' = FALSE
        /\ BackTo(0, << >>, NoReason)
        /\ UNCHANGED <<given, clauses, learnts, weak, work, merges, conflict, counters>>

\* refineFinalConflict(): search again under the assumptions of the conflict.
Refine_WithoutCancel ==
    /\ MayRefine /\ ~ refining /\ assumptions # << >> /\ Len(conflict) >= 2
    /\ pc' = "propagate" /\ refining' = TRUE /\ saved' = assumptions
    /\ assumptions' = [i \in DOMAIN conflict |-> -conflict[i]]
    /\ UNCHANGED <<base, assigned, work, merges, answer, counters>>

Refine ==
    /\ MayRefine /\ ~ refining /\ assumptions # << >> /\ Len(conflict) >= 2
    /\ pc' = "propagate" /\ refining' = TRUE /\ saved' = assumptions
    /\ assumptions' = [i \in DOMAIN conflict |-> -conflict[i]]
    /\ BackTo(0, << >>, NoReason)
    /\ UNCHANGED <<base, work, merges, answer, counters>>

-----------------------------------------------------------------------------
(* solve_ *)

Call(A) ==
    /\ pc = "idle" /\ solves < MaxSolves
    /\ pc' = "called" /\ solves' = solves + 1
    /\ assumptions' = A
    /\ conflict' = << >> /\ model' = {}
    /\ restarts' = 0 /\ biasserting' = 0 /\ removals' = 0
    /\ UNCHANGED <<base, assigned, saved, refining, work, merges, status>>

AlreadyUnsat ==
    /\ pc = "called" /\ ~ ok
    /\ Return("unsat", {})

\* initSolve removes learnt clauses, whatever their size, that are too large.
StartSearch ==
    /\ pc = "called" /\ ok
    /\ pc' = "propagate"
    /\ \E gone \in SUBSET {C \in learnts : ~ Locked(C)} :
          /\ removals' = IF gone = {} THEN removals ELSE removals + 1
          /\ learnts' = learnts \ gone
    /\ removals' <= MaxRemovals
    /\ UNCHANGED <<given, ok, clauses, weak, assigned, asked, work, merges, answer,
                   solves, restarts, biasserting>>

-----------------------------------------------------------------------------
(* propagate() *)

Implies(C, l) ==
    /\ Enqueue(l, C)
    /\ UNCHANGED <<pc, base, asked, work, merges, answer, counters>>

Propagate ==
    /\ pc \in {"adding", "propagate"}
    /\ \E C \in Database : \E l \in C : UnitUnder(C, l) /\ Implies(C, l)

\* addClause_: ok = (propagate() finds no conflict).
AddingFails ==
    /\ pc = "adding"
    /\ \E C \in Database : Falsified(C)
    /\ pc' = "idle" /\ ok' = FALSE
    /\ UNCHANGED <<given, clauses, learnts, weak, assigned, asked, work, merges, answer, counters>>

\* No clause is falsified and none is unit, but for bi-asserting ones, which
\* may be watched at the wrong literals (module Watches).
Propagated ==
    /\ ~ \E C \in Database : Falsified(C)
    /\ ~ \E C \in Database \ weak : \E l \in C : UnitUnder(C, l)

EndPropagation ==
    /\ pc \in {"adding", "propagate"}
    /\ pc' = IF pc = "adding" THEN "idle" ELSE "quiet"
    /\ UNCHANGED <<base, assigned, asked, work, merges, answer, counters>>

PropagationEnds == Propagated /\ EndPropagation

-----------------------------------------------------------------------------
(* search(): a conflict *)

ConflictOnLevel0 ==
    /\ pc = "propagate" /\ DecisionLevel = 0
    /\ \E C \in Database : Falsified(C)
    /\ Return("unsat", {})

\* With merges = 2 no bi-asserting clause is learned.
StartAnalysis ==
    /\ pc = "propagate" /\ DecisionLevel > 0
    /\ \E C \in Database : Falsified(C) /\ work' = AboveLevel0(C)
    /\ pc' = "analyze"
    /\ merges' \in IF biasserting < MaxBiAsserting THEN {0, 2} ELSE {2}
    /\ UNCHANGED <<base, assigned, asked, answer, counters>>

\* The analysis goes on until one literal of this level is left, or two once
\* a single literal was seen twice.
PathLimit == IF merges = 1 THEN 1 ELSE 0
AtUip     == Cardinality(OnThisLevel(work)) <= 1 + PathLimit

\* How many literals have been seen twice, with n more.
Merged_Uncapped(n) == merges + n
Merged(n) == IF merges + n > 2 THEN 2 ELSE merges + n

\* analyze(): resolve with the reason of the literal that was falsified last.
\* A learnt clause that is used may become a core clause.  The code leaves it in
\* learnts too until reduceDB() or simplify(): an initSolve() before that may still
\* remove it, which is the case here where it has stayed a learnt clause.
Resolve ==
    /\ pc = "analyze" /\ ~ AtUip
    /\ LET l    == Latest(work)
           R    == ReasonOf(l)
           rest == AboveLevel0(R \ {-l})
       IN  /\ work' = (work \ {l}) \cup rest
           /\ merges' = Merged(Cardinality(rest \cap work))
           /\ \/ UNCHANGED <<clauses, learnts>>
              \/ /\ R \in learnts
                 /\ clauses' = clauses \cup {R} /\ learnts' = learnts \ {R}
    /\ UNCHANGED <<pc, given, ok, weak, assigned, asked, answer, counters>>

\* ccmin_mode 1: the other literals of the reason are in the clause already.
ImpliedBy_AnyReason(l, seen) == ReasonOf(l) # NoReason
ImpliedBy(l, seen) ==
    /\ ReasonOf(l) # NoReason
    /\ AboveLevel0(ReasonOf(l) \ {-l}) \subseteq seen

\* ccmin_mode 2, litRedundant(): so are the reasons of those that are not,
\* and so on, within the levels of the clause.
Levels(C) == {LevelOf(l) : l \in C}
ImpliedThrough(l, seen) ==
    \E R \in SUBSET {-trail[i] : i \in DOMAIN trail} :
        /\ Levels(R) \subseteq Levels(seen)
        /\ \A m \in R \cup {l} : ImpliedBy(m, seen \cup R)

\* The literals but the first that minimization removes from a clause.
Redundant(mode, seen) ==
    CASE mode = 0 -> {}
      [] mode = 1 -> {l \in seen : ImpliedBy(l, seen)}
      [] mode = 2 -> {l \in seen : ImpliedThrough(l, seen)}

\* minimisationWithBinaryResolution(): a binary clause of the first literal
\* and the complement of another one removes the other one.
RemovedByBinary(first, seen) == {l \in seen : {first, -l} \in Database}

\* The level to go back to: the highest one of the literals below this level;
\* level 0 for a unit clause and for a bi-asserting clause of two literals.
JumpLevel_Lowest(C) ==
    LET below == C \ OnThisLevel(C)
    IN  IF below = {} THEN 0 ELSE Min(Levels(below))
JumpLevel(C) ==
    LET below == C \ OnThisLevel(C)
    IN  IF below = {} THEN 0 ELSE Max(Levels(below))

\* The clause that is learned from work: its first literal and the others.
Learned_Dropped(first, others) ==
    /\ BackTo(JumpLevel({first} \cup others), << >>, NoReason)
    /\ UNCHANGED <<clauses, learnts, weak, biasserting>>
Learned(first, others) ==
    LET C   == {first} \cup others
        bi  == OnThisLevel(others) # {}
    IN  /\ BackTo(JumpLevel(C), IF bi THEN << >> ELSE <<first>>,
                  IF others = {} THEN NoReason ELSE C)
        /\ biasserting' = IF bi THEN biasserting + 1 ELSE biasserting
        /\ weak' = IF bi /\ Cardinality(C) > 2 THEN weak \cup ({C} \ Database) ELSE weak \ {C}
        /\ IF others = {}
           THEN UNCHANGED <<clauses, learnts>>
           ELSE \/ clauses' = clauses \cup {C} /\ UNCHANGED learnts
                \/ learnts' = learnts \cup {C} /\ UNCHANGED clauses

Learn ==
    /\ pc = "analyze" /\ AtUip
    /\ LET first == Latest(work)
           seen  == work \ {first}
       IN  \E mode \in CcMinModes, binary \in BOOLEAN :
              LET short == seen \ Redundant(mode, seen)
              IN  Learned(first, IF binary THEN short \ RemovedByBinary(first, short)
                                           ELSE short)
    /\ pc' = "propagate"
    /\ work' = {} /\ merges' = 0
    /\ UNCHANGED <<given, ok, asked, answer, solves, restarts, removals>>

-----------------------------------------------------------------------------
(* search(): no conflict *)

\* handleRestarts(): all levels go, those of the assumptions stay, or the
\* levels stay that would be decided again; search() starts anew.  The
\* second search of refineFinalConflict() ends.
Restart ==
    /\ pc = "quiet" /\ restarts < MaxRestarts
    /\ restarts' = restarts + 1
    /\ ~ refining
    /\ \E to \in 0 .. DecisionLevel : BackTo(to, << >>, NoReason)
    /\ pc' = "propagate"
    /\ UNCHANGED <<base, asked, work, merges, answer, solves, biasserting, removals>>

\* A restart, a budget that is used up or an interrupt.
SearchStops ==
    /\ pc = "quiet"
    /\ Return("undef", {})

\* simplify() on level 0, which removes satisfied clauses, and with them the
\* reasons of literals; then reduceDB(), which keeps short clauses and reasons.
Removable == {C \in learnts : Cardinality(C) > 2 /\ ~ Locked(C)}

Tidy ==
    /\ pc = "quiet" /\ pc' = "decide"
    /\ \E off \in {{}} \cup (IF DecisionLevel = 0
                             THEN {{C \in learnts : Satisfied(C)},
                                   {C \in Database : Satisfied(C)}}
                             ELSE {}) :
       \E gone \in SUBSET (Removable \ off) :
          /\ removals' = IF off \cup gone = {} THEN removals ELSE removals + 1
          /\ clauses' = clauses \ off
          /\ learnts' = learnts \ (off \cup gone)
          /\ reason' = [v \in Vars |-> IF reason[v] \in off /\ Locked(reason[v]) THEN NoReason
                                         ELSE reason[v]]
    /\ removals' <= MaxRemovals
    /\ UNCHANGED <<given, ok, weak, trail, trail_lim, level, asked, work, merges, answer,
                   solves, restarts, biasserting>>

-----------------------------------------------------------------------------
(* performSearchDecision() *)

\* The assumption of the next level, or a later one that is false already.
NextAssumption == assumptions[DecisionLevel + 1]
Prefetched ==
    {NextAssumption} \cup
    {p \in {assumptions[i] : i \in DecisionLevel + 2 .. Len(assumptions)} :
        /\ MayPrefetch /\ DecisionLevel + 3 <= Len(assumptions)
        /\ False(p)}

\* The assumption holds already: a level without a decision.
DummyLevel ==
    /\ pc = "decide" /\ DecisionLevel < Len(assumptions)
    /\ True(NextAssumption)
    /\ trail_lim' = Append(trail_lim, Len(trail))
    /\ UNCHANGED <<pc, base, trail, level, reason, asked, work, merges, answer, counters>>

DecideAssumption ==
    /\ pc = "decide" /\ DecisionLevel < Len(assumptions)
    /\ Unassigned(NextAssumption)
    /\ EnqueueDecision(NextAssumption)
    /\ pc' = "propagate"
    /\ UNCHANGED <<base, asked, work, merges, answer, counters>>

\* analyzeFinal(~p): which assumptions make the assumption p false?
AssumptionFails ==
    /\ pc = "decide" /\ DecisionLevel < Len(assumptions)
    /\ \E p \in Prefetched :
          /\ False(p)
          /\ conflict' = <<-p>>
          /\ work' = AboveLevel0({p})
    /\ pc' = "final"
    /\ UNCHANGED <<base, assigned, asked, merges, model, status, counters>>

\* pickBranchLit(): any literal of a decision variable that has no value.
Open == {l \in Lits : VarOf(l) \in DecisionVars /\ Unassigned(l)}

Decide ==
    /\ pc = "decide" /\ DecisionLevel >= Len(assumptions)
    /\ \E l \in Open : EnqueueDecision(l)
    /\ pc' = "propagate"
    /\ UNCHANGED <<base, asked, work, merges, answer, counters>>

ModelFound ==
    /\ pc = "decide" /\ DecisionLevel >= Len(assumptions)
    /\ Open = {}
    /\ Return("sat", {l \in Lits : True(l)})

-----------------------------------------------------------------------------
(* analyzeFinal() *)

\* Not all assumptions are decided, and they are in conflict already.
StopEarly ==
    /\ MayStopEarly
    /\ pc = "propagate" /\ DecisionLevel \in 1 .. Len(assumptions) - 1
    /\ \E C \in Database : Falsified(C) /\ work' = AboveLevel0(C)
    /\ conflict' = << >>
    /\ pc' = "final"
    /\ UNCHANGED <<base, assigned, asked, merges, model, status, counters>>

\* A seen literal is replaced by its reason; a decision goes into the conflict.
ExplainLatest ==
    /\ pc = "final" /\ work # {}
    /\ LET l == Latest(work)
       IN  \/ /\ ReasonOf(l) = NoReason
              /\ conflict' = Append(conflict, l)
              /\ work' = work \ {l}
           \/ /\ ReasonOf(l) # NoReason
              /\ work' = (work \ {l}) \cup AboveLevel0(ReasonOf(l) \ {-l})
              /\ UNCHANGED conflict
    /\ UNCHANGED <<pc, base, assigned, asked, merges, model, status, counters>>

AssumptionsRefuted ==
    /\ pc = "final" /\ work = {}
    /\ Return("unsat", {}) \/ Refine

-----------------------------------------------------------------------------
Search ==
    \/ AlreadyUnsat \/ StartSearch
    \/ Propagate \/ AddingFails \/ PropagationEnds
    \/ ConflictOnLevel0 \/ StartAnalysis \/ Resolve \/ Learn
    \/ Restart \/ SearchStops \/ Tidy
    \/ DummyLevel \/ DecideAssumption \/ AssumptionFails \/ Decide \/ ModelFound
    \/ StopEarly \/ ExplainLatest \/ AssumptionsRefuted

Next ==
    \/ \E C \in Input : AddClause(C)
    \/ \E A \in Questions : Call(A)
    \/ Search

Spec == Init /\ [][Next]_vars

\* A call that is made runs on.
LiveSpec == Spec /\ WF_vars(Search)
-----------------------------------------------------------------------------
(* Properties *)

TypeOK ==
    /\ pc \in {"idle", "adding", "called", "propagate", "analyze", "quiet", "decide", "final"}
    /\ given \in Formula /\ clauses \in Formula /\ learnts \in Formula /\ weak \in Formula
    /\ ok \in BOOLEAN
    /\ trail \in Seq(Lits) /\ trail_lim \in Seq(Nat)
    /\ level \in [Vars -> Nat] /\ reason \in [Vars -> Clause]
    /\ assumptions \in Seq(Lits) /\ saved \in Seq(Lits) /\ refining \in BOOLEAN
    /\ work \in Clause /\ merges \in 0 .. 2
    /\ conflict \in Seq(Lits) /\ model \in SUBSET Lits
    /\ status \in {"none", "sat", "unsat", "undef"}
    /\ solves \in 0 .. MaxSolves /\ restarts \in 0 .. MaxRestarts
    /\ biasserting \in 0 .. MaxBiAsserting /\ removals \in 0 .. MaxRemovals

\* Nothing is claimed that does not follow from the clauses that were added:
\* not the clauses that are kept or learned, not the literals of level 0, not
\* a clause under analysis, not that the clauses are contradictory: each
\* holds in every model of what was given.
Implied ==
    \A A \in SUBSET Vars : IsModel(A, given) =>
        /\ ok
        /\ IsModel(A, Database)
        /\ \A i \in DOMAIN trail : LevelOf(trail[i]) = 0 => Holds(A, trail[i])
        /\ pc = "analyze" => Sat(A, work)
        /\ pc = "final" => Sat(A, work \cup Range(conflict))

\* Nothing that was added is lost: an assignment that satisfies the clauses
\* that are kept and the literals of level 0 satisfies all that was given.
NothingLost ==
    ok => \A A \in SUBSET Vars :
             /\ IsModel(A, clauses)
             /\ \A i \in DOMAIN trail : LevelOf(trail[i]) = 0 => Holds(A, trail[i])
             => IsModel(A, given)

\* The reason of a literal is still among the clauses (on level 0, binary ones
\* may be gone), and all its other literals were false when it propagated:
\* what the analysis walks along.
ReasonsHold ==
    \A i \in DOMAIN trail :
        LET R == ReasonOf(trail[i])
        IN  R # NoReason =>
               /\ R \in Database \/ (Cardinality(R) = 2 /\ LevelOf(trail[i]) = 0)
               /\ trail[i] \in R
               /\ \A l \in R \ {trail[i]} : \E j \in 1 .. i - 1 : trail[j] = -l

\* Up to the number of assumptions, level k is that of the k-th assumption:
\* what holds without a reason there is assumed, as analyzeFinal() takes for
\* granted.
AssumptionsFirst ==
    pc \in {"propagate", "analyze", "quiet", "decide", "final"} =>
        \A i \in DOMAIN trail :
            LET k == LevelOf(trail[i])
            IN  /\ k \in 1 .. Len(assumptions) /\ ReasonOf(trail[i]) = NoReason
                => trail[i] = assumptions[k]

\* The solver jumps back below this level, where the learned clause leaves one
\* literal open, or two if it is bi-asserting; with one the clause is new (no
\* clause that is kept is part of it): what makes the search progress.
LearnsSomethingNew ==
    [][pc = "analyze" /\ pc' = "propagate" =>
          LET C    == UNION ((clauses' \cup learnts') \ Database)
              open == {l \in C : ~ False(l)'}
          IN  /\ Len(trail_lim') < DecisionLevel
              /\ C # {} => /\ Cardinality(open) \in IF merges = 1 THEN {1, 2} ELSE {1}
                           /\ Cardinality(open) = 1 =>
                                 \A D \in Database \ weak : ~ D \subseteq C]_vars

\* The solver keeps the promise of module IncrementalSat.
Promise == INSTANCE IncrementalSat WITH
    formula  <- given,
    question <- Range(IF refining THEN saved ELSE assumptions),
    verdict  <- IF pc \in {"idle", "adding"} THEN status ELSE "open",
    witness  <- IF pc \notin {"idle", "adding"} THEN {}
                ELSE IF status = "unsat" THEN Range(conflict) ELSE model
KeepsPromise == Promise!Spec

\* Every call returns.
EveryCallReturns == pc = "called" ~> pc = "idle"
=============================================================================
