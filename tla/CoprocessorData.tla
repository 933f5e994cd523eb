--------------------------- MODULE CoprocessorData ---------------------------
(***************************************************************************)
(* The formula that the simplification techniques share                    *)
(* (coprocessor/CoprocessorTypes.h): the clauses of the solver, its trail  *)
(* and the stack from which a model of what is left becomes a model of     *)
(* what was given.                                                         *)
(*                                                                         *)
(* A clause is the set of its literals; several copies with the same       *)
(* learnt flag are one.  A technique is a set of steps.  It may stop after *)
(* any of them: limits of steps, interrupts and queues decide how far it   *)
(* gets, so that every step stands for itself.                             *)
(***************************************************************************)
EXTENDS Propagation, Sequences, SequencesExt

CONSTANT Starts  \* records [core, learnts, frozen, techniques, steps]: formulas,
                 \* the techniques that run on them and a bound on their steps

ASSUME StartsAssumption == \A s \in Starts : s.core \subseteq Clause /\ s.learnts \subseteq Clause

\* addClause_ drops tautologies and puts single literals on the trail.
ASSUME ClausesAssumption ==
    \A s \in Starts : \A C \in s.core \cup s.learnts : Cardinality(C) > 1 /\ ~ Tautology(C)

\* Variables are frozen that the solver has.
ASSUME FrozenAssumption ==
    \A s \in Starts : s.frozen \subseteq {VarOf(l) : l \in UNION (s.core \cup s.learnts)}

\* Learnt clauses that search or earlier simplification has left exclude nothing that the
\* core clauses allow for the frozen variables.
ASSUME LearntsAssumption ==
    \A s \in Starts : LET variables == {VarOf(l) : l \in UNION (s.core \cup s.learnts)} IN
        \A A \in SUBSET variables : IsModel(A, s.core) =>
            \E B \in SUBSET variables : B \cap s.frozen = A \cap s.frozen /\ IsModel(B, s.core \cup s.learnts)

VARIABLES
    core, learnts,  \* the clauses that are left
    units,          \* the trail, propagated
    ok,             \* FALSE: the formula is known to be unsatisfiable
    undo,           \* the extension stack: records [lit, clause]
    fresh,          \* variables the solver does not have yet
    steps, start,
    mapping,        \* for each variable the client knows, its number in the solver or 0
    forward,        \* the other way; both are empty unless variables were renumbered
    kept            \* literals whose variables were removed while they were true

vars == <<core, learnts, units, ok, undo, fresh, steps, start>>
names == <<mapping, forward, kept>>

All     == core \cup learnts
With(l) == {C \in All : l \in C}        \* list(l)
Occurring == UNION All

\* The client's number of a variable, and of a literal, of the solver (exportLit).
Renamed      == forward # << >>
ExportVar(v) == IF Renamed THEN forward[v] ELSE v
ExportLit_Unchanged(l) == l
ExportLit(l) == IF l > 0 THEN ExportVar(l) ELSE -ExportVar(-l)

Frozen   == {v \in Vars \ fresh : ExportVar(v) \in start.frozen}    \* doNotTouch
Assigned == {VarOf(l) : l \in units}
Open     == Vars \ (Assigned \cup fresh)
OpenLits == Open \cup {-v : v \in Open}
NextFreshVariable == CHOOSE x \in fresh : \A y \in fresh : x <= y

Init ==
    /\ start \in Starts
    /\ core = start.core /\ learnts = start.learnts
    /\ units = {} /\ ok = TRUE /\ undo = << >>
    /\ fresh = Vars \ {VarOf(l) : l \in UNION (start.core \cup start.learnts)}
    /\ steps = 0

Uses(technique) == technique \in start.techniques /\ ok /\ steps < start.steps

\* The clauses become K and L, and U is put on the trail and propagated; a clause
\* of one literal is never kept, a contradiction is final.
Become(K, L, U) ==
    LET V == UnitsFrom(K \cup L, units \cup U)
    IN  /\ IF FailsWith(K \cup L, V)
           THEN ok' = FALSE /\ UNCHANGED <<core, learnts, units>>
           ELSE /\ core' = Reduced(K, V) /\ learnts' = Reduced(L, V) /\ units' = V
                /\ UNCHANGED ok
        /\ steps' = steps + 1
        /\ UNCHANGED start

\* setFailed.
Fail ==
    /\ ok' = FALSE /\ steps' = steps + 1
    /\ UNCHANGED <<core, learnts, units, undo, fresh, start>>

\* Entries pushed for the clauses S with the literal l, which comes first; the stack has
\* the client's numbers.
Entries(S, l) == [i \in 1..Cardinality(S) |-> [lit |-> l, clause |-> SetToSeq(S)[i]]]
Push(entries) ==
    undo' = undo \o [i \in DOMAIN entries |-> [lit |-> ExportLit(entries[i].lit),
                                               clause |-> {ExportLit(l) : l \in entries[i].clause}]]

\* Nothing was removed that a model needs.
Rewrite(K, L, U) == Become(K, L, U) /\ UNCHANGED <<undo, fresh>>

\* The last clause pushed is looked at first: if it is not satisfied, its first
\* literal becomes true.
MadeTrue(A, l) == IF l > 0 THEN A \cup {l} ELSE A \ {-l}
Repaired(A, e) == IF Sat(A, e.clause) THEN A ELSE MadeTrue(A, e.lit)
Undone(stack, A) ==
    LET after[i \in 0..Len(stack)] ==
            IF i = 0 THEN A ELSE Repaired(after[i - 1], stack[Len(stack) + 1 - i])
    IN  after[Len(stack)]
Extended(A) == Undone(undo, A)

\* The binary implication graph of the clauses F, and what a literal reaches in it.
Implies(F, a, b) == {-a, b} \in F
Reaches(F, a) ==
    LET reached[n \in 0..2 * Cardinality(Open)] ==
            IF n = 0 THEN {b \in OpenLits : Implies(F, a, b)}
            ELSE UNION {S \cup UNION {{c \in OpenLits : Implies(F, b, c)} : b \in S} : S \in {reached[n - 1]}}
    IN  reached[2 * Cardinality(Open)]

Resolvent(C, D, l) == (C \ {l}) \cup (D \ {-l})
==============================================================================
