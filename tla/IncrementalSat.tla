---------------------------- MODULE IncrementalSat ----------------------------
(***************************************************************************)
(* What the solver promises to the program that uses it (the comments of   *)
(* Solver.h on model, conflict and solve): clauses are added between the   *)
(* questions; a question is a set of assumptions; its answer is a model of *)
(* the formula and the assumptions, or a clause over the negated           *)
(* assumptions that follows from the formula, or neither of the two.       *)
(***************************************************************************)
EXTENDS Clauses

VARIABLES
    formula,    \* the clauses added so far
    question,   \* the assumptions of the last call
    verdict,    \* "none", "open" or the last answer
    witness     \* model or conflict of the last answer

Init ==
    /\ formula \in Formula /\ question = {}
    /\ verdict = "none" /\ witness = {}

Add ==
    /\ verdict # "open"
    /\ \E C \in Clause : formula' = formula \cup {C}
    /\ UNCHANGED <<question, verdict, witness>>

Ask ==
    /\ verdict # "open"
    /\ question' \in SUBSET Lits
    /\ verdict' = "open" /\ witness' = {}
    /\ UNCHANGED formula

AnswerSat ==
    /\ verdict = "open"
    /\ \E A \in SUBSET Vars :
          /\ IsModel(A, formula)
          /\ question \subseteq LitsOf(A)
          /\ witness' = LitsOf(A)
    /\ verdict' = "sat"
    /\ UNCHANGED <<formula, question>>

AnswerUnsat ==
    /\ verdict = "open"
    /\ witness' \in SUBSET Negated(question)
    /\ Entails(formula, witness')
    /\ verdict' = "unsat"
    /\ UNCHANGED <<formula, question>>

GiveUp ==
    /\ verdict = "open"
    /\ verdict' = "undef" /\ witness' = {}
    /\ UNCHANGED <<formula, question>>

Next == Add \/ Ask \/ AnswerSat \/ AnswerUnsat \/ GiveUp

vars == <<formula, question, verdict, witness>>

Spec == Init /\ [][Next]_vars
=============================================================================
