------------------------------ MODULE Compaction ------------------------------
(***************************************************************************)
(* Variables that are not needed any more give up their numbers            *)
(* (coprocessor/techniques/Dense.cc, riss/utils/Compression.h): the solver *)
(* counts its variables from 1 again, the extension stack and the client   *)
(* keep the numbers of the given formula.                                  *)
(*                                                                         *)
(* One compression is modelled: compress translates the clauses, which     *)
(* have the solver's numbers, with the table that starts from the numbers  *)
(* of the given formula, and these are the same the first time only.  A    *)
(* formula without variables is left alone.                                *)
(***************************************************************************)
EXTENDS CoprocessorData

NamesInit == mapping = << >> /\ forward = << >> /\ kept = {}

Needed_Touched(v, keepAssigned) ==
    {v, -v} \cap UNION core # {} \/ (keepAssigned /\ v \in Assigned)

\* Only core clauses count; variables that must not be touched stay, assigned ones if an
\* option says so.
Needed(v, keepAssigned) ==
    \/ {v, -v} \cap UNION core # {} \/ v \in Frozen
    \/ keepAssigned /\ v \in Assigned

\* Compression::update: old numbers to new ones, removed variables to 0, and back.
Compress(keepAssigned) ==
    LET n        == Cardinality(Vars \ fresh)
        Stay     == {v \in 1..n : Needed(v, keepAssigned)}
        number   == [v \in 1..n |-> IF v \in Stay THEN Cardinality({w \in Stay : w <= v}) ELSE 0]
        New(l)   == IF l > 0 THEN number[l] ELSE -number[-l]
        Moved(F) == {{New(l) : l \in C} : C \in {D \in F : \A l \in D : VarOf(l) \in Stay}}
    IN  /\ Uses("dense") /\ ~ Renamed /\ Stay # 1..n /\ Stay # {}
        /\ mapping' = number /\ forward' = SetToSortSeq(Stay, <)
        /\ core' = Moved(core) /\ learnts' = Moved(learnts)
        /\ units' = {New(l) : l \in {k \in units : VarOf(k) \in Stay}}
        /\ kept' = {l \in units : VarOf(l) \notin Stay}
        /\ fresh' = Vars \ 1..Cardinality(Stay)
        /\ steps' = steps + 1 /\ UNCHANGED <<ok, undo, start>>

\* Compression::newVar, for each variable that a step of another technique adds.
NamesFollow ==
    LET added == Cardinality(fresh) - Cardinality(fresh')
    IN  /\ IF Renamed
           THEN /\ mapping' = mapping \o [i \in 1..added |-> Len(forward) + i]
                /\ forward' = forward \o [i \in 1..added |-> Len(mapping) + i]
           ELSE UNCHANGED <<mapping, forward>>
        /\ UNCHANGED kept

\* decompress: the model has one value for each number of the solver; from the last variable
\* on, each gets the value of its new number or the one it had when it was removed.
Decompressed(A) ==
    IF Renamed
    THEN {v \in 1..Len(mapping) :
            \/ mapping[v] # 0 /\ mapping[v] \in A
            \/ mapping[v] = 0 /\ -v \notin kept /\ (v \in kept \/ v \in A)}
    ELSE A

CompactionNext == \E keepAssigned \in BOOLEAN : Compress(keepAssigned)
==============================================================================
