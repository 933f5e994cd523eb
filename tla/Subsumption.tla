----------------------------- MODULE Subsumption -----------------------------
(***************************************************************************)
(* Subsumption and strengthening by one thread                             *)
(* (coprocessor/techniques/Subsumption.cc).                                *)
(***************************************************************************)
EXTENDS CoprocessorData

\* Without subsumption of D by C, or of a copy; the clause that is kept becomes a core
\* clause if the other one was.
Subsumption(C, D) ==
    /\ Uses("subsumption") /\ C \subseteq D
    /\ \/ D \in learnts /\ (C # D \/ C \in core) /\ Rewrite(core, learnts \ {D}, {})
       \/ D \in core /\ C \in core /\ C # D /\ Rewrite(core \ {D}, learnts, {})
       \/ D \in core /\ C \in learnts /\ Rewrite((core \ {D}) \cup {C}, learnts \ {C}, {})

\* Where D is a copy of D without l, what remains keeps the learnt flag of D.
Shorten(D, E) ==
    \/ D \in core /\ Rewrite((core \ {D}) \cup {E}, learnts, {})
    \/ D \in learnts /\ Rewrite(core, (learnts \ {D}) \cup {E}, {})

\* C with one literal complemented is a subset of D, which loses it.
Strengthening(C, D, l) ==
    /\ Uses("subsumption") /\ l \in C /\ -l \in D /\ C \ {l} \subseteq D
    /\ Shorten(D, D \ {-l})

SubsumptionNext ==
    \/ \E C, D \in All : Subsumption(C, D)
    \/ \E C, D \in All : \E l \in C : Strengthening(C, D, l)
==============================================================================
