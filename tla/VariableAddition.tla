-------------------------- MODULE VariableAddition --------------------------
(***************************************************************************)
(* Bounded variable addition (coprocessor/techniques/BVA.cc): a new        *)
(* variable stands for a part that clauses share, which makes the formula  *)
(* smaller.  How much has to be gained is left out.                        *)
(***************************************************************************)
EXTENDS CoprocessorData

\* The clauses K and L take the place of all clauses S, with new variables X.
Exchange(S, K, L, X) ==
    Become((core \ S) \cup K, (learnts \ S) \cup L, {}) /\ fresh' = fresh \ X /\ UNCHANGED undo

\* A clause that stands for others is a core clause if one of them was.
OfCore(S) == S \cap core # {}

-----------------------------------------------------------------------------
(* BVA.cc: x implies something that the rests have in common; rows[r] is    *)
(* the set of clauses that {x} \cup r stands for                            *)

Replace(x, rows, definition) ==
    Exchange(UNION {rows[r] : r \in DOMAIN rows},
             {r \cup {x} : r \in {s \in DOMAIN rows : OfCore(rows[s])}} \cup definition,
             {r \cup {x} : r \in {s \in DOMAIN rows : ~ OfCore(rows[s])}}, {x})

\* andBVA: x implies all literals of M.
RestsOfAll(M) ==
    {r \in SUBSET Occurring : r \cap M = {} /\ r # {} /\ \A l \in M : {l} \cup r \in All}

AndAddition(M) ==
    /\ Cardinality(M) > 1 /\ \A l \in M : -l \notin M
    /\ RestsOfAll(M) # {}
    /\ LET x    == NextFreshVariable
           rows == [r \in RestsOfAll(M) |-> {{l} \cup r : l \in M}]
       IN  Replace(x, rows, {{-x, l} : l \in M})

\* With bvaSubstituteOr the complements of M in a clause become -x, and the gate is
\* complete.
SubstituteOr(M) ==
    /\ Uses("substitute or") /\ Cardinality(M) > 1 /\ RestsOfAll(M) # {}
    /\ LET x      == NextFreshVariable
           S      == {C \in All : Negated(M) \subseteq C}
           Of(F)  == {{-x} \cup (C \ Negated(M)) : C \in F \cap S}
           Row(r) == {{l} \cup r : l \in M}
           Rows   == UNION {Row(r) : r \in RestsOfAll(M)}
           OfRows == {{x} \cup r : r \in {s \in RestsOfAll(M) : OfCore(Row(s))}}
       IN  /\ S # {} /\ \A C \in S : C \notin Rows
           /\ Exchange(S \cup Rows,
                       Of(core) \cup OfRows \cup {{-x, l} : l \in M} \cup { {x} \cup Negated(M) },
                       Of(learnts) \cup ({{x} \cup r : r \in RestsOfAll(M)} \ OfRows), {x})

\* bvaHandleComplement: clauses that differ in one literal's sign only lose it.  What
\* remains keeps the learnt flag of the clause with that literal.
Complements(a) == {r \in SUBSET Occurring : {a} \cup r \in All /\ {-a} \cup r \in All /\ r # {}}
HandleComplement(a) ==
    /\ Complements(a) # {}
    /\ LET With2(r) == {{a} \cup r, {-a} \cup r}
       IN  Exchange(UNION {With2(r) : r \in Complements(a)},
                    {r \in Complements(a) : {a} \cup r \in core},
                    {r \in Complements(a) : {a} \cup r \notin core}, {})

\* xorBVAhalf: x implies that a and b differ; xorBVAfull: -x that they do not.  Learnt
\* clauses take part in the first one only.
RestsOfPair(F, C, D) == {r \in SUBSET Occurring : r # {} /\ C \cup r \in F /\ D \cup r \in F}

HalfXor(a, b) ==
    /\ RestsOfPair(All, {a, b}, {-a, -b}) # {}
    /\ LET x    == NextFreshVariable
           rows == [r \in RestsOfPair(All, {a, b}, {-a, -b}) |-> {{a, b} \cup r, {-a, -b} \cup r}]
       IN  Replace(x, rows, {{-x, a, b}, {-x, -a, -b}})

FullXor(a, b) ==
    LET P == RestsOfPair(core, {a, b}, {-a, -b})
        N == RestsOfPair(core, {-a, b}, {a, -b})
        x == NextFreshVariable
    IN  /\ P # {} /\ N # {}
        /\ Exchange(UNION ({{{a, b} \cup r, {-a, -b} \cup r} : r \in P} \cup {{{-a, b} \cup r, {a, -b} \cup r} : r \in N}),
                    {r \cup {x} : r \in P} \cup {r \cup {-x} : r \in N}
                        \cup {{-x, a, b}, {-x, -a, -b}, {x, a, -b}, {x, -a, b}}, {}, {x})

\* iteBVAhalf: x implies t if s and f otherwise; iteBVAfull: -x the complements.
HalfIte(s, t, f) ==
    /\ RestsOfPair(All, {s, f}, {-s, t}) # {}
    /\ LET x    == NextFreshVariable
           rows == [r \in RestsOfPair(All, {s, f}, {-s, t}) |-> {{s, f} \cup r, {-s, t} \cup r}]
       IN  Replace(x, rows, {{-x, s, f}, {-x, -s, t}})

FullIte(s, t, f) ==
    LET P == RestsOfPair(All, {s, f}, {-s, t})
        N == RestsOfPair(All, {s, -f}, {-s, -t})
        x == NextFreshVariable
        PRow(r) == {{s, f} \cup r, {-s, t} \cup r}
        NRow(r) == {{s, -f} \cup r, {-s, -t} \cup r}
        New(q) == {{x} \cup r : r \in {p \in P : OfCore(PRow(p)) = q}} \cup {{-x} \cup r : r \in {n \in N : OfCore(NRow(n)) = q}}
    IN  /\ P # {} /\ N # {}
        /\ Exchange(UNION ({PRow(r) : r \in P} \cup {NRow(r) : r \in N}),
                    New(TRUE) \cup {{-x, s, f}, {-x, -s, t}, {x, s, -f}, {x, -s, -t}}, New(FALSE), {x})

AdditionNext ==
    \/ Uses("bva") /\ fresh # {} /\ \E M \in SUBSET Occurring : AndAddition(M)
    \/ Uses("bva") /\ fresh # {} /\ \E a, b \in Occurring : VarOf(a) < VarOf(b) /\ HalfXor(a, b)
    \/ Uses("bva") /\ fresh # {} /\ \E a, b \in Occurring : VarOf(a) < VarOf(b) /\ FullXor(a, b)
    \/ Uses("bva") /\ fresh # {} /\ \E s, t, f \in Occurring : VarOf(t) # VarOf(f) /\ HalfIte(s, t, f)
    \/ Uses("bva") /\ fresh # {} /\ \E s, t, f \in Occurring : VarOf(t) # VarOf(f) /\ FullIte(s, t, f)
    \/ Uses("substitute or") /\ fresh # {} /\ \E M \in SUBSET Occurring : SubstituteOr(M)
    \/ Uses("complements") /\ \E a \in Occurring : HandleComplement(a)
==============================================================================
