------------------------ MODULE CardinalityReasoning ------------------------
(***************************************************************************)
(* Cardinality constraints in the formula, and what they say when one      *)
(* literal after the other is eliminated from them                         *)
(* (coprocessor/techniques/FourierMotzkin.cc).  A constraint says that not *)
(* more than k more literals of ll than of lr are true.  Nothing of the    *)
(* formula is removed but what a new clause subsumes.                      *)
(***************************************************************************)
EXTENDS Probing, FiniteSetsExt

AtMost(S, k) == [ll |-> S, lr |-> {}, k |-> k]
OfClause(C)  == [ll |-> {}, lr |-> C, k |-> -1]

IsAmo(c)    == c.k = 1 /\ c.lr = {}
IsAlo(c)    == c.k < 0 /\ c.ll = {}         \* alo and alk
IsUnit(c)   == c.k + Cardinality(c.lr) = 0
IsFailed(c) == c.k + Cardinality(c.lr) < 0
IsTaut(c)   == c.k >= Cardinality(c.ll)

-----------------------------------------------------------------------------
(* Finding constraints *)

OfSize(S, n) == {T \in SUBSET S : Cardinality(T) = n}

\* Cliques of the binary clauses, and the same of ternary ones.
Cliques(n) ==
    {S \in SUBSET OpenLits : Cardinality(S) > n /\ \A T \in OfSize(S, n) : Negated(T) \in All /\ ~ Tautology(T)}

\* The two-product encoding: each literal of the new constraint implies one of A and one
\* of B, and no two of them the same pair.  No more than Width literals are taken.
Width == 3
Hits(A, B) == {t \in OpenLits \X A \X B : Implies(All, t[1], t[2]) /\ Implies(All, t[1], t[3])}
Products(A, B) ==
    UNION {{{t[1] : t \in T} :
              T \in {U \in kSubset(n, Hits(A, B)) :
                        \A t, u \in U : t # u => t[1] # u[1] /\ <<t[2], t[3]>> # <<u[2], u[3]>>}} : n \in 2..Width}

\* Two constraints on complementary literals.  What they share is false.
Merged(A, B, l) == ((A \ {l}) \cup (B \ {-l})) \ (A \cap B)
MergesOf(F) ==
    {Merged(m[1], m[2], m[3]) : m \in {x \in F \X F \X OpenLits : x[3] \in x[1] /\ -x[3] \in x[2]}}

\* findCardsSemantic: the complements of a clause, and a literal that is false
\* whenever the degree of them is reached; no such set may be consistent at all.
CommonOf(S, n) ==
    {e \in OpenLits \ Negated(S) :
        /\ \A T \in OfSize(S, n) : Fails(All, T) \/ e \in Up(All, T)
        /\ \E T \in OfSize(S, n) : ~ Fails(All, T)}
Semantic ==
    UNION {LET S == Negated(C)
               n == Cardinality(C) - 1
           IN  {AtMost(S \cup {-e}, n) : e \in CommonOf(S, n)}
               \cup (IF \A T \in OfSize(S, n) : Fails(All, T) THEN {AtMost(S, n - 1)} ELSE {}) : C \in core}

ProductsOf(F) == UNION {Products(p[1], p[2]) : p \in {q \in F \X F : q[1] # q[2]}}
\* removeSubsumedAMOs: the largest ones are kept.
Largest(F) == {A \in F : \A B \in F : A \subseteq B => A = B}
Amos == UNION {Largest(F \cup {M \in MergesOf(F) \cup ProductsOf(F) : ~ Tautology(M)}) : F \in {Cliques(2)}}

Constraints == {AtMost(S, 1) : S \in Amos} \cup {AtMost(S, 2) : S \in Cliques(3)} \cup Semantic

Useful(cards) ==
    LET touched == UNION {{VarOf(l) : l \in c.ll} : c \in cards}
    IN  {OfClause(C) : C \in {D \in core : Cardinality(D) > 2 /\ \E l \in D : VarOf(l) \in touched}}

-----------------------------------------------------------------------------
(* Eliminating a literal *)

\* One side of the sum: complementary literals count one.
Side(A, B)   == {l \in A \cup B : -l \notin (IF l \in A THEN B ELSE A)}
Pairs(A, B)  == Cardinality({l \in A : -l \in B})

\* c has e on the left, d on the right; a literal twice on one side is not handled.
\* Of a literal on the left and its complement on the right the left one is dropped.
Addable(c, d, e) ==
    e \in c.ll /\ e \in d.lr /\ c # d /\ c.ll \cap d.ll = {} /\ (c.lr \cap d.lr) \ {e} = {}

SumOf(c, d, e) ==
    LET L == Side(c.ll \ {e}, d.ll)
        R == Side(c.lr, d.lr \ {e})
    IN  [ll |-> (L \ R) \ Negated(R), lr |-> R \ L,
         k |-> c.k + d.k - Pairs(c.ll \ {e}, d.ll) + Pairs(c.lr, d.lr \ {e})]

Derived(cards) ==
    {x \in {SumOf(q[1], q[2], q[3]) : q \in {p \in cards \X cards \X OpenLits : Addable(p[1], p[2], p[3])}} : ~ IsTaut(x)}

\* So many literals are eliminated.
EliminatedLiterals == 2
NewConstraints ==
    LET after[n \in 0..EliminatedLiterals] ==
            IF n = 0 THEN UNION {cards \cup Useful(cards) : cards \in {Constraints}}
            ELSE UNION {cards \cup Derived(cards) : cards \in {after[n - 1]}}
    IN  after[EliminatedLiterals] \ Constraints

-----------------------------------------------------------------------------
(* What is added to the formula *)

UnitsOf(c) == Negated(c.ll) \cup c.lr

\* A constraint that has a literal and its complement makes the others false.
SharedIn(F) == {m[1] \cap m[2] : m \in {x \in F \X F : \E l \in x[1] : -l \in x[2]}}
WithBoth(F) == {M \in MergesOf(F) \cup ProductsOf(F) : Tautology(M)}
UnitsOfAmos ==
    \E F \in {Cliques(2)} : \E U \in SharedIn(F) \cup {{l \in M : -l \notin M} : M \in WithBoth(F)} :
        U # {} /\ Rewrite(core, learnts, Negated(U))

UnitConstraint(c) == IsUnit(c) /\ UnitsOf(c) # {} /\ Rewrite(core, learnts, UnitsOf(c))

Contradiction(c) == IsFailed(c) /\ Fail

AddAmo(c) == IsAmo(c) /\ Rewrite(core \cup {Negated(T) : T \in OfSize(c.ll, 2)}, learnts, {})

\* hasDuplicate: with opt_checkSub a clause that subsumes the new one takes its place,
\* and the ones that it subsumes go.
AddAlo(C) ==
    \/ C \notin All /\ Rewrite(core \cup {C}, learnts, {})
    \/ /\ \A D \in All : ~ (D \subseteq C)
       /\ Rewrite({D \in core : ~ (C \subseteq D)} \cup {C}, {D \in learnts : ~ (C \subseteq D)}, {})

\* deduceALOfromAmoAloMatrix: disjoint clauses, as many as each of the disjoint AMOs has
\* literals, and each of them meets each AMO once.
Disjoint(F) == \A C, D \in F : C # D => C \cap D = {}
DeduceAlo ==
    \E M \in kSubset(2, Amos) \cup kSubset(3, Amos) : \E A \in M :
        /\ Disjoint(M) /\ \A B \in M : Cardinality(B) = Cardinality(A)
        /\ \E R \in OfSize({C \in All : Cardinality(C) = Cardinality(M) /\ \A B \in M : Cardinality(C \cap B) = 1},
                           Cardinality(A)) :
              Disjoint(R) /\ Cardinality(M) <= Cardinality(A) /\ AddAlo(A)

CardinalityNext ==
    \/ Uses("fm") /\ UnitsOfAmos
    \/ Uses("fm") /\ \E c \in NewConstraints : UnitConstraint(c)
    \/ Uses("fm") /\ \E c \in NewConstraints : Contradiction(c)
    \/ Uses("fm") /\ \E c \in NewConstraints : AddAmo(c)
    \/ Uses("fm") /\ \E c \in NewConstraints : IsAlo(c) /\ AddAlo(c.lr)
    \/ Uses("alo matrix") /\ DeduceAlo
==============================================================================
