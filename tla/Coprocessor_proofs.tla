-------------------------- MODULE Coprocessor_proofs --------------------------
(***************************************************************************)
(* What simplification undoes: a model of what is left of the formula is   *)
(* made a model of the given one.  IndInv is the inductive invariant,      *)
(* GoodStep says what a step of a technique may do, and each action of the *)
(* techniques that are covered has a lemma that it is a GoodStep.          *)
(***************************************************************************)
EXTENDS Coprocessor, FiniteSetTheorems, SequenceTheorems, WellFoundedInduction, TLAPS

-----------------------------------------------------------------------------
(* Induction *)

\* What holds of 0 and of a number if it holds of the one before holds up to N.
LEMMA Induction ==
    ASSUME NEW N \in Nat, NEW S, 0 \in S, \A n \in 1..N : n - 1 \in S => n \in S
    PROVE  0..N \subseteq S
<1> DEFINE T == {n \in 0..N : n \notin S}
<1>1. SUFFICES ASSUME T # {} PROVE FALSE
  OBVIOUS
<1>2. IsWellFoundedOn(OpToRel(<, Nat), Nat)
  BY NatLessThanWellFounded
<1>3. T \subseteq Nat
  OBVIOUS
<1>4. PICK x \in T : \A y \in T : ~ (<<y, x>> \in OpToRel(<, Nat))
  BY <1>1, <1>2, <1>3, WFMin
<1>5. x # 0 /\ x \in 1..N /\ x - 1 \in 0..N
  OBVIOUS
<1>6. x - 1 \notin T
  <2>1. SUFFICES ASSUME x - 1 \in T PROVE FALSE
    OBVIOUS
  <2>2. <<x - 1, x>> \in OpToRel(<, Nat)
    BY <1>5 DEF OpToRel
  <2>3. QED
    BY <2>1, <2>2, <1>4
<1>7. QED
  BY <1>5, <1>6

\* A function that is defined by its value for the number before.
IsStep(step, S, N) == \A n \in 1..N, x \in S : step[<<n, x>>] \in S
IsIterate(f, S, N, base, step) ==
    f \in [0..N -> S] /\ f[0] = base /\ \A n \in 1..N : f[n] = step[<<n, f[n - 1]>>]

LEMMA Iterates ==
    ASSUME NEW S, NEW N \in Nat, NEW base \in S, NEW step, IsStep(step, S, N)
    PROVE  \E f : IsIterate(f, S, N, base, step)
<1> DEFINE Upto(m) == {f \in [0..m -> S] :
                          f[0] = base /\ \A n \in 1..m : f[n] = step[<<n, f[n - 1]>>]}
           T == {m \in 0..N : Upto(m) # {}}
<1>1. 0 \in T
  <2>1. [n \in 0..0 |-> base] \in Upto(0)
    OBVIOUS
  <2>2. QED
    BY <2>1
<1>2. ASSUME NEW m \in 1..N, m - 1 \in T PROVE m \in T
  <2>1. PICK f \in Upto(m - 1) : TRUE
    BY <1>2
  <2> DEFINE g == [n \in 0..m |-> IF n = m THEN step[<<m, f[m - 1]>>] ELSE f[n]]
  <2>2. f[m - 1] \in S
    BY <2>1
  <2>3. step[<<m, f[m - 1]>>] \in S
    BY <2>2 DEF IsStep
  <2>4. g \in [0..m -> S]
    BY <2>3, <2>1
  <2>5. g[0] = base
    BY <2>1
  <2>6. ASSUME NEW n \in 1..m PROVE g[n] = step[<<n, g[n - 1]>>]
    <3>1. n \in 0..m /\ n - 1 \in 0..m /\ n - 1 # m
      OBVIOUS
    <3>2. g[n - 1] = f[n - 1]
      BY <3>1
    <3>3. CASE n = m
      BY <3>1, <3>2, <3>3
    <3>4. CASE n # m
      <4>1. g[n] = f[n] /\ n \in 1..(m - 1)
        BY <3>1, <3>4
      <4>2. QED
        BY <4>1, <3>2, <2>1
    <3>5. QED
      BY <3>3, <3>4
  <2>7. g \in Upto(m)
    BY <2>4, <2>5, <2>6
  <2> HIDE DEF Upto
  <2>8. QED
    BY <2>7
<1>3. N \in T
  <2> HIDE DEF T
  <2>1. 0..N \subseteq T
    BY <1>1, <1>2, Induction
  <2>2. QED
    BY <2>1
<1>4. PICK f \in Upto(N) : TRUE
  BY <1>3
<1>5. QED
  BY <1>4 DEF IsIterate

-----------------------------------------------------------------------------
(* Literals and assignments *)

LEMMA LitFacts ==
    ASSUME NEW l \in Lits
    PROVE  /\ l \in Int /\ l # 0 /\ -l \in Lits /\ -(-l) = l
           /\ VarOf(l) \in Vars /\ VarOf(l) \in Nat /\ VarOf(l) # 0 /\ VarOf(-l) = VarOf(l)
BY VarsAssumption DEF Lits, VarOf

\* A literal and its complement: one of them holds.
LEMMA HoldsFlip ==
    ASSUME NEW l \in Int, l # 0, NEW A
    PROVE  Holds(A, -l) <=> ~ Holds(A, l)
BY DEF Holds

\* A literal that becomes true disturbs none but its complement.
LEMMA MadeTrueHolds ==
    ASSUME NEW l \in Int, l # 0, NEW A, NEW k \in Int, k # 0
    PROVE  /\ Holds(MadeTrue(A, l), l)
           /\ k # -l /\ Holds(A, k) => Holds(MadeTrue(A, l), k)
           /\ VarOf(k) # VarOf(l) => (Holds(MadeTrue(A, l), k) <=> Holds(A, k))
           /\ ~ Holds(A, k) /\ k # l => ~ Holds(MadeTrue(A, l), k)
BY DEF Holds, MadeTrue, VarOf

LEMMA MadeTrueType ==
    ASSUME NEW l \in Lits, NEW A \in SUBSET Vars
    PROVE  MadeTrue(A, l) \in SUBSET Vars
BY VarsAssumption DEF MadeTrue, Lits

-----------------------------------------------------------------------------
(* The extension stack *)

LEMMA UndoneDef ==
    ASSUME NEW stack, Len(stack) \in Nat, NEW A
    PROVE  \E f : /\ f = [i \in 0..Len(stack) |->
                             IF i = 0 THEN A ELSE Repaired(f[i - 1], stack[Len(stack) + 1 - i])]
                  /\ Undone(stack, A) = f[Len(stack)]
<1> DEFINE n == Len(stack)
           X == A \cup {stack[i].lit : i \in 1..n}
           S == SUBSET X
           step == [p \in (1..n) \X S |-> Repaired(p[2], stack[n + 1 - p[1]])]
<1>1. IsStep(step, S, n)
  <2>1. ASSUME NEW i \in 1..n, NEW B \in S PROVE Repaired(B, stack[n + 1 - i]) \in S
    <3>1. n + 1 - i \in 1..n
      OBVIOUS
    <3>2. QED
      BY <3>1 DEF Repaired, MadeTrue
  <2>2. QED
    BY <2>1 DEF IsStep
<1>2. A \in S
  OBVIOUS
<1>3. PICK f : IsIterate(f, S, n, A, step)
  <2>1. n \in Nat
    OBVIOUS
  <2> HIDE DEF step, S, X, n
  <2>2. QED
    BY <1>1, <1>2, <2>1, Iterates
<1>4. f = [i \in 0..n |-> IF i = 0 THEN A ELSE Repaired(f[i - 1], stack[n + 1 - i])]
  <2>1. ASSUME NEW i \in 0..n
        PROVE  f[i] = IF i = 0 THEN A ELSE Repaired(f[i - 1], stack[n + 1 - i])
    <3>1. CASE i = 0
      BY <3>1, <1>3 DEF IsIterate
    <3>2. CASE i # 0
      <4>1. i \in 1..n /\ i - 1 \in 0..n
        BY <3>2
      <4>2. f[i - 1] \in S
        BY <4>1, <1>3 DEF IsIterate
      <4>3. step[<<i, f[i - 1]>>] = Repaired(f[i - 1], stack[n + 1 - i])
        BY <4>1, <4>2
      <4>4. QED
        BY <1>3, <4>1, <4>3, <3>2 DEF IsIterate
    <3>3. QED
      BY <3>1, <3>2
  <2> HIDE DEF X, step
  <2>2. DOMAIN f = 0..n
    BY <1>3 DEF IsIterate
  <2>3. f = [i \in 0..n |-> f[i]]
    BY <1>3 DEF IsIterate
  <2>4. QED
    BY <2>1, <2>3
<1>5. QED
  <2> DEFINE after == CHOOSE g : g = [i \in 0..n |-> IF i = 0 THEN A ELSE Repaired(g[i - 1], stack[n + 1 - i])]
  <2>1. after = [i \in 0..n |-> IF i = 0 THEN A ELSE Repaired(after[i - 1], stack[n + 1 - i])]
    BY <1>4
  <2>2. Undone(stack, A) = after[n]
    BY DEF Undone
  <2>3. QED
    BY <2>1, <2>2

\* The entries are undone one after the other: f lists what that gives.
Undoes(f, s, A) ==
    f[0] = A /\ \A i \in 1..Len(s) : f[i] = Repaired(f[i - 1], s[Len(s) + 1 - i])

LEMMA UndoneStepwise ==
    ASSUME NEW s, Len(s) \in Nat, NEW A
    PROVE  \E f : Undoes(f, s, A) /\ Undone(s, A) = f[Len(s)]
<1>1. PICK f : /\ f = [i \in 0..Len(s) |->
                         IF i = 0 THEN A ELSE Repaired(f[i - 1], s[Len(s) + 1 - i])]
               /\ Undone(s, A) = f[Len(s)]
  BY UndoneDef
<1>2. \A i \in 0..Len(s) : f[i] = IF i = 0 THEN A ELSE Repaired(f[i - 1], s[Len(s) + 1 - i])
  BY <1>1
<1>3. Undoes(f, s, A)
  BY <1>2 DEF Undoes
<1>4. QED
  BY <1>1, <1>3

LEMMA UndoneIs ==
    ASSUME NEW s, Len(s) \in Nat, NEW A, NEW g, Undoes(g, s, A)
    PROVE  Undone(s, A) = g[Len(s)]
<1>1. PICK f : Undoes(f, s, A) /\ Undone(s, A) = f[Len(s)]
  BY UndoneStepwise
<1> DEFINE T == {i \in 0..Len(s) : f[i] = g[i]}
<1>2. 0 \in T
  BY <1>1 DEF Undoes
<1>3. ASSUME NEW i \in 1..Len(s), i - 1 \in T PROVE i \in T
  BY <1>1, <1>3 DEF Undoes
<1>4. 0..Len(s) \subseteq T
  <2> HIDE DEF T
  <2>1. QED
    BY <1>2, <1>3, Induction
<1>5. QED
  BY <1>1, <1>4

\* What was pushed last is undone first.
LEMMA UndoneConcat ==
    ASSUME NEW X, NEW s \in Seq(X), NEW t \in Seq(X), NEW A
    PROVE  Undone(s \o t, A) = Undone(s, Undone(t, A))
<1> DEFINE m == Len(s)
           n == Len(t)
<1>1. m \in Nat /\ n \in Nat /\ Len(s \o t) = m + n
  OBVIOUS
<1>2. /\ \A i \in 1..m : (s \o t)[i] = s[i]
      /\ \A i \in 1..n : (s \o t)[m + i] = t[i]
  OBVIOUS
<1>3. PICK f : Undoes(f, s \o t, A) /\ Undone(s \o t, A) = f[m + n]
  <2>1. Len(s \o t) \in Nat
    BY <1>1
  <2>2. PICK f : Undoes(f, s \o t, A) /\ Undone(s \o t, A) = f[Len(s \o t)]
    BY <2>1, UndoneStepwise
  <2>3. QED
    BY <2>2, <1>1
<1>4. Undoes(f, t, A)
  <2>1. ASSUME NEW i \in 1..n PROVE f[i] = Repaired(f[i - 1], t[n + 1 - i])
    <3>1. n + 1 - i \in 1..n /\ i \in 1..(m + n) /\ m + (n + 1 - i) = m + n + 1 - i
      BY <1>1
    <3>2. (s \o t)[m + n + 1 - i] = t[n + 1 - i]
      BY <3>1, <1>2
    <3>3. QED
      BY <3>1, <3>2, <1>1, <1>3 DEF Undoes
  <2>2. QED
    BY <2>1, <1>3 DEF Undoes
<1>5. Undone(t, A) = f[n]
  BY <1>1, <1>4, UndoneIs
<1> DEFINE g == [i \in 0..m |-> f[n + i]]
<1>6. Undoes(g, s, f[n])
  <2>1. ASSUME NEW i \in 1..m PROVE g[i] = Repaired(g[i - 1], s[m + 1 - i])
    <3>1. m + 1 - i \in 1..m /\ n + i \in 1..(m + n) /\ m + n + 1 - (n + i) = m + 1 - i
          /\ i \in 0..m /\ i - 1 \in 0..m /\ (n + i) - 1 = n + (i - 1)
      BY <1>1
    <3>2. (s \o t)[m + n + 1 - (n + i)] = s[m + 1 - i]
      BY <3>1, <1>2
    <3>3. f[n + i] = Repaired(f[n + (i - 1)], s[m + 1 - i])
      BY <3>1, <3>2, <1>1, <1>3 DEF Undoes
    <3>4. g[i] = f[n + i] /\ g[i - 1] = f[n + (i - 1)]
      BY <3>1
    <3>5. QED
      BY <3>3, <3>4
  <2>2. g[0] = f[n]
    BY <1>1
  <2>3. QED
    BY <2>1, <2>2 DEF Undoes
<1>7. Undone(s, f[n]) = g[m]
  <2> HIDE DEF g
  <2>1. QED
    BY <1>1, <1>6, UndoneIs
<1>8. g[m] = f[m + n]
  BY <1>1
<1>9. QED
  BY <1>3, <1>5, <1>7, <1>8

LEMMA UndoneOne ==
    ASSUME NEW e, NEW A
    PROVE  Undone(<<e>>, A) = Repaired(A, e)
<1>1. PICK f : Undoes(f, <<e>>, A) /\ Undone(<<e>>, A) = f[1]
  BY UndoneStepwise, Len(<<e>>) = 1
<1>2. f[1] = Repaired(f[0], <<e>>[1]) /\ f[0] = A
  <2>1. 1 \in 1..Len(<<e>>) /\ Len(<<e>>) + 1 - 1 = 1 /\ 1 - 1 = 0
    OBVIOUS
  <2>2. QED
    BY <2>1, <1>1 DEF Undoes
<1>3. QED
  BY <1>1, <1>2

LEMMA UndoneNone ==
    ASSUME NEW A
    PROVE  Undone(<< >>, A) = A
<1>1. PICK f : Undoes(f, << >>, A) /\ Undone(<< >>, A) = f[0]
  BY UndoneStepwise, Len(<< >>) = 0
<1>2. QED
  BY <1>1 DEF Undoes

\* All entries have the same literal: it becomes true unless all their clauses are satisfied.
LEMMA UndoneSameLit ==
    ASSUME NEW l \in Int, l # 0, NEW s, Len(s) \in Nat, NEW A,
           \A i \in 1..Len(s) : s[i].lit = l /\ l \in s[i].clause
    PROVE  Undone(s, A) = IF \A i \in 1..Len(s) : Sat(A, s[i].clause) THEN A ELSE MadeTrue(A, l)
<1> DEFINE n == Len(s)
           Done(i) == IF \A j \in n + 1 - i..n : Sat(A, s[j].clause) THEN A ELSE MadeTrue(A, l)
<1>1. PICK f : Undoes(f, s, A) /\ Undone(s, A) = f[n]
  BY UndoneStepwise
<1> DEFINE T == {i \in 0..n : f[i] = Done(i)}
<1>2. 0 \in T
  BY <1>1 DEF Undoes
<1>3. ASSUME NEW i \in 1..n, i - 1 \in T PROVE i \in T
  <2> DEFINE e == s[n + 1 - i]
  <2>1. f[i] = Repaired(f[i - 1], e) /\ f[i - 1] = Done(i - 1)
    BY <1>1, <1>3 DEF Undoes
  <2>2. e.lit = l /\ l \in e.clause
    BY n + 1 - i \in 1..n
  <2>3. Sat(MadeTrue(A, l), e.clause)
    BY <2>2, MadeTrueHolds DEF Sat
  <2>4. n + 1 - i..n = {n + 1 - i} \cup (n + 1 - (i - 1)..n)
    OBVIOUS
  <2>5. (\A j \in n + 1 - i..n : Sat(A, s[j].clause))
            <=> Sat(A, e.clause) /\ \A j \in n + 1 - (i - 1)..n : Sat(A, s[j].clause)
    BY <2>4
  <2>6. Done(i) = Repaired(Done(i - 1), e)
    BY <2>2, <2>3, <2>5 DEF Repaired
  <2>7. QED
    BY <2>1, <2>6
<1>4. 0..n \subseteq T
  <2> HIDE DEF T
  <2>1. QED
    BY <1>2, <1>3, Induction
<1>5. QED
  BY <1>1, <1>4, n + 1 - n = 1

LEMMA SetToSeqIs ==
    ASSUME NEW S, IsFiniteSet(S)
    PROVE  /\ SetToSeq(S) \in [1..Cardinality(S) -> S] /\ Cardinality(S) \in Nat
           /\ \A x \in S : \E i \in 1..Cardinality(S) : SetToSeq(S)[i] = x
<1> DEFINE n == Cardinality(S)
<1>1. n \in Nat /\ ExistsBijection(1..n, S)
  BY FS_CardinalityType
<1>2. PICK f : f \in Bijection(1..n, S)
  BY <1>1 DEF ExistsBijection
<1>3. f \in [1..n -> S] /\ IsInjective(f)
  BY <1>2 DEF Bijection, Injection, IsInjective
<1>4. SetToSeq(S) \in [1..n -> S] /\ IsInjective(SetToSeq(S))
  BY <1>3 DEF SetToSeq
<1>5. SetToSeq(S) \in Injection(1..n, S)
  BY <1>4 DEF Injection, IsInjective
<1>6. IsFiniteSet(1..n) /\ Cardinality(1..n) = n
  BY <1>1, FS_Interval
<1>7. SetToSeq(S) \in Surjection(1..n, S)
  BY <1>5, <1>6, FS_Injection
<1>8. QED
  BY <1>1, <1>4, <1>7 DEF Surjection

\* The entries of the clauses S.
LEMMA EntriesAre ==
    ASSUME NEW S, IsFiniteSet(S), NEW l
    PROVE  /\ Len(Entries(S, l)) = Cardinality(S) /\ Cardinality(S) \in Nat
           /\ Entries(S, l) \in Seq([lit : {l}, clause : S])
           /\ \A C \in S : \E i \in 1..Cardinality(S) : Entries(S, l)[i].clause = C
<1> DEFINE n == Cardinality(S)
<1>1. n \in Nat /\ SetToSeq(S) \in [1..n -> S] /\ \A x \in S : \E i \in 1..n : SetToSeq(S)[i] = x
  BY SetToSeqIs
<1>2. Entries(S, l) = [i \in 1..n |-> [lit |-> l, clause |-> SetToSeq(S)[i]]]
  BY DEF Entries
<1>3. Entries(S, l) \in [1..n -> [lit : {l}, clause : S]]
  <2> HIDE DEF n
  <2>1. \A i \in 1..n : [lit |-> l, clause |-> SetToSeq(S)[i]] \in [lit : {l}, clause : S]
    BY <1>1
  <2>2. QED
    BY <1>2, <2>1
<1>4. Len(Entries(S, l)) = n
  BY <1>1, <1>2
<1>5. \A C \in S : \E i \in 1..n : Entries(S, l)[i].clause = C
  BY <1>1, <1>2
<1>6. Entries(S, l) \in Seq([lit : {l}, clause : S])
  <2> DEFINE R == [lit : {l}, clause : S]
  <2>1. n \in Nat /\ Entries(S, l) \in [1..n -> R]
    BY <1>1, <1>3
  <2> HIDE DEF n, R
  <2>2. Entries(S, l) \in Seq(R)
    BY <2>1
  <2>3. QED
    BY <2>2 DEF R
<1>7. QED
  BY <1>1, <1>4, <1>5, <1>6

LEMMA EntriesUndone ==
    ASSUME NEW S, IsFiniteSet(S), NEW l \in Int, l # 0, \A C \in S : l \in C, NEW A
    PROVE  Undone(Entries(S, l), A) = IF IsModel(A, S) THEN A ELSE MadeTrue(A, l)
<1> DEFINE s == Entries(S, l)
<1>1. /\ Len(s) = Cardinality(S) /\ Len(s) \in Nat /\ s \in Seq([lit : {l}, clause : S])
      /\ \A C \in S : \E i \in 1..Len(s) : s[i].clause = C
  BY EntriesAre
<1> HIDE DEF s
<1>2. \A i \in 1..Len(s) : s[i] \in [lit : {l}, clause : S]
  <2> DEFINE R == [lit : {l}, clause : S]
  <2>1. s \in Seq(R)
    BY <1>1
  <2> HIDE DEF R
  <2>2. \A i \in 1..Len(s) : s[i] \in R
    BY <2>1
  <2>3. QED
    BY <2>2 DEF R
<1>3. \A i \in 1..Len(s) : s[i].lit = l /\ l \in s[i].clause /\ s[i].clause \in S
  BY <1>2
<1>4. Undone(s, A) = IF \A i \in 1..Len(s) : Sat(A, s[i].clause) THEN A ELSE MadeTrue(A, l)
  BY <1>1, <1>3, UndoneSameLit
<1>5. (\A i \in 1..Len(s) : Sat(A, s[i].clause)) <=> IsModel(A, S)
  BY <1>1, <1>3 DEF IsModel
<1>6. QED
  BY <1>4, <1>5 DEF s

-----------------------------------------------------------------------------
(* Propagation *)

\* What the literals V give in one round.
Forced(F, V) == {l \in UNION F : \E C \in F : l \in C /\ Negated(C \ {l}) \subseteq V}

\* The rounds of propagation, the last of which is UnitsFrom.
Propagates(f, F, U) ==
    f[0] = U /\ \A n \in 1..Cardinality(Vars) + 1 : f[n] = f[n - 1] \cup Forced(F, f[n - 1])

LEMMA UnitsFromStepwise ==
    ASSUME NEW F, NEW U
    PROVE  \E f : Propagates(f, F, U) /\ UnitsFrom(F, U) = f[Cardinality(Vars) + 1]
<1> DEFINE N == Cardinality(Vars) + 1
           X == U \cup UNION F
           S == SUBSET X
           step == [p \in (1..N) \X S |-> p[2] \cup Forced(F, p[2])]
<1>1. N \in Nat /\ N # 0
  BY VarsAssumption, FS_CardinalityType
<1>2. IsStep(step, S, N)
  BY DEF IsStep, Forced
<1>3. U \in S
  OBVIOUS
<1>4. PICK f : IsIterate(f, S, N, U, step)
  <2> HIDE DEF step, S, N
  <2>1. QED
    BY <1>1, <1>2, <1>3, Iterates
<1>5. ASSUME NEW n \in 1..N PROVE f[n] = f[n - 1] \cup Forced(F, f[n - 1])
  <2>1. n - 1 \in 0..N /\ f[n - 1] \in S
    BY <1>1, <1>4 DEF IsIterate
  <2>2. QED
    BY <2>1, <1>4 DEF IsIterate
<1> DEFINE Round(g, n) == IF n = 0 THEN U
                          ELSE UNION {V \cup Forced(F, V) : V \in {g[n - 1]}}
<1>6. f = [n \in 0..N |-> Round(f, n)]
  <2>1. \A n \in 0..N : f[n] = Round(f, n)
    <3>1. f[0] = Round(f, 0)
      BY <1>4 DEF IsIterate
    <3>2. ASSUME NEW n \in 1..N PROVE f[n] = Round(f, n)
      BY <1>5
    <3>3. QED
      BY <3>1, <3>2, <1>1
  <2>2. f = [n \in 0..N |-> f[n]]
    BY <1>4 DEF IsIterate
  <2> HIDE DEF Round, N
  <2>3. QED
    BY <2>1, <2>2
<1> DEFINE after == CHOOSE g : g = [n \in 0..N |-> Round(g, n)]
<1>7. after = [n \in 0..N |-> Round(after, n)]
  BY <1>6
<1>8. UnitsFrom(F, U) = after[N]
  BY DEF UnitsFrom, Forced
<1>9. \A n \in 0..N : after[n] = Round(after, n)
  <2> HIDE DEF after
  <2>1. QED
    BY <1>7
<1> HIDE DEF after, N
<1>10. after[0] = U
  <2>1. 0 \in 0..N
    BY <1>1
  <2>2. QED
    BY <1>9, <2>1
<1>11. ASSUME NEW n \in 1..N PROVE after[n] = after[n - 1] \cup Forced(F, after[n - 1])
  <2>1. n \in 0..N /\ n # 0
    BY <1>1
  <2>2. after[n] = Round(after, n)
    BY <1>9, <2>1
  <2>3. Round(after, n) = after[n - 1] \cup Forced(F, after[n - 1])
    BY <2>1
  <2>4. QED
    BY <2>2, <2>3
<1>12. Propagates(after, F, U) /\ UnitsFrom(F, U) = after[Cardinality(Vars) + 1]
  BY <1>8, <1>10, <1>11 DEF N, Propagates
<1>13. QED
  BY <1>12

LEMMA UnitsFromGrows ==
    ASSUME NEW F, NEW U
    PROVE  U \subseteq UnitsFrom(F, U) /\ UnitsFrom(F, U) \subseteq U \cup UNION F
<1> DEFINE N == Cardinality(Vars) + 1
<1>1. N \in Nat
  BY VarsAssumption, FS_CardinalityType
<1>2. PICK f : Propagates(f, F, U) /\ UnitsFrom(F, U) = f[Cardinality(Vars) + 1]
  BY UnitsFromStepwise
<1>13. /\ f[0] = U /\ \A n \in 1..N : f[n] = f[n - 1] \cup Forced(F, f[n - 1])
       /\ UnitsFrom(F, U) = f[N]
  BY <1>2 DEF Propagates
<1> HIDE DEF N
<1> DEFINE T == {n \in 0..N : U \subseteq f[n] /\ f[n] \subseteq U \cup UNION F}
<1>3. 0 \in T
  BY <1>1, <1>13
<1>4. ASSUME NEW n \in 1..N, n - 1 \in T PROVE n \in T
  BY <1>1, <1>13, <1>4 DEF Forced
<1>5. 0..N \subseteq T
  <2> HIDE DEF T
  <2>1. QED
    BY <1>1, <1>3, <1>4, Induction
<1>6. QED
  BY <1>1, <1>13, <1>5

\* Literals without a complement among them are not more than there are variables.
LEMMA ConsistentIsSmall ==
    ASSUME NEW V \in SUBSET Lits, \A l \in V : -l \notin V
    PROVE  IsFiniteSet(V) /\ Cardinality(V) <= Cardinality(Vars)
<1> DEFINE f == [l \in V |-> VarOf(l)]
<1>1. f \in [V -> Vars]
  BY LitFacts
<1>2. ASSUME NEW a \in V, NEW b \in V, f[a] = f[b] PROVE a = b
  <2>1. a \in Int /\ b \in Int /\ VarOf(a) = VarOf(b) /\ -a \notin V
    BY <1>2, LitFacts
  <2>2. QED
    BY <2>1 DEF VarOf
<1>3. f \in Injection(V, Vars)
  BY <1>1, <1>2 DEF Injection, IsInjective
<1>4. QED
  BY <1>3, VarsAssumption, FS_Injection

\* Propagation is complete: there are enough rounds, unless it has found a contradiction.
LEMMA UnitsFromClosed ==
    ASSUME NEW F \in SUBSET Clause, NEW U \in SUBSET Lits,
           \A l \in UnitsFrom(F, U) : -l \notin UnitsFrom(F, U)
    PROVE  Forced(F, UnitsFrom(F, U)) \subseteq UnitsFrom(F, U)
<1> DEFINE N == Cardinality(Vars) + 1
<1>1. N \in Nat /\ N # 0 /\ N > Cardinality(Vars) /\ Cardinality(Vars) \in Nat
  BY VarsAssumption, FS_CardinalityType
<1>2. PICK f : Propagates(f, F, U) /\ UnitsFrom(F, U) = f[Cardinality(Vars) + 1]
  BY UnitsFromStepwise
<1>13. /\ f[0] = U /\ \A n \in 1..N : f[n] = f[n - 1] \cup Forced(F, f[n - 1])
       /\ UnitsFrom(F, U) = f[N]
  BY <1>2 DEF Propagates
<1> HIDE DEF N
<1>3. SUFFICES ASSUME ~ (Forced(F, f[N]) \subseteq f[N]) PROVE FALSE
  BY <1>13
<1>4. \A n \in 0..N : f[n] \subseteq f[N]
  <2> DEFINE T == {k \in 0..N : f[N - k] \subseteq f[N]}
  <2>1. 0 \in T
    BY <1>1
  <2>2. ASSUME NEW k \in 1..N, k - 1 \in T PROVE k \in T
    <3>1. N - (k - 1) \in 1..N /\ (N - (k - 1)) - 1 = N - k
      BY <1>1
    <3>2. f[N - k] \subseteq f[N - (k - 1)]
      BY <3>1, <1>13
    <3>3. QED
      BY <2>2, <3>2
  <2>3. 0..N \subseteq T
    <3> HIDE DEF T
    <3>1. QED
      BY <1>1, <2>1, <2>2, Induction
  <2>4. ASSUME NEW n \in 0..N PROVE f[n] \subseteq f[N]
    <3>1. N - n \in T /\ N - (N - n) = n
      BY <2>3, <1>1
    <3>2. QED
      BY <3>1
  <2>5. QED
    BY <2>4
<1>5. ASSUME NEW n \in 1..N PROVE ~ (Forced(F, f[n - 1]) \subseteq f[n - 1])
  <2>1. SUFFICES ASSUME Forced(F, f[n - 1]) \subseteq f[n - 1] PROVE FALSE
    OBVIOUS
  <2> DEFINE m == n - 1
             M == N - m
             T == {k \in 0..M : f[m + k] = f[m]}
  <2>2. M \in Nat /\ m \in 0..N /\ m \in Nat
    BY <1>1
  <2>3. 0 \in T
    BY <2>2
  <2>4. ASSUME NEW k \in 1..M, k - 1 \in T PROVE k \in T
    <3>1. m + k \in 1..N /\ (m + k) - 1 = m + (k - 1)
      BY <1>1, <2>2
    <3>2. f[m + k] = f[m + (k - 1)] \cup Forced(F, f[m + (k - 1)])
      BY <3>1, <1>13
    <3>3. f[m + (k - 1)] = f[m]
      BY <2>4
    <3>4. f[m] \cup Forced(F, f[m]) = f[m]
      BY <2>1
    <3>5. f[m + k] = f[m]
      BY <3>2, <3>3, <3>4
    <3>6. QED
      BY <3>5
  <2>5. M \in T
    <3>1. 0..M \subseteq T
      <4> HIDE DEF T, M
      <4>1. QED
        BY <2>2, <2>3, <2>4, Induction
    <3>2. QED
      BY <3>1, <2>2
  <2>6. f[N] = f[m]
    BY <2>5, <2>2, <1>1
  <2>7. QED
    BY <2>1, <2>6, <1>3
<1>6. f[N] \in SUBSET Lits
  BY <1>13, UnitsFromGrows DEF Clause
<1>7. IsFiniteSet(f[N]) /\ Cardinality(f[N]) <= Cardinality(Vars)
  BY <1>13, <1>6, ConsistentIsSmall
<1>8. \A n \in 0..N : IsFiniteSet(f[n])
  BY <1>4, <1>7, FS_Subset
<1> DEFINE T == {n \in 0..N : Cardinality(f[n]) \in Nat /\ Cardinality(f[n]) >= n}
<1>9. 0 \in T
  <2>1. IsFiniteSet(f[0])
    BY <1>8, <1>1
  <2>2. QED
    BY <2>1, <1>1, FS_CardinalityType
<1>10. ASSUME NEW n \in 1..N, n - 1 \in T PROVE n \in T
  <2>1. n \in 0..N /\ IsFiniteSet(f[n])
    BY <1>8, <1>1
  <2>2. f[n - 1] \subseteq f[n] /\ f[n - 1] # f[n]
    BY <1>13, <1>5
  <2>3. Cardinality(f[n - 1]) < Cardinality(f[n]) /\ Cardinality(f[n]) \in Nat
    BY <2>1, <2>2, FS_Subset, FS_CardinalityType
  <2>4. QED
    BY <2>1, <2>3, <1>10
<1>11. N \in T
  <2>1. 0..N \subseteq T
    <3> HIDE DEF T
    <3>1. QED
      BY <1>1, <1>9, <1>10, Induction
  <2>2. QED
    BY <2>1, <1>1
<1>12. QED
  BY <1>1, <1>7, <1>11

-----------------------------------------------------------------------------
(* The interface of a step *)

\* A is a model of the clauses F and the literals V.
Model(A, F, V) == IsModel(A, F) /\ \A l \in V : Holds(A, l)

Entry == {e \in [lit : Lits, clause : Clause] : e.lit \in e.clause}

\* What every step relies on: the clauses are clauses, the stack has entries, and
\* variables have not been renumbered.
Typed ==
    /\ core \in Formula /\ learnts \in Formula /\ units \in SUBSET Lits
    /\ fresh \in SUBSET Vars /\ start \in Starts /\ ok \in BOOLEAN
    /\ undo \in Seq(Entry) /\ forward = << >>

\* A step that keeps the types and pushes the entries E, such that a model of what is left
\* becomes one of what was there when E is undone.
Extends(E) ==
    /\ undo' = undo \o E /\ E \in Seq(Entry)
    /\ \A i \in 1..Len(E) : VarOf(E[i].lit) \notin start.frozen
    /\ ok' => \A A : Model(A, core', units') => Model(Undone(E, A), core, units)

GoodStep ==
    /\ core' \in Formula /\ learnts' \in Formula /\ units' \in SUBSET Lits
    /\ fresh' \in SUBSET Vars /\ start' = start /\ ok' \in BOOLEAN /\ (ok' => ok)
    /\ \E E : Extends(E)

\* A clause of F has a part in K.
Strengthens(K, F) == \A C \in F : \E D \in K : D \subseteq C

LEMMA StrengthensMeans ==
    ASSUME NEW K, NEW F, Strengthens(K, F), NEW A, IsModel(A, K)
    PROVE  IsModel(A, F)
BY DEF Strengthens, IsModel, Sat

LEMMA ReducedMeans ==
    ASSUME NEW K, NEW V \in SUBSET Lits, NEW A, Model(A, Reduced(K, V), V)
    PROVE  IsModel(A, K)
<1>1. SUFFICES ASSUME NEW C \in K PROVE Sat(A, C)
  BY DEF IsModel
<1>2. CASE C \cap V # {}
  BY <1>2 DEF Model, Sat
<1>3. CASE C \cap V = {}
  <2>1. Without(C, V) \in Reduced(K, V)
    BY <1>3 DEF Reduced
  <2>2. QED
    BY <2>1 DEF Model, IsModel, Sat, Without
<1>4. QED
  BY <1>2, <1>3

LEMMA BecomeMeans ==
    ASSUME Typed, NEW K \in Formula, NEW L \in Formula, NEW U \in SUBSET Lits, Become(K, L, U)
    PROVE  /\ core' \in Formula /\ learnts' \in Formula /\ units' \in SUBSET Lits
           /\ start' = start /\ ok' \in BOOLEAN /\ (ok' => ok)
           /\ ok' => \A A : Model(A, core', units') => Model(A, K, U \cup units)
<1> DEFINE V == UnitsFrom(K \cup L, units \cup U)
<1>1. K \cup L \in SUBSET Clause /\ units \cup U \subseteq V /\ V \in SUBSET Lits
  BY UnitsFromGrows DEF Typed, Formula, Clause
<1>2. CASE FailsWith(K \cup L, V)
  BY <1>2 DEF Become, Typed
<1>3. CASE ~ FailsWith(K \cup L, V)
  <2>1. core' = Reduced(K, V) /\ learnts' = Reduced(L, V) /\ units' = V /\ ok' = ok /\ start' = start
    BY <1>3 DEF Become
  <2>2. \A F \in Formula : Reduced(F, V) \in Formula
    BY DEF Reduced, Formula, Clause, Without
  <2>3. ASSUME NEW A, Model(A, core', units') PROVE Model(A, K, U \cup units)
    <3>1. IsModel(A, K)
      BY <2>1, <2>3, <1>1, ReducedMeans
    <3>2. QED
      BY <2>1, <2>3, <1>1, <3>1 DEF Model
  <2>4. QED
    BY <2>1, <2>2, <2>3, <1>1 DEF Typed
<1>4. QED
  BY <1>2, <1>3

LEMMA EntryFacts ==
    ASSUME NEW E \in Seq(Entry), NEW i \in 1..Len(E)
    PROVE  E[i] \in Entry /\ E[i].lit \in Lits /\ E[i].clause \in Clause /\ E[i].lit \in E[i].clause
           /\ E[i] = [lit |-> E[i].lit, clause |-> E[i].clause]
<1>1. E[i] \in Entry
  <2> HIDE DEF Entry
  <2>1. QED
    OBVIOUS
<1>2. QED
  BY <1>1 DEF Entry

\* Without renumbering the stack has the entries as they are.
LEMMA PushIs ==
    ASSUME Typed, NEW E \in Seq(Entry), Push(E)
    PROVE  undo' = undo \o E
<1>1. \A l \in Int : ExportLit(l) = l
  BY DEF Typed, ExportLit, ExportVar, Renamed
<1> DEFINE G == [i \in DOMAIN E |-> [lit |-> ExportLit(E[i].lit),
                                     clause |-> {ExportLit(l) : l \in E[i].clause}]]
<1>2. DOMAIN E = 1..Len(E)
  OBVIOUS
<1>3. ASSUME NEW i \in DOMAIN E PROVE G[i] = E[i]
  <2>1. E[i].lit \in Lits /\ E[i].clause \in Clause /\ E[i] = [lit |-> E[i].lit, clause |-> E[i].clause]
    BY <1>2, EntryFacts
  <2>2. ExportLit(E[i].lit) = E[i].lit
    BY <2>1, <1>1, LitFacts
  <2>3. \A l \in E[i].clause : ExportLit(l) = l
    BY <2>1, <1>1, LitFacts DEF Clause
  <2>4. {ExportLit(l) : l \in E[i].clause} = E[i].clause
    BY <2>3
  <2>5. QED
    BY <2>1, <2>2, <2>4
<1>4. G = [i \in DOMAIN E |-> E[i]]
  BY <1>3
<1>5. E = [i \in DOMAIN E |-> E[i]]
  <2> HIDE DEF Entry
  <2>1. QED
    BY <1>2
<1>6. QED
  BY <1>4, <1>5 DEF Push

\* Undoing touches only the variables of the literals on the stack.
LEMMA UndoneElsewhere ==
    ASSUME NEW E \in Seq(Entry), NEW A, NEW v, \A i \in 1..Len(E) : VarOf(E[i].lit) # v
    PROVE  v \in Undone(E, A) <=> v \in A
<1>1. Len(E) \in Nat
  BY DEF Entry
<1>2. PICK f : Undoes(f, E, A) /\ Undone(E, A) = f[Len(E)]
  BY <1>1, UndoneStepwise
<1> DEFINE T == {i \in 0..Len(E) : v \in f[i] <=> v \in A}
<1>3. 0 \in T
  BY <1>1, <1>2 DEF Undoes
<1>4. ASSUME NEW i \in 1..Len(E), i - 1 \in T PROVE i \in T
  <2> DEFINE e == E[Len(E) + 1 - i]
  <2>1. Len(E) + 1 - i \in 1..Len(E)
    BY <1>1
  <2>2. e.lit \in Lits /\ VarOf(e.lit) # v
    BY <2>1, EntryFacts
  <2>3. v \in Repaired(f[i - 1], e) <=> v \in f[i - 1]
    BY <2>2, LitFacts DEF Repaired, MadeTrue, VarOf
  <2>4. f[i] = Repaired(f[i - 1], e)
    BY <1>2 DEF Undoes
  <2>5. QED
    BY <2>3, <2>4, <1>4
<1>5. 0..Len(E) \subseteq T
  <2> HIDE DEF T
  <2>1. QED
    BY <1>1, <1>3, <1>4, Induction
<1>6. QED
  BY <1>1, <1>2, <1>5

LEMMA UndoneType ==
    ASSUME NEW E \in Seq(Entry), NEW A \in SUBSET Vars
    PROVE  Undone(E, A) \in SUBSET Vars
<1>1. Len(E) \in Nat
  BY DEF Entry
<1>2. PICK f : Undoes(f, E, A) /\ Undone(E, A) = f[Len(E)]
  BY <1>1, UndoneStepwise
<1> DEFINE T == {i \in 0..Len(E) : f[i] \in SUBSET Vars}
<1>3. 0 \in T
  BY <1>1, <1>2 DEF Undoes
<1>4. ASSUME NEW i \in 1..Len(E), i - 1 \in T PROVE i \in T
  <2> DEFINE e == E[Len(E) + 1 - i]
  <2>1. Len(E) + 1 - i \in 1..Len(E)
    BY <1>1
  <2>2. e.lit \in Lits
    BY <2>1, EntryFacts
  <2>3. f[i] = Repaired(f[i - 1], e)
    BY <1>2 DEF Undoes
  <2>4. QED
    BY <2>2, <2>3, <1>4, MadeTrueType DEF Repaired
<1>5. 0..Len(E) \subseteq T
  <2> HIDE DEF T
  <2>1. QED
    BY <1>1, <1>3, <1>4, Induction
<1>6. QED
  BY <1>1, <1>2, <1>5

\* The literal of an entry: its variable is neither assigned nor frozen.
Flippable(l) == l \in Lits /\ VarOf(l) \in Open \ Frozen

LEMMA FlippableFacts ==
    ASSUME Typed, NEW l, Flippable(l)
    PROVE  VarOf(l) \notin start.frozen /\ \A k \in units : VarOf(k) # VarOf(l)
BY DEF Typed, Flippable, Open, Assigned, Frozen, ExportVar, Renamed

LEMMA UnitsStay ==
    ASSUME Typed, NEW E \in Seq(Entry), \A i \in 1..Len(E) : Flippable(E[i].lit),
           NEW A, \A l \in units : Holds(A, l)
    PROVE  \A l \in units : Holds(Undone(E, A), l)
<1>1. ASSUME NEW l \in units PROVE Holds(Undone(E, A), l)
  <2>1. l \in Lits /\ VarOf(l) \in Nat
    BY LitFacts DEF Typed
  <2>2. \A i \in 1..Len(E) : VarOf(E[i].lit) # VarOf(l)
    BY FlippableFacts
  <2>3. VarOf(l) \in Undone(E, A) <=> VarOf(l) \in A
    BY <2>2, UndoneElsewhere
  <2>4. QED
    BY <2>3, <2>1, LitFacts DEF Holds, VarOf
<1>2. QED
  BY <1>1

\* A step that rewrites the formula and pushes the entries E.
LEMMA PushGood ==
    ASSUME Typed, NEW K \in Formula, NEW L \in Formula, NEW U \in SUBSET Lits,
           NEW E \in Seq(Entry), \A i \in 1..Len(E) : Flippable(E[i].lit),
           \A A : Model(A, K, U \cup units) => IsModel(Undone(E, A), core),
           Become(K, L, U), Push(E), fresh' \in SUBSET Vars
    PROVE  GoodStep
<1>1. /\ core' \in Formula /\ learnts' \in Formula /\ units' \in SUBSET Lits
      /\ start' = start /\ ok' \in BOOLEAN /\ (ok' => ok)
      /\ ok' => \A A : Model(A, core', units') => Model(A, K, U \cup units)
  BY BecomeMeans
<1>2. undo' = undo \o E
  BY PushIs
<1>3. \A i \in 1..Len(E) : VarOf(E[i].lit) \notin start.frozen
  BY FlippableFacts
<1>4. ASSUME NEW A, Model(A, K, U \cup units) PROVE Model(Undone(E, A), core, units)
  BY <1>4, UnitsStay DEF Model
<1>5. Extends(E)
  BY <1>1, <1>2, <1>3, <1>4 DEF Extends
<1>6. QED
  BY <1>1, <1>5 DEF GoodStep

\* A step that pushes nothing.
LEMMA BecomeGood ==
    ASSUME Typed, NEW K \in Formula, NEW L \in Formula, NEW U \in SUBSET Lits,
           \A A : Model(A, K, U \cup units) => IsModel(A, core),
           Become(K, L, U), undo' = undo, fresh' \in SUBSET Vars
    PROVE  GoodStep
<1>1. /\ core' \in Formula /\ learnts' \in Formula /\ units' \in SUBSET Lits
      /\ start' = start /\ ok' \in BOOLEAN /\ (ok' => ok)
      /\ ok' => \A A : Model(A, core', units') => Model(A, K, U \cup units)
  BY BecomeMeans
<1>2. << >> \in Seq(Entry) /\ Len(<< >>) = 0
  BY DEF Entry
<1>3. undo' = undo \o << >>
  <2> DEFINE X == Entry
  <2>1. undo \in Seq(X)
    BY DEF Typed
  <2> HIDE DEF X
  <2>2. undo \o << >> = undo
    BY <2>1
  <2>3. QED
    BY <2>2
<1>4. ASSUME NEW A, Model(A, K, U \cup units) PROVE Model(Undone(<< >>, A), core, units)
  BY <1>4, UndoneNone DEF Model
<1>5. \A i \in 1..Len(<< >>) : VarOf((<< >>)[i].lit) \notin start.frozen
  BY <1>2
<1>7. Extends(<< >>)
  BY <1>1, <1>2, <1>3, <1>4, <1>5 DEF Extends
<1>6. QED
  BY <1>1, <1>7 DEF GoodStep

LEMMA RewriteGood ==
    ASSUME Typed, NEW K \in Formula, NEW L \in Formula, NEW U \in SUBSET Lits,
           \A A : Model(A, K, U \cup units) => IsModel(A, core), Rewrite(K, L, U)
    PROVE  GoodStep
BY BecomeGood DEF Rewrite, Typed

\* Every core clause has a part that is left.
LEMMA StrengtheningGood ==
    ASSUME Typed, NEW K \in Formula, NEW L \in Formula, NEW U \in SUBSET Lits,
           Strengthens(K, core), Rewrite(K, L, U)
    PROVE  GoodStep
BY RewriteGood, StrengthensMeans DEF Model

LEMMA FailGood ==
    ASSUME Typed, Fail
    PROVE  GoodStep
<1>1. << >> \in Seq(Entry) /\ Len(<< >>) = 0
  BY DEF Entry
<1>2. undo' = undo \o << >>
  <2> DEFINE X == Entry
  <2>1. undo \in Seq(X)
    BY DEF Typed
  <2> HIDE DEF X
  <2>2. undo \o << >> = undo
    BY <2>1
  <2>3. QED
    BY <2>2 DEF Fail
<1>3. Extends(<< >>)
  BY <1>1, <1>2 DEF Extends, Fail
<1>4. QED
  BY <1>3 DEF GoodStep, Fail, Typed

-----------------------------------------------------------------------------
(* The binary implication graph *)

LEMMA OpenLitsFacts ==
    ASSUME NEW l \in OpenLits
    PROVE  l \in Lits /\ -l \in OpenLits /\ VarOf(l) \in Open
BY VarsAssumption DEF OpenLits, Open, Lits, VarOf

LEMMA OpenIsFinite ==
    Open \subseteq Vars /\ IsFiniteSet(Open) /\ 2 * Cardinality(Open) \in Nat
<1>1. Open \subseteq Vars
  BY DEF Open
<1>2. IsFiniteSet(Open)
  BY <1>1, VarsAssumption, FS_Subset
<1>3. Cardinality(Open) \in Nat
  BY <1>2, FS_CardinalityType
<1>4. QED
  BY <1>1, <1>2, <1>3

\* The literals that F's binary clauses give for b, and for one of S.
Edges(F, b)  == {c \in OpenLits : Implies(F, b, c)}
Onward(F, S) == S \cup UNION {Edges(F, b) : b \in S}
Walks(f, F, a) ==
    f[0] = Edges(F, a) /\ \A n \in 1..2 * Cardinality(Open) : f[n] = Onward(F, f[n - 1])

LEMMA ReachesStepwise ==
    ASSUME NEW F, NEW a
    PROVE  \E f : Walks(f, F, a) /\ Reaches(F, a) = f[2 * Cardinality(Open)]
<1> DEFINE N == 2 * Cardinality(Open)
           S == SUBSET OpenLits
           step == [p \in (1..N) \X S |-> Onward(F, p[2])]
<1>1. N \in Nat
  BY OpenIsFinite
<1>2. IsStep(step, S, N)
  BY DEF IsStep, Onward, Edges
<1>3. Edges(F, a) \in S
  BY DEF Edges
<1>4. PICK f : IsIterate(f, S, N, Edges(F, a), step)
  <2> HIDE DEF step, S, N
  <2>1. QED
    BY <1>1, <1>2, <1>3, Iterates
<1>5. ASSUME NEW n \in 1..N PROVE f[n] = Onward(F, f[n - 1])
  <2>1. n - 1 \in 0..N /\ f[n - 1] \in S
    BY <1>1, <1>4 DEF IsIterate
  <2>2. QED
    BY <2>1, <1>4 DEF IsIterate
<1> DEFINE Round(g, n) == IF n = 0 THEN Edges(F, a)
                          ELSE UNION {Onward(F, X) : X \in {g[n - 1]}}
<1>6. f = [n \in 0..N |-> Round(f, n)]
  <2>1. \A n \in 0..N : f[n] = Round(f, n)
    <3> HIDE DEF N
    <3>1. f[0] = Round(f, 0)
      BY <1>4 DEF IsIterate
    <3>2. ASSUME NEW n \in 1..N PROVE f[n] = Round(f, n)
      <4>1. n # 0
        BY <1>1
      <4>2. QED
        BY <4>1, <1>5
    <3>3. QED
      BY <3>1, <3>2, <1>1
  <2>2. f = [n \in 0..N |-> f[n]]
    BY <1>4 DEF IsIterate
  <2> HIDE DEF Round, N
  <2>3. QED
    BY <2>1, <2>2
<1> DEFINE after == CHOOSE g : g = [n \in 0..N |-> Round(g, n)]
<1>7. after = [n \in 0..N |-> Round(after, n)]
  BY <1>6
<1>8. Reaches(F, a) = after[N]
  BY DEF Reaches, Edges, Onward
<1>9. \A n \in 0..N : after[n] = Round(after, n)
  <2> HIDE DEF after
  <2>1. QED
    BY <1>7
<1> HIDE DEF after, N
<1>10. after[0] = Edges(F, a)
  <2>1. 0 \in 0..N
    BY <1>1
  <2>2. QED
    BY <1>9, <2>1
<1>11. ASSUME NEW n \in 1..N PROVE after[n] = Onward(F, after[n - 1])
  <2>1. n \in 0..N /\ n # 0
    BY <1>1
  <2>2. after[n] = Round(after, n)
    BY <1>9, <2>1
  <2>3. Round(after, n) = Onward(F, after[n - 1])
    BY <2>1
  <2>4. QED
    BY <2>2, <2>3
<1>12. Walks(after, F, a) /\ Reaches(F, a) = after[2 * Cardinality(Open)]
  BY <1>8, <1>10, <1>11 DEF N, Walks
<1>13. QED
  BY <1>12

LEMMA ReachesType ==
    ASSUME NEW F, NEW a
    PROVE  Reaches(F, a) \subseteq OpenLits
<1> DEFINE N == 2 * Cardinality(Open)
<1>1. N \in Nat
  BY OpenIsFinite
<1>2. PICK f : Walks(f, F, a) /\ Reaches(F, a) = f[2 * Cardinality(Open)]
  BY ReachesStepwise
<1> DEFINE T == {n \in 0..N : f[n] \subseteq OpenLits}
<1>3. 0 \in T
  BY <1>1, <1>2 DEF Walks, Edges
<1>4. ASSUME NEW n \in 1..N, n - 1 \in T PROVE n \in T
  BY <1>1, <1>2, <1>4 DEF Walks, Onward, Edges
<1>5. 0..N \subseteq T
  <2> HIDE DEF T, N
  <2>1. QED
    BY <1>1, <1>3, <1>4, Induction
<1>6. QED
  BY <1>1, <1>2, <1>5

\* What a literal reaches holds with it, wherever the binary clauses hold.
LEMMA ReachesTrue ==
    ASSUME NEW F, NEW a \in Lits, NEW A, Holds(A, a),
           \A b \in Lits : \A c : Implies(F, b, c) => Sat(A, {-b, c})
    PROVE  \A b \in Reaches(F, a) : Holds(A, b)
<1>1. ASSUME NEW b \in Lits, Holds(A, b), NEW c, Implies(F, b, c) PROVE Holds(A, c)
  <2>1. Sat(A, {-b, c})
    BY <1>1
  <2>2. ~ Holds(A, -b)
    BY <1>1, LitFacts, HoldsFlip
  <2>3. QED
    BY <2>1, <2>2 DEF Sat
<1> DEFINE N == 2 * Cardinality(Open)
<1>2. N \in Nat
  BY OpenIsFinite
<1>3. PICK f : Walks(f, F, a) /\ Reaches(F, a) = f[2 * Cardinality(Open)]
  BY ReachesStepwise
<1> DEFINE T == {n \in 0..N : \A b \in f[n] : b \in Lits /\ Holds(A, b)}
<1>4. 0 \in T
  BY <1>1, <1>2, <1>3, OpenLitsFacts DEF Walks, Edges
<1>5. ASSUME NEW n \in 1..N, n - 1 \in T PROVE n \in T
  <2>1. f[n] = Onward(F, f[n - 1])
    BY <1>3 DEF Walks
  <2>2. \A b \in f[n - 1] : b \in Lits /\ Holds(A, b)
    BY <1>5
  <2>3. \A b \in f[n - 1] : \A c \in Edges(F, b) : c \in Lits /\ Holds(A, c)
    BY <2>2, <1>1, OpenLitsFacts DEF Edges
  <2>4. \A b \in f[n] : b \in Lits /\ Holds(A, b)
    BY <2>1, <2>2, <2>3 DEF Onward
  <2>5. QED
    BY <2>4
<1>6. 0..N \subseteq T
  <2> HIDE DEF T, N
  <2>1. QED
    BY <1>2, <1>4, <1>5, Induction
<1>7. QED
  BY <1>2, <1>3, <1>6

LEMMA ReachesMeans ==
    ASSUME NEW F, NEW a \in Lits, NEW A, IsModel(A, F), Holds(A, a)
    PROVE  \A b \in Reaches(F, a) : Holds(A, b)
<1>1. \A b \in Lits : \A c : Implies(F, b, c) => Sat(A, {-b, c})
  BY DEF Implies, IsModel
<1>2. QED
  BY <1>1, ReachesTrue

LEMMA PairIsSmall ==
    ASSUME NEW a, NEW b
    PROVE  Cardinality({a, b}) \in 1..2 /\ IsFiniteSet({a, b})
<1>1. IsFiniteSet({a}) /\ Cardinality({a}) = 1
  BY FS_Singleton
<1>2. {a, b} = {a} \cup {b}
  OBVIOUS
<1>3. IsFiniteSet({a} \cup {b}) /\ Cardinality({a} \cup {b}) = IF b \in {a} THEN 1 ELSE 2
  BY <1>1, FS_AddElement
<1>4. QED
  BY <1>2, <1>3

\* A clause whose literals are connected by binary clauses, none of which is the clause itself.
LEMMA HiddenMeans ==
    ASSUME NEW F, NEW C, NEW i \in C, NEW j \in C \cap Lits, i # j, i \in Reaches(F, -j),
           NEW A, \A b \in Lits : \A c : Implies(F, b, c) => Sat(A, {-b, c})
    PROVE  Sat(A, C)
<1>1. CASE Holds(A, j)
  BY <1>1 DEF Sat
<1>2. CASE ~ Holds(A, j)
  <2>1. -j \in Lits /\ Holds(A, -j)
    BY <1>2, LitFacts, HoldsFlip
  <2>2. Holds(A, i)
    BY <2>1, ReachesTrue
  <2>3. QED
    BY <2>2 DEF Sat
<1>3. QED
  BY <1>1, <1>2

LEMMA AllTyped ==
    ASSUME Typed, NEW C \in All
    PROVE  C \in Clause /\ C \in SUBSET Lits
BY DEF Typed, All, Formula, Clause

LEMMA FormulaOps ==
    ASSUME NEW F \in Formula, NEW C \in Clause, NEW S
    PROVE  F \cup {C} \in Formula /\ F \ S \in Formula /\ (F \ S) \cup {C} \in Formula
BY DEF Formula

\* A part of D takes its place.
LEMMA InPlace ==
    ASSUME NEW F \in Formula, NEW D, NEW E \in Clause, E \subseteq D
    PROVE  (F \ {D}) \cup {E} \in Formula /\ Strengthens((F \ {D}) \cup {E}, F)
<1>1. (F \ {D}) \cup {E} \in Formula
  BY FormulaOps
<1>2. Strengthens((F \ {D}) \cup {E}, F)
  BY DEF Strengthens
<1>3. QED
  BY <1>1, <1>2

-----------------------------------------------------------------------------
(* Subsumption and strengthening *)

LEMMA SubsumptionGood ==
    ASSUME Typed, SubsumptionNext
    PROVE  GoodStep
<1>1. core \in Formula /\ learnts \in Formula /\ {} \in SUBSET Lits
  BY DEF Typed
<1>2. ASSUME NEW C \in All, NEW D \in All, Subsumption(C, D) PROVE GoodStep
  <2>1. C \in Clause /\ D \in Clause /\ C \subseteq D
    BY <1>2, AllTyped DEF Subsumption
  <2>2. CASE Rewrite(core, learnts \ {D}, {})
    <3>1. learnts \ {D} \in Formula /\ Strengthens(core, core)
      BY <1>1, <2>1, FormulaOps DEF Strengthens
    <3>2. QED
      BY <1>1, <3>1, <2>2, StrengtheningGood
  <2>3. CASE C \in core /\ C # D /\ Rewrite(core \ {D}, learnts, {})
    <3>1. core \ {D} \in Formula /\ Strengthens(core \ {D}, core)
      BY <1>1, <2>1, <2>3, FormulaOps DEF Strengthens
    <3>2. QED
      BY <1>1, <3>1, <2>3, StrengtheningGood
  <2>4. CASE Rewrite((core \ {D}) \cup {C}, learnts \ {C}, {})
    <3>1. (core \ {D}) \cup {C} \in Formula /\ learnts \ {C} \in Formula
          /\ Strengthens((core \ {D}) \cup {C}, core)
      BY <1>1, <2>1, FormulaOps DEF Strengthens
    <3>2. QED
      BY <1>1, <3>1, <2>4, StrengtheningGood
  <2>5. QED
    BY <1>2, <2>2, <2>3, <2>4 DEF Subsumption
<1>3. ASSUME NEW C \in All, NEW D \in All, NEW l \in C, Strengthening(C, D, l) PROVE GoodStep
  <2>1. C \in Clause /\ D \in Clause /\ D \ {-l} \in Clause /\ -l \in D /\ C \ {l} \subseteq D
    BY <1>3, AllTyped DEF Strengthening, Clause
  <2>2. CASE D \in core /\ Rewrite((core \ {D}) \cup {D \ {-l}}, learnts, {})
    <3>1. (core \ {D}) \cup {D \ {-l}} \in Formula /\ Strengthens((core \ {D}) \cup {D \ {-l}}, core)
      BY <1>1, <2>1, InPlace
    <3>2. QED
      BY <1>1, <3>1, <2>2, StrengtheningGood
  <2>3. CASE Rewrite(core, (learnts \ {D}) \cup {D \ {-l}}, {})
    <3>1. (learnts \ {D}) \cup {D \ {-l}} \in Formula /\ Strengthens(core, core)
      BY <1>1, <2>1, FormulaOps DEF Strengthens
    <3>2. QED
      BY <1>1, <3>1, <2>3, StrengtheningGood
  <2>4. QED
    BY <1>3, <2>2, <2>3 DEF Strengthening, Shorten
<1>4. QED
  BY <1>2, <1>3 DEF SubsumptionNext

-----------------------------------------------------------------------------
(* Variable elimination *)

LEMMA FlipStays ==
    ASSUME NEW l \in Lits, NEW A, NEW D \in Clause, -l \notin D, Sat(A, D)
    PROVE  Sat(MadeTrue(A, l), D)
BY LitFacts, MadeTrueHolds DEF Sat, Clause

\* A clause all literals of which are false is no tautology.
LEMMA FalseIsNoTautology ==
    ASSUME NEW C \in Clause, NEW A, \A k \in C : ~ Holds(A, k)
    PROVE  ~ Tautology(C)
BY LitFacts, HoldsFlip DEF Tautology, Clause

\* The literal of a gate's clause that is its only hope under A.
Depends(A, g, l) == l \in g /\ -l \notin g /\ \A k \in g \ {l} : ~ Holds(A, k)

\* The clauses of a gate define l: no assignment satisfies them all without l and -l, and
\* two with complementary literals clash in another literal as well.
IsGate(gate, l) ==
    /\ gate \subseteq core
    /\ \A A : \E g \in gate : Depends(A, g, l) \/ Depends(A, g, -l)
    /\ \A g, h \in gate : l \in g /\ -l \in h => \E k \in g \ {l} : -k \in h \ {-l}

LEMMA GateFacts ==
    ASSUME Typed, NEW m \in Lits, NEW gate \in Gates(m)
    PROVE  IsGate(gate, m) /\ IsGate(gate, -m)
<1>1. PICK C \in core : /\ -m \in C /\ m \notin C /\ \A k \in C \ {-m} : {m, -k} \in core
                        /\ gate = {C} \cup {{m, -k} : k \in C \ {-m}}
  BY DEF Gates
<1>2. m \in Int /\ m # 0 /\ -m \in Lits /\ -(-m) = m /\ m # -m
  BY LitFacts
<1>3. \A k \in C : k \in Lits /\ k \in Int /\ k # 0 /\ -(-k) = k
  BY LitFacts DEF Typed, Formula, Clause
<1>4. \A k \in C \ {-m} : m \in {m, -k} /\ -m \notin {m, -k} /\ -k # m /\ k # m
  BY <1>1, <1>2, <1>3
<1>5. gate \subseteq core
  BY <1>1
<1>6. ASSUME NEW A PROVE \E g \in gate : Depends(A, g, m) \/ Depends(A, g, -m)
  <2>1. CASE \E k \in C \ {-m} : Holds(A, k)
    <3>1. PICK k \in C \ {-m} : Holds(A, k)
      BY <2>1
    <3>2. ~ Holds(A, -k)
      BY <3>1, <1>3, HoldsFlip
    <3>3. Depends(A, {m, -k}, m) /\ {m, -k} \in gate
      BY <3>2, <1>4, <1>1 DEF Depends
    <3>4. QED
      BY <3>3
  <2>2. CASE \A k \in C \ {-m} : ~ Holds(A, k)
    <3>1. Depends(A, C, -m) /\ C \in gate
      BY <2>2, <1>1, <1>2 DEF Depends
    <3>2. QED
      BY <3>1
  <2>3. QED
    BY <2>1, <2>2
<1>7. ASSUME NEW g \in gate, NEW h \in gate, m \in g, -m \in h
      PROVE  (\E k \in g \ {m} : -k \in h \ {-m}) /\ (\E k \in h \ {-m} : -k \in g \ {m})
  <2>1. h = C
    BY <1>1, <1>4, <1>7
  <2>2. PICK k \in C \ {-m} : g = {m, -k}
    BY <1>1, <1>7
  <2>3. -k \in g \ {m} /\ -(-k) = k /\ k \in h \ {-m}
    BY <2>1, <2>2, <1>3, <1>4
  <2>4. QED
    BY <2>3
<1>8. QED
  BY <1>2, <1>5, <1>6, <1>7 DEF IsGate

LEMMA DefinitionFacts ==
    ASSUME Typed, NEW l \in Lits, NEW gate \in Definitions(l)
    PROVE  gate = {} \/ IsGate(gate, l)
<1>1. -l \in Lits /\ -(-l) = l
  BY LitFacts
<1>2. CASE gate \in Gates(l)
  BY <1>2, GateFacts
<1>3. CASE gate \in Gates(-l)
  BY <1>1, <1>3, GateFacts
<1>4. QED
  BY <1>2, <1>3 DEF Definitions

\* All literals of a resolvent are false: it is one, and no tautology.
LEMMA FalseResolvent ==
    ASSUME NEW l \in Lits, NEW A, NEW C \in Clause, NEW D \in Clause,
           \A k \in C \ {l} : ~ Holds(A, k), \A k \in D \ {-l} : ~ Holds(A, k)
    PROVE  Meets(C, D, l) /\ ~ Sat(A, Resolvent(C, D, l))
<1>1. Resolvent(C, D, l) \in Clause /\ \A k \in Resolvent(C, D, l) : ~ Holds(A, k)
  BY DEF Resolvent, Clause
<1>2. QED
  BY <1>1, FalseIsNoTautology DEF Meets, Sat

LEMMA BlockedMeans ==
    ASSUME Typed, NEW l \in Lits, NEW gate, gate = {} \/ IsGate(gate, l), NEW A,
           IsModel(A, core \ (Blocked(l, gate) \cup Blocked(-l, gate))),
           ~ IsModel(A, Blocked(l, gate) \cap core)
    PROVE  IsModel(MadeTrue(A, l), core)
<1> DEFINE B == Blocked(l, gate) \cup Blocked(-l, gate)
           A1 == MadeTrue(A, l)
<1>1. PICK C \in Blocked(l, gate) \cap core : ~ Sat(A, C)
  BY DEF IsModel
<1>2. l \in C /\ C \in core /\ IsBlocked(C, l, gate)
  BY <1>1 DEF Blocked, With
<1>3. \A E \in core : E \in Clause /\ \A k \in E : k \in Lits
  BY DEF Typed, Formula, Clause
<1>4. l \in Int /\ l # 0 /\ -l \in Lits /\ -(-l) = l /\ -l # l
  BY LitFacts
<1>5. Holds(A1, l) /\ ~ Holds(A, l) /\ ~ Holds(A1, -l)
  BY <1>1, <1>2, <1>4, MadeTrueHolds, HoldsFlip DEF Sat
<1>6. \A k \in Lits : k # l /\ ~ Holds(A, k) => ~ Holds(A1, k)
  BY <1>4, LitFacts, MadeTrueHolds
<1>7. \A k \in Lits : k # -l /\ ~ Holds(A1, k) => ~ Holds(A, k)
  BY <1>4, LitFacts, MadeTrueHolds
<1>8. \A k \in C \ {l} : ~ Holds(A1, k)
  BY <1>1, <1>2, <1>3, <1>6 DEF Sat
<1> HIDE DEF A1
<1>9. SUFFICES ASSUME NEW D \in core PROVE Sat(A1, D)
  BY DEF A1, IsModel
<1>10. CASE l \in D
  BY <1>10, <1>5 DEF Sat
<1>11. CASE l \notin D /\ -l \notin D
  <2>1. D \notin B
    BY <1>11 DEF Blocked, With
  <2>2. Sat(A, D)
    BY <2>1 DEF IsModel
  <2>3. QED
    BY <2>2, <1>11, <1>3, FlipStays DEF A1
<1>12. CASE l \notin D /\ -l \in D
  <2>1. SUFFICES ASSUME ~ Sat(A1, D) PROVE FALSE
    OBVIOUS
  <2>2. \A k \in D : ~ Holds(A1, k)
    BY <2>1 DEF Sat
  <2>3. Meets(C, D, l)
    BY <1>2, <1>3, <1>8, <2>2, FalseResolvent
  <2>4. D \in With(-l) /\ C \in With(l)
    BY <1>2, <1>12 DEF With, All
  <2>5. ~ Resolved(C, D, gate)
    BY <1>2, <2>3, <2>4 DEF IsBlocked
  <2>6. gate # {} /\ IsGate(gate, l) /\ (C \in gate <=> D \in gate)
    BY <2>5 DEF Resolved
  <2>7. CASE C \in gate /\ D \in gate
    <3>1. PICK k \in C \ {l} : -k \in D \ {-l}
      BY <2>6, <2>7, <1>2, <1>12 DEF IsGate
    <3>2. ~ Holds(A1, k) /\ ~ Holds(A1, -k)
      BY <3>1, <1>8, <2>2
    <3>3. QED
      BY <3>1, <3>2, <1>2, <1>3, LitFacts, HoldsFlip
  <2>8. CASE C \notin gate /\ D \notin gate
    <3>1. PICK g \in gate : Depends(A1, g, l) \/ Depends(A1, g, -l)
      BY <2>6 DEF IsGate
    <3>2. g \in core /\ g \in Clause
      BY <2>6, <1>3 DEF IsGate
    <3>3. CASE Depends(A1, g, -l)
      <4>1. Meets(C, g, l)
        BY <3>2, <3>3, <1>2, <1>3, <1>8, FalseResolvent DEF Depends
      <4>2. g \in With(-l) /\ Resolved(C, g, gate)
        BY <3>2, <3>3, <2>8 DEF With, All, Depends, Resolved
      <4>3. QED
        BY <4>1, <4>2, <3>2, <1>2 DEF IsBlocked
    <3>4. CASE Depends(A1, g, l)
      <4>1. Meets(g, D, l)
        BY <3>2, <3>4, <1>3, <2>2, FalseResolvent DEF Depends
      <4>2. Resolved(g, D, gate)
        BY <2>8 DEF Resolved
      <4>3. g \notin Blocked(l, gate)
        BY <4>1, <4>2, <2>4 DEF Blocked, IsBlocked
      <4>4. g \notin Blocked(-l, gate)
        BY <3>4 DEF Blocked, With, Depends
      <4>5. Sat(A, g)
        BY <4>3, <4>4, <3>2 DEF IsModel
      <4>6. \A k \in g : ~ Holds(A, k)
        BY <3>4, <3>2, <1>3, <1>5, <1>7 DEF Depends
      <4>7. QED
        BY <4>5, <4>6 DEF Sat
    <3>5. QED
      BY <3>1, <3>3, <3>4
  <2>9. QED
    BY <2>6, <2>7, <2>8
<1>13. QED
  BY <1>10, <1>11, <1>12

LEMMA EliminatedMeans ==
    ASSUME Typed, NEW l \in Lits, NEW gate, gate = {} \/ IsGate(gate, l),
           NEW B, B = {} \/ B = Blocked(l, gate) \cup Blocked(-l, gate),
           NEW A, IsModel(A, core \ (With(l) \cup With(-l))), Holds(A, -l),
           \A C \in (With(l) \ B) \cap core, D \in (With(-l) \ B) \cap core :
               /\ Resolved(C, D, gate) /\ Meets(C, D, l)
               /\ l \notin Resolvent(C, D, l) /\ -l \notin Resolvent(C, D, l)
               => Sat(A, Resolvent(C, D, l)),
           ~ IsModel(A, (With(l) \ B) \cap core)
    PROVE  IsModel(MadeTrue(A, l), core \ B)
<1> DEFINE A1 == MadeTrue(A, l)
<1>1. PICK C \in (With(l) \ B) \cap core : ~ Sat(A, C)
  BY DEF IsModel
<1>2. l \in C /\ C \in core /\ C \notin B /\ C \in With(l)
  BY <1>1 DEF With
<1>3. \A E \in core : E \in Clause /\ \A k \in E : k \in Lits
  BY DEF Typed, Formula, Clause
<1>4. l \in Int /\ l # 0 /\ -l \in Lits /\ -(-l) = l /\ -l # l
  BY LitFacts
<1>5. Holds(A1, l) /\ ~ Holds(A, l) /\ ~ Holds(A1, -l)
  BY <1>1, <1>2, <1>4, MadeTrueHolds, HoldsFlip DEF Sat
<1>6. \A k \in Lits : k # l /\ ~ Holds(A, k) => ~ Holds(A1, k)
  BY <1>4, LitFacts, MadeTrueHolds
<1>7. \A k \in Lits : k # -l /\ ~ Holds(A1, k) => ~ Holds(A, k)
  BY <1>4, LitFacts, MadeTrueHolds
<1>8. \A k \in C \ {l} : ~ Holds(A1, k) /\ ~ Holds(A, k)
  BY <1>1, <1>2, <1>3, <1>6 DEF Sat
<1> HIDE DEF A1
<1>9. SUFFICES ASSUME NEW D \in core \ B PROVE Sat(A1, D)
  BY DEF A1, IsModel
<1>10. CASE l \in D
  BY <1>10, <1>5 DEF Sat
<1>11. CASE l \notin D /\ -l \notin D
  <2>1. D \notin With(l) \cup With(-l)
    BY <1>11 DEF With
  <2>2. Sat(A, D)
    BY <2>1 DEF IsModel
  <2>3. QED
    BY <2>2, <1>11, <1>3, FlipStays DEF A1
<1>12. CASE l \notin D /\ -l \in D
  <2>1. SUFFICES ASSUME ~ Sat(A1, D) PROVE FALSE
    OBVIOUS
  <2>2. \A k \in D : ~ Holds(A1, k)
    BY <2>1 DEF Sat
  <2>3. \A k \in D \ {-l} : ~ Holds(A, k)
    BY <2>2, <1>3, <1>7
  <2>4. D \in (With(-l) \ B) \cap core
    BY <1>12 DEF With, All
  <2>5. Meets(C, D, l) /\ ~ Sat(A, Resolvent(C, D, l))
    BY <1>2, <1>3, <1>8, <2>3, FalseResolvent
  <2>11. -l \notin C
    BY <1>1 DEF Sat
  <2>12. l \notin Resolvent(C, D, l) /\ -l \notin Resolvent(C, D, l)
    BY <2>11, <1>12 DEF Resolvent
  <2>6. ~ Resolved(C, D, gate)
    BY <1>1, <2>4, <2>5, <2>12
  <2>7. gate # {} /\ IsGate(gate, l) /\ (C \in gate <=> D \in gate)
    BY <2>6 DEF Resolved
  <2>8. CASE C \in gate /\ D \in gate
    <3>1. PICK k \in C \ {l} : -k \in D \ {-l}
      BY <2>7, <2>8, <1>2, <1>12 DEF IsGate
    <3>2. ~ Holds(A1, k) /\ ~ Holds(A1, -k)
      BY <3>1, <1>8, <2>2
    <3>3. QED
      BY <3>1, <3>2, <1>2, <1>3, LitFacts, HoldsFlip
  <2>9. CASE C \notin gate /\ D \notin gate
    <3>1. PICK g \in gate : Depends(A1, g, l) \/ Depends(A1, g, -l)
      BY <2>7 DEF IsGate
    <3>2. g \in core /\ g \in Clause
      BY <2>7, <1>3 DEF IsGate
    <3>3. CASE Depends(A1, g, -l)
      <4>1. \A k \in g \ {-l} : ~ Holds(A1, k) /\ ~ Holds(A, k)
        BY <3>3, <3>2, <1>3, <1>7 DEF Depends
      <4>2. Meets(C, g, l) /\ ~ Sat(A, Resolvent(C, g, l))
        BY <4>1, <3>2, <1>2, <1>3, <1>8, FalseResolvent
      <4>3. g \in With(-l) /\ Resolved(C, g, gate) /\ Resolved(g, C, gate) /\ l \notin g
        BY <3>2, <3>3, <2>9, <1>4 DEF With, All, Depends, Resolved
      <4>8. l \notin Resolvent(C, g, l) /\ -l \notin Resolvent(C, g, l)
        BY <2>11, <4>3 DEF Resolvent
      <4>4. g \in B
        BY <4>2, <4>3, <4>8, <3>2, <1>1
      <4>5. g \in Blocked(-l, gate)
        BY <4>3, <4>4 DEF Blocked, With
      <4>6. Meets(g, C, -l)
        <5>1. \A k \in C \ {-(-l)} : ~ Holds(A, k)
          BY <1>4, <1>8
        <5>2. QED
          BY <5>1, <4>1, <3>2, <1>2, <1>3, <1>4, FalseResolvent
      <4>7. QED
        BY <4>3, <4>5, <4>6, <1>2, <1>4 DEF Blocked, IsBlocked
    <3>4. CASE Depends(A1, g, l)
      <4>1. \A k \in g \ {l} : ~ Holds(A, k)
        BY <3>4, <3>2, <1>3, <1>7 DEF Depends
      <4>2. Meets(g, D, l) /\ ~ Sat(A, Resolvent(g, D, l))
        BY <4>1, <3>2, <1>3, <2>3, FalseResolvent
      <4>3. g \in With(l) /\ Resolved(g, D, gate) /\ -l \notin g
        BY <3>2, <3>4, <2>9, <1>4 DEF With, All, Depends, Resolved
      <4>8. l \notin Resolvent(g, D, l) /\ -l \notin Resolvent(g, D, l)
        BY <1>12, <4>3 DEF Resolvent
      <4>4. g \in B
        BY <4>2, <4>3, <4>8, <3>2, <2>4
      <4>5. g \in Blocked(l, gate)
        BY <4>3, <4>4 DEF Blocked, With
      <4>6. QED
        BY <4>2, <4>3, <4>5, <2>4 DEF Blocked, IsBlocked
    <3>5. QED
      BY <3>1, <3>3, <3>4
  <2>10. QED
    BY <2>7, <2>8, <2>9
<1>13. QED
  BY <1>10, <1>11, <1>12

\* Entries that a step may push.
Pushable(E) == E \in Seq(Entry) /\ \A i \in 1..Len(E) : Flippable(E[i].lit)

LEMMA PushableConcat ==
    ASSUME NEW E, NEW G, Pushable(E), Pushable(G), NEW A
    PROVE  Pushable(E \o G) /\ Undone(E \o G, A) = Undone(E, Undone(G, A))
<1> DEFINE X == Entry
<1>1. E \in Seq(X) /\ G \in Seq(X)
  BY DEF Pushable
<1> HIDE DEF X
<1>2. E \o G \in Seq(X) /\ Len(E) \in Nat /\ Len(G) \in Nat /\ Len(E \o G) = Len(E) + Len(G)
  BY <1>1
<1>3. ASSUME NEW i \in 1..Len(E \o G) PROVE Flippable((E \o G)[i].lit)
  <2>1. CASE i <= Len(E)
    <3>1. i \in 1..Len(E) /\ (E \o G)[i] = E[i]
      BY <1>1, <1>2, <2>1
    <3>2. QED
      BY <3>1 DEF Pushable
  <2>2. CASE i > Len(E)
    <3>1. i - Len(E) \in 1..Len(G) /\ (E \o G)[i] = G[i - Len(E)]
      BY <1>1, <1>2, <2>2
    <3>2. QED
      BY <3>1 DEF Pushable
  <2>3. QED
    BY <1>2, <2>1, <2>2
<1>4. Undone(E \o G, A) = Undone(E, Undone(G, A))
  BY <1>1, UndoneConcat
<1>5. QED
  BY <1>2, <1>3, <1>4 DEF Pushable, X

LEMMA PushableOne ==
    ASSUME NEW l, NEW C \in Clause, Flippable(l), l \in C, NEW A
    PROVE  /\ Pushable(<< [lit |-> l, clause |-> C] >>)
           /\ Undone(<< [lit |-> l, clause |-> C] >>, A) = IF Sat(A, C) THEN A ELSE MadeTrue(A, l)
<1> DEFINE e == [lit |-> l, clause |-> C]
           X == Entry
<1>1. e \in X /\ e.lit = l /\ e.clause = C
  BY DEF Entry, Flippable
<1> HIDE DEF e, X
<1>2. <<e>> \in Seq(X) /\ Len(<<e>>) = 1 /\ <<e>>[1] = e
  BY <1>1
<1>3. Undone(<<e>>, A) = IF Sat(A, C) THEN A ELSE MadeTrue(A, l)
  BY <1>1, UndoneOne DEF Repaired
<1>4. \A i \in 1..Len(<<e>>) : <<e>>[i] = e
  BY <1>2
<1>5. Pushable(<<e>>)
  BY <1>1, <1>2, <1>4 DEF Pushable, X
<1>6. QED
  BY <1>3, <1>5 DEF e

LEMMA LitsAreFinite == \A K \in SUBSET Lits : IsFiniteSet(K)
<1>1. IsFiniteSet({-v : v \in Vars})
  <2> DEFINE f == [v \in Vars |-> -v]
  <2>1. f \in Surjection(Vars, {-v : v \in Vars})
    BY DEF Surjection
  <2>2. QED
    BY <2>1, VarsAssumption, FS_Surjection
<1>2. IsFiniteSet(Lits)
  BY <1>1, VarsAssumption, FS_Union DEF Lits
<1>3. QED
  BY <1>2, FS_Subset

LEMMA FormulaIsFinite ==
    ASSUME NEW F \in Formula
    PROVE  IsFiniteSet(F)
<1>1. IsFiniteSet(Clause)
  BY LitsAreFinite, FS_SUBSET DEF Clause
<1>2. QED
  BY <1>1, FS_Subset DEF Formula

LEMMA PushableEntries ==
    ASSUME NEW S \in Formula, NEW l, Flippable(l), \A C \in S : l \in C, NEW A
    PROVE  /\ Pushable(Entries(S, l))
           /\ Undone(Entries(S, l), A) = IF IsModel(A, S) THEN A ELSE MadeTrue(A, l)
<1>1. IsFiniteSet(S) /\ l \in Lits /\ l \in Int /\ l # 0
  BY FormulaIsFinite, LitFacts DEF Flippable
<1>2. Undone(Entries(S, l), A) = IF IsModel(A, S) THEN A ELSE MadeTrue(A, l)
  BY <1>1, EntriesUndone
<1> DEFINE R == [lit : {l}, clause : S]
           X == Entry
<1>3. Entries(S, l) \in Seq(R) /\ \A e \in R : e \in X /\ e.lit = l
  BY <1>1, EntriesAre DEF Entry, Formula, Clause
<1> HIDE DEF R, X
<1>4. Entries(S, l) \in Seq(X) /\ \A i \in 1..Len(Entries(S, l)) : Entries(S, l)[i].lit = l
  <2>1. \A i \in 1..Len(Entries(S, l)) : Entries(S, l)[i] \in R
    BY <1>3
  <2>2. Len(Entries(S, l)) \in Nat /\ DOMAIN Entries(S, l) = 1..Len(Entries(S, l))
    BY <1>3
  <2>3. Entries(S, l) = [i \in 1..Len(Entries(S, l)) |-> Entries(S, l)[i]]
    BY <1>3, <2>2
  <2>4. \A i \in 1..Len(Entries(S, l)) : Entries(S, l)[i] \in X /\ Entries(S, l)[i].lit = l
    BY <1>3, <2>1
  <2>5. QED
    BY <2>2, <2>3, <2>4
<1>5. QED
  BY <1>2, <1>4 DEF Pushable, X

\* A step that rewrites the formula and pushes entries.
LEMMA PushingGood ==
    ASSUME Typed, NEW K \in Formula, NEW L \in Formula, NEW U \in SUBSET Lits,
           NEW E, Pushable(E),
           \A A : Model(A, K, U \cup units) => IsModel(Undone(E, A), core),
           Become(K, L, U), Push(E), UNCHANGED fresh
    PROVE  GoodStep
BY PushGood DEF Pushable, Typed

LEMMA CandidateFacts ==
    ASSUME Typed, NEW v \in Vars, v \in Open \ Frozen
    PROVE  v \in Lits /\ -v \in Lits /\ v # -v /\ -(-v) = v /\ Flippable(v) /\ Flippable(-v)
<1>1. v \in Lits
  BY DEF Lits
<1>2. -v \in Lits /\ VarOf(v) = v /\ VarOf(-v) = v /\ -(-v) = v /\ v # -v
  BY <1>1, LitFacts, VarsAssumption DEF VarOf
<1>3. QED
  BY <1>1, <1>2 DEF Flippable

LEMMA BlockedTyped ==
    ASSUME Typed, NEW l, NEW gate
    PROVE  /\ Blocked(l, gate) \cap core \in Formula
           /\ \A C \in Blocked(l, gate) : l \in C
BY DEF Typed, Blocked, With, Formula

\* The blocked clauses of both literals, when their entries are undone: P and N are these
\* clauses, with or without tautologies.
LEMMA BlockedUndone ==
    ASSUME Typed, NEW v \in Vars, v \in Open \ Frozen, NEW gate \in Definitions(v),
           NEW P \in Formula, \A C \in P : v \in C, NEW N \in Formula, \A C \in N : -v \in C,
           \A A : /\ IsModel(A, P) <=> IsModel(A, Blocked(v, gate) \cap core)
                  /\ IsModel(A, N) <=> IsModel(A, Blocked(-v, gate) \cap core)
    PROVE  /\ Pushable(Entries(P, v) \o Entries(N, -v))
           /\ \A A : IsModel(A, core \ (Blocked(v, gate) \cup Blocked(-v, gate)))
                        => IsModel(Undone(Entries(P, v) \o Entries(N, -v), A), core)
<1>1. v \in Lits /\ -v \in Lits /\ v # -v /\ -(-v) = v /\ Flippable(v) /\ Flippable(-v)
  BY CandidateFacts
<1>2. gate = {} \/ (IsGate(gate, v) /\ IsGate(gate, -v))
  <2>1. Definitions(-v) = Definitions(v)
    BY <1>1 DEF Definitions
  <2>2. QED
    BY <1>1, <2>1, DefinitionFacts
<1>3. /\ Pushable(Entries(P, v)) /\ Pushable(Entries(N, -v))
      /\ \A X : Undone(Entries(P, v), X) = IF IsModel(X, P) THEN X ELSE MadeTrue(X, v)
      /\ \A X : Undone(Entries(N, -v), X) = IF IsModel(X, N) THEN X ELSE MadeTrue(X, -v)
  BY <1>1, PushableEntries
<1>4. /\ Pushable(Entries(P, v) \o Entries(N, -v))
      /\ \A X : Undone(Entries(P, v) \o Entries(N, -v), X) = Undone(Entries(P, v), Undone(Entries(N, -v), X))
  BY <1>3, PushableConcat
<1>5. ASSUME NEW A, IsModel(A, core \ (Blocked(v, gate) \cup Blocked(-v, gate)))
      PROVE  IsModel(Undone(Entries(P, v) \o Entries(N, -v), A), core)
  <2>1. CASE ~ IsModel(A, N)
    <3>1. IsModel(MadeTrue(A, -v), core)
      BY <1>1, <1>2, <1>5, <2>1, BlockedMeans
    <3>2. Undone(Entries(N, -v), A) = MadeTrue(A, -v) /\ IsModel(MadeTrue(A, -v), P)
      BY <1>3, <2>1, <3>1 DEF IsModel
    <3>3. QED
      BY <1>3, <1>4, <3>1, <3>2
  <2>2. CASE IsModel(A, N) /\ ~ IsModel(A, P)
    <3>1. IsModel(MadeTrue(A, v), core)
      BY <1>1, <1>2, <1>5, <2>2, BlockedMeans
    <3>2. QED
      BY <1>3, <1>4, <2>2, <3>1
  <2>3. CASE IsModel(A, N) /\ IsModel(A, P)
    <3>1. IsModel(A, core)
      BY <1>5, <2>3 DEF IsModel
    <3>2. QED
      BY <1>3, <1>4, <2>3, <3>1
  <2>4. QED
    BY <2>1, <2>2, <2>3
<1>6. QED
  BY <1>4, <1>5

LEMMA RemoveBlockedGood ==
    ASSUME Typed, NEW v \in Vars, RemoveBlocked(v)
    PROVE  GoodStep
<1>1. v \in Open \ Frozen
  BY DEF RemoveBlocked, Candidate
<1>2. PICK gate \in Definitions(v) :
        LET B == Blocked(v, gate) \cup Blocked(-v, gate)
        IN  /\ Become(core \ B, learnts \ B, {})
            /\ Push(Entries(Blocked(v, gate) \cap core, v) \o Entries(Blocked(-v, gate) \cap core, -v))
            /\ UNCHANGED fresh
  BY DEF RemoveBlocked
<1> DEFINE B == Blocked(v, gate) \cup Blocked(-v, gate)
           E == Entries(Blocked(v, gate) \cap core, v) \o Entries(Blocked(-v, gate) \cap core, -v)
<1>3. core \ B \in Formula /\ learnts \ B \in Formula /\ {} \in SUBSET Lits
  BY DEF Typed, Formula
<1>4. Pushable(E) /\ \A A : IsModel(A, core \ B) => IsModel(Undone(E, A), core)
  BY <1>1, BlockedTyped, BlockedUndone
<1>5. \A A : Model(A, core \ B, {} \cup units) => IsModel(Undone(E, A), core)
  BY <1>4 DEF Model
<1> HIDE DEF B, E
<1>6. Become(core \ B, learnts \ B, {}) /\ Push(E) /\ UNCHANGED fresh
  BY <1>2 DEF B, E
<1>7. QED
  BY <1>3, <1>4, <1>5, <1>6, PushingGood

LEMMA StackUndone ==
    ASSUME Typed, NEW v \in Vars, v \in Open \ Frozen, NEW N \in Formula, \A C \in N : -v \in C
    PROVE  /\ Pushable(Entries(N, -v) \o << [lit |-> v, clause |-> {v}] >>)
           /\ \A A : Undone(Entries(N, -v) \o << [lit |-> v, clause |-> {v}] >>, A) =
                        IF IsModel(MadeTrue(A, v), N) THEN MadeTrue(A, v) ELSE MadeTrue(MadeTrue(A, v), -v)
<1>1. v \in Lits /\ -v \in Lits /\ Flippable(v) /\ Flippable(-v) /\ {v} \in Clause
  BY CandidateFacts DEF Clause
<1>2. \A X : Pushable(Entries(N, -v)) /\ Undone(Entries(N, -v), X) = IF IsModel(X, N) THEN X ELSE MadeTrue(X, -v)
  BY <1>1, PushableEntries
<1> DEFINE e == << [lit |-> v, clause |-> {v}] >>
<1>3. \A A : Pushable(e) /\ Undone(e, A) = IF Sat(A, {v}) THEN A ELSE MadeTrue(A, v)
  BY <1>1, PushableOne
<1>4. \A A : Sat(A, {v}) => A = MadeTrue(A, v)
  BY VarsAssumption DEF Sat, Holds, MadeTrue
<1>5. \A A : Undone(e, A) = MadeTrue(A, v)
  BY <1>3, <1>4
<1> HIDE DEF e
<1>6. \A A : Pushable(Entries(N, -v) \o e) /\ Undone(Entries(N, -v) \o e, A) = Undone(Entries(N, -v), Undone(e, A))
  BY <1>2, <1>3, PushableConcat
<1>7. QED
  BY <1>2, <1>5, <1>6 DEF e

LEMMA SymmetricResolvent ==
    ASSUME NEW v \in Int, NEW C, NEW D, NEW gate
    PROVE  /\ Resolvent(C, D, -v) = Resolvent(D, C, v)
           /\ Meets(C, D, -v) <=> Meets(D, C, v)
           /\ Resolved(C, D, gate) <=> Resolved(D, C, gate)
<1>1. -(-v) = v
  OBVIOUS
<1>2. Resolvent(C, D, -v) = Resolvent(D, C, v)
  BY <1>1 DEF Resolvent
<1>3. QED
  BY <1>2 DEF Meets, Resolved

LEMMA NoVariable ==
    ASSUME NEW v \in Vars, NEW A, NEW D \in Clause, v \notin D, -v \notin D, Sat(A, D)
    PROVE  Sat(MadeTrue(A, v), D)
<1>1. v \in Lits
  BY DEF Lits
<1>2. QED
  BY <1>1, FlipStays

\* The stack of an elimination, undone: the clauses of the variable that were not blocked
\* are satisfied again.
LEMMA EliminationUndone ==
    ASSUME Typed, NEW v \in Vars, v \in Open \ Frozen, NEW gate \in Definitions(v),
           NEW B, B = {} \/ B = Blocked(v, gate) \cup Blocked(-v, gate),
           NEW A, IsModel(A, core \ (With(v) \cup With(-v))),
           IsModel(A, ResolventsOf((With(v) \ B) \cap core, (With(-v) \ B) \cap core, v, gate))
    PROVE  IsModel(Undone(StackOf(With(-v) \ B, v), A), core \ B)
<1> DEFINE P == (With(v) \ B) \cap core
           N == (With(-v) \ B) \cap core
           A0 == MadeTrue(A, v)
<1>1. v \in Lits /\ -v \in Lits /\ v # -v /\ -(-v) = v /\ v \in Int /\ v # 0
  BY CandidateFacts, LitFacts
<1>2. gate = {} \/ (IsGate(gate, v) /\ IsGate(gate, -v))
  <2>1. Definitions(-v) = Definitions(v)
    BY <1>1 DEF Definitions
  <2>2. QED
    BY <1>1, <2>1, DefinitionFacts
<1>3. N \in Formula /\ \A C \in N : -v \in C
  BY DEF Typed, Formula, With
<1>4. Undone(StackOf(With(-v) \ B, v), A) = IF IsModel(A0, N) THEN A0 ELSE MadeTrue(A0, -v)
  BY <1>3, StackUndone DEF StackOf
<1>5. \A E \in core : E \in Clause
  BY DEF Typed, Formula
<1>6. Holds(A0, v)
  BY <1>1, MadeTrueHolds
<1>7. ASSUME NEW D \in core \ (With(v) \cup With(-v)) PROVE Sat(A0, D)
  <2>1. v \notin D /\ -v \notin D /\ D \in Clause /\ Sat(A, D)
    BY <1>5 DEF With, All, IsModel
  <2>2. QED
    BY <2>1, NoVariable
<1>8. ASSUME NEW C \in P, NEW D \in N, Resolved(C, D, gate), Meets(C, D, v),
             v \notin Resolvent(C, D, v), -v \notin Resolvent(C, D, v)
      PROVE  Sat(A0, Resolvent(C, D, v))
  <2>1. <<C, D>> \in P \X N /\ <<C, D>>[1] = C /\ <<C, D>>[2] = D
    OBVIOUS
  <2>2. Resolvent(C, D, v) \in ResolventsOf(P, N, v, gate)
    BY <2>1, <1>8 DEF ResolventsOf
  <2>3. Sat(A, Resolvent(C, D, v))
    BY <2>2 DEF IsModel
  <2>4. Resolvent(C, D, v) \in Clause
    BY <1>5 DEF Resolvent, Clause
  <2>5. QED
    BY <2>3, <2>4, <1>8, NoVariable
<1> HIDE DEF A0
<1>9. CASE IsModel(A0, N)
  <2>1. \A D \in core \ B : D \in N \/ v \in D \/ D \in core \ (With(v) \cup With(-v))
    BY DEF With
  <2>2. IsModel(A0, core \ B)
    BY <2>1, <1>6, <1>7, <1>9 DEF IsModel, Sat
  <2>3. QED
    BY <1>4, <1>9, <2>2
<1>10. CASE ~ IsModel(A0, N)
  <2>1. \A C \in (With(-v) \ B) \cap core, D \in (With(-(-v)) \ B) \cap core :
          /\ Resolved(C, D, gate) /\ Meets(C, D, -v)
          /\ -v \notin Resolvent(C, D, -v) /\ -(-v) \notin Resolvent(C, D, -v)
          => Sat(A0, Resolvent(C, D, -v))
    BY <1>1, <1>8, SymmetricResolvent
  <2>2. IsModel(A0, core \ (With(-v) \cup With(-(-v))))
    BY <1>1, <1>7 DEF IsModel
  <2>3. Holds(A0, -(-v)) /\ (B = {} \/ B = Blocked(-v, gate) \cup Blocked(-(-v), gate))
    BY <1>1, <1>6
  <2>4. IsModel(MadeTrue(A0, -v), core \ B)
    BY <1>1, <1>2, <1>10, <2>1, <2>2, <2>3, EliminatedMeans
  <2>5. QED
    BY <1>4, <1>10, <2>4
<1>11. QED
  BY <1>9, <1>10

LEMMA ResolventTyped ==
    ASSUME NEW C \in Clause, NEW D \in Clause, NEW l
    PROVE  Resolvent(C, D, l) \in Clause
BY DEF Resolvent, Clause

LEMMA ResolventsTyped ==
    ASSUME NEW P \in Formula, NEW N \in Formula, NEW v, NEW gate
    PROVE  ResolventsOf(P, N, v, gate) \in Formula
<1>1. ASSUME NEW R \in ResolventsOf(P, N, v, gate) PROVE R \in Clause
  <2>1. PICK p \in P \X N : R = Resolvent(p[1], p[2], v)
    BY DEF ResolventsOf
  <2>2. p[1] \in Clause /\ p[2] \in Clause
    BY DEF Formula
  <2>3. QED
    BY <2>1, <2>2, ResolventTyped
<1>2. QED
  BY <1>1 DEF Formula

LEMMA LearntResolventsTyped ==
    ASSUME Typed, NEW P, NEW N, NEW v, NEW gate, NEW parents
    PROVE  LearntResolvents(P, N, v, gate, parents) \in Formula
<1>1. \A S : S \cap learnts \in Formula /\ S \cap core \in Formula
  BY DEF Typed, Formula
<1>2. /\ ResolventsOf(P \cap learnts, N \cap core, v, gate) \in Formula
      /\ ResolventsOf(P \cap core, N \cap learnts, v, gate) \in Formula
      /\ ResolventsOf(P \cap learnts, N \cap learnts, v, gate) \in Formula
  BY <1>1, ResolventsTyped
<1>3. QED
  BY <1>2 DEF LearntResolvents, Formula

\* The clauses that were blocked are stacked below those of the elimination.
LEMMA EliminateGood ==
    ASSUME Typed, NEW v \in Vars, Eliminate(v)
    PROVE  GoodStep
<1>1. v \in Open \ Frozen
  BY DEF Eliminate, Candidate
<1>2. PICK gate \in Definitions(v), removesBlocked \in BOOLEAN, parents \in 0..2 :
        LET B  == IF removesBlocked THEN Blocked(v, gate) \cup Blocked(-v, gate) ELSE {}
            P  == With(v) \ B
            N  == With(-v) \ B
            Gone == With(v) \cup With(-v)
        IN  /\ Become((core \ Gone) \cup ResolventsOf(P \cap core, N \cap core, v, gate),
                      (learnts \ Gone) \cup LearntResolvents(P, N, v, gate, parents), {})
            /\ Push(Entries(B \cap With(v) \cap core, v) \o Entries(B \cap With(-v) \cap core, -v) \o StackOf(N, v))
            /\ UNCHANGED fresh
  BY DEF Eliminate
<1> DEFINE B == IF removesBlocked THEN Blocked(v, gate) \cup Blocked(-v, gate) ELSE {}
           P == With(v) \ B
           N == With(-v) \ B
           Gone == With(v) \cup With(-v)
           K == (core \ Gone) \cup ResolventsOf(P \cap core, N \cap core, v, gate)
           L == (learnts \ Gone) \cup LearntResolvents(P, N, v, gate, parents)
           S1 == B \cap With(v) \cap core
           S2 == B \cap With(-v) \cap core
           E1 == Entries(S1, v) \o Entries(S2, -v)
           E2 == StackOf(N, v)
<1>3. Become(K, L, {}) /\ Push(E1 \o E2) /\ UNCHANGED fresh
  BY <1>2
<1>4. B = {} \/ B = Blocked(v, gate) \cup Blocked(-v, gate)
  OBVIOUS
<1>5. v \in Lits /\ -v \in Lits /\ v # -v /\ -(-v) = v /\ v \in Int /\ v # 0
  BY <1>1, CandidateFacts, LitFacts
<1>6. K \in Formula /\ L \in Formula
  <2>1. P \cap core \in Formula /\ N \cap core \in Formula
    BY DEF Typed, Formula
  <2>2. ResolventsOf(P \cap core, N \cap core, v, gate) \in Formula
        /\ LearntResolvents(P, N, v, gate, parents) \in Formula
    BY <2>1, ResolventsTyped, LearntResolventsTyped
  <2>3. QED
    BY <2>2 DEF Typed, Formula
<1>7. S1 \in Formula /\ S2 \in Formula /\ (\A C \in S1 : v \in C) /\ (\A C \in S2 : -v \in C)
  BY DEF Typed, Formula, With
<1>8. N \cap core \in Formula /\ (\A C \in N \cap core : -v \in C)
  BY DEF Typed, Formula, With
<1> HIDE DEF B
<1>9. Pushable(E1) /\ \A A : IsModel(A, core \ B) => IsModel(Undone(E1, A), core)
  <2>1. CASE B = {}
    <3>1. S1 = {} /\ S2 = {} /\ core \ B = core
      BY <2>1
    <3>2. Pushable(Entries(S1, v)) /\ Pushable(Entries(S2, -v))
      BY <1>1, <1>7, CandidateFacts, PushableEntries
    <3>3. \A A : Undone(Entries(S1, v), A) = A /\ Undone(Entries(S2, -v), A) = A
      BY <1>1, <1>7, <3>1, CandidateFacts, PushableEntries DEF IsModel
    <3> HIDE DEF S1, S2
    <3>4. Pushable(E1) /\ \A A : Undone(E1, A) = Undone(Entries(S1, v), Undone(Entries(S2, -v), A))
      BY <3>2, PushableConcat
    <3>5. QED
      BY <3>1, <3>3, <3>4
  <2>2. CASE B = Blocked(v, gate) \cup Blocked(-v, gate)
    <3>1. \A A, C : v \in C /\ -v \in C => Sat(A, C)
      BY <1>5, HoldsFlip DEF Sat
    <3>2. ASSUME NEW A
          PROVE  /\ IsModel(A, S1) <=> IsModel(A, Blocked(v, gate) \cap core)
                 /\ IsModel(A, S2) <=> IsModel(A, Blocked(-v, gate) \cap core)
      <4>1. Blocked(v, gate) \subseteq With(v) /\ Blocked(-v, gate) \subseteq With(-v)
        BY DEF Blocked
      <4>2. \A C \in With(v) \cap With(-v) : Sat(A, C)
        BY <3>1 DEF With
      <4>3. QED
        BY <2>2, <4>1, <4>2 DEF IsModel
    <3> HIDE DEF S1, S2
    <3>3. QED
      BY <1>1, <1>7, <2>2, <3>2, BlockedUndone
  <2>3. QED
    BY <1>4, <2>1, <2>2
<1>10. Pushable(E2)
  BY <1>1, <1>8, StackUndone DEF StackOf
<1>11. ASSUME NEW A, Model(A, K, {} \cup units) PROVE IsModel(Undone(E1 \o E2, A), core)
  <2>1. IsModel(A, core \ Gone) /\ IsModel(A, ResolventsOf(P \cap core, N \cap core, v, gate))
    BY <1>11 DEF Model, IsModel
  <2>2. IsModel(Undone(E2, A), core \ B)
    BY <1>1, <1>4, <2>1, EliminationUndone
  <2> HIDE DEF E1, E2
  <2>3. Undone(E1 \o E2, A) = Undone(E1, Undone(E2, A))
    BY <1>9, <1>10, PushableConcat
  <2>4. QED
    BY <1>9, <2>2, <2>3
<1>12. Pushable(E1 \o E2)
  BY <1>9, <1>10, PushableConcat
<1> DEFINE EE == E1 \o E2
<1> HIDE DEF K, L, E1, E2, EE
<1>13. Become(K, L, {}) /\ Push(EE) /\ UNCHANGED fresh /\ Pushable(EE) /\ {} \in SUBSET Lits
       /\ \A A : Model(A, K, {} \cup units) => IsModel(Undone(EE, A), core)
  BY <1>3, <1>11, <1>12 DEF EE
<1>14. QED
  BY <1>6, <1>13, PushingGood

LEMMA EliminationGood ==
    ASSUME Typed, EliminationNext
    PROVE  GoodStep
<1>1. ASSUME NEW v \in Vars, UnitResolvent(v) PROVE GoodStep
  <2>1. PICK C \in With(v), D \in With(-v) : Rewrite(core, learnts, Resolvent(C, D, v))
    BY <1>1 DEF UnitResolvent
  <2>2. Resolvent(C, D, v) \in SUBSET Lits
    BY AllTyped, ResolventTyped DEF With, Clause
  <2>3. core \in Formula /\ learnts \in Formula /\ Strengthens(core, core)
    BY DEF Typed, Strengthens
  <2>4. QED
    BY <2>1, <2>2, <2>3, StrengtheningGood
<1>2. QED
  BY <1>1, RemoveBlockedGood, EliminateGood DEF EliminationNext

-----------------------------------------------------------------------------
(* Blocked and covered clauses *)

LEMMA FreeFacts ==
    ASSUME NEW l \in Lits, Free(l)
    PROVE  Flippable(l)
BY DEF Free, Flippable

\* The same formula, with what a step may leave out of it.
LEMMA SameFormula ==
    ASSUME Typed
    PROVE  /\ core \in Formula /\ learnts \in Formula /\ {} \in SUBSET Lits /\ Strengthens(core, core)
           /\ \A S : core \ S \in Formula /\ learnts \ S \in Formula
           /\ \A S \in SUBSET learnts : S \in Formula
BY DEF Typed, Strengthens, Formula

\* C is pushed with l: a model of what is left, in which C is false, has l flipped.  That is
\* right if every other clause with -l stays true.
LEMMA OneEntry ==
    ASSUME Typed, NEW K \in Formula, NEW L \in Formula, NEW C \in Clause, NEW l \in C, Free(l),
           \A A : IsModel(A, K) => IsModel(A, core \ {C}),
           \A A : \A D \in core : IsModel(A, K) /\ ~ Sat(A, C) /\ -l \in D /\ l \notin D
                              => \E k \in D \ {-l} : Holds(A, k),
           Become(K, L, {}), Push(<< [lit |-> l, clause |-> C] >>), UNCHANGED fresh
    PROVE  GoodStep
<1>1. l \in Lits /\ Flippable(l) /\ l \in Int /\ l # 0
  BY FreeFacts, LitFacts DEF Clause
<1> DEFINE E == << [lit |-> l, clause |-> C] >>
<1>2. \A A : Pushable(E) /\ Undone(E, A) = IF Sat(A, C) THEN A ELSE MadeTrue(A, l)
  BY <1>1, PushableOne
<1>3. \A D \in core : D \in Clause /\ \A k \in D : k \in Int /\ k # 0
  BY LitFacts DEF Typed, Formula, Clause
<1>4. ASSUME NEW A, IsModel(A, K) PROVE IsModel(Undone(E, A), core)
  <2>1. IsModel(A, core \ {C})
    BY <1>4
  <2>2. CASE Sat(A, C)
    BY <2>1, <2>2, <1>2 DEF IsModel
  <2>3. CASE ~ Sat(A, C)
    <3>1. SUFFICES ASSUME NEW D \in core PROVE Sat(MadeTrue(A, l), D)
      BY <2>3, <1>2 DEF IsModel
    <3>2. CASE l \in D
      BY <3>2, <1>1, MadeTrueHolds DEF Sat
    <3>3. CASE l \notin D /\ -l \in D
      <4>1. PICK k \in D \ {-l} : Holds(A, k)
        BY <1>4, <2>3, <3>3
      <4>2. QED
        BY <4>1, <1>1, <1>3, MadeTrueHolds DEF Sat
    <3>4. CASE l \notin D /\ -l \notin D
      <4>1. Sat(A, D)
        BY <2>1, <3>4 DEF IsModel
      <4>2. QED
        BY <4>1, <3>4, <1>1, <1>3, FlipStays
    <3>5. QED
      BY <3>2, <3>3, <3>4
  <2>4. QED
    BY <2>2, <2>3
<1>5. \A A : Model(A, K, {} \cup units) => IsModel(Undone(E, A), core)
  BY <1>4 DEF Model
<1>6. Push(E) /\ Pushable(E)
  BY <1>2
<1> HIDE DEF E
<1>7. QED
  BY <1>5, <1>6, PushingGood

LEMMA BlockedClauseGood ==
    ASSUME Typed, NEW C \in All, NEW l \in C, BlockedClause(C, l)
    PROVE  GoodStep
<1>1. C \in Clause /\ Free(l) /\ Proper(C, l) = {}
  BY AllTyped DEF BlockedClause, IsBlockedOn
<1>2. CASE /\ C \in core /\ Become(core \ {C}, learnts, {})
           /\ Push(<< [lit |-> l, clause |-> C] >>) /\ UNCHANGED fresh
  <2>1. ASSUME NEW A, NEW D \in core, ~ Sat(A, C), -l \in D
        PROVE  \E k \in D \ {-l} : Holds(A, k)
    <3>1. D \in With(-l)
      BY <2>1 DEF With, All
    <3>2. PICK k \in C \ {l} : -k \in D
      BY <3>1, <1>1 DEF Proper, Clashing
    <3>3. k \in Int /\ k # 0 /\ l \in Int /\ ~ Holds(A, k)
      BY <1>1, <2>1, LitFacts DEF Clause, Sat
    <3>4. Holds(A, -k) /\ -k # -l
      BY <3>2, <3>3, HoldsFlip
    <3>5. QED
      BY <3>2, <3>4
  <2>2. core \ {C} \in Formula /\ learnts \in Formula
    BY SameFormula
  <2>3. QED
    BY <1>1, <1>2, <2>1, <2>2, OneEntry
<1>3. CASE Rewrite(core, learnts \ {C}, {})
  BY <1>3, SameFormula, StrengtheningGood
<1>4. QED
  BY <1>2, <1>3 DEF BlockedClause

LEMMA MinimizeBlockedGood ==
    ASSUME Typed, NEW C \in All, NEW l \in C, MinimizeBlocked(C, l)
    PROVE  GoodStep
<1>1. Minimized(C, l) \subseteq C
  BY DEF Minimized, FirstClash, Clashing
<1>2. C \in Clause /\ Minimized(C, l) \in Clause
  BY <1>1, AllTyped DEF Clause
<1>3. CASE Rewrite((core \ {C}) \cup {Minimized(C, l)}, learnts, {})
  BY <1>1, <1>2, <1>3, SameFormula, InPlace, StrengtheningGood
<1>4. CASE Rewrite(core, (learnts \ {C}) \cup {Minimized(C, l)}, {})
  BY <1>1, <1>2, <1>4, SameFormula, InPlace, StrengtheningGood
<1>5. QED
  BY <1>3, <1>4 DEF MinimizeBlocked

LEMMA ShrinkCoveredGood ==
    ASSUME Typed, NEW C \in All, NEW l \in C, ShrinkCovered(C, l)
    PROVE  GoodStep
<1> DEFINE E == C \ CoveredIn(C, l)
           L == IF C \in core THEN With(-l) \cap learnts ELSE {}
<1>1. E \subseteq C /\ C \in Clause /\ E \in Clause
  BY AllTyped DEF Clause
<1>2. L \in Formula
  BY DEF Typed, Formula
<1>3. \/ Rewrite((core \ {C}) \cup {E} \cup L, learnts \ L, {})
      \/ Rewrite(core, (learnts \ {C}) \cup {E}, {})
  BY DEF ShrinkCovered
<1> HIDE DEF E, L
<1>4. CASE Rewrite((core \ {C}) \cup {E} \cup L, learnts \ L, {})
  <2>1. (core \ {C}) \cup {E} \in Formula /\ Strengthens((core \ {C}) \cup {E}, core)
    BY <1>1, SameFormula, InPlace
  <2>2. (core \ {C}) \cup {E} \cup L \in Formula /\ Strengthens((core \ {C}) \cup {E} \cup L, core)
    BY <2>1, <1>2 DEF Formula, Strengthens
  <2>3. QED
    BY <1>4, <2>2, SameFormula, StrengtheningGood
<1>5. CASE Rewrite(core, (learnts \ {C}) \cup {E}, {})
  BY <1>1, <1>5, SameFormula, InPlace, StrengtheningGood
<1>6. QED
  BY <1>3, <1>4, <1>5

\* Covered literals are added to C, which is pushed; it becomes a core clause.
LEMMA CoveringGood ==
    ASSUME Typed, NEW C \in All, NEW l \in C, Free(l), NEW X \in SUBSET SharedBy(C, l),
           \/ Become((core \ {C}) \cup {C \cup X}, learnts, {})
           \/ Become(core \cup {C \cup X}, learnts \ {C}, {}),
           Push(<< [lit |-> l, clause |-> C] >>), UNCHANGED fresh
    PROVE  GoodStep
<1>1. C \in Clause /\ l \in Lits /\ \A k \in Occurring : k \in Lits
  BY AllTyped DEF Occurring, Clause
<1>2. C \cup X \in Clause
  BY <1>1 DEF SharedBy, Clause
<1>3. ASSUME NEW A, Sat(A, C \cup X), ~ Sat(A, C), NEW D \in core, -l \in D
      PROVE  \E k \in D \ {-l} : Holds(A, k)
  <2>1. PICK k \in X : Holds(A, k)
    BY <1>3 DEF Sat
  <2>2. D \in With(-l)
    BY <1>3 DEF With, All
  <2>3. CASE D \in Proper(C, l)
    <3>1. k \in D /\ k # -l
      BY <2>3 DEF SharedBy
    <3>2. QED
      BY <3>1, <2>1
  <2>4. CASE D \notin Proper(C, l)
    <3>1. PICK j \in C \ {l} : -j \in D
      BY <2>2, <2>4 DEF Proper, Clashing
    <3>2. j \in Int /\ j # 0 /\ l \in Int /\ ~ Holds(A, j)
      BY <1>1, <1>3, LitFacts DEF Clause, Sat
    <3>3. Holds(A, -j) /\ -j # -l
      BY <3>1, <3>2, HoldsFlip
    <3>4. QED
      BY <3>1, <3>3
  <2>5. QED
    BY <2>3, <2>4
<1>4. CASE Become((core \ {C}) \cup {C \cup X}, learnts, {})
  <2> DEFINE K == (core \ {C}) \cup {C \cup X}
  <2>1. K \in Formula
    BY <1>2, SameFormula, FormulaOps
  <2>2. \A A : IsModel(A, K) => IsModel(A, core \ {C}) /\ Sat(A, C \cup X)
    BY DEF IsModel
  <2> HIDE DEF K
  <2>3. \A A : \A D \in core : IsModel(A, K) /\ ~ Sat(A, C) /\ -l \in D /\ l \notin D
                                  => \E k \in D \ {-l} : Holds(A, k)
    BY <1>3, <2>2
  <2>4. QED
    BY <1>1, <1>4, <2>1, <2>2, <2>3, SameFormula, OneEntry DEF K
<1>5. CASE Become(core \cup {C \cup X}, learnts \ {C}, {})
  <2> DEFINE K == core \cup {C \cup X}
  <2>1. K \in Formula
    BY <1>2, SameFormula, FormulaOps
  <2>2. \A A : IsModel(A, K) => IsModel(A, core \ {C}) /\ Sat(A, C \cup X)
    BY DEF IsModel
  <2> HIDE DEF K
  <2>3. \A A : \A D \in core : IsModel(A, K) /\ ~ Sat(A, C) /\ -l \in D /\ l \notin D
                                  => \E k \in D \ {-l} : Holds(A, k)
    BY <1>3, <2>2
  <2>4. QED
    BY <1>1, <1>5, <2>1, <2>2, <2>3, SameFormula, OneEntry DEF K
<1>6. QED
  BY <1>4, <1>5

LEMMA ExtendCoveredGood ==
    ASSUME Typed, NEW C \in All, NEW l \in C, ExtendCovered(C, l)
    PROVE  GoodStep
<1>1. /\ Free(l) /\ Push(<< [lit |-> l, clause |-> C] >>) /\ UNCHANGED fresh
      /\ \/ Become((core \ {C}) \cup {C \cup SharedBy(C, l)}, learnts, {})
         \/ Become(core \cup {C \cup SharedBy(C, l)}, learnts \ {C}, {})
  BY DEF ExtendCovered
<1>2. QED
  BY <1>1, CoveringGood

-----------------------------------------------------------------------------
(* Covered clause elimination *)

Widens(f, S, C) ==
    f[0] = S /\ \A n \in 1..2 * Cardinality(Open) : f[n] = f[n - 1] \cup AlaStep(f[n - 1], C)

LEMMA AlaStepwise ==
    ASSUME NEW S, NEW C
    PROVE  \E f : Widens(f, S, C) /\ Ala(S, C) = f[2 * Cardinality(Open)]
<1> DEFINE N == 2 * Cardinality(Open)
           X == SUBSET (S \cup {-k : k \in OpenLits})
           step == [p \in (1..N) \X X |-> p[2] \cup AlaStep(p[2], C)]
<1>1. N \in Nat
  BY OpenIsFinite
<1>2. IsStep(step, X, N)
  BY DEF IsStep, AlaStep
<1>3. S \in X
  OBVIOUS
<1>4. PICK f : IsIterate(f, X, N, S, step)
  <2> HIDE DEF step, X, N
  <2>1. QED
    BY <1>1, <1>2, <1>3, Iterates
<1>5. ASSUME NEW n \in 1..N PROVE f[n] = f[n - 1] \cup AlaStep(f[n - 1], C)
  <2>1. n - 1 \in 0..N /\ f[n - 1] \in X
    BY <1>1, <1>4 DEF IsIterate
  <2>2. QED
    BY <2>1, <1>4 DEF IsIterate
<1> DEFINE Round(g, n) == IF n = 0 THEN S
                          ELSE UNION {T \cup AlaStep(T, C) : T \in {g[n - 1]}}
<1>6. f = [n \in 0..N |-> Round(f, n)]
  <2>1. \A n \in 0..N : f[n] = Round(f, n)
    <3> HIDE DEF N
    <3>1. f[0] = Round(f, 0)
      BY <1>4 DEF IsIterate
    <3>2. ASSUME NEW n \in 1..N PROVE f[n] = Round(f, n)
      <4>1. n # 0
        BY <1>1
      <4>2. QED
        BY <4>1, <1>5
    <3>3. QED
      BY <3>1, <3>2, <1>1
  <2>2. f = [n \in 0..N |-> f[n]]
    BY <1>4 DEF IsIterate
  <2> HIDE DEF Round, N
  <2>3. QED
    BY <2>1, <2>2
<1> DEFINE after == CHOOSE g : g = [n \in 0..N |-> Round(g, n)]
<1>7. after = [n \in 0..N |-> Round(after, n)]
  BY <1>6
<1>8. Ala(S, C) = after[N]
  BY DEF Ala
<1>9. \A n \in 0..N : after[n] = Round(after, n)
  <2> HIDE DEF after
  <2>1. QED
    BY <1>7
<1> HIDE DEF after, N
<1>10. after[0] = S
  <2>1. 0 \in 0..N
    BY <1>1
  <2>2. QED
    BY <1>9, <2>1
<1>11. ASSUME NEW n \in 1..N PROVE after[n] = after[n - 1] \cup AlaStep(after[n - 1], C)
  <2>1. n \in 0..N /\ n # 0
    BY <1>1
  <2>2. after[n] = Round(after, n)
    BY <1>9, <2>1
  <2>3. Round(after, n) = after[n - 1] \cup AlaStep(after[n - 1], C)
    BY <2>1
  <2>4. QED
    BY <2>2, <2>3
<1>12. Widens(after, S, C) /\ Ala(S, C) = after[2 * Cardinality(Open)]
  BY <1>8, <1>10, <1>11 DEF N, Widens
<1>13. QED
  BY <1>12

\* Asymmetric literal addition adds literals only, which are false where those it began with
\* are false and the core clauses but C hold.
LEMMA AlaMeans ==
    ASSUME Typed, NEW S \in Clause, NEW C
    PROVE  /\ S \subseteq Ala(S, C) /\ Ala(S, C) \in Clause
           /\ \A A : IsModel(A, core \ {C}) /\ ~ Sat(A, S) => ~ Sat(A, Ala(S, C))
<1> DEFINE N == 2 * Cardinality(Open)
           Fine(X) == /\ S \subseteq X /\ X \in Clause
                      /\ \A A : IsModel(A, core \ {C}) /\ ~ Sat(A, S) => ~ Sat(A, X)
<1>1. N \in Nat
  BY OpenIsFinite
<1>2. PICK f : Widens(f, S, C) /\ Ala(S, C) = f[2 * Cardinality(Open)]
  BY AlaStepwise
<1> DEFINE T == {n \in 0..N : Fine(f[n])}
<1>3. 0 \in T
  BY <1>1, <1>2 DEF Widens
<1>4. ASSUME NEW n \in 1..N, n - 1 \in T PROVE n \in T
  <2> DEFINE X == f[n - 1]
  <2>1. Fine(X)
    BY <1>4
  <2>2. f[n] = X \cup AlaStep(X, C)
    BY <1>2 DEF Widens
  <2>3. \A k \in AlaStep(X, C) : k \in Lits
    BY OpenLitsFacts, LitFacts DEF AlaStep
  <2>4. ASSUME NEW A, IsModel(A, core \ {C}), ~ Sat(A, X), NEW k \in AlaStep(X, C)
        PROVE  ~ Holds(A, k)
    <3>1. PICK j \in OpenLits, D \in core \ {C} : k = -j /\ j \in D \ X /\ D \ {j} \subseteq X
      BY DEF AlaStep
    <3>2. Holds(A, j)
      BY <2>4, <3>1 DEF IsModel, Sat
    <3>3. QED
      BY <3>1, <3>2, OpenLitsFacts, LitFacts, HoldsFlip
  <2>5. f[n] \in Clause
    BY <2>1, <2>2, <2>3 DEF Clause
  <2>6. \A A : IsModel(A, core \ {C}) /\ ~ Sat(A, S) => ~ Sat(A, f[n])
    <3> SUFFICES ASSUME NEW A, IsModel(A, core \ {C}), ~ Sat(A, S) PROVE ~ Sat(A, f[n])
      OBVIOUS
    <3>1. ~ Sat(A, X)
      BY <2>1
    <3>2. QED
      BY <3>1, <2>2, <2>4 DEF Sat
  <2>7. S \subseteq f[n]
    BY <2>1, <2>2
  <2>8. n \in 0..N
    <3> HIDE DEF N
    <3>1. QED
      BY <1>1
  <2>9. Fine(f[n])
    BY <2>5, <2>6, <2>7
  <2> HIDE DEF Fine, N
  <2>10. QED
    BY <2>8, <2>9
<1>5. 0..N \subseteq T
  <2> HIDE DEF T, N
  <2>1. QED
    BY <1>1, <1>3, <1>4, Induction
<1>6. Fine(Ala(S, C))
  <2>1. N \in T
    BY <1>1, <1>5
  <2>2. QED
    BY <2>1, <1>2
<1>7. QED
  BY <1>6

\* A record of what C was extended to: the entries, undone, turn a model of it and of the
\* other core clauses into one of all core clauses.
Extension(C, x) ==
    /\ x.clause \in Clause /\ Pushable(x.entries)
    /\ \A A : IsModel(A, core \ {C}) /\ Sat(A, x.clause) => IsModel(Undone(x.entries, A), core)

\* One more entry: a literal of the clause that may be flipped, as all clauses with its
\* complement stay true.
LEMMA ExtensionUndone ==
    ASSUME Typed, NEW C, NEW x, Extension(C, x), NEW l \in x.clause, Free(l)
    PROVE  /\ Pushable(Append(x.entries, [lit |-> l, clause |-> x.clause]))
           /\ \A A : /\ IsModel(A, core \ {C})
                     /\ \/ Sat(A, x.clause)
                        \/ \A D \in With(-l) \cap core : \E k \in D \ {-l} :
                                Holds(A, k) \/ -k \in Ala(x.clause, C)
                     => IsModel(Undone(Append(x.entries, [lit |-> l, clause |-> x.clause]), A), core)
<1> DEFINE e == [lit |-> l, clause |-> x.clause]
<1>1. x.clause \in Clause /\ Pushable(x.entries) /\ l \in Lits /\ Flippable(l)
  BY FreeFacts DEF Extension, Clause
<1>2. Append(x.entries, e) = x.entries \o << e >>
  <2>1. x.entries \in Seq(Entry) /\ e \in Entry
    BY <1>1 DEF Pushable, Entry
  <2> HIDE DEF e
  <2>2. QED
    BY <2>1, AppendIsConcat
<1>3. \A A : Pushable(<< e >>) /\ Undone(<< e >>, A) = IF Sat(A, x.clause) THEN A ELSE MadeTrue(A, l)
  BY <1>1, PushableOne
<1>4. \A A : /\ Pushable(x.entries \o << e >>)
             /\ Undone(x.entries \o << e >>, A) = Undone(x.entries, Undone(<< e >>, A))
  <2> HIDE DEF e
  <2>1. QED
    BY <1>1, <1>3, PushableConcat
<1>5. ASSUME NEW A, IsModel(A, core \ {C}), ~ Sat(A, x.clause),
             \A D \in With(-l) \cap core : \E k \in D \ {-l} : Holds(A, k) \/ -k \in Ala(x.clause, C)
      PROVE  IsModel(Undone(x.entries, MadeTrue(A, l)), core)
  <2>1. ~ Sat(A, Ala(x.clause, C)) /\ Ala(x.clause, C) \in Clause
    BY <1>1, <1>5, AlaMeans
  <2>2. Sat(MadeTrue(A, l), x.clause)
    BY <1>1, LitFacts, MadeTrueHolds DEF Sat
  <2>3. ASSUME NEW D \in core \ {C} PROVE Sat(MadeTrue(A, l), D)
    <3>1. D \in Clause /\ Sat(A, D) /\ D \in All
      BY <1>5, AllTyped DEF IsModel, All
    <3>2. CASE -l \notin D
      BY <3>1, <3>2, <1>1, FlipStays
    <3>3. CASE -l \in D
      <4>1. PICK k \in D \ {-l} : Holds(A, k) \/ -k \in Ala(x.clause, C)
        BY <1>5, <3>1, <3>3 DEF With
      <4>2. k \in Lits
        BY <3>1 DEF Clause
      <4>3. Holds(A, k)
        BY <2>1, <4>1, <4>2, LitFacts, HoldsFlip DEF Sat
      <4>4. Holds(MadeTrue(A, l), k)
        BY <4>1, <4>2, <4>3, <1>1, LitFacts, MadeTrueHolds
      <4>5. QED
        BY <4>4 DEF Sat
    <3>4. QED
      BY <3>2, <3>3
  <2>4. IsModel(MadeTrue(A, l), core \ {C})
    BY <2>3 DEF IsModel
  <2>5. QED
    BY <2>2, <2>4 DEF Extension
<1>6. ASSUME NEW A, IsModel(A, core \ {C}), Sat(A, x.clause) PROVE IsModel(Undone(x.entries, A), core)
  BY <1>6 DEF Extension
<1> HIDE DEF e
<1>7. QED
  BY <1>2, <1>3, <1>4, <1>5, <1>6 DEF e

\* The records that one more literal gives.
Longer(C, X) ==
    {[clause |-> x[1].clause \cup SharedWith(Ala(x[1].clause, C), x[2]),
      entries |-> Append(x[1].entries, [lit |-> x[2], clause |-> x[1].clause])] :
        x \in {y \in X \X OpenLits :
                   LET T == Ala(y[1].clause, C)
                   IN  /\ y[2] \in y[1].clause /\ Free(y[2]) /\ ~ IsAsymmetric(T, C)
                       /\ HasPartner(T, y[2]) /\ SharedWith(T, y[2]) # {}}}
Start(C) == {[clause |-> C, entries |-> << >>]}

LEMMA ExtensionsAre ==
    ASSUME NEW C
    PROVE  Extensions(C, 2) = (Start(C) \cup Longer(C, Start(C)))
                              \cup Longer(C, Start(C) \cup Longer(C, Start(C)))
<1> DEFINE Next1(X) == X \cup Longer(C, X)
           f == [i \in 0..2 |-> IF i = 0 THEN Start(C) ELSE IF i = 1 THEN Next1(Start(C)) ELSE Next1(Next1(Start(C)))]
           Round(g, i) == IF i = 0 THEN Start(C) ELSE g[i - 1] \cup Longer(C, g[i - 1])
           after == CHOOSE g : g = [i \in 0..2 |-> Round(g, i)]
<1>1. f = [i \in 0..2 |-> Round(f, i)]
  <2>1. \A i \in 0..2 : i = 0 \/ i = 1 \/ i = 2
    OBVIOUS
  <2>2. f[0] = Start(C) /\ f[1] = Next1(Start(C)) /\ f[2] = Next1(Next1(Start(C)))
    OBVIOUS
  <2>3. Round(f, 0) = f[0] /\ Round(f, 1) = f[1] /\ Round(f, 2) = f[2]
    <3> HIDE DEF f
    <3>1. QED
      BY <2>2
  <2>4. \A i \in 0..2 : f[i] = Round(f, i)
    <3> HIDE DEF f, Round
    <3>1. QED
      BY <2>1, <2>3
  <2>5. f = [i \in 0..2 |-> f[i]]
    OBVIOUS
  <2> HIDE DEF f, Round
  <2>6. QED
    BY <2>4, <2>5
<1>2. after = [i \in 0..2 |-> Round(after, i)]
  <2> HIDE DEF f, Round
  <2>1. QED
    BY <1>1
<1>3. Extensions(C, 2) = after[2]
  BY DEF Extensions, Longer, Start
<1> HIDE DEF after
<1>4. after[0] = Round(after, 0) /\ after[1] = Round(after, 1) /\ after[2] = Round(after, 2)
  <2> HIDE DEF Round
  <2>1. QED
    BY <1>2
<1>5. after[0] = Start(C) /\ after[1] = after[0] \cup Longer(C, after[0])
                          /\ after[2] = after[1] \cup Longer(C, after[1])
  BY <1>4
<1>6. QED
  BY <1>3, <1>5

LEMMA ExtensionStep ==
    ASSUME Typed, NEW C, NEW X, \A x \in X : Extension(C, x)
    PROVE  \A x \in Longer(C, X) : Extension(C, x)
<1> SUFFICES ASSUME NEW z \in Longer(C, X) PROVE Extension(C, z)
  OBVIOUS
<1>1. PICK y \in X \X OpenLits :
        /\ y[2] \in y[1].clause /\ Free(y[2])
        /\ z = [clause |-> y[1].clause \cup SharedWith(Ala(y[1].clause, C), y[2]),
                entries |-> Append(y[1].entries, [lit |-> y[2], clause |-> y[1].clause])]
  BY DEF Longer
<1>2. PICK x, l : x = y[1] /\ l = y[2] /\ x \in X /\ l \in OpenLits
  OBVIOUS
<1> DEFINE T == Ala(x.clause, C)
           S == SharedWith(T, l)
           E == Append(x.entries, [lit |-> l, clause |-> x.clause])
<1>3. z = [clause |-> x.clause \cup S, entries |-> E] /\ l \in x.clause /\ Free(l)
  BY <1>1, <1>2
<1>4. Extension(C, x) /\ x.clause \in Clause
  BY <1>2 DEF Extension
<1>5. \A k \in S : k \in Lits /\ k # -l
  BY OpenLitsFacts DEF SharedWith
<1>6. \A D \in With(-l) \cap core : S \subseteq D \/ \E k \in D \ {-l} : -k \in T
  BY DEF SharedWith
<1>7. Pushable(E)
  BY <1>3, <1>4, ExtensionUndone
<1>8. ASSUME NEW A, IsModel(A, core \ {C}), Sat(A, x.clause \cup S)
      PROVE  IsModel(Undone(E, A), core)
  <2>1. CASE Sat(A, x.clause)
    BY <2>1, <1>3, <1>4, <1>8, ExtensionUndone
  <2>2. CASE ~ Sat(A, x.clause)
    <3>1. PICK k \in S : Holds(A, k)
      BY <2>2, <1>8 DEF Sat
    <3>2. \A D \in With(-l) \cap core : \E j \in D \ {-l} : Holds(A, j) \/ -j \in T
      BY <3>1, <1>5, <1>6
    <3>3. QED
      BY <3>2, <1>3, <1>4, <1>8, ExtensionUndone
  <2>3. QED
    BY <2>1, <2>2
<1>9. x.clause \cup S \in Clause
  BY <1>4, <1>5 DEF Clause
<1> HIDE DEF S, E
<1>10. z.clause = x.clause \cup S /\ z.entries = E
  BY <1>3
<1>11. QED
  BY <1>7, <1>8, <1>9, <1>10 DEF Extension

LEMMA ExtensionsMean ==
    ASSUME Typed, NEW C \in core
    PROVE  \A x \in Extensions(C, 2) : Extension(C, x)
<1>1. C \in Clause
  BY AllTyped DEF All
<1>2. \A x \in Start(C) : Extension(C, x)
  <2> DEFINE x == [clause |-> C, entries |-> << >>]
  <2>1. Pushable(<< >>) /\ \A A : Undone(<< >>, A) = A
    BY UndoneNone DEF Pushable
  <2>2. \A A : IsModel(A, core \ {C}) /\ Sat(A, C) => IsModel(A, core)
    BY DEF IsModel
  <2>3. Extension(C, x)
    BY <1>1, <2>1, <2>2 DEF Extension
  <2>4. QED
    BY <2>3 DEF Start
<1>3. \A x \in Start(C) \cup Longer(C, Start(C)) : Extension(C, x)
  BY <1>2, ExtensionStep
<1>4. \A x \in Longer(C, Start(C) \cup Longer(C, Start(C))) : Extension(C, x)
  BY <1>3, ExtensionStep
<1>5. QED
  BY <1>3, <1>4, ExtensionsAre

LEMMA CoveredClauseGood ==
    ASSUME Typed, NEW C \in core, CoveredClause(C)
    PROVE  GoodStep
<1>1. PICK x \in Extensions(C, 2) :
        LET T == Ala(x.clause, C)
        IN  /\ \/ IsAsymmetric(T, C) /\ Push(x.entries)
               \/ /\ ~ IsAsymmetric(T, C)
                  /\ \E l \in x.clause :
                        BlockedBy(T, l) /\ Push(Append(x.entries, [lit |-> l, clause |-> x.clause]))
            /\ Become(core \ {C}, learnts, {}) /\ UNCHANGED fresh
  BY DEF CoveredClause
<1> DEFINE T == Ala(x.clause, C)
<1>2. Extension(C, x) /\ x.clause \in Clause
  BY ExtensionsMean DEF Extension
<1>3. core \ {C} \in Formula /\ learnts \in Formula /\ {} \in SUBSET Lits
  BY SameFormula
<1>4. \A A : Model(A, core \ {C}, {} \cup units) => IsModel(A, core \ {C})
  BY DEF Model
<1>5. CASE IsAsymmetric(T, C) /\ Push(x.entries)
  <2>1. ASSUME NEW A, IsModel(A, core \ {C}) PROVE Sat(A, x.clause)
    <3> SUFFICES ASSUME ~ Sat(A, x.clause) PROVE FALSE
      OBVIOUS
    <3>1. ~ Sat(A, T) /\ T \in Clause
      BY <1>2, <2>1, AlaMeans
    <3>2. ~ Tautology(T)
      BY <3>1, FalseIsNoTautology DEF Sat
    <3>3. PICK D \in core \ {C} : D \subseteq T
      BY <1>5, <3>2 DEF IsAsymmetric
    <3>4. QED
      BY <2>1, <3>1, <3>3 DEF IsModel, Sat
  <2>2. \A A : Model(A, core \ {C}, {} \cup units) => IsModel(Undone(x.entries, A), core)
    BY <1>2, <1>4, <2>1 DEF Extension
  <2>3. Pushable(x.entries) /\ Push(x.entries) /\ Become(core \ {C}, learnts, {}) /\ UNCHANGED fresh
    BY <1>1, <1>2, <1>5 DEF Extension
  <2>4. QED
    BY <1>3, <2>2, <2>3, PushingGood
<1>6. ASSUME NEW l \in x.clause, BlockedBy(T, l), Push(Append(x.entries, [lit |-> l, clause |-> x.clause]))
      PROVE  GoodStep
  <2> DEFINE E == Append(x.entries, [lit |-> l, clause |-> x.clause])
  <2>1. Free(l) /\ \A D \in With(-l) \cap core : \E k \in D \ {-l} : -k \in T
    BY <1>6 DEF BlockedBy
  <2>2. Pushable(E)
    BY <1>2, <2>1, ExtensionUndone
  <2>3. \A A : Model(A, core \ {C}, {} \cup units) => IsModel(Undone(E, A), core)
    BY <1>2, <1>4, <2>1, ExtensionUndone
  <2>4. Push(E) /\ Become(core \ {C}, learnts, {}) /\ UNCHANGED fresh
    BY <1>1, <1>6
  <2> HIDE DEF E
  <2>5. QED
    BY <1>3, <2>2, <2>3, <2>4, PushingGood
<1>7. QED
  BY <1>1, <1>5, <1>6

-----------------------------------------------------------------------------
(* Hidden tautologies *)

LEMMA UnitsGood ==
    ASSUME Typed, NEW U \in SUBSET Lits, Rewrite(core, learnts, U)
    PROVE  GoodStep
BY SameFormula, StrengtheningGood

\* Clauses are added.
LEMMA AddingGood ==
    ASSUME Typed, NEW K \in Formula, NEW L \in Formula, NEW U \in SUBSET Lits,
           core \subseteq K, Rewrite(K, L, U)
    PROVE  GoodStep
<1>1. Strengthens(K, core)
  BY DEF Strengthens
<1>2. QED
  BY <1>1, StrengtheningGood

\* Something that learnt clauses are, and core clauses are not.
LEMMA LearntGood ==
    ASSUME Typed, NEW L \in Formula, NEW U \in SUBSET Lits, Rewrite(core, L, U)
    PROVE  GoodStep
BY SameFormula, StrengtheningGood

\* A long clause that the others make true is removed.
LEMMA HiddenGood ==
    ASSUME Typed, NEW C \in Clause, NEW i \in C, NEW j \in C, i # j,
           \/ i \in Reaches(core \ {C}, -j)
           \/ Cardinality(C) > 2 /\ i \in Reaches(core, -j),
           NEW L \in Formula, Rewrite(core \ {C}, L, {})
    PROVE  GoodStep
<1>1. core \ {C} \in Formula /\ {} \in SUBSET Lits
  BY SameFormula
<1>2. j \in C \cap Lits
  BY DEF Clause
<1>3. ASSUME NEW A, IsModel(A, core \ {C}) PROVE IsModel(A, core)
  <2>1. CASE i \in Reaches(core \ {C}, -j)
    <3>1. \A b \in Lits : \A c : Implies(core \ {C}, b, c) => Sat(A, {-b, c})
      BY <1>3 DEF Implies, IsModel
    <3>2. Sat(A, C)
      BY <1>2, <2>1, <3>1, HiddenMeans
    <3>3. QED
      BY <1>3, <3>2 DEF IsModel
  <2>2. CASE Cardinality(C) > 2 /\ i \in Reaches(core, -j)
    <3>1. ASSUME NEW b, NEW c, {-b, c} = C PROVE FALSE
      <4>1. Cardinality({-b, c}) \in 1..2
        BY PairIsSmall
      <4>2. Cardinality(C) \in 1..2
        BY <3>1, <4>1
      <4>3. QED
        BY <4>2, <2>2
    <3>2. \A b \in Lits : \A c : Implies(core, b, c) => Sat(A, {-b, c})
      BY <1>3, <3>1 DEF Implies, IsModel
    <3>3. Sat(A, C)
      BY <1>2, <2>2, <3>2, HiddenMeans
    <3>4. QED
      BY <1>3, <3>3 DEF IsModel
  <2>3. QED
    BY <2>1, <2>2
<1>4. \A A : Model(A, core \ {C}, {} \cup units) => IsModel(A, core)
  BY <1>3 DEF Model
<1>5. QED
  BY <1>1, <1>4, RewriteGood

LEMMA FailedLiteralGood ==
    ASSUME Typed, NEW i \in OpenLits, FailedLiteral(i)
    PROVE  GoodStep
<1>1. {i} \in SUBSET Lits /\ Rewrite(core, learnts, {i})
  BY OpenLitsFacts DEF FailedLiteral
<1>2. QED
  BY <1>1, UnitsGood

LEMMA TransitiveGood ==
    ASSUME Typed, NEW C \in All, Transitive(C)
    PROVE  GoodStep
<1>1. C \in Clause
  BY AllTyped
<1>2. learnts \ {C} \in Formula /\ learnts \in Formula /\ {} \in SUBSET Lits
  BY SameFormula
<1>3. PICK i, j \in C : i # j /\ i \in Reaches(core \ {C}, -j)
  BY DEF Transitive
<1>4. CASE Rewrite(core \ {C}, learnts, {})
  BY <1>1, <1>2, <1>3, <1>4, HiddenGood
<1>5. CASE Rewrite(core, learnts \ {C}, {})
  BY <1>2, <1>5, LearntGood
<1>6. QED
  BY <1>4, <1>5 DEF Transitive

LEMMA HiddenTautologyGood ==
    ASSUME Typed, NEW C \in All, HiddenTautology(C)
    PROVE  GoodStep
<1>1. C \in Clause /\ learnts \ {C} \in Formula
  BY AllTyped, SameFormula
<1>2. PICK i, j \in C : i # j /\ i \in Reaches(core, -j)
  BY DEF HiddenTautology
<1>3. Cardinality(C) > 2 /\ Rewrite(core \ {C}, learnts \ {C}, {})
  BY DEF HiddenTautology
<1>4. QED
  BY <1>1, <1>2, <1>3, HiddenGood

\* A part of C takes its place.
LEMMA InPlaceOfGood ==
    ASSUME Typed, NEW C \in All, NEW D \in SUBSET C,
           Rewrite(InPlaceOf(C, core, {D}), InPlaceOf(C, learnts, {D}), {})
    PROVE  GoodStep
<1>1. C \in Clause /\ D \in Clause
  BY AllTyped DEF Clause
<1>2. core \in Formula /\ learnts \in Formula /\ Strengthens(core, core) /\ {} \in SUBSET Lits
  BY SameFormula
<1>3. InPlaceOf(C, core, {D}) \in Formula /\ InPlaceOf(C, learnts, {D}) \in Formula
  BY <1>1, <1>2, InPlace DEF InPlaceOf
<1>4. Strengthens(InPlaceOf(C, core, {D}), core)
  BY <1>1, <1>2, InPlace DEF InPlaceOf
<1>5. QED
  BY <1>2, <1>3, <1>4, StrengtheningGood

LEMMA HiddenLiteralGood ==
    ASSUME Typed, NEW C \in All, NEW i \in C, NEW j \in C, HiddenLiteral(C, i, j)
    PROVE  GoodStep
<1>1. Rewrite(InPlaceOf(C, core, {C \ {j}}), InPlaceOf(C, learnts, {C \ {j}}), {})
  BY DEF HiddenLiteral
<1>2. C \ {j} \in SUBSET C
  OBVIOUS
<1>3. QED
  BY <1>1, <1>2, InPlaceOfGood

LEMMA ClauseEliminationGood ==
    ASSUME Typed, ClauseEliminationNext
    PROVE  GoodStep
<1>1. CASE \E C \in All : \E l \in C : BlockedClause(C, l)
  BY <1>1, BlockedClauseGood
<1>2. CASE \E C \in All : \E l \in C : MinimizeBlocked(C, l)
  BY <1>2, MinimizeBlockedGood
<1>3. CASE \E C \in All : \E l \in C : ShrinkCovered(C, l)
  BY <1>3, ShrinkCoveredGood
<1>4. CASE \E C \in All : \E l \in C : ExtendCovered(C, l)
  BY <1>4, ExtendCoveredGood
<1>5. CASE \E C \in core : CoveredClause(C)
  BY <1>5, CoveredClauseGood
<1>6. CASE \E C \in All : Transitive(C)
  BY <1>6, TransitiveGood
<1>7. CASE \E C \in All : HiddenTautology(C)
  BY <1>7, HiddenTautologyGood
<1>8. CASE \E C \in All : \E i, j \in C : HiddenLiteral(C, i, j)
  BY <1>8, HiddenLiteralGood
<1>9. CASE \E i \in OpenLits : FailedLiteral(i)
  BY <1>9, FailedLiteralGood
<1>10. QED
  BY <1>1, <1>2, <1>3, <1>4, <1>5, <1>6, <1>7, <1>8, <1>9 DEF ClauseEliminationNext

-----------------------------------------------------------------------------
(* Equivalent literals *)

LEMMA SameVariable ==
    ASSUME NEW k \in Lits, NEW l \in Lits, VarOf(k) = VarOf(l)
    PROVE  k = l \/ k = -l
<1>1. k \in Int /\ l \in Int
  BY LitFacts
<1>2. QED
  BY <1>1 DEF VarOf

\* A set of numbers has a least one.
LEMMA LeastOfNat ==
    ASSUME NEW S \in SUBSET Nat, S # {}
    PROVE  \E n \in S : \A m \in S : n <= m
<1> SUFFICES ASSUME \A n \in S : \E m \in S : ~ n <= m PROVE FALSE
  OBVIOUS
<1>1. PICK N \in S : TRUE
  OBVIOUS
<1> DEFINE T == {n \in 0..N : \A m \in S : m >= n}
<1>2. 0 \in T
  OBVIOUS
<1>3. ASSUME NEW n \in 1..N, n - 1 \in T PROVE n \in T
  <2>1. n \in 0..N /\ n \in Nat /\ \A m \in S : m >= n - 1
    BY <1>3
  <2>2. ASSUME NEW m \in S PROVE m >= n
    <3>1. PICK k \in S : ~ m <= k
      OBVIOUS
    <3>2. k >= n - 1 /\ k \in Nat /\ m \in Nat
      BY <2>1
    <3>3. QED
      BY <2>1, <3>1, <3>2
  <2>3. QED
    BY <2>1, <2>2
<1>4. 0..N \subseteq T
  <2> HIDE DEF T
  <2>1. QED
    BY <1>2, <1>3, Induction
<1>5. \A m \in S : m >= N
  BY <1>4
<1>6. PICK m \in S : ~ N <= m
  OBVIOUS
<1>7. QED
  BY <1>5, <1>6

\* A set of literals has a least one.
LEMMA LeastIn ==
    ASSUME NEW K \in SUBSET Lits, K # {}
    PROVE  Least(K) \in K
<1>1. \A l \in K : Index(l) \in Nat /\ Index(l) # 0
  <2> SUFFICES ASSUME NEW l \in K PROVE Index(l) \in Nat /\ Index(l) # 0
    OBVIOUS
  <2>1. VarOf(l) \in Nat /\ VarOf(l) # 0 /\ l \in Int
    BY LitFacts
  <2>2. QED
    BY <2>1 DEF Index
<1>2. \E l \in K : \A k \in K : Index(l) <= Index(k)
  <2> DEFINE S == {Index(l) : l \in K}
  <2>1. S \in SUBSET Nat /\ S # {}
    BY <1>1
  <2>2. PICK n \in S : \A m \in S : n <= m
    <3> HIDE DEF S
    <3>1. QED
      BY <2>1, LeastOfNat
  <2>3. QED
    BY <2>2
<1>3. QED
  BY <1>2 DEF Least

\* The entries, undone, give the literals of S the value of r and change no other variable.
Tied(E, S, r) ==
    /\ Pushable(E)
    /\ \A A : /\ \A l \in S : Holds(Undone(E, A), l) <=> Holds(A, r)
              /\ \A k \in Lits : (\A l \in S : VarOf(k) # VarOf(l)) => (Holds(Undone(E, A), k) <=> Holds(A, k))

LEMMA TwoAreConcat ==
    ASSUME NEW e, NEW d
    PROVE  << e, d >> = << e >> \o << d >>
<1> DEFINE S == {e, d}
           s == << e >>
           t == << d >>
           u == << e, d >>
<1>1. s \in Seq(S) /\ t \in Seq(S) /\ Len(s) = 1 /\ Len(t) = 1 /\ s[1] = e /\ t[1] = d
  OBVIOUS
<1>2. u \in Seq(S) /\ Len(u) = 2 /\ u[1] = e /\ u[2] = d
  OBVIOUS
<1> HIDE DEF S, s, t, u
<1>3. /\ s \o t \in Seq(S) /\ Len(s \o t) = Len(s) + Len(t)
      /\ \A i \in 1 .. Len(s) + Len(t) : (s \o t)[i] = IF i <= Len(s) THEN s[i] ELSE t[i - Len(s)]
  BY <1>1, ConcatProperties
<1>4. (s \o t)[1] = e /\ (s \o t)[2] = d
  BY <1>1, <1>3
<1>5. \A i \in 1..Len(u) : u[i] = (s \o t)[i]
  <2>1. \A i \in 1..2 : i = 1 \/ i = 2
    OBVIOUS
  <2>2. QED
    BY <2>1, <1>2, <1>4
<1>6. Len(u) = Len(s \o t)
  BY <1>1, <1>2, <1>3
<1>7. u = s \o t
  BY <1>2, <1>3, <1>5, <1>6, SeqEqual
<1>8. QED
  BY <1>7 DEF s, t, u

LEMMA TiedOne ==
    ASSUME NEW l, Flippable(l), NEW r \in Lits, VarOf(l) # VarOf(r)
    PROVE  Tied(EntriesOf(l, r), {l}, r)
<1>1. l \in Lits /\ -l \in Lits /\ -r \in Lits /\ VarOf(-l) = VarOf(l) /\ Flippable(-l) /\ VarOf(-r) = VarOf(r)
  BY LitFacts DEF Flippable
<1> DEFINE C == {l, -r}
           D == {-l, r}
           e == [lit |-> l, clause |-> C]
           d == [lit |-> -l, clause |-> D]
<1>2. C \in Clause /\ D \in Clause /\ l \in C /\ -l \in D
  BY <1>1 DEF Clause
<1>3. EntriesOf(l, r) = << e >> \o << d >>
  <2>1. EntriesOf(l, r) = << e, d >>
    BY DEF EntriesOf
  <2> HIDE DEF e, d
  <2>2. << e, d >> = << e >> \o << d >>
    BY TwoAreConcat
  <2>3. QED
    BY <2>1, <2>2
<1>4. \A A : /\ Pushable(<< e >>) /\ Pushable(<< d >>)
             /\ Undone(<< e >>, A) = IF Sat(A, C) THEN A ELSE MadeTrue(A, l)
             /\ Undone(<< d >>, A) = IF Sat(A, D) THEN A ELSE MadeTrue(A, -l)
  <2> HIDE DEF C, D
  <2>1. QED
    BY <1>1, <1>2, PushableOne
<1>5. \A A : /\ Pushable(<< e >> \o << d >>)
             /\ Undone(<< e >> \o << d >>, A) = Undone(<< e >>, Undone(<< d >>, A))
  <2> HIDE DEF e, d
  <2>1. QED
    BY <1>4, PushableConcat
<1>6. ASSUME NEW A
      PROVE  LET B == Undone(<< e >>, Undone(<< d >>, A))
             IN  /\ Holds(B, l) <=> Holds(A, r)
                 /\ \A k \in Lits : VarOf(k) # VarOf(l) => (Holds(B, k) <=> Holds(A, k))
  <2> DEFINE M == Undone(<< d >>, A)
             B == Undone(<< e >>, M)
  <2>1. l \in Int /\ l # 0 /\ -l \in Int /\ -l # 0 /\ r \in Int /\ r # 0 /\ -(-l) = l
    BY <1>1, LitFacts
  <2>2. \A X : (Holds(X, -l) <=> ~ Holds(X, l)) /\ (Holds(X, -r) <=> ~ Holds(X, r))
    BY <2>1, HoldsFlip
  <2>3. \A X : (Sat(X, C) <=> Holds(X, l) \/ ~ Holds(X, r)) /\ (Sat(X, D) <=> ~ Holds(X, l) \/ Holds(X, r))
    BY <2>2 DEF Sat
  <2>4. \A X : \A k \in Lits : VarOf(k) # VarOf(l) =>
            (Holds(MadeTrue(X, l), k) <=> Holds(X, k)) /\ (Holds(MadeTrue(X, -l), k) <=> Holds(X, k))
    BY <1>1, LitFacts, MadeTrueHolds
  <2>5. \A X : Holds(MadeTrue(X, l), l) /\ ~ Holds(MadeTrue(X, -l), l)
    BY <2>1, <2>2, MadeTrueHolds
  <2>6. M = IF Sat(A, D) THEN A ELSE MadeTrue(A, -l)
    BY <1>4
  <2>7. B = IF Sat(M, C) THEN M ELSE MadeTrue(M, l)
    BY <1>4
  <2> HIDE DEF M, B, C, D
  <2>8. \A k \in Lits : VarOf(k) # VarOf(l) => (Holds(M, k) <=> Holds(A, k)) /\ (Holds(B, k) <=> Holds(M, k))
    BY <2>4, <2>6, <2>7
  <2>9. Holds(M, r) <=> Holds(A, r)
    BY <2>8
  <2>10. CASE Holds(A, r)
    <3>1. M = A
      BY <2>3, <2>6, <2>10
    <3>2. Holds(B, l)
      BY <2>3, <2>5, <2>7, <2>9, <2>10, <3>1
    <3>3. QED
      BY <2>8, <2>10, <3>2 DEF B, M
  <2>11. CASE ~ Holds(A, r)
    <3>1. ~ Holds(M, l)
      BY <2>3, <2>5, <2>6, <2>11
    <3>2. B = M
      BY <2>3, <2>7, <2>9, <2>11
    <3>3. QED
      BY <2>8, <2>11, <3>1, <3>2 DEF B, M
  <2>12. QED
    BY <2>10, <2>11
<1> HIDE DEF e, d
<1>7. QED
  BY <1>3, <1>5, <1>6 DEF Tied

LEMMA TiedConcat ==
    ASSUME NEW E, NEW G, NEW S \in SUBSET Lits, NEW l \in Lits, NEW r \in Lits,
           Tied(E, S, r), Tied(G, {l}, r), -l \notin S, VarOf(l) # VarOf(r), \A k \in S : VarOf(k) # VarOf(r)
    PROVE  Tied(E \o G, S \cup {l}, r)
<1>1. \A A : Pushable(E \o G) /\ Undone(E \o G, A) = Undone(E, Undone(G, A))
  BY PushableConcat DEF Tied
<1>2. ASSUME NEW A
      PROVE  /\ \A k \in S \cup {l} : Holds(Undone(E \o G, A), k) <=> Holds(A, r)
             /\ \A k \in Lits : (\A j \in S \cup {l} : VarOf(k) # VarOf(j)) =>
                    (Holds(Undone(E \o G, A), k) <=> Holds(A, k))
  <2> DEFINE M == Undone(G, A)
             B == Undone(E, M)
  <2>1. Undone(E \o G, A) = B
    BY <1>1
  <2>2. /\ Holds(M, l) <=> Holds(A, r)
        /\ \A k \in Lits : VarOf(k) # VarOf(l) => (Holds(M, k) <=> Holds(A, k))
    BY DEF Tied
  <2>3. /\ \A k \in S : Holds(B, k) <=> Holds(M, r)
        /\ \A k \in Lits : (\A j \in S : VarOf(k) # VarOf(j)) => (Holds(B, k) <=> Holds(M, k))
    BY DEF Tied
  <2> HIDE DEF M, B
  <2>4. Holds(M, r) <=> Holds(A, r)
    BY <2>2
  <2>5. \A k \in S : Holds(B, k) <=> Holds(A, r)
    BY <2>3, <2>4
  <2>6. Holds(B, l) <=> Holds(A, r)
    <3>1. CASE l \in S
      BY <2>5, <3>1
    <3>2. CASE l \notin S
      <4>1. \A j \in S : VarOf(l) # VarOf(j)
        <5> SUFFICES ASSUME NEW j \in S, VarOf(l) = VarOf(j) PROVE FALSE
          OBVIOUS
        <5>1. j = l \/ j = -l
          BY SameVariable
        <5>2. QED
          BY <5>1, <3>2
      <4>2. QED
        BY <4>1, <2>2, <2>3
    <3>3. QED
      BY <3>1, <3>2
  <2>7. QED
    BY <2>1, <2>2, <2>3, <2>5, <2>6
<1>3. QED
  BY <1>1, <1>2 DEF Tied

\* The entries of one literal after the other, up to all of them.
Stacks(f, s, r) ==
    f[0] = << >> /\ \A i \in 1..Len(s) : f[i] = f[i - 1] \o EntriesOf(s[i], r)

ReplacedLits(K, r) == {l \in K \ {r} : {l, -l} \cap Occurring # {}}

LEMMA StackedStepwise ==
    ASSUME NEW K \in SUBSET Lits, NEW r \in Lits
    PROVE  LET s == SetToSeq(ReplacedLits(K, r))
           IN  \E f : Stacks(f, s, r) /\ Stacked(K, r) = f[Len(s)]
<1> DEFINE s == SetToSeq(ReplacedLits(K, r))
           N == Len(s)
           X == Seq(Entry)
           step == [p \in (1..N) \X X |-> p[2] \o EntriesOf(s[p[1]], r)]
<1>1. IsFiniteSet(ReplacedLits(K, r)) /\ ReplacedLits(K, r) \in SUBSET Lits
  BY LitsAreFinite DEF ReplacedLits
<1>2. s \in [1..Cardinality(ReplacedLits(K, r)) -> ReplacedLits(K, r)] /\ Cardinality(ReplacedLits(K, r)) \in Nat
  BY <1>1, SetToSeqIs
<1>3. N \in Nat /\ \A i \in 1..N : s[i] \in Lits
  <2> HIDE DEF s
  <2>1. N = Cardinality(ReplacedLits(K, r))
    BY <1>2
  <2>2. QED
    BY <1>1, <1>2, <2>1
<1>4. \A l \in Lits : EntriesOf(l, r) \in Seq(Entry)
  <2> SUFFICES ASSUME NEW l \in Lits PROVE EntriesOf(l, r) \in Seq(Entry)
    OBVIOUS
  <2>1. -l \in Lits /\ -r \in Lits
    BY LitFacts
  <2>2. [lit |-> l, clause |-> {l, -r}] \in Entry /\ [lit |-> -l, clause |-> {-l, r}] \in Entry
    BY <2>1 DEF Entry, Clause
  <2>3. QED
    BY <2>2 DEF EntriesOf
<1>5. IsStep(step, X, N)
  <2> SUFFICES ASSUME NEW n \in 1..N, NEW x \in X PROVE step[<<n, x>>] \in X
    BY DEF IsStep
  <2>1. EntriesOf(s[n], r) \in X
    BY <1>3, <1>4
  <2>2. step[<<n, x>>] = x \o EntriesOf(s[n], r)
    OBVIOUS
  <2>3. QED
    BY <2>1, <2>2, ConcatProperties
<1>6. << >> \in X
  OBVIOUS
<1>7. PICK f : IsIterate(f, X, N, << >>, step)
  <2> HIDE DEF step, X, N
  <2>1. QED
    BY <1>3, <1>5, <1>6, Iterates
<1>8. ASSUME NEW n \in 1..N PROVE f[n] = f[n - 1] \o EntriesOf(s[n], r)
  <2>1. n - 1 \in 0..N /\ f[n - 1] \in X
    <3> HIDE DEF N, X
    <3>1. QED
      BY <1>3, <1>7 DEF IsIterate
  <2>2. f[n] = step[<<n, f[n - 1]>>]
    BY <1>7 DEF IsIterate
  <2>3. QED
    BY <2>1, <2>2
<1> DEFINE Round(g, n) == IF n = 0 THEN << >> ELSE g[n - 1] \o EntriesOf(s[n], r)
<1>9. f = [n \in 0..N |-> Round(f, n)]
  <2>1. \A n \in 0..N : f[n] = Round(f, n)
    <3> HIDE DEF N, s
    <3>1. f[0] = Round(f, 0)
      BY <1>7 DEF IsIterate
    <3>2. ASSUME NEW n \in 1..N PROVE f[n] = Round(f, n)
      <4>1. n # 0
        BY <1>3
      <4>2. QED
        BY <4>1, <1>8
    <3>3. QED
      BY <3>1, <3>2, <1>3
  <2>2. f = [n \in 0..N |-> f[n]]
    BY <1>7 DEF IsIterate
  <2> HIDE DEF Round, N
  <2>3. QED
    BY <2>1, <2>2
<1> DEFINE after == CHOOSE g : g = [n \in 0..N |-> Round(g, n)]
<1>10. after = [n \in 0..N |-> Round(after, n)]
  BY <1>9
<1>11. Stacked(K, r) = after[N]
  BY DEF Stacked, ReplacedLits
<1>12. \A n \in 0..N : after[n] = Round(after, n)
  <2> HIDE DEF after, N, s
  <2>1. QED
    BY <1>10
<1> HIDE DEF after, N, s
<1>13. after[0] = << >>
  <2>1. 0 \in 0..N
    BY <1>3
  <2>2. QED
    BY <1>12, <2>1
<1>14. ASSUME NEW n \in 1..N PROVE after[n] = after[n - 1] \o EntriesOf(s[n], r)
  <2>1. n \in 0..N /\ n # 0
    BY <1>3
  <2>2. QED
    BY <1>12, <2>1
<1>15. Stacks(after, s, r) /\ Stacked(K, r) = after[Len(s)]
  BY <1>11, <1>13, <1>14 DEF N, Stacks
<1>16. QED
  BY <1>15 DEF s

\* All literals that are replaced and occur follow r.
LEMMA StackedTied ==
    ASSUME NEW K, NEW r \in K, \A l \in K : Flippable(l), \A l \in K : -l \notin K
    PROVE  Tied(Stacked(K, r), ReplacedLits(K, r), r)
<1> DEFINE R == ReplacedLits(K, r)
           s == SetToSeq(R)
           N == Cardinality(R)
<1>1. K \in SUBSET Lits /\ r \in Lits
  BY DEF Flippable
<1>2. IsFiniteSet(R) /\ R \in SUBSET K /\ r \notin R
  BY <1>1, LitsAreFinite DEF ReplacedLits
<1>3. s \in [1..N -> R] /\ N \in Nat /\ \A l \in R : \E i \in 1..N : s[i] = l
  <2> HIDE DEF R
  <2>1. QED
    BY <1>2, SetToSeqIs
<1>4. Len(s) = N
  <2> HIDE DEF s, R
  <2>1. QED
    BY <1>3
<1>5. PICK f : Stacks(f, s, r) /\ Stacked(K, r) = f[Len(s)]
  BY <1>1, StackedStepwise
<1>6. \A l \in R : VarOf(l) # VarOf(r)
  <2> SUFFICES ASSUME NEW l \in R, VarOf(l) = VarOf(r) PROVE FALSE
    OBVIOUS
  <2>1. l = r \/ l = -r
    BY <1>1, <1>2, SameVariable
  <2>2. QED
    BY <1>2, <2>1
<1> DEFINE Before(n) == {s[i] : i \in 1..n}
           T == {n \in 0..N : Tied(f[n], Before(n), r)}
<1> HIDE DEF R, s
<1>7. 0 \in T
  <2>1. f[0] = << >>
    BY <1>5 DEF Stacks
  <2>2. Before(0) = {}
    OBVIOUS
  <2>3. Pushable(<< >>) /\ \A A : Undone(<< >>, A) = A
    BY UndoneNone DEF Pushable
  <2>4. Tied(f[0], Before(0), r)
    <3> HIDE DEF Before
    <3>1. QED
      BY <2>1, <2>2, <2>3 DEF Tied
  <2>5. 0 \in 0..N
    <3> HIDE DEF N
    <3>1. QED
      BY <1>3
  <2> HIDE DEF Before, N
  <2>6. QED
    BY <2>4, <2>5
<1>8. ASSUME NEW n \in 1..N, n - 1 \in T PROVE n \in T
  <2> HIDE DEF N
  <2>1. Tied(f[n - 1], Before(n - 1), r)
    BY <1>8
  <2>2. f[n] = f[n - 1] \o EntriesOf(s[n], r)
    BY <1>4, <1>5 DEF Stacks
  <2>3. s[n] \in R /\ n \in 0..N
    BY <1>3
  <2>4. Before(n) = Before(n - 1) \cup {s[n]}
    <3>1. \A i \in 1..n : i \in 1..(n - 1) \/ i = n
      BY <1>3
    <3>2. \A i \in 1..(n - 1) : i \in 1..n
      BY <1>3
    <3>3. n \in 1..n
      BY <1>3
    <3>4. QED
      BY <3>1, <3>2, <3>3
  <2>5. Before(n - 1) \in SUBSET R
    <3>1. \A i \in 1..(n - 1) : i \in 1..N
      BY <1>3
    <3>2. QED
      BY <3>1, <1>3
  <2>6. Tied(EntriesOf(s[n], r), {s[n]}, r)
    BY <1>1, <1>2, <1>6, <2>3, TiedOne
  <2>7. -s[n] \notin Before(n - 1)
    BY <1>2, <2>3, <2>5
  <2> HIDE DEF Before
  <2>8. Tied(f[n - 1] \o EntriesOf(s[n], r), Before(n - 1) \cup {s[n]}, r)
    BY <1>1, <1>2, <1>6, <2>1, <2>3, <2>5, <2>6, <2>7, TiedConcat
  <2>9. QED
    BY <2>2, <2>3, <2>4, <2>8
<1>9. 0..N \subseteq T
  <2> HIDE DEF T, N
  <2>1. QED
    BY <1>3, <1>7, <1>8, Induction
<1>10. Tied(f[N], Before(N), r)
  <2> HIDE DEF Before, N
  <2>1. N \in 0..N
    BY <1>3
  <2>2. QED
    BY <1>9, <2>1
<1>11. Before(N) = R
  BY <1>3
<1>12. QED
  <2> HIDE DEF Before, N
  <2>1. QED
    BY <1>4, <1>5, <1>10, <1>11 DEF R

LEMMA ReplacedTyped ==
    ASSUME NEW F \in Formula, NEW K, NEW r \in Lits
    PROVE  ReplacedIn(F, K, r) \in Formula /\ \A C \in F : Replaced(C, K, r) \in Clause
<1>1. \A C \in F : C \in Clause
  BY DEF Formula
<1>2. \A l \in Lits : Replacement(l, K, r) \in Lits
  BY LitFacts DEF Replacement
<1>3. \A C \in F : Replaced(C, K, r) \in Clause
  BY <1>1, <1>2 DEF Replaced, Clause
<1>4. QED
  BY <1>3 DEF ReplacedIn, Formula

\* A model of a clause in which literals were replaced is one of the clause itself when the
\* literals follow the one that took their place.
LEMMA ReplacedMeans ==
    ASSUME Typed, NEW K, NEW r \in K, \A l \in K : Flippable(l), \A l \in K : -l \notin K,
           NEW E, Tied(E, ReplacedLits(K, r), r), NEW C \in core,
           NEW A, Sat(A, Replaced(C, K, r))
    PROVE  Sat(Undone(E, A), C)
<1> DEFINE R == ReplacedLits(K, r)
           B == Undone(E, A)
<1>1. C \in Clause /\ C \subseteq Occurring /\ K \in SUBSET Lits /\ r \in Lits
  BY AllTyped DEF All, Occurring, Flippable
<1>2. /\ \A l \in R : Holds(B, l) <=> Holds(A, r)
      /\ \A k \in Lits : (\A l \in R : VarOf(k) # VarOf(l)) => (Holds(B, k) <=> Holds(A, k))
  BY DEF Tied
<1>3. PICK l \in C : Holds(A, Replacement(l, K, r))
  BY DEF Sat, Replaced
<1>4. l \in Lits /\ l \in Occurring /\ -l \in Lits /\ -(-l) = l /\ VarOf(-l) = VarOf(l)
  BY <1>1, LitFacts DEF Clause
<1>5. \A X : /\ Holds(X, -l) <=> ~ Holds(X, l)
             /\ Holds(X, -r) <=> ~ Holds(X, r)
  BY <1>1, <1>4, LitFacts, HoldsFlip
<1>6. \A k \in R : k \in K /\ k # r /\ k \in Lits
  BY <1>1 DEF ReplacedLits
<1>7. Holds(B, r) <=> Holds(A, r)
  <2>1. \A k \in R : VarOf(r) # VarOf(k)
    <3> SUFFICES ASSUME NEW k \in R, VarOf(r) = VarOf(k) PROVE FALSE
      OBVIOUS
    <3>1. r = k \/ r = -k
      BY <1>1, <1>6, SameVariable
    <3>2. QED
      BY <1>6, <3>1
  <2> HIDE DEF B, R
  <2>2. QED
    BY <1>1, <1>2, <2>1
<1> HIDE DEF B
<1>8. CASE l \in K
  <2>1. Holds(A, r)
    BY <1>3, <1>8 DEF Replacement
  <2>2. l = r \/ l \in R
    BY <1>4, <1>8 DEF ReplacedLits
  <2>3. QED
    BY <1>2, <1>7, <2>1, <2>2 DEF Sat, B
<1>9. CASE -l \in K /\ l \notin K
  <2>1. ~ Holds(A, r)
    BY <1>3, <1>5, <1>9 DEF Replacement
  <2>2. -l = r \/ -l \in R
    BY <1>4, <1>9 DEF ReplacedLits
  <2>3. ~ Holds(B, -l)
    BY <1>2, <1>7, <2>1, <2>2
  <2>4. Holds(B, l)
    BY <1>5, <2>3
  <2>5. QED
    BY <2>4 DEF Sat, B
<1>10. CASE l \notin K /\ -l \notin K
  <2>1. Holds(A, l)
    BY <1>3, <1>10 DEF Replacement
  <2>2. \A k \in R : VarOf(l) # VarOf(k)
    <3> SUFFICES ASSUME NEW k \in R, VarOf(l) = VarOf(k) PROVE FALSE
      OBVIOUS
    <3>1. k = l \/ k = -l
      BY <1>4, <1>6, SameVariable
    <3>2. QED
      BY <1>6, <1>10, <3>1
  <2> HIDE DEF R
  <2>3. Holds(B, l)
    BY <1>2, <1>4, <2>1, <2>2
  <2>4. QED
    BY <2>3 DEF Sat, B
<1>11. QED
  BY <1>8, <1>9, <1>10

\* A class of literals that may be flipped: the entries make all of them equal again,
\* whatever the reason was for which they were taken to be.
LEMMA ApplyGood ==
    ASSUME Typed, NEW X \in SUBSET Lits, Apply(Unfrozen(X))
    PROVE  GoodStep
<1> DEFINE K == Unfrozen(X)
           r == Least(K)
<1>1. K \in SUBSET Lits /\ \A l \in K : Flippable(l)
  BY DEF Unfrozen, Flippable
<1>2. K # {}
  <2> SUFFICES ASSUME K = {} PROVE FALSE
    OBVIOUS
  <2>1. Cardinality({}) = 0
    BY FS_EmptySet
  <2>2. Cardinality(K) > 1
    BY DEF Apply
  <2> HIDE DEF K
  <2>3. QED
    BY <2>1, <2>2
<1>3. r \in K
  <2> HIDE DEF K
  <2>1. QED
    BY <1>1, <1>2, LeastIn
<1>4. CASE \E l \in K : -l \in K
  <2>1. Fail
    BY <1>4 DEF Apply
  <2>2. QED
    BY <2>1, FailGood
<1>5. CASE ~ \E l \in K : -l \in K
  <2> DEFINE KF == ReplacedIn(core, K, r)
             LF == ReplacedIn(learnts, K, r) \ ReplacedIn(core, K, r)
             E  == Stacked(K, r)
  <2>1. Become(KF, LF, {}) /\ Push(E) /\ UNCHANGED fresh
    BY <1>5 DEF Apply
  <2> HIDE DEF K, r
  <2>2. r \in Lits /\ core \in Formula /\ learnts \in Formula /\ {} \in SUBSET Lits
    BY <1>1, <1>3, SameFormula
  <2>3. KF \in Formula /\ LF \in Formula /\ \A C \in core : Replaced(C, K, r) \in Clause
    BY <2>2, ReplacedTyped DEF Formula
  <2>4. Tied(E, ReplacedLits(K, r), r)
    BY <1>1, <1>3, <1>5, StackedTied
  <2>5. ASSUME NEW A, Model(A, KF, {} \cup units) PROVE IsModel(Undone(E, A), core)
    <3> SUFFICES ASSUME NEW C \in core PROVE Sat(Undone(E, A), C)
      BY DEF IsModel
    <3>1. Sat(A, Replaced(C, K, r))
      <4>1. CASE Tautology(Replaced(C, K, r))
        BY <2>3, <4>1, FalseIsNoTautology DEF Sat
      <4>2. CASE ~ Tautology(Replaced(C, K, r))
        BY <2>5, <4>2 DEF ReplacedIn, Model, IsModel
      <4>3. QED
        BY <4>1, <4>2
    <3> HIDE DEF E
    <3>2. QED
      BY <1>1, <1>3, <1>5, <2>4, <3>1, ReplacedMeans
  <2>6. Pushable(E)
    BY <2>4 DEF Tied
  <2> HIDE DEF KF, LF, E
  <2>7. QED
    BY <2>1, <2>2, <2>3, <2>5, <2>6, PushingGood
<1>6. QED
  BY <1>4, <1>5

LEMMA ComponentTyped ==
    ASSUME NEW l \in OpenLits
    PROVE  Component(l) \in SUBSET Lits
BY OpenLitsFacts, ReachesType DEF Component

LEMMA GatesTyped ==
    ASSUME NEW g \in Gates2
    PROVE  g.out \in Lits /\ g.in \in SUBSET Lits
<1>1. ASSUME NEW h \in AndGates PROVE h.out \in Lits /\ h.in \in SUBSET Lits
  BY OpenLitsFacts DEF AndGates
<1>2. ASSUME g \in Split PROVE g.out \in Lits /\ g.in \in SUBSET Lits
  <2>1. PICK y \in AndGates \X AndGates \X OpenLits :
            g = [out |-> -y[3], in |-> {-y[1].out, -y[2].out}]
    BY <1>2 DEF Split
  <2>2. y[1] \in AndGates /\ y[2] \in AndGates /\ y[3] \in OpenLits
    OBVIOUS
  <2>3. -y[3] \in Lits /\ -y[1].out \in Lits /\ -y[2].out \in Lits
    BY <1>1, <2>2, OpenLitsFacts, LitFacts
  <2>4. QED
    BY <2>1, <2>3
<1>3. QED
  BY <1>1, <1>2 DEF Gates2

LEMMA GateGood ==
    ASSUME Typed, Gate
    PROVE  GoodStep
<1>1. PICK g \in Gates2, h \in Gates2 : EquivalentByGates(g, h) \/ UnitByGates(g, h)
  BY DEF Gate
<1>2. g.out \in Lits /\ g.in \in SUBSET Lits /\ h.out \in Lits /\ h.in \in SUBSET Lits
  BY GatesTyped
<1>3. CASE EquivalentByGates(g, h)
  <2>1. Apply(Unfrozen({g.out, h.out})) \/ Apply(Unfrozen(g.in \cup {g.out}))
    BY <1>3 DEF EquivalentByGates
  <2>2. {g.out, h.out} \in SUBSET Lits /\ g.in \cup {g.out} \in SUBSET Lits
    BY <1>2
  <2>3. QED
    BY <2>1, <2>2, ApplyGood
<1>4. CASE UnitByGates(g, h)
  <2>1. \/ \E a \in g.in : Rewrite(core, learnts, {a})
        \/ Rewrite(core, learnts, {-h.out})
    BY <1>4 DEF UnitByGates
  <2>2. -h.out \in Lits /\ \A a \in g.in : a \in Lits
    BY <1>2, LitFacts
  <2>3. {-h.out} \in SUBSET Lits /\ \A a \in g.in : {a} \in SUBSET Lits
    BY <2>2
  <2>4. QED
    BY <2>1, <2>3, UnitsGood
<1>5. QED
  BY <1>1, <1>3, <1>4

LEMMA EquivalencesGood ==
    ASSUME Typed, EquivalencesNext
    PROVE  GoodStep
<1>1. ASSUME NEW l \in OpenLits, EquivalentByBinaries(l) PROVE GoodStep
  BY <1>1, ComponentTyped, ApplyGood DEF EquivalentByBinaries
<1>2. ASSUME NEW l \in OpenLits, EquivalentByIteration(l) PROVE GoodStep
  BY <1>2, ComponentTyped, ApplyGood DEF EquivalentByIteration
<1>3. ASSUME NEW l \in OpenLits, NEW k \in OpenLits, CutOff(l, k) PROVE GoodStep
  <2>1. Component(l) \cup {k} \in SUBSET Lits
    BY ComponentTyped, OpenLitsFacts
  <2>2. Apply(Unfrozen(Component(l) \cup {k}))
    BY <1>3 DEF CutOff
  <2>3. QED
    BY <2>1, <2>2, ApplyGood
<1>4. ASSUME NEW l \in OpenLits, ContradictoryGate(l) PROVE GoodStep
  <2>1. {-l} \in SUBSET Lits /\ Rewrite(core, learnts, {-l})
    BY <1>4, OpenLitsFacts DEF ContradictoryGate
  <2>2. QED
    BY <2>1, UnitsGood
<1>5. ASSUME NEW l \in OpenLits, AddBlockedGate(l) PROVE GoodStep
  <2> DEFINE in == {k \in OpenLits : Implies(All, l, k)}
             K  == core \cup {Negated(in) \cup {l}}
  <2>1. Rewrite(K, learnts, {})
    BY <1>5 DEF AddBlockedGate
  <2>2. Negated(in) \cup {l} \in Clause
    BY OpenLitsFacts, LitFacts DEF Negated, Clause
  <2>3. K \in Formula /\ learnts \in Formula /\ {} \in SUBSET Lits /\ core \subseteq K
    <3> HIDE DEF in
    <3>1. QED
      BY <2>2, SameFormula, FormulaOps
  <2> HIDE DEF K
  <2>4. QED
    BY <2>1, <2>3, AddingGood
<1>6. QED
  BY <1>1, <1>2, <1>3, <1>4, <1>5, GateGood DEF EquivalencesNext
-----------------------------------------------------------------------------
(* Probing and vivification *)

LEMMA UpTyped ==
    ASSUME NEW F \in Formula, NEW U \in SUBSET Lits
    PROVE  Up(F, U) \in SUBSET Lits
<1>1. UNION F \in SUBSET Lits
  BY DEF Formula, Clause
<1>2. QED
  BY <1>1, UnitsFromGrows DEF Up

LEMMA AllIsFormula ==
    ASSUME Typed
    PROVE  /\ All \in Formula /\ core \subseteq All
           /\ \A S : All \ S \in Formula
           /\ \A v \in Open : v \in OpenLits /\ -v \in OpenLits /\ v \in Lits /\ -v \in Lits
BY OpenIsFinite DEF Typed, All, Formula, OpenLits, Lits

LEMMA NegatedTyped ==
    ASSUME NEW U \in SUBSET Lits
    PROVE  Negated(U) \in SUBSET Lits
BY LitFacts DEF Negated

LEMMA PairTyped ==
    ASSUME NEW k \in Lits, NEW l \in Lits
    PROVE  {k, l} \in Clause /\ {-k, l} \in Clause /\ {k, -l} \in Clause /\ {-k, -l} \in Clause
BY LitFacts DEF Clause

LEMMA KeepGood ==
    ASSUME Typed, NEW C \in Clause, Keep(C)
    PROVE  GoodStep
<1>1. core \cup {C} \in Formula /\ learnts \cup {C} \in Formula /\ learnts \in Formula /\ {} \in SUBSET Lits
  BY SameFormula, FormulaOps
<1>2. CASE Rewrite(core \cup {C}, learnts, {})
  BY <1>1, <1>2, AddingGood
<1>3. CASE Rewrite(core, learnts \cup {C}, {})
  BY <1>1, <1>3, LearntGood
<1>4. QED
  BY <1>2, <1>3 DEF Keep

LEMMA UnitsOfConflictGood ==
    ASSUME Typed, NEW l \in OpenLits, UnitsOfConflict(l)
    PROVE  GoodStep
<1>1. Up(All, {l}) \in SUBSET Lits
  BY AllIsFormula, OpenLitsFacts, UpTyped
<1>2. PICK U \in SUBSET Up(All, {l}) : Rewrite(core, learnts, Negated(U))
  BY DEF UnitsOfConflict
<1>3. Negated(U) \in SUBSET Lits
  BY <1>1, NegatedTyped
<1>4. QED
  BY <1>2, <1>3, UnitsGood

LEMMA NecessaryGood ==
    ASSUME Typed, NEW v \in Open, Necessary(v)
    PROVE  GoodStep
<1>1. Up(All, {v}) \in SUBSET Lits
  BY AllIsFormula, UpTyped
<1>2. Rewrite(core, learnts, Up(All, {v}) \cap Up(All, {-v}))
  BY DEF Necessary
<1>3. Up(All, {v}) \cap Up(All, {-v}) \in SUBSET Lits
  BY <1>1
<1>4. QED
  BY <1>2, <1>3, UnitsGood

LEMMA EquivalentByProbingGood ==
    ASSUME Typed, NEW v \in Open, EquivalentByProbing(v)
    PROVE  GoodStep
<1> DEFINE X == {-v} \cup {l \in Up(All, {-v}) : -l \in Up(All, {v})}
<1>1. Up(All, {-v}) \in SUBSET Lits /\ -v \in Lits
  BY AllIsFormula, UpTyped
<1>2. X \in SUBSET Lits
  BY <1>1
<1>3. Apply(Unfrozen(X))
  BY DEF EquivalentByProbing
<1> HIDE DEF X
<1>4. QED
  BY <1>2, <1>3, ApplyGood

LEMMA DoubleLookGood ==
    ASSUME Typed, NEW l \in OpenLits, NEW k \in OpenLits, DoubleLook(l, k)
    PROVE  GoodStep
<1>1. l \in Lits /\ k \in Lits /\ {l} \in SUBSET Lits /\ {l, k} \in SUBSET Lits
  BY OpenLitsFacts
<1>2. Up(All, {l}) \in SUBSET Lits /\ Up(All, {l, k}) \in SUBSET Lits
  BY <1>1, AllIsFormula, UpTyped
<1>3. \/ \E p \in Up(All, {l, k}), q \in Up(All, {l}) : Keep({-p, -q})
      \/ \E t \in Up(All, {l, k}) : Keep({-l, t})
  BY DEF DoubleLook
<1>4. QED
  BY <1>1, <1>2, <1>3, PairTyped, KeepGood

LEMMA HyperBinaryGood ==
    ASSUME Typed, NEW C \in All, NEW f \in OpenLits, NEW d \in OpenLits, HyperBinary(C, f, d)
    PROVE  GoodStep
<1> DEFINE S == IF -d \in C THEN {C} ELSE {}
           D == {f, -d}
<1>1. D \in Clause /\ f \in C /\ core \in Formula /\ learnts \in Formula /\ {} \in SUBSET Lits
  BY OpenLitsFacts, PairTyped, SameFormula DEF HyperBinary
<1>2. CASE Rewrite((core \ S) \cup {D}, learnts, {})
  <2>1. Strengthens((core \ S) \cup {D}, core)
    BY <1>1 DEF Strengthens
  <2>2. (core \ S) \cup {D} \in Formula
    <3> HIDE DEF S, D
    <3>1. QED
      BY <1>1, FormulaOps
  <2> HIDE DEF S, D
  <2>3. QED
    BY <1>1, <1>2, <2>1, <2>2, StrengtheningGood
<1>3. CASE Rewrite(core, (learnts \ S) \cup {D}, {}) \/ Rewrite(core, learnts \ S, {})
  <2> HIDE DEF S, D
  <2>1. (learnts \ S) \cup {D} \in Formula /\ learnts \ S \in Formula
    BY <1>1, FormulaOps
  <2>2. QED
    BY <1>1, <1>3, <2>1, LearntGood
<1>4. QED
  BY <1>2, <1>3 DEF HyperBinary

LEMMA VivifyGood ==
    ASSUME Typed, NEW C \in core, Vivify(C)
    PROVE  GoodStep
<1>1. PICK D \in SUBSET C : Rewrite((core \ {C}) \cup {D}, learnts, {})
  BY DEF Vivify, Vivified
<1>2. C \in Clause /\ D \in Clause /\ core \in Formula /\ learnts \in Formula /\ {} \in SUBSET Lits
  BY AllTyped, SameFormula DEF All, Clause
<1>3. QED
  BY <1>1, <1>2, InPlace, StrengtheningGood

LEMMA ProbingGood ==
    ASSUME Typed, ProbingNext
    PROVE  GoodStep
BY UnitsOfConflictGood, NecessaryGood, EquivalentByProbingGood, DoubleLookGood, HyperBinaryGood, VivifyGood
   DEF ProbingNext

-----------------------------------------------------------------------------
(* Unhiding *)

LEMMA UnhidingGood ==
    ASSUME Typed, UnhidingNext
    PROVE  GoodStep
<1>1. ASSUME NEW l \in OpenLits, FailedStamp(l) PROVE GoodStep
  <2>1. {-l} \in SUBSET Lits /\ Rewrite(core, learnts, {-l})
    BY <1>1, OpenLitsFacts DEF FailedStamp
  <2>2. QED
    BY <2>1, UnitsGood
<1>2. ASSUME NEW l \in OpenLits, StampClass(l) PROVE GoodStep
  <2>1. PICK K \in SUBSET Component(l) : Apply(Unfrozen(K))
    BY <1>2 DEF StampClass
  <2>2. K \in SUBSET Lits
    BY ComponentTyped
  <2>3. QED
    BY <2>1, <2>2, ApplyGood
<1>3. ASSUME NEW C \in core PROVE C \in Clause /\ C \in All /\ \A l \in C : l \in Lits
  BY AllTyped DEF All, Clause
<1>4. ASSUME NEW C \in core, TransitiveEdge(C) \/ RemoveTautology(C) PROVE GoodStep
  <2>1. PICK l \in C, k \in C : /\ k # l
                               /\ \/ k \in Reaches(core \ {C}, -l)
                                  \/ Cardinality(C) > 2 /\ k \in Reaches(core, -l)
    BY <1>4 DEF TransitiveEdge, RemoveTautology
  <2>2. Rewrite(core \ {C}, learnts, {}) /\ learnts \in Formula
    BY <1>4, SameFormula DEF TransitiveEdge, RemoveTautology
  <2>3. QED
    BY <1>3, <2>1, <2>2, HiddenGood
<1>5. ASSUME NEW C \in core, ImpliedByAll(C) PROVE GoodStep
  <2>1. PICK k \in OpenLits : Rewrite(core, learnts, {k})
    BY <1>5 DEF ImpliedByAll
  <2>2. {k} \in SUBSET Lits
    BY OpenLitsFacts
  <2>3. QED
    BY <2>1, <2>2, UnitsGood
<1>6. ASSUME NEW C \in core, Complementary(C) PROVE GoodStep
  <2>1. PICK a \in C, b \in C : Apply(Unfrozen({a, -b}))
    BY <1>6 DEF Complementary
  <2>2. {a, -b} \in SUBSET Lits
    BY <1>3, LitFacts
  <2>3. QED
    BY <2>1, <2>2, ApplyGood
<1>7. ASSUME NEW C \in core, NEW l \in C, RemoveHiddenLiteral(C, l) PROVE GoodStep
  <2>1. Rewrite((core \ {C}) \cup {C \ {l}}, learnts, {})
    BY <1>7 DEF RemoveHiddenLiteral
  <2>2. C \ {l} \in Clause /\ C \ {l} \subseteq C /\ core \in Formula /\ learnts \in Formula /\ {} \in SUBSET Lits
    BY <1>3, SameFormula DEF Clause
  <2>3. QED
    BY <2>1, <2>2, InPlace, StrengtheningGood
<1>8. ASSUME NEW C \in core, NEW l \in OpenLits, NEW k \in C, HyperBinaryClause(C, k, l) PROVE GoodStep
  <2>1. {l} \in SUBSET Lits /\ {k, l} \in Clause
    BY <1>3, OpenLitsFacts, PairTyped
  <2>2. core \cup {{k, l}} \in Formula /\ learnts \in Formula /\ {} \in SUBSET Lits
    BY <2>1, SameFormula, FormulaOps
  <2>3. Rewrite(core, learnts, {l}) \/ Rewrite(core \cup {{k, l}}, learnts, {})
    BY <1>8 DEF HyperBinaryClause
  <2>4. QED
    BY <2>1, <2>2, <2>3, UnitsGood, AddingGood
<1>9. QED
  BY <1>1, <1>2, <1>4, <1>5, <1>6, <1>7, <1>8 DEF UnhidingNext
-----------------------------------------------------------------------------
(* Implied clauses *)

LEMMA EntailedGood ==
    ASSUME Typed, NEW C \in core, NEW D \in core, Entailed(C, D)
    PROVE  GoodStep
<1>1. C \in Clause /\ D \in Clause /\ \A l \in C \cup D : l \in Lits
  BY AllTyped DEF All, Clause
<1>2. /\ core \ {C} \in Formula /\ core \ {D} \in Formula /\ learnts \in Formula /\ {} \in SUBSET Lits
      /\ C # D
  BY SameFormula DEF Entailed
<1>3. CASE D \subseteq C /\ Rewrite(core \ {C}, learnts, {})
  <2>1. Strengthens(core \ {C}, core)
    BY <1>2, <1>3 DEF Strengthens
  <2>2. QED
    BY <1>2, <1>3, <2>1, StrengtheningGood
<1>4. CASE C \subseteq D /\ Rewrite(core \ {D}, learnts, {})
  <2>1. Strengthens(core \ {D}, core)
    BY <1>2, <1>4 DEF Strengthens
  <2>2. QED
    BY <1>2, <1>4, <2>1, StrengtheningGood
<1>5. ASSUME NEW r \in D, D \ C = {r}, Completions(C, D, r) # {}, Rewrite(core \ {C}, learnts, {})
      PROVE  GoodStep
  <2>1. PICK E \in core \ {C, D} : E \subseteq C \cup {-r}
    BY <1>5 DEF Completions
  <2>2. ASSUME NEW A, IsModel(A, core \ {C}) PROVE IsModel(A, core)
    <3>1. Sat(A, D) /\ Sat(A, E)
      BY <1>2, <2>1, <2>2 DEF IsModel
    <3>2. Holds(A, -r) <=> ~ Holds(A, r)
      BY <1>1, LitFacts, HoldsFlip
    <3>3. Sat(A, C)
      <4>1. CASE Holds(A, r)
        BY <2>1, <3>1, <3>2, <4>1 DEF Sat
      <4>2. CASE ~ Holds(A, r)
        BY <1>5, <3>1, <4>2 DEF Sat
      <4>3. QED
        BY <4>1, <4>2
    <3>4. QED
      BY <2>2, <3>3 DEF IsModel
  <2>3. \A A : Model(A, core \ {C}, {} \cup units) => IsModel(A, core)
    BY <2>2 DEF Model
  <2>4. QED
    BY <1>2, <1>5, <2>3, RewriteGood
<1>6. QED
  BY <1>3, <1>4, <1>5 DEF Entailed

LEMMA ImpliedGood ==
    ASSUME Typed, ImpliedNext
    PROVE  GoodStep
<1>1. ASSUME NEW W, Communities(W) PROVE GoodStep
  <2>1. PICK k \in OpenLits, l \in OpenLits :
            Rewrite(core, learnts, {k}) \/ Rewrite(core \cup { {k, l} }, learnts, {})
    BY <1>1 DEF Communities
  <2>2. {k} \in SUBSET Lits /\ {k, l} \in Clause
    BY OpenLitsFacts, PairTyped
  <2>3. core \cup {{k, l}} \in Formula /\ learnts \in Formula /\ {} \in SUBSET Lits
    BY <2>2, SameFormula, FormulaOps
  <2>4. QED
    BY <2>1, <2>2, <2>3, UnitsGood, AddingGood
<1>2. ASSUME NEW k \in OpenLits, NEW l \in OpenLits, SymmetricPair(k, l) PROVE GoodStep
  <2>1. PICK L \in {learnts, {}} : Rewrite(core \cup { {-k, -l} }, L, {})
    BY <1>2 DEF SymmetricPair
  <2>2. {-k, -l} \in Clause
    BY OpenLitsFacts, PairTyped
  <2>3. core \cup {{-k, -l}} \in Formula /\ L \in Formula /\ {} \in SUBSET Lits
    BY <2>2, SameFormula, FormulaOps
  <2>4. QED
    BY <2>1, <2>3, AddingGood
<1>3. QED
  BY <1>1, <1>2, EntailedGood DEF ImpliedNext
-----------------------------------------------------------------------------
(* Clauses and literals that are added *)

LEMMA AddAsymmetricGood ==
    ASSUME Typed, NEW C \in All, NEW D \in All, AddAsymmetric(C, D)
    PROVE  GoodStep
<1>1. PICK e \in C \ D : C \ {e} \subseteq D /\ Rewrite((core \ {D}) \cup {D \cup {-e}}, learnts, {})
  BY DEF AddAsymmetric
<1>2. C \in core /\ D \in core /\ C # D /\ D \in Clause /\ e \in Lits
  BY AllTyped DEF AddAsymmetric, Clause
<1> DEFINE E == D \cup {-e}
           K == (core \ {D}) \cup {E}
<1>3. E \in Clause
  BY <1>2, LitFacts DEF Clause
<1>4. K \in Formula /\ learnts \in Formula /\ {} \in SUBSET Lits
  <2> HIDE DEF E
  <2>1. QED
    BY <1>3, SameFormula, FormulaOps
<1>5. ASSUME NEW A, IsModel(A, K) PROVE IsModel(A, core)
  <2>1. Sat(A, C) /\ Sat(A, E)
    BY <1>2, <1>5 DEF IsModel
  <2>2. Holds(A, -e) <=> ~ Holds(A, e)
    BY <1>2, LitFacts, HoldsFlip
  <2>3. Sat(A, D)
    BY <1>1, <2>1, <2>2 DEF Sat
  <2>4. QED
    BY <1>5, <2>3 DEF IsModel
<1>6. \A A : Model(A, K, {} \cup units) => IsModel(A, core)
  BY <1>5 DEF Model
<1>7. Rewrite(K, learnts, {})
  BY <1>1
<1> HIDE DEF K
<1>8. QED
  BY <1>4, <1>6, <1>7, RewriteGood

LEMMA AddCoveredGood ==
    ASSUME Typed, NEW C \in All, NEW l \in C, AddCovered(C, l)
    PROVE  GoodStep
<1>1. PICK X \in SUBSET SharedBy(C, l) :
        \/ Become((core \ {C}) \cup {C \cup X}, learnts, {})
        \/ Become(core \cup {C \cup X}, learnts \ {C}, {})
  BY DEF AddCovered
<1>2. Free(l) /\ Push(<< [lit |-> l, clause |-> C] >>) /\ UNCHANGED fresh
  BY DEF AddCovered
<1>3. QED
  BY <1>1, <1>2, CoveringGood

LEMMA TernaryResolveGood ==
    ASSUME Typed, "resolving learnts" \notin start.techniques,
           NEW v \in Open, NEW C \in With(v) \cap Sources, NEW D \in With(-v) \cap Sources, TernaryResolve(C, D, v)
    PROVE  GoodStep
<1> DEFINE R == Resolvent(C, D, v)
<1>1. C \in core /\ D \in core
  BY DEF Sources
<1>2. C \in Clause /\ D \in Clause
  BY <1>1, AllTyped DEF All
<1>3. R \in Clause /\ R \in SUBSET Lits
  BY <1>2, ResolventTyped DEF Clause
<1>4. \/ Rewrite(core, learnts, R)
      \/ Rewrite(Unsubsumed(core, R) \cup {R}, Unsubsumed(learnts, R), {})
  BY <1>1 DEF TernaryResolve
<1> HIDE DEF R
<1>5. Unsubsumed(core, R) \cup {R} \in Formula /\ Unsubsumed(learnts, R) \in Formula /\ {} \in SUBSET Lits
  <2>1. core \in Formula /\ learnts \in Formula
    BY SameFormula
  <2>2. QED
    BY <1>3, <2>1 DEF Unsubsumed, Formula
<1>6. Strengthens(Unsubsumed(core, R) \cup {R}, core)
  BY DEF Strengthens, Unsubsumed
<1>7. QED
  BY <1>3, <1>4, <1>5, <1>6, UnitsGood, StrengtheningGood

LEMMA AddRedundantBinaryGood ==
    ASSUME Typed, NEW a \in OpenLits, NEW b \in OpenLits, AddRedundantBinary(a, b)
    PROVE  GoodStep
<1>1. {b} \in SUBSET Lits /\ {-a, b} \in Clause
  BY OpenLitsFacts, PairTyped
<1>2. core \cup {{-a, b}} \in Formula /\ learnts \in Formula /\ {} \in SUBSET Lits
  BY <1>1, SameFormula, FormulaOps
<1>3. Rewrite(core, learnts, {b}) \/ Rewrite(core \cup {{-a, b}}, learnts, {})
  BY DEF AddRedundantBinary
<1>4. QED
  BY <1>1, <1>2, <1>3, UnitsGood, AddingGood

LEMMA ClauseAdditionGood ==
    ASSUME Typed, "resolving learnts" \notin start.techniques, ClauseAdditionNext
    PROVE  GoodStep
BY AddAsymmetricGood, AddCoveredGood, TernaryResolveGood, AddRedundantBinaryGood DEF ClauseAdditionNext
-----------------------------------------------------------------------------
(* Resolution asymmetric tautologies *)

\* A part of the clause C takes its place, in the part of the formula that C is in.
LEMMA PartGood ==
    ASSUME Typed, NEW C, NEW D \in SUBSET C,
           \/ C \in core /\ Rewrite((core \ {C}) \cup {D}, learnts, {})
           \/ C \in learnts /\ Rewrite(core, (learnts \ {C}) \cup {D}, {})
    PROVE  GoodStep
<1>1. C \in Clause
  BY AllTyped DEF All
<1>2. D \in Clause /\ core \in Formula /\ learnts \in Formula /\ {} \in SUBSET Lits
  BY <1>1, SameFormula DEF Clause
<1>3. CASE C \in core /\ Rewrite((core \ {C}) \cup {D}, learnts, {})
  BY <1>2, <1>3, InPlace, StrengtheningGood
<1>4. CASE C \in learnts /\ Rewrite(core, (learnts \ {C}) \cup {D}, {})
  <2>1. (learnts \ {C}) \cup {D} \in Formula
    BY <1>2, FormulaOps
  <2>2. QED
    BY <1>2, <1>4, <2>1, LearntGood
<1>5. QED
  BY <1>3, <1>4

LEMMA MinimizeRATGood ==
    ASSUME Typed, NEW C \in All, NEW l \in C, MinimizeRAT(C, l)
    PROVE  GoodStep
<1>1. l \in Lits /\ C \in core
  BY AllTyped DEF MinimizeRAT, Clause
<1>2. CASE Rewrite(core, learnts, {l})
  BY <1>1, <1>2, UnitsGood
<1>3. ASSUME NEW K \in SUBSET (C \ {l}), Rewrite((core \ {C}) \cup {K \cup {l}}, learnts, {})
      PROVE  GoodStep
  <2>1. K \cup {l} \in SUBSET C
    OBVIOUS
  <2>2. QED
    BY <1>1, <1>3, <2>1, PartGood
<1>4. QED
  BY <1>2, <1>3 DEF MinimizeRAT

LEMMA ShortenATGood ==
    ASSUME Typed, NEW D \in All, NEW l, -l \in D, ShortenAT(D, l)
    PROVE  GoodStep
<1>1. PICK S \in SUBSET (D \ {-l}) :
        \/ Rewrite(core, learnts, S)
        \/ D \in core /\ Rewrite((core \ {D}) \cup {S \cup {-l}}, learnts, {})
        \/ D \in learnts /\ Rewrite(core, (learnts \ {D}) \cup {S \cup {-l}}, {})
  BY DEF ShortenAT
<1>2. S \in SUBSET Lits /\ S \cup {-l} \in SUBSET D
  BY AllTyped
<1>3. QED
  BY <1>1, <1>2, UnitsGood, PartGood

LEMMA AsymmetricGood ==
    ASSUME Typed, {"rate", "bcs"} \cap start.techniques = {}, AsymmetricNext
    PROVE  GoodStep
<1>1. ASSUME NEW C, NEW l, EliminateRAT(C, l) PROVE GoodStep
  BY <1>1 DEF EliminateRAT, Uses
<1>2. ASSUME NEW C, NEW D, Substitute(C, D) PROVE GoodStep
  BY <1>2 DEF Substitute, Uses
<1>3. ASSUME NEW C \in All, NEW l \in C, ShortenAT(C, -l) PROVE GoodStep
  <2>1. -(-l) = l
    BY AllTyped, LitFacts
  <2>2. QED
    BY <1>3, <2>1, ShortenATGood
<1>4. QED
  BY <1>1, <1>2, <1>3, MinimizeRATGood DEF AsymmetricNext

-----------------------------------------------------------------------------
(* Bounded variable addition *)

LEMMA NextFresh ==
    ASSUME Typed, fresh # {}
    PROVE  NextFreshVariable \in Lits /\ -NextFreshVariable \in Lits
<1>1. fresh \in SUBSET Nat /\ fresh \in SUBSET Vars
  BY VarsAssumption DEF Typed
<1>2. \E x \in fresh : \A y \in fresh : x <= y
  BY <1>1, LeastOfNat
<1>3. NextFreshVariable \in fresh
  BY <1>2 DEF NextFreshVariable
<1>4. NextFreshVariable \in Lits
  BY <1>1, <1>3 DEF Lits
<1>5. QED
  BY <1>4, LitFacts

\* The part q that x stands for: r has it instead of x.
LEMMA ResolventMeans ==
    ASSUME NEW x \in Lits, NEW q, NEW r, NEW A, Sat(A, r \cup {x}), Sat(A, {-x} \cup q)
    PROVE  Sat(A, q \cup r)
<1>1. Holds(A, -x) <=> ~ Holds(A, x)
  BY LitFacts, HoldsFlip
<1>2. QED
  BY <1>1 DEF Sat

\* The clauses K give those that go.
LEMMA ExchangeGood ==
    ASSUME Typed, NEW S, NEW K \in Formula, NEW L \in Formula, NEW X,
           \A A : IsModel(A, K) => IsModel(A, S \cap core), Exchange(S, K, L, X)
    PROVE  GoodStep
<1>1. (core \ S) \cup K \in Formula /\ (learnts \ S) \cup L \in Formula
  BY DEF Typed, Formula
<1>2. ASSUME NEW A, IsModel(A, (core \ S) \cup K) PROVE IsModel(A, core)
  <2>1. IsModel(A, K) /\ IsModel(A, core \ S)
    BY <1>2 DEF IsModel
  <2>2. IsModel(A, S \cap core)
    BY <2>1
  <2>3. QED
    BY <2>1, <2>2 DEF IsModel
<1>3. \A A : Model(A, (core \ S) \cup K, {} \cup units) => IsModel(A, core)
  BY <1>2 DEF Model
<1>4. /\ Become((core \ S) \cup K, (learnts \ S) \cup L, {}) /\ undo' = undo
      /\ fresh' \in SUBSET Vars /\ {} \in SUBSET Lits
  BY DEF Exchange, Typed
<1>5. QED
  BY <1>1, <1>3, <1>4, BecomeGood

LEMMA ReplaceGood ==
    ASSUME Typed, NEW x \in Lits, NEW rows, DOMAIN rows \in Formula, NEW definition \in Formula,
           \A A : \A r \in DOMAIN rows : \A D \in rows[r] :
                IsModel(A, definition) /\ Sat(A, r \cup {x}) => Sat(A, D),
           Replace(x, rows, definition)
    PROVE  GoodStep
<1> DEFINE S == UNION {rows[r] : r \in DOMAIN rows}
           M == {r \cup {x} : r \in {s \in DOMAIN rows : OfCore(rows[s])}}
           K == M \cup definition
           L == {r \cup {x} : r \in {s \in DOMAIN rows : ~ OfCore(rows[s])}}
<1>1. \A r \in DOMAIN rows : r \cup {x} \in Clause
  BY DEF Formula, Clause
<1>2. K \in Formula /\ L \in Formula
  BY <1>1 DEF Formula
<1>3. ASSUME NEW A, IsModel(A, K), NEW D \in S \cap core PROVE Sat(A, D)
  <2>1. PICK r \in DOMAIN rows : D \in rows[r]
    OBVIOUS
  <2>2. OfCore(rows[r])
    BY <2>1 DEF OfCore
  <2>3. IsModel(A, definition) /\ Sat(A, r \cup {x})
    BY <1>3, <2>2 DEF IsModel
  <2>4. QED
    BY <2>1, <2>3
<1>4. \A A : IsModel(A, K) => IsModel(A, S \cap core)
  BY <1>3 DEF IsModel
<1>5. Exchange(S, K, L, {x})
  BY DEF Replace
<1> HIDE DEF S, K, L
<1>6. QED
  BY <1>2, <1>4, <1>5, ExchangeGood

LEMMA OccurringTyped ==
    ASSUME Typed
    PROVE  /\ Occurring \in SUBSET Lits
           /\ \A l \in Occurring : l \in Lits /\ -l \in Lits
           /\ SUBSET Occurring \in Formula
<1>1. Occurring \in SUBSET Lits
  BY AllTyped DEF Occurring
<1>2. QED
  BY <1>1, LitFacts DEF Formula, Clause

LEMMA AndAdditionGood ==
    ASSUME Typed, fresh # {}, NEW M \in SUBSET Occurring, AndAddition(M)
    PROVE  GoodStep
<1> DEFINE x == NextFreshVariable
           rows == [r \in RestsOfAll(M) |-> {{l} \cup r : l \in M}]
           definition == {{-x, l} : l \in M}
<1>1. x \in Lits /\ -x \in Lits /\ M \in SUBSET Lits
  BY NextFresh, OccurringTyped
<1>2. DOMAIN rows \in Formula
  BY OccurringTyped DEF RestsOfAll, Formula
<1>3. definition \in Formula
  BY <1>1 DEF Formula, Clause
<1>4. ASSUME NEW A, NEW r \in DOMAIN rows, NEW D \in rows[r], IsModel(A, definition), Sat(A, r \cup {x})
      PROVE  Sat(A, D)
  <2>1. PICK l \in M : D = {l} \cup r
    OBVIOUS
  <2>2. Sat(A, {-x} \cup {l})
    <3>1. {-x} \cup {l} = {-x, l}
      OBVIOUS
    <3>2. QED
      BY <1>4, <3>1 DEF IsModel
  <2>3. QED
    BY <1>1, <1>4, <2>1, <2>2, ResolventMeans
<1>5. Replace(x, rows, definition)
  BY DEF AndAddition
<1> HIDE DEF rows, definition, x
<1>6. QED
  BY <1>1, <1>2, <1>3, <1>4, <1>5, ReplaceGood

\* Two clauses, the common part of which the new variable x stands for.
PairRows(R, q1, q2) == [r \in R |-> {q1 \cup r, q2 \cup r}]

LEMMA PairGood ==
    ASSUME Typed, NEW x \in Lits, NEW R \in Formula, NEW q1 \in Clause, NEW q2 \in Clause,
           Replace(x, PairRows(R, q1, q2), {{-x} \cup q1, {-x} \cup q2})
    PROVE  GoodStep
<1> DEFINE rows == PairRows(R, q1, q2)
           definition == {{-x} \cup q1, {-x} \cup q2}
<1>1. DOMAIN rows = R /\ \A r \in R : rows[r] = {q1 \cup r, q2 \cup r}
  BY DEF PairRows
<1>2. definition \in Formula
  BY LitFacts DEF Formula, Clause
<1>3. ASSUME NEW A, NEW r \in R, NEW D \in rows[r], IsModel(A, definition), Sat(A, r \cup {x})
      PROVE  Sat(A, D)
  <2>1. Sat(A, {-x} \cup q1) /\ Sat(A, {-x} \cup q2)
    BY <1>3 DEF IsModel
  <2>2. Sat(A, q1 \cup r) /\ Sat(A, q2 \cup r)
    BY <1>3, <2>1, ResolventMeans
  <2>3. QED
    BY <1>1, <2>2
<1> HIDE DEF rows, definition
<1>4. Replace(x, rows, definition)
  BY DEF rows, definition
<1>5. QED
  BY <1>1, <1>2, <1>3, <1>4, ReplaceGood

LEMMA RestsOfPairTyped ==
    ASSUME Typed, NEW F, NEW C, NEW D
    PROVE  RestsOfPair(F, C, D) \in Formula
BY OccurringTyped DEF RestsOfPair, Formula

LEMMA HalfXorGood ==
    ASSUME Typed, fresh # {}, NEW a \in Occurring, NEW b \in Occurring, HalfXor(a, b)
    PROVE  GoodStep
<1> DEFINE x == NextFreshVariable
           R == RestsOfPair(All, {a, b}, {-a, -b})
<1>1. x \in Lits /\ R \in Formula /\ {a, b} \in Clause /\ {-a, -b} \in Clause
  BY NextFresh, RestsOfPairTyped, OccurringTyped, PairTyped
<1>2. {-x, a, b} = {-x} \cup {a, b} /\ {-x, -a, -b} = {-x} \cup {-a, -b}
  OBVIOUS
<1>3. Replace(x, PairRows(R, {a, b}, {-a, -b}), {{-x, a, b}, {-x, -a, -b}})
  BY DEF HalfXor, PairRows
<1> HIDE DEF x, R
<1>4. QED
  BY <1>1, <1>2, <1>3, PairGood

LEMMA HalfIteGood ==
    ASSUME Typed, fresh # {}, NEW s \in Occurring, NEW t \in Occurring, NEW f \in Occurring, HalfIte(s, t, f)
    PROVE  GoodStep
<1> DEFINE x == NextFreshVariable
           R == RestsOfPair(All, {s, f}, {-s, t})
<1>1. x \in Lits /\ R \in Formula /\ {s, f} \in Clause /\ {-s, t} \in Clause
  BY NextFresh, RestsOfPairTyped, OccurringTyped, PairTyped
<1>2. {-x, s, f} = {-x} \cup {s, f} /\ {-x, -s, t} = {-x} \cup {-s, t}
  OBVIOUS
<1>3. Replace(x, PairRows(R, {s, f}, {-s, t}), {{-x, s, f}, {-x, -s, t}})
  BY DEF HalfIte, PairRows
<1> HIDE DEF x, R
<1>4. QED
  BY <1>1, <1>2, <1>3, PairGood

\* Two parts that x stands for, and two that -x stands for.
LEMMA FirstPairMeans ==
    ASSUME NEW x \in Lits, NEW A, NEW q1, NEW q2, NEW r,
           Sat(A, {-x} \cup q1), Sat(A, {-x} \cup q2), Sat(A, {x} \cup r)
    PROVE  Sat(A, q1 \cup r) /\ Sat(A, q2 \cup r)
<1>1. Sat(A, r \cup {x})
  BY DEF Sat
<1>2. QED
  BY <1>1, ResolventMeans

LEMMA SecondPairMeans ==
    ASSUME NEW x \in Lits, NEW A, NEW q3, NEW q4, NEW r,
           Sat(A, {x} \cup q3), Sat(A, {x} \cup q4), Sat(A, {-x} \cup r)
    PROVE  Sat(A, q3 \cup r) /\ Sat(A, q4 \cup r)
<1>1. -x \in Lits /\ -(-x) = x
  BY LitFacts
<1>2. Sat(A, {-(-x)} \cup q3) /\ Sat(A, {-(-x)} \cup q4)
  BY <1>1
<1>3. QED
  BY <1>1, <1>2, FirstPairMeans

LEMMA FullXorGood ==
    ASSUME Typed, fresh # {}, NEW a \in Occurring, NEW b \in Occurring, FullXor(a, b)
    PROVE  GoodStep
<1> DEFINE P == RestsOfPair(core, {a, b}, {-a, -b})
           N == RestsOfPair(core, {-a, b}, {a, -b})
           x == NextFreshVariable
           S == UNION ({{{a, b} \cup r, {-a, -b} \cup r} : r \in P} \cup {{{-a, b} \cup r, {a, -b} \cup r} : r \in N})
           D == {{-x, a, b}, {-x, -a, -b}, {x, a, -b}, {x, -a, b}}
           K == {r \cup {x} : r \in P} \cup {r \cup {-x} : r \in N} \cup D
<1>1. /\ x \in Lits /\ -x \in Lits /\ P \in Formula /\ N \in Formula
      /\ a \in Lits /\ b \in Lits /\ -a \in Lits /\ -b \in Lits
  BY NextFresh, RestsOfPairTyped, OccurringTyped
<1>2. Exchange(S, K, {}, {x})
  BY DEF FullXor
<1> HIDE DEF P, N, x
<1>3. /\ \A r \in P : r \cup {x} \in Clause
      /\ \A r \in N : r \cup {-x} \in Clause
      /\ D \in Formula
  BY <1>1 DEF Formula, Clause
<1>4. K \in Formula /\ {} \in Formula
  <2> HIDE DEF D
  <2>1. QED
    BY <1>3 DEF Formula
<1>5. ASSUME NEW A, IsModel(A, K) PROVE IsModel(A, S \cap core)
  <2>1. {-x} \cup {a, b} \in D /\ {-x} \cup {-a, -b} \in D /\ {x} \cup {a, -b} \in D /\ {x} \cup {-a, b} \in D
    <3>1. {-x} \cup {a, b} = {-x, a, b} /\ {-x} \cup {-a, -b} = {-x, -a, -b}
      OBVIOUS
    <3>2. {x} \cup {a, -b} = {x, a, -b} /\ {x} \cup {-a, b} = {x, -a, b}
      OBVIOUS
    <3>3. QED
      BY <3>1, <3>2
  <2>2. /\ Sat(A, {-x} \cup {a, b}) /\ Sat(A, {-x} \cup {-a, -b})
        /\ Sat(A, {x} \cup {-a, b}) /\ Sat(A, {x} \cup {a, -b})
    <3> HIDE DEF D
    <3>1. QED
      BY <1>5, <2>1 DEF IsModel
  <2>3. \A r \in P : Sat(A, {x} \cup r)
    <3>1. \A r \in P : r \cup {x} = {x} \cup r
      OBVIOUS
    <3> HIDE DEF D
    <3>2. QED
      BY <1>5, <3>1 DEF IsModel
  <2>4. \A r \in N : Sat(A, {-x} \cup r)
    <3>1. \A r \in N : r \cup {-x} = {-x} \cup r
      OBVIOUS
    <3> HIDE DEF D
    <3>2. QED
      BY <1>5, <3>1 DEF IsModel
  <2> DEFINE q1 == {a, b}
             q2 == {-a, -b}
             q3 == {-a, b}
             q4 == {a, -b}
  <2>5. Sat(A, {-x} \cup q1) /\ Sat(A, {-x} \cup q2) /\ Sat(A, {x} \cup q3) /\ Sat(A, {x} \cup q4)
    BY <2>2
  <2> HIDE DEF q1, q2, q3, q4, S, K, D
  <2>6. ASSUME NEW C \in S PROVE Sat(A, C)
    <3>1. \/ \E r \in P : C = q1 \cup r \/ C = q2 \cup r
          \/ \E r \in N : C = q3 \cup r \/ C = q4 \cup r
      BY <2>6 DEF S, q1, q2, q3, q4
    <3>2. ASSUME NEW r \in P, C = q1 \cup r \/ C = q2 \cup r PROVE Sat(A, C)
      <4>1. Sat(A, {x} \cup r)
        BY <2>3
      <4>2. Sat(A, q1 \cup r) /\ Sat(A, q2 \cup r)
        BY <1>1, <2>5, <4>1, FirstPairMeans
      <4>3. QED
        BY <3>2, <4>2
    <3>3. ASSUME NEW r \in N, C = q3 \cup r \/ C = q4 \cup r PROVE Sat(A, C)
      <4>1. Sat(A, {-x} \cup r)
        BY <2>4
      <4>2. Sat(A, q3 \cup r) /\ Sat(A, q4 \cup r)
        BY <1>1, <2>5, <4>1, SecondPairMeans
      <4>3. QED
        BY <3>3, <4>2
    <3>4. QED
      BY <3>1, <3>2, <3>3
  <2> HIDE DEF S
  <2>7. QED
    BY <2>6 DEF IsModel
<1> HIDE DEF S, K
<1>6. QED
  BY <1>2, <1>4, <1>5, ExchangeGood

LEMMA FullIteGood ==
    ASSUME Typed, fresh # {}, NEW s \in Occurring, NEW t \in Occurring, NEW f \in Occurring, FullIte(s, t, f)
    PROVE  GoodStep
<1> DEFINE P == RestsOfPair(All, {s, f}, {-s, t})
           N == RestsOfPair(All, {s, -f}, {-s, -t})
           x == NextFreshVariable
           PRow(r) == {{s, f} \cup r, {-s, t} \cup r}
           NRow(r) == {{s, -f} \cup r, {-s, -t} \cup r}
           New(q) == {{x} \cup r : r \in {p \in P : OfCore(PRow(p)) = q}} \cup {{-x} \cup r : r \in {n \in N : OfCore(NRow(n)) = q}}
           S == UNION ({PRow(r) : r \in P} \cup {NRow(r) : r \in N})
           D == {{-x, s, f}, {-x, -s, t}, {x, s, -f}, {x, -s, -t}}
           K == New(TRUE) \cup D
           L == New(FALSE)
<1>1. /\ x \in Lits /\ -x \in Lits /\ P \in Formula /\ N \in Formula
      /\ s \in Lits /\ t \in Lits /\ f \in Lits /\ -s \in Lits /\ -t \in Lits /\ -f \in Lits
  BY NextFresh, RestsOfPairTyped, OccurringTyped
<1>2. Exchange(S, K, L, {x})
  BY DEF FullIte
<1> HIDE DEF P, N, x
<1>3. /\ \A r \in P : {x} \cup r \in Clause
      /\ \A r \in N : {-x} \cup r \in Clause
      /\ D \in Formula
  BY <1>1 DEF Formula, Clause
<1>4. K \in Formula /\ L \in Formula
  <2> HIDE DEF D
  <2>1. QED
    BY <1>3 DEF Formula
<1>5. ASSUME NEW A, IsModel(A, K), NEW C \in S \cap core PROVE Sat(A, C)
  <2>1. {-x} \cup {s, f} \in D /\ {-x} \cup {-s, t} \in D /\ {x} \cup {s, -f} \in D /\ {x} \cup {-s, -t} \in D
    <3>1. {-x} \cup {s, f} = {-x, s, f} /\ {-x} \cup {-s, t} = {-x, -s, t}
      OBVIOUS
    <3>2. {x} \cup {s, -f} = {x, s, -f} /\ {x} \cup {-s, -t} = {x, -s, -t}
      OBVIOUS
    <3>3. QED
      BY <3>1, <3>2
  <2>2. /\ Sat(A, {-x} \cup {s, f}) /\ Sat(A, {-x} \cup {-s, t})
        /\ Sat(A, {x} \cup {s, -f}) /\ Sat(A, {x} \cup {-s, -t})
    <3> HIDE DEF D, New
    <3>1. QED
      BY <1>5, <2>1 DEF IsModel
  <2> DEFINE q1 == {s, f}
             q2 == {-s, t}
             q3 == {s, -f}
             q4 == {-s, -t}
  <2>7. Sat(A, {-x} \cup q1) /\ Sat(A, {-x} \cup q2) /\ Sat(A, {x} \cup q3) /\ Sat(A, {x} \cup q4)
    BY <2>2
  <2> HIDE DEF q1, q2, q3, q4, S, K, L, D, New
  <2>3. ASSUME NEW r \in P, C \in PRow(r) PROVE Sat(A, C)
    <3>1. OfCore(PRow(r)) = TRUE
      BY <1>5, <2>3 DEF OfCore
    <3>2. {x} \cup r \in New(TRUE)
      <4> HIDE DEF PRow, NRow
      <4>1. QED
        BY <3>1 DEF New
    <3>3. Sat(A, {x} \cup r)
      BY <1>5, <3>2 DEF IsModel, K
    <3>4. Sat(A, q1 \cup r) /\ Sat(A, q2 \cup r)
      <4> HIDE DEF PRow, NRow
      <4>1. QED
        BY <1>1, <2>7, <3>3, FirstPairMeans
    <3>5. QED
      BY <2>3, <3>4 DEF q1, q2
  <2>4. ASSUME NEW r \in N, C \in NRow(r) PROVE Sat(A, C)
    <3>1. OfCore(NRow(r)) = TRUE
      BY <1>5, <2>4 DEF OfCore
    <3>2. {-x} \cup r \in New(TRUE)
      <4> HIDE DEF PRow, NRow
      <4>1. QED
        BY <3>1 DEF New
    <3>3. Sat(A, {-x} \cup r)
      BY <1>5, <3>2 DEF IsModel, K
    <3>4. Sat(A, q3 \cup r) /\ Sat(A, q4 \cup r)
      <4> HIDE DEF PRow, NRow
      <4>1. QED
        BY <1>1, <2>7, <3>3, SecondPairMeans
    <3>5. QED
      BY <2>4, <3>4 DEF q3, q4
  <2>5. (\E r \in P : C \in PRow(r)) \/ (\E r \in N : C \in NRow(r))
    <3> HIDE DEF PRow, NRow
    <3>1. QED
      BY DEF S
  <2>6. QED
    BY <2>3, <2>4, <2>5
<1>6. \A A : IsModel(A, K) => IsModel(A, S \cap core)
  <2> HIDE DEF K, S
  <2>1. QED
    BY <1>5 DEF IsModel
<1> HIDE DEF S, K, L
<1>7. QED
  BY <1>2, <1>4, <1>6, ExchangeGood

LEMMA SubstituteOrGood ==
    ASSUME Typed, fresh # {}, NEW M \in SUBSET Occurring, SubstituteOr(M)
    PROVE  GoodStep
<1> DEFINE x      == NextFreshVariable
           S      == {C \in All : Negated(M) \subseteq C}
           Of(F)  == {{-x} \cup (C \ Negated(M)) : C \in F \cap S}
           Row(r) == {{l} \cup r : l \in M}
           Rows   == UNION {Row(r) : r \in RestsOfAll(M)}
           OfRows == {{x} \cup r : r \in {s \in RestsOfAll(M) : OfCore(Row(s))}}
           D      == {{-x, l} : l \in M} \cup { {x} \cup Negated(M) }
           K      == Of(core) \cup OfRows \cup D
           L      == Of(learnts) \cup ({{x} \cup r : r \in RestsOfAll(M)} \ OfRows)
<1>1. x \in Lits /\ -x \in Lits /\ M \in SUBSET Lits /\ Negated(M) \in SUBSET Lits
  BY NextFresh, OccurringTyped, NegatedTyped
<1>2. Exchange(S \cup Rows, K, L, {x})
  <2>1. K = Of(core) \cup OfRows \cup {{-x, l} : l \in M} \cup { {x} \cup Negated(M) }
    OBVIOUS
  <2>2. Exchange(S \cup Rows, Of(core) \cup OfRows \cup {{-x, l} : l \in M} \cup { {x} \cup Negated(M) }, L, {x})
    BY DEF SubstituteOr
  <2> HIDE DEF S, Rows, K, L, Of, OfRows
  <2>3. QED
    BY <2>1, <2>2
<1> HIDE DEF x
<1>3. \A C \in All : {-x} \cup (C \ Negated(M)) \in Clause
  BY <1>1, AllTyped DEF Clause
<1>4. \A r \in RestsOfAll(M) : {x} \cup r \in Clause
  BY <1>1, OccurringTyped DEF RestsOfAll, Clause
<1>5. D \in Formula
  BY <1>1 DEF Formula, Clause
<1>6. K \in Formula /\ L \in Formula
  <2>1. Of(core) \in Formula /\ Of(learnts) \in Formula
    BY <1>3 DEF Formula
  <2>2. {{x} \cup r : r \in RestsOfAll(M)} \in Formula /\ OfRows \in Formula
    BY <1>4 DEF Formula
  <2> HIDE DEF Of, OfRows, D
  <2>3. QED
    BY <1>5, <2>1, <2>2 DEF Formula
<1>7. ASSUME NEW A, IsModel(A, K), NEW C \in (S \cup Rows) \cap core PROVE Sat(A, C)
  <2>1. IsModel(A, Of(core)) /\ IsModel(A, OfRows) /\ IsModel(A, D)
    <3> HIDE DEF Of, OfRows, D
    <3>1. QED
      BY <1>7 DEF IsModel
  <2>2. Sat(A, {x} \cup Negated(M)) /\ \A l \in M : Sat(A, {-x, l})
    BY <2>1 DEF IsModel
  <2>3. CASE C \in S
    <3>1. {-x} \cup (C \ Negated(M)) \in Of(core)
      BY <1>7, <2>3
    <3>2. Sat(A, {-x} \cup (C \ Negated(M)))
      <4> HIDE DEF Of
      <4>1. QED
        BY <2>1, <3>1 DEF IsModel
    <3>3. Holds(A, -x) <=> ~ Holds(A, x)
      BY <1>1, LitFacts, HoldsFlip
    <3>4. Negated(M) \subseteq C
      BY <2>3
    <3>5. QED
      BY <2>2, <3>2, <3>3, <3>4 DEF Sat
  <2>4. CASE C \in Rows
    <3>1. PICK r \in RestsOfAll(M) : C \in Row(r)
      BY <2>4
    <3>2. OfCore(Row(r))
      BY <1>7, <3>1 DEF OfCore
    <3>3. {x} \cup r \in OfRows
      <4> HIDE DEF Row
      <4>1. QED
        BY <3>2
    <3>4. Sat(A, {x} \cup r)
      <4> HIDE DEF OfRows
      <4>1. QED
        BY <2>1, <3>3 DEF IsModel
    <3>5. PICK l \in M : C = {l} \cup r
      BY <3>1
    <3>6. {x} \cup r = r \cup {x} /\ {-x, l} = {-x} \cup {l}
      OBVIOUS
    <3>7. Sat(A, r \cup {x}) /\ Sat(A, {-x} \cup {l})
      BY <2>2, <3>4, <3>6
    <3>8. Sat(A, {l} \cup r)
      BY <1>1, <3>7, ResolventMeans
    <3>9. QED
      BY <3>5, <3>8
  <2>5. QED
    BY <1>7, <2>3, <2>4
<1>8. \A A : IsModel(A, K) => IsModel(A, (S \cup Rows) \cap core)
  <2> HIDE DEF K, S, Rows
  <2>1. QED
    BY <1>7 DEF IsModel
<1> HIDE DEF S, Rows, K, L
<1>9. QED
  BY <1>2, <1>6, <1>8, ExchangeGood

LEMMA AdditionGood ==
    ASSUME Typed, "complements" \notin start.techniques, AdditionNext
    PROVE  GoodStep
BY AndAdditionGood, HalfXorGood, FullXorGood, HalfIteGood, FullIteGood, SubstituteOrGood DEF AdditionNext, Uses

-----------------------------------------------------------------------------
(* The simplifier of MiniSat *)

LEMMA BackwardSubsumedGood ==
    ASSUME Typed, NEW C \in core, NEW D \in core, BackwardSubsumed(C, D)
    PROVE  GoodStep
<1>1. CASE C \subseteq D /\ Rewrite(core \ {D}, learnts, {})
  <2>1. Strengthens(core \ {D}, core)
    BY <1>1 DEF Strengthens, BackwardSubsumed
  <2>2. QED
    BY <1>1, <2>1, SameFormula, StrengtheningGood
<1>2. ASSUME NEW l \in C, StrengthenClause(D, -l) PROVE GoodStep
  <2>1. D \ {-l} \in SUBSET D
    OBVIOUS
  <2>2. QED
    BY <1>2, <2>1, PartGood DEF StrengthenClause
<1>3. QED
  BY <1>1, <1>2 DEF BackwardSubsumed

LEMMA AsymmetricBranchingGood ==
    ASSUME Typed, NEW C \in core, NEW l \in C, Asymmetric(C, l)
    PROVE  GoodStep
<1>1. C \ {l} \in SUBSET C /\ StrengthenClause(C, l)
  BY DEF Asymmetric
<1>2. QED
  BY <1>1, PartGood DEF StrengthenClause

\* The clauses with l are on the stack, and -l, which is looked at first.
LEMMA SimpUndone ==
    ASSUME Typed, NEW l \in Lits, Flippable(l), Flippable(-l),
           NEW A, IsModel(A, core \ (With(l) \cup With(-l))),
           \A C \in With(l) \cap core, D \in With(-l) \cap core :
               Meets(C, D, l) => Sat(A, Resolvent(C, D, l))
    PROVE  LET E == Entries(With(l) \cap core, l) \o << [lit |-> -l, clause |-> {-l}] >>
           IN  Pushable(E) /\ IsModel(Undone(E, A), core)
<1> DEFINE M == With(l) \cap core
           e == << [lit |-> -l, clause |-> {-l}] >>
           B == Undone(e, A)
<1>1. l \in Int /\ l # 0 /\ -l \in Lits /\ -l \in Int /\ -l # 0 /\ -(-l) = l /\ VarOf(-l) = VarOf(l)
  BY LitFacts
<1>2. M \in Formula /\ \A C \in M : l \in C
  BY DEF Typed, Formula, With
<1>3. {-l} \in Clause /\ -l \in {-l}
  BY <1>1 DEF Clause
<1>4. Pushable(e) /\ B = IF Sat(A, {-l}) THEN A ELSE MadeTrue(A, -l)
  BY <1>3, PushableOne
<1>5. /\ Pushable(Entries(M, l))
      /\ Undone(Entries(M, l), B) = IF IsModel(B, M) THEN B ELSE MadeTrue(B, l)
  <2> HIDE DEF B, M
  <2>1. QED
    BY <1>2, PushableEntries
<1>6. Pushable(Entries(M, l) \o e) /\ Undone(Entries(M, l) \o e, A) = Undone(Entries(M, l), B)
  <2> HIDE DEF M, e
  <2>1. QED
    BY <1>4, <1>5, PushableConcat DEF B
<1>7. Holds(B, -l)
  <2>1. Sat(A, {-l}) <=> Holds(A, -l)
    BY DEF Sat
  <2>2. Holds(MadeTrue(A, -l), -l)
    BY <1>1, MadeTrueHolds
  <2> HIDE DEF B
  <2>3. QED
    BY <1>4, <2>1, <2>2
<1>8. \A k \in Lits : k # l /\ Holds(A, k) => Holds(B, k)
  <2>1. \A k \in Lits : k # -(-l) /\ Holds(A, k) => Holds(MadeTrue(A, -l), k)
    BY <1>1, LitFacts, MadeTrueHolds
  <2> HIDE DEF B
  <2>2. QED
    BY <1>1, <1>4, <2>1
<1>9. \A D \in Clause : l \notin D /\ Sat(A, D) => Sat(B, D)
  BY <1>8 DEF Sat, Clause
<1>10. IsModel(B, core \ (With(l) \cup With(-l)))
  <2> SUFFICES ASSUME NEW D \in core \ (With(l) \cup With(-l)) PROVE Sat(B, D)
    BY DEF IsModel
  <2>1. D \in Clause /\ l \notin D /\ Sat(A, D)
    BY AllTyped DEF All, With, IsModel
  <2>2. QED
    BY <1>9, <2>1
<1>11. CASE IsModel(B, M)
  <2>1. ASSUME NEW D \in core PROVE Sat(B, D)
    <3>1. CASE l \in D
      BY <1>11, <3>1 DEF IsModel, With, All
    <3>2. CASE -l \in D
      BY <1>7, <3>2 DEF Sat
    <3>3. CASE l \notin D /\ -l \notin D
      BY <1>10, <3>3 DEF IsModel, With
    <3>4. QED
      BY <3>1, <3>2, <3>3
  <2>2. IsModel(B, core)
    BY <2>1 DEF IsModel
  <2> HIDE DEF M, B, e
  <2>3. Undone(Entries(M, l) \o e, A) = B
    BY <1>5, <1>6, <1>11
  <2>4. QED
    BY <1>6, <2>2, <2>3 DEF M, e
<1>12. CASE ~ IsModel(B, M)
  <2>1. ASSUME NEW C \in (With(l) \ {}) \cap core, NEW D \in (With(-l) \ {}) \cap core,
               Meets(C, D, l), l \notin Resolvent(C, D, l)
        PROVE  Sat(B, Resolvent(C, D, l))
    <3>1. C \in Clause /\ D \in Clause
      BY AllTyped DEF All
    <3>2. Resolvent(C, D, l) \in Clause
      BY <3>1, ResolventTyped
    <3>3. Sat(A, Resolvent(C, D, l))
      BY <2>1
    <3>4. QED
      BY <1>9, <2>1, <3>2, <3>3
  <2>2. ~ IsModel(B, (With(l) \ {}) \cap core)
    BY <1>12
  <2> HIDE DEF B
  <2>3. IsModel(MadeTrue(B, l), core \ {})
    BY <1>7, <1>10, <2>1, <2>2, EliminatedMeans
  <2> HIDE DEF M, e
  <2>4. Undone(Entries(M, l) \o e, A) = MadeTrue(B, l)
    BY <1>5, <1>6, <1>12
  <2>5. QED
    BY <1>6, <2>3, <2>4 DEF M, e
<1>13. QED
  BY <1>11, <1>12

LEMMA EliminateVarGood ==
    ASSUME Typed, "rcheck" \notin start.techniques, NEW v \in Vars, EliminateVar(v)
    PROVE  GoodStep
<1> DEFINE R == {C \in MergedOn(v) : "rcheck" \in start.techniques => ~ ImpliedBy(core, C)}
           K == (core \ (With(v) \cup With(-v))) \cup R
           U == UnitsFrom(core \cup R, units)
           E == ElimClauses(v)
<1>1. v \in Open \ Frozen /\ Become(K, learnts, U) /\ Push(E) /\ UNCHANGED fresh
  BY DEF EliminateVar, MayGo
<1>2. v \in Lits /\ -v \in Lits /\ -(-v) = v /\ Flippable(v) /\ Flippable(-v)
  BY <1>1, CandidateFacts
<1>3. R = MergedOn(v)
  OBVIOUS
<1>4. ASSUME NEW C \in With(v) \cap core, NEW D \in With(-v) \cap core
      PROVE  /\ Resolvent(C, D, v) \in Clause
             /\ Meets(C, D, v) => Resolvent(C, D, v) \in MergedOn(v)
  <2>1. C \in Clause /\ D \in Clause
    BY AllTyped DEF All
  <2>2. <<C, D>> \in (With(v) \cap core) \X (With(-v) \cap core)
    OBVIOUS
  <2>3. QED
    BY <2>1, <2>2, ResolventTyped DEF MergedOn, Meets
<1>5. MergedOn(v) \in Formula
  BY <1>4 DEF MergedOn, Formula
<1>6. K \in Formula /\ learnts \in Formula /\ core \cup R \in Formula
  BY <1>3, <1>5 DEF Typed, Formula
<1>7. U \in SUBSET Lits
  <2>1. UNION (core \cup R) \in SUBSET Lits /\ units \in SUBSET Lits
    BY <1>6 DEF Formula, Clause, Typed
  <2>2. QED
    BY <2>1, UnitsFromGrows
<1> HIDE DEF R
<1>8. ASSUME NEW A, IsModel(A, K) PROVE Pushable(E) /\ IsModel(Undone(E, A), core)
  <2>1. IsModel(A, core \ (With(v) \cup With(-v))) /\ IsModel(A, MergedOn(v))
    BY <1>3, <1>8 DEF IsModel
  <2>2. \A C \in With(v) \cap core, D \in With(-v) \cap core : Meets(C, D, v) => Sat(A, Resolvent(C, D, v))
    BY <1>4, <2>1 DEF IsModel
  <2>3. \A C \in With(-v) \cap core, D \in With(v) \cap core : Meets(C, D, -v) => Sat(A, Resolvent(C, D, -v))
    <3>1. v \in Int
      BY <1>2, LitFacts
    <3>2. QED
      BY <2>2, <3>1, SymmetricResolvent
  <2>4. With(v) \cup With(-v) = With(-v) \cup With(v)
    OBVIOUS
  <2>5. CASE E = Entries(With(v) \cap core, v) \o << [lit |-> -v, clause |-> {-v}] >>
    BY <1>2, <2>1, <2>2, <2>5, SimpUndone
  <2>6. CASE E = Entries(With(-v) \cap core, -v) \o << [lit |-> v, clause |-> {v}] >>
    <3> DEFINE l == -v
    <3>1. l \in Lits /\ -l = v /\ Flippable(l) /\ Flippable(-l)
      BY <1>2
    <3>2. IsModel(A, core \ (With(l) \cup With(-l)))
      BY <2>1, <2>4, <3>1
    <3>3. \A C \in With(l) \cap core, D \in With(-l) \cap core : Meets(C, D, l) => Sat(A, Resolvent(C, D, l))
      BY <2>3, <3>1
    <3>4. E = Entries(With(l) \cap core, l) \o << [lit |-> -l, clause |-> {-l}] >>
      BY <2>6, <3>1
    <3> HIDE DEF l, E
    <3>5. QED
      BY <3>1, <3>2, <3>3, <3>4, SimpUndone
  <2>7. QED
    BY <2>5, <2>6 DEF ElimClauses
<1>9. CASE \E A : IsModel(A, K)
  <2>1. Pushable(E)
    BY <1>8, <1>9
  <2>2. \A A : Model(A, K, U \cup units) => IsModel(Undone(E, A), core)
    BY <1>8 DEF Model
  <2> HIDE DEF K, U, E
  <2>3. QED
    BY <1>1, <1>6, <1>7, <2>1, <2>2, PushingGood
<1>10. CASE ~ \E A : IsModel(A, K)
  <2>1. Pushable(E)
    <3>1. With(v) \cap core \in Formula /\ With(-v) \cap core \in Formula
      BY DEF Typed, Formula, With
    <3>2. Pushable(Entries(With(v) \cap core, v)) /\ Pushable(Entries(With(-v) \cap core, -v))
      BY <1>2, <3>1, PushableEntries DEF With
    <3>3. {v} \in Clause /\ {-v} \in Clause
      BY <1>2 DEF Clause
    <3>4. /\ Pushable(<< [lit |-> v, clause |-> {v}] >>)
          /\ Pushable(<< [lit |-> -v, clause |-> {-v}] >>)
      BY <1>2, <3>3, PushableOne
    <3>5. QED
      BY <3>2, <3>4, PushableConcat DEF ElimClauses
  <2>2. \A A : Model(A, K, U \cup units) => IsModel(Undone(E, A), core)
    BY <1>10 DEF Model
  <2> HIDE DEF K, U, E
  <2>3. QED
    BY <1>1, <1>6, <1>7, <2>1, <2>2, PushingGood
<1>11. QED
  BY <1>9, <1>10

LEMMA SimpGood ==
    ASSUME Typed, "rcheck" \notin start.techniques, SimpNext
    PROVE  GoodStep
BY BackwardSubsumedGood, AsymmetricBranchingGood, EliminateVarGood DEF SimpNext

-----------------------------------------------------------------------------
(* Gates *)

LEMMA EqualGood ==
    ASSUME Typed, NEW k \in Lits, NEW l \in Lits, Equal(k, l)
    PROVE  GoodStep
<1>1. {k, l} \in SUBSET Lits
  OBVIOUS
<1>2. QED
  BY <1>1, FailGood, ApplyGood DEF Equal

\* Literals of a clause, or of two, are equal or complements.
LEMMA ClauseLits ==
    ASSUME Typed, NEW C \in All, NEW k \in C
    PROVE  k \in Lits /\ -k \in Lits
BY AllTyped, LitFacts

\* A parity gate of three literals does not have all variables of one of four.
LEMMA MoreVariables ==
    ASSUME Typed, NEW S \in All, NEW T \in All, Cardinality(S) = 3, Cardinality(T) = 4, ~ Tautology(T)
    PROVE  \E l \in T : VarOf(l) \notin VarsOf(S)
<1> SUFFICES ASSUME \A l \in T : VarOf(l) \in VarsOf(S) PROVE FALSE
  OBVIOUS
<1> DEFINE f == [l \in T |-> CHOOSE k \in S : VarOf(k) = VarOf(l)]
<1>1. IsFiniteSet(S) /\ S \in SUBSET Lits /\ T \in SUBSET Lits
  BY AllTyped, LitsAreFinite
<1>2. \A l \in T : f[l] \in S /\ VarOf(f[l]) = VarOf(l)
  <2> SUFFICES ASSUME NEW l \in T PROVE f[l] \in S /\ VarOf(f[l]) = VarOf(l)
    OBVIOUS
  <2>1. \E k \in S : VarOf(k) = VarOf(l)
    BY DEF VarsOf
  <2>2. f[l] = CHOOSE k \in S : VarOf(k) = VarOf(l)
    OBVIOUS
  <2> HIDE DEF f
  <2>3. QED
    BY <2>1, <2>2
<1>3. f \in [T -> S]
  <2>1. f = [l \in T |-> f[l]]
    OBVIOUS
  <2> HIDE DEF f
  <2>2. QED
    BY <1>2, <2>1
<1> HIDE DEF f
<1>4. ASSUME NEW a \in T, NEW b \in T, f[a] = f[b] PROVE a = b
  <2>1. VarOf(a) = VarOf(b)
    BY <1>2, <1>4
  <2>2. a = b \/ a = -b
    BY <1>1, <2>1, SameVariable
  <2>3. a # -b
    BY DEF Tautology
  <2>4. QED
    BY <2>2, <2>3
<1>5. f \in Injection(T, S)
  BY <1>3, <1>4 DEF Injection, IsInjective
<1>6. Cardinality(T) <= Cardinality(S)
  BY <1>1, <1>5, FS_Injection
<1>7. QED
  BY <1>6

LEMMA ParityUnitGood ==
    ASSUME Typed, NEW S \in ParityGates(3) \cup ParityGates(4), NEW T \in ParityGates(3) \cup ParityGates(4),
           ParityUnit(S, T)
    PROVE  GoodStep
<1> DEFINE k == CHOOSE l \in T : VarOf(l) \notin VarsOf(S)
<1>1. S \in All /\ T \in All /\ ~ Tautology(T) /\ Cardinality(S) = 3 /\ Cardinality(T) = 4
  BY DEF ParityGates, ParityUnit
<1>2. \E l \in T : VarOf(l) \notin VarsOf(S)
  BY <1>1, MoreVariables
<1>3. k \in T
  BY <1>2
<1>4. \E U \in {{k}, {-k}} : Rewrite(core, learnts, U)
  <2>1. \/ \E polarity \in Polarities(S, T) : Rewrite(core, learnts, {IF polarity # Odd(T \ {k}) THEN k ELSE -k})
        \/ \E polarity \in Polarities(T, S) : Rewrite(core, learnts, {IF (polarity # Odd(S)) # (k < 0) THEN k ELSE -k})
    BY DEF ParityUnit
  <2>2. \A b \in BOOLEAN : {IF b THEN k ELSE -k} \in {{k}, {-k}}
    <3> HIDE DEF k
    <3>1. QED
      OBVIOUS
  <2> HIDE DEF k
  <2>3. CASE \E polarity \in Polarities(S, T) : Rewrite(core, learnts, {IF polarity # Odd(T \ {k}) THEN k ELSE -k})
    <3>1. PICK polarity \in Polarities(S, T) : Rewrite(core, learnts, {IF polarity # Odd(T \ {k}) THEN k ELSE -k})
      BY <2>3
    <3>2. {IF polarity # Odd(T \ {k}) THEN k ELSE -k} \in {{k}, {-k}}
      OBVIOUS
    <3>3. QED
      BY <3>1, <3>2
  <2>4. CASE \E polarity \in Polarities(T, S) : Rewrite(core, learnts, {IF (polarity # Odd(S)) # (k < 0) THEN k ELSE -k})
    <3>1. PICK polarity \in Polarities(T, S) : Rewrite(core, learnts, {IF (polarity # Odd(S)) # (k < 0) THEN k ELSE -k})
      BY <2>4
    <3>2. {IF (polarity # Odd(S)) # (k < 0) THEN k ELSE -k} \in {{k}, {-k}}
      OBVIOUS
    <3>3. QED
      BY <3>1, <3>2
  <2>5. QED
    BY <2>1, <2>3, <2>4
<1> HIDE DEF k
<1>5. {k} \in SUBSET Lits /\ {-k} \in SUBSET Lits
  BY <1>1, <1>3, ClauseLits
<1>6. QED
  BY <1>4, <1>5, UnitsGood

LEMMA EqualParitiesGood ==
    ASSUME Typed, NEW S \in All, NEW T \in All, EqualParities(S, T)
    PROVE  GoodStep
<1>1. PICK k \in S, l \in T : Equal(k, l) \/ Equal(k, -l)
  <2>1. PICK k \in S, l \in T : \E polarity \in Polarities(S, T) :
            Equal(k, IF (polarity # (k < 0)) = Odd(T \ {l}) THEN l ELSE -l)
    BY DEF EqualParities
  <2>2. PICK polarity \in Polarities(S, T) : Equal(k, IF (polarity # (k < 0)) = Odd(T \ {l}) THEN l ELSE -l)
    BY <2>1
  <2>3. CASE (polarity # (k < 0)) = Odd(T \ {l})
    BY <2>2, <2>3
  <2>4. CASE ~ ((polarity # (k < 0)) = Odd(T \ {l}))
    BY <2>2, <2>4
  <2>5. QED
    BY <2>3, <2>4
<1>2. k \in Lits /\ l \in Lits /\ -l \in Lits
  BY ClauseLits
<1>3. QED
  BY <1>1, <1>2, EqualGood

LEMMA GatesGood ==
    ASSUME Typed, GatesNext
    PROVE  GoodStep
<1>1. ASSUME NEW g \in AndGates, NEW h \in AndGates, AndGate(g, h) PROVE GoodStep
  <2>1. g.out \in Lits /\ h.out \in Lits
    BY GatesTyped DEF Gates2
  <2>2. QED
    BY <1>1, <2>1, EqualGood DEF AndGate
<1>2. ASSUME NEW g \in GenAndGates, NEW h \in GenAndGates, GenAndGate(g, h) PROVE GoodStep
  <2>1. ASSUME NEW d \in GenAndGates PROVE d.out \in Lits
    <3>1. PICK x \in All \X OpenLits : d = [out |-> x[2], in |-> Negated(x[1] \ {x[2]})]
      BY <2>1 DEF GenAndGates
    <3>2. x[2] \in OpenLits
      OBVIOUS
    <3>3. QED
      BY <3>1, <3>2, OpenLitsFacts
  <2>2. QED
    BY <1>2, <2>1, EqualGood DEF GenAndGate
<1>3. ASSUME NEW C \in ExoGates, NEW D \in ExoGates, ExoGate(C, D) PROVE GoodStep
  <2>1. PICK k \in C, l \in D : Equal(k, l)
    BY <1>3 DEF ExoGate
  <2>2. k \in Lits /\ l \in Lits
    BY ClauseLits DEF ExoGates
  <2>3. QED
    BY <2>1, <2>2, EqualGood
<1>4. ASSUME NEW g \in IteGates, NEW h \in IteGates, IteGate(g, h) PROVE GoodStep
  <2>1. ASSUME NEW d \in IteGates PROVE d.x \in Lits /\ -d.x \in Lits
    <3>1. PICK z \in OpenLits \X OpenLits \X OpenLits :
              \E f \in Candidates(z[1], z[2]) : d = Ite(z[1], z[2], z[3], f)
      BY <2>1 DEF IteGates
    <3>2. z[1] \in OpenLits /\ d.x = z[1]
      BY <3>1 DEF Ite
    <3>3. QED
      BY <3>2, OpenLitsFacts
  <2>2. QED
    BY <1>4, <2>1, EqualGood DEF IteGate
<1>5. ASSUME NEW n \in {3, 4}, ContradictoryParities(n) PROVE GoodStep
  BY <1>5, FailGood DEF ContradictoryParities
<1>6. ASSUME NEW S \in ParityGates(3) \cup ParityGates(4), NEW T \in ParityGates(3) \cup ParityGates(4),
             EqualParities(S, T) \/ ParityUnit(S, T)
      PROVE  GoodStep
  <2>1. S \in All /\ T \in All
    BY DEF ParityGates
  <2>2. QED
    BY <1>6, <2>1, EqualParitiesGood, ParityUnitGood
<1>7. QED
  BY <1>1, <1>2, <1>3, <1>4, <1>5, <1>6 DEF GatesNext
-----------------------------------------------------------------------------
(* Learnt clauses of the search *)

LEMMA TrialTyped ==
    ASSUME Typed, NEW D \in SUBSET Lits
    PROVE  Trial(D) \in SUBSET Lits
<1>1. UNION All \in SUBSET Lits /\ units \cup D \in SUBSET Lits
  BY AllTyped DEF Typed
<1>2. QED
  BY <1>1, UnitsFromGrows DEF Trial

LEMMA ShorterLearntGood ==
    ASSUME Typed, NEW C \in learnts, NEW D \in SUBSET C,
           MinimizeLearnt(C, D) \/ InterleavedStrengthening(C, D)
    PROVE  GoodStep
<1>1. C \in Clause /\ D \in Clause /\ learnts \in Formula /\ {} \in SUBSET Lits
  BY AllTyped, SameFormula DEF All, Clause
<1>2. CASE MinimizeLearnt(C, D)
  <2>1. (learnts \ {C}) \cup {D} \in Formula
    BY <1>1, FormulaOps
  <2>2. QED
    BY <1>1, <1>2, <2>1, LearntGood DEF MinimizeLearnt, Relearn
<1>3. CASE InterleavedStrengthening(C, D)
  <2> DEFINE X == IF Negated(C \ D) \cap Against(Others(C), D) = {} THEN C ELSE D
             L == (learnts \ {C}) \cup {X}
  <2>1. X \in Clause
    BY <1>1
  <2>2. L \in Formula
    <3> HIDE DEF X
    <3>1. QED
      BY <1>1, <2>1, FormulaOps
  <2>3. \A E \in Learnable(C, D) : E \in Clause
    BY OpenLitsFacts DEF Learnable, Clause
  <2>4. Rewrite(core, L, {}) \/ \E E \in Learnable(C, D) : Rewrite(core, L \cup {E}, {})
    BY <1>3 DEF InterleavedStrengthening
  <2> HIDE DEF L
  <2>5. \A E \in Learnable(C, D) : L \cup {E} \in Formula
    BY <2>2, <2>3, FormulaOps
  <2>6. QED
    BY <1>1, <2>2, <2>4, <2>5, LearntGood
<1>4. QED
  BY <1>2, <1>3

LEMMA LearntHiddenGood ==
    ASSUME Typed, NEW C \in learnts, NEW l \in C, LearntHidden(C, l)
    PROVE  GoodStep
<1>1. PICK k \in C : Relearn(C, C \ {k})
  BY DEF LearntHidden
<1>2. C \ {k} \in SUBSET C
  OBVIOUS
<1>3. QED
  BY <1>1, <1>2, PartGood DEF Relearn

LEMMA OnTheFlyGood ==
    ASSUME Typed, NEW C \in All, NEW l \in C, OnTheFly(C, l)
    PROVE  GoodStep
<1>1. C \ {l} \in SUBSET C
  OBVIOUS
<1>2. Rewrite(InPlaceOf(C, core, {C \ {l}}), InPlaceOf(C, learnts, {C \ {l}}), {})
  BY DEF OnTheFly, InPlaceOf
<1>3. QED
  BY <1>1, <1>2, InPlaceOfGood

LEMMA AnalyzeLearntGood ==
    ASSUME Typed, NEW C \in learnts, Forget(C) \/ AnalyzeLearnt(C)
    PROVE  GoodStep
<1>1. CASE Forget(C)
  BY <1>1, SameFormula, LearntGood DEF Forget
<1>2. CASE AnalyzeLearnt(C)
  <2> DEFINE Found1 == IF Cardinality(C) > 2 THEN Shared(C) ELSE UNION {Backbones(p[1], p[2]) : p \in {q \in C \X C : q[1] # q[2]}}
  <2>1. PICK U \in SUBSET Found1 : Rewrite(core, learnts, U)
    BY <1>2 DEF AnalyzeLearnt
  <2>2. \A a \in C, b \in C : Backbones(a, b) \in SUBSET Lits
    BY ClauseLits, OpenLitsFacts DEF All, Backbones, Successors
  <2>3. Shared(C) \in SUBSET Lits
    BY OpenLitsFacts DEF Shared
  <2>4. Found1 \in SUBSET Lits
    <3>1. \A p \in C \X C : Backbones(p[1], p[2]) \in SUBSET Lits
      BY <2>2
    <3>2. QED
      BY <2>3, <3>1
  <2>5. QED
    BY <2>1, <2>4, UnitsGood
<1>3. QED
  BY <1>1, <1>2

LEMMA ProbeVariableGood ==
    ASSUME Typed, NEW v \in Open, ProbeVariable(v)
    PROVE  GoodStep
<1>1. {v} \in SUBSET Lits /\ {-v} \in SUBSET Lits
  BY AllIsFormula
<1>2. Trial({v}) \cap Trial({-v}) \in SUBSET Lits
  BY <1>1, TrialTyped
<1>3. \/ Rewrite(core, learnts, {-v}) \/ Rewrite(core, learnts, {v})
      \/ Rewrite(core, learnts, Trial({v}) \cap Trial({-v}))
  BY DEF ProbeVariable
<1>4. QED
  BY <1>1, <1>2, <1>3, UnitsGood

LEMMA LookAheadGood ==
    ASSUME Typed, NEW D \in SUBSET OpenLits, LookAhead(D)
    PROVE  GoodStep
<1> DEFINE Q == UNION {UNION {{{-d, l}, {d, -l}} : l \in Follow(D, d)} : d \in D}
<1>1. InAll(D) \in SUBSET Lits
  BY OpenLitsFacts DEF InAll
<1>2. \A d \in D : \A l \in Follow(D, d) : {-d, l} \in Clause /\ {d, -l} \in Clause
  BY OpenLitsFacts, PairTyped DEF Follow
<1>3. Q \in Formula
  <2>1. ASSUME NEW C \in Q PROVE C \in Clause
    <3>1. PICK d \in D : C \in UNION {{{-d, l}, {d, -l}} : l \in Follow(D, d)}
      BY <2>1
    <3>2. PICK l \in Follow(D, d) : C \in {{-d, l}, {d, -l}}
      BY <3>1
    <3>3. {-d, l} \in Clause /\ {d, -l} \in Clause
      <4> HIDE DEF Q
      <4>1. QED
        BY <1>2
    <3>4. QED
      BY <3>2, <3>3
  <2> HIDE DEF Q
  <2>2. QED
    BY <2>1 DEF Formula
<1>4. \/ Rewrite(core, learnts, InAll(D))
      \/ Rewrite(core \cup Q, learnts, InAll(D))
      \/ Rewrite(core, learnts \cup Q, InAll(D))
  BY DEF LookAhead
<1> HIDE DEF Q
<1>5. core \cup Q \in Formula /\ learnts \cup Q \in Formula /\ learnts \in Formula
  BY <1>3 DEF Typed, Formula
<1>6. QED
  BY <1>1, <1>4, <1>5, UnitsGood, AddingGood, LearntGood

\* x stands for k or l, so that the clause with x that takes the place of those with the
\* complements of both means what they mean.
LEMMA DisjoinedMeans ==
    ASSUME NEW F, NEW k \in Lits, NEW l \in Lits, NEW x \in Lits, NEW A,
           IsModel(A, Disjoined(F, k, l, x)), Sat(A, {x, -k, -l})
    PROVE  IsModel(A, F)
<1>1. SUFFICES ASSUME NEW C \in F PROVE Sat(A, C)
  BY DEF IsModel
<1> DEFINE long == {-k, -l} \subseteq C /\ Cardinality(C) > 2
<1>2. (IF long THEN (C \ {-k, -l}) \cup {-x} ELSE C) \in Disjoined(F, k, l, x)
  BY DEF Disjoined
<1> HIDE DEF long
<1>3. CASE long
  <2>1. Sat(A, {-x} \cup (C \ {-k, -l}))
    <3>1. {-x} \cup (C \ {-k, -l}) = (C \ {-k, -l}) \cup {-x}
      OBVIOUS
    <3>2. QED
      BY <1>2, <1>3, <3>1 DEF IsModel
  <2>2. Sat(A, {-k, -l} \cup {x})
    <3>1. {-k, -l} \cup {x} = {x, -k, -l}
      OBVIOUS
    <3>2. QED
      BY <3>1
  <2>3. Sat(A, (C \ {-k, -l}) \cup {-k, -l})
    BY <2>1, <2>2, ResolventMeans
  <2>4. (C \ {-k, -l}) \cup {-k, -l} = C
    BY <1>3 DEF long
  <2>5. QED
    BY <2>3, <2>4
<1>4. CASE ~ long
  BY <1>2, <1>4 DEF IsModel
<1>5. QED
  BY <1>3, <1>4

LEMMA DisjoinedTyped ==
    ASSUME NEW F \in Formula, NEW k, NEW l, NEW x \in Lits
    PROVE  Disjoined(F, k, l, x) \in Formula
<1>1. -x \in Lits
  BY LitFacts
<1>2. QED
  BY <1>1 DEF Disjoined, Formula, Clause

\* Learnt clauses are fused; core clauses are rewritten only where the whole definition of
\* the new variable is part of the formula.
LEMMA ExtendedResolutionGood ==
    ASSUME Typed, NEW C \in learnts, NEW D \in learnts, ExtendedResolution(C, D)
    PROVE  GoodStep
<1> DEFINE x == NextFreshVariable
           Def(k, l, full) == {{-x, k}, {-x, l}} \cup (IF full THEN {{x, -k, -l}} ELSE {})
           R(F, k, l, replace) == IF replace THEN Disjoined(F, k, l, x) ELSE F
           K(k, l, asLearnt, full, inFormula) ==
               R(core, k, l, inFormula) \cup (IF asLearnt THEN {} ELSE Def(k, l, full))
           L(k, l, asLearnt, full, inLearnts) ==
               (R(learnts \ {C, D}, k, l, inLearnts) \cup { {x} \cup (C \ {k}) })
                   \cup (IF asLearnt THEN Def(k, l, full) ELSE {})
<1>1. fresh # {}
  BY DEF ExtendedResolution
<1>2. PICK k \in C, l \in D, asLearnt \in BOOLEAN, full \in BOOLEAN, inFormula \in BOOLEAN, inLearnts \in BOOLEAN :
          /\ inFormula => full /\ ~ asLearnt
          /\ Become(K(k, l, asLearnt, full, inFormula), L(k, l, asLearnt, full, inLearnts), {})
          /\ fresh' = fresh \ {x} /\ undo' = undo
  <2>1. PICK k \in C, l \in D :
            \E asLearnt, full, inFormula, inLearnts \in BOOLEAN :
                /\ inFormula => MayReplace(asLearnt, full)
                /\ inLearnts => inFormula
                /\ Become(K(k, l, asLearnt, full, inFormula), L(k, l, asLearnt, full, inLearnts), {})
                /\ fresh' = fresh \ {x} /\ UNCHANGED undo
    BY Zenon DEF ExtendedResolution
  <2> HIDE DEF K, L, x
  <2>2. QED
    BY <2>1, Zenon DEF MayReplace
<1>3. x \in Lits /\ -x \in Lits
  BY <1>1, NextFresh
<1>4. C \in Clause /\ D \in Clause /\ k \in Lits /\ l \in Lits /\ -k \in Lits /\ -l \in Lits
  BY AllTyped, LitFacts DEF All, Clause
<1> HIDE DEF x
<1>5. Def(k, l, full) \in Formula
  BY <1>3, <1>4 DEF Formula, Clause
<1>6. K(k, l, asLearnt, full, inFormula) \in Formula
  <2>1. R(core, k, l, inFormula) \in Formula
    BY <1>3, DisjoinedTyped DEF Typed
  <2> HIDE DEF R, Def
  <2>2. QED
    BY <1>5, <2>1 DEF Formula
<1>7. L(k, l, asLearnt, full, inLearnts) \in Formula
  <2>1. learnts \ {C, D} \in Formula
    BY DEF Typed, Formula
  <2>2. R(learnts \ {C, D}, k, l, inLearnts) \in Formula
    BY <1>3, <2>1, DisjoinedTyped
  <2>3. {x} \cup (C \ {k}) \in Clause
    BY <1>3, <1>4 DEF Clause
  <2> HIDE DEF R, Def
  <2>4. QED
    BY <1>5, <2>2, <2>3 DEF Formula
<1>8. ASSUME NEW A, IsModel(A, K(k, l, asLearnt, full, inFormula)) PROVE IsModel(A, core)
  <2>1. CASE inFormula
    <3>1. full /\ ~ asLearnt
      BY <1>2, <2>1
    <3>2. K(k, l, asLearnt, full, inFormula) = Disjoined(core, k, l, x) \cup Def(k, l, full)
      BY <2>1, <3>1
    <3>3. {x, -k, -l} \in Def(k, l, full)
      BY <3>1
    <3> HIDE DEF K, Def
    <3>4. IsModel(A, Disjoined(core, k, l, x)) /\ Sat(A, {x, -k, -l})
      BY <1>8, <3>2, <3>3 DEF IsModel
    <3>5. QED
      BY <1>3, <1>4, <3>4, DisjoinedMeans
  <2>2. CASE ~ inFormula
    <3>1. core \subseteq K(k, l, asLearnt, full, inFormula)
      BY <2>2
    <3> HIDE DEF K
    <3>2. QED
      BY <1>8, <3>1 DEF IsModel
  <2>3. QED
    BY <2>1, <2>2
<1> HIDE DEF K, L
<1>9. \A A : Model(A, K(k, l, asLearnt, full, inFormula), {} \cup units) => IsModel(A, core)
  BY <1>8 DEF Model
<1>10. fresh' \in SUBSET Vars /\ {} \in SUBSET Lits
  BY <1>2 DEF Typed
<1>11. QED
  BY <1>2, <1>6, <1>7, <1>9, <1>10, BecomeGood

LEMMA LearntNextGood ==
    ASSUME Typed, LearntNext
    PROVE  GoodStep
<1>1. ASSUME NEW C \in learnts, NEW D \in (SUBSET C) \ {{}},
             MinimizeLearnt(C, D) \/ InterleavedStrengthening(C, D)
      PROVE  GoodStep
  BY <1>1, ShorterLearntGood
<1>2. ASSUME NEW C \in learnts, NEW l \in C, LearntHidden(C, l) PROVE GoodStep
  BY <1>2, LearntHiddenGood
<1>3. ASSUME NEW C \in All, NEW l \in C, OnTheFly(C, l) PROVE GoodStep
  BY <1>3, OnTheFlyGood
<1>4. ASSUME NEW C \in learnts, Forget(C) \/ AnalyzeLearnt(C) PROVE GoodStep
  BY <1>4, AnalyzeLearntGood
<1>5. ASSUME NEW v \in Open, ProbeVariable(v) PROVE GoodStep
  BY <1>5, ProbeVariableGood
<1>6. ASSUME NEW D \in SUBSET OpenLits, LookAhead(D) PROVE GoodStep
  BY <1>6, LookAheadGood
<1>7. ASSUME NEW C \in learnts, NEW D \in learnts, ExtendedResolution(C, D) PROVE GoodStep
  BY <1>7, ExtendedResolutionGood
<1>8. QED
  BY <1>1, <1>2, <1>3, <1>4, <1>5, <1>6, <1>7 DEF LearntNext

-----------------------------------------------------------------------------
(* Parity constraints *)

Parity == [vars : SUBSET Open, odd : BOOLEAN]
WithSums(X) == X \cup {Sum2(p[1], p[2]) : p \in {q \in X \X X : q[1].vars \cap q[2].vars # {}}}
Sums2(f) == f[0] = Found /\ \A n \in 1..Cardinality(Open) : f[n] = WithSums(f[n - 1])

LEMMA WithSumsTyped ==
    ASSUME NEW X \in SUBSET Parity
    PROVE  WithSums(X) \in SUBSET Parity
<1>1. ASSUME NEW s \in WithSums(X) PROVE s \in Parity
  <2>1. CASE s \in X
    BY <2>1
  <2>2. CASE s \notin X
    <3>1. PICK p \in X \X X : s = Sum2(p[1], p[2])
      BY <1>1, <2>2 DEF WithSums
    <3>2. p[1] \in Parity /\ p[2] \in Parity
      OBVIOUS
    <3>3. (p[1].vars \ p[2].vars) \cup (p[2].vars \ p[1].vars) \in SUBSET Open
          /\ (p[1].odd # p[2].odd) \in BOOLEAN
      BY <3>2 DEF Parity
    <3>4. QED
      BY <3>1, <3>3 DEF Sum2, Parity
  <2>3. QED
    BY <2>1, <2>2
<1>2. QED
  BY <1>1

LEMMA FoundTyped == Found \in SUBSET Parity
BY DEF Found, Xor, Parity

LEMMA SumsStepwise == \E f : Sums2(f) /\ Sums = f[Cardinality(Open)] \ Found
<1> DEFINE N == Cardinality(Open)
           S == SUBSET Parity
           step == [p \in (1..N) \X S |-> WithSums(p[2])]
<1>1. N \in Nat
  BY OpenIsFinite, FS_CardinalityType
<1>2. IsStep(step, S, N)
  BY WithSumsTyped DEF IsStep
<1>3. Found \in S
  BY FoundTyped
<1>4. PICK f : IsIterate(f, S, N, Found, step)
  <2> HIDE DEF step, S, N
  <2>1. QED
    BY <1>1, <1>2, <1>3, Iterates
<1>5. ASSUME NEW n \in 1..N PROVE f[n] = WithSums(f[n - 1])
  <2>1. n - 1 \in 0..N /\ f[n - 1] \in S
    BY <1>1, <1>4 DEF IsIterate
  <2>2. QED
    BY <2>1, <1>4 DEF IsIterate
<1> DEFINE Round(g, n) == IF n = 0 THEN Found ELSE UNION {WithSums(X) : X \in {g[n - 1]}}
<1>6. f = [n \in 0..N |-> Round(f, n)]
  <2>1. \A n \in 0..N : f[n] = Round(f, n)
    <3> HIDE DEF N
    <3>1. f[0] = Round(f, 0)
      BY <1>4 DEF IsIterate
    <3>2. ASSUME NEW n \in 1..N PROVE f[n] = Round(f, n)
      <4>1. n # 0
        BY <1>1
      <4>2. QED
        BY <4>1, <1>5
    <3>3. QED
      BY <3>1, <3>2, <1>1
  <2>2. f = [n \in 0..N |-> f[n]]
    BY <1>4 DEF IsIterate
  <2> HIDE DEF Round, N
  <2>3. QED
    BY <2>1, <2>2
<1> DEFINE after == CHOOSE g : g = [n \in 0..N |-> Round(g, n)]
<1>7. after = [n \in 0..N |-> Round(after, n)]
  BY <1>6
<1>8. Sums = after[N] \ Found
  BY DEF Sums, WithSums
<1>9. \A n \in 0..N : after[n] = Round(after, n)
  <2> HIDE DEF after
  <2>1. QED
    BY <1>7
<1> HIDE DEF after, N
<1>10. after[0] = Found
  <2>1. 0 \in 0..N
    BY <1>1
  <2>2. QED
    BY <1>9, <2>1
<1>11. ASSUME NEW n \in 1..N PROVE after[n] = WithSums(after[n - 1])
  <2>1. n \in 0..N /\ n # 0
    BY <1>1
  <2>2. after[n] = Round(after, n)
    BY <1>9, <2>1
  <2>3. Round(after, n) = WithSums(after[n - 1])
    BY <2>1
  <2>4. QED
    BY <2>2, <2>3
<1>12. Sums2(after) /\ Sums = after[Cardinality(Open)] \ Found
  BY <1>8, <1>10, <1>11 DEF N, Sums2
<1>13. QED
  BY <1>12

LEMMA SumsTyped == Sums \in SUBSET Parity
<1> DEFINE N == Cardinality(Open)
<1>1. N \in Nat
  BY OpenIsFinite, FS_CardinalityType
<1>2. PICK f : Sums2(f) /\ Sums = f[Cardinality(Open)] \ Found
  BY SumsStepwise
<1> DEFINE T == {n \in 0..N : f[n] \in SUBSET Parity}
<1>3. 0 \in T
  BY <1>1, <1>2, FoundTyped DEF Sums2
<1>4. ASSUME NEW n \in 1..N, n - 1 \in T PROVE n \in T
  <2>1. f[n] = WithSums(f[n - 1]) /\ f[n - 1] \in SUBSET Parity
    BY <1>2, <1>4 DEF Sums2
  <2>2. QED
    BY <1>1, <2>1, WithSumsTyped
<1>5. 0..N \subseteq T
  <2> HIDE DEF T, N
  <2>1. QED
    BY <1>1, <1>3, <1>4, Induction
<1>6. QED
  BY <1>1, <1>2, <1>5

LEMMA LiteralTyped ==
    ASSUME NEW v \in Open, NEW positive
    PROVE  v \in Lits /\ -v \in Lits /\ Literal(v, positive) \in Lits
<1>1. v \in OpenLits
  BY DEF OpenLits
<1>2. QED
  BY <1>1, OpenLitsFacts DEF Literal

LEMMA ClausesOfTyped ==
    ASSUME NEW x \in Parity
    PROVE  ClausesOf(x) \in Formula
<1>1. \A N \in SUBSET x.vars : (x.vars \ N) \cup Negated(N) \in Clause
  <2>1. x.vars \in SUBSET Open
    BY DEF Parity
  <2>2. QED
    BY <2>1, LiteralTyped DEF Negated, Clause
<1>2. QED
  BY <1>1 DEF ClausesOf, Formula

LEMMA XorGood ==
    ASSUME Typed, XorNext
    PROVE  GoodStep
<1>1. PICK x \in Sums : XorUnit(x) \/ XorEquivalence(x) \/ XorClauses(x)
  BY DEF XorNext
<1>2. x \in Parity /\ x.vars \in SUBSET Open
  BY SumsTyped DEF Parity
<1>3. CASE XorUnit(x)
  <2>1. PICK v \in x.vars : Rewrite(core, learnts, {Literal(v, x.odd)})
    BY <1>3 DEF XorUnit
  <2>2. {Literal(v, x.odd)} \in SUBSET Lits
    BY <1>2, LiteralTyped
  <2>3. QED
    BY <2>1, <2>2, UnitsGood
<1>4. CASE XorEquivalence(x)
  <2>1. PICK v \in x.vars, w \in x.vars : Apply(Unfrozen({v, Literal(w, ~ x.odd)}))
    BY <1>4 DEF XorEquivalence
  <2>2. {v, Literal(w, ~ x.odd)} \in SUBSET Lits
    BY <1>2, LiteralTyped
  <2>3. QED
    BY <2>1, <2>2, ApplyGood
<1>5. CASE XorClauses(x)
  <2> DEFINE D == ClausesOf(x)
  <2>1. D \in Formula
    BY <1>2, ClausesOfTyped
  <2>2. Rewrite(core \cup D, learnts, {}) \/ Rewrite(core, learnts \cup D, {})
    BY <1>5 DEF XorClauses
  <2> HIDE DEF D
  <2>3. core \cup D \in Formula /\ learnts \cup D \in Formula /\ learnts \in Formula /\ {} \in SUBSET Lits
    BY <2>1 DEF Typed, Formula
  <2>4. QED
    BY <2>2, <2>3, AddingGood, LearntGood
<1>6. QED
  BY <1>1, <1>3, <1>4, <1>5

-----------------------------------------------------------------------------
(* Cardinality constraints *)

SidesTyped(c) == c.ll \in SUBSET Lits /\ c.lr \in SUBSET Lits

LEMMA CliquesTyped ==
    ASSUME NEW n
    PROVE  Cliques(n) \in Formula
BY OpenLitsFacts DEF Cliques, Formula, Clause

LEMMA SubsetsOfSize ==
    ASSUME NEW n, NEW S
    PROVE  kSubset(n, S) \subseteq SUBSET S /\ OfSize(S, n) \subseteq SUBSET S
BY DEF kSubset, OfSize

LEMMA MergesTyped ==
    ASSUME NEW F \in Formula
    PROVE  MergesOf(F) \in Formula
<1>1. ASSUME NEW M \in MergesOf(F) PROVE M \in Clause
  <2>1. PICK m \in F \X F \X OpenLits : M = Merged(m[1], m[2], m[3])
    BY <1>1 DEF MergesOf
  <2>2. m[1] \in Clause /\ m[2] \in Clause
    BY DEF Formula
  <2>3. QED
    BY <2>1, <2>2 DEF Merged, Clause
<1>2. QED
  BY <1>1 DEF Formula

LEMMA ProductsTyped ==
    ASSUME NEW F \in Formula
    PROVE  ProductsOf(F) \in Formula
<1>1. ASSUME NEW M \in ProductsOf(F) PROVE M \in Clause
  <2>1. PICK p \in F \X F : M \in Products(p[1], p[2])
    BY <1>1 DEF ProductsOf
  <2> DEFINE H == Hits(p[1], p[2])
  <2>2. PICK n \in 2..Width : \E T \in kSubset(n, H) : M = {t[1] : t \in T}
    BY <2>1 DEF Products
  <2>3. \A t \in H : t[1] \in OpenLits
    BY DEF Hits
  <2> HIDE DEF H
  <2>4. PICK T \in kSubset(n, H) : M = {t[1] : t \in T}
    BY <2>2
  <2>5. T \subseteq H
    BY SubsetsOfSize
  <2>6. QED
    BY <2>3, <2>4, <2>5, OpenLitsFacts DEF Clause
<1>2. QED
  BY <1>1 DEF Formula

LEMMA FormulaUnion ==
    ASSUME NEW F \in Formula, NEW G \in Formula
    PROVE  F \cup G \in Formula
BY DEF Formula

LEMMA AmosTyped == Amos \in Formula
<1> DEFINE F == Cliques(2)
           G == F \cup {M \in MergesOf(F) \cup ProductsOf(F) : ~ Tautology(M)}
<1>1. F \in Formula
  BY CliquesTyped
<1>2. MergesOf(F) \cup ProductsOf(F) \in Formula
  <2> HIDE DEF F
  <2>1. QED
    BY <1>1, MergesTyped, ProductsTyped, FormulaUnion
<1>3. G \in Formula
  <2> HIDE DEF F
  <2>1. {M \in MergesOf(F) \cup ProductsOf(F) : ~ Tautology(M)} \in Formula
    BY <1>2 DEF Formula
  <2>2. QED
    BY <1>1, <2>1, FormulaUnion
<1>4. Amos = Largest(G)
  BY DEF Amos
<1> HIDE DEF G
<1>5. QED
  BY <1>3, <1>4 DEF Largest, Formula

LEMMA SemanticTyped ==
    ASSUME Typed, NEW c \in Semantic
    PROVE  SidesTyped(c)
<1>1. PICK C \in core :
          c \in {AtMost(Negated(C) \cup {-e}, Cardinality(C) - 1) : e \in CommonOf(Negated(C), Cardinality(C) - 1)}
               \cup {AtMost(Negated(C), (Cardinality(C) - 1) - 1)}
  BY DEF Semantic
<1>2. Negated(C) \in SUBSET Lits
  BY NegatedTyped, AllTyped DEF All
<1>3. \A e \in CommonOf(Negated(C), Cardinality(C) - 1) : -e \in Lits
  BY OpenLitsFacts DEF CommonOf
<1>4. QED
  BY <1>1, <1>2, <1>3 DEF AtMost, SidesTyped

LEMMA ConstraintsTyped ==
    ASSUME Typed, NEW c \in Constraints
    PROVE  SidesTyped(c)
<1>1. Amos \in SUBSET SUBSET Lits /\ Cliques(3) \in SUBSET SUBSET Lits
  BY AmosTyped, CliquesTyped DEF Formula, Clause
<1>2. \A S \in SUBSET Lits : SidesTyped(AtMost(S, 1)) /\ SidesTyped(AtMost(S, 2))
  BY DEF SidesTyped, AtMost
<1>3. QED
  BY <1>1, <1>2, SemanticTyped DEF Constraints

LEMMA UsefulTyped ==
    ASSUME Typed, NEW cards, NEW c \in Useful(cards)
    PROVE  SidesTyped(c)
<1>1. PICK C \in core : c = OfClause(C)
  BY DEF Useful
<1>2. C \in SUBSET Lits
  BY AllTyped DEF All
<1>3. QED
  BY <1>1, <1>2 DEF OfClause, SidesTyped

LEMMA DerivedTyped ==
    ASSUME NEW cards, \A c \in cards : SidesTyped(c), NEW s \in Derived(cards)
    PROVE  SidesTyped(s)
<1>1. PICK q \in cards \X cards \X OpenLits : s = SumOf(q[1], q[2], q[3])
  BY DEF Derived
<1>2. q[1] \in cards /\ q[2] \in cards
  OBVIOUS
<1>3. SidesTyped(q[1]) /\ SidesTyped(q[2])
  BY <1>2
<1>4. QED
  BY <1>1, <1>3 DEF SidesTyped, SumOf, Side

Begun == Constraints \cup Useful(Constraints)
WithDerived(cards) == cards \cup Derived(cards)

LEMMA NewConstraintsAre == NewConstraints \subseteq WithDerived(WithDerived(Begun))
<1> DEFINE f == [n \in 0..2 |-> IF n = 0 THEN Begun ELSE IF n = 1 THEN WithDerived(Begun) ELSE WithDerived(WithDerived(Begun))]
           Round(g, n) == IF n = 0 THEN UNION {cards \cup Useful(cards) : cards \in {Constraints}}
                          ELSE UNION {cards \cup Derived(cards) : cards \in {g[n - 1]}}
           after == CHOOSE g : g = [n \in 0..2 |-> Round(g, n)]
<1>1. f = [n \in 0..2 |-> Round(f, n)]
  <2>1. \A n \in 0..2 : n = 0 \/ n = 1 \/ n = 2
    OBVIOUS
  <2>2. f[0] = Begun /\ f[1] = WithDerived(Begun) /\ f[2] = WithDerived(WithDerived(Begun))
    OBVIOUS
  <2>3. Round(f, 0) = f[0] /\ Round(f, 1) = f[1] /\ Round(f, 2) = f[2]
    <3> HIDE DEF f
    <3>1. QED
      BY <2>2 DEF Begun, WithDerived
  <2>4. \A n \in 0..2 : f[n] = Round(f, n)
    <3> HIDE DEF f, Round
    <3>1. QED
      BY <2>1, <2>3
  <2>5. f = [n \in 0..2 |-> f[n]]
    OBVIOUS
  <2> HIDE DEF f, Round
  <2>6. QED
    BY <2>4, <2>5
<1>2. after = [n \in 0..2 |-> Round(after, n)]
  <2> HIDE DEF f, Round
  <2>1. QED
    BY <1>1
<1>3. NewConstraints = after[2] \ Constraints
  BY DEF NewConstraints, EliminatedLiterals
<1> HIDE DEF after
<1>4. after[0] = Round(after, 0) /\ after[1] = Round(after, 1) /\ after[2] = Round(after, 2)
  <2> HIDE DEF Round
  <2>1. QED
    BY <1>2
<1>5. after[0] = Begun /\ after[1] = WithDerived(after[0]) /\ after[2] = WithDerived(after[1])
  BY <1>4 DEF Begun, WithDerived
<1>6. QED
  BY <1>3, <1>5

LEMMA NewConstraintsTyped ==
    ASSUME Typed, NEW c \in NewConstraints
    PROVE  SidesTyped(c)
<1>1. \A d \in Begun : SidesTyped(d)
  BY ConstraintsTyped, UsefulTyped DEF Begun
<1>2. \A d \in WithDerived(Begun) : SidesTyped(d)
  BY <1>1, DerivedTyped DEF WithDerived
<1>3. \A d \in WithDerived(WithDerived(Begun)) : SidesTyped(d)
  <2> DEFINE X == WithDerived(Begun)
  <2> HIDE DEF X
  <2>1. \A d \in WithDerived(X) : SidesTyped(d)
    BY <1>2, DerivedTyped DEF WithDerived, X
  <2>2. QED
    BY <2>1 DEF X
<1>4. QED
  BY <1>3, NewConstraintsAre

LEMMA UnitsOfAmosGood ==
    ASSUME Typed, UnitsOfAmos
    PROVE  GoodStep
<1> DEFINE F == Cliques(2)
<1>1. PICK U \in SharedIn(F) \cup {{l \in M : -l \notin M} : M \in WithBoth(F)} :
          Rewrite(core, learnts, Negated(U))
  BY DEF UnitsOfAmos
<1>2. F \in Formula
  BY CliquesTyped
<1> HIDE DEF F
<1>3. U \in SUBSET Lits
  <2>1. CASE U \in SharedIn(F)
    <3>1. PICK m \in F \X F : U = m[1] \cap m[2]
      BY <2>1 DEF SharedIn
    <3>2. m[1] \in SUBSET Lits
      BY <1>2 DEF Formula, Clause
    <3>3. QED
      BY <3>1, <3>2
  <2>2. CASE U \notin SharedIn(F)
    <3>1. PICK M \in WithBoth(F) : U = {l \in M : -l \notin M}
      BY <1>1, <2>2
    <3>2. M \in MergesOf(F) \cup ProductsOf(F)
      BY DEF WithBoth
    <3>3. M \in SUBSET Lits
      BY <1>2, <3>2, MergesTyped, ProductsTyped DEF Formula, Clause
    <3>4. QED
      BY <3>1, <3>3
  <2>3. QED
    BY <2>1, <2>2
<1>4. Negated(U) \in SUBSET Lits
  BY <1>3, NegatedTyped
<1>5. QED
  BY <1>1, <1>4, UnitsGood

LEMMA AddAmoGood ==
    ASSUME Typed, NEW c, SidesTyped(c), AddAmo(c)
    PROVE  GoodStep
<1> DEFINE K == {Negated(T) : T \in OfSize(c.ll, 2)}
<1>1. \A T \in OfSize(c.ll, 2) : Negated(T) \in Clause
  <2> SUFFICES ASSUME NEW T \in OfSize(c.ll, 2) PROVE Negated(T) \in Clause
    OBVIOUS
  <2>1. T \in SUBSET Lits
    BY SubsetsOfSize DEF SidesTyped
  <2>2. QED
    BY <2>1, NegatedTyped DEF Clause
<1>2. K \in Formula
  BY <1>1 DEF Formula
<1>3. Rewrite(core \cup K, learnts, {})
  BY DEF AddAmo
<1> HIDE DEF K
<1>4. core \cup K \in Formula /\ learnts \in Formula /\ {} \in SUBSET Lits
  BY <1>2 DEF Typed, Formula
<1>5. QED
  BY <1>3, <1>4, AddingGood

LEMMA AddAloGood ==
    ASSUME Typed, NEW C \in Clause, AddAlo(C)
    PROVE  GoodStep
<1> DEFINE K == {D \in core : ~ (C \subseteq D)} \cup {C}
           L == {D \in learnts : ~ (C \subseteq D)}
<1>1. core \cup {C} \in Formula /\ learnts \in Formula /\ {} \in SUBSET Lits
  BY SameFormula, FormulaOps
<1>2. CASE Rewrite(core \cup {C}, learnts, {})
  BY <1>1, <1>2, AddingGood
<1>3. CASE Rewrite(K, L, {})
  <2>1. K \in Formula /\ L \in Formula
    BY <1>1 DEF Formula
  <2>2. Strengthens(K, core)
    BY DEF Strengthens
  <2> HIDE DEF K, L
  <2>3. QED
    BY <1>1, <1>3, <2>1, <2>2, StrengtheningGood
<1>4. QED
  BY <1>2, <1>3 DEF AddAlo

LEMMA CardinalityGood ==
    ASSUME Typed, CardinalityNext
    PROVE  GoodStep
<1>1. ASSUME NEW c \in NewConstraints, UnitConstraint(c) PROVE GoodStep
  <2>1. Rewrite(core, learnts, UnitsOf(c))
    BY <1>1 DEF UnitConstraint
  <2>2. SidesTyped(c)
    BY NewConstraintsTyped
  <2>3. UnitsOf(c) \in SUBSET Lits
    BY <2>2, NegatedTyped DEF SidesTyped, UnitsOf
  <2>4. QED
    BY <2>1, <2>3, UnitsGood
<1>2. ASSUME NEW c \in NewConstraints, Contradiction(c) PROVE GoodStep
  BY <1>2, FailGood DEF Contradiction
<1>3. ASSUME NEW c \in NewConstraints, AddAmo(c) PROVE GoodStep
  BY <1>3, NewConstraintsTyped, AddAmoGood
<1>4. ASSUME NEW c \in NewConstraints, AddAlo(c.lr) PROVE GoodStep
  <2>1. c.lr \in Clause
    BY NewConstraintsTyped DEF SidesTyped, Clause
  <2>2. QED
    BY <1>4, <2>1, AddAloGood
<1>5. ASSUME DeduceAlo PROVE GoodStep
  <2>1. PICK M \in kSubset(2, Amos) \cup kSubset(3, Amos) : \E A \in M : AddAlo(A)
    BY <1>5 DEF DeduceAlo
  <2>2. PICK A \in M : AddAlo(A)
    BY <2>1
  <2>3. M \subseteq Amos
    BY SubsetsOfSize
  <2>4. A \in Clause
    BY <2>2, <2>3, AmosTyped DEF Formula
  <2>5. QED
    BY <2>2, <2>4, AddAloGood
<1>6. QED
  BY <1>1, <1>2, <1>3, <1>4, <1>5, UnitsOfAmosGood DEF CardinalityNext

-----------------------------------------------------------------------------
(* All techniques together *)

\* The techniques that the theorem leaves out.
Unproved == {"rate", "bcs", "complements", "resolving learnts", "rcheck", "rewriting", "dense"}

LEMMA SequentialGood ==
    ASSUME Typed, start.techniques \cap Unproved = {}, Sequential
    PROVE  GoodStep
<1>1. \A t \in Unproved : t \notin start.techniques
  OBVIOUS
<1>2. /\ "resolving learnts" \notin start.techniques /\ "complements" \notin start.techniques
      /\ "rcheck" \notin start.techniques /\ {"rate", "bcs"} \cap start.techniques = {}
      /\ ~ Uses("rewriting")
  BY <1>1 DEF Unproved, Uses
<1>3. ~ RewritingNext
  BY <1>2 DEF RewritingNext
<1>4. CASE SubsumptionNext \/ EliminationNext \/ ClauseEliminationNext \/ EquivalencesNext
  BY <1>4, SubsumptionGood, EliminationGood, ClauseEliminationGood, EquivalencesGood
<1>5. CASE ProbingNext \/ UnhidingNext \/ ImpliedNext \/ GatesNext
  BY <1>5, ProbingGood, UnhidingGood, ImpliedGood, GatesGood
<1>6. CASE XorNext \/ CardinalityNext \/ LearntNext
  BY <1>6, XorGood, CardinalityGood, LearntNextGood
<1>7. CASE AdditionNext \/ ClauseAdditionNext
  BY <1>2, <1>7, AdditionGood, ClauseAdditionGood
<1>8. CASE AsymmetricNext \/ SimpNext
  BY <1>2, <1>8, AsymmetricGood, SimpGood
<1>9. QED
  BY <1>3, <1>4, <1>5, <1>6, <1>7, <1>8 DEF Sequential

\* Only techniques run that the theorem is about; those of several threads have one of their own.
Covered(s)   == s.techniques \cap Unproved = {}
OneThread(s) == "parallel bve" \notin s.techniques

\* No entry of the stack is about a frozen variable.
StackLeavesFrozen == \A i \in 1..Len(undo) : VarOf(undo[i].lit) \notin start.frozen

\* A model of what is left becomes one of what was given.
Restores == ok => \A A : Model(A, core, units) => IsModel(Undone(undo, A), start.core)

Restorable == Typed /\ StackLeavesFrozen /\ Restores

IndInv == Restorable /\ Quiet /\ Covered(start) /\ OneThread(start)

LEMMA GoodBegin ==
    ASSUME Begin
    PROVE  Restorable /\ Quiet
<1>1. /\ start \in Starts /\ core = start.core /\ learnts = start.learnts
      /\ units = {} /\ ok = TRUE /\ undo = << >> /\ fresh \in SUBSET Vars /\ forward = << >>
  BY DEF Begin, Init, NamesInit
<1>2. core \in Formula /\ learnts \in Formula
  BY <1>1, StartsAssumption DEF Formula
<1>3. undo \in Seq(Entry) /\ Len(undo) = 0
  BY <1>1 DEF Entry
<1>4. Typed
  BY <1>1, <1>2, <1>3 DEF Typed
<1>5. Quiet
  BY DEF Begin, ParallelInit, Quiet
<1>6. StackLeavesFrozen
  BY <1>3 DEF StackLeavesFrozen
<1>7. Restores
  BY <1>1, UndoneNone DEF Restores, Model
<1>8. QED
  BY <1>4, <1>5, <1>6, <1>7 DEF Restorable

LEMMA GoodStepKeeps ==
    ASSUME Restorable, GoodStep, NamesFollow
    PROVE  Restorable' /\ start' = start
<1> USE DEF Restorable
<1>1. PICK E : Extends(E)
  BY DEF GoodStep
<1>2. /\ core' \in Formula /\ learnts' \in Formula /\ units' \in SUBSET Lits
      /\ fresh' \in SUBSET Vars /\ start' = start /\ ok' \in BOOLEAN
  BY DEF GoodStep
<1>3. undo' = undo \o E /\ E \in Seq(Entry) /\ undo \in Seq(Entry)
  BY <1>1 DEF Extends, Typed
<1>4. undo' \in Seq(Entry)
  <2> HIDE DEF Entry
  <2>1. QED
    BY <1>3
<1>5. forward' = << >>
  BY DEF NamesFollow, Renamed, Typed
<1>6. Typed'
  BY <1>2, <1>4, <1>5 DEF Typed
<1>8. StackLeavesFrozen'
  <2>1. SUFFICES ASSUME NEW i \in 1..Len(undo') PROVE VarOf(undo'[i].lit) \notin start.frozen
    BY <1>2 DEF StackLeavesFrozen
  <2>2. \/ i \in 1..Len(undo) /\ undo'[i] = undo[i]
        \/ \E j \in 1..Len(E) : undo'[i] = E[j]
    <3> HIDE DEF Entry
    <3>1. Len(undo') = Len(undo) + Len(E) /\ Len(undo) \in Nat /\ Len(E) \in Nat
      BY <1>3
    <3>2. CASE i <= Len(undo)
      BY <1>3, <3>1, <3>2
    <3>3. CASE ~ i <= Len(undo)
      <4>1. i - Len(undo) \in 1..Len(E) /\ undo'[i] = E[i - Len(undo)]
        BY <1>3, <3>1, <3>3
      <4>2. QED
        BY <4>1
    <3>4. QED
      BY <3>2, <3>3
  <2>3. QED
    BY <1>1, <2>2 DEF StackLeavesFrozen, Extends
<1>9. Restores'
  <2>1. SUFFICES ASSUME ok', NEW A, Model(A, core', units')
                 PROVE  IsModel(Undone(undo', A), start.core)
    BY <1>2 DEF Restores
  <2>2. Model(Undone(E, A), core, units)
    BY <1>1, <2>1 DEF Extends
  <2>3. ok
    BY <2>1 DEF GoodStep
  <2>4. IsModel(Undone(undo, Undone(E, A)), start.core)
    BY <2>2, <2>3 DEF Restores
  <2>5. Undone(undo', A) = Undone(undo, Undone(E, A))
    BY <1>3, UndoneConcat
  <2>6. QED
    BY <2>4, <2>5
<1>10. QED
  BY <1>2, <1>6, <1>8, <1>9

\* Nothing changes.
LEMMA NothingKeeps ==
    ASSUME Restorable, UNCHANGED <<vars, names>>
    PROVE  Restorable'
<1>1. UNCHANGED <<core, learnts, units, ok, undo, fresh, start, forward>>
  BY DEF vars, names
<1>2. Typed' /\ StackLeavesFrozen'
  BY <1>1 DEF Restorable, Typed, StackLeavesFrozen
<1>3. Restores'
  BY <1>1 DEF Restorable, Restores
<1>4. QED
  BY <1>2, <1>3 DEF Restorable

\* Nothing happens in the parallel elimination when no thread may begin.
LEMMA NothingParallel ==
    ASSUME Quiet, "parallel bve" \notin start.techniques
    PROVE  ~ ParallelNext
<1>1. \A t \in Thread : worker[t].at = "idle"
  <2>1. \A t \in Thread : worker[t] = IdleWorker
    BY DEF Quiet
  <2>2. IdleWorker.at = "idle"
    BY DEF IdleWorker
  <2>3. QED
    BY <2>1, <2>2
<1>2. \A t \in Thread : ~ (ParAnticipate(t) \/ ParLetGo(t) \/ ParResolve(t) \/ ParRemove(t) \/ ParLockAgain(t))
  BY <1>1 DEF ParAnticipate, ParLetGo, ParResolve, ParRemove, ParLockAgain, At
<1>3. \A t, v : ~ ParLook(t, v)
  BY DEF ParLook, Uses
<1>4. \A t, C, D : ~ ParStrengthen(t, C, D)
  BY DEF ParStrengthen
<1>5. QED
  BY <1>2, <1>3, <1>4 DEF ParallelNext, Quiet

LEMMA NextKeeps ==
    ASSUME IndInv, [Next]_<<vars, names, worker, pending>>
    PROVE  IndInv'
<1>1. CASE Quiet /\ Sequential /\ NamesFollow /\ UNCHANGED <<worker, pending>>
  <2>1. GoodStep
    BY <1>1, SequentialGood DEF IndInv, Restorable, Covered
  <2>2. Restorable' /\ start' = start
    BY <1>1, <2>1, GoodStepKeeps DEF IndInv
  <2>3. Quiet'
    BY <1>1 DEF Quiet
  <2>4. QED
    BY <2>2, <2>3 DEF IndInv, Covered, OneThread
<1>2. CASE CompactionNext
  <2>1. "dense" \notin start.techniques
    BY DEF IndInv, Covered, Unproved
  <2>2. QED
    BY <1>2, <2>1 DEF CompactionNext, Compress, Uses
<1>3. CASE ParallelNext
  <2>1. "parallel bve" \notin start.techniques /\ Quiet
    BY DEF IndInv, OneThread
  <2>2. QED
    BY <1>3, <2>1, NothingParallel
<1>4. CASE UNCHANGED <<vars, names, worker, pending>>
  <2>1. Restorable'
    BY <1>4, NothingKeeps DEF IndInv
  <2>2. start' = start
    BY <1>4 DEF vars
  <2>3. Quiet'
    BY <1>4 DEF IndInv, Quiet
  <2>4. QED
    BY <2>1, <2>2, <2>3 DEF IndInv, Covered, OneThread
<1>5. QED
  BY <1>1, <1>2, <1>3, <1>4 DEF Next

LEMMA GoodModels ==
    ASSUME Restorable
    PROVE  ModelsExtend
<1> USE DEF Restorable
<1>1. SUFFICES ASSUME ok, NEW A \in Left(core)
               PROVE  IsModel(Extended(A), start.core) /\ Extended(A) \cap start.frozen = A \cap start.frozen
  BY DEF ModelsExtend, Given, Decompressed, Typed, Renamed
<1>2. Model(A, core, units)
  BY DEF Left, Model
<1>3. IsModel(Extended(A), start.core)
  BY <1>1, <1>2 DEF Restores, Extended
<1>4. undo \in Seq(Entry)
  BY DEF Typed
<1>5. \A v \in start.frozen : v \in Extended(A) <=> v \in A
  BY <1>4, UndoneElsewhere DEF StackLeavesFrozen, Extended
<1>6. QED
  BY <1>3, <1>5

\* A model of what is left becomes a model of what was given, whatever the formula and
\* whichever of the techniques run on it, one after the other in any order.
THEOREM ModelsAlwaysExtend == Spec /\ Covered(start) /\ OneThread(start) => []ModelsExtend
<1>1. Begin /\ Covered(start) /\ OneThread(start) => IndInv
  BY GoodBegin DEF IndInv
<1>2. IndInv /\ [Next]_<<vars, names, worker, pending>> => IndInv'
  BY NextKeeps
<1>3. IndInv => ModelsExtend
  BY GoodModels DEF IndInv
<1>4. QED
  BY <1>1, <1>2, <1>3, PTL DEF Spec
==============================================================================
