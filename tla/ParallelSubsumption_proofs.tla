---------------------- MODULE ParallelSubsumption_proofs ----------------------
(***************************************************************************)
(* Theorems about module ParallelSubsumption, for every finite set of      *)
(* variables, every set of threads and every problem, with deferred and    *)
(* with direct removal: two threads never change a clause that the other   *)
(* one is working with, all that is left follows from what was given, and  *)
(* if nothing stops the threads the core clauses that are left imply the   *)
(* core clauses that were given.                                           *)
(***************************************************************************)
EXTENDS ParallelSubsumption, FiniteSetTheorems, WellFoundedInduction, TLAPS

(* Numbers, literals, models *)

\* A nonempty set of numbers has a least element.
LEMMA LeastExists ==
    ASSUME NEW S \in SUBSET Nat, S # {}
    PROVE  \E x \in S : \A y \in S : x <= y
<1> DEFINE below == {0 .. x - 1 : x \in S}
<1>1. below \subseteq FiniteSubsetsOf(Nat)
  <2> SUFFICES ASSUME NEW x \in S PROVE 0 .. x - 1 \in FiniteSubsetsOf(Nat) OBVIOUS
  <2>1. IsFiniteSet(0 .. x - 1) BY FS_Interval
  <2> QED BY <2>1 DEF FiniteSubsetsOf
<1>2. below # {} OBVIOUS
<1>3. \E I \in below : \A J \in below : ~ (<<J, I>> \in StrictSubsetOrdering(Nat))
  BY <1>1, <1>2, FS_StrictSubsetOrderingWellFounded, WFMin
<1>4. PICK x \in S : \A y \in S : ~ (<<0 .. y - 1, 0 .. x - 1>> \in StrictSubsetOrdering(Nat))
  BY <1>3
<1>5. \A y \in S : x <= y
  <2> SUFFICES ASSUME NEW y \in S, y < x PROVE FALSE OBVIOUS
  <2>1. 0 .. y - 1 \in SUBSET Nat /\ 0 .. x - 1 \in SUBSET Nat OBVIOUS
  <2>2. 0 .. y - 1 \subseteq 0 .. x - 1 OBVIOUS
  <2>3. y \in 0 .. x - 1 /\ y \notin 0 .. y - 1 OBVIOUS
  <2> QED BY <1>4, <2>1, <2>2, <2>3 DEF StrictSubsetOrdering
<1> QED BY <1>5

LEMMA LitFacts ==
    ASSUME NEW l \in Lits
    PROVE  VarOf(l) \in Vars /\ VarOf(l) \in Nat /\ -l \in Lits /\ -(-l) = l /\ l # -l
<1>1. Vars \subseteq Nat \ {0} BY VarsAssumption
<1>2. \A m \in Lits : m \in Int /\ m # 0 /\ VarOf(m) \in Vars /\ -m \in Lits
  BY <1>1 DEF Lits, VarOf
<1>3. VarOf(l) \in Nat BY <1>1, <1>2
<1>4. l \in Int /\ l # 0 BY <1>2
<1>5. -(-l) = l /\ l # -l BY <1>4
<1> QED BY <1>2, <1>3, <1>5

\* A literal holds or its negation does.
LEMMA OneHolds ==
    ASSUME NEW A \in SUBSET Vars, NEW l \in Lits
    PROVE  Holds(A, -l) <=> ~ Holds(A, l)
<1>1. l \in Int /\ l # 0 BY VarsAssumption DEF Lits
<1>2. -(-l) = l BY <1>1
<1>3. CASE l > 0 BY <1>1, <1>2, <1>3 DEF Holds
<1>4. CASE l < 0 BY <1>1, <1>2, <1>4 DEF Holds
<1> QED BY <1>1, <1>3, <1>4

LEMMA LitsFinite == IsFiniteSet(Lits) /\ IsFiniteSet(Vars) /\ Cardinality(Vars) \in Nat
<1> DEFINE neg == {-v : v \in Vars}
           f   == [v \in Vars |-> -v]
<1>1. IsFiniteSet(Vars) BY VarsAssumption
<1>2. f \in Surjection(Vars, neg) BY DEF Surjection
<1>3. IsFiniteSet(neg) BY <1>1, <1>2, FS_Surjection
<1>4. IsFiniteSet(Lits) BY <1>1, <1>3, FS_Union DEF Lits
<1> QED BY <1>1, <1>4, FS_CardinalityType

\* Literals none of which contradicts another one have different variables.
LEMMA FewLiterals ==
    ASSUME NEW V \in SUBSET Lits, \A l \in V : -l \notin V
    PROVE  IsFiniteSet(V) /\ Cardinality(V) <= Cardinality(Vars)
<1> DEFINE f == [l \in V |-> VarOf(l)]
<1>1. IsFiniteSet(V) BY LitsFinite, FS_Subset
<1>2. \A l, m \in V : VarOf(l) = VarOf(m) => l = m
  <2> SUFFICES ASSUME NEW l \in V, NEW m \in V, VarOf(l) = VarOf(m) PROVE l = m OBVIOUS
  <2>1. l \in Int /\ m \in Int BY VarsAssumption DEF Lits
  <2>2. m = l \/ m = -l BY <2>1 DEF VarOf
  <2> QED BY <2>2
<1>3. f \in [V -> Vars] BY LitFacts
<1>4. f \in Injection(V, Vars) BY <1>2, <1>3 DEF Injection, IsInjective
<1>5. Cardinality(V) <= Cardinality(Vars) BY <1>4, LitsFinite, FS_Injection
<1> QED BY <1>1, <1>5

-----------------------------------------------------------------------------
(* Propagation *)

\* The literals that clauses of F imply when those of V are true.
UnitsOf(F, V) == {l \in UNION F : \E C \in F : l \in C /\ Negated(C \ {l}) \subseteq V}

\* The rounds of propagation.
Rounds(F, U, a) ==
    LET n == Cardinality(Vars) + 1
    IN  /\ a \in [0 .. n -> SUBSET Lits]
        /\ a[0] = U
        /\ \A k \in 0 .. n - 1 : a[k + 1] = a[k] \cup UnitsOf(F, a[k])
        /\ UnitsFrom(F, U) = a[n]

LEMMA RoundsExist ==
    ASSUME NEW F \in Formula, NEW U \in SUBSET Lits
    PROVE  \E a : Rounds(F, U, a)
<1> DEFINE n == Cardinality(Vars) + 1
           Implied(V) == {l \in UNION F : \E C \in F : l \in C /\ Negated(C \ {l}) \subseteq V}
           after[k \in 0 .. n] ==
               IF k = 0 THEN U ELSE UNION {V \cup Implied(V) : V \in {after[k - 1]}}
           Def(g, m) == g = [k \in 0 .. m |->
               IF k = 0 THEN U ELSE UNION {V \cup Implied(V) : V \in {g[k - 1]}}]
           Missing == {m \in Nat : ~ \E g : Def(g, m)}
<1>1. n \in Nat /\ n > 0 BY LitsFinite
<1>2. UnitsFrom(F, U) = after[n] BY DEF UnitsFrom
<1> HIDE DEF Implied
<1>3. Missing = {}
  <2> SUFFICES ASSUME Missing # {} PROVE FALSE OBVIOUS
  <2>1. PICK m \in Missing : \A j \in Missing : m <= j
    <3>1. Missing \in SUBSET Nat OBVIOUS
    <3> HIDE DEF Missing
    <3> QED BY <3>1, LeastExists
  <2>2. m \in Nat /\ ~ \E g : Def(g, m) OBVIOUS
  <2>3. CASE m = 0
    <3> DEFINE h == [k \in 0 .. 0 |-> U]
    <3>1. \A g : Def(g, 0) <=> g = h OBVIOUS
    <3> QED BY <2>2, <2>3, <3>1
  <2>4. CASE m # 0
    <3>1. m - 1 \in Nat /\ m - 1 \notin Missing
      <4> HIDE DEF Missing
      <4>1. m - 1 \in Nat /\ ~ (m <= m - 1) BY <2>2, <2>4
      <4> QED BY <2>1, <4>1
    <3>2. PICK g : Def(g, m - 1) BY <3>1
    <3> DEFINE h == [k \in 0 .. m |-> IF k = m THEN UNION {V \cup Implied(V) : V \in {g[m - 1]}} ELSE g[k]]
    <3>3. Def(h, m)
      <4>1. \A k \in 0 .. m - 1 : h[k] = g[k] BY <2>2
      <4>2. \A k \in 0 .. m - 1 : g[k] = IF k = 0 THEN U ELSE UNION {V \cup Implied(V) : V \in {g[k - 1]}}
        BY <3>2
      <4>3. \A k \in 0 .. m : h[k] = IF k = 0 THEN U ELSE UNION {V \cup Implied(V) : V \in {h[k - 1]}}
        <5> SUFFICES ASSUME NEW k \in 0 .. m
                     PROVE h[k] = IF k = 0 THEN U ELSE UNION {V \cup Implied(V) : V \in {h[k - 1]}}
          OBVIOUS
        <5>1. CASE k = m
          <6>1. k # 0 /\ m - 1 \in 0 .. m - 1 /\ k - 1 = m - 1 BY <2>2, <2>4, <5>1
          <6>2. h[k - 1] = g[m - 1] BY <4>1, <6>1
          <6>3. h[k] = UNION {V \cup Implied(V) : V \in {g[m - 1]}} BY <5>1
          <6> QED BY <6>1, <6>2, <6>3
        <5>2. CASE k # m
          <6>1. k \in 0 .. m - 1 BY <2>2, <5>2
          <6>2. CASE k = 0 BY <4>1, <4>2, <6>1, <6>2
          <6>3. CASE k # 0
            <7>1. k - 1 \in 0 .. m - 1 BY <2>2, <6>1, <6>3
            <7>2. h[k - 1] = g[k - 1] /\ h[k] = g[k] BY <4>1, <6>1, <7>1
            <7> QED BY <4>2, <6>1, <6>3, <7>2
          <6> QED BY <6>2, <6>3
        <5> QED BY <5>1, <5>2
      <4> HIDE DEF h
      <4>4. h = [k \in 0 .. m |-> h[k]] BY DEF h
      <4> QED BY <4>3, <4>4
    <3> QED BY <2>2, <3>3
  <2> QED BY <2>3, <2>4
<1>4. \E g : Def(g, n) BY <1>1, <1>3
<1>5. Def(after, n) BY <1>4
<1> HIDE DEF after
<1>6. after[0] = U BY <1>1, <1>5
<1>7. \A k \in 0 .. n - 1 : after[k + 1] = after[k] \cup UnitsOf(F, after[k])
  <2> SUFFICES ASSUME NEW k \in 0 .. n - 1
               PROVE  after[k + 1] = after[k] \cup UnitsOf(F, after[k])
    OBVIOUS
  <2>1. k + 1 \in 0 .. n /\ k + 1 # 0 /\ (k + 1) - 1 = k BY <1>1
  <2>2. after[k + 1] = UNION {V \cup Implied(V) : V \in {after[(k + 1) - 1]}}
    BY <1>5, <2>1
  <2>3. after[k + 1] = after[k] \cup Implied(after[k]) BY <2>1, <2>2
  <2> QED BY <2>3 DEF UnitsOf, Implied
<1>8. \A k \in 0 .. n : after[k] \in SUBSET Lits
  <2> DEFINE Bad == {k \in 0 .. n : after[k] \notin SUBSET Lits}
  <2> SUFFICES ASSUME Bad # {} PROVE FALSE OBVIOUS
  <2>1. PICK m \in Bad : \A j \in Bad : m <= j
    <3>1. Bad \in SUBSET Nat BY <1>1
    <3> HIDE DEF Bad
    <3> QED BY <3>1, LeastExists
  <2>2. m # 0 BY <1>6, <2>1
  <2>3. m - 1 \in 0 .. n - 1 /\ (m - 1) + 1 = m /\ m - 1 \in 0 .. n /\ m - 1 < m BY <1>1, <2>2
  <2>4. after[m - 1] \in SUBSET Lits BY <2>1, <2>3
  <2>5. after[m] = after[m - 1] \cup UnitsOf(F, after[m - 1]) BY <1>7, <2>3
  <2>6. UnitsOf(F, after[m - 1]) \subseteq Lits BY DEF UnitsOf, Formula, Clause
  <2> QED BY <2>4, <2>5, <2>6
<1>9. after \in [0 .. n -> SUBSET Lits]
  <2>1. after = [k \in 0 .. n |-> after[k]] BY <1>5
  <2> QED BY <1>8, <2>1
<1>10. Rounds(F, U, after) BY <1>2, <1>6, <1>7, <1>9 DEF Rounds
<1> QED BY <1>10

\* What is propagated contains the trail, and holds where the clauses and the
\* trail hold.
LEMMA UnitsHold ==
    ASSUME NEW F \in Formula, NEW U \in SUBSET Lits
    PROVE  /\ UnitsFrom(F, U) \in SUBSET Lits
           /\ U \subseteq UnitsFrom(F, U)
           /\ \A A \in SUBSET Vars :
                 IsModel(A, F) /\ (\A l \in U : Holds(A, l))
                 => \A l \in UnitsFrom(F, U) : Holds(A, l)
<1> DEFINE n == Cardinality(Vars) + 1
<1>1. PICK a : Rounds(F, U, a) BY RoundsExist
<1>2. n \in Nat /\ n \in 0 .. n BY LitsFinite
<1>3. /\ a \in [0 .. n -> SUBSET Lits] /\ a[0] = U /\ UnitsFrom(F, U) = a[n]
      /\ \A k \in 0 .. n - 1 : a[k + 1] = a[k] \cup UnitsOf(F, a[k])
  BY <1>1 DEF Rounds
<1> HIDE DEF n
<1>4. \A k \in 0 .. n : U \subseteq a[k]
  <2> DEFINE Bad == {k \in 0 .. n : ~ (U \subseteq a[k])}
  <2> SUFFICES ASSUME Bad # {} PROVE FALSE OBVIOUS
  <2>1. PICK m \in Bad : \A j \in Bad : m <= j
    <3>1. Bad \in SUBSET Nat BY <1>2
    <3> HIDE DEF Bad
    <3> QED BY <3>1, LeastExists
  <2>2. m # 0 BY <1>3, <2>1
  <2>3. m - 1 \in 0 .. n - 1 /\ (m - 1) + 1 = m /\ m - 1 \in 0 .. n /\ m - 1 < m BY <1>2, <2>2
  <2> QED BY <1>3, <2>1, <2>3
<1>5. ASSUME NEW A \in SUBSET Vars, IsModel(A, F), \A l \in U : Holds(A, l),
             NEW V \in SUBSET Lits, \A l \in V : Holds(A, l), NEW l \in UnitsOf(F, V)
      PROVE  Holds(A, l)
  <2>1. PICK C \in F : l \in C /\ Negated(C \ {l}) \subseteq V BY <1>5 DEF UnitsOf
  <2>2. PICK k \in C : Holds(A, k) BY <1>5 DEF IsModel, Sat
  <2>3. ASSUME k # l PROVE FALSE
    <3>1. k \in Lits BY DEF Formula, Clause
    <3>2. -k \in V BY <2>1, <2>3 DEF Negated
    <3> QED BY <1>5, <2>2, <3>1, <3>2, OneHolds
  <2> QED BY <2>2, <2>3
<1>6. ASSUME NEW A \in SUBSET Vars, IsModel(A, F), \A l \in U : Holds(A, l)
      PROVE  \A k \in 0 .. n : \A l \in a[k] : Holds(A, l)
  <2> DEFINE Bad == {k \in 0 .. n : ~ \A l \in a[k] : Holds(A, l)}
  <2> SUFFICES ASSUME Bad # {} PROVE FALSE OBVIOUS
  <2>1. PICK m \in Bad : \A j \in Bad : m <= j
    <3>1. Bad \in SUBSET Nat BY <1>2
    <3> HIDE DEF Bad
    <3> QED BY <3>1, LeastExists
  <2>2. m # 0 BY <1>3, <1>6, <2>1
  <2>3. m - 1 \in 0 .. n - 1 /\ (m - 1) + 1 = m /\ m - 1 \in 0 .. n /\ m - 1 < m BY <1>2, <2>2
  <2>4. a[m - 1] \in SUBSET Lits /\ \A l \in a[m - 1] : Holds(A, l) BY <1>3, <2>1, <2>3
  <2>5. \A l \in UnitsOf(F, a[m - 1]) : Holds(A, l) BY <1>5, <1>6, <2>4
  <2>6. a[m] = a[m - 1] \cup UnitsOf(F, a[m - 1]) BY <1>3, <2>3
  <2> QED BY <2>1, <2>4, <2>5, <2>6
<1> QED BY <1>2, <1>3, <1>4, <1>6

\* Without a contradiction, nothing is left to propagate after as many rounds
\* as there are variables, and one more.
LEMMA NothingLeft ==
    ASSUME NEW F \in Formula, NEW U \in SUBSET Lits,
           \A l \in UnitsFrom(F, U) : -l \notin UnitsFrom(F, U)
    PROVE  UnitsOf(F, UnitsFrom(F, U)) \subseteq UnitsFrom(F, U)
<1> DEFINE n == Cardinality(Vars) + 1
<1>1. PICK a : Rounds(F, U, a) BY RoundsExist
<1>2. n \in Nat /\ n \in 0 .. n BY LitsFinite
<1>3. /\ a \in [0 .. n -> SUBSET Lits] /\ a[0] = U /\ UnitsFrom(F, U) = a[n]
      /\ \A k \in 0 .. n - 1 : a[k + 1] = a[k] \cup UnitsOf(F, a[k])
  BY <1>1 DEF Rounds
<1>4. Cardinality(a[n]) < n
  BY <1>2, <1>3, FewLiterals, LitsFinite, FS_CardinalityType
<1> HIDE DEF n
<1> DEFINE Closed(k) == UnitsOf(F, a[k]) \subseteq a[k]
           Bad == {k \in 0 .. n : ~ (Closed(k) \/ Cardinality(a[k]) >= k)}
<1>5. \A k \in 0 .. n : IsFiniteSet(a[k]) /\ Cardinality(a[k]) \in Nat
  BY <1>3, LitsFinite, FS_Subset, FS_CardinalityType
<1>6. Bad = {}
  <2> SUFFICES ASSUME Bad # {} PROVE FALSE OBVIOUS
  <2>1. PICK m \in Bad : \A j \in Bad : m <= j
    <3>1. Bad \in SUBSET Nat BY <1>2
    <3> HIDE DEF Bad
    <3> QED BY <3>1, LeastExists
  <2>2. m # 0 BY <1>2, <1>5, <2>1
  <2>3. m - 1 \in 0 .. n - 1 /\ (m - 1) + 1 = m /\ m - 1 \in 0 .. n /\ m - 1 < m /\ m \in 0 .. n
    BY <1>2, <2>2
  <2>4. Closed(m - 1) \/ Cardinality(a[m - 1]) >= m - 1 BY <2>1, <2>3
  <2>5. a[m] = a[m - 1] \cup UnitsOf(F, a[m - 1]) BY <1>3, <2>3
  <2>6. CASE Closed(m - 1)
    <3>1. a[m] = a[m - 1] BY <2>5, <2>6
    <3>2. Closed(m) BY <2>6, <3>1
    <3> QED BY <2>1, <3>2
  <2>7. CASE ~ Closed(m - 1)
    <3>1. a[m - 1] \subseteq a[m] /\ a[m - 1] # a[m] BY <2>5, <2>7
    <3>2. Cardinality(a[m - 1]) <= Cardinality(a[m]) /\ Cardinality(a[m - 1]) # Cardinality(a[m])
      BY <1>5, <2>3, <3>1, FS_Subset
    <3>3. Cardinality(a[m]) >= m BY <1>2, <1>5, <2>3, <2>4, <2>7, <3>2
    <3> QED BY <2>1, <3>3
  <2> QED BY <2>6, <2>7
<1>7. Closed(n) \/ Cardinality(a[n]) >= n BY <1>2, <1>6
<1>8. Closed(n) BY <1>2, <1>4, <1>5, <1>7
<1> QED BY <1>3, <1>8

-----------------------------------------------------------------------------
(* Types *)

Jobs   == {"none", "subsume", "strengthen"}
Places == {"idle", "take", "back", "visit", "spin", "locked", "write", "lock", "lockOther", "check"}

ClausesType ==
    /\ start \in Problems
    /\ lits \in [DOMAIN start.lits -> Clause]
    /\ \A c \in Refs : Cardinality(lits[c]) > 1
    /\ learnt \subseteq Refs /\ deleted \subseteq Refs
    /\ units \in SUBSET Lits /\ ok \in BOOLEAN

QueuesType ==
    /\ subsume \subseteq Refs /\ strengthen \subseteq Refs /\ queue \subseteq Refs
    /\ toDelete \subseteq Refs /\ setNonLearnt \subseteq Refs
    /\ job \in Jobs

ThreadsType ==
    /\ pc \in [Threads -> Places]
    /\ cls \in [Threads -> Refs \cup {0}] /\ other \in [Threads -> Refs \cup {0}]
    /\ rest \in [Threads -> SUBSET Refs] /\ local \in [Threads -> SUBSET Refs]
    /\ inherits \in [Threads -> BOOLEAN]
    /\ fst \in [Threads -> Vars \cup {0}] /\ d_fst \in [Threads -> Vars \cup {0}]
    /\ lockOf \in [Vars -> Threads \cup {0}]
    /\ read \in [Threads -> SUBSET {"bit", "deleted"}]

\* Where the threads are in each job, and which clauses they have there.
PlacesInv ==
    \A t \in Threads :
        /\ job = "none" => pc[t] = "idle"
        /\ job = "subsume" => pc[t] \in {"take", "back", "visit", "spin", "locked", "write"}
        /\ job = "strengthen" => pc[t] \in {"take", "back", "lock", "visit", "lockOther", "check"}
        /\ pc[t] \in {"visit", "spin", "locked", "write", "lock", "lockOther", "check"} => cls[t] \in Refs
        /\ pc[t] \in {"spin", "locked", "lockOther", "check"} => other[t] \in Refs
        /\ pc[t] \in {"lock", "lockOther", "check"} => fst[t] \in Vars
        /\ job = "strengthen" /\ pc[t] = "visit" => fst[t] \in Vars
        /\ pc[t] \in {"lockOther", "check"} => d_fst[t] \in Vars

TypeInv == ClausesType /\ QueuesType /\ ThreadsType /\ PlacesInv

\* What a clause is.
LEMMA ClauseFacts ==
    ASSUME ClausesType, NEW c \in Refs
    PROVE  /\ c \in Nat /\ lits[c] \subseteq Lits /\ IsFiniteSet(lits[c])
           /\ Cardinality(lits[c]) \in Nat /\ Cardinality(lits[c]) > 1 /\ lits[c] # {}
           /\ Refs = DOMAIN start.lits
<1>1. Refs = DOMAIN start.lits /\ lits[c] \subseteq Lits BY DEF ClausesType, Refs, Clause
<1>2. c \in Nat BY <1>1, ProblemsAssumption DEF ClausesType
<1>3. IsFiniteSet(lits[c]) /\ Cardinality(lits[c]) \in Nat
  BY <1>1, LitsFinite, FS_Subset, FS_CardinalityType
<1>4. Cardinality(lits[c]) > 1 BY DEF ClausesType
<1>5. lits[c] # {} BY <1>3, <1>4, FS_EmptySet
<1> QED BY <1>1, <1>2, <1>3, <1>4, <1>5

\* The smallest variable of a clause is one of the formula.
LEMMA FirstFacts ==
    ASSUME ClausesType, NEW c \in Refs
    PROVE  First(c) \in Vars
<1> DEFINE S == {VarOf(l) : l \in lits[c]}
<1>1. S \in SUBSET Nat /\ S # {} /\ S \subseteq Vars BY ClauseFacts, LitFacts
<1> HIDE DEF S
<1>2. \E x \in S : \A y \in S : x <= y BY <1>1, LeastExists
<1>3. Min(S) \in S BY <1>2 DEF Min
<1>4. First(c) = Min(S) BY DEF First, S
<1> QED BY <1>1, <1>3, <1>4

\* A clause of two literals becomes a unit, a longer one keeps two at least.
LEMMA ShorterClause ==
    ASSUME ClausesType, NEW d \in Refs, NEW m \in lits[d],
           NEW unit, unit = CHOOSE k \in lits[d] : k # m
    PROVE  /\ Cardinality(lits[d]) = 2 => unit \in lits[d] /\ lits[d] = {m, unit}
           /\ Cardinality(lits[d]) # 2 =>
                 lits[d] \ {m} \in Clause /\ Cardinality(lits[d] \ {m}) > 1
<1>1. IsFiniteSet(lits[d]) /\ Cardinality(lits[d]) > 1 /\ Cardinality(lits[d]) \in Nat /\ lits[d] \subseteq Lits
  BY ClauseFacts
<1>2. Cardinality(lits[d] \ {m}) = Cardinality(lits[d]) - 1 /\ IsFiniteSet(lits[d] \ {m})
  BY <1>1, FS_RemoveElement
<1>3. CASE Cardinality(lits[d]) = 2
  <2>1. Cardinality(lits[d] \ {m}) = 1 BY <1>2, <1>3
  <2>2. PICK x : lits[d] \ {m} = {x} BY <1>2, <2>1, FS_Singleton
  <2>3. unit = x BY <2>2
  <2> QED BY <1>1, <1>3, <2>2, <2>3
<1>4. CASE Cardinality(lits[d]) # 2 BY <1>1, <1>2, <1>4 DEF Clause
<1> QED BY <1>3, <1>4

\* What a thread does to the formula when it checks a clause.
Unit(t, l)   == LET d == other[t] IN
    /\ Cardinality(lits[d]) = 2
    /\ \E unit \in lits[d] :
          /\ lits[d] = {-l, unit}
          /\ \/ -unit \in units /\ ok' = FALSE /\ UNCHANGED units
             \/ units' = units \cup {unit} /\ UNCHANGED ok
    /\ deleted' = deleted \cup {d} /\ UNCHANGED <<lits, subsume, local>>
Shortens(t, l) == LET d == other[t] IN
    /\ Cardinality(lits[d]) # 2
    /\ lits' = [lits EXCEPT ![d] = @ \ {-l}] /\ subsume' = subsume \cup {d}
    /\ local' = local \/ local' = [local EXCEPT ![t] = @ \cup {d}]
    /\ UNCHANGED <<deleted, units, ok>>

LEMMA CheckFacts ==
    ASSUME TypeInv, NEW t \in Threads, Check(t)
    PROVE  /\ cls[t] \in Refs /\ other[t] \in Refs
           /\ \/ UNCHANGED <<lits, deleted, units, ok, subsume, local>>
              \/ \E l \in lits[cls[t]] :
                    /\ -l \in lits[other[t]] /\ lits[cls[t]] \ {l} \subseteq lits[other[t]]
                    /\ Unit(t, l) \/ Shortens(t, l)
           /\ pc' = [pc EXCEPT ![t] = "visit"] \/ pc' = [pc EXCEPT ![t] = "back"]
           /\ \E V \in {{d_fst[t]} \ {fst[t]}, {fst[t], d_fst[t]}} :
                 /\ Free(t, V)
                 /\ fst[t] \in V => pc' = [pc EXCEPT ![t] = "back"]
<1>1. cls[t] \in Refs /\ other[t] \in Refs /\ ClausesType BY DEF TypeInv, PlacesInv, Check
<1>2. CASE ~ \E l \in lits[cls[t]] : Resolves(cls[t], other[t], l)
  BY <1>1, <1>2 DEF Check, Goes
<1>3. CASE \E l \in lits[cls[t]] : Resolves(cls[t], other[t], l)
  <2>1. PICK l \in lits[cls[t]] : Resolves(cls[t], other[t], l) /\ Strengthens(t, l)
    BY <1>3 DEF Check
  <2>2. -l \in lits[other[t]] /\ lits[cls[t]] \ {l} \subseteq lits[other[t]] BY <2>1 DEF Resolves
  <2> DEFINE d == other[t]
  <2>3. CASE Cardinality(lits[d]) = 2
    <3> DEFINE unit == CHOOSE k \in lits[d] : k # -l
    <3>1. unit \in lits[d] /\ lits[d] = {-l, unit} BY <1>1, <2>2, <2>3, ShorterClause
    <3>2. /\ deleted' = deleted \cup {d} /\ UNCHANGED <<lits, subsume, local>>
          /\ \/ -unit \in units /\ ok' = FALSE /\ UNCHANGED units
                /\ pc' = [pc EXCEPT ![t] = "back"] /\ Free(t, {fst[t], d_fst[t]})
             \/ units' = units \cup {unit} /\ UNCHANGED ok
                /\ pc' = [pc EXCEPT ![t] = "visit"] /\ Free(t, {d_fst[t]} \ {fst[t]})
      BY <2>1, <2>3 DEF Strengthens, Goes
    <3> HIDE DEF unit
    <3>3. Unit(t, l) BY <2>3, <3>1, <3>2 DEF Unit
    <3> QED BY <1>1, <2>2, <3>2, <3>3
  <2>4. CASE Cardinality(lits[d]) # 2
    <3>1. /\ lits' = [lits EXCEPT ![d] = @ \ {-l}] /\ subsume' = subsume \cup {d}
          /\ local' = local \/ local' = [local EXCEPT ![t] = @ \cup {d}]
          /\ pc' = [pc EXCEPT ![t] = "visit"] /\ Free(t, {d_fst[t]} \ {fst[t]})
          /\ UNCHANGED <<deleted, units, ok>>
      BY <2>1, <2>4 DEF Strengthens, Goes
    <3>2. Shortens(t, l) BY <2>4, <3>1 DEF Shortens
    <3> QED BY <1>1, <2>2, <3>1, <3>2
  <2> QED BY <2>3, <2>4
<1> QED BY <1>2, <1>3


\* What is left when the units of strengthening are propagated.
Propagates(U) ==
    LET gone == {c \in Kept : lits[c] \cap U # {}}
    IN  /\ U \in SUBSET Lits /\ units \subseteq U
        /\ \A A \in SUBSET Vars :
              (\A c \in Kept : Sat(A, lits[c])) /\ (\A l \in units : Holds(A, l))
              => \A l \in U : Holds(A, l)
        /\ units' = U /\ deleted' = deleted \cup gone /\ ok' = TRUE
        /\ lits' = [c \in Refs |-> IF c \in Kept \ gone THEN Without(lits[c], U) ELSE lits[c]]
        /\ subsume' = subsume \cup {c \in Refs : lits'[c] # lits[c]}
        /\ \A c \in Refs : lits'[c] \in Clause /\ Cardinality(lits'[c]) > 1

LEMMA StrengthenedFacts ==
    ASSUME ClausesType, Strengthened
    PROVE  \/ /\ ok' = FALSE /\ UNCHANGED <<units, deleted, lits, subsume>>
              /\ ok => \A A \in SUBSET Vars :
                    ~ ((\A c \in Kept : Sat(A, lits[c])) /\ \A l \in units : Holds(A, l))
           \/ \E U : ok /\ Propagates(U)
<1> DEFINE F == {lits[c] : c \in Kept}
           U == UnitsFrom(F, units)
           gone == {c \in Kept : lits[c] \cap U # {}}
<1>1. CASE ~ (ok /\ ~ FailsWith(F, U))
  <2>1. ok' = FALSE /\ UNCHANGED <<units, deleted, lits, subsume>> BY <1>1 DEF Strengthened
  <2>2. ASSUME ok, NEW A \in SUBSET Vars, \A c \in Kept : Sat(A, lits[c]), \A l \in units : Holds(A, l)
        PROVE  FALSE
    <3>1. F \in Formula /\ units \in SUBSET Lits BY DEF ClausesType, Refs, Kept, Formula
    <3>2. IsModel(A, F) BY <2>2 DEF IsModel
    <3>3. (\E l \in U : -l \in U) \/ (\E C \in F : Negated(C) \subseteq U)
      BY <1>1, <2>2 DEF FailsWith
    <3> HIDE DEF F
    <3>4. U \in SUBSET Lits /\ \A l \in U : Holds(A, l) BY <2>2, <3>1, <3>2, UnitsHold
    <3> HIDE DEF U
    <3>5. CASE \E l \in U : -l \in U BY <3>4, <3>5, OneHolds
    <3>6. CASE \E C \in F : Negated(C) \subseteq U
      <4>1. PICK C \in F : Negated(C) \subseteq U BY <3>6
      <4>2. PICK l \in C : Holds(A, l) BY <3>2, <4>1 DEF IsModel, Sat
      <4>3. l \in Lits /\ -l \in U BY <3>1, <4>1 DEF Formula, Clause, Negated
      <4> QED BY <3>4, <4>2, <4>3, OneHolds
    <3> QED BY <3>3, <3>5, <3>6
  <2> HIDE DEF Kept
  <2> QED BY <2>1, <2>2
<1>2. CASE ok /\ ~ FailsWith(F, U)
  <2>1. /\ units' = U /\ deleted' = deleted \cup gone /\ ok' = TRUE
        /\ lits' = [c \in Refs |-> IF c \in Kept \ gone THEN Without(lits[c], U) ELSE lits[c]]
        /\ subsume' = subsume \cup {c \in Refs : lits'[c] # lits[c]}
    BY <1>2 DEF Strengthened
  <2>2. F \in Formula /\ units \in SUBSET Lits BY DEF ClausesType, Refs, Kept, Formula
  <2>3. /\ \A l \in U : -l \notin U
        /\ \A C \in F : ~ (Negated(C) \subseteq U)
    BY <1>2 DEF FailsWith
  <2> HIDE DEF F
  <2>4. /\ U \in SUBSET Lits /\ units \subseteq U
        /\ \A A \in SUBSET Vars :
              IsModel(A, F) /\ (\A l \in units : Holds(A, l)) => \A l \in U : Holds(A, l)
    BY <2>2, UnitsHold
  <2>5. UnitsOf(F, U) \subseteq U BY <2>2, <2>3, NothingLeft
  <2> HIDE DEF U
  <2>6. ASSUME NEW c \in Kept \ gone
        PROVE  Without(lits[c], U) \in Clause /\ Cardinality(Without(lits[c], U)) > 1
    <3> DEFINE W == Without(lits[c], U)
    <3>1. lits[c] \in F /\ lits[c] \subseteq Lits /\ IsFiniteSet(lits[c]) /\ lits[c] \cap U = {}
      BY <2>6, ClauseFacts DEF F, Kept
    <3>2. W \subseteq lits[c] /\ \A l \in lits[c] \ W : -l \in U
      <4> SUFFICES ASSUME NEW l \in lits[c], l \in Negated(U) PROVE -l \in U
        BY DEF Without
      <4>1. PICK k \in U : l = -k BY DEF Negated
      <4> QED BY <2>4, <4>1, LitFacts
    <3> HIDE DEF W
    <3>3. IsFiniteSet(W) /\ Cardinality(W) \in Nat BY <3>1, <3>2, FS_Subset, FS_CardinalityType
    <3>4. ASSUME Cardinality(W) = 0 PROVE FALSE
      <4>1. W = {} BY <3>3, <3>4, FS_EmptySet
      <4>2. Negated(lits[c]) \subseteq U BY <3>2, <4>1 DEF Negated
      <4> QED BY <2>3, <3>1, <4>2
    <3>5. ASSUME Cardinality(W) = 1 PROVE FALSE
      <4>1. PICK l : W = {l} BY <3>3, <3>5, FS_Singleton
      <4>2. Negated(lits[c] \ {l}) \subseteq U BY <3>2, <4>1 DEF Negated
      <4>3. l \in UnitsOf(F, U) BY <3>1, <3>2, <4>1, <4>2 DEF UnitsOf
      <4> QED BY <2>5, <3>1, <3>2, <4>1, <4>3
    <3>6. W \in Clause /\ Cardinality(W) > 1 BY <3>1, <3>2, <3>3, <3>4, <3>5 DEF Clause
    <3> QED BY <3>6 DEF W
  <2>7. \A c \in Refs : lits'[c] \in Clause /\ Cardinality(lits'[c]) > 1
    <3> SUFFICES ASSUME NEW c \in Refs PROVE lits'[c] \in Clause /\ Cardinality(lits'[c]) > 1
      OBVIOUS
    <3>1. lits[c] \in Clause /\ Cardinality(lits[c]) > 1 BY ClauseFacts DEF Clause
    <3> QED BY <2>1, <2>6, <3>1
  <2>8. \A A \in SUBSET Vars : (\A c \in Kept : Sat(A, lits[c])) => IsModel(A, F)
    BY DEF IsModel, F
  <2>9. Propagates(U)
    <3> HIDE DEF Kept
    <3> QED BY <2>1, <2>4, <2>7, <2>8 DEF Propagates
  <2> QED BY <1>2, <2>9
<1> QED BY <1>1, <1>2


LEMMA InitType == Init => TypeInv
<1> SUFFICES ASSUME Init PROVE TypeInv OBVIOUS
<1>1. /\ DOMAIN start.lits \subseteq Nat /\ start.lits \in [DOMAIN start.lits -> Clause]
      /\ \A c \in DOMAIN start.lits : Cardinality(start.lits[c]) > 1
      /\ start.learnt \subseteq DOMAIN start.lits
      /\ start.queues[1] \subseteq DOMAIN start.lits /\ start.queues[2] \subseteq DOMAIN start.lits
  BY ProblemsAssumption DEF Init
<1>2. ClausesType BY <1>1 DEF Init, ClausesType, Refs
<1>3. QueuesType BY <1>1 DEF Init, QueuesType, Refs, Jobs
<1>4. ThreadsType BY DEF Init, ThreadsType, Places
<1>5. PlacesInv BY DEF Init, PlacesInv
<1> QED BY <1>2, <1>3, <1>4, <1>5 DEF TypeInv

\* The master gives the threads a job, and ends it.
LEMMA StartType ==
    ASSUME TypeInv, Subsume \/ Strengthen
    PROVE  TypeInv'
<1>1. PICK name \in {"subsume", "strengthen"}, Q \in {subsume, strengthen} : Start(name, Q)
  BY DEF Subsume, Strengthen
<1>2. ClausesType' BY <1>1 DEF Start, TypeInv, ClausesType, Refs, formula
<1>3. QueuesType' BY <1>1 DEF Start, TypeInv, QueuesType, Refs, formula, later, Jobs
<1>4. ThreadsType'
  BY <1>1 DEF Start, TypeInv, ThreadsType, Refs, formula, scan, header, Places
<1>5. PlacesInv' BY <1>1 DEF Start, TypeInv, PlacesInv, Refs, formula, scan
<1> QED BY <1>2, <1>3, <1>4, <1>5 DEF TypeInv

LEMMA EndType ==
    ASSUME TypeInv, Subsumed \/ Strengthened
    PROVE  TypeInv'
<1>1. CASE Subsumed
  <2>1. ClausesType'
    BY <1>1 DEF Subsumed, SetFlags, TypeInv, ClausesType, QueuesType, Refs
  <2>2. QueuesType' BY <1>1 DEF Subsumed, TypeInv, QueuesType, Refs, Jobs
  <2>3. ThreadsType' BY <1>1 DEF Subsumed, TypeInv, ThreadsType, Refs, scan, header, Places
  <2>4. PlacesInv' BY <1>1 DEF Subsumed, PlacesInv
  <2> QED BY <2>1, <2>2, <2>3, <2>4 DEF TypeInv
<1>2. CASE Strengthened
  <2>1. /\ \A c \in Refs : lits'[c] \in Clause /\ Cardinality(lits'[c]) > 1
        /\ Refs' = Refs /\ lits' \in [DOMAIN start.lits -> Clause]
        /\ units' \in SUBSET Lits /\ deleted' \subseteq Refs /\ ok' \in BOOLEAN
        /\ subsume' \subseteq Refs
    <3>1. CASE ok' = FALSE /\ UNCHANGED <<units, deleted, lits, subsume>>
      BY <3>1 DEF TypeInv, ClausesType, QueuesType, Refs
    <3>2. CASE \E U : Propagates(U)
      BY <3>2 DEF TypeInv, ClausesType, QueuesType, Refs, Kept, Propagates
    <3> QED BY <1>2, <3>1, <3>2, StrengthenedFacts DEF TypeInv
  <2>2. ClausesType'
    BY <1>2, <2>1 DEF Strengthened, TypeInv, ClausesType
  <2>3. QueuesType' BY <1>2, <2>1 DEF Strengthened, TypeInv, QueuesType, Jobs, later
  <2>4. ThreadsType'
    BY <1>2, <2>1 DEF Strengthened, TypeInv, ThreadsType, scan, header, Places
  <2>5. PlacesInv' BY <1>2 DEF Strengthened, PlacesInv
  <2> QED BY <2>2, <2>3, <2>4, <2>5 DEF TypeInv
<1> QED BY <1>1, <1>2

\* Steps of a thread that leave the clauses alone.
LEMMA TakeType ==
    ASSUME TypeInv, NEW t \in Threads,
           Back(t) \/ \E c \in Refs : Skip(t, c) \/ TakeSubsumer(t, c) \/ TakeStrengthener(t, c)
    PROVE  TypeInv'
<1> SUFFICES ASSUME NEW c \in Refs \cup {0},
                    Back(t) \/ (c \in Refs /\ (Skip(t, c) \/ TakeSubsumer(t, c) \/ TakeStrengthener(t, c)))
             PROVE  TypeInv'
  OBVIOUS
<1>1. UNCHANGED <<formula, master, later, lockOf, header>> /\ Refs' = Refs
  BY DEF Skip, TakeSubsumer, TakeStrengthener, Back, formula, Refs, Goes
<1>2. ClausesType' BY <1>1 DEF TypeInv, ClausesType, formula, master
<1>3. queue' \subseteq Refs /\ local' \in [Threads -> SUBSET Refs]
  BY DEF TypeInv, QueuesType, ThreadsType, Skip, TakeSubsumer, TakeStrengthener, Back, Take
<1>4. QueuesType' BY <1>1, <1>3 DEF TypeInv, QueuesType, master, later
<1>5. c \in Refs => First(c) \in Vars BY FirstFacts DEF TypeInv
<1>6. ThreadsType' /\ PlacesInv'
  <2>1. CASE Skip(t, c)
    BY <1>1, <1>3, <2>1 DEF Skip, TypeInv, ThreadsType, PlacesInv, scan, master, header
  <2>2. CASE Back(t)
    BY <1>1, <1>3, <2>2 DEF Back, Goes, TypeInv, ThreadsType, PlacesInv, scan, master, header, Places
  <2>3. CASE c \in Refs /\ TakeSubsumer(t, c)
    <3>1. ThreadsType'
      BY <1>1, <1>3, <2>3 DEF TakeSubsumer, Goes, TypeInv, ThreadsType, header, Places
    <3>2. PlacesInv'
      BY <1>1, <2>3 DEF TakeSubsumer, Goes, TypeInv, ThreadsType, PlacesInv, master
    <3> QED BY <3>1, <3>2
  <2>4. CASE c \in Refs /\ TakeStrengthener(t, c)
    <3>1. ThreadsType'
      BY <1>1, <1>3, <1>5, <2>4 DEF TakeStrengthener, Goes, TypeInv, ThreadsType, header, Places
    <3>2. PlacesInv'
      BY <1>1, <1>5, <2>4 DEF TakeStrengthener, Goes, TypeInv, ThreadsType, PlacesInv, master
    <3> QED BY <3>1, <3>2
  <2> QED BY <2>1, <2>2, <2>3, <2>4
<1> QED BY <1>2, <1>4, <1>6 DEF TypeInv

LEMMA SubsumeType ==
    ASSUME TypeInv, NEW t \in Threads,
           \/ \E d \in Refs : Visit(t, d)
           \/ SpinLock(t) \/ Delete(t) \/ EndVisits(t) \/ WriteFlags(t)
    PROVE  TypeInv'
<1>1. /\ UNCHANGED <<lits, learnt, units, ok, master, queue, local, lockOf>> /\ Refs' = Refs
  BY DEF Visit, SpinLock, Delete, EndVisits, WriteFlags, formula, Refs, Goes
<1>2. deleted' \subseteq Refs
  BY DEF Visit, SpinLock, Delete, EndVisits, WriteFlags, formula, TypeInv, ClausesType, PlacesInv
<1>3. ClausesType' BY <1>1, <1>2 DEF TypeInv, ClausesType, master
<1>4. CASE \E d \in Refs : Visit(t, d)
  <2>1. PICK d \in Refs : Visit(t, d) BY <1>4
  <2>2. cls[t] \in Refs /\ pc[t] = "visit" /\ job = "subsume"
    BY <2>1 DEF Visit, Visits, TypeInv, PlacesInv
  <2>3. /\ toDelete' \subseteq Refs /\ setNonLearnt' \subseteq Refs
        /\ UNCHANGED <<cls, fst, d_fst, read>>
        /\ rest' \in [Threads -> SUBSET Refs]
        /\ inherits' \in [Threads -> BOOLEAN]
        /\ \/ UNCHANGED <<pc, other>>
           \/ \E x \in Refs : /\ pc' = [pc EXCEPT ![t] = "spin"]
                              /\ other' = [other EXCEPT ![t] = x]
    BY <2>1, <2>2 DEF Visit, Visits, HandOver, Inherit, Removes, Goes, later, header, TypeInv,
                      QueuesType, ThreadsType
  <2>4. QueuesType' BY <1>1, <2>3 DEF TypeInv, QueuesType, master
  <2>5. ThreadsType' BY <1>1, <2>3 DEF TypeInv, ThreadsType, Places
  <2>6. PlacesInv' BY <1>1, <2>2, <2>3 DEF TypeInv, ThreadsType, PlacesInv, master
  <2> QED BY <1>3, <2>4, <2>5, <2>6 DEF TypeInv
<1>5. CASE SpinLock(t) \/ Delete(t)
  <2>1. UNCHANGED <<later, scan, read>> BY <1>5 DEF SpinLock, Delete
  <2>2. QueuesType' BY <1>1, <2>1 DEF TypeInv, QueuesType, master, later
  <2>3. ThreadsType'
    BY <1>1, <1>5, <2>1 DEF SpinLock, Delete, Goes, TypeInv, ThreadsType, scan, Places
  <2>4. job = "subsume" BY <1>5 DEF SpinLock, Delete, TypeInv, PlacesInv, QueuesType, Jobs
  <2>5. PlacesInv'
    BY <1>1, <1>5, <2>1, <2>4 DEF SpinLock, Delete, Goes, TypeInv, ThreadsType, PlacesInv, scan, master
  <2> QED BY <1>3, <2>2, <2>3, <2>5 DEF TypeInv
<1>6. CASE EndVisits(t)
  <2>1. /\ cls[t] \in Refs /\ pc[t] = "visit" /\ job = "subsume" /\ toDelete' = toDelete
    BY <1>6 DEF EndVisits, TypeInv, PlacesInv
  <2>2. setNonLearnt' \subseteq Refs BY <1>6, <2>1 DEF EndVisits, AddNonLearnt, TypeInv, QueuesType
  <2>3. QueuesType' BY <1>1, <2>1, <2>2 DEF TypeInv, QueuesType, master
  <2>4. ThreadsType'
    <3>1. CASE start.deferred \/ ~ start.word
      <4>1. Forget(t) /\ Goes(t, "take") /\ UNCHANGED read BY <1>6, <3>1 DEF EndVisits
      <4> QED BY <1>1, <4>1 DEF Goes, Forget, TypeInv, ThreadsType, Places
    <3>2. CASE start.word /\ ~ start.deferred
      BY <1>1, <1>6, <3>2 DEF EndVisits, Goes, TypeInv, ThreadsType, scan, Places
    <3> QED BY <3>1, <3>2
  <2>5. PlacesInv'
    BY <1>1, <1>6, <2>1 DEF EndVisits, Goes, Forget, TypeInv, ThreadsType, PlacesInv, scan, master
  <2> QED BY <1>3, <2>3, <2>4, <2>5 DEF TypeInv
<1>7. CASE WriteFlags(t)
  <2>1. UNCHANGED later BY <1>7 DEF WriteFlags
  <2>2. QueuesType' BY <1>1, <2>1 DEF TypeInv, QueuesType, master, later
  <2>3. ThreadsType' BY <1>1, <1>7 DEF WriteFlags, Goes, Forget, TypeInv, ThreadsType, Places
  <2>4. PlacesInv'
    BY <1>1, <1>7 DEF WriteFlags, Goes, Forget, TypeInv, ThreadsType, PlacesInv, master
  <2> QED BY <1>3, <2>2, <2>3, <2>4 DEF TypeInv
<1> QED BY <1>4, <1>5, <1>6, <1>7

LEMMA LockType ==
    ASSUME TypeInv, NEW t \in Threads,
           LockFirst(t) \/ LockOther(t) \/ EndStrengthening(t) \/ \E d \in Refs : LookAt(t, d)
    PROVE  TypeInv'
<1>1. UNCHANGED <<formula, master, queue, later, local, header>> /\ Refs' = Refs
  BY DEF LockFirst, LockOther, EndStrengthening, LookAt, formula, Refs, Goes
<1>2. ClausesType' BY <1>1 DEF TypeInv, ClausesType, formula, master
<1>3. QueuesType' BY <1>1 DEF TypeInv, QueuesType, master, later
<1>4. \A c \in Refs : First(c) \in Vars BY FirstFacts DEF TypeInv
<1>5. job = "strengthen"
  BY DEF LockFirst, LockOther, EndStrengthening, LookAt, TypeInv, PlacesInv, QueuesType, Jobs
<1>6. \A V : Free(t, V) => lockOf' \in [Vars -> Threads \cup {0}]
  BY DEF Free, TypeInv, ThreadsType
<1>7. CASE LockFirst(t)
  <2>1. cls[t] \in Refs /\ fst[t] \in Vars BY <1>7 DEF LockFirst, TypeInv, PlacesInv
  <2>2. ThreadsType'
    <3>1. CASE cls[t] \in deleted
      BY <1>1, <1>7, <3>1 DEF LockFirst, Goes, Forget, TypeInv, ThreadsType, header, Places
    <3>2. CASE cls[t] \notin deleted /\ First(cls[t]) # fst[t]
      BY <1>1, <1>4, <1>7, <2>1, <3>2 DEF LockFirst, TypeInv, ThreadsType, header
    <3>3. CASE cls[t] \notin deleted /\ First(cls[t]) = fst[t]
      <4>1. PICK R \in SUBSET Refs : rest' = [rest EXCEPT ![t] = R] BY <1>7, <3>3 DEF LockFirst
      <4>2. lockOf' = [lockOf EXCEPT ![fst[t]] = t] /\ pc' = [pc EXCEPT ![t] = "visit"]
            /\ UNCHANGED <<cls, other, inherits, fst, d_fst>>
        BY <1>7, <3>3 DEF LockFirst, Goes
      <4> QED BY <1>1, <4>1, <4>2 DEF TypeInv, ThreadsType, header, Places
    <3> QED BY <3>1, <3>2, <3>3
  <2>3. PlacesInv'
    BY <1>1, <1>4, <1>5, <1>7, <2>1 DEF LockFirst, Goes, Forget, TypeInv, ThreadsType, PlacesInv, master
  <2> QED BY <1>2, <1>3, <2>2, <2>3 DEF TypeInv
<1>8. CASE LockOther(t)
  <2>1. ThreadsType'
    BY <1>1, <1>8 DEF LockOther, Dropped, Goes, TypeInv, ThreadsType, header, Places
  <2>2. PlacesInv'
    BY <1>1, <1>5, <1>8 DEF LockOther, Dropped, Goes, TypeInv, ThreadsType, PlacesInv, master
  <2> QED BY <1>2, <1>3, <2>1, <2>2 DEF TypeInv
<1>9. CASE EndStrengthening(t)
  <2>1. ThreadsType'
    BY <1>1, <1>6, <1>9 DEF EndStrengthening, Goes, Forget, TypeInv, ThreadsType, header, Places
  <2>2. PlacesInv'
    BY <1>1, <1>5, <1>9 DEF EndStrengthening, Goes, Forget, TypeInv, ThreadsType, PlacesInv, master
  <2> QED BY <1>2, <1>3, <2>1, <2>2 DEF TypeInv
<1>10. CASE \E d \in Refs : LookAt(t, d)
  <2>1. PICK d \in Refs : LookAt(t, d) BY <1>10
  <2>2. ThreadsType'
    BY <1>1, <1>4, <2>1 DEF LookAt, Dropped, Goes, TypeInv, ThreadsType, header, Places
  <2>3. PlacesInv'
    BY <1>1, <1>4, <1>5, <2>1 DEF LookAt, Dropped, Goes, TypeInv, ThreadsType, PlacesInv, master
  <2> QED BY <1>2, <1>3, <2>2, <2>3 DEF TypeInv
<1> QED BY <1>7, <1>8, <1>9, <1>10

LEMMA CheckType ==
    ASSUME TypeInv, NEW t \in Threads, Check(t)
    PROVE  TypeInv'
<1>1. /\ UNCHANGED <<learnt, strengthen, job, start, queue, later, cls, other, inherits, fst, d_fst, header>>
      /\ rest' = [rest EXCEPT ![t] = @ \ {other[t]}] /\ pc[t] = "check"
  BY DEF Check, Dropped
<1>2. cls[t] \in Refs /\ other[t] \in Refs BY CheckFacts
<1>3. Refs' = Refs /\ deleted' \subseteq Refs /\ units' \in SUBSET Lits /\ ok' \in BOOLEAN
      /\ subsume' \subseteq Refs /\ local' \in [Threads -> SUBSET Refs]
      /\ lits' \in [DOMAIN start.lits -> Clause] /\ \A c \in Refs : Cardinality(lits'[c]) > 1
  <2>1. CASE UNCHANGED <<lits, deleted, units, ok, subsume, local>>
    BY <2>1 DEF TypeInv, ClausesType, QueuesType, ThreadsType, Refs
  <2>2. CASE \E l \in lits[cls[t]] : Unit(t, l)
    <3>1. PICK l \in lits[cls[t]] : Unit(t, l) BY <2>2
    <3>2. lits[other[t]] \subseteq Lits BY <1>2, ClauseFacts DEF TypeInv
    <3> QED BY <1>2, <3>1, <3>2 DEF Unit, TypeInv, ClausesType, QueuesType, ThreadsType, Refs
  <2>3. CASE \E l \in lits[cls[t]] : -l \in lits[other[t]] /\ Shortens(t, l)
    <3>1. PICK l \in lits[cls[t]] : -l \in lits[other[t]] /\ Shortens(t, l) BY <2>3
    <3>2. lits[other[t]] \ {-l} \in Clause /\ Cardinality(lits[other[t]] \ {-l}) > 1
      BY <1>2, <3>1, ShorterClause DEF Shortens, TypeInv
    <3>3. /\ UNCHANGED <<deleted, units, ok>>
          /\ lits' = [lits EXCEPT ![other[t]] = lits[other[t]] \ {-l}]
          /\ subsume' = subsume \cup {other[t]}
          /\ local' = local \/ local' = [local EXCEPT ![t] = @ \cup {other[t]}]
      BY <3>1 DEF Shortens
    <3> DEFINE D == lits[other[t]] \ {-l}
    <3>6. D \in Clause /\ Cardinality(D) > 1 BY <3>2
    <3>7. lits' = [lits EXCEPT ![other[t]] = D] BY <3>3
    <3> HIDE DEF D
    <3>8. lits \in [Refs -> Clause] /\ Refs = DOMAIN start.lits BY DEF TypeInv, ClausesType, Refs
    <3>9. lits' \in [Refs -> Clause] BY <1>2, <3>6, <3>7, <3>8
    <3>10. \A c \in Refs : lits'[c] = IF c = other[t] THEN D ELSE lits[c] BY <3>7, <3>8
    <3>11. \A c \in Refs : Cardinality(lits'[c]) > 1 BY <3>6, <3>10 DEF TypeInv, ClausesType
    <3>4. lits' \in [DOMAIN start.lits -> Clause] /\ Refs' = Refs
          /\ \A c \in Refs : Cardinality(lits'[c]) > 1
      BY <3>8, <3>9, <3>11 DEF Refs
    <3>5. local' \in [Threads -> SUBSET Refs] BY <1>2, <3>3 DEF TypeInv, ThreadsType
    <3>12. subsume' \subseteq Refs /\ deleted' \subseteq Refs /\ units' \in SUBSET Lits /\ ok' \in BOOLEAN
      BY <1>2, <3>3 DEF TypeInv, ClausesType, QueuesType
    <3> QED BY <3>4, <3>5, <3>12
  <2> QED BY <2>1, <2>2, <2>3, CheckFacts
<1>4. ClausesType' BY <1>1, <1>3 DEF TypeInv, ClausesType
<1>5. QueuesType' BY <1>1, <1>3 DEF TypeInv, QueuesType, later
<1>6. pc' = [pc EXCEPT ![t] = "visit"] \/ pc' = [pc EXCEPT ![t] = "back"] BY CheckFacts
<1>7. lockOf' \in [Vars -> Threads \cup {0}]
  BY CheckFacts DEF Free, TypeInv, ThreadsType
<1>8. ThreadsType' BY <1>1, <1>3, <1>6, <1>7 DEF TypeInv, ThreadsType, Places, header
<1>9. job = "strengthen" BY <1>1 DEF TypeInv, PlacesInv, QueuesType, Jobs
<1>10. PlacesInv' BY <1>1, <1>3, <1>6, <1>9 DEF TypeInv, ThreadsType, PlacesInv
<1> QED BY <1>4, <1>5, <1>8, <1>10 DEF TypeInv

LEMMA NextType == TypeInv /\ [Next]_vars => TypeInv'
<1> SUFFICES ASSUME TypeInv, [Next]_vars PROVE TypeInv' OBVIOUS
<1>1. CASE Master BY <1>1, StartType, EndType DEF Master
<1>2. CASE \E t \in Threads : Worker(t)
  <2>1. PICK t \in Threads : Worker(t) BY <1>2
  <2> QED BY <2>1, TakeType, SubsumeType, LockType, CheckType DEF Worker
<1>3. CASE Rest \/ UNCHANGED vars
  <2>1. UNCHANGED vars BY <1>3 DEF Rest
  <2> QED BY <2>1 DEF vars, formula, master, later, scan, header, TypeInv, ClausesType, QueuesType,
                      ThreadsType, PlacesInv, Refs
<1> QED BY <1>1, <1>2, <1>3 DEF Next

-----------------------------------------------------------------------------
(* The locks of the variables *)

\* Whoever strengthens with a clause holds the lock of its first variable, and
\* who changes one that of this clause's first variable as well: the clauses do not lose
\* it meanwhile.
HasLocks(t) ==
    /\ pc[t] \in {"visit", "lockOther", "check"} =>
          /\ lockOf[fst[t]] = t /\ First(cls[t]) = fst[t]
          /\ cls[t] \notin rest[t]
    /\ pc[t] \in {"lockOther", "check"} => other[t] # cls[t]
    /\ pc[t] = "check" => lockOf[d_fst[t]] = t /\ First(other[t]) = d_fst[t]

LockInv == job = "strengthen" => \A t \in Threads : HasLocks(t)

\* A lock has one holder, a clause one first variable.
LEMMA LocksSuffice == LockInv => OneAtATime
<1> SUFFICES ASSUME LockInv, job = "strengthen", NEW t \in Threads, NEW u \in Threads,
                    t # u, pc[t] = "check"
             PROVE  /\ pc[u] \in {"visit", "lockOther", "check"} => other[t] # cls[u]
                    /\ pc[u] = "check" => other[t] # other[u]
  BY DEF OneAtATime, Using
<1>1. lockOf[First(other[t])] = t BY DEF LockInv, HasLocks
<1>2. pc[u] \in {"visit", "lockOther", "check"} => lockOf[First(cls[u])] = u BY DEF LockInv, HasLocks
<1>3. pc[u] = "check" => lockOf[First(other[u])] = u BY DEF LockInv, HasLocks
<1> QED BY <1>1, <1>2, <1>3

\* Steps that change no clause
LEMMA QuietLocks ==
    ASSUME TypeInv, LockInv, NEW t \in Threads, UNCHANGED <<lits, job>>,
           \A u \in Threads \ {t} : UNCHANGED <<pc[u], cls[u], rest[u], other[u], fst[u], d_fst[u]>>,
           \A v \in Vars : lockOf[v] \notin {0, t} => lockOf'[v] = lockOf[v],
           job = "strengthen" =>
              /\ pc'[t] \in {"visit", "lockOther", "check"} =>
                    /\ lockOf'[fst'[t]] = t /\ First(cls'[t]) = fst'[t]
                    /\ cls'[t] \notin rest'[t]
              /\ pc'[t] \in {"lockOther", "check"} => other'[t] # cls'[t]
              /\ pc'[t] = "check" => lockOf'[d_fst'[t]] = t /\ First(other'[t]) = d_fst'[t]
    PROVE  LockInv'
<1> SUFFICES ASSUME job = "strengthen", NEW u \in Threads
             PROVE  HasLocks(u)'
  BY DEF LockInv
<1>1. /\ First(cls[u])' = First(cls'[u])
      /\ First(other[u])' = First(other'[u])
  BY DEF First
<1>2. CASE u = t BY <1>1, <1>2 DEF HasLocks
<1>3. CASE u # t
  <2>1. u # 0 BY ThreadsAssumption
  <2>2. /\ pc[u] \in {"visit", "lockOther", "check"} => fst[u] \in Vars
        /\ pc[u] = "check" => d_fst[u] \in Vars
    BY DEF TypeInv, PlacesInv
  <2>3. HasLocks(u) BY DEF LockInv
  <2>4. UNCHANGED <<pc[u], cls[u], rest[u], other[u], fst[u], d_fst[u]>> BY <1>3
  <2>5. /\ pc[u] \in {"visit", "lockOther", "check"} => lockOf'[fst[u]] = u
        /\ pc[u] = "check" => lockOf'[d_fst[u]] = u
    BY <1>3, <2>1, <2>2, <2>3 DEF HasLocks
  <2> QED BY <1>1, <2>3, <2>4, <2>5 DEF HasLocks
<1> QED BY <1>2, <1>3

LEMMA LockSteps ==
    ASSUME TypeInv, LockInv, NEW t \in Threads,
           LockFirst(t) \/ LockOther(t) \/ EndStrengthening(t) \/ \E d \in Refs : LookAt(t, d)
    PROVE  LockInv'
<1>1. UNCHANGED <<lits, job>>
  BY DEF LockFirst, LockOther, EndStrengthening, LookAt, formula, master
<1>2. job = "strengthen"
  BY DEF LockFirst, LockOther, EndStrengthening, LookAt, TypeInv, PlacesInv, QueuesType, Jobs
<1>3. \A V, v : v \in Vars /\ Free(t, V) /\ lockOf[v] # t => lockOf'[v] = lockOf[v]
  BY DEF Free
<1>4. \A u \in Threads \ {t} : UNCHANGED <<pc[u], cls[u], rest[u], other[u], fst[u], d_fst[u]>>
  <2>1. CASE LockFirst(t)
    BY <2>1 DEF LockFirst, Goes, Forget, TypeInv, ThreadsType
  <2>2. CASE LockOther(t)
    BY <2>2 DEF LockOther, Dropped, Goes, TypeInv, ThreadsType
  <2>3. CASE EndStrengthening(t)
    BY <2>3 DEF EndStrengthening, Goes, Forget, TypeInv, ThreadsType
  <2>4. CASE \E d \in Refs : LookAt(t, d)
    BY <2>4 DEF LookAt, Dropped, Goes, TypeInv, ThreadsType
  <2> QED BY <2>1, <2>2, <2>3, <2>4
<1>5. CASE LockFirst(t)
  <2>1. cls[t] \in Refs /\ fst[t] \in Vars BY <1>5 DEF LockFirst, TypeInv, PlacesInv
  <2>2. CASE pc'[t] \notin {"visit", "lockOther", "check"}
    <3>1. \A v \in Vars : lockOf[v] \notin {0, t} => lockOf'[v] = lockOf[v]
      BY <1>5, <2>1 DEF LockFirst, TypeInv, ThreadsType
    <3> QED BY <1>1, <1>4, <2>2, <3>1, QuietLocks
  <2>3. CASE pc'[t] \in {"visit", "lockOther", "check"}
    <3>1. PICK R \in SUBSET (Refs \ {cls[t]}) :
            /\ First(cls[t]) = fst[t]
            /\ lockOf' = [lockOf EXCEPT ![fst[t]] = t]
            /\ rest' = [rest EXCEPT ![t] = R] /\ pc' = [pc EXCEPT ![t] = "visit"]
            /\ UNCHANGED <<cls, other, inherits, fst, d_fst>>
      BY <1>5, <2>3 DEF LockFirst, Goes, TypeInv, ThreadsType
    <3>2. lockOf[fst[t]] = 0 BY <1>5 DEF LockFirst
    <3>3. /\ \A v \in Vars : lockOf[v] \notin {0, t} => lockOf'[v] = lockOf[v]
          /\ lockOf'[fst[t]] = t /\ rest'[t] = R /\ pc'[t] = "visit"
      BY <2>1, <3>1, <3>2 DEF TypeInv, ThreadsType
    <3> QED BY <1>1, <1>4, <3>1, <3>3, QuietLocks
  <2> QED BY <2>2, <2>3
<1>6. CASE LockOther(t)
  <2>1. /\ pc[t] = "lockOther" /\ d_fst[t] \in Vars /\ lockOf[d_fst[t]] = 0
        /\ UNCHANGED <<cls, other, fst, d_fst>>
    BY <1>6 DEF LockOther, TypeInv, PlacesInv
  <2>2. /\ lockOf[fst[t]] = t /\ First(cls[t]) = fst[t] /\ cls[t] \notin rest[t]
        /\ other[t] # cls[t] /\ fst[t] \in Vars
    BY <1>2, <2>1 DEF LockInv, HasLocks, TypeInv, PlacesInv
  <2>3. rest'[t] \subseteq rest[t]
    BY <1>6 DEF LockOther, Dropped, TypeInv, ThreadsType
  <2>4. \/ pc'[t] = "visit" /\ UNCHANGED lockOf
        \/ /\ pc'[t] = "check" /\ lockOf' = [lockOf EXCEPT ![d_fst[t]] = t]
           /\ First(other[t]) = d_fst[t]
    BY <1>6 DEF LockOther, Goes, StillFirst, TypeInv, ThreadsType
  <2>5. d_fst[t] # fst[t] BY <2>1, <2>2, ThreadsAssumption
  <2>6. /\ lockOf'[fst[t]] = t
        /\ \A v \in Vars : lockOf[v] \notin {0, t} => lockOf'[v] = lockOf[v]
        /\ pc'[t] = "check" => lockOf'[d_fst[t]] = t /\ First(other[t]) = d_fst[t]
    BY <2>1, <2>2, <2>4, <2>5 DEF TypeInv, ThreadsType
  <2> QED BY <1>1, <1>4, <2>1, <2>2, <2>3, <2>4, <2>6, QuietLocks
<1>7. CASE EndStrengthening(t)
  <2>1. pc'[t] = "take" BY <1>7 DEF EndStrengthening, Goes, TypeInv, ThreadsType
  <2>2. \A v \in Vars : lockOf[v] \notin {0, t} => lockOf'[v] = lockOf[v]
    BY <1>3, <1>7 DEF EndStrengthening
  <2> QED BY <1>1, <1>4, <2>1, <2>2, QuietLocks
<1>8. CASE \E d \in Refs : LookAt(t, d)
  <2>1. PICK d \in Refs : LookAt(t, d) BY <1>8
  <2>2. pc[t] = "visit" /\ d \in rest[t] /\ UNCHANGED <<lockOf, cls, fst>>
    BY <2>1 DEF LookAt
  <2>3. /\ lockOf[fst[t]] = t /\ First(cls[t]) = fst[t] /\ cls[t] \notin rest[t] /\ fst[t] \in Vars
    BY <1>2, <2>2 DEF LockInv, HasLocks, TypeInv, PlacesInv
  <2>4. CASE pc'[t] = "visit"
    <3>1. rest'[t] \subseteq rest[t] BY <2>1 DEF LookAt, Dropped, TypeInv, ThreadsType
    <3> QED BY <1>1, <1>4, <2>2, <2>3, <2>4, <3>1, QuietLocks
  <2>5. CASE pc'[t] # "visit"
    <3>1. /\ rest' = rest /\ other'[t] = d /\ d_fst'[t] = First(d)
          /\ pc'[t] \in {"check", "lockOther"} /\ (pc'[t] = "check" => First(d) = fst[t])
      BY <2>1, <2>2, <2>5 DEF LookAt, Goes, TypeInv, ThreadsType
    <3> QED BY <1>1, <1>4, <2>2, <2>3, <3>1, QuietLocks
  <2> QED BY <2>4, <2>5
<1> QED BY <1>5, <1>6, <1>7, <1>8

LEMMA CheckLocks ==
    ASSUME TypeInv, LockInv, NEW t \in Threads, Check(t)
    PROVE  LockInv'
<1>1. /\ pc[t] = "check" /\ rest' = [rest EXCEPT ![t] = @ \ {other[t]}]
      /\ UNCHANGED <<job, cls, other, fst, d_fst>>
  BY DEF Check, Dropped
<1>2. job = "strengthen" BY <1>1 DEF TypeInv, PlacesInv, QueuesType, Jobs
<1>3. \A c \in Refs \ {other[t]} : First(c)' = First(c)
  <2>1. lits' = lits \/ \E l : lits' = [lits EXCEPT ![other[t]] = @ \ {-l}]
    BY CheckFacts DEF Unit, Shortens
  <2>2. lits \in [Refs -> Clause] BY DEF TypeInv, ClausesType, Refs
  <2>3. \A c \in Refs \ {other[t]} : lits'[c] = lits[c] BY <2>1, <2>2
  <2> QED BY <2>3 DEF First
<1>4. OneAtATime BY LocksSuffice
<1> SUFFICES ASSUME NEW u \in Threads PROVE HasLocks(u)' BY DEF LockInv
<1>5. /\ pc[u] \in {"visit", "lockOther", "check"} =>
            /\ lockOf[fst[u]] = u /\ First(cls[u]) = fst[u] /\ cls[u] \notin rest[u]
            /\ cls[u] \in Refs /\ fst[u] \in Vars
      /\ pc[u] \in {"lockOther", "check"} => other[u] # cls[u]
      /\ pc[u] = "check" => /\ lockOf[d_fst[u]] = u /\ First(other[u]) = d_fst[u]
                            /\ other[u] \in Refs /\ d_fst[u] \in Vars
  BY <1>2 DEF LockInv, HasLocks, TypeInv, PlacesInv
<1>6. PICK V \in {{d_fst[t]} \ {fst[t]}, {fst[t], d_fst[t]}} :
         /\ Free(t, V)
         /\ fst[t] \in V => pc' = [pc EXCEPT ![t] = "back"]
  BY CheckFacts
<1>7. CASE u # t
  <2>0. pc' = [pc EXCEPT ![t] = "visit"] \/ pc' = [pc EXCEPT ![t] = "back"] BY CheckFacts
  <2>1. pc'[u] = pc[u] /\ rest'[u] = rest[u]
    BY <1>1, <1>7, <2>0 DEF TypeInv, ThreadsType
  <2>2. \A v \in Vars : lockOf[v] = u => lockOf'[v] = u BY <1>6, <1>7 DEF Free
  <2>3. /\ pc[u] \in {"visit", "lockOther", "check"} => cls[u] # other[t]
        /\ pc[u] = "check" => other[u] # other[t]
    BY <1>1, <1>2, <1>4, <1>7 DEF OneAtATime, Using
  <2>4. /\ pc[u] \in {"visit", "lockOther", "check"} => First(cls[u])' = fst[u]
        /\ pc[u] = "check" => First(other[u])' = d_fst[u]
    BY <1>1, <1>3, <1>5, <2>3
  <2>5. /\ pc[u] \in {"visit", "lockOther", "check"} => lockOf'[fst[u]] = u
        /\ pc[u] = "check" => lockOf'[d_fst[u]] = u
    BY <1>5, <2>2
  <2> QED BY <1>1, <1>5, <2>1, <2>4, <2>5 DEF HasLocks
<1>8. CASE u = t
  <2>1. pc' = [pc EXCEPT ![t] = "visit"] \/ pc' = [pc EXCEPT ![t] = "back"] BY CheckFacts
  <2>2. pc'[t] \in {"visit", "back"} /\ rest'[t] \subseteq rest[t]
    BY <1>1, <2>1 DEF TypeInv, ThreadsType
  <2>3. pc'[t] = "visit" => lockOf'[fst[t]] = t
    BY <1>1, <1>5, <1>6, <1>8, <2>1 DEF Free, TypeInv, ThreadsType
  <2>4. First(cls[t])' = fst[t] BY <1>1, <1>3, <1>5, <1>8
  <2> QED BY <1>1, <1>5, <1>8, <2>2, <2>3, <2>4 DEF HasLocks
<1> QED BY <1>7, <1>8

LEMMA NextLocks == TypeInv /\ LockInv /\ [Next]_vars => LockInv'
<1> SUFFICES ASSUME TypeInv, LockInv, [Next]_vars PROVE LockInv' OBVIOUS
<1>1. CASE Master
  <2>1. CASE Subsume \/ Subsumed \/ Strengthened
    BY <2>1 DEF Subsume, Start, Subsumed, Strengthened, LockInv
  <2>2. CASE Strengthen BY <2>2 DEF Strengthen, Start, LockInv, HasLocks
  <2> QED BY <1>1, <2>1, <2>2 DEF Master
<1>2. ASSUME NEW t \in Threads,
             Back(t) \/ \E c \in Refs : Skip(t, c) \/ TakeSubsumer(t, c) \/ TakeStrengthener(t, c)
      PROVE  LockInv'
  <2>1. UNCHANGED <<lits, job, lockOf>>
    BY <1>2 DEF Back, Skip, TakeSubsumer, TakeStrengthener, formula, master
  <2>2. \A u \in Threads \ {t} : UNCHANGED <<pc[u], cls[u], rest[u], other[u], fst[u], d_fst[u]>>
    BY <1>2 DEF Back, Skip, TakeSubsumer, TakeStrengthener, Goes, scan, TypeInv, ThreadsType
  <2>3. job = "strengthen" => pc'[t] \in {"take", "back", "lock"}
    BY <1>2 DEF Back, Skip, TakeSubsumer, TakeStrengthener, Take, Goes, TypeInv, ThreadsType
  <2> QED BY <2>1, <2>2, <2>3, QuietLocks
<1>3. ASSUME NEW t \in Threads,
             \/ \E d \in Refs : Visit(t, d)
             \/ SpinLock(t) \/ Delete(t) \/ EndVisits(t) \/ WriteFlags(t)
      PROVE  LockInv'
  <2>1. job # "strengthen"
    BY <1>3 DEF Visit, Visits, SpinLock, Delete, EndVisits, WriteFlags, TypeInv, PlacesInv
  <2>2. UNCHANGED job
    BY <1>3 DEF Visit, SpinLock, Delete, EndVisits, WriteFlags, master
  <2> QED BY <2>1, <2>2 DEF LockInv, HasLocks
<1>4. CASE \E t \in Threads : Worker(t)
  BY <1>2, <1>3, <1>4, LockSteps, CheckLocks DEF Worker
<1>5. CASE Rest \/ UNCHANGED vars
  <2>1. UNCHANGED vars BY <1>5 DEF Rest
  <2>2. UNCHANGED <<lits, job, pc, cls, rest, other, fst, d_fst, lockOf>>
    BY <2>1 DEF vars, formula, master, scan
  <2>3. \A c : First(c)' = First(c) BY <2>2 DEF First
  <2> QED BY <2>2, <2>3 DEF LockInv, HasLocks
<1> QED BY <1>1, <1>4, <1>5 DEF Next

\* While threads strengthen clauses, none changes one that another thread strengthens
\* or strengthens with: the locks of the first variables see to that, although clauses
\* lose variables while threads wait for these locks.
THEOREM OneThreadPerClause == Spec => []OneAtATime
<1>1. Init => LockInv BY DEF Init, LockInv
<1>2. LockInv => OneAtATime BY LocksSuffice
<1> QED BY InitType, NextType, NextLocks, <1>1, <1>2, PTL DEF Spec

-----------------------------------------------------------------------------
(* What follows from the clauses that were given *)

\* The clauses follow, those that are deleted or wait for their removal as well, and
\* so do the units.
Holding(A) == /\ \A c \in Refs : Sat(A, lits[c])
              /\ \A l \in units : Holds(A, l)
FollowInv ==
    /\ \A c \in Refs : ~ Tautology(lits[c])
    /\ \A A \in SUBSET Vars : IsModel(A, Given) => ok /\ Holding(A)

LEMMA FollowSuffices == FollowInv => NothingInvented
<1> SUFFICES ASSUME FollowInv, NEW A \in SUBSET Vars, IsModel(A, Given)
             PROVE  ok /\ \A C \in Now : Sat(A, C)
  BY DEF NothingInvented, IsModel
<1>1. ok /\ Holding(A) BY DEF FollowInv
<1>2. \A c \in Kept : Sat(A, lits[c]) BY <1>1 DEF Holding, Kept
<1>3. \A l \in units : Sat(A, {l}) BY <1>1 DEF Holding, Sat
<1> QED BY <1>1, <1>2, <1>3 DEF Now

\* A step follows if what it makes of the clauses holds wherever they held.
LEMMA FollowStep ==
    ASSUME ClausesType, FollowInv, UNCHANGED start, Refs' = Refs,
           \A c \in Refs : lits'[c] \subseteq lits[c],
           \A A \in SUBSET Vars : ok /\ Holding(A) => ok' /\ Holding(A)'
    PROVE  FollowInv'
<1>1. Given' = Given BY DEF Given
<1>2. \A c \in Refs : ~ Tautology(lits'[c]) BY DEF FollowInv, Tautology
<1>3. \A A \in SUBSET Vars : IsModel(A, Given)' => (ok /\ Holding(A))'
  BY <1>1 DEF FollowInv, IsModel
<1> QED BY <1>2, <1>3 DEF FollowInv

LEMMA FollowInit == Init => FollowInv
<1> SUFFICES ASSUME Init PROVE FollowInv OBVIOUS
<1>1. Refs = DOMAIN start.lits /\ lits = start.lits /\ units = {} /\ ok BY DEF Init, Refs
<1>2. \A c \in Refs : ~ Tautology(lits[c]) BY <1>1, ProblemsAssumption DEF Init
<1>3. \A A \in SUBSET Vars : IsModel(A, Given) => Holding(A)
  BY <1>1 DEF IsModel, Given, Holding
<1> QED BY <1>1, <1>2, <1>3 DEF FollowInv

\* Resolution: without the literal that the first clause complements, the second
\* one still holds.
LEMMA ResolventHolds ==
    ASSUME ClausesType, FollowInv, NEW A \in SUBSET Vars, Holding(A),
           NEW c \in Refs, NEW d \in Refs, NEW l \in lits[c], lits[c] \ {l} \subseteq lits[d]
    PROVE  \E m \in lits[d] \ {-l} : Holds(A, m)
<1>1. lits[c] \subseteq Lits /\ lits[d] \subseteq Lits BY ClauseFacts
<1>2. PICK k \in lits[c] : Holds(A, k) BY DEF Holding, Sat
<1>3. PICK m \in lits[d] : Holds(A, m) BY DEF Holding, Sat
<1>4. CASE Holds(A, l)
  <2>1. ~ Holds(A, -l) BY <1>1, <1>4, OneHolds
  <2> QED BY <1>3, <2>1
<1>5. CASE ~ Holds(A, l)
  <2>1. k # l /\ k # -l BY <1>2, <1>5 DEF FollowInv, Tautology
  <2> QED BY <1>2, <2>1
<1> QED BY <1>4, <1>5

LEMMA CheckFollows ==
    ASSUME TypeInv, FollowInv, NEW t \in Threads, Check(t)
    PROVE  FollowInv'
<1>1. ClausesType /\ UNCHANGED start /\ cls[t] \in Refs /\ other[t] \in Refs
  BY CheckFacts DEF TypeInv, Check
<1>2. lits \in [Refs -> Clause] BY DEF TypeInv, ClausesType, Refs
<1>3. CASE UNCHANGED <<lits, deleted, units, ok, subsume, local>>
  BY <1>1, <1>3, FollowStep DEF Refs, Holding
<1>4. CASE \E l \in lits[cls[t]] :
              -l \in lits[other[t]] /\ lits[cls[t]] \ {l} \subseteq lits[other[t]] /\ Unit(t, l)
  <2>1. PICK l \in lits[cls[t]] : lits[cls[t]] \ {l} \subseteq lits[other[t]] /\ Unit(t, l) BY <1>4
  <2>2. PICK unit \in lits[other[t]] :
           /\ lits[other[t]] = {-l, unit}
           /\ \/ -unit \in units /\ ok' = FALSE /\ UNCHANGED units
              \/ units' = units \cup {unit} /\ UNCHANGED ok
    BY <2>1 DEF Unit
  <2>3. lits' = lits /\ Refs' = Refs BY <2>1 DEF Unit, Refs
  <2>4. unit \in Lits BY <1>1, ClauseFacts
  <2>5. ASSUME NEW A \in SUBSET Vars, ok, Holding(A) PROVE ok' /\ Holding(A)'
    <3>1. Holds(A, unit) BY <1>1, <2>1, <2>2, <2>5, ResolventHolds
    <3>2. -unit \notin units BY <2>4, <2>5, <3>1, OneHolds DEF Holding
    <3> QED BY <2>2, <2>3, <2>5, <3>1, <3>2 DEF Holding
  <2> QED BY <1>1, <2>3, <2>5, FollowStep
<1>5. CASE \E l \in lits[cls[t]] :
              -l \in lits[other[t]] /\ lits[cls[t]] \ {l} \subseteq lits[other[t]] /\ Shortens(t, l)
  <2>1. PICK l \in lits[cls[t]] : lits[cls[t]] \ {l} \subseteq lits[other[t]] /\ Shortens(t, l) BY <1>5
  <2>2. /\ lits' = [lits EXCEPT ![other[t]] = @ \ {-l}] /\ UNCHANGED <<units, ok>>
    BY <2>1 DEF Shortens
  <2>3. /\ Refs' = Refs
        /\ \A c \in Refs : lits'[c] = IF c = other[t] THEN lits[c] \ {-l} ELSE lits[c]
    BY <1>2, <2>2 DEF Refs
  <2>4. ASSUME NEW A \in SUBSET Vars, ok, Holding(A) PROVE ok' /\ Holding(A)'
    <3>1. \E m \in lits[other[t]] \ {-l} : Holds(A, m) BY <1>1, <2>1, <2>4, ResolventHolds
    <3>2. \A c \in Refs : Sat(A, lits'[c]) BY <2>3, <2>4, <3>1 DEF Holding, Sat
    <3> QED BY <2>2, <2>3, <2>4, <3>2 DEF Holding
  <2> QED BY <1>1, <2>3, <2>4, FollowStep
<1> QED BY <1>3, <1>4, <1>5, CheckFacts

LEMMA StrengthenedFollows ==
    ASSUME TypeInv, FollowInv, Strengthened
    PROVE  FollowInv'
<1>1. ClausesType /\ UNCHANGED start BY DEF TypeInv, Strengthened
<1>2. \A A \in SUBSET Vars : Holding(A) =>
          (\A c \in Kept : Sat(A, lits[c])) /\ \A l \in units : Holds(A, l)
  BY DEF Holding, Kept
<1>3. CASE /\ ok' = FALSE /\ UNCHANGED <<units, deleted, lits, subsume>>
           /\ ok => \A A \in SUBSET Vars :
                 ~ ((\A c \in Kept : Sat(A, lits[c])) /\ \A l \in units : Holds(A, l))
  BY <1>1, <1>2, <1>3, FollowStep DEF Refs
<1>4. CASE \E U : ok /\ Propagates(U)
  <2>1. PICK U : ok /\ Propagates(U) BY <1>4
  <2>2. /\ U \in SUBSET Lits /\ units' = U /\ ok' = TRUE
        /\ \A A \in SUBSET Vars :
              (\A c \in Kept : Sat(A, lits[c])) /\ (\A l \in units : Holds(A, l))
              => \A l \in U : Holds(A, l)
    BY <2>1 DEF Propagates
  <2>3. /\ Refs' = Refs
        /\ \A c \in Refs : lits'[c] = lits[c] \/ lits'[c] = Without(lits[c], U)
    BY <2>1 DEF Propagates, Refs
  <2>4. ASSUME NEW A \in SUBSET Vars, ok, Holding(A) PROVE ok' /\ Holding(A)'
    <3>1. \A l \in U : Holds(A, l) BY <1>2, <2>2, <2>4
    <3>2. ASSUME NEW c \in Refs PROVE Sat(A, Without(lits[c], U))
      <4>1. PICK k \in lits[c] : Holds(A, k) BY <2>4 DEF Holding, Sat
      <4>2. ASSUME NEW l \in U, k = -l PROVE FALSE BY <2>2, <3>1, <4>1, <4>2, OneHolds
      <4> QED BY <4>1, <4>2 DEF Without, Negated, Sat
    <3>3. \A c \in Refs : Sat(A, lits'[c]) BY <2>3, <2>4, <3>2 DEF Holding
    <3> QED BY <2>2, <2>3, <3>1, <3>3 DEF Holding
  <2>5. \A c \in Refs : lits'[c] \subseteq lits[c] BY <2>3 DEF Without
  <2> QED BY <1>1, <2>3, <2>4, <2>5, FollowStep
<1> QED BY <1>1, <1>3, <1>4, StrengthenedFacts

LEMMA NextFollows == TypeInv /\ FollowInv /\ [Next]_vars => FollowInv'
<1> SUFFICES ASSUME TypeInv, FollowInv, [Next]_vars PROVE FollowInv' OBVIOUS
<1>1. ASSUME UNCHANGED <<start, lits, units, ok>> PROVE FollowInv'
  BY <1>1 DEF FollowInv, Given, Refs, Holding
<1>2. CASE Subsume \/ Subsumed \/ Strengthen
  BY <1>1, <1>2 DEF Subsume, Start, Subsumed, Strengthen, formula
<1>3. CASE Strengthened BY <1>3, StrengthenedFollows
<1>4. ASSUME NEW t \in Threads, Worker(t) PROVE FollowInv'
  <2>1. CASE Check(t) BY <2>1, CheckFollows
  <2>2. CASE \/ \E c \in Refs : Skip(t, c) \/ TakeSubsumer(t, c) \/ TakeStrengthener(t, c)
             \/ Back(t) \/ SpinLock(t) \/ Delete(t) \/ EndVisits(t) \/ WriteFlags(t)
    <3>1. UNCHANGED <<start, lits, units, ok>>
      BY <2>2 DEF Skip, TakeSubsumer, TakeStrengthener, Back, SpinLock, Delete, EndVisits, WriteFlags,
                  formula, master
    <3> QED BY <1>1, <3>1
  <2>3. CASE \/ \E d \in Refs : Visit(t, d) \/ LookAt(t, d)
             \/ LockFirst(t) \/ LockOther(t) \/ EndStrengthening(t)
    <3>1. UNCHANGED <<start, lits, units, ok>>
      BY <2>3 DEF Visit, LookAt, LockFirst, LockOther, EndStrengthening, formula, master
    <3> QED BY <1>1, <3>1
  <2> QED BY <1>4, <2>1, <2>2, <2>3 DEF Worker
<1>5. CASE Rest \/ UNCHANGED vars
  BY <1>1, <1>5 DEF Rest, vars, formula, master
<1> QED BY <1>2, <1>3, <1>4, <1>5 DEF Next, Master

\* Whatever the threads leave follows from the clauses that were given, at every step of
\* both jobs, and they claim that there is no model only if there is none.
THEOREM NothingIsInvented == Spec => []NothingInvented
<1> QED BY InitType, NextType, FollowInit, NextFollows, FollowSuffices, PTL DEF Spec

-----------------------------------------------------------------------------
(* What the core clauses imply is not lost *)

\* A clause comes before those it subsumes, and before its copies with larger references.
Before(c, d) == c # d /\ lits[c] \subseteq lits[d] /\ ~ Later(c, d)

\* Of the clauses in K, a core clause whose learnt predecessors all wait for
\* subsumption: they can take its place.
Good(K, x) ==
    /\ x \in K \ learnt
    /\ \A d \in K \cap learnt : Before(d, x) => d \in subsume

\* Of every core clause that was given, a good one is left or a unit that satisfies it.
Covers(K) ==
    \A c \in Refs \ start.learnt :
        \/ \E x \in K : Good(K, x) /\ lits[x] \subseteq start.lits[c]
        \/ \E l \in units : l \in start.lits[c]

\* What the queue of a problem has to hold for that: a core clause stands for
\* each, no learnt clause before which is missing in the queue.  Subsumption::initClause puts every
\* clause in the queue that has not been through it since it changed.
Queued(p) ==
    \A c \in DOMAIN p.lits \ p.learnt :
        \E x \in DOMAIN p.lits \ p.learnt :
            /\ p.lits[x] \subseteq p.lits[c]
            /\ \A d \in p.learnt :
                  (d < x /\ p.lits[d] = p.lits[x]) \/ (p.lits[d] \subseteq p.lits[x] /\ p.lits[d] # p.lits[x])
                  => d \in p.queues[1]

LEMMA BeforeTransitive ==
    ASSUME ClausesType, NEW c \in Refs, NEW d \in Refs, NEW e \in Refs, Before(c, d), Before(d, e)
    PROVE  Before(c, e)
<1>1. c \in Nat /\ d \in Nat /\ e \in Nat BY ClauseFacts
<1>2. lits[c] \subseteq lits[d] /\ lits[d] \subseteq lits[e] /\ c # d /\ d # e BY DEF Before
<1>3. CASE lits[c] = lits[e]
  <2>1. lits[c] = lits[d] /\ lits[d] = lits[e] BY <1>2, <1>3
  <2>2. c < d /\ d < e BY <1>1, <1>2, <2>1 DEF Before, Later
  <2> QED BY <1>1, <1>2, <2>2 DEF Before, Later
<1>4. CASE lits[c] # lits[e] BY <1>2, <1>4 DEF Before, Later
<1> QED BY <1>3, <1>4

\* Clauses have a first one in this order.
LEMMA FirstClause ==
    ASSUME ClausesType, NEW S \in SUBSET Refs, S # {}
    PROVE  \E x \in S : \A y \in S : ~ Before(y, x)
<1> DEFINE Sizes == {Cardinality(lits[c]) : c \in S}
<1>1. Sizes \in SUBSET Nat /\ Sizes # {} BY ClauseFacts
<1> HIDE DEF Sizes
<1>2. PICK n \in Sizes : \A k \in Sizes : n <= k BY <1>1, LeastExists
<1> DEFINE Smallest == {c \in S : Cardinality(lits[c]) = n}
<1>3. Smallest \in SUBSET Nat /\ Smallest # {} BY <1>2, ClauseFacts DEF Sizes
<1> HIDE DEF Smallest
<1>4. PICK x \in Smallest : \A y \in Smallest : x <= y BY <1>3, LeastExists
<1>5. x \in S /\ Cardinality(lits[x]) = n BY <1>4 DEF Smallest
<1>6. ASSUME NEW y \in S, Before(y, x) PROVE FALSE
  <2>1. lits[y] \subseteq lits[x] /\ IsFiniteSet(lits[x]) /\ x \in Nat /\ y \in Nat
        /\ Cardinality(lits[y]) \in Nat /\ Cardinality(lits[x]) \in Nat
    BY <1>5, <1>6, ClauseFacts DEF Before
  <2>2. Cardinality(lits[y]) <= Cardinality(lits[x]) BY <2>1, FS_Subset
  <2>3. Cardinality(lits[y]) \in Sizes BY DEF Sizes
  <2>4. Cardinality(lits[y]) = n BY <1>1, <1>2, <1>5, <2>1, <2>2, <2>3
  <2>5. lits[y] = lits[x] BY <1>5, <2>1, <2>4, FS_Subset
  <2>6. y \in Smallest BY <2>4 DEF Smallest
  <2> QED BY <1>4, <1>6, <2>1, <2>5, <2>6 DEF Before, Later
<1> QED BY <1>5, <1>6

LEMMA CoversSuffices == ASSUME ClausesType, ok => Covers(Kept) PROVE NothingLost
<1> SUFFICES ASSUME ok, Covers(Kept), NEW A \in SUBSET Vars, IsModel(A, NowCore),
                    NEW c \in Refs \ start.learnt
             PROVE  Sat(A, start.lits[c])
  BY DEF NothingLost, IsModel, GivenCore
<1>1. CASE \E x \in Kept : Good(Kept, x) /\ lits[x] \subseteq start.lits[c]
  <2>1. PICK x \in Kept : Good(Kept, x) /\ lits[x] \subseteq start.lits[c] BY <1>1
  <2>2. lits[x] \in NowCore BY <2>1 DEF Good, NowCore
  <2> QED BY <2>1, <2>2 DEF IsModel, Sat
<1>2. CASE \E l \in units : l \in start.lits[c]
  <2>1. PICK l \in units : l \in start.lits[c] BY <1>2
  <2>2. {l} \in NowCore BY DEF NowCore
  <2> QED BY <2>1, <2>2 DEF IsModel, Sat
<1> QED BY <1>1, <1>2 DEF Covers

\* While clauses become shorter: whatever changes waits for subsumption, and what goes
\* is satisfied by a unit.
LEMMA CoversStep ==
    ASSUME ClausesType, Covers(Kept), UNCHANGED <<start, learnt>>, Refs' = Refs,
           deleted \subseteq deleted', units \subseteq units', subsume \subseteq subsume',
           \A c \in Refs : lits'[c] \subseteq lits[c],
           \A c \in Refs : lits'[c] # lits[c] => c \in subsume',
           \A c \in Kept : c \in deleted' => lits[c] \cap units' # {}
    PROVE  Covers(Kept)'
<1>1. Kept' \subseteq Kept BY DEF Kept
<1>2. ASSUME NEW x \in Kept, Good(Kept, x), x \notin deleted' PROVE x \in Kept' /\ Good(Kept, x)'
  <2>1. x \in Kept' /\ x \notin learnt' BY <1>2 DEF Good, Kept
  <2>2. ASSUME NEW d \in Kept' \cap learnt', Before(d, x)' PROVE d \in subsume'
    <3>1. CASE lits'[d] # lits[d] BY <1>1, <3>1 DEF Kept
    <3>2. CASE lits'[d] = lits[d]
      <4>1. d \in Refs /\ x \in Refs BY <1>1 DEF Kept
      <4>2. d # x /\ lits'[d] \subseteq lits'[x] /\ ~ (lits'[d] = lits'[x] /\ d > x)
        BY <2>2 DEF Before, Later
      <4>3. lits'[x] \subseteq lits[x] BY <4>1
      <4>4. Before(d, x) BY <3>2, <4>2, <4>3 DEF Before, Later
      <4> QED BY <1>1, <1>2, <4>4 DEF Good
    <3> QED BY <3>1, <3>2
  <2> QED BY <2>1, <2>2 DEF Good
<1> SUFFICES ASSUME NEW c \in Refs \ start.learnt
             PROVE  \/ \E x \in Kept' : Good(Kept, x)' /\ lits'[x] \subseteq start.lits[c]
                    \/ \E l \in units' : l \in start.lits[c]
  BY DEF Covers
<1>3. CASE \E l \in units : l \in start.lits[c] BY <1>3
<1>4. CASE \E x \in Kept : Good(Kept, x) /\ lits[x] \subseteq start.lits[c]
  <2>1. PICK x \in Kept : Good(Kept, x) /\ lits[x] \subseteq start.lits[c] BY <1>4
  <2>2. lits'[x] \subseteq start.lits[c] BY <2>1 DEF Kept
  <2>3. CASE x \in deleted' BY <2>1, <2>3
  <2>4. CASE x \notin deleted' BY <1>2, <2>1, <2>2, <2>4
  <2> QED BY <2>3, <2>4
<1> QED BY <1>3, <1>4 DEF Covers

-----------------------------------------------------------------------------
(* Subsumption: K are the clauses when it starts *)

Active == {"visit", "spin", "locked", "write"}

\* Why a clause may go at once: a clause that subsumes it, a core clause if it is one.
Redundant(K, x) == \E r \in K : Before(r, x) /\ (x \notin learnt => r \notin learnt)

\* Whom learnt clause m has to stand for once it was visited: those core clauses that no
\* other core clause subsumes, if none comes before m.
Done(K, m) ==
    \/ \E r \in K : Before(r, m)
    \/ \A x \in K \ learnt : Before(m, x) => m \in setNonLearnt \/ Redundant(K, x)
Doing(K, t) ==
    \/ \E r \in K : Before(r, cls[t])
    \/ \A x \in K \ learnt :
          Before(cls[t], x) => \/ cls[t] \in setNonLearnt \/ Redundant(K, x)
                               \/ x \in rest[t] \/ inherits[t]

Removing(x) == \E t \in Threads :
    \/ pc[t] \in {"spin", "locked"} /\ other[t] = x
    \/ pc[t] = "write" /\ "deleted" \in read[t] /\ cls[t] = x

KeptPart(K)    == K \subseteq Refs /\ Kept \subseteq K /\ ok /\ Covers(K)
TakenPart(K)   == \A t \in Threads :
                     /\ local[t] = {}
                     /\ pc[t] \in Active =>
                           /\ cls[t] \in K
                           /\ \A d \in rest[t] : d # cls[t] /\ lits[cls[t]] \subseteq lits[d]
                     /\ pc[t] = "back" => queue = {}
RemovedPart(K) == \A x \in K : x \in deleted \/ Removing(x) => Redundant(K, x)
LeftPart(K)    == \A x \in K \cap toDelete : \E r \in K : Before(r, x)
StandPart(K)   == \A m \in K \cap learnt \cap subsume :
                     \/ m \in queue \/ Done(K, m)
                     \/ \E t \in Threads : pc[t] \in {"visit", "spin", "locked"} /\ cls[t] = m /\ Doing(K, t)

SubsumeInv(K) == KeptPart(K) /\ TakenPart(K) /\ RemovedPart(K) /\ LeftPart(K) /\ StandPart(K)

CoverInv ==
    /\ job = "subsume" => \E K : SubsumeInv(K)
    /\ job # "subsume" => (ok => Covers(Kept)) /\ toDelete = {}
    /\ job = "none" => \A t \in Threads : local[t] = {}

LEMMA CoverInit ==
    ASSUME \A p \in Problems : Queued(p), Init
    PROVE  CoverInv
<1>1. /\ start \in Problems /\ lits = start.lits /\ learnt = start.learnt /\ Kept = DOMAIN start.lits
      /\ Refs = DOMAIN start.lits /\ subsume = start.queues[1] /\ job = "none" /\ toDelete = {}
      /\ \A t \in Threads : local[t] = {}
  BY DEF Init, Kept, Refs
<1>2. Queued(start) BY <1>1
<1>3. ClausesType BY InitType DEF TypeInv
<1>4. ASSUME NEW c \in Refs \ start.learnt
      PROVE  \E x \in Kept : Good(Kept, x) /\ lits[x] \subseteq start.lits[c]
  <2>1. PICK x \in Kept \ learnt :
           /\ lits[x] \subseteq lits[c]
           /\ \A d \in learnt :
                 (d < x /\ lits[d] = lits[x]) \/ (lits[d] \subseteq lits[x] /\ lits[d] # lits[x])
                 => d \in subsume
    BY <1>1, <1>2 DEF Queued
  <2>2. ASSUME NEW d \in Kept \cap learnt, Before(d, x) PROVE d \in subsume
    <3>1. d \in Nat /\ x \in Nat BY <1>1, <1>3, ClauseFacts
    <3> QED BY <2>1, <2>2, <3>1 DEF Before, Later
  <2>3. Good(Kept, x) BY <2>2 DEF Good
  <2> QED BY <1>1, <2>1, <2>3
<1>5. Covers(Kept) BY <1>4 DEF Covers
<1> QED BY <1>1, <1>5 DEF CoverInv

LEMMA CoverStart ==
    ASSUME TypeInv, CoverInv, Subsume \/ Strengthen
    PROVE  CoverInv'
<1>1. CASE Strengthen
  <2>1. /\ job = "none" /\ job' = "strengthen" /\ UNCHANGED <<lits, learnt, deleted, units, ok, subsume, start, toDelete>>
    BY <1>1 DEF Strengthen, Start, formula, later
  <2>2. Covers(Kept)' <=> Covers(Kept)
    BY <2>1 DEF Covers, Good, Before, Later, Kept, Refs
  <2> QED BY <2>1, <2>2 DEF CoverInv
<1>2. CASE Subsume
  <2>1. /\ job = "none" /\ job' = "subsume" /\ queue' = subsume /\ ok
        /\ UNCHANGED <<lits, learnt, deleted, units, ok, subsume, start, toDelete, setNonLearnt, local>>
        /\ \A t \in Threads : pc'[t] = "take"
    BY <1>2 DEF Subsume, Start, formula, later
  <2>2. Covers(Kept) /\ toDelete = {} /\ \A t \in Threads : local[t] = {} BY <2>1 DEF CoverInv
  <2> DEFINE K == Kept
  <2>3. PICK L : L = K OBVIOUS
  <2>4. KeptPart(L)'
    BY <2>1, <2>2, <2>3 DEF KeptPart, Covers, Good, Before, Later, Kept, Refs
  <2>5. TakenPart(L)' BY <2>1, <2>2 DEF TakenPart, Active
  <2>6. RemovedPart(L)' BY <2>1, <2>3 DEF RemovedPart, Removing, Kept
  <2>7. LeftPart(L)' BY <2>1, <2>2 DEF LeftPart
  <2>8. StandPart(L)' BY <2>1 DEF StandPart
  <2>9. SubsumeInv(L)' BY <2>4, <2>5, <2>6, <2>7, <2>8 DEF SubsumeInv
  <2> QED BY <2>1, <2>9 DEF CoverInv
<1> QED BY <1>1, <1>2

\* A thread that is strengthening
LEMMA CoverCheck ==
    ASSUME TypeInv, CoverInv, NEW t \in Threads, Check(t)
    PROVE  CoverInv'
<1>1. /\ ClausesType /\ UNCHANGED <<start, learnt, job, toDelete>> /\ pc[t] = "check"
      /\ cls[t] \in Refs /\ other[t] \in Refs /\ lits \in [Refs -> Clause]
  BY CheckFacts DEF TypeInv, ClausesType, Refs, Check, later
<1>2. job = "strengthen" BY <1>1 DEF TypeInv, PlacesInv, QueuesType, Jobs
<1>3. SUFFICES ASSUME ok' PROVE Covers(Kept)'
  BY <1>1, <1>2 DEF CoverInv
<1>4. CASE UNCHANGED <<lits, deleted, units, ok, subsume, local>>
  <2>1. Covers(Kept) BY <1>2, <1>3, <1>4 DEF CoverInv
  <2> QED BY <1>1, <1>4, <2>1 DEF Covers, Good, Before, Later, Kept, Refs
<1>5. CASE \E l \in lits[cls[t]] : Unit(t, l)
  <2>1. PICK l \in lits[cls[t]] : Unit(t, l) BY <1>5
  <2>2. PICK unit \in lits[other[t]] : units' = units \cup {unit} /\ UNCHANGED ok
    BY <1>3, <2>1 DEF Unit
  <2>3. deleted' = deleted \cup {other[t]} /\ UNCHANGED <<lits, subsume>> BY <2>1 DEF Unit
  <2>4. Covers(Kept) BY <1>2, <1>3, <2>2 DEF CoverInv
  <2>5. \A c \in Kept : c \in deleted' => lits[c] \cap units' # {} BY <2>2, <2>3 DEF Kept
  <2> QED BY <1>1, <2>2, <2>3, <2>4, <2>5, CoversStep DEF Refs
<1>6. CASE \E l \in lits[cls[t]] : Shortens(t, l)
  <2>1. PICK l \in lits[cls[t]] : Shortens(t, l) BY <1>6
  <2>2. /\ lits' = [lits EXCEPT ![other[t]] = @ \ {-l}] /\ subsume' = subsume \cup {other[t]}
        /\ UNCHANGED <<deleted, units, ok>>
    BY <2>1 DEF Shortens
  <2>3. /\ Refs' = Refs
        /\ \A c \in Refs : lits'[c] = IF c = other[t] THEN lits[c] \ {-l} ELSE lits[c]
    BY <1>1, <2>2 DEF Refs
  <2>4. Covers(Kept) BY <1>2, <1>3, <2>2 DEF CoverInv
  <2>5. /\ \A c \in Refs : lits'[c] \subseteq lits[c]
        /\ \A c \in Refs : lits'[c] # lits[c] => c \in subsume'
        /\ \A c \in Kept : c \in deleted' => lits[c] \cap units' # {}
    BY <2>2, <2>3 DEF Kept
  <2> QED BY <1>1, <2>2, <2>3, <2>4, <2>5, CoversStep
<1> QED BY <1>4, <1>5, <1>6, CheckFacts

LEMMA CoverStrengthened ==
    ASSUME TypeInv, CoverInv, Strengthened
    PROVE  CoverInv'
<1>1. /\ ClausesType /\ UNCHANGED <<start, learnt, toDelete>> /\ job = "strengthen" /\ job' = "none"
      /\ local' = [u \in Threads |-> {}]
  BY DEF TypeInv, Strengthened, later
<1>2. SUFFICES ASSUME ok' PROVE Covers(Kept)'
  BY <1>1 DEF CoverInv
<1>3. PICK U : ok /\ Propagates(U) BY <1>1, <1>2, StrengthenedFacts
<1> DEFINE gone == {c \in Kept : lits[c] \cap U # {}}
<1>4. /\ units \subseteq U /\ units' = U /\ deleted' = deleted \cup gone
      /\ lits' = [c \in Refs |-> IF c \in Kept \ gone THEN Without(lits[c], U) ELSE lits[c]]
      /\ subsume' = subsume \cup {c \in Refs : lits'[c] # lits[c]}
  BY <1>3 DEF Propagates
<1>5. Refs' = Refs /\ \A c \in Refs : lits'[c] = lits[c] \/ lits'[c] = Without(lits[c], U)
  BY <1>4 DEF Refs
<1>6. \A c \in Refs : lits'[c] \subseteq lits[c] BY <1>5 DEF Without
<1>7. \A c \in Kept : c \in deleted' => lits[c] \cap units' # {} BY <1>4 DEF Kept
<1>8. Covers(Kept) BY <1>1, <1>3 DEF CoverInv
<1> HIDE DEF gone
<1> QED BY <1>1, <1>4, <1>5, <1>6, <1>7, <1>8, CoversStep

\* The end of subsumption: below each core clause the first good one is left, or the first
\* of the learnt clauses before it, which is a core clause now.
LEMMA CoverSubsumed ==
    ASSUME TypeInv, CoverInv, Subsumed
    PROVE  CoverInv'
<1>1. /\ ClausesType /\ UNCHANGED <<lits, units, ok, start, local>> /\ job = "subsume" /\ job' = "none"
      /\ toDelete' = {} /\ subsume' = {} /\ deleted' = deleted \cup toDelete
      /\ learnt' = learnt \ (setNonLearnt \ deleted')
      /\ \A t \in Threads : pc[t] = "back"
  BY DEF TypeInv, Subsumed, SetFlags, AllBack
<1>2. PICK K : SubsumeInv(K) BY <1>1 DEF CoverInv
<1>3. KeptPart(K) /\ TakenPart(K) /\ RemovedPart(K) /\ LeftPart(K) /\ StandPart(K)
  BY <1>2 DEF SubsumeInv
<1>4. queue = {} /\ \A t \in Threads : local[t] = {} BY <1>1, <1>3, ThreadsAssumption DEF TakenPart
<1>5. K \subseteq Refs /\ Kept' \subseteq K /\ Refs' = Refs BY <1>1, <1>3 DEF KeptPart, Kept, Refs
<1>6. \A m \in K \cap learnt \cap subsume : Done(K, m) BY <1>1, <1>3, <1>4 DEF StandPart
\* What no clause comes before is not removed.
<1>7. ASSUME NEW x \in K, \A r \in K : ~ Before(r, x) PROVE x \in Kept'
  <2>1. x \notin deleted BY <1>3, <1>7 DEF RemovedPart, Redundant
  <2>2. x \notin toDelete BY <1>3, <1>7 DEF LeftPart
  <2> QED BY <1>1, <1>5, <2>1, <2>2 DEF Kept
<1>8. ASSUME NEW x \in Kept', x \notin learnt', \A d \in K \cap learnt : ~ Before(d, x)
      PROVE  Good(Kept, x)'
  <2>1. \A d : Before(d, x)' <=> Before(d, x) BY <1>1 DEF Before, Later
  <2>2. \A d \in Kept' \cap learnt' : ~ Before(d, x)' BY <1>1, <1>5, <1>8, <2>1
  <2> QED BY <1>8, <2>2 DEF Good
<1>9. ASSUME NEW c \in Refs \ start.learnt, NEW x0 \in K, Good(K, x0), lits[x0] \subseteq start.lits[c]
      PROVE  \E x \in Kept' : Good(Kept, x)' /\ lits'[x] \subseteq start.lits[c]
  <2> DEFINE S == {x \in K : Good(K, x) /\ lits[x] \subseteq start.lits[c]}
  <2>1. S \in SUBSET Refs /\ S # {} BY <1>5, <1>9
  <2> HIDE DEF S
  <2>2. PICK x \in S : \A y \in S : ~ Before(y, x) BY <1>1, <2>1, FirstClause
  <2>3. x \in K \ learnt /\ Good(K, x) /\ lits[x] \subseteq start.lits[c] BY DEF S, Good
  <2>4. ASSUME NEW r \in K \ learnt, Before(r, x) PROVE FALSE
    <3>1. lits[r] \subseteq start.lits[c] BY <2>3, <2>4 DEF Before
    <3>2. \A d \in K \cap learnt : Before(d, r) => Before(d, x)
      BY <1>1, <1>5, <2>3, <2>4, BeforeTransitive
    <3>3. Good(K, r) BY <2>3, <2>4, <3>2 DEF Good
    <3> QED BY <2>2, <2>4, <3>1, <3>3 DEF S
  <2> DEFINE L == {d \in K \cap learnt : Before(d, x)}
  <2>5. CASE L = {}
    <3>1. \A r \in K : ~ Before(r, x) BY <2>4, <2>5
    <3>2. x \in Kept' /\ x \notin learnt' BY <1>1, <1>7, <2>3, <3>1
    <3>3. Good(Kept, x)' BY <1>8, <3>1, <3>2
    <3> QED BY <1>1, <2>3, <3>2, <3>3
  <2>6. CASE L # {}
    <3>1. L \in SUBSET Refs BY <1>5
    <3>2. PICK m \in L : \A d \in L : ~ Before(d, m)
      <4> HIDE DEF L
      <4> QED BY <1>1, <2>6, <3>1, FirstClause
    <3>3. m \in K \cap learnt /\ Before(m, x) /\ m \in subsume BY <2>3 DEF Good
    <3>4. ASSUME NEW r \in K, Before(r, m) PROVE FALSE
      <4>1. Before(r, x) BY <1>1, <1>5, <2>3, <3>3, <3>4, BeforeTransitive
      <4> QED BY <2>4, <3>2, <3>4, <4>1
    <3>5. ~ Redundant(K, x) BY <2>3, <2>4 DEF Redundant
    <3>6. m \in setNonLearnt BY <1>6, <2>3, <3>3, <3>4, <3>5 DEF Done
    <3>7. m \in Kept' BY <1>7, <3>3, <3>4
    <3>8. m \notin learnt' BY <1>1, <3>6, <3>7 DEF Kept
    <3>9. Good(Kept, m)' BY <1>8, <3>4, <3>7, <3>8
    <3>10. lits'[m] \subseteq start.lits[c] BY <1>1, <2>3, <3>3 DEF Before
    <3> QED BY <3>7, <3>9, <3>10
  <2> QED BY <2>5, <2>6
<1>10. Covers(Kept)'
  <2>1. Covers(K) BY <1>3 DEF KeptPart
  <2> SUFFICES ASSUME NEW c \in Refs \ start.learnt
               PROVE  \/ \E x \in Kept' : Good(Kept, x)' /\ lits'[x] \subseteq start.lits[c]
                      \/ \E l \in units : l \in start.lits[c]
    BY <1>1, <1>5 DEF Covers
  <2> QED BY <1>9, <2>1 DEF Covers
<1> QED BY <1>1, <1>4, <1>10 DEF CoverInv

\* A step of subsumption disturbs one part only where its thread, its clauses or
\* the queue do.
LEMMA SubsumeFrame ==
    ASSUME NEW K, UNCHANGED <<lits, learnt, units, ok, start, subsume>>
    PROVE  /\ Refs' = Refs
           /\ \A c, d : Before(c, d)' <=> Before(c, d)
           /\ \A x : Redundant(K, x)' <=> Redundant(K, x)
           /\ Covers(K)' <=> Covers(K)
<1>1. \A c, d : Before(c, d)' <=> Before(c, d) BY DEF Before, Later
<1>2. \A x : Redundant(K, x)' <=> Redundant(K, x) BY <1>1 DEF Redundant
<1>3. \A x : Good(K, x)' <=> Good(K, x) BY <1>1 DEF Good
<1>4. Refs' = Refs BY DEF Refs
<1>5. Covers(K)' <=> Covers(K) BY <1>3, <1>4 DEF Covers
<1> QED BY <1>1, <1>2, <1>4, <1>5

\* The flag of a learnt clause that has to stand for others only spreads, and threads
\* that do nothing keep what they are doing.
LEMMA StandFrame ==
    ASSUME NEW K, NEW t, UNCHANGED <<lits, learnt, units, ok, start, subsume>>,
           StandPart(K), setNonLearnt \subseteq setNonLearnt',
           \A u \in Threads \ {t} : UNCHANGED <<pc[u], cls[u], rest[u], inherits[u]>>,
           \A m \in queue \ queue' : m \in K \cap learnt \cap subsume =>
                \/ Done(K, m)'
                \/ pc'[t] \in {"visit", "spin", "locked"} /\ cls'[t] = m /\ Doing(K, t)',
           \A m \in K \cap learnt \cap subsume :
                pc[t] \in {"visit", "spin", "locked"} /\ cls[t] = m /\ Doing(K, t) =>
                \/ Done(K, m)'
                \/ pc'[t] \in {"visit", "spin", "locked"} /\ cls'[t] = m /\ Doing(K, t)',
           t \in Threads
    PROVE  StandPart(K)'
<1>1. /\ \A c, d : Before(c, d)' <=> Before(c, d)
      /\ \A x : Redundant(K, x)' <=> Redundant(K, x)
  BY SubsumeFrame
<1>2. \A m : Done(K, m) => Done(K, m)' BY <1>1 DEF Done
<1>3. \A u \in Threads \ {t} : Doing(K, u) => Doing(K, u)'
  BY <1>1 DEF Doing
<1> SUFFICES ASSUME NEW m \in K \cap learnt \cap subsume
             PROVE  \/ m \in queue' \/ Done(K, m)'
                    \/ \E u \in Threads : pc'[u] \in {"visit", "spin", "locked"} /\ cls'[u] = m /\ Doing(K, u)'
  BY DEF StandPart
<1>4. CASE m \in queue BY <1>4
<1>5. CASE Done(K, m) BY <1>2, <1>5
<1>6. CASE \E u \in Threads : pc[u] \in {"visit", "spin", "locked"} /\ cls[u] = m /\ Doing(K, u)
  <2>1. PICK u \in Threads : pc[u] \in {"visit", "spin", "locked"} /\ cls[u] = m /\ Doing(K, u) BY <1>6
  <2>2. CASE u = t BY <2>1, <2>2
  <2>3. CASE u # t BY <1>3, <2>1, <2>3
  <2> QED BY <2>2, <2>3
<1> QED BY <1>4, <1>5, <1>6 DEF StandPart

LEMMA CoverTake ==
    ASSUME TypeInv, NEW K, SubsumeInv(K), job = "subsume", NEW t \in Threads, NEW c \in Refs,
           Skip(t, c) \/ TakeSubsumer(t, c)
    PROVE  SubsumeInv(K)'
<1>1. /\ UNCHANGED <<lits, learnt, deleted, units, ok, subsume, start, toDelete, setNonLearnt, read>>
      /\ pc[t] = "take" /\ \A u \in Threads \ {t} : UNCHANGED <<pc[u], cls[u], rest[u], other[u], inherits[u]>>
  BY DEF Skip, TakeSubsumer, Take, Goes, formula, master, later, scan, header, TypeInv, ThreadsType
<1>2. KeptPart(K) /\ TakenPart(K) /\ RemovedPart(K) /\ LeftPart(K) /\ StandPart(K) /\ K \subseteq Refs
  BY DEF SubsumeInv, KeptPart
<1>3. local' = local /\ c \in queue /\ queue' = queue \ {c}
  BY <1>2 DEF Skip, TakeSubsumer, Take, TakenPart
<1>4. /\ Refs' = Refs /\ (Covers(K)' <=> Covers(K))
      /\ \A x : Redundant(K, x)' <=> Redundant(K, x)
      /\ \A x, y : Before(x, y)' <=> Before(x, y)
  BY <1>1, SubsumeFrame
<1>5. KeptPart(K)' BY <1>1, <1>2, <1>4 DEF KeptPart, Kept
<1>6. LeftPart(K)' BY <1>1, <1>2, <1>4 DEF LeftPart
<1>7. \/ pc'[t] = "take" /\ c \in deleted
      \/ /\ pc'[t] = "visit" /\ cls'[t] = c /\ c \in K
         /\ rest'[t] = {d \in Refs \ {c} : Subsumes(c, d)}
  BY <1>1, <1>2 DEF Skip, TakeSubsumer, Goes, scan, TypeInv, ThreadsType, KeptPart, Kept
<1>8. TakenPart(K)'
  <2>1. \A u \in Threads : local'[u] = {} BY <1>2, <1>3 DEF TakenPart
  <2>2. \A u \in Threads : pc'[u] \in Active =>
           cls'[u] \in K /\ \A d \in rest'[u] : d # cls'[u] /\ lits[cls'[u]] \subseteq lits[d]
    BY <1>1, <1>2, <1>7 DEF TakenPart, Subsumes, Active
  <2>3. \A u \in Threads : pc'[u] = "back" => queue' = {} BY <1>1, <1>2, <1>3, <1>7 DEF TakenPart
  <2> QED BY <1>1, <2>1, <2>2, <2>3 DEF TakenPart
<1>9. RemovedPart(K)'
  <2>1. \A x : Removing(x)' => Removing(x) BY <1>1, <1>7 DEF Removing
  <2> QED BY <1>1, <1>2, <1>4, <2>1 DEF RemovedPart
<1>10. StandPart(K)'
  <2>1. CASE c \in K => c \in learnt
    <3>1. pc'[t] = "take" /\ c \in K => Done(K, c)' BY <1>2, <1>4, <1>7 DEF RemovedPart, Redundant, Done
    <3>2. pc'[t] = "visit" => Doing(K, t)'
      BY <1>1, <1>2, <1>4, <1>7 DEF Doing, Before, Subsumes
    <3> QED BY <1>1, <1>2, <1>3, <1>7, <3>1, <3>2, StandFrame
  <2>2. CASE c \notin learnt BY <1>1, <1>2, <1>3, <2>2, StandFrame
  <2> QED BY <2>1, <2>2
<1> QED BY <1>5, <1>6, <1>8, <1>9, <1>10 DEF SubsumeInv

LEMMA CoverBack ==
    ASSUME TypeInv, NEW K, SubsumeInv(K), ~ MayStop, job = "subsume", NEW t \in Threads, Back(t)
    PROVE  SubsumeInv(K)'
<1>1. /\ UNCHANGED <<lits, learnt, deleted, units, ok, subsume, start, toDelete, setNonLearnt, read,
                     queue, cls, rest, other, inherits, local>>
      /\ pc[t] = "take" /\ pc' = [pc EXCEPT ![t] = "back"] /\ (queue = {} \/ ~ ok)
  BY DEF Back, Goes, formula, master, later, scan, header
<1>2. pc'[t] = "back" /\ \A u \in Threads \ {t} : pc'[u] = pc[u] BY <1>1 DEF TypeInv, ThreadsType
<1>3. KeptPart(K) /\ TakenPart(K) /\ RemovedPart(K) /\ LeftPart(K) /\ StandPart(K) /\ ok
  BY DEF SubsumeInv, KeptPart
<1>4. /\ Refs' = Refs /\ (Covers(K)' <=> Covers(K))
      /\ \A x : Redundant(K, x)' <=> Redundant(K, x)
      /\ \A x, y : Before(x, y)' <=> Before(x, y)
  BY <1>1, SubsumeFrame
<1>5. KeptPart(K)' BY <1>1, <1>3, <1>4 DEF KeptPart, Kept
<1>6. LeftPart(K)' BY <1>1, <1>3, <1>4 DEF LeftPart
<1>7. TakenPart(K)' BY <1>1, <1>2, <1>3 DEF TakenPart, Active
<1>8. RemovedPart(K)'
  <2>1. \A x : Removing(x)' => Removing(x) BY <1>1, <1>2 DEF Removing
  <2> QED BY <1>1, <1>3, <1>4, <2>1 DEF RemovedPart
<1>9. StandPart(K)' BY <1>1, <1>2, <1>3, StandFrame
<1> QED BY <1>5, <1>6, <1>7, <1>8, <1>9 DEF SubsumeInv


\* A visit removes one of two clauses for the other, marks it for removal, or lets the
\* thread's clause inherit.
LEMMA CoverVisit ==
    ASSUME TypeInv, NEW K, SubsumeInv(K), NEW t \in Threads, NEW d \in Refs, Visit(t, d)
    PROVE  SubsumeInv(K)'
<1>1. /\ UNCHANGED <<lits, learnt, deleted, units, ok, subsume, start, queue, cls, local, read>>
      /\ pc[t] = "visit" /\ d \in rest[t] /\ rest' = [rest EXCEPT ![t] = @ \ {d}]
      /\ ClausesType
  BY DEF Visit, Visits, formula, master, header, TypeInv
<1>2. KeptPart(K) /\ TakenPart(K) /\ RemovedPart(K) /\ LeftPart(K) /\ StandPart(K) /\ K \subseteq Refs
  BY DEF SubsumeInv, KeptPart
<1>3. /\ Refs' = Refs /\ (Covers(K)' <=> Covers(K))
      /\ \A x : Redundant(K, x)' <=> Redundant(K, x)
      /\ \A x, y : Before(x, y)' <=> Before(x, y)
  BY <1>1, SubsumeFrame
<1>4. \A u \in Threads \ {t} : UNCHANGED <<pc[u], cls[u], rest[u], other[u], inherits[u]>>
  BY <1>1 DEF Visit, Visits, HandOver, Inherit, Removes, Goes, later, TypeInv, ThreadsType
<1>5. rest'[t] = rest[t] \ {d} BY <1>1 DEF TypeInv, ThreadsType
<1> DEFINE c == cls[t]
<1>6. c \in K /\ c \in Nat /\ d \in Nat /\ d # c /\ lits[c] \subseteq lits[d]
  BY <1>1, <1>2, ClauseFacts DEF TakenPart, Active
<1>7. d \notin deleted => d \in K BY <1>2 DEF KeptPart, Kept
<1>8. IF Later(c, d) THEN Before(d, c) ELSE Before(c, d)
  BY <1>6 DEF Later, Before
\* What happens to the clause that goes, and to the flags
<1>9. /\ setNonLearnt \subseteq setNonLearnt' /\ toDelete \subseteq toDelete'
      /\ \A x \in K : x \in toDelete' \ toDelete => \E r \in K : Before(r, x)
      /\ \/ pc'[t] = "visit"
         \/ pc'[t] = "spin" /\ Redundant(K, other'[t])
      /\ inherits[t] => inherits'[t]
      /\ d \in K \ learnt /\ c \in learnt => Redundant(K, d) \/ Before(d, c) \/ inherits'[t]
  <2>1. CASE d \in deleted
    <3>1. UNCHANGED <<later, pc, other, inherits>> BY <2>1 DEF Visit
    <3>2. d \in K => Redundant(K, d) BY <1>2, <2>1 DEF RemovedPart
    <3> QED BY <1>1, <3>1, <3>2 DEF later
  <2>2. CASE d \notin deleted /\ Later(c, d)
    <3>1. Before(d, c) /\ d \in K BY <1>7, <1>8, <2>2
    <3>2. CASE c \notin learnt /\ d \in learnt
      <4>1. HandOver(t, c, d) BY <2>2, <3>2 DEF Visit
      <4> QED BY <1>1, <3>1, <3>2, <4>1 DEF HandOver
    <3>3. CASE ~ (c \notin learnt /\ d \in learnt)
      <4>1. Removes(t, c) BY <2>2, <3>3 DEF Visit
      <4>2. Redundant(K, c) BY <3>1, <3>3 DEF Redundant
      <4> QED BY <1>1, <3>1, <4>1, <4>2 DEF Removes, Goes, TypeInv, ThreadsType
    <3> QED BY <3>2, <3>3
  <2>3. CASE d \notin deleted /\ ~ Later(c, d)
    <3>1. Before(c, d) /\ d \in K BY <1>7, <1>8, <2>3
    <3>2. CASE c \in learnt /\ d \notin learnt
      <4>1. Inherit(t, d) BY <2>3, <3>2 DEF Visit
      <4> QED BY <1>1, <1>6, <3>1, <4>1 DEF Inherit, TypeInv, ThreadsType
    <3>3. CASE ~ (c \in learnt /\ d \notin learnt)
      <4>1. Removes(t, d) BY <2>3, <3>3 DEF Visit
      <4>2. Redundant(K, d) BY <1>6, <3>1, <3>3 DEF Redundant
      <4> QED BY <1>1, <1>6, <3>1, <3>3, <4>1, <4>2 DEF Removes, Goes, TypeInv, ThreadsType
    <3> QED BY <3>2, <3>3
  <2> QED BY <2>1, <2>2, <2>3
<1>10. KeptPart(K)' BY <1>1, <1>2, <1>3 DEF KeptPart, Kept
<1>11. LeftPart(K)' BY <1>2, <1>3, <1>9 DEF LeftPart
<1>12. TakenPart(K)'
  BY <1>1, <1>2, <1>4, <1>5, <1>9 DEF TakenPart, Active
<1>13. RemovedPart(K)'
  <2>1. \A x : Removing(x)' => Removing(x) \/ Redundant(K, x) BY <1>1, <1>4, <1>9 DEF Removing
  <2> QED BY <1>1, <1>2, <1>3, <2>1 DEF RemovedPart
<1>14. StandPart(K)'
  <2>1. ASSUME c \in learnt, Doing(K, t) PROVE Doing(K, t)'
    <3>1. CASE \E r \in K : Before(r, c) BY <1>1, <1>3, <3>1 DEF Doing
    <3>2. CASE ~ \E r \in K : Before(r, c)
      <4>1. ASSUME NEW x \in K \ learnt, Before(c, x)
            PROVE  c \in setNonLearnt' \/ Redundant(K, x) \/ x \in rest'[t] \/ inherits'[t]
        <5>1. c \in setNonLearnt \/ Redundant(K, x) \/ x \in rest[t] \/ inherits[t]
          BY <2>1, <3>2, <4>1 DEF Doing
        <5>2. CASE x = d BY <1>9, <2>1, <3>2, <4>1, <5>2
        <5>3. CASE x # d BY <1>5, <1>9, <5>1, <5>3
        <5> QED BY <5>2, <5>3
      <4> QED BY <1>1, <1>3, <4>1 DEF Doing
    <3> QED BY <3>1, <3>2
  <2> QED BY <1>1, <1>2, <1>4, <1>9, <2>1, StandFrame
<1> QED BY <1>10, <1>11, <1>12, <1>13, <1>14 DEF SubsumeInv

LEMMA CoverDelete ==
    ASSUME TypeInv, NEW K, SubsumeInv(K), NEW t \in Threads, SpinLock(t) \/ Delete(t)
    PROVE  SubsumeInv(K)'
<1>1. /\ UNCHANGED <<lits, learnt, units, ok, subsume, start, queue, toDelete, setNonLearnt,
                     cls, rest, other, inherits, local, read>>
      /\ deleted' = deleted \/ (pc[t] = "locked" /\ deleted' = deleted \cup {other[t]})
      /\ pc[t] \in {"spin", "locked"} /\ pc' = [pc EXCEPT ![t] = IF pc[t] = "spin" THEN "locked" ELSE "visit"]
  BY DEF SpinLock, Delete, Goes, formula, master, later, scan
<1>2. pc'[t] \in {"locked", "visit"} /\ \A u \in Threads \ {t} : pc'[u] = pc[u]
  BY <1>1 DEF TypeInv, ThreadsType
<1>3. KeptPart(K) /\ TakenPart(K) /\ RemovedPart(K) /\ LeftPart(K) /\ StandPart(K)
  BY DEF SubsumeInv
<1>4. /\ Refs' = Refs /\ (Covers(K)' <=> Covers(K))
      /\ \A x : Redundant(K, x)' <=> Redundant(K, x)
      /\ \A x, y : Before(x, y)' <=> Before(x, y)
  BY <1>1, SubsumeFrame
<1>5. KeptPart(K)' BY <1>1, <1>3, <1>4 DEF KeptPart, Kept
<1>6. LeftPart(K)' BY <1>1, <1>3, <1>4 DEF LeftPart
<1>7. TakenPart(K)' BY <1>1, <1>2, <1>3 DEF TakenPart, Active
<1>8. RemovedPart(K)'
  <2>1. \A x : Removing(x)' => Removing(x) BY <1>1, <1>2 DEF Removing
  <2>2. \A x : x \in deleted' => x \in deleted \/ Removing(x) BY <1>1 DEF Removing
  <2> QED BY <1>3, <1>4, <2>1, <2>2 DEF RemovedPart
<1>9. StandPart(K)'
  <2>1. Doing(K, t) => Doing(K, t)' BY <1>1, <1>4 DEF Doing
  <2> QED BY <1>1, <1>2, <1>3, <2>1, StandFrame
<1> QED BY <1>5, <1>6, <1>7, <1>8, <1>9 DEF SubsumeInv

\* A thread that is done with its clause has let it stand for whatever it has to.
LEMMA CoverEnd ==
    ASSUME TypeInv, NEW K, SubsumeInv(K), NEW t \in Threads, EndVisits(t) \/ WriteFlags(t)
    PROVE  SubsumeInv(K)'
<1>1. /\ UNCHANGED <<lits, learnt, units, ok, subsume, start, queue, toDelete, local>>
      /\ \/ EndVisits(t) /\ pc[t] = "visit" /\ UNCHANGED deleted
         \/ WriteFlags(t) /\ pc[t] = "write" /\ UNCHANGED setNonLearnt
  BY DEF EndVisits, WriteFlags, formula, master, later
<1>2. /\ \A u \in Threads \ {t} : UNCHANGED <<pc[u], cls[u], rest[u], other[u], inherits[u], read[u]>>
      /\ \/ pc'[t] = "take"
         \/ pc'[t] = "write" /\ EndVisits(t) /\ UNCHANGED <<cls, rest>>
            /\ ("deleted" \in read'[t] => cls[t] \in deleted)
  <2>1. CASE EndVisits(t) /\ (start.deferred \/ ~ start.word)
    BY <2>1 DEF EndVisits, Goes, Forget, TypeInv, ThreadsType
  <2>2. CASE EndVisits(t) /\ start.word /\ ~ start.deferred
    BY <2>2 DEF EndVisits, Goes, scan, TypeInv, ThreadsType
  <2>3. CASE WriteFlags(t)
    BY <2>3 DEF WriteFlags, Goes, Forget, TypeInv, ThreadsType
  <2> QED BY <2>1, <2>2, <2>3
<1>3. KeptPart(K) /\ TakenPart(K) /\ RemovedPart(K) /\ LeftPart(K) /\ StandPart(K)
  BY DEF SubsumeInv
<1>4. /\ Refs' = Refs /\ (Covers(K)' <=> Covers(K))
      /\ \A x : Redundant(K, x)' <=> Redundant(K, x)
      /\ \A x, y : Before(x, y)' <=> Before(x, y)
  BY <1>1, SubsumeFrame
<1>5. cls[t] \in K BY <1>1, <1>3 DEF TakenPart, Active
<1>6. \/ deleted' = deleted
      \/ deleted' = deleted \ {cls[t]}
      \/ pc[t] = "write" /\ "deleted" \in read[t] /\ deleted' = deleted \cup {cls[t]}
  BY <1>1 DEF WriteFlags
<1>7. KeptPart(K)' BY <1>1, <1>3, <1>4, <1>5, <1>6 DEF KeptPart, Kept
<1>8. LeftPart(K)' BY <1>1, <1>3, <1>4 DEF LeftPart
<1>9. TakenPart(K)' BY <1>1, <1>2, <1>3 DEF TakenPart, Active
<1>10. RemovedPart(K)'
  <2>1. \A x : Removing(x)' => Removing(x) \/ x \in deleted BY <1>1, <1>2 DEF Removing
  <2>2. \A x : x \in deleted' => x \in deleted \/ Removing(x) BY <1>1, <1>6 DEF Removing
  <2> QED BY <1>3, <1>4, <2>1, <2>2 DEF RemovedPart
<1>11. setNonLearnt \subseteq setNonLearnt' BY <1>1 DEF EndVisits, AddNonLearnt
<1>12. StandPart(K)'
  <2>1. ASSUME pc[t] = "visit", Doing(K, t), NEW m, m = cls[t] PROVE Done(K, m)'
    <3>1. rest[t] = {} /\ (inherits[t] => m \in setNonLearnt')
      BY <1>1, <2>1 DEF EndVisits, AddNonLearnt
    <3>2. CASE \E r \in K : Before(r, m) BY <1>4, <3>2 DEF Done
    <3>3. CASE ~ \E r \in K : Before(r, m)
      <4>1. \A x \in K \ learnt : Before(m, x) => m \in setNonLearnt' \/ Redundant(K, x)
        BY <1>11, <2>1, <3>1, <3>3 DEF Doing
      <4> QED BY <1>1, <1>4, <4>1 DEF Done
    <3> QED BY <3>2, <3>3
  <2> QED BY <1>1, <1>2, <1>3, <1>11, <2>1, StandFrame
<1> QED BY <1>7, <1>8, <1>9, <1>10, <1>12 DEF SubsumeInv

LEMMA CoverNext ==
    ASSUME ~ MayStop, TypeInv, CoverInv, [Next]_vars
    PROVE  CoverInv'
<1>1. CASE Master
  BY <1>1, CoverStart, CoverStrengthened, CoverSubsumed DEF Master
<1>2. ASSUME NEW t \in Threads, job = "subsume", Worker(t) PROVE CoverInv'
  <2>1. PICK K : SubsumeInv(K) BY <1>2 DEF CoverInv
  <2>2. job' = "subsume" /\ SubsumeInv(K)'
    <3>1. CASE \E c \in Refs : Skip(t, c) \/ TakeSubsumer(t, c)
      BY <1>2, <2>1, <3>1, CoverTake DEF Skip, TakeSubsumer, master
    <3>2. CASE Back(t) BY <1>2, <2>1, <3>2, CoverBack DEF Back, master
    <3>3. CASE SpinLock(t) \/ Delete(t)
      BY <1>2, <2>1, <3>3, CoverDelete DEF SpinLock, Delete, master
    <3>4. CASE EndVisits(t) \/ WriteFlags(t)
      BY <1>2, <2>1, <3>4, CoverEnd DEF EndVisits, WriteFlags, master
    <3>5. CASE \E d \in Refs : Visit(t, d)
      BY <1>2, <2>1, <3>5, CoverVisit DEF Visit, master
    <3>6. CASE \/ \E c \in Refs : TakeStrengthener(t, c) \/ LookAt(t, c)
               \/ LockFirst(t) \/ LockOther(t) \/ Check(t) \/ EndStrengthening(t)
      BY <1>2, <3>6 DEF TakeStrengthener, LookAt, LockFirst, LockOther, Check, EndStrengthening,
                        TypeInv, PlacesInv
    <3> QED BY <1>2, <3>1, <3>2, <3>3, <3>4, <3>5, <3>6 DEF Worker
  <2> QED BY <2>2 DEF CoverInv
<1>3. ASSUME UNCHANGED <<lits, learnt, deleted, units, ok, subsume, start, toDelete, job>>,
             job # "subsume", job = "none" => UNCHANGED local
      PROVE  CoverInv'
  <2>1. Covers(Kept)' <=> Covers(Kept) BY <1>3 DEF Covers, Good, Before, Later, Kept, Refs
  <2> QED BY <1>3, <2>1 DEF CoverInv
<1>4. ASSUME NEW t \in Threads, job # "subsume", Worker(t) PROVE CoverInv'
  <2>1. CASE Check(t) BY <2>1, CoverCheck
  <2>2. CASE \/ \E c \in Refs : Skip(t, c) \/ TakeSubsumer(t, c) \/ TakeStrengthener(t, c)
             \/ Back(t) \/ LockFirst(t) \/ LockOther(t) \/ EndStrengthening(t) \/ \E d \in Refs : LookAt(t, d)
    <3>1. UNCHANGED <<lits, learnt, deleted, units, ok, subsume, start, toDelete, job>>
      BY <2>2 DEF Skip, TakeSubsumer, TakeStrengthener, Back, LockFirst, LockOther, EndStrengthening,
                  LookAt, formula, master, later
    <3>2. job # "none"
      BY <2>2 DEF Skip, TakeSubsumer, TakeStrengthener, Take, Back, LockFirst, LockOther,
                  EndStrengthening, LookAt, TypeInv, PlacesInv
    <3> QED BY <1>3, <1>4, <3>1, <3>2
  <2>3. CASE SpinLock(t) \/ Delete(t) \/ EndVisits(t) \/ WriteFlags(t) \/ \E d \in Refs : Visit(t, d)
    BY <1>4, <2>3 DEF SpinLock, Delete, EndVisits, WriteFlags, Visit, Visits,
                      TypeInv, PlacesInv, QueuesType, Jobs
  <2> QED BY <1>4, <2>1, <2>2, <2>3 DEF Worker
<1>5. CASE Rest \/ UNCHANGED vars
  <2>1. UNCHANGED vars BY <1>5 DEF Rest
  <2>2. UNCHANGED <<lits, learnt, deleted, units, ok, subsume, start, toDelete, setNonLearnt, job, queue,
                    pc, cls, rest, other, inherits, local, read>>
    BY <2>1 DEF vars, formula, master, later, scan, header
  <2>3. ASSUME NEW K, SubsumeInv(K) PROVE SubsumeInv(K)'
    BY <2>2, <2>3 DEF SubsumeInv, KeptPart, TakenPart, RemovedPart, LeftPart, StandPart, Kept, Refs, Covers,
                 Good, Before, Later, Redundant, Removing, Done, Doing
  <2>4. CASE job = "subsume" BY <2>2, <2>3, <2>4 DEF CoverInv
  <2>5. CASE job # "subsume" BY <1>3, <2>2, <2>5
  <2> QED BY <2>4, <2>5
<1> QED BY <1>1, <1>2, <1>4, <1>5 DEF Next

\* If nothing stops the threads, the core clauses and units that are left imply
\* the core clauses that were given: whatever order the threads find, mark
\* and delete each other's clauses in, a learnt clause that took the place of a
\* core clause has become one.
THEOREM CoreIsKept ==
    ASSUME ~ MayStop, \A p \in Problems : Queued(p)
    PROVE  Spec => []NothingLost
<1>1. Init => TypeInv /\ CoverInv BY InitType, CoverInit
<1>2. TypeInv /\ CoverInv /\ [Next]_vars => TypeInv' /\ CoverInv' BY NextType, CoverNext
<1>3. TypeInv /\ CoverInv => NothingLost
  <2>1. ASSUME TypeInv, CoverInv, job = "none" PROVE NothingLost
    BY <2>1, CoversSuffices DEF TypeInv, CoverInv
  <2>2. job # "none" => NothingLost BY DEF NothingLost
  <2> QED BY <2>1, <2>2
<1> QED BY <1>1, <1>2, <1>3, PTL DEF Spec
===============================================================================
