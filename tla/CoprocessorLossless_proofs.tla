----------------------- MODULE CoprocessorLossless_proofs -----------------------
(***************************************************************************)
(* What simplification keeps: nothing is excluded that the given formula   *)
(* allows for the frozen variables, and the clauses that stay are well     *)
(* formed.  SafeInv is the inductive invariant.  SafeStep says what a step *)
(* of a technique may do: each model that the solver has still has one     *)
(* that agrees with it on the frozen variables.  Each action has a lemma   *)
(* that it is a SafeStep, those of LeftOut aside.  ThreadsInv is what the  *)
(* threads of an elimination know while they hold their locks: with it     *)
(* models extend when they work at the same time, too.                     *)
(***************************************************************************)
EXTENDS Coprocessor_proofs

-----------------------------------------------------------------------------
(* The interface of a step *)

\* The literals of the variables that the solver has when it does not have X.
LitsWithout(X) == {l \in Lits : VarOf(l) \notin X}

\* There are no tautologies.
Tidy(F) == \A C \in F : ~ Tautology(C)

\* The clauses that are kept have two literals at least, of variables that are open.
WellFormed ==
    /\ start \in Starts /\ ok \in BOOLEAN /\ fresh \in SUBSET Vars
    /\ start.frozen \cap fresh = {}
    /\ core \in SUBSET (SUBSET OpenLits) /\ learnts \in SUBSET (SUBSET OpenLits)
    /\ units \in SUBSET LitsWithout(fresh)
    /\ Tidy(All) /\ \A C \in All : Cardinality(C) > 1

Agree(A, B) == A \cap start.frozen = B \cap start.frozen

\* Some model of F and V allows for the frozen variables what A does, when the solver does
\* not have the variables X.
Allowed(A, F, V, X) == \E B \in SUBSET (Vars \ X) : Agree(A, B) /\ Model(B, F, V)

\* A step that keeps that and excludes nothing.
SafeStep ==
    /\ WellFormed' /\ start' = start
    /\ \A A \in SUBSET (Vars \ fresh) :
        Model(A, All, units) => ok' /\ Allowed(A, All', units', fresh')

LEMMA OpenIsThere ==
    /\ OpenLits \subseteq LitsWithout(fresh) /\ OpenLits \subseteq Lits
    /\ \A l \in OpenLits : -l \in OpenLits
<1>1. ASSUME NEW l \in OpenLits PROVE l \in LitsWithout(fresh) /\ l \in Lits /\ -l \in OpenLits
  <2>1. l \in Lits /\ -l \in OpenLits /\ VarOf(l) \in Open
    BY OpenLitsFacts
  <2>2. QED
    BY <2>1 DEF LitsWithout, Open
<1>2. QED
  BY <1>1

\* The clauses of a formula over open variables.
LEMMA AllIsOpen ==
    ASSUME WellFormed
    PROVE  /\ All \in SUBSET (SUBSET OpenLits) /\ All \in Formula /\ core \in Formula /\ learnts \in Formula
           /\ \A C \in All : C \subseteq OpenLits /\ C \in Clause
           /\ units \subseteq Lits
BY OpenIsThere DEF WellFormed, All, Formula, Clause, LitsWithout

\* A model gives what propagation finds.
LEMMA UnitsAreImplied ==
    ASSUME NEW F \in Formula, NEW U \in SUBSET Lits, NEW A, Model(A, F, U)
    PROVE  \A l \in UnitsFrom(F, U) : Holds(A, l)
<1> DEFINE N == Cardinality(Vars) + 1
<1>1. N \in Nat
  BY VarsAssumption, FS_CardinalityType
<1>2. PICK f : Propagates(f, F, U) /\ UnitsFrom(F, U) = f[Cardinality(Vars) + 1]
  BY UnitsFromStepwise
<1>3. /\ f[0] = U /\ \A n \in 1..N : f[n] = f[n - 1] \cup Forced(F, f[n - 1])
      /\ UnitsFrom(F, U) = f[N]
  BY <1>2 DEF Propagates
<1> HIDE DEF N
<1> DEFINE T == {n \in 0..N : \A l \in f[n] : Holds(A, l)}
<1>4. 0 \in T
  BY <1>1, <1>3 DEF Model
<1>5. ASSUME NEW n \in 1..N, n - 1 \in T PROVE n \in T
  <2>1. ASSUME NEW l \in Forced(F, f[n - 1]) PROVE Holds(A, l)
    <3>1. PICK C \in F : l \in C /\ Negated(C \ {l}) \subseteq f[n - 1]
      BY <2>1 DEF Forced
    <3>2. PICK k \in C : Holds(A, k)
      BY DEF Model, IsModel, Sat
    <3>3. CASE k # l
      <4>1. -k \in f[n - 1] /\ k \in Lits
        BY <3>1, <3>3 DEF Negated, Formula, Clause
      <4>2. Holds(A, -k)
        BY <4>1, <1>5
      <4>3. QED
        BY <3>2, <4>1, <4>2, LitFacts, HoldsFlip
    <3>4. QED
      BY <3>2, <3>3
  <2>2. QED
    BY <2>1, <1>3, <1>5
<1>6. 0..N \subseteq T
  <2> HIDE DEF T
  <2>1. QED
    BY <1>1, <1>4, <1>5, Induction
<1>7. QED
  BY <1>1, <1>3, <1>6

LEMMA ModelsDoNotFail ==
    ASSUME NEW F \in Formula, NEW V \in SUBSET Lits, NEW A, Model(A, F, V)
    PROVE  ~ FailsWith(F, V)
<1>1. ASSUME NEW l \in V, -l \in V PROVE FALSE
  BY <1>1, LitFacts, HoldsFlip DEF Model
<1>2. ASSUME NEW C \in F, Negated(C) \subseteq V PROVE FALSE
  <2>1. PICK k \in C : Holds(A, k)
    BY DEF Model, IsModel, Sat
  <2>2. k \in Lits /\ Holds(A, -k)
    BY <1>2 DEF Model, Negated, Formula, Clause
  <2>3. QED
    BY <2>1, <2>2, LitFacts, HoldsFlip
<1>3. QED
  BY <1>1, <1>2 DEF FailsWith

LEMMA PropagatedModels ==
    ASSUME NEW F \in Formula, NEW U \in SUBSET Lits, NEW A, Model(A, F, U)
    PROVE  /\ Model(A, F, UnitsFrom(F, U)) /\ ~ FailsWith(F, UnitsFrom(F, U))
           /\ UnitsFrom(F, U) \in SUBSET Lits
<1>1. UnitsFrom(F, U) \in SUBSET Lits
  BY UnitsFromGrows DEF Formula, Clause
<1>2. Model(A, F, UnitsFrom(F, U))
  BY UnitsAreImplied DEF Model
<1>3. QED
  BY <1>1, <1>2, ModelsDoNotFail

LEMMA ReducedHolds ==
    ASSUME NEW F \in Formula, NEW V \in SUBSET Lits, NEW A, Model(A, F, V)
    PROVE  IsModel(A, Reduced(F, V))
<1>1. ASSUME NEW C \in F PROVE Sat(A, Without(C, V))
  <2>1. PICK k \in C : Holds(A, k)
    BY DEF Model, IsModel, Sat
  <2>2. k \in Lits
    BY DEF Formula, Clause
  <2>3. k \notin Negated(V)
    <3>1. SUFFICES ASSUME NEW l \in V, k = -l PROVE FALSE
      BY DEF Negated
    <3>2. QED
      BY <3>1, <2>1, LitFacts, HoldsFlip DEF Model
  <2>4. QED
    BY <2>1, <2>3 DEF Sat, Without
<1>2. QED
  BY <1>1 DEF IsModel, Reduced

\* What propagation leaves of clauses F, whatever other clauses there are.
LEMMA ReducedIsOpen ==
    ASSUME NEW F \in Formula, NEW X, F \subseteq SUBSET LitsWithout(X), NEW V \in SUBSET Lits,
           NEW C \in Reduced(F, V)
    PROVE  \A l \in C : l \in Lits /\ VarOf(l) \in Vars \ ({VarOf(k) : k \in V} \cup X)
<1>1. PICK D \in F : C = Without(D, V) /\ D \cap V = {}
  BY DEF Reduced
<1>2. SUFFICES ASSUME NEW l \in C PROVE l \in Lits /\ VarOf(l) \in Vars \ ({VarOf(k) : k \in V} \cup X)
  OBVIOUS
<1>3. l \in D /\ l \notin Negated(V) /\ l \in Lits /\ VarOf(l) \notin X
  BY <1>1 DEF Without, LitsWithout
<1>4. ASSUME NEW k \in V, VarOf(k) = VarOf(l) PROVE FALSE
  <2>1. k \in Int /\ l \in Int
    BY <1>3, LitFacts
  <2>2. k = l \/ l = -k
    BY <1>4, <2>1 DEF VarOf
  <2>3. QED
    BY <2>2, <1>1, <1>3 DEF Negated
<1>5. QED
  BY <1>3, <1>4, LitFacts

LEMMA ReducedIsLong ==
    ASSUME NEW F \in Formula, NEW U \in SUBSET Lits, ~ FailsWith(F, UnitsFrom(F, U)),
           NEW C \in Reduced(F, UnitsFrom(F, U))
    PROVE  Cardinality(C) > 1
<1> DEFINE V == UnitsFrom(F, U)
<1>1. \A l \in V : -l \notin V
  BY DEF FailsWith
<1>2. Forced(F, V) \subseteq V /\ V \in SUBSET Lits
  BY <1>1, UnitsFromClosed, UnitsFromGrows DEF Formula, Clause
<1>3. PICK D \in F : C = Without(D, V) /\ D \cap V = {}
  BY DEF Reduced
<1>4. D \in SUBSET Lits /\ IsFiniteSet(C) /\ Cardinality(C) \in Nat
  <2>1. D \in SUBSET Lits
    BY DEF Formula, Clause
  <2>2. C \in SUBSET Lits
    BY <2>1, <1>3 DEF Without
  <2>3. QED
    BY <2>1, <2>2, LitsAreFinite, FS_CardinalityType
<1> HIDE DEF V
<1>5. ASSUME NEW k \in D \ C PROVE -k \in V
  BY <1>2, <1>3, <1>4, LitFacts DEF Without, Negated
<1>6. ASSUME C = {} PROVE FALSE
  <2>1. Negated(D) \subseteq V
    BY <1>5, <1>6 DEF Negated
  <2>2. QED
    BY <2>1 DEF V, FailsWith
<1>7. ASSUME NEW l, C = {l} PROVE FALSE
  <2>1. l \in D /\ Negated(D \ {l}) \subseteq V
    BY <1>3, <1>5, <1>7 DEF Negated, Without
  <2>2. l \in V
    BY <2>1, <1>2 DEF Forced
  <2>3. QED
    BY <2>1, <2>2, <1>3
<1>8. Cardinality(C) # 0
  BY <1>4, <1>6, FS_EmptySet
<1>9. Cardinality(C) # 1
  BY <1>4, <1>7, FS_Singleton
<1>10. QED
  BY <1>4, <1>8, <1>9

\* A step that goes from models to models before its clauses are propagated.
LEMMA BecomeSafe ==
    ASSUME WellFormed, ok, fresh' \in SUBSET fresh,
           NEW K, NEW L, NEW U, Become(K, L, U),
           K \subseteq SUBSET LitsWithout(fresh'), L \subseteq SUBSET LitsWithout(fresh'),
           U \subseteq LitsWithout(fresh'), Tidy(K \cup L),
           \A A \in SUBSET (Vars \ fresh) :
               Model(A, All, units) => Allowed(A, K \cup L, units \cup U, fresh')
    PROVE  SafeStep
<1> DEFINE F == K \cup L
           W == units \cup U
           V == UnitsFrom(F, W)
<1>1. F \in Formula /\ W \in SUBSET Lits /\ K \in Formula /\ L \in Formula /\ F \subseteq SUBSET LitsWithout(fresh')
      /\ units \subseteq LitsWithout(fresh')
  BY DEF WellFormed, LitsWithout, Formula, Clause
<1>2. V \subseteq LitsWithout(fresh') /\ V \in SUBSET Lits
  <2>1. V \subseteq W \cup UNION F
    BY UnitsFromGrows
  <2> HIDE DEF V
  <2>2. QED
    BY <2>1, <1>1 DEF LitsWithout
<1>3. start' = start /\ start' \in Starts /\ fresh' \in SUBSET Vars /\ start'.frozen \cap fresh' = {}
  BY DEF Become, WellFormed
<1> HIDE DEF F, W
<1>4. CASE FailsWith(F, V)
  <2>1. ok' = FALSE /\ core' = core /\ learnts' = learnts /\ units' = units
    BY <1>4 DEF Become, F, W
  <2>2. Open \subseteq Open'
    BY <2>1 DEF Open, Assigned
  <2>3. OpenLits \subseteq OpenLits'
    BY <2>2 DEF OpenLits
  <2>4. All' = All /\ Tidy(All)'
    BY <2>1, <1>3 DEF All, Tidy, WellFormed
  <2>5. WellFormed'
    BY <2>1, <2>3, <2>4, <1>1, <1>3 DEF WellFormed
  <2>6. ASSUME NEW A \in SUBSET (Vars \ fresh), Model(A, All, units) PROVE FALSE
    <3>1. PICK B : Model(B, F, W)
      BY <2>6 DEF Allowed, F, W
    <3>2. ~ FailsWith(F, V)
      BY <3>1, <1>1, PropagatedModels
    <3>3. QED
      BY <3>2, <1>4
  <2>7. QED
    BY <2>5, <2>6, <1>3 DEF SafeStep
<1>5. CASE ~ FailsWith(F, V)
  <2>1. ok' = TRUE /\ core' = Reduced(K, V) /\ learnts' = Reduced(L, V) /\ units' = V
    BY <1>5 DEF Become, F, W
  <2>2. All' = Reduced(F, V)
    BY <2>1 DEF All, Reduced, F
  <2>3. Open' = Vars \ ({VarOf(k) : k \in V} \cup fresh')
    BY <2>1 DEF Open, Assigned
  <2>4. \A C \in All' : \A l \in C : l \in Lits /\ VarOf(l) \in Open'
    <3> HIDE DEF V
    <3>1. QED
      BY <2>2, <2>3, <1>1, <1>2, ReducedIsOpen
  <2>5. \A C \in All' : C \subseteq OpenLits'
    <3>1. \A l \in Lits : VarOf(l) \in Open' => l \in OpenLits'
      BY LitFacts DEF OpenLits, VarOf
    <3>2. QED
      BY <3>1, <2>4
  <2>6. core' \subseteq SUBSET OpenLits' /\ learnts' \subseteq SUBSET OpenLits'
    BY <2>5 DEF All
  <2>7. \A C \in All' : Cardinality(C) > 1
    BY <2>2, <1>1, <1>5, ReducedIsLong
  <2>8. Tidy(All)'
    <3>1. ASSUME NEW C \in All' PROVE ~ Tautology(C)
      <4>1. PICK D \in F : C = Without(D, V)
        BY <2>2 DEF Reduced
      <4>2. C \subseteq D
        BY <4>1 DEF Without
      <4>3. QED
        BY <4>1, <4>2 DEF Tautology, Tidy, F
    <3>2. QED
      BY <3>1 DEF Tidy
  <2>9. WellFormed'
    BY <2>1, <2>6, <2>7, <2>8, <1>2, <1>3 DEF WellFormed
  <2>10. ASSUME NEW A \in SUBSET (Vars \ fresh), Model(A, All, units)
         PROVE  Allowed(A, All', units', fresh')
    <3>1. PICK B \in SUBSET (Vars \ fresh') : Agree(A, B) /\ Model(B, F, W)
      BY <2>10 DEF Allowed, F, W
    <3>2. Model(B, F, V)
      BY <3>1, <1>1, PropagatedModels
    <3>3. Model(B, Reduced(F, V), V)
      BY <3>2, <1>1, <1>2, ReducedHolds DEF Model
    <3>4. QED
      BY <3>1, <3>3, <2>1, <2>2 DEF Allowed
  <2>11. QED
    BY <2>1, <2>9, <2>10, <1>3 DEF SafeStep
<1>6. QED
  BY <1>4, <1>5

\* The clauses follow from those that were there, or are open to the same models.
LEMMA ImpliedSafe ==
    ASSUME WellFormed, ok, fresh' = fresh, NEW K, NEW L, NEW U, Become(K, L, U),
           K \subseteq SUBSET OpenLits, L \subseteq SUBSET OpenLits, U \subseteq LitsWithout(fresh),
           Tidy(K \cup L),
           \A A \in SUBSET (Vars \ fresh) : Model(A, All, units) => Model(A, K \cup L, U)
    PROVE  SafeStep
<1>1. K \subseteq SUBSET LitsWithout(fresh') /\ L \subseteq SUBSET LitsWithout(fresh')
  BY OpenIsThere
<1>2. ASSUME NEW A \in SUBSET (Vars \ fresh), Model(A, All, units)
      PROVE  Allowed(A, K \cup L, units \cup U, fresh')
  <2>1. Model(A, K \cup L, U)
    BY <1>2
  <2>2. Model(A, K \cup L, units \cup U) /\ Agree(A, A)
    BY <2>1, <1>2 DEF Model, Agree
  <2>3. QED
    BY <2>2 DEF Allowed
<1>3. QED
  BY <1>1, <1>2, BecomeSafe

\* The same with parts of it named: clauses go, N come in.
LEMMA AddingSafe ==
    ASSUME WellFormed, ok, NEW K, NEW L, NEW N, NEW U, Become(K, L, U), fresh' = fresh,
           K \subseteq core \cup learnts \cup N, L \subseteq core \cup learnts \cup N,
           N \subseteq SUBSET OpenLits, U \subseteq LitsWithout(fresh), Tidy(N),
           \A A \in SUBSET (Vars \ fresh) : Model(A, All, units) => Model(A, N, U)
    PROVE  SafeStep
<1>1. K \subseteq SUBSET OpenLits /\ L \subseteq SUBSET OpenLits
  BY DEF WellFormed
<1>2. Tidy(K \cup L)
  BY DEF WellFormed, Tidy, All
<1>3. \A A \in SUBSET (Vars \ fresh) : Model(A, All, units) => Model(A, K \cup L, U)
  BY DEF Model, IsModel, All
<1>4. QED
  BY <1>1, <1>2, <1>3, ImpliedSafe

\* Clauses only go.
LEMMA RemovingSafe ==
    ASSUME WellFormed, ok, NEW K, NEW L, Become(K, L, {}), fresh' = fresh,
           K \subseteq core \cup learnts, L \subseteq core \cup learnts
    PROVE  SafeStep
<1>1. Tidy({}) /\ \A A : Model(A, {}, {})
  BY DEF Tidy, Model, IsModel
<1> DEFINE N == {}
<1>2. N \subseteq SUBSET OpenLits /\ Tidy(N) /\ \A A : Model(A, N, N)
  BY <1>1
<1>3. QED
  BY <1>2, AddingSafe

\* Literals that follow become units.
LEMMA UnitsSafe ==
    ASSUME WellFormed, ok, NEW U, Rewrite(core, learnts, U), U \subseteq LitsWithout(fresh),
           \A A \in SUBSET (Vars \ fresh) : Model(A, All, units) => \A l \in U : Holds(A, l)
    PROVE  SafeStep
<1>1. Tidy({}) /\ \A A : IsModel(A, {})
  BY DEF Tidy, IsModel
<1>2. Become(core, learnts, U) /\ fresh' = fresh
  BY DEF Rewrite
<1> DEFINE N == {}
<1>3. N \subseteq SUBSET OpenLits /\ Tidy(N)
  BY <1>1
<1>4. \A A \in SUBSET (Vars \ fresh) : Model(A, All, units) => Model(A, N, U)
  BY <1>1 DEF Model
<1>5. core \subseteq core \cup learnts \cup N /\ learnts \subseteq core \cup learnts \cup N
  OBVIOUS
<1>6. QED
  BY <1>2, <1>3, <1>4, <1>5, AddingSafe

\* A clause that follows comes in, and clauses may go.
LEMMA ClauseSafe ==
    ASSUME WellFormed, ok, NEW K, NEW L, NEW C, Become(K, L, {}), fresh' = fresh,
           K \subseteq core \cup learnts \cup {C}, L \subseteq core \cup learnts \cup {C},
           C \subseteq OpenLits, Tidy({C}),
           \A A \in SUBSET (Vars \ fresh) : Model(A, All, units) => Sat(A, C)
    PROVE  SafeStep
<1>1. \A A \in SUBSET (Vars \ fresh) : Model(A, All, units) => Model(A, {C}, {})
  BY DEF Model, IsModel
<1>2. {C} \subseteq SUBSET OpenLits /\ {} \subseteq LitsWithout(fresh)
  OBVIOUS
<1>3. QED
  BY <1>1, <1>2, AddingSafe

\* A part of a clause is no tautology, and a larger clause follows.
LEMMA PartTidy ==
    ASSUME WellFormed, NEW C \in All, NEW D \in SUBSET C
    PROVE  D \subseteq OpenLits /\ Tidy({D})
<1>1. D \subseteq OpenLits
  BY AllIsOpen
<1>2. Tautology(D) => Tautology(C)
  BY DEF Tautology
<1>3. QED
  BY <1>1, <1>2 DEF WellFormed, Tidy

\* A contradiction.
LEMMA FailSafe ==
    ASSUME WellFormed, ok, Fail, \A A \in SUBSET (Vars \ fresh) : ~ Model(A, All, units)
    PROVE  SafeStep
<1>1. ok' = FALSE /\ UNCHANGED <<core, learnts, units, fresh, start>>
  BY DEF Fail
<1>2. All' = All /\ OpenLits' = OpenLits /\ Tidy(All)'
  BY <1>1 DEF All, OpenLits, Open, Assigned, Tidy, WellFormed
<1>3. WellFormed'
  BY <1>1, <1>2 DEF WellFormed
<1>4. QED
  BY <1>1, <1>3 DEF SafeStep

\* A literal of an open variable that is not frozen may change its value.
LEMMA FlipKeeps ==
    ASSUME WellFormed, forward = << >>, NEW l, Flippable(l), NEW A \in SUBSET (Vars \ fresh),
           Model(A, All, units)
    PROVE  /\ MadeTrue(A, l) \in SUBSET (Vars \ fresh) /\ Agree(A, MadeTrue(A, l))
           /\ \A k \in units : Holds(MadeTrue(A, l), k)
           /\ \A C \in All : -l \notin C => Sat(MadeTrue(A, l), C)
<1>1. l \in Lits /\ VarOf(l) \in Open /\ VarOf(l) \notin Frozen
  BY DEF Flippable
<1>2. VarOf(l) \in Vars \ fresh /\ VarOf(l) \notin start.frozen /\ l \in Int /\ l # 0
  BY <1>1, LitFacts DEF Open, Frozen, ExportVar, Renamed
<1>3. MadeTrue(A, l) \in SUBSET (Vars \ fresh)
  BY <1>2 DEF MadeTrue, VarOf
<1>4. Agree(A, MadeTrue(A, l))
  BY <1>2 DEF Agree, MadeTrue, VarOf
<1>5. ASSUME NEW k \in units PROVE Holds(MadeTrue(A, l), k)
  <2>1. k \in Int /\ k # 0 /\ VarOf(k) # VarOf(l)
    BY <1>1, AllIsOpen, LitFacts DEF Open, Assigned
  <2>2. Holds(A, k)
    BY DEF Model
  <2>3. QED
    BY <2>1, <2>2, <1>2, MadeTrueHolds
<1>6. ASSUME NEW C \in All, -l \notin C PROVE Sat(MadeTrue(A, l), C)
  BY <1>1, <1>6, AllIsOpen, FlipStays DEF Model, IsModel
<1>7. QED
  BY <1>3, <1>4, <1>5, <1>6

LEMMA UsesMeans == \A t : Uses(t) => ok /\ t \in start.techniques
BY DEF Uses

LEMMA RewriteIs ==
    ASSUME NEW K, NEW L, NEW U, Rewrite(K, L, U)
    PROVE  Become(K, L, U) /\ fresh' = fresh
BY DEF Rewrite

\* Resolution: what is left of two clauses when a literal is resolved away.
LEMMA ResolutionHolds ==
    ASSUME NEW l \in Lits, NEW A, NEW C, NEW D, Sat(A, C), Sat(A, D), NEW R,
           C \ {l} \subseteq R, D \ {-l} \subseteq R
    PROVE  Sat(A, R)
<1>1. Holds(A, -l) <=> ~ Holds(A, l)
  BY LitFacts, HoldsFlip
<1>2. QED
  BY <1>1 DEF Sat

-----------------------------------------------------------------------------
(* Subsumption and strengthening *)

LEMMA ShortenSafe ==
    ASSUME WellFormed, ok, NEW D \in All, NEW E, Shorten(D, E), E \subseteq OpenLits, Tidy({E}),
           \A A \in SUBSET (Vars \ fresh) : Model(A, All, units) => Sat(A, E)
    PROVE  SafeStep
<1>1. CASE Rewrite((core \ {D}) \cup {E}, learnts, {})
  BY <1>1, RewriteIs, ClauseSafe
<1>2. CASE Rewrite(core, (learnts \ {D}) \cup {E}, {})
  BY <1>2, RewriteIs, ClauseSafe
<1>3. QED
  BY <1>1, <1>2 DEF Shorten

\* A clause that is removed or moved to the other part of the formula.
LEMMA SubsumptionSafe ==
    ASSUME WellFormed, SubsumptionNext
    PROVE  SafeStep
<1>1. ASSUME NEW C \in All, NEW D \in All, Subsumption(C, D) PROVE SafeStep
  <2>1. ok
    BY <1>1 DEF Subsumption, Uses
  <2>2. CASE Rewrite(core, learnts \ {D}, {})
    BY <2>1, <2>2, RewriteIs, RemovingSafe
  <2>3. CASE Rewrite(core \ {D}, learnts, {})
    BY <2>1, <2>3, RewriteIs, RemovingSafe
  <2>4. CASE Rewrite((core \ {D}) \cup {C}, learnts \ {C}, {})
    <3>1. (core \ {D}) \cup {C} \subseteq core \cup learnts /\ learnts \ {C} \subseteq core \cup learnts
      BY DEF All
    <3>2. QED
      BY <3>1, <2>1, <2>4, RewriteIs, RemovingSafe
  <2>5. QED
    BY <1>1, <2>2, <2>3, <2>4 DEF Subsumption
<1>2. ASSUME NEW C \in All, NEW D \in All, NEW l \in C, Strengthening(C, D, l) PROVE SafeStep
  <2>1. ok /\ C \ {l} \subseteq D /\ -l \in D /\ Shorten(D, D \ {-l})
    BY <1>2 DEF Strengthening, Uses
  <2>2. l \in Lits
    BY AllIsOpen, OpenIsThere
  <2>3. ASSUME NEW A, Model(A, All, units) PROVE Sat(A, D \ {-l})
    <3>1. Sat(A, C) /\ Sat(A, D)
      BY <2>3 DEF Model, IsModel
    <3>2. -l \notin C
      BY DEF WellFormed, Tidy, Tautology
    <3>3. C \ {l} \subseteq D \ {-l}
      BY <2>1, <3>2
    <3>4. QED
      BY <3>1, <3>3, <2>2, ResolutionHolds
  <2>4. D \ {-l} \subseteq OpenLits /\ Tidy({D \ {-l}})
    BY PartTidy
  <2>5. QED
    BY <2>1, <2>3, <2>4, ShortenSafe
<1>3. QED
  BY <1>1, <1>2 DEF SubsumptionNext

-----------------------------------------------------------------------------
(* Variable elimination *)

\* All resolvents on v, tautologies apart.
ResolventsOn(v) == {Resolvent(p[1], p[2], v) : p \in {q \in With(v) \X With(-v) : Meets(q[1], q[2], v)}}

LEMMA ResolventIsOpen ==
    ASSUME WellFormed, NEW l, NEW C \in With(l), NEW D \in With(-l)
    PROVE  /\ Resolvent(C, D, l) \subseteq OpenLits /\ l \in Lits
           /\ \A A : Model(A, All, units) => Sat(A, Resolvent(C, D, l))
<1>1. C \in All /\ D \in All /\ C \subseteq OpenLits /\ D \subseteq OpenLits /\ l \in C
  BY AllIsOpen DEF With
<1>2. l \in Lits
  BY <1>1, OpenIsThere
<1>3. ASSUME NEW A, Model(A, All, units) PROVE Sat(A, Resolvent(C, D, l))
  <2>1. Sat(A, C) /\ Sat(A, D)
    BY <1>1, <1>3 DEF Model, IsModel
  <2>2. QED
    BY <2>1, <1>2, ResolutionHolds DEF Resolvent
<1>4. QED
  BY <1>1, <1>2, <1>3 DEF Resolvent

LEMMA ResolventsFollow ==
    ASSUME WellFormed, NEW v, NEW N \in SUBSET ResolventsOn(v)
    PROVE  /\ N \subseteq SUBSET OpenLits /\ Tidy(N)
           /\ \A A : Model(A, All, units) => Model(A, N, {})
<1>1. ASSUME NEW R \in N
      PROVE  R \subseteq OpenLits /\ ~ Tautology(R) /\ \A A : Model(A, All, units) => Sat(A, R)
  <2>1. PICK C \in With(v), D \in With(-v) : R = Resolvent(C, D, v) /\ Meets(C, D, v)
    BY DEF ResolventsOn
  <2>2. QED
    BY <2>1, ResolventIsOpen DEF Meets
<1>2. QED
  BY <1>1 DEF Tidy, Model, IsModel

LEMMA UnitResolventSafe ==
    ASSUME WellFormed, NEW v, UnitResolvent(v)
    PROVE  SafeStep
<1>1. ok
  BY DEF UnitResolvent, Uses
<1>2. PICK C \in With(v), D \in With(-v) :
        Cardinality(Resolvent(C, D, v)) = 1 /\ Rewrite(core, learnts, Resolvent(C, D, v))
  BY DEF UnitResolvent
<1>3. Resolvent(C, D, v) \subseteq OpenLits /\ \A A : Model(A, All, units) => Sat(A, Resolvent(C, D, v))
  BY ResolventIsOpen
<1> DEFINE R == Resolvent(C, D, v)
<1>4. PICK l : R = {l}
  <2>1. IsFiniteSet(R)
    BY <1>3, OpenIsThere, LitsAreFinite
  <2> HIDE DEF R
  <2>2. QED
    BY <2>1, <1>2, FS_Singleton DEF R
<1>5. \A A : Model(A, All, units) => \A k \in R : Holds(A, k)
  BY <1>3, <1>4 DEF Sat
<1>6. QED
  BY <1>1, <1>2, <1>3, <1>5, OpenIsThere, UnitsSafe

LEMMA RemoveBlockedSafe ==
    ASSUME WellFormed, NEW v, RemoveBlocked(v)
    PROVE  SafeStep
<1>1. ok
  BY DEF RemoveBlocked, Uses
<1>2. PICK B : Become(core \ B, learnts \ B, {}) /\ fresh' = fresh
  BY DEF RemoveBlocked
<1>3. core \ B \subseteq core \cup learnts /\ learnts \ B \subseteq core \cup learnts
  OBVIOUS
<1>4. QED
  BY <1>1, <1>2, <1>3, RemovingSafe

LEMMA EliminateSafe ==
    ASSUME WellFormed, NEW v, Eliminate(v)
    PROVE  SafeStep
<1>1. ok
  BY DEF Eliminate, Uses
<1>2. PICK gate \in Definitions(v), removesBlocked \in BOOLEAN, parents \in 0..2 :
        LET B  == IF removesBlocked THEN Blocked(v, gate) \cup Blocked(-v, gate) ELSE {}
            P  == With(v) \ B
            N  == With(-v) \ B
            Gone == With(v) \cup With(-v)
        IN  /\ Become((core \ Gone) \cup ResolventsOf(P \cap core, N \cap core, v, gate),
                      (learnts \ Gone) \cup LearntResolvents(P, N, v, gate, parents), {})
            /\ UNCHANGED fresh
  BY DEF Eliminate
<1> DEFINE B  == IF removesBlocked THEN Blocked(v, gate) \cup Blocked(-v, gate) ELSE {}
           P  == With(v) \ B
           N  == With(-v) \ B
           Gone == With(v) \cup With(-v)
           X == ResolventsOf(P \cap core, N \cap core, v, gate)
           Y == LearntResolvents(P, N, v, gate, parents)
<1>3. Become((core \ Gone) \cup X, (learnts \ Gone) \cup Y, {}) /\ fresh' = fresh
  BY <1>2
<1>4. \A S, T : S \subseteq With(v) /\ T \subseteq With(-v) => ResolventsOf(S, T, v, gate) \subseteq ResolventsOn(v)
  BY DEF ResolventsOf, ResolventsOn
<1>5. X \subseteq ResolventsOn(v)
  <2>1. P \cap core \subseteq With(v) /\ N \cap core \subseteq With(-v)
    OBVIOUS
  <2> HIDE DEF P, N
  <2>2. QED
    BY <2>1, <1>4
<1>6. Y \subseteq ResolventsOn(v)
  <2>1. P \subseteq With(v) /\ N \subseteq With(-v)
    OBVIOUS
  <2> HIDE DEF P, N
  <2>2. \A Q : P \cap Q \subseteq With(v) /\ N \cap Q \subseteq With(-v)
    BY <2>1
  <2>3. \A Q, S : ResolventsOf(P \cap Q, N \cap S, v, gate) \subseteq ResolventsOn(v)
    BY <2>2, <1>4
  <2>4. QED
    BY <2>3 DEF LearntResolvents
<1> HIDE DEF X, Y, Gone
<1> DEFINE M == X \cup Y
<1>7. M \subseteq SUBSET OpenLits /\ Tidy(M) /\ \A A : Model(A, All, units) => Model(A, M, {})
  <2>1. M \in SUBSET ResolventsOn(v)
    BY <1>5, <1>6
  <2> HIDE DEF M
  <2>2. QED
    BY <2>1, ResolventsFollow
<1>8. /\ (core \ Gone) \cup X \subseteq core \cup learnts \cup M
      /\ (learnts \ Gone) \cup Y \subseteq core \cup learnts \cup M
  OBVIOUS
<1> HIDE DEF M
<1>9. QED
  BY <1>1, <1>3, <1>7, <1>8, AddingSafe

LEMMA EliminationSafe ==
    ASSUME WellFormed, EliminationNext
    PROVE  SafeStep
BY UnitResolventSafe, RemoveBlockedSafe, EliminateSafe DEF EliminationNext

-----------------------------------------------------------------------------
(* Clause elimination *)

LEMMA BlockedClauseSafe ==
    ASSUME WellFormed, NEW C, NEW l, BlockedClause(C, l)
    PROVE  SafeStep
<1>1. ok
  BY DEF BlockedClause, Uses
<1>2. CASE Become(core \ {C}, learnts, {}) /\ UNCHANGED fresh
  BY <1>1, <1>2, RemovingSafe
<1>3. CASE Rewrite(core, learnts \ {C}, {})
  BY <1>1, <1>3, RewriteIs, RemovingSafe
<1>4. QED
  BY <1>2, <1>3 DEF BlockedClause

\* A model of C that is none of its part becomes one when l becomes true: a partner of C
\* has all of what was dropped, or clashes with what was not.
LEMMA UncoveredHolds ==
    ASSUME WellFormed, forward = << >>, NEW C \in All, NEW l \in C, Free(l),
           NEW A \in SUBSET (Vars \ fresh), Model(A, All, units),
           ~ Sat(A, C \ CoveredIn(C, l))
    PROVE  \A D \in With(-l) : Sat(MadeTrue(A, l), D)
<1>1. l \in Lits /\ l \in Int /\ l # 0 /\ C \subseteq Lits
  BY AllIsOpen, OpenIsThere, LitFacts
<1>2. PICK k \in C : Holds(A, k) /\ k \in CoveredIn(C, l)
  BY DEF Model, IsModel, Sat
<1>3. ~ Holds(A, l)
  BY DEF CoveredIn, Sat
<1>4. SUFFICES ASSUME NEW D \in With(-l) PROVE Sat(MadeTrue(A, l), D)
  OBVIOUS
<1>5. D \in All /\ D \subseteq Lits /\ -l \in D
  BY AllIsOpen, OpenIsThere DEF With
<1>6. CASE D \in Proper(C, l)
  <2>1. k \in D /\ k # l
    BY <1>2, <1>6 DEF CoveredIn
  <2>2. k # -l
    <3>1. SUFFICES ASSUME k = -l PROVE FALSE
      OBVIOUS
    <3>2. C \in With(-l) /\ -k = l
      BY <3>1, <1>2, <1>1 DEF With
    <3>3. QED
      BY <3>2, <1>2 DEF CoveredIn
  <2>3. Holds(MadeTrue(A, l), k)
    BY <2>2, <1>1, <1>2, LitFacts, MadeTrueHolds
  <2>4. QED
    BY <2>1, <2>3 DEF Sat
<1>7. CASE D \notin Proper(C, l)
  <2>1. PICK j \in C \ {l} : -j \in D
    BY <1>7 DEF Proper, Clashing
  <2>2. j \notin CoveredIn(C, l)
    BY <2>1 DEF CoveredIn
  <2>3. ~ Holds(A, j) /\ j \in Lits
    BY <2>1, <2>2, <1>1 DEF Sat
  <2>4. Holds(A, -j) /\ -j \in Lits /\ -j # -l
    BY <2>1, <2>3, <1>1, LitFacts, HoldsFlip
  <2>5. Holds(MadeTrue(A, l), -j)
    BY <2>4, <1>1, LitFacts, MadeTrueHolds
  <2>6. QED
    BY <2>1, <2>5 DEF Sat
<1>8. QED
  BY <1>6, <1>7

\* When the literal l becomes true wherever the clause N is false: N comes in.
LEMMA FlipSafe ==
    ASSUME WellFormed, ok, forward = << >>, NEW K, NEW L, NEW N, NEW l, Flippable(l), l \in N,
           Become(K, L, {}), fresh' = fresh,
           K \subseteq core \cup learnts \cup {N}, L \subseteq core \cup learnts \cup {N},
           N \subseteq OpenLits, Tidy({N}),
           \A A \in SUBSET (Vars \ fresh) :
               Model(A, All, units) /\ ~ Sat(A, N) => \A D \in With(-l) : Sat(MadeTrue(A, l), D)
    PROVE  SafeStep
<1>1. K \subseteq SUBSET LitsWithout(fresh') /\ L \subseteq SUBSET LitsWithout(fresh')
  BY OpenIsThere DEF WellFormed
<1>2. Tidy(K \cup L)
  BY DEF WellFormed, Tidy, All
<1>3. ASSUME NEW A \in SUBSET (Vars \ fresh), Model(A, All, units)
      PROVE  Allowed(A, K \cup L, units \cup {}, fresh')
  <2>1. CASE Sat(A, N)
    <3>1. Model(A, K \cup L, units \cup {}) /\ Agree(A, A)
      BY <1>3, <2>1 DEF Model, IsModel, Agree, All
    <3>2. QED
      BY <3>1 DEF Allowed
  <2>2. CASE ~ Sat(A, N)
    <3> DEFINE B == MadeTrue(A, l)
    <3>1. /\ B \in SUBSET (Vars \ fresh) /\ Agree(A, B)
          /\ \A k \in units : Holds(B, k)
          /\ \A C \in All : -l \notin C => Sat(B, C)
      BY <1>3, FlipKeeps
    <3>2. \A D \in With(-l) : Sat(B, D)
      BY <1>3, <2>2
    <3>3. Holds(B, l)
      <4>1. l \in Int /\ l # 0
        BY LitFacts DEF Flippable
      <4>2. QED
        BY <4>1, MadeTrueHolds
    <3> HIDE DEF B
    <3>4. Sat(B, N)
      BY <3>3 DEF Sat
    <3>5. \A C \in All : Sat(B, C)
      BY <3>1, <3>2 DEF With
    <3>6. Model(B, K \cup L, units \cup {})
      BY <3>1, <3>4, <3>5 DEF Model, IsModel, All
    <3>7. QED
      BY <3>1, <3>6 DEF Allowed
  <2>3. QED
    BY <2>1, <2>2
<1>4. fresh' \in SUBSET fresh
  OBVIOUS
<1> DEFINE U == {}
<1>5. U \subseteq LitsWithout(fresh') /\ Become(K, L, U)
  OBVIOUS
<1>6. \A A \in SUBSET (Vars \ fresh) : Model(A, All, units) => Allowed(A, K \cup L, units \cup U, fresh')
  BY <1>3
<1> HIDE DEF U
<1>7. QED
  BY <1>1, <1>2, <1>4, <1>5, <1>6, BecomeSafe

LEMMA FreeIsFlippable ==
    ASSUME WellFormed, NEW C \in All, NEW l \in C, Free(l)
    PROVE  Flippable(l)
BY AllIsOpen, OpenIsThere DEF Free, Flippable

LEMMA ShrinkCoveredSafe ==
    ASSUME WellFormed, forward = << >>, NEW C \in All, NEW l \in C, ShrinkCovered(C, l)
    PROVE  SafeStep
<1> DEFINE E == C \ CoveredIn(C, l)
           M == IF C \in core THEN With(-l) \cap learnts ELSE {}
<1>1. ok /\ Free(l)
  BY DEF ShrinkCovered, Uses
<1>2. l \in E /\ E \in SUBSET C
  BY DEF CoveredIn
<1>3. E \subseteq OpenLits /\ Tidy({E})
  <2> HIDE DEF E
  <2>1. QED
    BY <1>2, PartTidy
<1>4. Flippable(l)
  BY <1>1, FreeIsFlippable
<1>5. \A A \in SUBSET (Vars \ fresh) :
        Model(A, All, units) /\ ~ Sat(A, E) => \A D \in With(-l) : Sat(MadeTrue(A, l), D)
  BY <1>1, UncoveredHolds
<1>6. \/ Rewrite((core \ {C}) \cup {E} \cup M, learnts \ M, {})
      \/ Rewrite(core, (learnts \ {C}) \cup {E}, {})
  BY DEF ShrinkCovered
<1>7. M \subseteq learnts
  OBVIOUS
<1> HIDE DEF E, M
<1>8. CASE Rewrite((core \ {C}) \cup {E} \cup M, learnts \ M, {})
  <2> DEFINE K == (core \ {C}) \cup {E} \cup M
             L == learnts \ M
  <2>1. K \subseteq core \cup learnts \cup {E} /\ L \subseteq core \cup learnts \cup {E}
    BY <1>7
  <2>2. Become(K, L, {}) /\ fresh' = fresh
    BY <1>8, RewriteIs
  <2> HIDE DEF K, L
  <2>3. QED
    BY <2>1, <2>2, <1>1, <1>2, <1>3, <1>4, <1>5, FlipSafe
<1>9. CASE Rewrite(core, (learnts \ {C}) \cup {E}, {})
  BY <1>1, <1>2, <1>3, <1>4, <1>5, <1>9, RewriteIs, FlipSafe
<1>10. QED
  BY <1>6, <1>8, <1>9

\* The literals that the partners of C share do not clash with it.
LEMMA SharedIsTidy ==
    ASSUME WellFormed, NEW C \in All, NEW l \in C, Proper(C, l) # {}, NEW X \in SUBSET SharedBy(C, l)
    PROVE  /\ C \cup X \subseteq OpenLits /\ Tidy({C \cup X})
           /\ \A A : Model(A, All, units) => Sat(A, C \cup X)
<1>1. Occurring \subseteq OpenLits /\ C \subseteq OpenLits
  BY AllIsOpen DEF Occurring
<1>2. C \cup X \subseteq OpenLits
  BY <1>1 DEF SharedBy
<1>3. ASSUME \A E \in All : ~ Tautology(E) PROVE ~ Tautology(C \cup X)
  <2>1. PICK D \in Proper(C, l) : TRUE
    OBVIOUS
  <2>2. D \in All /\ X \subseteq D /\ -l \in D /\ -l \notin X /\ \A k \in C \ {l} : -k \notin D
    BY DEF SharedBy, Proper, Clashing, With
  <2>3. SUFFICES ASSUME NEW k \in C \cup X, -k \in C \cup X PROVE FALSE
    BY DEF Tautology
  <2>4. k \in Lits /\ -(-k) = k
    BY <1>2, OpenIsThere, LitFacts
  <2>5. CASE k \in C /\ -k \in C
    BY <2>5, <1>3 DEF Tautology
  <2>6. CASE k \in X /\ -k \in X
    BY <2>2, <2>6, <1>3 DEF Tautology
  <2>7. CASE k \in C /\ -k \in X
    BY <2>2, <2>7
  <2>8. CASE k \in X /\ -k \in C
    BY <2>2, <2>4, <2>8
  <2>9. QED
    BY <2>3, <2>5, <2>6, <2>7, <2>8
<1>4. Tidy({C \cup X})
  BY <1>3 DEF WellFormed, Tidy
<1>5. \A A : Model(A, All, units) => Sat(A, C \cup X)
  BY DEF Model, IsModel, Sat
<1>6. QED
  BY <1>2, <1>4, <1>5

LEMMA ExtendCoveredSafe ==
    ASSUME WellFormed, NEW C \in All, NEW l \in C, ExtendCovered(C, l)
    PROVE  SafeStep
<1> DEFINE E == C \cup SharedBy(C, l)
<1>1. ok /\ Proper(C, l) # {} /\ fresh' = fresh
  BY DEF ExtendCovered, Uses
<1>2. E \subseteq OpenLits /\ Tidy({E}) /\ \A A : Model(A, All, units) => Sat(A, E)
  BY <1>1, SharedIsTidy
<1>3. Become((core \ {C}) \cup {E}, learnts, {}) \/ Become(core \cup {E}, learnts \ {C}, {})
  BY DEF ExtendCovered
<1> HIDE DEF E
<1>4. CASE Become((core \ {C}) \cup {E}, learnts, {})
  BY <1>1, <1>2, <1>4, ClauseSafe
<1>5. CASE Become(core \cup {E}, learnts \ {C}, {})
  BY <1>1, <1>2, <1>5, ClauseSafe
<1>6. QED
  BY <1>3, <1>4, <1>5

LEMMA CoveredClauseSafe ==
    ASSUME WellFormed, NEW C, CoveredClause(C)
    PROVE  SafeStep
<1>1. ok /\ Become(core \ {C}, learnts, {}) /\ fresh' = fresh
  BY DEF CoveredClause, Uses
<1>2. QED
  BY <1>1, RemovingSafe

\* What two opposite literals reach holds.
LEMMA FailedLiteralSafe ==
    ASSUME WellFormed, NEW i \in OpenLits, FailedLiteral(i)
    PROVE  SafeStep
<1>1. ok /\ Rewrite(core, learnts, {i})
  BY DEF FailedLiteral, Uses
<1>2. PICK k \in OpenLits : i \in Reaches(core, k) /\ i \in Reaches(core, -k)
  BY DEF FailedLiteral
<1>3. k \in Lits /\ -k \in Lits
  BY OpenLitsFacts, LitFacts
<1>4. ASSUME NEW A, Model(A, All, units) PROVE Holds(A, i)
  <2>1. IsModel(A, core)
    BY <1>4 DEF Model, IsModel, All
  <2>2. Holds(A, k) \/ Holds(A, -k)
    BY <1>3, LitFacts, HoldsFlip
  <2>3. QED
    BY <2>1, <2>2, <1>2, <1>3, ReachesMeans
<1>5. {i} \subseteq LitsWithout(fresh) /\ \A A : Model(A, All, units) => \A l \in {i} : Holds(A, l)
  BY <1>4, OpenIsThere
<1>6. QED
  BY <1>1, <1>5, UnitsSafe

LEMMA TransitiveSafe ==
    ASSUME WellFormed, NEW C, Transitive(C)
    PROVE  SafeStep
<1>1. ok
  BY DEF Transitive, Uses
<1>2. CASE Rewrite(core \ {C}, learnts, {})
  BY <1>1, <1>2, RewriteIs, RemovingSafe
<1>3. CASE Rewrite(core, learnts \ {C}, {})
  BY <1>1, <1>3, RewriteIs, RemovingSafe
<1>4. QED
  BY <1>2, <1>3 DEF Transitive

LEMMA HiddenTautologySafe ==
    ASSUME WellFormed, NEW C, HiddenTautology(C)
    PROVE  SafeStep
<1>1. ok /\ Rewrite(core \ {C}, learnts \ {C}, {})
  BY DEF HiddenTautology, Uses
<1>2. core \ {C} \subseteq core \cup learnts /\ learnts \ {C} \subseteq core \cup learnts
  OBVIOUS
<1>3. QED
  BY <1>1, <1>2, RewriteIs, RemovingSafe

\* A literal that implies another one of its clause is not needed.
LEMMA HiddenLiteralHolds ==
    ASSUME NEW F, NEW A, IsModel(A, F), NEW C, Sat(A, C), NEW j \in C \cap Lits, NEW i \in C \ {j},
           i \in Reaches(F, j)
    PROVE  Sat(A, C \ {j})
<1>1. CASE Holds(A, j)
  BY <1>1, ReachesMeans DEF Sat
<1>2. CASE ~ Holds(A, j)
  BY <1>2 DEF Sat
<1>3. QED
  BY <1>1, <1>2

LEMMA HiddenLiteralSafe ==
    ASSUME WellFormed, NEW C \in All, NEW i \in C, NEW j \in C, HiddenLiteral(C, i, j)
    PROVE  SafeStep
<1> DEFINE E == C \ {j}
<1>1. ok /\ Rewrite(InPlaceOf(C, core, {E}), InPlaceOf(C, learnts, {E}), {}) /\ i # j /\ i \in Reaches(core, j)
  BY DEF HiddenLiteral, Uses
<1>2. E \subseteq OpenLits /\ Tidy({E}) /\ j \in Lits
  BY PartTidy, AllIsOpen, OpenIsThere
<1>3. ASSUME NEW A, Model(A, All, units) PROVE Sat(A, E)
  <2>1. IsModel(A, core) /\ Sat(A, C)
    BY <1>3 DEF Model, IsModel, All
  <2>2. QED
    BY <2>1, <1>1, <1>2, HiddenLiteralHolds
<1> HIDE DEF E
<1>4. /\ InPlaceOf(C, core, {E}) \subseteq core \cup learnts \cup {E}
      /\ InPlaceOf(C, learnts, {E}) \subseteq core \cup learnts \cup {E}
  BY DEF InPlaceOf
<1>5. QED
  BY <1>1, <1>2, <1>3, <1>4, RewriteIs, ClauseSafe

LEMMA ClauseEliminationSafe ==
    ASSUME WellFormed, forward = << >>, "bcm" \notin start.techniques, ClauseEliminationNext
    PROVE  SafeStep
<1>1. \A C, l : ~ MinimizeBlocked(C, l)
  BY DEF MinimizeBlocked, Uses
<1>2. \A C \in core : C \in All
  BY DEF All
<1>3. QED
  BY <1>1, <1>2, BlockedClauseSafe, ShrinkCoveredSafe, ExtendCoveredSafe, CoveredClauseSafe, TransitiveSafe,
     HiddenTautologySafe, HiddenLiteralSafe, FailedLiteralSafe DEF ClauseEliminationNext

-----------------------------------------------------------------------------
(* Equivalent literals *)

\* In every model the literals of K have one value.
Same(K) ==
    \A A \in SUBSET (Vars \ fresh) :
        Model(A, All, units) => \A k, l \in K : Holds(A, k) <=> Holds(A, l)

\* One literal takes the place of all that are equal to it.
LEMMA ReplacedHolds ==
    ASSUME NEW C \in SUBSET Lits, NEW K \in SUBSET Lits, NEW r \in K, NEW A,
           \A k, l \in K : Holds(A, k) <=> Holds(A, l), Sat(A, C)
    PROVE  Sat(A, Replaced(C, K, r))
<1>1. PICK l \in C : Holds(A, l)
  BY DEF Sat
<1>2. l \in Lits /\ r \in Lits
  OBVIOUS
<1>3. (Holds(A, -l) <=> ~ Holds(A, l)) /\ (Holds(A, -r) <=> ~ Holds(A, r))
  BY <1>2, LitFacts, HoldsFlip
<1>4. Holds(A, Replacement(l, K, r))
  BY <1>1, <1>3 DEF Replacement
<1>5. QED
  BY <1>4 DEF Sat, Replaced

LEMMA ApplySafe ==
    ASSUME WellFormed, ok, NEW X \in SUBSET Lits, Apply(Unfrozen(X)), Same(Unfrozen(X))
    PROVE  SafeStep
<1> DEFINE K == Unfrozen(X)
           r == Least(K)
<1>1. K \in SUBSET Lits /\ \A l \in K : VarOf(l) \in Open
  BY DEF Unfrozen
<1>2. K # {}
  <2> SUFFICES ASSUME K = {} PROVE FALSE
    OBVIOUS
  <2>1. Cardinality({}) = 0
    BY FS_EmptySet
  <2>2. Cardinality(K) > 1
    BY DEF Apply
  <2> HIDE DEF K
  <2>3. QED
    BY <2>1, <2>2
<1>3. r \in K
  <2> HIDE DEF K
  <2>1. QED
    BY <1>1, <1>2, LeastIn
<1>4. CASE \E l \in K : -l \in K
  <2>1. Fail
    BY <1>4 DEF Apply
  <2>2. PICK l \in K : -l \in K
    BY <1>4
  <2>3. \A A : Holds(A, -l) <=> ~ Holds(A, l)
    BY <1>1, <2>2, LitFacts, HoldsFlip
  <2>4. \A A \in SUBSET (Vars \ fresh) : ~ Model(A, All, units)
    BY <2>2, <2>3 DEF Same
  <2>5. QED
    BY <2>1, <2>4, FailSafe
<1>5. CASE ~ \E l \in K : -l \in K
  <2> DEFINE KF == ReplacedIn(core, K, r)
             LF == ReplacedIn(learnts, K, r) \ ReplacedIn(core, K, r)
             N == {D \in {Replaced(C, K, r) : C \in All} : ~ Tautology(D)}
  <2>1. Become(KF, LF, {}) /\ fresh' = fresh
    BY <1>5 DEF Apply
  <2> HIDE DEF K, r
  <2>2. KF \subseteq core \cup learnts \cup N /\ LF \subseteq core \cup learnts \cup N
    BY DEF ReplacedIn, All
  <2>3. ASSUME NEW C \in All PROVE Replaced(C, K, r) \subseteq OpenLits
    <3>1. \A l \in Lits : VarOf(l) \in Open => l \in OpenLits /\ -l \in OpenLits
      BY LitFacts DEF OpenLits, VarOf
    <3>2. r \in OpenLits /\ -r \in OpenLits
      BY <3>1, <1>1, <1>3
    <3>3. QED
      BY <3>2, AllIsOpen DEF Replaced, Replacement
  <2>4. N \subseteq SUBSET OpenLits /\ Tidy(N)
    BY <2>3 DEF Tidy
  <2>5. ASSUME NEW A \in SUBSET (Vars \ fresh), Model(A, All, units) PROVE Model(A, N, {})
    <3>1. \A k, l \in K : Holds(A, k) <=> Holds(A, l)
      BY <2>5 DEF Same, K
    <3>2. ASSUME NEW C \in All PROVE Sat(A, Replaced(C, K, r))
      <4>1. C \in SUBSET Lits /\ Sat(A, C)
        BY <2>5, AllIsOpen, OpenIsThere DEF Model, IsModel
      <4>2. QED
        BY <4>1, <3>1, <1>1, <1>3, ReplacedHolds
    <3>3. QED
      BY <3>2 DEF Model, IsModel
  <2> HIDE DEF KF, LF, N
  <2>6. {} \subseteq LitsWithout(fresh)
    OBVIOUS
  <2>7. QED
    BY <2>1, <2>2, <2>4, <2>5, <2>6, AddingSafe
<1>6. QED
  BY <1>4, <1>5

\* A part of what is the same.
LEMMA SamePart ==
    ASSUME NEW X, Same(X), NEW Y \in SUBSET X
    PROVE  Same(Unfrozen(Y)) /\ Same(Y)
BY DEF Same, Unfrozen

LEMMA ComponentSame ==
    ASSUME WellFormed, NEW l \in OpenLits
    PROVE  Same(Component(l)) /\ Component(l) \in SUBSET Lits
<1>1. l \in Lits /\ Component(l) \in SUBSET Lits
  BY OpenLitsFacts, ComponentTyped
<1>2. ASSUME NEW A, Model(A, All, units), NEW k \in Component(l)
      PROVE  Holds(A, k) <=> Holds(A, l)
  <2>1. CASE k = l
    BY <2>1
  <2>2. CASE k \in Reaches(All, l) /\ l \in Reaches(All, k)
    <3>1. IsModel(A, All) /\ k \in Lits
      BY <1>1, <1>2 DEF Model
    <3>2. Holds(A, l) => Holds(A, k)
      BY <3>1, <2>2, <1>1, ReachesMeans
    <3>3. Holds(A, k) => Holds(A, l)
      BY <3>1, <2>2, <1>1, ReachesMeans
    <3>4. QED
      BY <3>2, <3>3
  <2>3. QED
    BY <2>1, <2>2 DEF Component
<1>3. QED
  BY <1>1, <1>2 DEF Same

LEMMA ComponentSafe ==
    ASSUME WellFormed, ok, NEW l \in OpenLits, NEW X \in SUBSET Component(l), Apply(Unfrozen(X))
    PROVE  SafeStep
<1>1. X \in SUBSET Lits /\ Same(Unfrozen(X))
  BY ComponentSame, SamePart
<1>2. QED
  BY <1>1, ApplySafe

\* The recursion goes deep enough for all literals.
DeepEnough == MaxDepth \in Nat /\ MaxDepth > Cardinality(Lits)

\* The paths of n different literals that lead to l.
Prolonged(P) ==
    {<<x[2]>> \o x[1] : x \in {y \in P \X OpenLits :
        Implies(All, y[2], Head(y[1])) /\ \A i \in DOMAIN y[1] : y[1][i] # y[2]}}
PathsOf(n) == {p \in [1..n -> Lits] : \A i, j \in 1..n : i # j => p[i] # p[j]}

LEMMA LongerPaths ==
    ASSUME NEW n \in Nat, n # 0, NEW P, P \subseteq PathsOf(n)
    PROVE  Prolonged(P) \subseteq PathsOf(n + 1)
<1>1. SUFFICES ASSUME NEW p \in P, NEW k \in OpenLits, \A i \in DOMAIN p : p[i] # k
               PROVE  <<k>> \o p \in PathsOf(n + 1)
  BY DEF Prolonged
<1>2. p \in [1..n -> Lits] /\ (\A i, j \in 1..n : i # j => p[i] # p[j]) /\ k \in Lits
  BY OpenLitsFacts DEF PathsOf
<1> DEFINE q == <<k>> \o p
<1>3. p \in Seq(Lits) /\ Len(p) = n /\ <<k>> \in Seq(Lits)
  BY <1>2
<1>4. q \in Seq(Lits) /\ Len(q) = n + 1
  BY <1>3
<1>5. \A i \in 1..n + 1 : q[i] = IF i = 1 THEN k ELSE p[i - 1]
  BY <1>3
<1>6. ASSUME NEW i \in 1..n + 1, NEW j \in 1..n + 1, i # j PROVE q[i] # q[j]
  <2> HIDE DEF q
  <2>1. CASE i = 1
    <3>1. j - 1 \in 1..n /\ q[j] = p[j - 1] /\ q[i] = k
      BY <1>5, <1>6, <2>1
    <3>2. QED
      BY <3>1, <1>1, <1>2
  <2>2. CASE j = 1
    <3>1. i - 1 \in 1..n /\ q[i] = p[i - 1] /\ q[j] = k
      BY <1>5, <1>6, <2>2
    <3>2. QED
      BY <3>1, <1>1, <1>2
  <2>3. CASE i # 1 /\ j # 1
    <3>1. i - 1 \in 1..n /\ j - 1 \in 1..n /\ i - 1 # j - 1 /\ q[i] = p[i - 1] /\ q[j] = p[j - 1]
      BY <1>5, <1>6, <2>3
    <3>2. QED
      BY <3>1, <1>2
  <2>4. QED
    BY <2>1, <2>2, <2>3
<1>7. q \in [1..n + 1 -> Lits]
  <2> HIDE DEF q
  <2>1. QED
    BY <1>4
<1>8. QED
  BY <1>6, <1>7 DEF PathsOf

LEMMA NoLongPath ==
    ASSUME NEW n \in Nat, n > Cardinality(Lits)
    PROVE  PathsOf(n) = {}
<1>1. IsFiniteSet(Lits) /\ Cardinality(Lits) \in Nat
  BY LitsAreFinite, FS_CardinalityType
<1>2. IsFiniteSet(1..n) /\ Cardinality(1..n) = n
  BY FS_Interval
<1>3. SUFFICES ASSUME NEW p \in PathsOf(n) PROVE FALSE
  OBVIOUS
<1>4. p \in Injection(1..n, Lits)
  BY DEF PathsOf, Injection, IsInjective
<1>5. Cardinality(1..n) <= Cardinality(Lits)
  BY <1>1, <1>4, FS_Injection
<1>6. QED
  BY <1>1, <1>2, <1>5

LEMMA NoPaths ==
    ASSUME DeepEnough, NEW l \in OpenLits
    PROVE  PathsTo(l) = {}
<1> DEFINE N == MaxDepth
           M == N - 1
<1>1. N \in Nat /\ N # 0 /\ M \in Nat
  BY LitsAreFinite, FS_CardinalityType DEF DeepEnough
<1>2. { <<l>> } \subseteq PathsOf(1)
  BY OpenLitsFacts DEF PathsOf
<1> DEFINE T == {m \in 0..M : \E f : /\ f[1] = { <<l>> } /\ \A n \in 2..m + 1 : f[n] = Prolonged(f[n - 1])
                                     /\ \A n \in 1..m + 1 : f[n] \subseteq PathsOf(n)}
<1>3. 0 \in T
  <2> DEFINE f == [n \in {1} |-> { <<l>> }]
  <2>1. f[1] = { <<l>> } /\ \A n \in 1..0 + 1 : f[n] \subseteq PathsOf(n)
    BY <1>2
  <2>2. \A n \in 2..0 + 1 : f[n] = Prolonged(f[n - 1])
    OBVIOUS
  <2> HIDE DEF f
  <2>3. 0 \in 0..M
    BY <1>1
  <2>4. QED
    BY <2>1, <2>2, <2>3
<1>4. ASSUME NEW m \in 1..M, m - 1 \in T PROVE m \in T
  <2>1. PICK f : /\ f[1] = { <<l>> } /\ \A n \in 2..(m - 1) + 1 : f[n] = Prolonged(f[n - 1])
                 /\ \A n \in 1..(m - 1) + 1 : f[n] \subseteq PathsOf(n)
    BY <1>4
  <2> DEFINE g == [n \in 1..m + 1 |-> IF n = m + 1 THEN Prolonged(f[m]) ELSE f[n]]
  <2>2. g[1] = { <<l>> }
    BY <2>1
  <2>3. g[m + 1] = Prolonged(f[m]) /\ \A n \in 1..m : g[n] = f[n]
    OBVIOUS
  <2> HIDE DEF g
  <2>4. ASSUME NEW n \in 2..m + 1 PROVE g[n] = Prolonged(g[n - 1])
    <3>1. CASE n = m + 1
      BY <3>1, <2>3
    <3>2. CASE n # m + 1
      <4>1. n \in 2..(m - 1) + 1 /\ n \in 1..m /\ n - 1 \in 1..m
        BY <3>2
      <4>2. QED
        BY <4>1, <2>1, <2>3
    <3>3. QED
      BY <3>1, <3>2
  <2>5. ASSUME NEW n \in 1..m + 1 PROVE g[n] \subseteq PathsOf(n)
    <3>1. CASE n = m + 1
      <4>1. m \in 1..(m - 1) + 1 /\ m \in Nat /\ m # 0
        OBVIOUS
      <4>2. f[m] \subseteq PathsOf(m)
        BY <4>1, <2>1
      <4>3. QED
        BY <3>1, <4>1, <4>2, <2>3, LongerPaths
    <3>2. CASE n # m + 1
      <4>1. n \in 1..(m - 1) + 1 /\ n \in 1..m
        BY <3>2
      <4>2. QED
        BY <4>1, <2>1, <2>3
    <3>3. QED
      BY <3>1, <3>2
  <2>6. QED
    BY <2>2, <2>4, <2>5
<1>5. M \in T
  <2>1. 0..M \subseteq T
    <3> HIDE DEF T, M
    <3>1. QED
      BY <1>1, <1>3, <1>4, Induction
  <2>2. QED
    BY <2>1, <1>1
<1>6. PICK f : /\ f[1] = { <<l>> } /\ \A n \in 2..N : f[n] = Prolonged(f[n - 1])
               /\ \A n \in 1..N : f[n] \subseteq PathsOf(n)
  BY <1>1, <1>5
<1> DEFINE Round(g, n) == IF n = 1 THEN { <<l>> } ELSE Prolonged(g[n - 1])
           h == [n \in 1..N |-> f[n]]
<1>7. h = [n \in 1..N |-> Round(h, n)]
  <2>1. ASSUME NEW n \in 1..N PROVE h[n] = Round(h, n)
    <3>1. CASE n = 1
      BY <3>1, <1>6
    <3>2. CASE n # 1
      <4>1. n \in 2..N /\ n - 1 \in 1..N
        BY <3>2, <1>1
      <4>2. QED
        BY <4>1, <3>2, <1>6
    <3>3. QED
      BY <3>1, <3>2
  <2>2. h = [n \in 1..N |-> h[n]]
    OBVIOUS
  <2> HIDE DEF h, Round
  <2>3. QED
    BY <2>1, <2>2
<1> DEFINE longer == CHOOSE g : g = [n \in 1..N |-> Round(g, n)]
<1>8. longer = [n \in 1..N |-> Round(longer, n)]
  <2> HIDE DEF h
  <2>1. QED
    BY <1>7
<1>9. PathsTo(l) = longer[N]
  BY DEF PathsTo, Prolonged
<1>10. \A n \in 1..N : longer[n] = Round(longer, n)
  <2> HIDE DEF longer
  <2>1. QED
    BY <1>8
<1> HIDE DEF longer, h
<1> DEFINE U == {m \in 0..M : longer[m + 1] = f[m + 1]}
<1>11. 0 \in U
  <2>1. 0 + 1 = 1 /\ 0 \in 0..M /\ 1 \in 1..N
    BY <1>1
  <2>2. longer[1] = { <<l>> }
    BY <2>1, <1>10
  <2>3. f[1] = { <<l>> }
    BY <1>6
  <2> HIDE DEF M, N
  <2>4. QED
    BY <2>1, <2>2, <2>3
<1>12. ASSUME NEW m \in 1..M, m - 1 \in U PROVE m \in U
  <2>1. m + 1 \in 2..N /\ m + 1 \in 1..N /\ (m + 1) - 1 = m /\ (m - 1) + 1 = m
    BY <1>1
  <2>2. longer[m] = f[m]
    BY <1>12, <2>1
  <2>3. longer[m + 1] = Prolonged(longer[m])
    BY <2>1, <1>10
  <2>4. f[m + 1] = Prolonged(f[m])
    BY <2>1, <1>6
  <2>5. QED
    BY <2>2, <2>3, <2>4
<1>13. M \in U
  <2>1. 0..M \subseteq U
    <3> HIDE DEF U, M
    <3>1. QED
      BY <1>1, <1>11, <1>12, Induction
  <2>2. QED
    BY <2>1, <1>1
<1>14. longer[N] \subseteq PathsOf(N)
  BY <1>1, <1>6, <1>13
<1>15. PathsOf(N) = {}
  BY <1>1, NoLongPath DEF DeepEnough
<1>16. QED
  BY <1>9, <1>14, <1>15

\* What two gates and the like say of their literals.
IsAnd(A, g) == Holds(A, g.out) <=> \A k \in g.in : Holds(A, k)

LEMMA AndGateHolds ==
    ASSUME WellFormed, NEW g \in AndGates
    PROVE  /\ g.out \in OpenLits /\ g.in \in SUBSET OpenLits /\ Cardinality(g.in) = 2
           /\ \A A : Model(A, All, units) => IsAnd(A, g)
<1>1. /\ g.out \in OpenLits /\ g.in \in SUBSET OpenLits /\ Cardinality(g.in) = 2
      /\ g.in \subseteq Reaches(All, g.out) /\ Negated(g.in) \cup {g.out} \in All
  BY DEF AndGates
<1>2. g.out \in Lits
  BY <1>1, OpenIsThere
<1>3. ASSUME NEW A, Model(A, All, units) PROVE IsAnd(A, g)
  <2>1. IsModel(A, All) /\ Sat(A, Negated(g.in) \cup {g.out})
    BY <1>1, <1>3 DEF Model, IsModel
  <2>2. Holds(A, g.out) => \A k \in g.in : Holds(A, k)
    BY <2>1, <1>1, <1>2, ReachesMeans
  <2>3. ASSUME \A k \in g.in : Holds(A, k) PROVE Holds(A, g.out)
    <3>1. PICK k \in Negated(g.in) \cup {g.out} : Holds(A, k)
      BY <2>1 DEF Sat
    <3>2. ASSUME NEW j \in g.in, k = -j PROVE FALSE
      <4>1. j \in Lits /\ Holds(A, j)
        BY <2>3, <1>1, OpenIsThere
      <4>2. QED
        BY <4>1, <3>1, <3>2, LitFacts, HoldsFlip
    <3>3. QED
      BY <3>1, <3>2 DEF Negated
  <2>4. QED
    BY <2>2, <2>3 DEF IsAnd
<1>4. QED
  BY <1>1, <1>3

LEMMA TheOther ==
    ASSUME NEW S, IsFiniteSet(S), Cardinality(S) = 2, NEW a \in S
    PROVE  \E b : S \ {a} = {b}
<1>1. IsFiniteSet(S \ {a}) /\ Cardinality(S \ {a}) = Cardinality(S) - 1
  BY FS_RemoveElement
<1>2. Cardinality(S \ {a}) = 1
  BY <1>1
<1>3. QED
  BY <1>1, <1>2, FS_Singleton

LEMMA SplitHolds ==
    ASSUME WellFormed, NEW g \in Split
    PROVE  /\ g.out \in OpenLits /\ g.in \in SUBSET OpenLits
           /\ \A A : Model(A, All, units) => IsAnd(A, g)
<1>1. PICK y \in AndGates \X AndGates \X OpenLits :
        /\ g = [out |-> -y[3], in |-> {-y[1].out, -y[2].out}]
        /\ y[1].in \cap y[2].in = {y[3]} /\ y[2].in = {y[3]} \cup Negated(y[1].in \ {y[3]})
  BY DEF Split
<1> DEFINE c == y[1]
           d == y[2]
           a == y[3]
<1>2. c \in AndGates /\ d \in AndGates /\ a \in OpenLits
  OBVIOUS
<1>3. /\ g.out = -a /\ g.in = {-c.out, -d.out}
      /\ c.in \cap d.in = {a} /\ d.in = {a} \cup Negated(c.in \ {a})
  BY <1>1
<1> HIDE DEF a, c, d
<1>4. g.out \in OpenLits /\ g.in \in SUBSET OpenLits /\ a \in Lits /\ c.out \in Lits /\ d.out \in Lits
  BY <1>2, <1>3, AndGateHolds, OpenIsThere
<1>5. PICK b : c.in = {a, b} /\ d.in = {a, -b} /\ b \in Lits
  <2>1. Cardinality(c.in) = 2 /\ c.in \in SUBSET Lits /\ a \in c.in
    BY <1>2, <1>3, AndGateHolds, OpenIsThere
  <2>2. IsFiniteSet(c.in)
    BY <2>1, LitsAreFinite
  <2>4. PICK b : c.in \ {a} = {b}
    BY <2>1, <2>2, TheOther
  <2>5. c.in = {a, b} /\ d.in = {a, -b} /\ b \in Lits
    BY <2>1, <2>4, <1>3 DEF Negated
  <2>6. QED
    BY <2>5
<1>6. ASSUME NEW A, Model(A, All, units) PROVE IsAnd(A, g)
  <2>1. /\ Holds(A, c.out) <=> Holds(A, a) /\ Holds(A, b)
        /\ Holds(A, d.out) <=> Holds(A, a) /\ Holds(A, -b)
    <3>1. IsAnd(A, c) /\ IsAnd(A, d)
      BY <1>2, <1>6, AndGateHolds
    <3>2. QED
      BY <3>1, <1>5 DEF IsAnd
  <2>2. /\ Holds(A, -a) <=> ~ Holds(A, a)
        /\ Holds(A, -b) <=> ~ Holds(A, b)
        /\ Holds(A, -c.out) <=> ~ Holds(A, c.out)
        /\ Holds(A, -d.out) <=> ~ Holds(A, d.out)
    BY <1>4, <1>5, LitFacts, HoldsFlip
  <2>3. Holds(A, g.out) <=> Holds(A, -c.out) /\ Holds(A, -d.out)
    BY <2>1, <2>2, <1>3
  <2>4. QED
    BY <2>3, <1>3 DEF IsAnd
<1>7. QED
  BY <1>4, <1>6

LEMMA GatesHold ==
    ASSUME WellFormed, NEW g \in Gates2
    PROVE  /\ g.out \in OpenLits /\ g.in \in SUBSET OpenLits /\ g.out \in Lits /\ g.in \in SUBSET Lits
           /\ \A A : Model(A, All, units) => IsAnd(A, g)
BY AndGateHolds, SplitHolds, OpenIsThere DEF Gates2

LEMMA EquivalentByGatesSafe ==
    ASSUME WellFormed, ok, NEW g \in Gates2, NEW h \in Gates2, EquivalentByGates(g, h)
    PROVE  SafeStep
<1>1. g.out \in Lits /\ h.out \in Lits /\ g.in \in SUBSET Lits /\ h.in \in SUBSET Lits
  BY GatesHold
<1>2. \A A : Model(A, All, units) => IsAnd(A, g) /\ IsAnd(A, h)
  BY GatesHold
<1>3. CASE g.in = h.in /\ Apply(Unfrozen({g.out, h.out}))
  <2>1. Same({g.out, h.out})
    BY <1>2, <1>3 DEF Same, IsAnd
  <2>2. QED
    BY <2>1, <1>1, <1>3, SamePart, ApplySafe
<1>4. CASE \E a \in g.in \cap h.in : h.in = {a, g.out} /\ Apply(Unfrozen({g.out, h.out}))
  <2>1. Same({g.out, h.out})
    BY <1>2, <1>4 DEF Same, IsAnd
  <2>2. QED
    BY <2>1, <1>1, <1>4, SamePart, ApplySafe
<1>5. CASE h.out = -g.out /\ h.in = Negated(g.in) /\ Apply(Unfrozen(g.in \cup {g.out}))
  <2>1. ASSUME NEW A, Model(A, All, units)
        PROVE  \A k \in g.in \cup {g.out} : Holds(A, k) <=> Holds(A, g.out)
    <3>1. IsAnd(A, g) /\ IsAnd(A, h)
      BY <1>2, <2>1
    <3>2. \A k \in g.in \cup {g.out} : Holds(A, -k) <=> ~ Holds(A, k)
      BY <1>1, LitFacts, HoldsFlip
    <3>3. CASE Holds(A, g.out)
      BY <3>1, <3>3 DEF IsAnd
    <3>4. CASE ~ Holds(A, g.out)
      <4>1. \A k \in g.in : Holds(A, -k)
        BY <3>1, <3>2, <3>4, <1>5 DEF IsAnd, Negated
      <4>2. QED
        BY <4>1, <3>2, <3>4
    <3>5. QED
      BY <3>3, <3>4
  <2>2. Same(g.in \cup {g.out})
    BY <2>1 DEF Same
  <2>3. g.in \cup {g.out} \in SUBSET Lits
    BY <1>1
  <2>4. QED
    BY <2>2, <2>3, <1>5, SamePart, ApplySafe
<1>6. QED
  BY <1>3, <1>4, <1>5 DEF EquivalentByGates

LEMMA UnitByGatesSafe ==
    ASSUME WellFormed, ok, NEW g \in Gates2, NEW h \in Gates2, UnitByGates(g, h)
    PROVE  SafeStep
<1>1. g.out \in Lits /\ h.out \in Lits /\ g.in \in SUBSET OpenLits /\ h.in \in SUBSET OpenLits /\ h.out \in OpenLits
  BY GatesHold
<1>2. \A A : Model(A, All, units) => IsAnd(A, g) /\ IsAnd(A, h)
  BY GatesHold
<1>3. ASSUME NEW a \in g.in \cap h.in, h.out = -g.out, h.in = {a} \cup Negated(g.in \ {a}),
             Rewrite(core, learnts, {a})
      PROVE  SafeStep
  <2>1. ASSUME NEW A, Model(A, All, units) PROVE \A l \in {a} : Holds(A, l)
    <3>1. IsAnd(A, g) /\ IsAnd(A, h)
      BY <1>2, <2>1
    <3>2. Holds(A, -g.out) <=> ~ Holds(A, g.out)
      BY <1>1, LitFacts, HoldsFlip
    <3>3. QED
      BY <3>1, <3>2, <1>3 DEF IsAnd
  <2>2. {a} \subseteq LitsWithout(fresh)
    BY <1>1, OpenIsThere
  <2>3. QED
    BY <2>1, <2>2, <1>3, UnitsSafe
<1>4. ASSUME NEW a \in g.in, h.in = {g.out, -a}, Rewrite(core, learnts, {-h.out})
      PROVE  SafeStep
  <2>1. ASSUME NEW A, Model(A, All, units) PROVE \A l \in {-h.out} : Holds(A, l)
    <3>1. IsAnd(A, g) /\ IsAnd(A, h)
      BY <1>2, <2>1
    <3>2. /\ Holds(A, -h.out) <=> ~ Holds(A, h.out)
          /\ Holds(A, -a) <=> ~ Holds(A, a)
      BY <1>1, OpenIsThere, LitFacts, HoldsFlip
    <3>3. QED
      BY <3>1, <3>2, <1>4 DEF IsAnd
  <2>2. {-h.out} \subseteq LitsWithout(fresh)
    BY <1>1, OpenIsThere
  <2>3. QED
    BY <2>1, <2>2, <1>4, UnitsSafe
<1>5. QED
  BY <1>3, <1>4 DEF UnitByGates

\* A literal that implies two opposite ones is false.
LEMMA OppositeSafe ==
    ASSUME WellFormed, ok, NEW l \in OpenLits, NEW k \in Lits,
           {k, -k} \subseteq Reaches(All, l) \cup {l}, Rewrite(core, learnts, {-l})
    PROVE  SafeStep
<1>1. l \in Lits /\ -l \in OpenLits
  BY OpenLitsFacts
<1>2. ASSUME NEW A, Model(A, All, units) PROVE \A j \in {-l} : Holds(A, j)
  <2>1. IsModel(A, All)
    BY <1>2 DEF Model
  <2>2. /\ Holds(A, -l) <=> ~ Holds(A, l)
        /\ Holds(A, -k) <=> ~ Holds(A, k)
    BY <1>1, LitFacts, HoldsFlip
  <2>3. QED
    BY <2>1, <2>2, <1>1, ReachesMeans
<1>3. {-l} \subseteq LitsWithout(fresh)
  BY <1>1, OpenIsThere
<1>4. QED
  BY <1>2, <1>3, UnitsSafe

LEMMA EquivalencesSafe ==
    ASSUME WellFormed, "blocked gates" \notin start.techniques,
           "ee" \in start.techniques => DeepEnough, EquivalencesNext
    PROVE  SafeStep
<1>1. ASSUME NEW l \in OpenLits, EquivalentByBinaries(l) PROVE SafeStep
  <2>1. ok /\ Apply(Unfrozen(Component(l)))
    BY <1>1 DEF EquivalentByBinaries, Uses
  <2>2. QED
    BY <2>1, ComponentSafe
<1>2. ASSUME NEW l \in OpenLits, EquivalentByIteration(l) PROVE SafeStep
  <2>1. ok /\ Apply(Unfrozen(Component(l)))
    BY <1>2 DEF EquivalentByIteration, Uses
  <2>2. QED
    BY <2>1, ComponentSafe
<1>3. ASSUME NEW l \in OpenLits, NEW k \in OpenLits, CutOff(l, k) PROVE SafeStep
  <2>1. "ee" \in start.techniques /\ PathsTo(l) # {}
    BY <1>3 DEF CutOff, Uses
  <2>2. QED
    BY <2>1, NoPaths
<1>4. ASSUME Gate PROVE SafeStep
  <2>1. ok
    BY <1>4 DEF Gate, Uses
  <2>2. PICK g, h \in Gates2 : EquivalentByGates(g, h) \/ UnitByGates(g, h)
    BY <1>4 DEF Gate
  <2>3. QED
    BY <2>1, <2>2, EquivalentByGatesSafe, UnitByGatesSafe
<1>5. ASSUME NEW l \in OpenLits, ContradictoryGate(l) PROVE SafeStep
  <2>1. ok /\ Rewrite(core, learnts, {-l})
    BY <1>5 DEF ContradictoryGate, Uses
  <2>2. PICK k \in OpenLits : {k, -k} \subseteq Reaches(All, l)
    BY <1>5 DEF ContradictoryGate
  <2>3. k \in Lits /\ {k, -k} \subseteq Reaches(All, l) \cup {l}
    BY <2>2, OpenLitsFacts
  <2>4. QED
    BY <2>1, <2>3, OppositeSafe
<1>6. \A l : ~ AddBlockedGate(l)
  BY DEF AddBlockedGate, Uses
<1>7. QED
  BY <1>1, <1>2, <1>3, <1>4, <1>5, <1>6 DEF EquivalencesNext

-----------------------------------------------------------------------------
(* Probing and vivification *)

\* Propagation of F that fails when the literals U are put on the trail.
LEMMA Refutes ==
    ASSUME NEW F \in Formula, NEW U \in SUBSET Lits, FailsWith(F, UnitsFrom(F, U)), NEW A, IsModel(A, F)
    PROVE  \E l \in U : ~ Holds(A, l)
<1>1. SUFFICES ASSUME \A l \in U : Holds(A, l) PROVE FALSE
  OBVIOUS
<1>2. Model(A, F, U)
  BY <1>1 DEF Model
<1>3. QED
  BY <1>2, PropagatedModels

\* Then a clause holds whose literals were refuted together with V.
LEMMA RefutedHolds ==
    ASSUME NEW F \in Formula, NEW V \in SUBSET Lits, NEW D \in SUBSET Lits,
           FailsWith(F, UnitsFrom(F, V \cup Negated(D))), NEW A, Model(A, F, V)
    PROVE  Sat(A, D)
<1>1. V \cup Negated(D) \in SUBSET Lits
  BY NegatedTyped
<1>2. PICK l \in V \cup Negated(D) : ~ Holds(A, l)
  BY <1>1, Refutes DEF Model
<1>3. PICK k \in D : l = -k
  BY <1>2 DEF Model, Negated
<1>4. QED
  BY <1>2, <1>3, LitFacts, HoldsFlip DEF Sat

\* One that propagation makes true from the complements of others.
LEMMA PropagatedHolds ==
    ASSUME NEW F \in Formula, NEW V \in SUBSET Lits, NEW D \in SUBSET Lits, NEW A, Model(A, F, V),
           ~ Sat(A, D)
    PROVE  \A l \in UnitsFrom(F, V \cup Negated(D)) : Holds(A, l)
<1>1. V \cup Negated(D) \in SUBSET Lits
  BY NegatedTyped
<1>2. \A l \in Negated(D) : Holds(A, l)
  BY LitFacts, HoldsFlip DEF Negated, Sat
<1>3. Model(A, F, V \cup Negated(D))
  BY <1>2 DEF Model
<1>4. QED
  BY <1>1, <1>3, UnitsAreImplied

LEMMA SomeAreFormula ==
    ASSUME WellFormed, NEW F \in SUBSET All
    PROVE  /\ F \in Formula /\ UNION F \subseteq OpenLits
           /\ \A A : Model(A, All, units) => IsModel(A, F) /\ Model(A, F, units)
BY AllIsOpen DEF Formula, Model, IsModel

LEMMA UpIsOpen ==
    ASSUME WellFormed, NEW F \in SUBSET All, NEW U \in SUBSET OpenLits
    PROVE  /\ Up(F, U) \subseteq OpenLits /\ U \subseteq Up(F, U) /\ Up(F, U) \in SUBSET Lits
           /\ \A A : Model(A, All, units) /\ (\A l \in U : Holds(A, l)) => \A l \in Up(F, U) : Holds(A, l)
           /\ \A A : Model(A, All, units) /\ Fails(F, U) => \E l \in U : ~ Holds(A, l)
<1>1. F \in Formula /\ UNION F \subseteq OpenLits /\ U \in SUBSET Lits
  BY SomeAreFormula, OpenIsThere
<1>2. Up(F, U) \subseteq OpenLits /\ U \subseteq Up(F, U)
  BY <1>1, UnitsFromGrows DEF Up
<1>3. ASSUME NEW A, Model(A, All, units) PROVE IsModel(A, F)
  BY <1>3, SomeAreFormula
<1>4. ASSUME NEW A, Model(A, All, units), \A l \in U : Holds(A, l)
      PROVE  \A l \in Up(F, U) : Holds(A, l)
  BY <1>1, <1>3, <1>4, UnitsAreImplied DEF Model, Up
<1>5. ASSUME NEW A, Model(A, All, units), Fails(F, U) PROVE \E l \in U : ~ Holds(A, l)
  BY <1>1, <1>3, <1>5, Refutes DEF Fails, Up
<1>6. QED
  BY <1>2, <1>4, <1>5, OpenIsThere

\* The same of all clauses.
LEMMA UpAllIsOpen ==
    ASSUME WellFormed, NEW U \in SUBSET OpenLits
    PROVE  /\ Up(All, U) \subseteq OpenLits /\ U \subseteq Up(All, U)
           /\ \A A : Model(A, All, units) /\ (\A l \in U : Holds(A, l)) => \A l \in Up(All, U) : Holds(A, l)
           /\ \A A : Model(A, All, units) /\ Fails(All, U) => \E l \in U : ~ Holds(A, l)
<1> DEFINE F == All
<1>1. F \in SUBSET All
  OBVIOUS
<1> HIDE DEF F
<1>2. /\ Up(F, U) \subseteq OpenLits /\ U \subseteq Up(F, U)
      /\ \A A : Model(A, All, units) /\ (\A l \in U : Holds(A, l)) => \A l \in Up(F, U) : Holds(A, l)
      /\ \A A : Model(A, All, units) /\ Fails(F, U) => \E l \in U : ~ Holds(A, l)
  BY <1>1, UpIsOpen
<1>3. QED
  BY <1>2 DEF F

\* And of one literal.
LEMMA UpOneIsOpen ==
    ASSUME WellFormed, NEW l \in OpenLits
    PROVE  /\ Up(All, {l}) \subseteq OpenLits /\ l \in Up(All, {l})
           /\ \A A : Model(A, All, units) /\ Holds(A, l) => \A k \in Up(All, {l}) : Holds(A, k)
           /\ \A A : Model(A, All, units) /\ Fails(All, {l}) => ~ Holds(A, l)
<1> DEFINE U == {l}
<1>1. U \in SUBSET OpenLits
  OBVIOUS
<1> HIDE DEF U
<1>2. /\ Up(All, U) \subseteq OpenLits /\ U \subseteq Up(All, U)
      /\ \A A : Model(A, All, units) /\ (\A j \in U : Holds(A, j)) => \A j \in Up(All, U) : Holds(A, j)
      /\ \A A : Model(A, All, units) /\ Fails(All, U) => \E j \in U : ~ Holds(A, j)
  BY <1>1, UpAllIsOpen
<1>3. QED
  BY <1>2 DEF U

\* And of two.
LEMMA UpTwoIsOpen ==
    ASSUME WellFormed, NEW l \in OpenLits, NEW k \in OpenLits
    PROVE  /\ Up(All, {l, k}) \subseteq OpenLits
           /\ \A A : Model(A, All, units) /\ Holds(A, l) /\ Holds(A, k) => \A j \in Up(All, {l, k}) : Holds(A, j)
           /\ \A A : Model(A, All, units) /\ Fails(All, {l, k}) => ~ Holds(A, l) \/ ~ Holds(A, k)
<1> DEFINE U == {l, k}
<1>1. U \in SUBSET OpenLits
  OBVIOUS
<1> HIDE DEF U
<1>2. /\ Up(All, U) \subseteq OpenLits
      /\ \A A : Model(A, All, units) /\ (\A j \in U : Holds(A, j)) => \A j \in Up(All, U) : Holds(A, j)
      /\ \A A : Model(A, All, units) /\ Fails(All, U) => \E j \in U : ~ Holds(A, j)
  BY <1>1, UpAllIsOpen
<1>3. QED
  BY <1>2 DEF U

LEMMA OpenVars ==
    ASSUME NEW v \in Open
    PROVE  v \in OpenLits /\ -v \in OpenLits /\ v \in Lits /\ \A A : Holds(A, -v) <=> ~ Holds(A, v)
<1>1. v \in OpenLits /\ -v \in OpenLits
  BY DEF OpenLits
<1>2. QED
  BY <1>1, OpenIsThere, LitFacts, HoldsFlip

\* A clause of two literals follows and is kept.
LEMMA KeepSafe ==
    ASSUME WellFormed, ok, NEW C, Keep(C), C \subseteq OpenLits, Tidy({C}),
           \A A \in SUBSET (Vars \ fresh) : Model(A, All, units) => Sat(A, C)
    PROVE  SafeStep
<1>1. CASE Rewrite(core \cup {C}, learnts, {})
  BY <1>1, RewriteIs, ClauseSafe
<1>2. CASE Rewrite(core, learnts \cup {C}, {})
  BY <1>2, RewriteIs, ClauseSafe
<1>3. QED
  BY <1>1, <1>2 DEF Keep

LEMMA PairTidy ==
    ASSUME NEW k \in Lits, NEW l \in Lits, k # -l
    PROVE  Tidy({{k, l}})
BY LitFacts DEF Tidy, Tautology

LEMMA UnitsOfConflictSafe ==
    ASSUME WellFormed, ok, NEW l \in OpenLits, UnitsOfConflict(l)
    PROVE  SafeStep
<1>1. PICK U \in SUBSET {p \in Up(All, {l}) : Fails(All, {p})} : Rewrite(core, learnts, Negated(U))
  BY DEF UnitsOfConflict
<1>2. \A p \in U : p \in OpenLits /\ Fails(All, {p})
  <2>1. Up(All, {l}) \subseteq OpenLits
    BY UpOneIsOpen
  <2>2. QED
    BY <2>1
<1>3. ASSUME NEW A, Model(A, All, units) PROVE \A k \in Negated(U) : Holds(A, k)
  <2>1. SUFFICES ASSUME NEW p \in U PROVE Holds(A, -p)
    BY DEF Negated
  <2>2. ~ Holds(A, p)
    BY <1>2, <1>3, UpOneIsOpen
  <2>3. QED
    BY <2>2, <1>2, OpenIsThere, LitFacts, HoldsFlip
<1>4. Negated(U) \subseteq LitsWithout(fresh)
  BY <1>2, OpenIsThere DEF Negated
<1>5. QED
  BY <1>1, <1>3, <1>4, UnitsSafe

LEMMA NecessarySafe ==
    ASSUME WellFormed, ok, NEW v \in Open, Necessary(v)
    PROVE  SafeStep
<1> DEFINE P == Up(All, {v})
           N == Up(All, {-v})
<1>1. Rewrite(core, learnts, P \cap N)
  BY DEF Necessary
<1>2. v \in OpenLits /\ -v \in OpenLits /\ \A A : Holds(A, -v) <=> ~ Holds(A, v)
  BY OpenVars
<1>3. /\ P \subseteq OpenLits
      /\ \A A : Model(A, All, units) /\ Holds(A, v) => \A l \in P : Holds(A, l)
  BY <1>2, UpOneIsOpen
<1>4. \A A : Model(A, All, units) /\ Holds(A, -v) => \A l \in N : Holds(A, l)
  BY <1>2, UpOneIsOpen
<1> HIDE DEF P, N
<1>5. \A A : Model(A, All, units) => \A l \in P \cap N : Holds(A, l)
  BY <1>2, <1>3, <1>4
<1>6. P \cap N \subseteq LitsWithout(fresh)
  BY <1>3, OpenIsThere
<1>7. QED
  BY <1>1, <1>5, <1>6, UnitsSafe

LEMMA EquivalentByProbingSafe ==
    ASSUME WellFormed, ok, NEW v \in Open, EquivalentByProbing(v)
    PROVE  SafeStep
<1> DEFINE P == Up(All, {v})
           N == Up(All, {-v})
           X == {-v} \cup {l \in N : -l \in P}
<1>1. Apply(Unfrozen(X))
  BY DEF EquivalentByProbing
<1>2. v \in OpenLits /\ -v \in OpenLits /\ \A A : Holds(A, -v) <=> ~ Holds(A, v)
  BY OpenVars
<1>3. \A A : Model(A, All, units) /\ Holds(A, v) => \A l \in P : Holds(A, l)
  BY <1>2, UpOneIsOpen
<1>4. /\ N \subseteq OpenLits
      /\ \A A : Model(A, All, units) /\ Holds(A, -v) => \A l \in N : Holds(A, l)
  BY <1>2, UpOneIsOpen
<1> HIDE DEF P, N
<1>5. \A l \in N : l \in Lits /\ \A A : Holds(A, -l) <=> ~ Holds(A, l)
  BY <1>4, OpenIsThere, LitFacts, HoldsFlip
<1>6. ASSUME NEW A, Model(A, All, units) PROVE \A k \in X : Holds(A, k) <=> Holds(A, -v)
  BY <1>2, <1>3, <1>4, <1>5, <1>6
<1>7. Same(X) /\ X \in SUBSET Lits
  BY <1>2, <1>5, <1>6, OpenIsThere DEF Same
<1> HIDE DEF X
<1>8. QED
  BY <1>1, <1>7, SamePart, ApplySafe

LEMMA DoubleLookSafe ==
    ASSUME WellFormed, ok, NEW l \in OpenLits, NEW k \in OpenLits, DoubleLook(l, k)
    PROVE  SafeStep
<1> DEFINE P == Up(All, {l})
<1>1. l \in Lits /\ k \in Lits /\ -k \in OpenLits /\ -l \in OpenLits
  BY OpenIsThere
<1>2. P \subseteq OpenLits /\ l \in P
  BY UpOneIsOpen
<1>3. ASSUME NEW p \in Up(All, {l, k}) \ P, NEW q \in P,
             VarOf(p) # VarOf(q), Fails(All, {p, q}), Keep({-p, -q})
      PROVE  SafeStep
  <2>1. p \in OpenLits /\ q \in OpenLits
    <3>1. Up(All, {l, k}) \subseteq OpenLits
      BY UpTwoIsOpen
    <3>2. QED
      BY <3>1, <1>2
  <2>2. p \in Lits /\ q \in Lits /\ -p \in OpenLits /\ -q \in OpenLits /\ -p \in Lits /\ -q \in Lits
    BY <2>1, OpenIsThere
  <2>3. ASSUME NEW A, Model(A, All, units) PROVE Sat(A, {-p, -q})
    <3>1. ~ Holds(A, p) \/ ~ Holds(A, q)
      BY <2>1, <1>3, <2>3, UpTwoIsOpen
    <3>2. QED
      BY <3>1, <2>2, LitFacts, HoldsFlip DEF Sat
  <2>4. -p # -(-q)
    <3>1. p \in Int /\ q \in Int /\ VarOf(-p) = VarOf(p) /\ -(-q) = q
      BY <2>2, LitFacts
    <3>2. QED
      BY <3>1, <1>3
  <2>5. Tidy({{-p, -q}})
    BY <2>2, <2>4, PairTidy
  <2>6. {-p, -q} \subseteq OpenLits
    BY <2>2
  <2>7. QED
    BY <2>3, <2>5, <2>6, <1>3, KeepSafe
<1>4. ASSUME NEW t \in (Up(All, {l, k}) \cap Up(All, {l, -k})) \ P, Keep({-l, t})
      PROVE  SafeStep
  <2>1. t \in OpenLits
    <3>1. Up(All, {l, k}) \subseteq OpenLits
      BY UpTwoIsOpen
    <3>2. QED
      BY <3>1
  <2>2. t \in Lits /\ -l \in Lits
    BY <1>1, <2>1, OpenIsThere
  <2>3. ASSUME NEW A, Model(A, All, units) PROVE Sat(A, {-l, t})
    <3>1. /\ Holds(A, -l) <=> ~ Holds(A, l)
          /\ Holds(A, -k) <=> ~ Holds(A, k)
      BY <1>1, LitFacts, HoldsFlip
    <3>2. Holds(A, l) /\ Holds(A, k) => Holds(A, t)
      BY <1>4, <2>3, UpTwoIsOpen
    <3>3. Holds(A, l) /\ Holds(A, -k) => Holds(A, t)
      BY <1>1, <1>4, <2>3, UpTwoIsOpen
    <3>4. QED
      BY <3>1, <3>2, <3>3 DEF Sat
  <2>4. -l # -t
    BY <1>1, <1>2, <2>2, LitFacts
  <2>5. Tidy({{-l, t}})
    BY <2>2, <2>4, PairTidy
  <2>6. {-l, t} \subseteq OpenLits
    BY <1>1, <2>1
  <2>7. QED
    BY <2>3, <2>5, <2>6, <1>4, KeepSafe
<1>5. QED
  BY <1>3, <1>4 DEF DoubleLook

\* The literals of C but f are false when d holds.
LEMMA HyperBinarySafe ==
    ASSUME WellFormed, ok, NEW C \in All, NEW f \in OpenLits, NEW d \in OpenLits, HyperBinary(C, f, d)
    PROVE  SafeStep
<1> DEFINE S == IF -d \in C THEN {C} ELSE {}
           E == {f, -d}
<1>1. /\ f \in C /\ Negated(C \ {f}) \subseteq Reaches(All, d) \cup {d} /\ f \notin {d, -d}
      /\ \/ Rewrite((core \ S) \cup {E}, learnts, {})
         \/ Rewrite(core, (learnts \ S) \cup {E}, {})
         \/ Rewrite(core, learnts \ S, {})
  BY DEF HyperBinary
<1>2. f \in Lits /\ d \in Lits /\ -d \in OpenLits /\ -d \in Lits
  BY OpenIsThere
<1>3. ASSUME NEW A, Model(A, All, units) PROVE Sat(A, E)
  <2>1. Holds(A, -d) <=> ~ Holds(A, d)
    BY <1>2, LitFacts, HoldsFlip
  <2>2. ASSUME Holds(A, d) PROVE Holds(A, f)
    <3>1. \A k \in Reaches(All, d) \cup {d} : Holds(A, k)
      BY <1>2, <1>3, <2>2, ReachesMeans DEF Model
    <3>2. ASSUME NEW k \in C \ {f} PROVE ~ Holds(A, k)
      <4>1. -k \in Reaches(All, d) \cup {d} /\ k \in Lits
        BY <1>1, AllIsOpen, OpenIsThere DEF Negated
      <4>2. QED
        BY <3>1, <4>1, LitFacts, HoldsFlip
    <3>3. Sat(A, C)
      BY <1>3 DEF Model, IsModel
    <3>4. QED
      BY <3>2, <3>3 DEF Sat
  <2>3. QED
    BY <2>1, <2>2 DEF Sat
<1>4. Tidy({E}) /\ E \subseteq OpenLits
  <2>1. f # -(-d)
    BY <1>1, <1>2, LitFacts
  <2>2. QED
    BY <2>1, <1>2, PairTidy
<1> HIDE DEF S, E
<1>5. CASE Rewrite((core \ S) \cup {E}, learnts, {})
  BY <1>3, <1>4, <1>5, RewriteIs, ClauseSafe
<1>6. CASE Rewrite(core, (learnts \ S) \cup {E}, {})
  BY <1>3, <1>4, <1>6, RewriteIs, ClauseSafe
<1>7. CASE Rewrite(core, learnts \ S, {})
  BY <1>7, RewriteIs, RemovingSafe
<1>8. QED
  BY <1>1, <1>5, <1>6, <1>7

\* A clause C and what the others make of it when literals D of it are false.
LEMMA VivifiedHolds ==
    ASSUME NEW F \in Formula, NEW V \in SUBSET Lits, NEW C \in SUBSET Lits, NEW D \in SUBSET C,
           NEW A, Model(A, F, V), Sat(A, C),
           Negated(C \ D) \subseteq UnitsFrom(F, V \cup Negated(D))
    PROVE  Sat(A, D)
<1>1. SUFFICES ASSUME ~ Sat(A, D) PROVE FALSE
  OBVIOUS
<1>2. \A l \in UnitsFrom(F, V \cup Negated(D)) : Holds(A, l)
  BY <1>1, PropagatedHolds
<1>3. ASSUME NEW k \in C \ D PROVE ~ Holds(A, k)
  <2>1. Holds(A, -k) /\ k \in Lits
    BY <1>2 DEF Negated
  <2>2. QED
    BY <2>1, LitFacts, HoldsFlip
<1>4. QED
  BY <1>1, <1>3 DEF Sat

LEMMA VivifySafe ==
    ASSUME WellFormed, NEW C \in core, Vivify(C)
    PROVE  SafeStep
<1> DEFINE F == All \ {C}
<1>1. ok /\ C \in All
  BY DEF Vivify, Uses, All
<1>2. PICK D \in Vivified(C) : Rewrite((core \ {C}) \cup {D}, learnts, {})
  BY DEF Vivify
<1>3. D \in SUBSET C /\ C \in SUBSET Lits
  BY <1>1, AllIsOpen, OpenIsThere DEF Vivified
<1>4. D \subseteq OpenLits /\ Tidy({D})
  BY <1>1, <1>3, PartTidy
<1>5. F \in Formula /\ {} \in SUBSET Lits /\ D \in SUBSET Lits
  BY <1>3, SomeAreFormula
<1>6. ASSUME NEW A, Model(A, All, units) PROVE Sat(A, D)
  <2>1. Model(A, F, {}) /\ Sat(A, C)
    BY <1>1, <1>6 DEF Model, IsModel
  <2>2. CASE Fails(F, Negated(D))
    <3>1. FailsWith(F, UnitsFrom(F, {} \cup Negated(D)))
      BY <2>2 DEF Fails, Up
    <3> HIDE DEF F
    <3>2. QED
      BY <3>1, <2>1, <1>5, RefutedHolds
  <2>3. CASE \E f \in D : f \in Up(F, Negated(D \ {f}))
    <3>1. PICK f \in D : f \in UnitsFrom(F, {} \cup Negated(D \ {f}))
      BY <2>3 DEF Up
    <3>2. D \ {f} \in SUBSET Lits
      BY <1>3
    <3> HIDE DEF F
    <3>3. CASE ~ Sat(A, D \ {f})
      <4>1. Holds(A, f)
        BY <3>1, <3>2, <3>3, <2>1, <1>5, PropagatedHolds
      <4>2. QED
        BY <4>1 DEF Sat
    <3>4. CASE Sat(A, D \ {f})
      BY <3>4 DEF Sat
    <3>5. QED
      BY <3>3, <3>4
  <2>4. CASE Negated(C \ D) \subseteq Up(F, Negated(D))
    <3>1. Negated(C \ D) \subseteq UnitsFrom(F, {} \cup Negated(D))
      BY <2>4 DEF Up
    <3> HIDE DEF F
    <3>2. QED
      BY <3>1, <2>1, <1>3, <1>5, VivifiedHolds
  <2>5. QED
    BY <2>2, <2>3, <2>4 DEF Vivified
<1>7. QED
  BY <1>1, <1>2, <1>4, <1>6, RewriteIs, ClauseSafe

LEMMA ProbingSafe ==
    ASSUME WellFormed, ProbingNext
    PROVE  SafeStep
BY UsesMeans, UnitsOfConflictSafe, DoubleLookSafe, NecessarySafe, EquivalentByProbingSafe, HyperBinarySafe,
   VivifySafe DEF ProbingNext

-----------------------------------------------------------------------------
(* Unhiding, hyper binary resolution *)

LEMMA FailedStampSafe ==
    ASSUME WellFormed, ok, NEW l \in OpenLits, FailedStamp(l)
    PROVE  SafeStep
<1>1. PICK k \in Reaches(All, l) : -k \in Reaches(All, l) \cup {l}
  BY DEF FailedStamp
<1>2. Rewrite(core, learnts, {-l})
  BY DEF FailedStamp
<1>3. k \in Lits /\ {k, -k} \subseteq Reaches(All, l) \cup {l}
  BY <1>1, ReachesType, OpenIsThere
<1>4. QED
  BY <1>2, <1>3, OppositeSafe

\* A literal that implies another one of its clause by other clauses is not needed.
LEMMA RemoveHiddenLiteralSafe ==
    ASSUME WellFormed, ok, NEW C \in core, NEW l \in C, RemoveHiddenLiteral(C, l)
    PROVE  SafeStep
<1> DEFINE E == C \ {l}
           F == All \ {C}
<1>1. PICK i \in E : i \in Reaches(F, l)
  BY DEF RemoveHiddenLiteral
<1>2. Rewrite((core \ {C}) \cup {E}, learnts, {})
  BY DEF RemoveHiddenLiteral
<1>3. C \in All /\ l \in Lits
  BY AllIsOpen, OpenIsThere DEF All
<1>4. E \subseteq OpenLits /\ Tidy({E})
  BY <1>3, PartTidy
<1>5. ASSUME NEW A, Model(A, All, units) PROVE Sat(A, E)
  <2>1. IsModel(A, F) /\ Sat(A, C)
    BY <1>3, <1>5 DEF Model, IsModel
  <2> HIDE DEF F
  <2>2. QED
    BY <2>1, <1>1, <1>3, HiddenLiteralHolds
<1> HIDE DEF E
<1>6. QED
  BY <1>2, <1>4, <1>5, RewriteIs, ClauseSafe

\* One of its literals holds, and gives what they all imply.
LEMMA ImpliedByAllSafe ==
    ASSUME WellFormed, ok, NEW C \in core, ImpliedByAll(C)
    PROVE  SafeStep
<1>1. PICK k \in OpenLits : (\A l \in C : k \in {l} \cup Reaches(All, l)) /\ Rewrite(core, learnts, {k})
  BY DEF ImpliedByAll
<1>2. ASSUME NEW A, Model(A, All, units) PROVE \A j \in {k} : Holds(A, j)
  <2>1. C \in All /\ IsModel(A, All)
    BY <1>2 DEF All, Model
  <2>2. PICK l \in C : Holds(A, l)
    BY <2>1 DEF IsModel, Sat
  <2>3. l \in Lits
    BY <2>1, AllIsOpen, OpenIsThere
  <2>4. QED
    BY <2>1, <2>2, <2>3, <1>1, ReachesMeans
<1>3. {k} \subseteq LitsWithout(fresh)
  BY OpenIsThere
<1>4. QED
  BY <1>1, <1>2, <1>3, UnitsSafe

LEMMA ComplementarySafe ==
    ASSUME WellFormed, ok, NEW C \in core, Complementary(C)
    PROVE  SafeStep
<1>1. PICK a \in C : \E b \in C \ {a} : -b \in Reaches(All, a) /\ Apply(Unfrozen({a, -b}))
  BY DEF Complementary
<1>2. PICK b \in C \ {a} : -b \in Reaches(All, a) /\ Apply(Unfrozen({a, -b}))
  BY <1>1
<1>3. C \in All /\ C \in SUBSET Lits /\ Cardinality(C) = 2
  BY AllIsOpen DEF Complementary, All, Clause
<1>4. C = {a, b} /\ a \in Lits /\ b \in Lits /\ -b \in Lits
  <2>1. IsFiniteSet(C)
    BY <1>3, LitsAreFinite
  <2>2. PICK x : C \ {a} = {x}
    BY <2>1, <1>3, TheOther
  <2>3. QED
    BY <2>2, <1>2, <1>3, LitFacts
<1>5. ASSUME NEW A, Model(A, All, units) PROVE Holds(A, a) <=> Holds(A, -b)
  <2>1. IsModel(A, All) /\ Sat(A, C)
    BY <1>3, <1>5 DEF Model, IsModel
  <2>2. Holds(A, a) => Holds(A, -b)
    BY <2>1, <1>2, <1>4, ReachesMeans
  <2>3. Holds(A, a) \/ Holds(A, b)
    BY <2>1, <1>4 DEF Sat
  <2>4. Holds(A, -b) <=> ~ Holds(A, b)
    BY <1>4, LitFacts, HoldsFlip
  <2>5. QED
    BY <2>2, <2>3, <2>4
<1> DEFINE X == {a, -b}
<1>6. Same(X) /\ X \in SUBSET Lits
  BY <1>4, <1>5 DEF Same
<1>7. Apply(Unfrozen(X))
  BY <1>2
<1> HIDE DEF X
<1>8. QED
  BY <1>6, <1>7, SamePart, ApplySafe

LEMMA HyperBinaryClauseSafe ==
    ASSUME WellFormed, ok, NEW C \in core, NEW l \in OpenLits, NEW k \in C, HyperBinaryClause(C, k, l)
    PROVE  SafeStep
<1>1. {l, -l} \cap C = {} /\ \A j \in C \ {k} : Implies(All, j, l)
  BY DEF HyperBinaryClause
<1>2. C \in All /\ C \subseteq OpenLits /\ C \in SUBSET Lits /\ l \in Lits /\ k \in Lits
  <2>1. C \in All
    BY DEF All
  <2>2. QED
    BY <2>1, AllIsOpen, OpenIsThere
<1>3. ASSUME NEW j \in C, Implies(All, j, l), NEW A, Model(A, All, units), Holds(A, j)
      PROVE  Holds(A, l)
  <2>1. Sat(A, {-j, l})
    BY <1>3 DEF Implies, Model, IsModel
  <2>2. ~ Holds(A, -j)
    BY <1>2, <1>3, LitFacts, HoldsFlip
  <2>3. QED
    BY <2>1, <2>2 DEF Sat
<1>4. ASSUME NEW A, Model(A, All, units) PROVE Holds(A, k) \/ Holds(A, l)
  <2>1. PICK j \in C : Holds(A, j)
    BY <1>2, <1>4 DEF Model, IsModel, Sat
  <2>2. QED
    BY <2>1, <1>1, <1>3, <1>4
<1>5. CASE Implies(All, k, l)
  <2>1. Rewrite(core, learnts, {l})
    BY <1>5 DEF HyperBinaryClause
  <2>2. \A A : Model(A, All, units) => \A j \in {l} : Holds(A, j)
    BY <1>3, <1>4, <1>5
  <2>3. {l} \subseteq LitsWithout(fresh)
    BY OpenIsThere
  <2>4. QED
    BY <2>1, <2>2, <2>3, UnitsSafe
<1>6. CASE ~ Implies(All, k, l)
  <2> DEFINE E == {k, l}
  <2>1. Rewrite(core \cup {E}, learnts, {})
    BY <1>6 DEF HyperBinaryClause
  <2>2. \A A : Model(A, All, units) => Sat(A, E)
    BY <1>4 DEF Sat
  <2>3. E \subseteq OpenLits /\ Tidy({E})
    <3>1. k # -l
      BY <1>1
    <3>2. QED
      BY <3>1, <1>2, PairTidy
  <2> HIDE DEF E
  <2>4. QED
    BY <2>1, <2>2, <2>3, RewriteIs, ClauseSafe
<1>7. QED
  BY <1>5, <1>6

LEMMA UnhidingSafe ==
    ASSUME WellFormed, UnhidingNext
    PROVE  SafeStep
<1>1. ASSUME NEW l \in OpenLits, Uses("unhiding"), StampClass(l) PROVE SafeStep
  <2>1. PICK K \in SUBSET Component(l) : Apply(Unfrozen(K))
    BY <1>1 DEF StampClass
  <2>2. QED
    BY <2>1, <1>1, UsesMeans, ComponentSafe
<1>2. ASSUME NEW C \in core, Uses("unhiding"), TransitiveEdge(C) \/ RemoveTautology(C) PROVE SafeStep
  <2>1. Rewrite(core \ {C}, learnts, {})
    BY <1>2 DEF TransitiveEdge, RemoveTautology
  <2>2. QED
    BY <2>1, <1>2, UsesMeans, RewriteIs, RemovingSafe
<1>3. QED
  BY <1>1, <1>2, UsesMeans, FailedStampSafe, RemoveHiddenLiteralSafe, ImpliedByAllSafe, ComplementarySafe,
     HyperBinaryClauseSafe DEF UnhidingNext

-----------------------------------------------------------------------------
(* Literal addition, resolving *)

LEMMA AddAsymmetricSafe ==
    ASSUME WellFormed, NEW C \in All, NEW D \in All, AddAsymmetric(C, D)
    PROVE  SafeStep
<1>1. ok
  BY DEF AddAsymmetric, Uses
<1>2. PICK e \in C \ D : C \ {e} \subseteq D /\ -e \notin D /\ Rewrite((core \ {D}) \cup {D \cup {-e}}, learnts, {})
  BY DEF AddAsymmetric
<1> DEFINE E == D \cup {-e}
<1>3. e \in OpenLits /\ -e \in OpenLits /\ D \subseteq OpenLits /\ -(-e) = e /\ e # -e
  BY AllIsOpen, OpenIsThere, LitFacts
<1>4. E \subseteq OpenLits
  BY <1>3
<1>5. Tidy({E})
  <2>1. ~ Tautology(D)
    BY DEF WellFormed, Tidy
  <2>2. ASSUME NEW k \in E, -k \in E PROVE FALSE
    <3>1. k = -e => -k = e
      BY <1>3
    <3>2. -k = -e => k = e
      BY <1>3, <1>4, OpenIsThere, LitFacts
    <3>3. QED
      BY <3>1, <3>2, <2>1, <2>2, <1>2, <1>3 DEF Tautology
  <2>3. QED
    BY <2>2 DEF Tidy, Tautology
<1>6. \A A : Model(A, All, units) => Sat(A, E)
  BY DEF Model, IsModel, Sat
<1> HIDE DEF E
<1>7. QED
  BY <1>1, <1>2, <1>4, <1>5, <1>6, RewriteIs, ClauseSafe DEF E

LEMMA AddCoveredSafe ==
    ASSUME WellFormed, NEW C \in All, NEW l \in C, AddCovered(C, l)
    PROVE  SafeStep
<1>1. ok /\ Proper(C, l) # {} /\ fresh' = fresh
  BY DEF AddCovered, Uses
<1>2. PICK X \in SUBSET SharedBy(C, l) :
        \/ Become((core \ {C}) \cup {C \cup X}, learnts, {})
        \/ Become(core \cup {C \cup X}, learnts \ {C}, {})
  BY DEF AddCovered
<1> DEFINE E == C \cup X
<1>3. E \subseteq OpenLits /\ Tidy({E}) /\ \A A : Model(A, All, units) => Sat(A, E)
  BY <1>1, SharedIsTidy
<1>4. Become((core \ {C}) \cup {E}, learnts, {}) \/ Become(core \cup {E}, learnts \ {C}, {})
  BY <1>2
<1> HIDE DEF E
<1>5. CASE Become((core \ {C}) \cup {E}, learnts, {})
  BY <1>1, <1>3, <1>5, ClauseSafe
<1>6. CASE Become(core \cup {E}, learnts \ {C}, {})
  BY <1>1, <1>3, <1>6, ClauseSafe
<1>7. QED
  BY <1>4, <1>5, <1>6

LEMMA TernaryResolveSafe ==
    ASSUME WellFormed, NEW v, NEW C \in With(v), NEW D \in With(-v), TernaryResolve(C, D, v)
    PROVE  SafeStep
<1> DEFINE R == Resolvent(C, D, v)
<1>1. ok /\ ~ Tautology(R)
  BY DEF TernaryResolve, Uses
<1>2. R \subseteq OpenLits /\ \A A : Model(A, All, units) => Sat(A, R)
  BY ResolventIsOpen
<1>3. Tidy({R})
  BY <1>1 DEF Tidy
<1>4. \/ Cardinality(R) = 1 /\ Rewrite(core, learnts, R)
      \/ Rewrite(Unsubsumed(core, R) \cup {R}, Unsubsumed(learnts, R), {})
      \/ Rewrite(Unsubsumed(core, R), Unsubsumed(learnts, R) \cup {R}, {})
  BY DEF TernaryResolve
<1>5. Unsubsumed(core, R) \subseteq core /\ Unsubsumed(learnts, R) \subseteq learnts
  BY DEF Unsubsumed
<1>6. IsFiniteSet(R)
  BY <1>2, OpenIsThere, LitsAreFinite
<1> HIDE DEF R
<1>7. CASE Cardinality(R) = 1 /\ Rewrite(core, learnts, R)
  <2>1. PICK l : R = {l}
    BY <1>6, <1>7, FS_Singleton
  <2>2. \A A : Model(A, All, units) => \A k \in R : Holds(A, k)
    BY <2>1, <1>2 DEF Sat
  <2>3. QED
    BY <2>2, <1>1, <1>2, <1>7, OpenIsThere, UnitsSafe
<1>8. CASE Rewrite(Unsubsumed(core, R) \cup {R}, Unsubsumed(learnts, R), {})
  BY <1>1, <1>2, <1>3, <1>5, <1>8, RewriteIs, ClauseSafe
<1>9. CASE Rewrite(Unsubsumed(core, R), Unsubsumed(learnts, R) \cup {R}, {})
  BY <1>1, <1>2, <1>3, <1>5, <1>9, RewriteIs, ClauseSafe
<1>10. QED
  BY <1>4, <1>7, <1>8, <1>9

LEMMA AddRedundantBinarySafe ==
    ASSUME WellFormed, NEW a \in OpenLits, NEW b \in OpenLits, AddRedundantBinary(a, b)
    PROVE  SafeStep
<1>1. ok /\ a # b /\ b \in Reaches(All, a)
  BY DEF AddRedundantBinary, Uses
<1>2. a \in Lits /\ b \in Lits /\ -a \in OpenLits /\ -a \in Lits
  BY OpenIsThere
<1>3. ASSUME NEW A, Model(A, All, units) PROVE Holds(A, -a) \/ Holds(A, b)
  <2>1. Holds(A, a) => Holds(A, b)
    BY <1>1, <1>2, <1>3, ReachesMeans DEF Model
  <2>2. Holds(A, -a) <=> ~ Holds(A, a)
    BY <1>2, LitFacts, HoldsFlip
  <2>3. QED
    BY <2>1, <2>2
<1>4. CASE b = -a /\ Rewrite(core, learnts, {b})
  <2>1. {b} \subseteq LitsWithout(fresh) /\ \A A : Model(A, All, units) => \A k \in {b} : Holds(A, k)
    BY <1>3, <1>4, OpenIsThere
  <2>2. QED
    BY <2>1, <1>1, <1>4, UnitsSafe
<1>5. CASE b # -a /\ Rewrite(core \cup {{-a, b}}, learnts, {})
  <2> DEFINE E == {-a, b}
  <2>1. \A A : Model(A, All, units) => Sat(A, E)
    BY <1>3 DEF Sat
  <2>2. E \subseteq OpenLits
    BY <1>2
  <2>3. Tidy({E})
    <3>1. -a # -b
      BY <1>1, <1>2, LitFacts
    <3>2. QED
      BY <3>1, <1>2, PairTidy
  <2>4. Rewrite(core \cup {E}, learnts, {})
    BY <1>5
  <2> HIDE DEF E
  <2>5. QED
    BY <2>1, <2>2, <2>3, <2>4, <1>1, RewriteIs, ClauseSafe
<1>6. QED
  BY <1>4, <1>5 DEF AddRedundantBinary

LEMMA ClauseAdditionSafe ==
    ASSUME WellFormed, ClauseAdditionNext
    PROVE  SafeStep
BY AddAsymmetricSafe, AddCoveredSafe, TernaryResolveSafe, AddRedundantBinarySafe DEF ClauseAdditionNext

-----------------------------------------------------------------------------
(* Asymmetric tautologies *)

LEMMA AsymmetricHolds ==
    ASSUME NEW F \in Formula, NEW S \in SUBSET Lits, AT(F, S), NEW A, IsModel(A, F)
    PROVE  Sat(A, S)
<1>1. FailsWith(F, UnitsFrom(F, {} \cup Negated(S))) /\ {} \in SUBSET Lits /\ Model(A, F, {})
  BY DEF AT, Model
<1>2. QED
  BY <1>1, RefutedHolds

LEMMA AllButFacts ==
    ASSUME WellFormed, NEW C
    PROVE  /\ AllBut(C) \in SUBSET All /\ AllBut(C) \in Formula /\ All \in Formula
           /\ \A A : Model(A, All, units) => IsModel(A, AllBut(C)) /\ IsModel(A, All)
<1>1. AllBut(C) \in SUBSET All
  BY DEF AllBut, All
<1>2. QED
  BY <1>1, AllIsOpen, SomeAreFormula DEF Model

\* A literal that becomes true wherever it is false becomes a unit.
LEMMA FlipUnitSafe ==
    ASSUME WellFormed, ok, forward = << >>, NEW l, Flippable(l), Rewrite(core, learnts, {l}),
           \A A \in SUBSET (Vars \ fresh) :
               Model(A, All, units) /\ ~ Holds(A, l) => \A D \in With(-l) : Sat(MadeTrue(A, l), D)
    PROVE  SafeStep
<1> DEFINE U == {l}
<1>1. core \subseteq SUBSET LitsWithout(fresh') /\ learnts \subseteq SUBSET LitsWithout(fresh')
      /\ Become(core, learnts, U) /\ fresh' = fresh /\ Tidy(core \cup learnts)
  BY OpenIsThere, RewriteIs DEF WellFormed, All
<1>2. l \in Lits /\ l \in Int /\ l # 0 /\ U \subseteq LitsWithout(fresh')
  BY <1>1, LitFacts DEF Flippable, Open, LitsWithout
<1>3. ASSUME NEW A \in SUBSET (Vars \ fresh), Model(A, All, units)
      PROVE  Allowed(A, core \cup learnts, units \cup U, fresh')
  <2>1. CASE Holds(A, l)
    <3>1. Model(A, core \cup learnts, units \cup U) /\ Agree(A, A)
      BY <1>3, <2>1 DEF Model, IsModel, Agree, All
    <3>2. QED
      BY <3>1, <1>1 DEF Allowed
  <2>2. CASE ~ Holds(A, l)
    <3> DEFINE B == MadeTrue(A, l)
    <3>1. /\ B \in SUBSET (Vars \ fresh) /\ Agree(A, B)
          /\ \A k \in units : Holds(B, k)
          /\ \A C \in All : -l \notin C => Sat(B, C)
      BY <1>3, FlipKeeps
    <3>2. \A D \in With(-l) : Sat(B, D)
      BY <1>3, <2>2
    <3>3. Holds(B, l)
      BY <1>2, MadeTrueHolds
    <3> HIDE DEF B
    <3>4. \A C \in All : Sat(B, C)
      BY <3>1, <3>2 DEF With
    <3>5. Model(B, core \cup learnts, units \cup U)
      BY <3>1, <3>3, <3>4 DEF Model, IsModel, All
    <3>6. QED
      BY <3>1, <3>5, <1>1 DEF Allowed
  <2>3. QED
    BY <2>1, <2>2
<1> HIDE DEF U
<1>4. fresh' \in SUBSET fresh
  BY <1>1
<1>5. QED
  BY <1>1, <1>2, <1>3, <1>4, BecomeSafe

\* What suffices besides l: without it l becomes true.
LEMMA SufficesHolds ==
    ASSUME WellFormed, NEW C, NEW K \in SUBSET Lits, NEW l \in Lits, Suffices(K, C, l),
           NEW A, Model(A, All, units), ~ Sat(A, K \cup {l})
    PROVE  \A D \in With(-l) : Sat(MadeTrue(A, l), D)
<1>1. SUFFICES ASSUME NEW D \in With(-l) PROVE Sat(MadeTrue(A, l), D)
  OBVIOUS
<1> DEFINE S == D \ {-l}
           T == K \cup S
<1>2. D \in All /\ S \in SUBSET Lits /\ T \in SUBSET Lits /\ l \in Int /\ l # 0
  BY AllIsOpen, OpenIsThere, LitFacts DEF With
<1>3. /\ IsModel(A, AllBut(C)) /\ IsModel(A, All)
      /\ AllBut(C) \in Formula /\ All \in Formula
  BY AllButFacts
<1>4. AT(All, S) \/ AT(AllBut(C), T)
  BY DEF Suffices
<1> HIDE DEF S, T
<1>5. Sat(A, S) \/ Sat(A, T)
  BY <1>2, <1>3, <1>4, AsymmetricHolds
<1>6. PICK k \in S : Holds(A, k)
  BY <1>5 DEF Sat, T
<1>7. k \in D /\ k # -l /\ k \in Int /\ k # 0
  BY <1>2, <1>6, LitFacts DEF S
<1>8. Holds(MadeTrue(A, l), k)
  BY <1>2, <1>6, <1>7, MadeTrueHolds
<1>9. QED
  BY <1>7, <1>8 DEF Sat

LEMMA MinimizeRATSafe ==
    ASSUME WellFormed, forward = << >>, NEW C \in All, NEW l \in C, MinimizeRAT(C, l)
    PROVE  SafeStep
<1>1. ok /\ Free(l) /\ l \in Lits
  BY AllIsOpen, OpenIsThere DEF MinimizeRAT, Uses
<1>2. Flippable(l)
  BY <1>1, FreeIsFlippable
<1>3. CASE Suffices({}, C, l) /\ Rewrite(core, learnts, {l})
  <2> DEFINE K == {}
  <2>1. Suffices(K, C, l) /\ K \in SUBSET Lits
    BY <1>3
  <2>2. \A A : ~ Holds(A, l) => ~ Sat(A, K \cup {l})
    BY DEF Sat
  <2> HIDE DEF K
  <2>3. \A A : Model(A, All, units) /\ ~ Holds(A, l) => \A D \in With(-l) : Sat(MadeTrue(A, l), D)
    BY <2>1, <2>2, <1>1, SufficesHolds
  <2>4. QED
    BY <2>3, <1>1, <1>2, <1>3, FlipUnitSafe
<1>4. ASSUME NEW K \in SUBSET (C \ {l}), Suffices(K, C, l), Rewrite((core \ {C}) \cup {K \cup {l}}, learnts, {})
      PROVE  SafeStep
  <2> DEFINE N == K \cup {l}
  <2>1. N \in SUBSET C /\ l \in N /\ K \in SUBSET Lits
    BY <1>4, AllIsOpen, OpenIsThere
  <2>2. \A A : Model(A, All, units) /\ ~ Sat(A, N) => \A D \in With(-l) : Sat(MadeTrue(A, l), D)
    BY <2>1, <1>1, <1>4, SufficesHolds
  <2>3. Rewrite((core \ {C}) \cup {N}, learnts, {})
    BY <1>4
  <2> HIDE DEF N
  <2>4. N \subseteq OpenLits /\ Tidy({N})
    BY <2>1, PartTidy
  <2>5. QED
    BY <2>1, <2>2, <2>3, <2>4, <1>1, <1>2, RewriteIs, FlipSafe
<1>5. QED
  BY <1>3, <1>4 DEF MinimizeRAT

LEMMA ShortenATSafe ==
    ASSUME WellFormed, NEW D \in All, NEW l, -l \in D, ShortenAT(D, l)
    PROVE  SafeStep
<1>1. ok
  BY DEF ShortenAT, Uses
<1>2. PICK S \in SUBSET (D \ {-l}) :
        /\ AT(All, S)
        /\ \/ Cardinality(S) = 1 /\ Rewrite(core, learnts, S)
           \/ Rewrite((core \ {D}) \cup {S \cup {-l}}, learnts, {})
           \/ Rewrite(core, (learnts \ {D}) \cup {S \cup {-l}}, {})
  BY DEF ShortenAT
<1> DEFINE E == S \cup {-l}
<1>3. S \subseteq OpenLits /\ S \in SUBSET Lits /\ IsFiniteSet(S)
  BY AllIsOpen, OpenIsThere, LitsAreFinite
<1>4. \A A : Model(A, All, units) => Sat(A, S)
  BY <1>2, <1>3, AllIsOpen, AsymmetricHolds DEF Model
<1>5. CASE Cardinality(S) = 1 /\ Rewrite(core, learnts, S)
  <2>1. PICK k : S = {k}
    BY <1>3, <1>5, FS_Singleton
  <2>2. \A A : Model(A, All, units) => \A j \in S : Holds(A, j)
    BY <2>1, <1>4 DEF Sat
  <2>3. QED
    BY <2>2, <1>1, <1>3, <1>5, OpenIsThere, UnitsSafe
<1>6. E \in SUBSET D
  OBVIOUS
<1>7. \A A : Model(A, All, units) => Sat(A, E)
  BY <1>4 DEF Sat
<1>8. Rewrite((core \ {D}) \cup {E}, learnts, {}) \/ Rewrite(core, (learnts \ {D}) \cup {E}, {}) => SafeStep
  <2> HIDE DEF E
  <2>1. E \subseteq OpenLits /\ Tidy({E})
    BY <1>6, PartTidy
  <2>2. QED
    BY <2>1, <1>1, <1>7, RewriteIs, ClauseSafe
<1>9. QED
  BY <1>2, <1>5, <1>8

LEMMA SubstituteSafe ==
    ASSUME WellFormed, forward = << >>, NEW C \in All, NEW D \in All, Substitute(C, D)
    PROVE  SafeStep
<1> DEFINE extra == C \ D
           N     == (D \ C) \cup Negated(extra)
<1>1. ok
  BY DEF Substitute, Uses
<1>2. CASE Rewrite(core \ {D}, learnts, {}) \/ Rewrite(core, learnts \ {D}, {})
  BY <1>1, <1>2, RewriteIs, RemovingSafe
<1>3. CASE /\ Cardinality(extra) = 1
           /\ \/ AT(All, N)
              \/ \E k \in N : Free(k) /\ \A E \in With(-k) : \E j \in E \ {-k} : -j \in N
           /\ \/ Rewrite((core \ {D}) \cup {N}, learnts, {})
              \/ Rewrite(core, (learnts \ {D}) \cup {N}, {})
  <2>1. C \subseteq OpenLits /\ D \subseteq OpenLits /\ IsFiniteSet(extra)
    BY AllIsOpen, OpenIsThere, LitsAreFinite
  <2>2. PICK e : extra = {e}
    <3> HIDE DEF extra
    <3>1. QED
      BY <2>1, <1>3, FS_Singleton
  <2>3. e \in C /\ e \notin D /\ N = (D \ C) \cup {-e}
    BY <2>2 DEF Negated
  <2>4. e \in OpenLits /\ -e \in OpenLits /\ -(-e) = e /\ e # -e /\ e \in Lits
    BY <2>1, <2>3, OpenIsThere, LitFacts
  <2>5. N \subseteq OpenLits
    BY <2>1, <2>3, <2>4
  <2>6. Tidy({N})
    <3>1. ~ Tautology(D)
      BY DEF WellFormed, Tidy
    <3>2. ASSUME NEW k \in N, -k \in N PROVE FALSE
      <4>1. k \in Lits /\ -(-k) = k
        BY <2>5, OpenIsThere, LitFacts
      <4>2. k # -e => k \in D
        BY <2>3
      <4>3. -k # -e => -k \in D
        BY <3>2, <2>3
      <4>4. k = -e => -k = e
        BY <2>4
      <4>5. -k = -e => k = e
        BY <4>1, <2>4
      <4>6. QED
        BY <4>2, <4>3, <4>4, <4>5, <3>1, <2>3, <2>4 DEF Tautology
    <3>3. QED
      BY <3>2 DEF Tidy, Tautology
  <2> HIDE DEF N, extra
  <2>7. CASE AT(All, N)
    <3>1. \A A : Model(A, All, units) => Sat(A, N)
      BY <2>5, <2>7, AllIsOpen, OpenIsThere, AsymmetricHolds DEF Model
    <3>2. QED
      BY <3>1, <2>5, <2>6, <1>1, <1>3, RewriteIs, ClauseSafe
  <2>8. ASSUME NEW k \in N, Free(k), \A E \in With(-k) : \E j \in E \ {-k} : -j \in N PROVE SafeStep
    <3>1. Flippable(k) /\ k \in Int /\ k # 0
      BY <2>5, <2>8, OpenIsThere, LitFacts DEF Free, Flippable
    <3>2. ASSUME NEW A, Model(A, All, units), ~ Sat(A, N), NEW E \in With(-k)
          PROVE  Sat(MadeTrue(A, k), E)
      <4>1. PICK j \in E \ {-k} : -j \in N
        BY <2>8
      <4>2. j \in Lits /\ ~ Holds(A, -j)
        BY <4>1, <3>2, AllIsOpen, OpenIsThere DEF With, Sat
      <4>3. j \in Int /\ j # 0 /\ Holds(A, j)
        BY <4>2, LitFacts, HoldsFlip
      <4>4. Holds(MadeTrue(A, k), j)
        BY <4>1, <4>3, <3>1, MadeTrueHolds
      <4>5. QED
        BY <4>1, <4>4 DEF Sat
    <3>3. QED
      BY <3>1, <3>2, <2>5, <2>6, <2>8, <1>1, <1>3, RewriteIs, FlipSafe
  <2>9. QED
    BY <2>7, <2>8, <1>3
<1>4. QED
  BY <1>2, <1>3 DEF Substitute

LEMMA AsymmetricSafe ==
    ASSUME WellFormed, forward = << >>, AsymmetricNext
    PROVE  SafeStep
<1>1. ASSUME NEW C, NEW l, EliminateRAT(C, l) PROVE SafeStep
  <2>1. ok /\ Become(core \ {C}, learnts, {}) /\ fresh' = fresh
    BY <1>1, RewriteIs DEF EliminateRAT, Uses
  <2>2. QED
    BY <2>1, RemovingSafe
<1>2. ASSUME NEW C \in All, NEW l \in C, ShortenAT(C, -l) PROVE SafeStep
  <2>1. -(-l) \in C
    BY AllIsOpen, OpenIsThere, LitFacts
  <2>2. QED
    BY <1>2, <2>1, ShortenATSafe
<1>3. QED
  BY <1>1, <1>2, MinimizeRATSafe, SubstituteSafe DEF AsymmetricNext

-----------------------------------------------------------------------------
(* Implied clauses *)

\* Values of variables that are not open do not matter.
LEMMA FollowsHolds ==
    ASSUME WellFormed, NEW F \in SUBSET All, NEW C \in SUBSET OpenLits, Follows(C, F),
           NEW A, Model(A, All, units)
    PROVE  Sat(A, C)
<1> DEFINE B == A \cap Open
<1>1. ASSUME NEW l \in OpenLits PROVE Holds(B, l) <=> Holds(A, l)
  <2>1. VarOf(l) \in Open
    BY OpenLitsFacts
  <2>2. QED
    BY <2>1 DEF Holds, VarOf
<1>2. \A D \in All : D \subseteq OpenLits
  BY AllIsOpen
<1> HIDE DEF B
<1>3. IsModel(B, F)
  BY <1>1, <1>2 DEF Model, IsModel, Sat
<1>4. B \in SUBSET Open
  BY DEF B
<1>5. Sat(B, C)
  BY <1>3, <1>4 DEF Follows
<1>6. QED
  BY <1>1, <1>5 DEF Sat

LEMMA ImpliedNextSafe ==
    ASSUME WellFormed, ImpliedNext
    PROVE  SafeStep
<1>1. ASSUME NEW C, NEW D, Entailed(C, D) PROVE SafeStep
  <2>1. ok /\ (Rewrite(core \ {C}, learnts, {}) \/ Rewrite(core \ {D}, learnts, {}))
    BY <1>1 DEF Entailed, Uses
  <2>2. QED
    BY <2>1, RewriteIs, RemovingSafe
<1>2. ASSUME NEW W, Communities(W) PROVE SafeStep
  <2>1. PICK k, l \in {j \in OpenLits : VarOf(j) \in W} :
        /\ ~ Tautology({k, l}) /\ Follows({k, l}, Within(W))
        /\ IF k = l THEN Rewrite(core, learnts, {k}) ELSE Rewrite(core \cup { {k, l} }, learnts, {})
    BY <1>2 DEF Communities
  <2> DEFINE E == {k, l}
  <2>2. ok /\ E \in SUBSET OpenLits /\ Tidy({E}) /\ Within(W) \in SUBSET All
    BY <1>2, <2>1 DEF Communities, Uses, Tidy, Within
  <2>3. \A A : Model(A, All, units) => Sat(A, E)
    <3>1. Follows(E, Within(W))
      BY <2>1
    <3> HIDE DEF E
    <3>2. QED
      BY <3>1, <2>2, FollowsHolds
  <2>4. CASE k = l /\ Rewrite(core, learnts, {k})
    <3>1. {k} \subseteq LitsWithout(fresh) /\ \A A : Model(A, All, units) => \A j \in {k} : Holds(A, j)
      BY <2>3, <2>4, OpenIsThere DEF Sat
    <3>2. QED
      BY <3>1, <2>2, <2>4, UnitsSafe
  <2>5. CASE Rewrite(core \cup {E}, learnts, {})
    <3> HIDE DEF E
    <3>1. QED
      BY <2>2, <2>3, <2>5, RewriteIs, ClauseSafe
  <2>6. QED
    BY <2>1, <2>4, <2>5
<1>3. ASSUME NEW k \in OpenLits, NEW l \in OpenLits, SymmetricPair(k, l) PROVE SafeStep
  <2> DEFINE E == {-k, -l}
  <2>1. ok /\ VarOf(k) # VarOf(l) /\ Follows(E, All)
    BY <1>3 DEF SymmetricPair, Uses
  <2>2. PICK L \in {learnts, {}} : Rewrite(core \cup {E}, L, {})
    BY <1>3 DEF SymmetricPair
  <2>3. k \in Lits /\ l \in Lits /\ -k \in Lits /\ -l \in Lits /\ E \in SUBSET OpenLits
    BY OpenIsThere
  <2>4. Tidy({E})
    <3>1. VarOf(-k) = VarOf(k) /\ -(-l) = l
      BY <2>3, LitFacts
    <3>2. -k # -(-l)
      BY <3>1, <2>1
    <3>3. QED
      BY <3>2, <2>3, PairTidy
  <2> HIDE DEF E
  <2>5. \A A : Model(A, All, units) => Sat(A, E)
    BY <2>1, <2>3, FollowsHolds
  <2>6. L \subseteq core \cup learnts \cup {E}
    OBVIOUS
  <2>7. QED
    BY <2>1, <2>2, <2>3, <2>4, <2>5, <2>6, RewriteIs, ClauseSafe
<1>4. QED
  BY <1>1, <1>2, <1>3 DEF ImpliedNext

-----------------------------------------------------------------------------
(* SimpSolver *)

LEMMA MergedIsOpen ==
    ASSUME WellFormed, NEW v, NEW R \in SUBSET MergedOn(v)
    PROVE  /\ R \subseteq SUBSET OpenLits /\ Tidy(R) /\ \A A : Model(A, All, units) => IsModel(A, R)
<1>1. ASSUME NEW E \in R
      PROVE  E \subseteq OpenLits /\ ~ Tautology(E) /\ \A A : Model(A, All, units) => Sat(A, E)
  <2>1. PICK C \in With(v), D \in With(-v) : E = Resolvent(C, D, v) /\ ~ Tautology(E)
    BY DEF MergedOn
  <2>2. QED
    BY <2>1, ResolventIsOpen
<1>2. QED
  BY <1>1 DEF Tidy, IsModel

LEMMA EliminateVarSafe ==
    ASSUME WellFormed, NEW v, EliminateVar(v)
    PROVE  SafeStep
<1> DEFINE R == {C \in MergedOn(v) : "rcheck" \in start.techniques => ~ ImpliedBy(core, C)}
           K == (core \ (With(v) \cup With(-v))) \cup R
           U == UnitsFrom(core \cup R, units)
<1>1. ok /\ Become(K, learnts, U) /\ fresh' = fresh
  BY DEF EliminateVar, Uses
<1>2. R \in SUBSET MergedOn(v)
  OBVIOUS
<1>3. K \subseteq core \cup learnts \cup R
  OBVIOUS
<1> HIDE DEF R, K
<1>4. R \subseteq SUBSET OpenLits /\ Tidy(R) /\ \A A : Model(A, All, units) => IsModel(A, R)
  BY <1>2, MergedIsOpen
<1> DEFINE F == core \cup R
<1>5. F \subseteq SUBSET OpenLits /\ units \subseteq LitsWithout(fresh)
  BY <1>4 DEF WellFormed
<1>6. F \in Formula /\ units \in SUBSET Lits
  BY <1>5, OpenIsThere DEF Formula, Clause, LitsWithout
<1>7. U \subseteq LitsWithout(fresh)
  <2>1. U \subseteq units \cup UNION F
    BY UnitsFromGrows
  <2> HIDE DEF U, F
  <2>2. UNION F \subseteq LitsWithout(fresh)
    BY <1>5, OpenIsThere
  <2>3. QED
    BY <2>1, <2>2, <1>5
<1>8. ASSUME NEW A, Model(A, All, units) PROVE Model(A, R, U)
  <2>1. Model(A, F, units)
    BY <1>4, <1>8 DEF Model, IsModel, All
  <2>2. \A l \in U : Holds(A, l)
    <3>1. U = UnitsFrom(F, units)
      OBVIOUS
    <3> HIDE DEF U, F
    <3>2. QED
      BY <3>1, <2>1, <1>6, UnitsAreImplied
  <2>3. QED
    BY <2>2, <1>4, <1>8 DEF Model
<1> HIDE DEF U
<1>9. learnts \subseteq core \cup learnts \cup R
  OBVIOUS
<1>10. QED
  BY <1>1, <1>3, <1>4, <1>7, <1>8, <1>9, AddingSafe

LEMMA SimpSafe ==
    ASSUME WellFormed, SimpNext
    PROVE  SafeStep
<1>1. ASSUME NEW C \in core, NEW D \in core, BackwardSubsumed(C, D) PROVE SafeStep
  <2>1. ok
    BY <1>1 DEF BackwardSubsumed, Uses
  <2>2. CASE Rewrite(core \ {D}, learnts, {})
    BY <2>1, <2>2, RewriteIs, RemovingSafe
  <2>3. ASSUME NEW l \in C, -l \in D, C \ {l} \subseteq D, StrengthenClause(D, -l) PROVE SafeStep
    <3> DEFINE E == D \ {-l}
    <3>1. C \in All /\ D \in All /\ l \in Lits
      BY AllIsOpen, OpenIsThere DEF All
    <3>2. ASSUME NEW A, Model(A, All, units) PROVE Sat(A, E)
      <4>1. Sat(A, C) /\ Sat(A, D)
        BY <3>1, <3>2 DEF Model, IsModel
      <4>2. -l \notin C
        BY <3>1 DEF WellFormed, Tidy, Tautology
      <4>3. C \ {l} \subseteq E
        BY <2>3, <4>2
      <4>4. QED
        BY <4>1, <4>3, <3>1, ResolutionHolds
    <3>3. E \subseteq OpenLits /\ Tidy({E})
      BY <3>1, PartTidy
    <3>4. Rewrite((core \ {D}) \cup {E}, learnts, {})
      BY <2>3 DEF StrengthenClause
    <3> HIDE DEF E
    <3>5. QED
      BY <2>1, <3>2, <3>3, <3>4, RewriteIs, ClauseSafe
  <2>4. QED
    BY <1>1, <2>2, <2>3 DEF BackwardSubsumed
<1>2. ASSUME NEW C \in core, NEW l \in C, Asymmetric(C, l) PROVE SafeStep
  <2> DEFINE E == C \ {l}
  <2>1. ok /\ FailsWith(core, UnitsFrom(core, units \cup Negated(E))) /\ Rewrite((core \ {C}) \cup {E}, learnts, {})
    BY <1>2 DEF Asymmetric, Uses, StrengthenClause
  <2>2. C \in All /\ E \in SUBSET C
    BY DEF All
  <2> HIDE DEF E
  <2>3. E \subseteq OpenLits /\ Tidy({E}) /\ E \in SUBSET Lits
    BY <2>2, PartTidy, OpenIsThere
  <2>4. core \in Formula /\ units \in SUBSET Lits
    BY AllIsOpen
  <2>5. ASSUME NEW A, Model(A, All, units) PROVE Sat(A, E)
    <3>1. Model(A, core, units)
      BY <2>5 DEF Model, IsModel, All
    <3>2. QED
      BY <3>1, <2>1, <2>3, <2>4, RefutedHolds
  <2>6. QED
    BY <2>1, <2>3, <2>5, RewriteIs, ClauseSafe
<1>3. QED
  BY <1>1, <1>2, EliminateVarSafe DEF SimpNext

-----------------------------------------------------------------------------
(* Gates *)

LEMMA EqualSafe ==
    ASSUME WellFormed, ok, NEW k \in Lits, NEW l \in Lits, Equal(k, l),
           \A A : Model(A, All, units) => (Holds(A, k) <=> Holds(A, l))
    PROVE  SafeStep
<1>1. CASE k = -l
  <2>1. Fail
    BY <1>1 DEF Equal
  <2>2. \A A : ~ Model(A, All, units)
    BY <1>1, LitFacts, HoldsFlip
  <2>3. QED
    BY <2>1, <2>2, FailSafe
<1>2. CASE k # -l
  <2> DEFINE X == {k, l}
  <2>1. Apply(Unfrozen(X)) /\ X \in SUBSET Lits
    BY <1>2 DEF Equal
  <2>2. Same(X)
    BY DEF Same
  <2> HIDE DEF X
  <2>3. QED
    BY <2>1, <2>2, SamePart, ApplySafe
<1>3. QED
  BY <1>1, <1>2

LEMMA GenAndGateHolds ==
    ASSUME WellFormed, NEW g \in GenAndGates
    PROVE  g.out \in Lits /\ \A A : Model(A, All, units) => IsAnd(A, g)
<1>1. PICK y \in All \X OpenLits :
        /\ g = [out |-> y[2], in |-> Negated(y[1] \ {y[2]})]
        /\ y[2] \in y[1] /\ Negated(y[1] \ {y[2]}) \subseteq Reaches(All, y[2])
  BY DEF GenAndGates
<1> DEFINE C == y[1]
<1>2. C \in All /\ g.out \in OpenLits /\ g.out \in C /\ g.in = Negated(C \ {g.out}) /\ g.in \subseteq Reaches(All, g.out)
  BY <1>1
<1> HIDE DEF C
<1>3. g.out \in Lits /\ C \subseteq Lits
  BY <1>2, AllIsOpen, OpenIsThere
<1>4. ASSUME NEW A, Model(A, All, units) PROVE IsAnd(A, g)
  <2>1. IsModel(A, All) /\ Sat(A, C)
    BY <1>2, <1>4 DEF Model, IsModel
  <2>2. Holds(A, g.out) => \A k \in g.in : Holds(A, k)
    BY <2>1, <1>2, <1>3, ReachesMeans
  <2>3. ASSUME \A k \in g.in : Holds(A, k) PROVE Holds(A, g.out)
    <3>1. PICK k \in C : Holds(A, k)
      BY <2>1 DEF Sat
    <3>2. CASE k # g.out
      <4>1. -k \in g.in /\ k \in Lits
        BY <3>2, <1>2, <1>3 DEF Negated
      <4>2. QED
        BY <4>1, <3>1, <2>3, LitFacts, HoldsFlip
    <3>3. QED
      BY <3>1, <3>2
  <2>4. QED
    BY <2>2, <2>3 DEF IsAnd
<1>5. QED
  BY <1>3, <1>4

LEMMA GatesSafe ==
    ASSUME WellFormed, {"exactly one", "ite", "parity"} \cap start.techniques = {}, GatesNext
    PROVE  SafeStep
<1>1. ASSUME NEW g, NEW h, g.out \in Lits, h.out \in Lits, g.in = h.in, Equal(g.out, h.out), ok,
             \A A : Model(A, All, units) => IsAnd(A, g) /\ IsAnd(A, h)
      PROVE  SafeStep
  <2>1. \A A : Model(A, All, units) => (Holds(A, g.out) <=> Holds(A, h.out))
    BY <1>1 DEF IsAnd
  <2>2. QED
    BY <1>1, <2>1, EqualSafe
<1>2. ASSUME NEW g \in AndGates, NEW h \in AndGates, Uses("and"), AndGate(g, h) PROVE SafeStep
  BY <1>1, <1>2, UsesMeans, AndGateHolds, OpenIsThere DEF AndGate
<1>3. ASSUME NEW g \in GenAndGates, NEW h \in GenAndGates, Uses("and"), GenAndGate(g, h) PROVE SafeStep
  BY <1>1, <1>3, UsesMeans, GenAndGateHolds DEF GenAndGate
<1>4. ~ Uses("exactly one") /\ ~ Uses("ite") /\ ~ Uses("parity")
  BY DEF Uses
<1>5. QED
  BY <1>2, <1>3, <1>4 DEF GatesNext

-----------------------------------------------------------------------------
(* Learnt clauses *)

LEMMA OthersFacts ==
    ASSUME WellFormed, NEW C
    PROVE  /\ Others(C) \in Formula /\ units \in SUBSET Lits
           /\ \A A : Model(A, All, units) => Model(A, Others(C), units)
<1>1. Others(C) \in SUBSET All
  BY DEF Others, All
<1>2. QED
  BY <1>1, SomeAreFormula, AllIsOpen

\* What the trail shows about a clause without it.
LEMMA RemainsHolds ==
    ASSUME WellFormed, NEW C \in All, NEW D \in SUBSET C, Remains(C, D), NEW A, Model(A, All, units)
    PROVE  Sat(A, D)
<1> DEFINE F == Others(C)
<1>1. F \in Formula /\ units \in SUBSET Lits /\ Model(A, F, units)
  BY OthersFacts
<1>2. C \in SUBSET Lits /\ D \in SUBSET Lits /\ Sat(A, C)
  BY AllIsOpen, OpenIsThere DEF Model, IsModel
<1>3. \/ FailsWith(F, UnitsFrom(F, units \cup Negated(D)))
      \/ Negated(C \ D) \subseteq UnitsFrom(F, units \cup Negated(D))
  BY DEF Remains, Against
<1> HIDE DEF F
<1>4. QED
  BY <1>1, <1>2, <1>3, RefutedHolds, VivifiedHolds

LEMMA ShorterLearntSafe ==
    ASSUME WellFormed, NEW C \in learnts, NEW D \in SUBSET C,
           MinimizeLearnt(C, D) \/ InterleavedStrengthening(C, D)
    PROVE  SafeStep
<1>1. C \in All /\ ok /\ Remains(C, D)
  BY DEF All, MinimizeLearnt, InterleavedStrengthening, Uses
<1>2. D \subseteq OpenLits /\ Tidy({D})
  BY <1>1, PartTidy
<1>3. \A A : Model(A, All, units) => Sat(A, D)
  BY <1>1, RemainsHolds
<1>4. CASE MinimizeLearnt(C, D)
  <2>1. Rewrite(core, (learnts \ {C}) \cup {D}, {})
    BY <1>4 DEF MinimizeLearnt, Relearn
  <2>2. QED
    BY <2>1, <1>1, <1>2, <1>3, RewriteIs, ClauseSafe
<1>5. CASE InterleavedStrengthening(C, D)
  <2> DEFINE L == (learnts \ {C}) \cup {IF Negated(C \ D) \cap Against(Others(C), D) = {} THEN C ELSE D}
  <2>1. Rewrite(core, L, {}) \/ \E E \in Learnable(C, D) : Rewrite(core, L \cup {E}, {})
    BY <1>5 DEF InterleavedStrengthening
  <2>2. L \subseteq core \cup learnts \cup {D}
    OBVIOUS
  <2> HIDE DEF L
  <2>3. CASE Rewrite(core, L, {})
    BY <2>2, <2>3, <1>1, <1>2, <1>3, RewriteIs, ClauseSafe
  <2>4. ASSUME NEW E \in Learnable(C, D), Rewrite(core, L \cup {E}, {}) PROVE SafeStep
    <3> DEFINE N == {D, E}
               F == Others(C)
    <3>1. E \subseteq OpenLits /\ ~ Tautology(E) /\ FailsWith(F, UnitsFrom(F, units \cup Negated(E)))
      BY DEF Learnable, Against
    <3>2. N \subseteq SUBSET OpenLits /\ Tidy(N)
      BY <3>1, <1>2 DEF Tidy
    <3>3. ASSUME NEW A, Model(A, All, units) PROVE Sat(A, E)
      <4>1. F \in Formula /\ units \in SUBSET Lits /\ Model(A, F, units)
        BY <3>3, OthersFacts
      <4>2. E \in SUBSET Lits
        BY <3>1, OpenIsThere
      <4> HIDE DEF F
      <4>3. QED
        BY <4>1, <4>2, <3>1, RefutedHolds
    <3>4. \A A : Model(A, All, units) => Model(A, N, {})
      BY <3>3, <1>3 DEF Model, IsModel
    <3>5. core \subseteq core \cup learnts \cup N /\ L \cup {E} \subseteq core \cup learnts \cup N
      BY <2>2
    <3>6. Become(core, L \cup {E}, {}) /\ fresh' = fresh
      BY <2>4, RewriteIs
    <3> HIDE DEF N
    <3> DEFINE U == {}
               M == L \cup {E}
    <3>7. U \subseteq LitsWithout(fresh) /\ Become(core, M, U) /\ M \subseteq core \cup learnts \cup N
          /\ \A A : Model(A, All, units) => Model(A, N, U)
      BY <3>4, <3>5, <3>6
    <3> HIDE DEF U, M
    <3>8. QED
      BY <3>2, <3>5, <3>6, <3>7, <1>1, AddingSafe
  <2>5. QED
    BY <2>1, <2>3, <2>4
<1>6. QED
  BY <1>4, <1>5

LEMMA LearntHiddenSafe ==
    ASSUME WellFormed, NEW C \in learnts, NEW first, LearntHidden(C, first)
    PROVE  SafeStep
<1>1. PICK l \in C : Reaches(All, l) \cap (C \ {l}) # {} /\ Relearn(C, C \ {l})
  BY DEF LearntHidden
<1> DEFINE E == C \ {l}
<1>2. PICK i \in E : i \in Reaches(All, l)
  BY <1>1
<1>3. C \in All /\ l \in Lits /\ ok
  BY AllIsOpen, OpenIsThere DEF All, LearntHidden, Uses
<1>4. E \subseteq OpenLits /\ Tidy({E})
  BY <1>3, PartTidy
<1>5. ASSUME NEW A, Model(A, All, units) PROVE Sat(A, E)
  <2>1. IsModel(A, All) /\ Sat(A, C)
    BY <1>3, <1>5 DEF Model, IsModel
  <2>2. QED
    BY <2>1, <1>2, <1>3, HiddenLiteralHolds
<1>6. Rewrite(core, (learnts \ {C}) \cup {E}, {})
  BY <1>1 DEF Relearn
<1> HIDE DEF E
<1>7. QED
  BY <1>3, <1>4, <1>5, <1>6, RewriteIs, ClauseSafe

LEMMA OnTheFlySafe ==
    ASSUME WellFormed, NEW C \in All, NEW l \in C, OnTheFly(C, l)
    PROVE  SafeStep
<1> DEFINE E == C \ {l}
           In(F) == IF C \in F THEN (F \ {C}) \cup {E} ELSE F
<1>1. ok /\ FailsWith(All, UnitsFrom(All, units \cup Negated(E))) /\ Rewrite(In(core), In(learnts), {})
  BY DEF OnTheFly, Uses, Against
<1>2. E \subseteq OpenLits /\ Tidy({E})
  BY PartTidy
<1>3. In(core) \subseteq core \cup learnts \cup {E} /\ In(learnts) \subseteq core \cup learnts \cup {E}
  OBVIOUS
<1> HIDE DEF E, In
<1>4. E \in SUBSET Lits /\ All \in Formula /\ units \in SUBSET Lits
  BY <1>2, OpenIsThere, AllIsOpen
<1>5. \A A : Model(A, All, units) => Sat(A, E)
  BY <1>1, <1>4, RefutedHolds
<1>6. QED
  BY <1>1, <1>2, <1>3, <1>5, RewriteIs, ClauseSafe

LEMMA ImpliedByLiteral ==
    ASSUME NEW k \in Lits, NEW l, Implies(All, k, l), NEW A, Model(A, All, units), Holds(A, k)
    PROVE  Holds(A, l)
<1>1. Sat(A, {-k, l})
  BY DEF Implies, Model, IsModel
<1>2. ~ Holds(A, -k)
  BY LitFacts, HoldsFlip
<1>3. QED
  BY <1>1, <1>2 DEF Sat

LEMMA AnalyzeLearntSafe ==
    ASSUME WellFormed, NEW C \in learnts, AnalyzeLearnt(C)
    PROVE  SafeStep
<1> DEFINE Couples == {q \in C \X C : q[1] # q[2]}
<1>1. ok
  BY DEF AnalyzeLearnt, Uses
<1>2. PICK U : /\ Rewrite(core, learnts, U)
               /\ U \subseteq IF Cardinality(C) > 2 THEN Shared(C) ELSE UNION {Backbones(p[1], p[2]) : p \in Couples}
  BY DEF AnalyzeLearnt
<1>3. C \in All /\ C \subseteq Lits /\ C \subseteq OpenLits /\ Cardinality(C) > 1
  <2>1. C \in All
    BY DEF All
  <2>2. QED
    BY <2>1, AllIsOpen, OpenIsThere DEF WellFormed
<1>4. CASE Cardinality(C) > 2
  <2>1. U \subseteq Shared(C)
    BY <1>2, <1>4
  <2>2. ASSUME NEW A, Model(A, All, units), NEW l \in U PROVE Holds(A, l)
    <3>1. PICK k \in C : Holds(A, k)
      BY <1>3, <2>2 DEF Model, IsModel, Sat
    <3>2. Implies(All, k, l)
      BY <2>1 DEF Shared, Successors
    <3>3. QED
      BY <3>1, <3>2, <2>2, <1>3, ImpliedByLiteral
  <2>3. U \subseteq LitsWithout(fresh)
    BY <2>1, OpenIsThere DEF Shared
  <2>4. QED
    BY <2>2, <2>3, <1>1, <1>2, UnitsSafe
<1>5. CASE ~ Cardinality(C) > 2
  <2>1. U \subseteq UNION {Backbones(p[1], p[2]) : p \in Couples}
    BY <1>2, <1>5
  <2>2. IsFiniteSet(C) /\ Cardinality(C) = 2
    <3>1. IsFiniteSet(C) /\ Cardinality(C) \in Nat
      BY <1>3, LitsAreFinite, FS_CardinalityType
    <3>2. QED
      BY <3>1, <1>3, <1>5
  <2>3. ASSUME NEW l \in U PROVE \E a, b \in C : a # b /\ l \in Backbones(a, b)
    <3>1. PICK p \in Couples : l \in Backbones(p[1], p[2])
      BY <2>1, <2>3
    <3>2. QED
      BY <3>1
  <2>4. U \subseteq LitsWithout(fresh)
    BY <2>3, <1>3, OpenIsThere DEF Backbones, Successors
  <2>5. ASSUME NEW A, Model(A, All, units), NEW l \in U PROVE Holds(A, l)
    <3>1. PICK a, b \in C : a # b /\ l \in Backbones(a, b)
      BY <2>3, <2>5
    <3>2. Holds(A, a) \/ Holds(A, b)
      <4>1. PICK x : C \ {a} = {x}
        BY <2>2, <3>1, TheOther
      <4>2. C = {a, b}
        BY <4>1, <3>1
      <4>3. QED
        BY <4>2, <1>3, <2>5 DEF Model, IsModel, Sat
    <3>3. CASE Holds(A, b)
      <4>1. l = b \/ Implies(All, b, l)
        BY <3>1 DEF Backbones, Successors
      <4>2. QED
        BY <4>1, <3>1, <3>3, <2>5, <1>3, ImpliedByLiteral
    <3>4. CASE Holds(A, a)
      <4>1. PICK k \in {a} \cup Successors(a) : l \in Reaches(All, k)
        BY <3>1 DEF Backbones
      <4>2. k \in Lits /\ (k = a \/ Implies(All, a, k))
        BY <4>1, <3>1, <1>3, OpenIsThere DEF Successors
      <4>3. Holds(A, k)
        BY <4>2, <3>1, <3>4, <2>5, <1>3, ImpliedByLiteral
      <4>4. QED
        BY <4>1, <4>2, <4>3, <2>5, ReachesMeans DEF Model
    <3>5. QED
      BY <3>2, <3>3, <3>4
  <2>6. QED
    BY <2>4, <2>5, <1>1, <1>2, UnitsSafe
<1>6. QED
  BY <1>4, <1>5

\* A trial under decisions that hold.
LEMMA TrialHolds ==
    ASSUME WellFormed, NEW D \in SUBSET OpenLits, NEW A, Model(A, All, units), \A l \in D : Holds(A, l)
    PROVE  ~ FailsTrial(D) /\ \A l \in Trial(D) : Holds(A, l)
<1> DEFINE W == units \cup D
<1>1. W \in SUBSET Lits /\ All \in Formula /\ Model(A, All, W)
  BY AllIsOpen, OpenIsThere DEF Model
<1> HIDE DEF W
<1>2. Model(A, All, UnitsFrom(All, W)) /\ ~ FailsWith(All, UnitsFrom(All, W))
  BY <1>1, PropagatedModels
<1>3. QED
  BY <1>2 DEF W, FailsTrial, Trial, Model

LEMMA TrialIsThere ==
    ASSUME WellFormed, NEW D \in SUBSET OpenLits
    PROVE  Trial(D) \subseteq LitsWithout(fresh)
<1>1. Trial(D) \subseteq (units \cup D) \cup UNION All
  BY UnitsFromGrows DEF Trial
<1>2. UNION All \subseteq OpenLits /\ units \subseteq LitsWithout(fresh)
  BY AllIsOpen DEF WellFormed
<1>3. QED
  BY <1>1, <1>2, OpenIsThere

LEMMA ProbeVariableSafe ==
    ASSUME WellFormed, NEW v \in Open, ProbeVariable(v)
    PROVE  SafeStep
<1> DEFINE P == {v}
           N == {-v}
<1>1. ok
  BY DEF ProbeVariable, Uses
<1>2. v \in OpenLits /\ -v \in OpenLits /\ P \in SUBSET OpenLits /\ N \in SUBSET OpenLits
      /\ \A A : Holds(A, -v) <=> ~ Holds(A, v)
  BY OpenVars
<1>3. P \subseteq LitsWithout(fresh) /\ N \subseteq LitsWithout(fresh)
  BY <1>2, OpenIsThere
<1>4. \/ FailsTrial(P) /\ Rewrite(core, learnts, N)
      \/ FailsTrial(N) /\ Rewrite(core, learnts, P)
      \/ Rewrite(core, learnts, Trial(P) \cap Trial(N))
  BY DEF ProbeVariable
<1>5. \A A : /\ (\A l \in P : Holds(A, l)) <=> Holds(A, v)
             /\ (\A l \in N : Holds(A, l)) <=> Holds(A, -v)
  OBVIOUS
<1> HIDE DEF P, N
<1>6. ASSUME NEW A, Model(A, All, units)
      PROVE  /\ Holds(A, v) => ~ FailsTrial(P) /\ \A l \in Trial(P) : Holds(A, l)
             /\ Holds(A, -v) => ~ FailsTrial(N) /\ \A l \in Trial(N) : Holds(A, l)
  BY <1>2, <1>5, <1>6, TrialHolds
<1>7. CASE FailsTrial(P) /\ Rewrite(core, learnts, N)
  BY <1>1, <1>2, <1>3, <1>5, <1>6, <1>7, UnitsSafe
<1>8. CASE FailsTrial(N) /\ Rewrite(core, learnts, P)
  BY <1>1, <1>2, <1>3, <1>5, <1>6, <1>8, UnitsSafe
<1>9. CASE Rewrite(core, learnts, Trial(P) \cap Trial(N))
  <2>1. Trial(P) \cap Trial(N) \subseteq LitsWithout(fresh)
    BY <1>2, TrialIsThere
  <2>2. \A A : Model(A, All, units) => \A l \in Trial(P) \cap Trial(N) : Holds(A, l)
    BY <1>2, <1>6
  <2>3. QED
    BY <2>1, <2>2, <1>1, <1>9, UnitsSafe
<1>10. QED
  BY <1>4, <1>7, <1>8, <1>9

\* The combination of the decisions that a model chooses.
Chosen(A, D) == {l \in D : Holds(A, l)} \cup Negated({l \in D : ~ Holds(A, l)})

LEMMA ChosenIsPossible ==
    ASSUME WellFormed, NEW D \in SUBSET OpenLits, ~ Tautology(D), NEW A, Model(A, All, units)
    PROVE  /\ Chosen(A, D) \in Possible(D) /\ \A l \in Trial(Chosen(A, D)) : Holds(A, l)
           /\ \A d \in D : d \in Chosen(A, D) <=> Holds(A, d)
<1> DEFINE S == {l \in D : ~ Holds(A, l)}
           F == Chosen(A, D)
<1>1. \A l \in D : l \in Lits /\ -l \in OpenLits /\ -(-l) = l /\ (Holds(A, -l) <=> ~ Holds(A, l))
  BY OpenIsThere, LitFacts, HoldsFlip
<1>2. F = (D \ S) \cup Negated(S) /\ S \in SUBSET D
  BY DEF Chosen
<1>3. F \in Combinations(D)
  BY <1>2 DEF Combinations
<1>4. F \in SUBSET OpenLits /\ \A l \in F : Holds(A, l)
  BY <1>1 DEF Chosen, Negated
<1>5. \A d \in D : d \in F <=> Holds(A, d)
  <2>1. ASSUME NEW d \in D, d \in F PROVE Holds(A, d)
    BY <1>4, <2>1
  <2>2. ASSUME NEW d \in D, Holds(A, d) PROVE d \in F
    BY <2>2 DEF Chosen
  <2>3. QED
    BY <2>1, <2>2
<1> HIDE DEF F
<1>6. ~ FailsTrial(F) /\ \A l \in Trial(F) : Holds(A, l)
  BY <1>4, TrialHolds
<1>7. F \in Possible(D)
  BY <1>3, <1>6 DEF Possible
<1>8. QED
  BY <1>5, <1>6, <1>7 DEF F

LEMMA LookAheadSafe ==
    ASSUME WellFormed, NEW D \in SUBSET OpenLits, LookAhead(D)
    PROVE  SafeStep
<1> DEFINE Equivalent == UNION {UNION {{{-d, l}, {d, -l}} : l \in Follow(D, d)} : d \in D}
           U == InAll(D)
<1>1. ok /\ ~ Tautology(D)
  BY DEF LookAhead, Uses
<1>2. \/ Rewrite(core, learnts, U)
      \/ Rewrite(core \cup Equivalent, learnts, U)
      \/ Rewrite(core, learnts \cup Equivalent, U)
  BY DEF LookAhead
<1>3. ASSUME NEW d \in D, NEW l \in Follow(D, d)
      PROVE  /\ {-d, l} \subseteq OpenLits /\ {d, -l} \subseteq OpenLits
             /\ ~ Tautology({-d, l}) /\ ~ Tautology({d, -l})
             /\ \A A : Model(A, All, units) => Sat(A, {-d, l}) /\ Sat(A, {d, -l})
  <2>1. /\ l \in OpenLits /\ VarOf(l) # VarOf(d)
        /\ \A F \in Possible(D) : (IF d \in F THEN l ELSE -l) \in Trial(F)
    BY DEF Follow
  <2>2. /\ d \in Lits /\ l \in Lits /\ -d \in OpenLits /\ -l \in OpenLits /\ -d \in Lits /\ -l \in Lits
        /\ VarOf(-d) = VarOf(d) /\ VarOf(-l) = VarOf(l) /\ -(-l) = l
    BY <2>1, OpenIsThere, LitFacts
  <2>3. Tidy({{-d, l}}) /\ Tidy({{d, -l}})
    BY <2>1, <2>2, PairTidy
  <2>4. ASSUME NEW A, Model(A, All, units) PROVE Sat(A, {-d, l}) /\ Sat(A, {d, -l})
    <3>1. /\ Chosen(A, D) \in Possible(D) /\ \A k \in Trial(Chosen(A, D)) : Holds(A, k)
          /\ d \in Chosen(A, D) <=> Holds(A, d)
      BY <1>1, <2>4, ChosenIsPossible
    <3>2. Holds(A, IF d \in Chosen(A, D) THEN l ELSE -l)
      BY <3>1, <2>1
    <3>3. (Holds(A, -d) <=> ~ Holds(A, d)) /\ (Holds(A, -l) <=> ~ Holds(A, l))
      BY <2>2, LitFacts, HoldsFlip
    <3>4. QED
      BY <3>1, <3>2, <3>3 DEF Sat
  <2>5. QED
    BY <2>1, <2>2, <2>3, <2>4 DEF Tidy
<1>4. /\ Equivalent \subseteq SUBSET OpenLits /\ Tidy(Equivalent)
      /\ \A A : Model(A, All, units) => IsModel(A, Equivalent)
  <2>1. ASSUME NEW C \in Equivalent
        PROVE  \E d \in D : \E l \in Follow(D, d) : C = {-d, l} \/ C = {d, -l}
    OBVIOUS
  <2> HIDE DEF Equivalent
  <2>2. ASSUME NEW C \in Equivalent
        PROVE  C \subseteq OpenLits /\ ~ Tautology(C) /\ \A A : Model(A, All, units) => Sat(A, C)
    <3>1. PICK d \in D : \E l \in Follow(D, d) : C = {-d, l} \/ C = {d, -l}
      BY <2>1
    <3>2. PICK l \in Follow(D, d) : C = {-d, l} \/ C = {d, -l}
      BY <3>1
    <3>3. CASE C = {-d, l}
      BY <3>3, <1>3
    <3>4. CASE C = {d, -l}
      BY <3>4, <1>3
    <3>5. QED
      BY <3>2, <3>3, <3>4
  <2>3. QED
    BY <2>2 DEF Tidy, IsModel
<1>5. ASSUME NEW A, Model(A, All, units) PROVE \A l \in U : Holds(A, l)
  <2>1. Chosen(A, D) \in Possible(D) /\ \A k \in Trial(Chosen(A, D)) : Holds(A, k)
    BY <1>1, <1>5, ChosenIsPossible
  <2>2. QED
    BY <2>1 DEF InAll
<1>6. U \subseteq LitsWithout(fresh)
  BY OpenIsThere DEF InAll
<1> HIDE DEF Equivalent, U
<1>7. CASE Rewrite(core, learnts, U)
  BY <1>1, <1>5, <1>6, <1>7, UnitsSafe
<1>8. \A A : Model(A, All, units) => Model(A, Equivalent, U)
  BY <1>4, <1>5 DEF Model
<1>9. CASE Rewrite(core \cup Equivalent, learnts, U)
  <2>1. core \cup Equivalent \subseteq core \cup learnts \cup Equivalent /\ learnts \subseteq core \cup learnts \cup Equivalent
    OBVIOUS
  <2>2. QED
    BY <2>1, <1>1, <1>4, <1>6, <1>8, <1>9, RewriteIs, AddingSafe
<1>10. CASE Rewrite(core, learnts \cup Equivalent, U)
  <2>1. core \subseteq core \cup learnts \cup Equivalent /\ learnts \cup Equivalent \subseteq core \cup learnts \cup Equivalent
    OBVIOUS
  <2>2. QED
    BY <2>1, <1>1, <1>4, <1>6, <1>8, <1>10, RewriteIs, AddingSafe
<1>11. QED
  BY <1>2, <1>7, <1>9, <1>10

LEMMA LearntNextSafe ==
    ASSUME WellFormed, "rer" \notin start.techniques, LearntNext
    PROVE  SafeStep
<1>1. ASSUME NEW C \in learnts, Forget(C) PROVE SafeStep
  <2>1. ok /\ Rewrite(core, learnts \ {C}, {})
    BY <1>1 DEF Forget, Uses
  <2>2. QED
    BY <2>1, RewriteIs, RemovingSafe
<1>2. \A C, D : ~ ExtendedResolution(C, D)
  BY DEF ExtendedResolution, Uses
<1>3. \A C \in learnts : \A D \in (SUBSET C) \ {{}} : D \in SUBSET C
  OBVIOUS
<1>4. QED
  BY <1>1, <1>2, <1>3, ShorterLearntSafe, LearntHiddenSafe, OnTheFlySafe, AnalyzeLearntSafe, ProbeVariableSafe,
     LookAheadSafe DEF LearntNext

-----------------------------------------------------------------------------
(* Variable addition *)

LEMMA NextFreshIsFresh ==
    ASSUME WellFormed, fresh # {}
    PROVE  NextFreshVariable \in fresh
<1>1. fresh \in SUBSET Nat
  BY VarsAssumption DEF WellFormed
<1>2. \E n \in fresh : \A m \in fresh : n <= m
  BY <1>1, LeastOfNat
<1>3. QED
  BY <1>2 DEF NextFreshVariable

\* Clauses P with x and clauses Q with its complement come in: x is true in a model of Q,
\* and false in one of P.
Marked(P, Q, x) == {C \cup {x} : C \in P} \cup {C \cup {-x} : C \in Q}
Exchanged(S, K, L, x) == Exchange(S, K, L, {x})

LEMMA ExchangeSafe ==
    ASSUME WellFormed, ok, NEW x \in fresh, NEW S, NEW K, NEW L, Exchanged(S, K, L, x), NEW P, NEW Q,
           P \subseteq SUBSET OpenLits, Q \subseteq SUBSET OpenLits, Tidy(P), Tidy(Q),
           K \subseteq Marked(P, Q, x),
           L \subseteq Marked(P, Q, x),
           \A A \in SUBSET (Vars \ fresh) : Model(A, All, units) => IsModel(A, P) \/ IsModel(A, Q)
    PROVE  SafeStep
<1> DEFINE N == {C \cup {x} : C \in P} \cup {C \cup {-x} : C \in Q}
           KF == (core \ S) \cup K
           LF == (learnts \ S) \cup L
<1>1. Become(KF, LF, {}) /\ fresh' = fresh \ {x}
  BY DEF Exchange, Exchanged
<1>2. x \in Vars /\ x \in Nat /\ x # 0 /\ x \in Lits /\ -x \in Lits /\ VarOf(x) = x /\ VarOf(-x) = x
  BY VarsAssumption, LitFacts DEF WellFormed, Lits, VarOf
<1>3. \A l \in OpenLits : l \in Lits /\ VarOf(l) \notin fresh /\ VarOf(l) # x /\ l # x /\ l # -x /\ -l # x /\ -l # -x
  <2>1. \A l \in OpenLits : l \in Lits /\ VarOf(l) \notin fresh
    BY OpenIsThere DEF LitsWithout
  <2>2. ASSUME NEW l \in OpenLits PROVE VarOf(l) # x /\ l # x /\ l # -x /\ -l # x /\ -l # -x
    <3>1. l \in Lits /\ VarOf(l) # x
      BY <2>1
    <3>2. VarOf(-l) = VarOf(l)
      BY <3>1, LitFacts
    <3>3. QED
      BY <3>1, <3>2, <1>2
  <2>3. QED
    BY <2>1, <2>2
<1>4. LitsWithout(fresh) \subseteq LitsWithout(fresh') /\ x \in LitsWithout(fresh') /\ -x \in LitsWithout(fresh')
  BY <1>1, <1>2 DEF LitsWithout
<1>5. N \subseteq SUBSET LitsWithout(fresh')
  BY <1>4, OpenIsThere
<1>6. Tidy(N)
  <2>1. ASSUME NEW C, C \subseteq OpenLits, ~ Tautology(C) PROVE ~ Tautology(C \cup {x}) /\ ~ Tautology(C \cup {-x})
    <3>1. -(-x) = x /\ x # -x
      BY <1>2
    <3>2. QED
      BY <2>1, <3>1, <1>3 DEF Tautology
  <2>2. ASSUME NEW E \in N PROVE ~ Tautology(E)
    BY <2>1 DEF Tidy
  <2>3. QED
    BY <2>2 DEF Tidy
<1>7. KF \cup LF \subseteq All \cup N
  BY DEF All, Marked
<1> HIDE DEF KF, LF
<1>8. KF \subseteq SUBSET LitsWithout(fresh') /\ LF \subseteq SUBSET LitsWithout(fresh')
  <2>1. All \subseteq SUBSET LitsWithout(fresh')
    BY <1>4, AllIsOpen, OpenIsThere
  <2> HIDE DEF N
  <2>2. QED
    BY <2>1, <1>5, <1>7
<1>9. Tidy(KF \cup LF)
  BY <1>6, <1>7 DEF Tidy, WellFormed
<1>10. ASSUME NEW A \in SUBSET (Vars \ fresh), Model(A, All, units)
       PROVE  Allowed(A, KF \cup LF, units \cup {}, fresh')
  <2>1. ASSUME NEW B \in SUBSET (Vars \ fresh'), Agree(A, B), IsModel(B, N),
               \A l \in LitsWithout(fresh) : Holds(A, l) <=> Holds(B, l)
        PROVE  Allowed(A, KF \cup LF, units \cup {}, fresh')
    <3>1. IsModel(B, All)
      BY <2>1, <1>10, AllIsOpen, OpenIsThere DEF Model, IsModel, Sat
    <3>2. \A l \in units : Holds(B, l)
      BY <2>1, <1>10 DEF Model, WellFormed
    <3> HIDE DEF N
    <3>3. Model(B, KF \cup LF, units \cup {})
      BY <3>1, <3>2, <2>1, <1>7 DEF Model, IsModel
    <3>4. QED
      BY <3>3, <2>1 DEF Allowed
  <2>2. CASE IsModel(A, P)
    <3>1. Holds(A, -x)
      <4>1. x \notin A /\ -(-x) = x /\ ~ (-x > 0)
        BY <1>2
      <4>2. QED
        BY <4>1 DEF Holds
    <3>2. IsModel(A, N)
      <4>1. ASSUME NEW E \in N PROVE Sat(A, E)
        <5>1. CASE \E C \in P : E = C \cup {x}
          BY <5>1, <2>2 DEF IsModel, Sat
        <5>2. CASE \E C \in Q : E = C \cup {-x}
          BY <5>2, <3>1 DEF Sat
        <5>3. QED
          BY <5>1, <5>2
      <4>2. QED
        BY <4>1 DEF IsModel
    <3>3. A \in SUBSET (Vars \ fresh') /\ Agree(A, A)
      BY <1>1 DEF Agree
    <3>4. QED
      BY <3>2, <3>3, <2>1
  <2>3. CASE IsModel(A, Q)
    <3> DEFINE B == A \cup {x}
    <3>1. B \in SUBSET (Vars \ fresh') /\ Agree(A, B)
      <4>1. x \notin start.frozen
        BY DEF WellFormed
      <4>2. QED
        BY <4>1, <1>1, <1>2 DEF Agree
    <3>2. ASSUME NEW l \in LitsWithout(fresh) PROVE Holds(A, l) <=> Holds(B, l)
      <4>1. l \in Lits /\ VarOf(l) # x
        BY DEF LitsWithout
      <4>2. QED
        BY <4>1 DEF Holds, VarOf
    <3>3. Holds(B, x)
      BY <1>2 DEF Holds
    <3> HIDE DEF B
    <3>4. IsModel(B, N)
      <4>1. ASSUME NEW E \in N PROVE Sat(B, E)
        <5>1. CASE \E C \in P : E = C \cup {x}
          BY <5>1, <3>3 DEF Sat
        <5>2. CASE \E C \in Q : E = C \cup {-x}
          <6>1. PICK C \in Q : E = C \cup {-x}
            BY <5>2
          <6>2. Sat(A, C) /\ C \subseteq LitsWithout(fresh)
            BY <2>3, OpenIsThere DEF IsModel
          <6>3. QED
            BY <6>1, <6>2, <3>2 DEF Sat
        <5>3. QED
          BY <5>1, <5>2
      <4>2. QED
        BY <4>1 DEF IsModel
    <3>5. QED
      BY <3>1, <3>2, <3>4, <2>1
  <2>4. QED
    BY <2>2, <2>3, <1>10
<1> DEFINE U == {}
<1>11. /\ U \subseteq LitsWithout(fresh') /\ Become(KF, LF, U)
       /\ \A A \in SUBSET (Vars \ fresh) : Model(A, All, units) => Allowed(A, KF \cup LF, units \cup U, fresh')
  BY <1>1, <1>10
<1>12. fresh' \in SUBSET fresh
  BY <1>1
<1> HIDE DEF U
<1>13. QED
  BY <1>8, <1>9, <1>11, <1>12, BecomeSafe

\* The same when x stands for all rows.
LEMMA ReplaceSafe ==
    ASSUME WellFormed, ok, NEW x \in fresh, NEW rows, NEW Q, NEW definition, Replace(x, rows, definition),
           definition \subseteq {C \cup {-x} : C \in Q},
           DOMAIN rows \subseteq SUBSET OpenLits, Q \subseteq SUBSET OpenLits, Tidy(DOMAIN rows), Tidy(Q),
           \A A \in SUBSET (Vars \ fresh) : Model(A, All, units) => IsModel(A, DOMAIN rows) \/ IsModel(A, Q)
    PROVE  SafeStep
<1> DEFINE P == DOMAIN rows
           S == UNION {rows[r] : r \in DOMAIN rows}
           K == {r \cup {x} : r \in {s \in DOMAIN rows : OfCore(rows[s])}} \cup definition
           L == {r \cup {x} : r \in {s \in DOMAIN rows : ~ OfCore(rows[s])}}
<1>1. Exchanged(S, K, L, x)
  BY DEF Replace, Exchanged
<1>2. K \subseteq Marked(P, Q, x) /\ L \subseteq Marked(P, Q, x)
  BY DEF Marked
<1>3. /\ P \subseteq SUBSET OpenLits /\ Tidy(P)
      /\ \A A \in SUBSET (Vars \ fresh) : Model(A, All, units) => IsModel(A, P) \/ IsModel(A, Q)
  OBVIOUS
<1> HIDE DEF S, K, L, P
<1>4. QED
  BY <1>1, <1>2, <1>3, ExchangeSafe

\* Parts of clauses.
LEMMA PartsAreTidy ==
    ASSUME WellFormed, NEW P, \A C \in P : \E D \in All : C \subseteq D
    PROVE  P \subseteq SUBSET OpenLits /\ Tidy(P)
<1>1. ASSUME NEW C \in P PROVE C \subseteq OpenLits /\ ~ Tautology(C)
  <2>1. PICK D \in All : C \in SUBSET D
    OBVIOUS
  <2>2. QED
    BY <2>1, PartTidy DEF Tidy
<1>2. QED
  BY <1>1 DEF Tidy

\* What all literals of M have in common holds, or all of them.
LEMMA RestsOfAllHold ==
    ASSUME WellFormed, NEW M \in SUBSET Occurring, Cardinality(M) > 1
    PROVE  /\ \A r \in RestsOfAll(M) : \E D \in All : r \subseteq D
           /\ \A l \in M : {l} \subseteq OpenLits /\ ~ Tautology({l})
           /\ \A A : Model(A, All, units) => IsModel(A, RestsOfAll(M)) \/ \A l \in M : Holds(A, l)
<1>1. PICK m : m \in M
  <2>1. Cardinality({}) = 0
    BY FS_EmptySet
  <2>2. QED
    BY <2>1
<1>2. \A r \in RestsOfAll(M) : {m} \cup r \in All
  BY <1>1 DEF RestsOfAll
<1>3. Occurring \subseteq OpenLits
  BY AllIsOpen DEF Occurring
<1>4. ASSUME NEW l \in M PROVE {l} \subseteq OpenLits /\ ~ Tautology({l})
  BY <1>3, OpenIsThere, LitFacts DEF Tautology
<1>5. ASSUME NEW A, Model(A, All, units), NEW l \in M, ~ Holds(A, l) PROVE IsModel(A, RestsOfAll(M))
  <2>1. SUFFICES ASSUME NEW r \in RestsOfAll(M) PROVE Sat(A, r)
    BY DEF IsModel
  <2>2. Sat(A, {l} \cup r)
    BY <1>5 DEF RestsOfAll, Model, IsModel
  <2>3. QED
    BY <2>2, <1>5 DEF Sat
<1>6. QED
  BY <1>2, <1>4, <1>5

LEMMA AndAdditionSafe ==
    ASSUME WellFormed, ok, fresh # {}, NEW M \in SUBSET Occurring, AndAddition(M)
    PROVE  SafeStep
<1> DEFINE x == NextFreshVariable
           rows == [r \in RestsOfAll(M) |-> {{l} \cup r : l \in M}]
           Q == {{l} : l \in M}
           definition == {{-x, l} : l \in M}
<1>1. Cardinality(M) > 1 /\ Replace(x, rows, definition)
  BY DEF AndAddition
<1>2. x \in fresh
  BY NextFreshIsFresh
<1> HIDE DEF x
<1>3. definition \subseteq {C \cup {-x} : C \in Q}
  <2>1. ASSUME NEW l \in M PROVE {-x, l} \in {C \cup {-x} : C \in Q}
    <3>1. {l} \in Q /\ {-x, l} = {l} \cup {-x}
      OBVIOUS
    <3> HIDE DEF Q
    <3>2. QED
      BY <3>1
  <2> HIDE DEF Q
  <2>2. QED
    BY <2>1
<1>4. DOMAIN rows = RestsOfAll(M)
  OBVIOUS
<1>5. DOMAIN rows \subseteq SUBSET OpenLits /\ Tidy(DOMAIN rows)
  BY <1>1, <1>4, RestsOfAllHold, PartsAreTidy
<1>6. Q \subseteq SUBSET OpenLits /\ Tidy(Q)
  BY <1>1, RestsOfAllHold DEF Tidy
<1>7. \A A : Model(A, All, units) => IsModel(A, DOMAIN rows) \/ IsModel(A, Q)
  BY <1>1, <1>4, RestsOfAllHold DEF IsModel, Sat
<1> HIDE DEF rows, Q, definition
<1>8. QED
  BY <1>1, <1>2, <1>3, <1>5, <1>6, <1>7, ReplaceSafe

\* With two clauses C and D before the rests: those hold, or C and D do.
LEMMA RestsOfPairHold ==
    ASSUME WellFormed, NEW F \in SUBSET All, NEW C, NEW D, RestsOfPair(F, C, D) # {}
    PROVE  /\ \A r \in RestsOfPair(F, C, D) : \E E \in All : r \subseteq E
           /\ \E E \in All : C \subseteq E
           /\ \E E \in All : D \subseteq E
           /\ \A A : Model(A, All, units) => IsModel(A, RestsOfPair(F, C, D)) \/ (Sat(A, C) /\ Sat(A, D))
<1>1. \A r \in RestsOfPair(F, C, D) : C \cup r \in All /\ D \cup r \in All
  BY DEF RestsOfPair
<1>2. PICK r \in RestsOfPair(F, C, D) : TRUE
  OBVIOUS
<1>3. ASSUME NEW A, Model(A, All, units), ~ (Sat(A, C) /\ Sat(A, D))
      PROVE  IsModel(A, RestsOfPair(F, C, D))
  <2>1. SUFFICES ASSUME NEW s \in RestsOfPair(F, C, D) PROVE Sat(A, s)
    BY DEF IsModel
  <2>2. Sat(A, C \cup s) /\ Sat(A, D \cup s)
    BY <1>1, <1>3 DEF Model, IsModel
  <2>3. QED
    BY <2>2, <1>3 DEF Sat
<1>4. QED
  BY <1>1, <1>2, <1>3

LEMMA HalfPairSafe ==
    ASSUME WellFormed, ok, NEW x \in fresh, NEW C, NEW D, NEW rows, DOMAIN rows = RestsOfPair(All, C, D),
           DOMAIN rows # {}, Replace(x, rows, {{-x} \cup C, {-x} \cup D})
    PROVE  SafeStep
<1> DEFINE F == All
           Q == {C, D}
           definition == {{-x} \cup C, {-x} \cup D}
<1>1. F \in SUBSET All /\ RestsOfPair(F, C, D) # {} /\ DOMAIN rows = RestsOfPair(F, C, D)
  OBVIOUS
<1> HIDE DEF F
<1>2. /\ \A r \in RestsOfPair(F, C, D) : \E E \in All : r \subseteq E
      /\ \A r \in Q : \E E \in All : r \subseteq E
      /\ \A A : Model(A, All, units) => IsModel(A, RestsOfPair(F, C, D)) \/ IsModel(A, Q)
  <2>1. /\ \A r \in RestsOfPair(F, C, D) : \E E \in All : r \subseteq E
        /\ \E E \in All : C \subseteq E
        /\ \E E \in All : D \subseteq E
        /\ \A A : Model(A, All, units) => IsModel(A, RestsOfPair(F, C, D)) \/ (Sat(A, C) /\ Sat(A, D))
    BY <1>1, RestsOfPairHold
  <2>2. QED
    BY <2>1 DEF IsModel
<1>3. definition \subseteq {E \cup {-x} : E \in Q}
  OBVIOUS
<1>4. Replace(x, rows, definition)
  OBVIOUS
<1> HIDE DEF Q, definition
<1>5. /\ DOMAIN rows \subseteq SUBSET OpenLits /\ Tidy(DOMAIN rows)
      /\ Q \subseteq SUBSET OpenLits /\ Tidy(Q)
  BY <1>1, <1>2, PartsAreTidy
<1>6. QED
  BY <1>1, <1>2, <1>3, <1>4, <1>5, ReplaceSafe

LEMMA HalfXorSafe ==
    ASSUME WellFormed, ok, fresh # {}, NEW a, NEW b, HalfXor(a, b)
    PROVE  SafeStep
<1> DEFINE x == NextFreshVariable
           C == {a, b}
           D == {-a, -b}
           rows == [r \in RestsOfPair(All, C, D) |-> {C \cup r, D \cup r}]
<1>1. RestsOfPair(All, C, D) # {} /\ Replace(x, rows, {{-x, a, b}, {-x, -a, -b}})
  BY DEF HalfXor
<1>2. x \in fresh
  BY NextFreshIsFresh
<1> HIDE DEF x
<1>3. {{-x, a, b}, {-x, -a, -b}} = {{-x} \cup C, {-x} \cup D}
  OBVIOUS
<1>4. DOMAIN rows = RestsOfPair(All, C, D)
  OBVIOUS
<1> HIDE DEF C, D, rows
<1>5. QED
  BY <1>1, <1>2, <1>3, <1>4, HalfPairSafe

LEMMA HalfIteSafe ==
    ASSUME WellFormed, ok, fresh # {}, NEW s, NEW t, NEW f, HalfIte(s, t, f)
    PROVE  SafeStep
<1> DEFINE x == NextFreshVariable
           C == {s, f}
           D == {-s, t}
           rows == [r \in RestsOfPair(All, C, D) |-> {C \cup r, D \cup r}]
<1>1. RestsOfPair(All, C, D) # {} /\ Replace(x, rows, {{-x, s, f}, {-x, -s, t}})
  BY DEF HalfIte
<1>2. x \in fresh
  BY NextFreshIsFresh
<1> HIDE DEF x
<1>3. {{-x, s, f}, {-x, -s, t}} = {{-x} \cup C, {-x} \cup D}
  OBVIOUS
<1>4. DOMAIN rows = RestsOfPair(All, C, D)
  OBVIOUS
<1> HIDE DEF C, D, rows
<1>5. QED
  BY <1>1, <1>2, <1>3, <1>4, HalfPairSafe

\* Both halves: of C and D and of their opposites G and H one pair holds.
LEMMA FullPairSafe ==
    ASSUME WellFormed, ok, NEW x \in fresh, NEW F \in SUBSET All, NEW C, NEW D, NEW G, NEW H, NEW P, NEW N,
           P = RestsOfPair(F, C, D), N = RestsOfPair(F, G, H), P # {}, N # {},
           \A A \in SUBSET (Vars \ fresh) : Model(A, All, units) =>
               \/ Sat(A, C) /\ Sat(A, D)
               \/ Sat(A, G) /\ Sat(A, H),
           \A A \in SUBSET (Vars \ fresh) : ~ (Sat(A, C) /\ Sat(A, D)) \/ ~ (Sat(A, G) /\ Sat(A, H)),
           NEW S, NEW K, NEW L, Exchanged(S, K, L, x),
           \A E \in K \cup L :
               \/ \E r \in P : E = r \cup {x}
               \/ \E r \in N : E = r \cup {-x}
               \/ E = C \cup {-x} \/ E = D \cup {-x} \/ E = G \cup {x} \/ E = H \cup {x}
    PROVE  SafeStep
<1> DEFINE PP == P \cup {G, H}
           QQ == N \cup {C, D}
<1>1. /\ \A r \in P : \E E \in All : r \subseteq E
      /\ \E E \in All : C \subseteq E
      /\ \E E \in All : D \subseteq E
      /\ \A A : Model(A, All, units) => IsModel(A, P) \/ (Sat(A, C) /\ Sat(A, D))
  <2>1. RestsOfPair(F, C, D) # {}
    OBVIOUS
  <2>2. /\ \A r \in RestsOfPair(F, C, D) : \E E \in All : r \subseteq E
        /\ \E E \in All : C \subseteq E
        /\ \E E \in All : D \subseteq E
        /\ \A A : Model(A, All, units) => IsModel(A, RestsOfPair(F, C, D)) \/ (Sat(A, C) /\ Sat(A, D))
    BY <2>1, RestsOfPairHold
  <2>3. QED
    BY <2>2
<1>2. /\ \A r \in N : \E E \in All : r \subseteq E
      /\ \E E \in All : G \subseteq E
      /\ \E E \in All : H \subseteq E
      /\ \A A : Model(A, All, units) => IsModel(A, N) \/ (Sat(A, G) /\ Sat(A, H))
  <2>1. RestsOfPair(F, G, H) # {}
    OBVIOUS
  <2>2. /\ \A r \in RestsOfPair(F, G, H) : \E E \in All : r \subseteq E
        /\ \E E \in All : G \subseteq E
        /\ \E E \in All : H \subseteq E
        /\ \A A : Model(A, All, units) => IsModel(A, RestsOfPair(F, G, H)) \/ (Sat(A, G) /\ Sat(A, H))
    BY <2>1, RestsOfPairHold
  <2>3. QED
    BY <2>2
<1>3. /\ \A r \in PP : \E E \in All : r \subseteq E
      /\ \A r \in QQ : \E E \in All : r \subseteq E
  BY <1>1, <1>2
<1>4. ASSUME NEW A \in SUBSET (Vars \ fresh), Model(A, All, units) PROVE IsModel(A, PP) \/ IsModel(A, QQ)
  <2>1. CASE Sat(A, C) /\ Sat(A, D)
    <3>1. IsModel(A, N)
      BY <2>1, <1>2, <1>4
    <3>2. QED
      BY <3>1, <2>1 DEF IsModel
  <2>2. CASE Sat(A, G) /\ Sat(A, H)
    <3>1. IsModel(A, P)
      BY <2>2, <1>1, <1>4
    <3>2. QED
      BY <3>1, <2>2 DEF IsModel
  <2>3. QED
    BY <2>1, <2>2, <1>4
<1>5. \A E \in K \cup L : \/ \E r \in PP : E = r \cup {x}
                         \/ \E r \in QQ : E = r \cup {-x}
  OBVIOUS
<1> HIDE DEF PP, QQ
<1>6. K \subseteq Marked(PP, QQ, x) /\ L \subseteq Marked(PP, QQ, x)
  BY <1>5 DEF Marked
<1>7. PP \subseteq SUBSET OpenLits /\ QQ \subseteq SUBSET OpenLits /\ Tidy(PP) /\ Tidy(QQ)
  BY <1>3, PartsAreTidy
<1>8. \A A \in SUBSET (Vars \ fresh) : Model(A, All, units) => IsModel(A, PP) \/ IsModel(A, QQ)
  BY <1>4
<1>9. QED
  BY <1>6, <1>7, <1>8, ExchangeSafe

LEMMA FullXorSafe ==
    ASSUME WellFormed, ok, fresh # {}, NEW a \in Occurring, NEW b \in Occurring, FullXor(a, b)
    PROVE  SafeStep
<1> DEFINE x == NextFreshVariable
           C == {a, b}
           D == {-a, -b}
           G == {-a, b}
           H == {a, -b}
           P == RestsOfPair(core, C, D)
           N == RestsOfPair(core, G, H)
           S == UNION ({{C \cup r, D \cup r} : r \in P} \cup {{G \cup r, H \cup r} : r \in N})
           K == {r \cup {x} : r \in P} \cup {r \cup {-x} : r \in N}
                  \cup {{-x, a, b}, {-x, -a, -b}, {x, a, -b}, {x, -a, b}}
           L == {}
<1>1. P # {} /\ N # {} /\ Exchanged(S, K, L, x)
  BY DEF FullXor, Exchanged
<1>2. x \in fresh
  BY NextFreshIsFresh
<1> HIDE DEF x
<1>3. a \in Lits /\ b \in Lits
  BY AllIsOpen, OpenIsThere DEF Occurring
<1>4. ASSUME NEW A \in SUBSET (Vars \ fresh)
      PROVE  /\ (Sat(A, C) /\ Sat(A, D)) \/ (Sat(A, G) /\ Sat(A, H))
             /\ ~ (Sat(A, C) /\ Sat(A, D)) \/ ~ (Sat(A, G) /\ Sat(A, H))
  <2>1. (Holds(A, -a) <=> ~ Holds(A, a)) /\ (Holds(A, -b) <=> ~ Holds(A, b))
    BY <1>3, LitFacts, HoldsFlip
  <2>2. /\ Sat(A, C) <=> Holds(A, a) \/ Holds(A, b)
        /\ Sat(A, D) <=> Holds(A, -a) \/ Holds(A, -b)
        /\ Sat(A, G) <=> Holds(A, -a) \/ Holds(A, b)
        /\ Sat(A, H) <=> Holds(A, a) \/ Holds(A, -b)
    BY DEF Sat
  <2> HIDE DEF C, D, G, H
  <2>3. QED
    BY <2>1, <2>2
<1>5. \A E \in K \cup L :
        \/ \E r \in P : E = r \cup {x}
        \/ \E r \in N : E = r \cup {-x}
        \/ E = C \cup {-x} \/ E = D \cup {-x} \/ E = G \cup {x} \/ E = H \cup {x}
  <2>1. {-x, a, b} = C \cup {-x} /\ {-x, -a, -b} = D \cup {-x} /\ {x, a, -b} = H \cup {x} /\ {x, -a, b} = G \cup {x}
    OBVIOUS
  <2> HIDE DEF P, N, C, D, G, H
  <2>2. QED
    BY <2>1
<1>6. core \in SUBSET All /\ P = RestsOfPair(core, C, D) /\ N = RestsOfPair(core, G, H)
  BY DEF All
<1> DEFINE F == core
<1>7. F \in SUBSET All /\ P = RestsOfPair(F, C, D) /\ N = RestsOfPair(F, G, H)
  BY <1>6
<1>8. /\ \A A \in SUBSET (Vars \ fresh) : Model(A, All, units) => (Sat(A, C) /\ Sat(A, D)) \/ (Sat(A, G) /\ Sat(A, H))
      /\ \A A \in SUBSET (Vars \ fresh) : ~ (Sat(A, C) /\ Sat(A, D)) \/ ~ (Sat(A, G) /\ Sat(A, H))
  BY <1>4
<1> HIDE DEF P, N, C, D, G, H, S, K, L, F
<1>9. QED
  BY <1>1, <1>2, <1>5, <1>7, <1>8, FullPairSafe

LEMMA FullIteSafe ==
    ASSUME WellFormed, ok, fresh # {}, NEW s \in Occurring, NEW t \in Occurring, NEW f \in Occurring,
           FullIte(s, t, f)
    PROVE  SafeStep
<1> DEFINE x == NextFreshVariable
           C == {s, f}
           D == {-s, t}
           G == {s, -f}
           H == {-s, -t}
           F == All
           P == RestsOfPair(F, C, D)
           N == RestsOfPair(F, G, H)
           PRow(r) == {C \cup r, D \cup r}
           NRow(r) == {G \cup r, H \cup r}
           New(q) == {{x} \cup r : r \in {p \in P : OfCore(PRow(p)) = q}}
                       \cup {{-x} \cup r : r \in {n \in N : OfCore(NRow(n)) = q}}
           S == UNION ({PRow(r) : r \in P} \cup {NRow(r) : r \in N})
           K == New(TRUE) \cup {{-x, s, f}, {-x, -s, t}, {x, s, -f}, {x, -s, -t}}
           L == New(FALSE)
<1>1. P # {} /\ N # {} /\ Exchanged(S, K, L, x)
  BY DEF FullIte, Exchanged
<1>2. x \in fresh
  BY NextFreshIsFresh
<1> HIDE DEF x
<1>3. s \in Lits /\ t \in Lits /\ f \in Lits
  BY AllIsOpen, OpenIsThere DEF Occurring
<1>4. ASSUME NEW A \in SUBSET (Vars \ fresh)
      PROVE  /\ (Sat(A, C) /\ Sat(A, D)) \/ (Sat(A, G) /\ Sat(A, H))
             /\ ~ (Sat(A, C) /\ Sat(A, D)) \/ ~ (Sat(A, G) /\ Sat(A, H))
  <2>1. (Holds(A, -s) <=> ~ Holds(A, s)) /\ (Holds(A, -t) <=> ~ Holds(A, t)) /\ (Holds(A, -f) <=> ~ Holds(A, f))
    BY <1>3, LitFacts, HoldsFlip
  <2>2. /\ Sat(A, C) <=> Holds(A, s) \/ Holds(A, f)
        /\ Sat(A, D) <=> Holds(A, -s) \/ Holds(A, t)
        /\ Sat(A, G) <=> Holds(A, s) \/ Holds(A, -f)
        /\ Sat(A, H) <=> Holds(A, -s) \/ Holds(A, -t)
    BY DEF Sat
  <2> HIDE DEF C, D, G, H
  <2>3. QED
    BY <2>1, <2>2
<1>5. \A E \in K \cup L :
        \/ \E r \in P : E = r \cup {x}
        \/ \E r \in N : E = r \cup {-x}
        \/ E = C \cup {-x} \/ E = D \cup {-x} \/ E = G \cup {x} \/ E = H \cup {x}
  <2> DEFINE Q == {{-x, s, f}, {-x, -s, t}, {x, s, -f}, {x, -s, -t}}
  <2>1. \A E \in Q : E = C \cup {-x} \/ E = D \cup {-x} \/ E = G \cup {x} \/ E = H \cup {x}
    <3>1. {-x, s, f} = C \cup {-x} /\ {-x, -s, t} = D \cup {-x} /\ {x, s, -f} = G \cup {x} /\ {x, -s, -t} = H \cup {x}
      OBVIOUS
    <3> HIDE DEF C, D, G, H
    <3>2. QED
      BY <3>1
  <2>2. \A e \in New(TRUE) : (\E r \in P : e = r \cup {x}) \/ (\E r \in N : e = r \cup {-x})
    <3> HIDE DEF P, N, PRow, NRow
    <3>1. QED
      OBVIOUS
  <2>4. \A e \in New(FALSE) : (\E r \in P : e = r \cup {x}) \/ (\E r \in N : e = r \cup {-x})
    <3> HIDE DEF P, N, PRow, NRow
    <3>1. QED
      OBVIOUS
  <2>3. \A E \in K \cup L : E \in New(TRUE) \/ E \in New(FALSE) \/ E \in Q
    <3> HIDE DEF New, Q
    <3>1. K = New(TRUE) \cup Q
      BY DEF Q
    <3> HIDE DEF K
    <3>2. QED
      BY <3>1
  <2> HIDE DEF New, P, N, C, D, G, H, K, L, Q
  <2>5. QED
    BY <2>1, <2>2, <2>3, <2>4
<1>6. F \in SUBSET All /\ P = RestsOfPair(F, C, D) /\ N = RestsOfPair(F, G, H)
  OBVIOUS
<1>8. /\ \A A \in SUBSET (Vars \ fresh) : Model(A, All, units) => (Sat(A, C) /\ Sat(A, D)) \/ (Sat(A, G) /\ Sat(A, H))
      /\ \A A \in SUBSET (Vars \ fresh) : ~ (Sat(A, C) /\ Sat(A, D)) \/ ~ (Sat(A, G) /\ Sat(A, H))
  BY <1>4
<1> HIDE DEF P, N, C, D, G, H, S, K, L, F
<1>9. QED
  BY <1>1, <1>2, <1>5, <1>6, <1>8, FullPairSafe

LEMMA SubstituteOrSafe ==
    ASSUME WellFormed, ok, fresh # {}, NEW M \in SUBSET Occurring, SubstituteOr(M)
    PROVE  SafeStep
<1> DEFINE x      == NextFreshVariable
           S      == {C \in All : Negated(M) \subseteq C}
           Of(F)  == {{-x} \cup (C \ Negated(M)) : C \in F \cap S}
           Row(r) == {{l} \cup r : l \in M}
           Rows   == UNION {Row(r) : r \in RestsOfAll(M)}
           OfRows == {{x} \cup r : r \in {s \in RestsOfAll(M) : OfCore(Row(s))}}
           K == Of(core) \cup OfRows \cup {{-x, l} : l \in M} \cup { {x} \cup Negated(M) }
           L == Of(learnts) \cup ({{x} \cup r : r \in RestsOfAll(M)} \ OfRows)
           T == S \cup Rows
           P == RestsOfAll(M) \cup {Negated(M)}
           Q == {{l} : l \in M} \cup {C \ Negated(M) : C \in S}
<1>1. Cardinality(M) > 1 /\ S # {} /\ Exchanged(T, K, L, x)
  BY DEF SubstituteOr, Exchanged
<1>2. x \in fresh
  BY NextFreshIsFresh
<1> HIDE DEF x
<1>3. K \subseteq Marked(P, Q, x) /\ L \subseteq Marked(P, Q, x)
  <2>1. \A F : Of(F) \subseteq {C \cup {-x} : C \in Q}
    OBVIOUS
  <2>2. OfRows \subseteq {C \cup {x} : C \in P} /\ {{x} \cup r : r \in RestsOfAll(M)} \subseteq {C \cup {x} : C \in P}
    OBVIOUS
  <2>3. {{-x, l} : l \in M} \subseteq {C \cup {-x} : C \in Q}
    <3>1. ASSUME NEW l \in M PROVE {-x, l} \in {C \cup {-x} : C \in Q}
      <4>1. {l} \in Q /\ {-x, l} = {l} \cup {-x}
        OBVIOUS
      <4> HIDE DEF Q
      <4>2. QED
        BY <4>1
    <3> HIDE DEF Q
    <3>2. QED
      BY <3>1
  <2>4. { {x} \cup Negated(M) } \subseteq {C \cup {x} : C \in P}
    OBVIOUS
  <2> HIDE DEF P, Q, Of, OfRows
  <2>5. QED
    BY <2>1, <2>2, <2>3, <2>4 DEF Marked
<1>4. M \subseteq Lits
  BY AllIsOpen, OpenIsThere DEF Occurring
<1>5. /\ \A r \in P : \E D \in All : r \subseteq D
      /\ \A r \in {C \ Negated(M) : C \in S} : \E D \in All : r \subseteq D
      /\ \A l \in M : {l} \subseteq OpenLits /\ ~ Tautology({l})
  <2>1. /\ \A r \in RestsOfAll(M) : \E D \in All : r \subseteq D
        /\ \A l \in M : {l} \subseteq OpenLits /\ ~ Tautology({l})
    BY <1>1, RestsOfAllHold
  <2>2. \E D \in All : Negated(M) \subseteq D
    BY <1>1
  <2>3. \A r \in {C \ Negated(M) : C \in S} : \E D \in All : r \subseteq D
    OBVIOUS
  <2>4. QED
    BY <2>1, <2>2, <2>3
<1>6. ASSUME NEW A, Model(A, All, units) PROVE IsModel(A, P) \/ IsModel(A, Q)
  <2>1. CASE \A l \in M : Holds(A, l)
    <3>1. \A k \in Negated(M) : ~ Holds(A, k)
      BY <2>1, <1>4, LitFacts, HoldsFlip DEF Negated
    <3>2. \A C \in S : Sat(A, C \ Negated(M))
      BY <3>1, <1>6 DEF Model, IsModel, Sat
    <3>3. QED
      BY <3>2, <2>1 DEF IsModel, Sat
  <2>2. CASE ~ \A l \in M : Holds(A, l)
    <3>1. IsModel(A, RestsOfAll(M))
      BY <2>2, <1>1, <1>6, RestsOfAllHold
    <3>2. Sat(A, Negated(M))
      BY <2>2, <1>4, LitFacts, HoldsFlip DEF Negated, Sat
    <3>3. QED
      BY <3>1, <3>2 DEF IsModel
  <2>3. QED
    BY <2>1, <2>2
<1> HIDE DEF S
<1>7. /\ Q \subseteq SUBSET OpenLits /\ Tidy(Q)
      /\ P \subseteq SUBSET OpenLits /\ Tidy(P)
  <2> DEFINE R == {C \ Negated(M) : C \in S}
  <2>1. \A r \in R : \E D \in All : r \subseteq D
    BY <1>5
  <2>2. Q = {{l} : l \in M} \cup R
    OBVIOUS
  <2> HIDE DEF R, P, Q
  <2>3. R \subseteq SUBSET OpenLits /\ Tidy(R) /\ P \subseteq SUBSET OpenLits /\ Tidy(P)
    BY <2>1, <1>5, PartsAreTidy
  <2>4. QED
    BY <2>2, <2>3, <1>5 DEF Tidy
<1> HIDE DEF K, L, T, P, Q
<1>8. QED
  BY <1>1, <1>2, <1>3, <1>6, <1>7, ExchangeSafe

\* Clauses that differ in the sign of a only are resolved.
LEMMA HandleComplementSafe ==
    ASSUME WellFormed, ok, NEW a \in Occurring, HandleComplement(a)
    PROVE  SafeStep
<1> DEFINE N == Complements(a)
           S == UNION {{{a} \cup r, {-a} \cup r} : r \in Complements(a)}
           K == (core \ S) \cup {r \in N : {a} \cup r \in core}
           L == (learnts \ S) \cup {r \in N : {a} \cup r \notin core}
<1>1. Become(K, L, {}) /\ fresh' = fresh
  BY DEF HandleComplement, Exchange
<1>2. a \in Lits
  BY AllIsOpen, OpenIsThere DEF Occurring
<1>3. \A r \in N : {a} \cup r \in All /\ {-a} \cup r \in All
  BY DEF Complements
<1>4. \A r \in N : \E D \in All : r \subseteq D
  BY <1>3
<1>5. ASSUME NEW A, Model(A, All, units) PROVE IsModel(A, N)
  <2>1. ASSUME NEW r \in N PROVE Sat(A, r)
    <3>1. Sat(A, {a} \cup r) /\ Sat(A, {-a} \cup r)
      BY <1>3, <1>5 DEF Model, IsModel
    <3>2. QED
      BY <3>1, <1>2, ResolutionHolds
  <2>2. QED
    BY <2>1 DEF IsModel
<1>6. K \subseteq core \cup learnts \cup N /\ L \subseteq core \cup learnts \cup N
  OBVIOUS
<1> HIDE DEF K, L, N
<1>7. N \subseteq SUBSET OpenLits /\ Tidy(N)
  BY <1>4, PartsAreTidy
<1> DEFINE U == {}
<1>8. U \subseteq LitsWithout(fresh) /\ Become(K, L, U) /\ \A A : Model(A, All, units) => Model(A, N, U)
  BY <1>1, <1>5 DEF Model
<1> HIDE DEF U
<1>9. QED
  BY <1>1, <1>6, <1>7, <1>8, AddingSafe

LEMMA AdditionSafe ==
    ASSUME WellFormed, AdditionNext
    PROVE  SafeStep
BY UsesMeans, AndAdditionSafe, HalfXorSafe, FullXorSafe, HalfIteSafe, FullIteSafe, SubstituteOrSafe,
   HandleComplementSafe DEF AdditionNext

-----------------------------------------------------------------------------
(* Parity constraints *)

\* An assignment makes an odd number of the variables of x true, or an even one, as x says.
Obeys(A, x) == (Cardinality(x.vars \cap A) % 2 = 1) <=> x.odd

LEMMA OddOrEven == \A n \in Nat : n % 2 = 0 \/ n % 2 = 1
OBVIOUS

LEMMA SumsOfParities ==
    \A a, b, c \in Nat : ((a + b) % 2 = 1) <=> ~ (((a + c) % 2 = 1) <=> ((b + c) % 2 = 1))
OBVIOUS

LEMMA OneIsOdd == \A v : Cardinality({v}) % 2 = 1
<1>1. \A v : Cardinality({v}) = 1
  BY FS_Singleton
<1>2. 1 % 2 = 1
  OBVIOUS
<1>3. QED
  BY <1>1, <1>2

LEMMA NoneIsEven == Cardinality({}) % 2 # 1
<1>1. Cardinality({}) = 0
  BY FS_EmptySet
<1>2. 0 % 2 # 1
  OBVIOUS
<1>3. QED
  BY <1>1, <1>2

LEMMA VarsAreFinite ==
    ASSUME NEW x \in Parity, NEW A
    PROVE  IsFiniteSet(x.vars \cap A) /\ Cardinality(x.vars \cap A) \in Nat /\ x.vars \in SUBSET Open
<1>1. IsFiniteSet(x.vars) /\ x.vars \in SUBSET Open
  BY OpenIsFinite, FS_Subset DEF Parity
<1>2. QED
  BY <1>1, FS_Intersection, FS_CardinalityType

\* Of the clauses of x an assignment that does not obey makes one false, the one that an
\* assignment makes false shows that it does not obey.
LEMMA ClausesOfMean ==
    ASSUME NEW x \in Parity, NEW A
    PROVE  (\A T \in ClausesOf(x) : Sat(A, T)) <=> Obeys(A, x)
<1>1. \A v \in x.vars : v \in Nat /\ v # 0 /\ v > 0 /\ ~ (-v > 0) /\ -(-v) = v
  <2>1. x.vars \subseteq Vars
    BY VarsAreFinite DEF Open
  <2>2. \A v \in Vars : v \in Nat /\ v # 0
    BY VarsAssumption
  <2>3. \A v \in Nat \ {0} : v > 0 /\ ~ (-v > 0) /\ -(-v) = v
    OBVIOUS
  <2>4. QED
    BY <2>1, <2>2, <2>3
<1>2. \A v \in x.vars : (Holds(A, v) <=> v \in A) /\ (Holds(A, -v) <=> v \notin A)
  BY <1>1 DEF Holds
<1>3. \A N \in SUBSET x.vars : Sat(A, (x.vars \ N) \cup Negated(N)) <=> N # x.vars \cap A
  <2>1. SUFFICES ASSUME NEW N \in SUBSET x.vars
                 PROVE  Sat(A, (x.vars \ N) \cup Negated(N)) <=> N # x.vars \cap A
    OBVIOUS
  <2>2. Sat(A, (x.vars \ N) \cup Negated(N)) <=> (\E v \in x.vars \ N : v \in A) \/ (\E v \in N : v \notin A)
    BY <1>2 DEF Sat, Negated
  <2>3. QED
    BY <2>2
<1> DEFINE M == x.vars \cap A
<1>4. Cardinality(M) \in Nat /\ M \in SUBSET x.vars /\ x.odd \in BOOLEAN
  BY VarsAreFinite DEF Parity
<1>5. (\A T \in ClausesOf(x) : Sat(A, T)) <=> ~ ((Cardinality(M) % 2 = 0) <=> x.odd)
  <2>1. CASE (Cardinality(M) % 2 = 0) <=> x.odd
    <3>1. (x.vars \ M) \cup Negated(M) \in ClausesOf(x)
      BY <1>4, <2>1 DEF ClausesOf
    <3>2. ~ Sat(A, (x.vars \ M) \cup Negated(M))
      BY <1>3, <1>4
    <3>3. QED
      BY <2>1, <3>1, <3>2
  <2>2. CASE ~ ((Cardinality(M) % 2 = 0) <=> x.odd)
    <3>1. ASSUME NEW T \in ClausesOf(x) PROVE Sat(A, T)
      <4>1. PICK N \in SUBSET x.vars : T = (x.vars \ N) \cup Negated(N) /\ ((Cardinality(N) % 2 = 0) <=> x.odd)
        BY DEF ClausesOf
      <4>2. N # M
        BY <2>2, <4>1
      <4>3. QED
        BY <1>3, <4>1, <4>2
    <3>2. QED
      BY <2>2, <3>1
  <2>3. QED
    BY <2>1, <2>2
<1>6. (Cardinality(M) % 2 = 0) <=> ~ (Cardinality(M) % 2 = 1)
  <2> HIDE DEF M
  <2>1. QED
    BY <1>4, OddOrEven
<1>7. QED
  BY <1>4, <1>5, <1>6 DEF Obeys

LEMMA FoundObey ==
    ASSUME WellFormed, NEW x \in Found, NEW A, Model(A, All, units)
    PROVE  Obeys(A, x)
<1>1. ASSUME NEW T \in ClausesOf(x) PROVE Sat(A, T)
  <2>1. PICK C \in All : Covers(C, T)
    BY DEF Found
  <2>2. Sat(A, C) /\ C \subseteq Lits
    BY AllIsOpen, OpenIsThere DEF Model, IsModel
  <2>3. CASE C \subseteq T
    BY <2>2, <2>3 DEF Sat
  <2>4. CASE \E r \in C \ T : C \ {r} \subseteq T /\ \E l \in T : {-r, l} \in core
    <3>1. PICK r \in C \ T : C \ {r} \subseteq T /\ \E l \in T : {-r, l} \in core
      BY <2>4
    <3>2. PICK l \in T : {-r, l} \in core
      BY <3>1
    <3>3. Sat(A, {-r, l}) /\ r \in Lits
      BY <2>2, <3>2 DEF All, Model, IsModel
    <3>4. {-r, l} \ {-r} \subseteq T
      BY <3>2
    <3>5. QED
      BY <2>2, <3>1, <3>3, <3>4, ResolutionHolds
  <2>5. QED
    BY <2>1, <2>3, <2>4 DEF Covers
<1>2. QED
  BY <1>1, FoundTyped, ClausesOfMean

LEMMA Sum2Obeys ==
    ASSUME NEW x \in Parity, NEW y \in Parity, NEW A, Obeys(A, x), Obeys(A, y)
    PROVE  Obeys(A, Sum2(x, y))
<1> DEFINE P == x.vars \cap A
           Q == y.vars \cap A
           z == Sum2(x, y)
<1>1. IsFiniteSet(P) /\ IsFiniteSet(Q) /\ x.odd \in BOOLEAN /\ y.odd \in BOOLEAN
  BY VarsAreFinite DEF Parity
<1>2. z.vars \cap A = (P \ Q) \cup (Q \ P) /\ (z.odd <=> ~ (x.odd <=> y.odd))
  BY <1>1 DEF Sum2
<1>3. Obeys(A, z) <=> ((Cardinality((P \ Q) \cup (Q \ P)) % 2 = 1) <=> ~ (x.odd <=> y.odd))
  BY <1>2 DEF Obeys
<1>4. ((Cardinality(P) % 2 = 1) <=> x.odd) /\ ((Cardinality(Q) % 2 = 1) <=> y.odd)
  BY DEF Obeys
<1> HIDE DEF P, Q, z
<1> DEFINE a == Cardinality(P \ Q)
           b == Cardinality(Q \ P)
           c == Cardinality(P \cap Q)
<1>5. IsFiniteSet(P \ Q) /\ IsFiniteSet(Q \ P) /\ IsFiniteSet(P \cap Q) /\ IsFiniteSet((P \ Q) \cap (Q \ P))
  BY <1>1, FS_Difference, FS_Intersection
<1>6. a \in Nat /\ b \in Nat /\ c \in Nat
  BY <1>5, FS_CardinalityType
<1>7. Cardinality((P \ Q) \cup (Q \ P)) = a + b
  <2>1. (P \ Q) \cap (Q \ P) = {}
    OBVIOUS
  <2>2. Cardinality((P \ Q) \cup (Q \ P)) = a + b - Cardinality((P \ Q) \cap (Q \ P))
    BY <1>5, FS_Union
  <2>3. Cardinality((P \ Q) \cap (Q \ P)) = 0
    BY <2>1, FS_EmptySet
  <2>4. QED
    BY <1>6, <2>2, <2>3
<1>8. Cardinality(P) = a + c
  <2>1. (P \ Q) \cap (P \cap Q) = {} /\ (P \ Q) \cup (P \cap Q) = P
    OBVIOUS
  <2>2. Cardinality((P \ Q) \cup (P \cap Q)) = a + c - Cardinality((P \ Q) \cap (P \cap Q))
    BY <1>5, FS_Union
  <2>3. Cardinality((P \ Q) \cap (P \cap Q)) = 0
    BY <2>1, FS_EmptySet
  <2>4. QED
    BY <1>6, <2>1, <2>2, <2>3
<1>9. Cardinality(Q) = b + c
  <2>1. (Q \ P) \cap (P \cap Q) = {} /\ (Q \ P) \cup (P \cap Q) = Q
    OBVIOUS
  <2>2. Cardinality((Q \ P) \cup (P \cap Q)) = b + c - Cardinality((Q \ P) \cap (P \cap Q))
    BY <1>5, FS_Union
  <2>3. Cardinality((Q \ P) \cap (P \cap Q)) = 0
    BY <2>1, FS_EmptySet
  <2>4. QED
    BY <1>6, <2>1, <2>2, <2>3
<1> HIDE DEF a, b, c
<1>10. ((a + b) % 2 = 1) <=> ~ (((a + c) % 2 = 1) <=> ((b + c) % 2 = 1))
  BY <1>6, SumsOfParities
<1>11. QED
  BY <1>3, <1>4, <1>7, <1>8, <1>9, <1>10 DEF z

LEMMA SumsObey ==
    ASSUME WellFormed, NEW x \in Sums, NEW A, Model(A, All, units)
    PROVE  Obeys(A, x)
<1> DEFINE N == Cardinality(Open)
           Obedient == {y \in Parity : Obeys(A, y)}
<1>1. N \in Nat
  BY OpenIsFinite, FS_CardinalityType
<1>2. PICK f : Sums2(f) /\ Sums = f[Cardinality(Open)] \ Found
  BY SumsStepwise
<1> DEFINE T == {n \in 0..N : f[n] \in SUBSET Obedient}
<1>3. 0 \in T
  BY <1>1, <1>2, FoundTyped, FoundObey DEF Sums2
<1>4. ASSUME NEW n \in 1..N, n - 1 \in T PROVE n \in T
  <2>1. f[n] = WithSums(f[n - 1]) /\ f[n - 1] \in SUBSET Obedient
    BY <1>2, <1>4 DEF Sums2
  <2>2. f[n] \in SUBSET Parity
    BY <2>1, WithSumsTyped
  <2>3. ASSUME NEW s \in f[n] PROVE Obeys(A, s)
    <3>1. CASE s \in f[n - 1]
      BY <2>1, <3>1
    <3>2. CASE s \notin f[n - 1]
      <4>1. PICK p \in f[n - 1] \X f[n - 1] : s = Sum2(p[1], p[2])
        BY <2>1, <2>3, <3>2 DEF WithSums
      <4>2. p[1] \in Obedient /\ p[2] \in Obedient
        BY <2>1, <4>1
      <4>3. QED
        BY <4>1, <4>2, Sum2Obeys
    <3>3. QED
      BY <3>1, <3>2
  <2>4. n \in 0..N
    BY <1>1
  <2>5. QED
    BY <2>2, <2>3, <2>4
<1>5. 0..N \subseteq T
  <2> HIDE DEF T, N
  <2>1. QED
    BY <1>1, <1>3, <1>4, Induction
<1>6. QED
  BY <1>1, <1>2, <1>5

LEMMA XorUnitSafe ==
    ASSUME WellFormed, ok, NEW x \in Sums, XorUnit(x)
    PROVE  SafeStep
<1>1. PICK v \in x.vars : x.vars = {v} /\ Rewrite(core, learnts, {Literal(v, x.odd)})
  BY DEF XorUnit
<1>2. x \in Parity /\ v \in Open /\ x.odd \in BOOLEAN
  BY SumsTyped DEF Parity
<1> DEFINE l == Literal(v, x.odd)
           U == {l}
<1>3. v \in Nat /\ v # 0 /\ v \in OpenLits /\ -v \in OpenLits
  BY <1>2, VarsAssumption DEF Open, OpenLits
<1>4. U \subseteq LitsWithout(fresh)
  BY <1>3, OpenIsThere DEF Literal
<1>5. ASSUME NEW A, Obeys(A, x) PROVE Holds(A, l)
  <2>1. CASE v \in A
    <3>1. x.vars \cap A = {v}
      BY <1>1, <2>1
    <3>2. Cardinality({v}) % 2 = 1
      BY OneIsOdd
    <3>3. x.odd
      BY <1>5, <3>1, <3>2 DEF Obeys
    <3>4. QED
      BY <1>3, <2>1, <3>3 DEF Literal, Holds
  <2>2. CASE v \notin A
    <3>1. x.vars \cap A = {}
      BY <1>1, <2>2
    <3>2. Cardinality({}) % 2 # 1
      BY NoneIsEven
    <3>3. ~ x.odd
      BY <1>2, <1>5, <3>1, <3>2 DEF Obeys
    <3>4. -(-v) = v /\ ~ (-v > 0)
      BY <1>3
    <3>5. QED
      BY <3>4, <2>2, <3>3 DEF Literal, Holds
  <2>3. QED
    BY <2>1, <2>2
<1> HIDE DEF l
<1>6. \A A \in SUBSET (Vars \ fresh) : Model(A, All, units) => \A k \in U : Holds(A, k)
  BY <1>5, SumsObey
<1>7. Rewrite(core, learnts, U)
  BY <1>1 DEF l
<1> HIDE DEF U
<1>8. QED
  BY <1>4, <1>6, <1>7, UnitsSafe

LEMMA XorEquivalenceSafe ==
    ASSUME WellFormed, ok, NEW x \in Sums, XorEquivalence(x)
    PROVE  SafeStep
<1>1. PICK v \in x.vars, w \in x.vars : v < w /\ Apply(Unfrozen({v, Literal(w, ~ x.odd)}))
  BY DEF XorEquivalence
<1>2. x \in Parity /\ v \in Open /\ w \in Open /\ x.odd \in BOOLEAN /\ Cardinality(x.vars) = 2
  BY SumsTyped DEF Parity, XorEquivalence
<1>3. v \in Nat /\ v # 0 /\ w \in Nat /\ w # 0 /\ v # w /\ -(-w) = w /\ ~ (-w > 0)
  BY <1>1, <1>2, VarsAssumption DEF Open
<1>4. x.vars = {v, w}
  <2>1. IsFiniteSet(x.vars)
    BY <1>2, OpenIsFinite, FS_Subset DEF Parity
  <2>2. IsFiniteSet({v}) /\ Cardinality({v}) = 1
    BY FS_Singleton
  <2>3. Cardinality({v} \cup {w}) = 2 /\ {v} \cup {w} = {v, w}
    BY <1>3, <2>2, FS_AddElement
  <2>4. {v, w} \in SUBSET x.vars
    OBVIOUS
  <2>5. QED
    BY <1>2, <2>1, <2>3, <2>4, FS_Subset
<1> DEFINE l == Literal(w, ~ x.odd)
           X == {v, l}
<1>5. X \in SUBSET Lits
  BY <1>2, LiteralTyped
<1>6. ASSUME NEW A, Obeys(A, x) PROVE Holds(A, v) <=> Holds(A, l)
  <2>1. (Holds(A, v) <=> v \in A) /\ (Holds(A, l) <=> IF x.odd THEN w \notin A ELSE w \in A)
    BY <1>2, <1>3 DEF Holds, Literal
  <2>2. /\ Cardinality({v}) % 2 = 1 /\ Cardinality({w}) % 2 = 1
        /\ Cardinality({v, w}) % 2 # 1 /\ Cardinality({}) % 2 # 1
    <3>1. Cardinality({v, w}) = 2 /\ 2 % 2 # 1
      BY <1>2, <1>4
    <3>2. QED
      BY <3>1, OneIsOdd, NoneIsEven
  <2>3. CASE v \in A /\ w \in A
    <3>1. x.vars \cap A = {v, w}
      BY <1>4, <2>3
    <3>2. QED
      BY <1>2, <1>6, <2>1, <2>2, <2>3, <3>1 DEF Obeys
  <2>4. CASE v \in A /\ w \notin A
    <3>1. x.vars \cap A = {v}
      BY <1>4, <2>4
    <3>2. QED
      BY <1>2, <1>6, <2>1, <2>2, <2>4, <3>1 DEF Obeys
  <2>5. CASE v \notin A /\ w \in A
    <3>1. x.vars \cap A = {w}
      BY <1>4, <2>5
    <3>2. QED
      BY <1>2, <1>6, <2>1, <2>2, <2>5, <3>1 DEF Obeys
  <2>6. CASE v \notin A /\ w \notin A
    <3>1. x.vars \cap A = {}
      BY <1>4, <2>6
    <3>2. QED
      BY <1>2, <1>6, <2>1, <2>2, <2>6, <3>1 DEF Obeys
  <2>7. QED
    BY <2>3, <2>4, <2>5, <2>6
<1>7. Apply(Unfrozen(X))
  BY <1>1
<1> HIDE DEF l
<1>8. Same(X)
  BY <1>6, SumsObey DEF Same
<1> HIDE DEF X
<1>9. QED
  BY <1>5, <1>7, <1>8, SamePart, ApplySafe

LEMMA XorClausesSafe ==
    ASSUME WellFormed, ok, NEW x \in Sums, XorClauses(x)
    PROVE  SafeStep
<1> DEFINE N == ClausesOf(x)
<1>1. Rewrite(core \cup N, learnts, {}) \/ Rewrite(core, learnts \cup N, {})
  BY DEF XorClauses
<1>2. x \in Parity /\ x.vars \in SUBSET Open
  BY SumsTyped DEF Parity
<1>3. \A v \in x.vars : v \in Nat /\ v # 0 /\ v \in OpenLits /\ -v \in OpenLits
  BY <1>2, VarsAssumption DEF Open, OpenLits
<1>4. ASSUME NEW C \in N PROVE C \subseteq OpenLits /\ ~ Tautology(C)
  <2>1. PICK M \in SUBSET x.vars : C = (x.vars \ M) \cup Negated(M)
    BY DEF ClausesOf
  <2>2. C \subseteq OpenLits
    BY <1>3, <2>1 DEF Negated
  <2>3. ASSUME NEW l \in C, -l \in C PROVE FALSE
    <3>1. CASE l \in x.vars \ M
      <4>1. -l \in Negated(M) \/ -l \in x.vars
        BY <2>1, <2>3
      <4>2. -l \notin x.vars
        BY <1>3, <3>1
      <4>3. PICK m \in M : -m = -l
        BY <4>1, <4>2 DEF Negated
      <4>4. m = l
        BY <1>3, <3>1, <4>3
      <4>5. QED
        BY <3>1, <4>4
    <3>2. CASE l \in Negated(M)
      <4>1. PICK m \in M : l = -m
        BY <3>2 DEF Negated
      <4>2. -l = m /\ m \in Nat /\ m # 0
        BY <1>3, <4>1
      <4>3. m \in Negated(M)
        BY <2>1, <2>3, <4>2
      <4>4. PICK k \in M : m = -k
        BY <4>3 DEF Negated
      <4>5. QED
        BY <1>3, <4>2, <4>4
    <3>3. QED
      BY <2>1, <2>3, <3>1, <3>2
  <2>4. QED
    BY <2>2, <2>3 DEF Tautology
<1>5. N \subseteq SUBSET OpenLits /\ Tidy(N)
  BY <1>4 DEF Tidy
<1> DEFINE U == {}
<1>6. U \subseteq LitsWithout(fresh) /\ \A A \in SUBSET (Vars \ fresh) : Model(A, All, units) => Model(A, N, U)
  BY <1>2, SumsObey, ClausesOfMean DEF Model, IsModel
<1>7. CASE Rewrite(core \cup N, learnts, {})
  <2> DEFINE K == core \cup N
  <2>1. Become(K, learnts, U) /\ fresh' = fresh /\ K \subseteq core \cup learnts \cup N /\ learnts \subseteq core \cup learnts \cup N
    BY <1>7 DEF Rewrite
  <2> HIDE DEF K, N, U
  <2>2. QED
    BY <1>5, <1>6, <2>1, AddingSafe
<1>8. CASE Rewrite(core, learnts \cup N, {})
  <2> DEFINE L == learnts \cup N
  <2>1. Become(core, L, U) /\ fresh' = fresh /\ core \subseteq core \cup learnts \cup N /\ L \subseteq core \cup learnts \cup N
    BY <1>8 DEF Rewrite
  <2> HIDE DEF L, N, U
  <2>2. QED
    BY <1>5, <1>6, <2>1, AddingSafe
<1>9. QED
  BY <1>1, <1>7, <1>8

LEMMA XorSafe ==
    ASSUME WellFormed, XorNext
    PROVE  SafeStep
BY UsesMeans, XorUnitSafe, XorEquivalenceSafe, XorClausesSafe DEF XorNext

-----------------------------------------------------------------------------
(* Variable elimination by several threads *)

\* While threads work, clauses may have literals that are assigned and not yet propagated.
Awaiting    == {VarOf(l) : l \in pending}
PresentLits == {l \in LitsWithout(fresh) : VarOf(l) \in Open \cup Awaiting}
Mixed ==
    /\ start \in Starts /\ ok \in BOOLEAN /\ fresh \in SUBSET Vars
    /\ start.frozen \cap fresh = {}
    /\ core \in SUBSET (SUBSET PresentLits) /\ learnts \in SUBSET (SUBSET PresentLits)
    /\ units \in SUBSET LitsWithout(fresh) /\ pending \subseteq units
    /\ Tidy(All) /\ \A C \in All : Cardinality(C) > 1

\* A step of a thread excludes nothing either.
SharedStep ==
    /\ Mixed' /\ start' = start
    /\ \A A \in SUBSET (Vars \ fresh) :
        Model(A, All, units) => ok' /\ Allowed(A, All', units', fresh')

LEMMA QuietIsWellFormed ==
    ASSUME Mixed, Quiet
    PROVE  WellFormed
<1>1. PresentLits \subseteq OpenLits
  <2>1. SUFFICES ASSUME NEW l \in PresentLits PROVE l \in OpenLits
    OBVIOUS
  <2>2. l \in Lits /\ VarOf(l) \in Open
    BY DEF PresentLits, Awaiting, Quiet, LitsWithout
  <2>3. l = VarOf(l) \/ l = -VarOf(l)
    BY <2>2, LitFacts DEF VarOf
  <2>4. QED
    BY <2>2, <2>3 DEF OpenLits
<1>2. core \in SUBSET (SUBSET OpenLits) /\ learnts \in SUBSET (SUBSET OpenLits)
  BY <1>1 DEF Mixed
<1>3. QED
  BY <1>2 DEF Mixed, WellFormed

LEMMA OpenIsPresent == OpenLits \subseteq PresentLits
<1>1. ASSUME NEW l \in OpenLits PROVE l \in PresentLits
  <2>1. VarOf(l) \in Open
    BY OpenLitsFacts
  <2>2. QED
    BY <2>1, OpenIsThere DEF PresentLits
<1>2. QED
  BY <1>1

LEMMA WellFormedIsMixed ==
    ASSUME WellFormed, pending = {}
    PROVE  Mixed
<1>1. core \in SUBSET (SUBSET PresentLits) /\ learnts \in SUBSET (SUBSET PresentLits)
  BY OpenIsPresent DEF WellFormed
<1>2. QED
  BY <1>1 DEF Mixed, WellFormed

LEMMA SequentialIsShared ==
    ASSUME SafeStep, Quiet, pending' = pending
    PROVE  SharedStep
<1>1. pending' = {} /\ WellFormed'
  BY DEF Quiet, SafeStep
<1>2. Mixed'
  <2>1. OpenLits' \subseteq PresentLits'
    <3>1. ASSUME NEW l \in OpenLits' PROVE l \in PresentLits'
      <4>1. l \in Lits /\ VarOf(l) \in Open'
        BY VarsAssumption DEF OpenLits, Open, Lits, VarOf
      <4>2. QED
        BY <4>1 DEF PresentLits, LitsWithout, Open
    <3>2. QED
      BY <3>1
  <2>2. core' \in SUBSET (SUBSET PresentLits') /\ learnts' \in SUBSET (SUBSET PresentLits')
    BY <1>1, <2>1 DEF WellFormed
  <2>3. QED
    BY <1>1, <2>2 DEF WellFormed, Mixed
<1>3. QED
  BY <1>2 DEF SafeStep, SharedStep

LEMMA PresentIsThere ==
    ASSUME Mixed
    PROVE  /\ \A l \in PresentLits : l \in Lits /\ -l \in PresentLits
           /\ \A C \in All : C \subseteq PresentLits /\ C \subseteq Lits /\ ~ Tautology(C)
<1>1. ASSUME NEW l \in PresentLits PROVE l \in Lits /\ -l \in PresentLits
  <2>1. l \in Lits /\ VarOf(l) \notin fresh /\ VarOf(l) \in Open \cup Awaiting
    BY DEF PresentLits, LitsWithout
  <2>2. -l \in Lits /\ VarOf(-l) = VarOf(l)
    BY <2>1, LitFacts
  <2>3. QED
    BY <2>1, <2>2 DEF PresentLits, LitsWithout
<1>2. ASSUME NEW C \in All PROVE C \subseteq PresentLits /\ ~ Tautology(C)
  BY DEF Mixed, All, Tidy
<1>3. QED
  BY <1>1, <1>2

\* What stays, comes in and is enqueued follows, and nothing that stays has a variable that
\* was waiting and is done.
LEMMA EnqueuedShared ==
    ASSUME Mixed, ok, NEW K, NEW L, NEW U, NEW done, Enqueued(K, L, U, done),
           K \cup L \subseteq SUBSET PresentLits, Tidy(K \cup L), U \subseteq PresentLits,
           \A C \in K \cup L : \A k \in C : \A l \in done : VarOf(k) # VarOf(l),
           \A A \in SUBSET (Vars \ fresh) :
                Model(A, All, units) => IsModel(A, K \cup L) /\ \A l \in U : Holds(A, l)
    PROVE  SharedStep
<1>1. fresh' = fresh /\ start' = start
  BY DEF Enqueued
<1>2. CASE \E l \in U : -l \in units \cup U
  <2>1. ok' = FALSE /\ UNCHANGED <<core, learnts, units, pending>>
    BY <1>2 DEF Enqueued
  <2>2. UNCHANGED <<All, Open, PresentLits>>
    BY <2>1, <1>1 DEF All, Open, Assigned, PresentLits, Awaiting, LitsWithout
  <2>3. Mixed'
    BY <2>1, <2>2, <1>1 DEF Mixed, Tidy, LitsWithout
  <2>4. ASSUME NEW A \in SUBSET (Vars \ fresh), Model(A, All, units) PROVE FALSE
    <3>1. PICK l \in U : -l \in units \cup U
      BY <1>2
    <3>2. Holds(A, l) /\ Holds(A, -l)
      BY <2>4, <3>1 DEF Model
    <3>3. l \in Lits
      BY PresentIsThere
    <3>4. QED
      BY <3>2, <3>3, LitFacts, HoldsFlip
  <2>5. QED
    BY <2>3, <2>4, <1>1 DEF SharedStep
<1>3. CASE ~ \E l \in U : -l \in units \cup U
  <2>1. /\ core' = {C \in K : Cardinality(C) > 1} /\ learnts' = {C \in L : Cardinality(C) > 1}
        /\ units' = units \cup U /\ pending' = (pending \ done) \cup (U \ units) /\ ok' = ok
    BY <1>3 DEF Enqueued
  <2>2. \A C \in All' : C \in K \cup L /\ Cardinality(C) > 1
    BY <2>1 DEF All
  <2>3. ASSUME NEW C \in K \cup L PROVE C \subseteq PresentLits'
    <3>1. SUFFICES ASSUME NEW k \in C PROVE k \in PresentLits'
      OBVIOUS
    <3>2. k \in PresentLits
      BY <2>3
    <3>3. k \in LitsWithout(fresh) /\ VarOf(k) \in Vars \ fresh
      BY <3>2, LitFacts DEF PresentLits, LitsWithout
    <3>4. CASE \E p \in pending : VarOf(p) = VarOf(k)
      <4>1. PICK p \in pending : VarOf(p) = VarOf(k)
        BY <3>4
      <4>2. p \notin done
        BY <4>1, <2>3
      <4>3. VarOf(k) \in Awaiting'
        BY <4>1, <4>2, <2>1 DEF Awaiting
      <4>4. QED
        BY <4>3, <3>3, <1>1 DEF PresentLits, LitsWithout
    <3>5. CASE ~ \E p \in pending : VarOf(p) = VarOf(k)
      <4>1. VarOf(k) \notin Assigned
        BY <3>2, <3>5 DEF PresentLits, Open, Awaiting
      <4>2. CASE \E u \in U : VarOf(u) = VarOf(k)
        <5>1. PICK u \in U : VarOf(u) = VarOf(k)
          BY <4>2
        <5>2. u \notin units
          BY <4>1, <5>1 DEF Assigned
        <5>3. VarOf(k) \in Awaiting'
          BY <5>1, <5>2, <2>1 DEF Awaiting
        <5>4. QED
          BY <5>3, <3>3, <1>1 DEF PresentLits, LitsWithout
      <4>3. CASE ~ \E u \in U : VarOf(u) = VarOf(k)
        <5>1. VarOf(k) \notin Assigned'
          BY <4>1, <4>3, <2>1 DEF Assigned
        <5>2. VarOf(k) \in Open'
          BY <5>1, <3>3, <1>1 DEF Open
        <5>3. QED
          BY <5>2, <3>3, <1>1 DEF PresentLits, LitsWithout
      <4>4. QED
        BY <4>2, <4>3
    <3>6. QED
      BY <3>4, <3>5
  <2>4. core' \subseteq K /\ learnts' \subseteq L
    BY <2>1
  <2>5. core' \in SUBSET (SUBSET PresentLits') /\ learnts' \in SUBSET (SUBSET PresentLits')
    BY <2>3, <2>4
  <2>6. units' \in SUBSET LitsWithout(fresh)' /\ pending' \subseteq units'
    <3>1. U \subseteq LitsWithout(fresh)
      BY DEF PresentLits
    <3>2. units \subseteq LitsWithout(fresh) /\ pending \subseteq units
      BY DEF Mixed
    <3>3. LitsWithout(fresh)' = LitsWithout(fresh)
      BY <1>1 DEF LitsWithout
    <3>4. QED
      BY <3>1, <3>2, <3>3, <2>1
  <2>7. Tidy(All)'
    BY <2>2 DEF Tidy, Tautology
  <2>8. Mixed'
    BY <2>1, <2>2, <2>5, <2>6, <2>7, <1>1 DEF Mixed
  <2>9. ASSUME NEW A \in SUBSET (Vars \ fresh), Model(A, All, units)
        PROVE  Allowed(A, All', units', fresh')
    <3>1. IsModel(A, K \cup L) /\ \A l \in U : Holds(A, l)
      BY <2>9
    <3>2. Model(A, All', units')
      BY <3>1, <2>9, <2>1, <2>2 DEF Model, IsModel
    <3>3. QED
      BY <3>2, <1>1 DEF Allowed, Agree
  <2>10. QED
    BY <2>1, <2>8, <2>9, <1>1 DEF SharedStep
<1>4. QED
  BY <1>2, <1>3

\* Clauses and units stay.
LEMMA NothingShared ==
    ASSUME Mixed, ok, UNCHANGED <<core, learnts, units, ok, fresh, start, pending>>
    PROVE  SharedStep
<1>1. UNCHANGED <<All, Open, PresentLits>> /\ LitsWithout(fresh)' = LitsWithout(fresh)
  BY DEF All, Open, Assigned, PresentLits, Awaiting, LitsWithout
<1>2. Mixed'
  BY <1>1 DEF Mixed, Tidy
<1>3. ASSUME NEW A \in SUBSET (Vars \ fresh), Model(A, All, units) PROVE Allowed(A, All', units', fresh')
  <2>1. Model(A, All', units')
    BY <1>1, <1>3 DEF Model, IsModel
  <2>2. QED
    BY <2>1 DEF Allowed, Agree
<1>4. QED
  BY <1>2, <1>3 DEF SharedStep

\* Clauses only go.
LEMMA RemovingShared ==
    ASSUME Mixed, ok, NEW K, NEW L, K \subseteq All, L \subseteq All, NEW U, U = {}, NEW done, done = {},
           Enqueued(K, L, U, done)
    PROVE  SharedStep
<1>1. K \cup L \subseteq SUBSET PresentLits /\ Tidy(K \cup L)
  BY PresentIsThere DEF Tidy
<1>2. \A A : Model(A, All, units) => IsModel(A, K \cup L)
  BY DEF Model, IsModel
<1>3. U \subseteq PresentLits /\ \A A : \A l \in U : Holds(A, l)
  OBVIOUS
<1>4. \A C \in K \cup L : \A k \in C : \A l \in done : VarOf(k) # VarOf(l)
  OBVIOUS
<1>5. QED
  BY <1>1, <1>2, <1>3, <1>4, EnqueuedShared

LEMMA ResolventIsPresent ==
    ASSUME Mixed, NEW C \in All, NEW D \in All, NEW v, v \in C, -v \in D
    PROVE  /\ Resolvent(C, D, v) \subseteq PresentLits
           /\ \A A : Model(A, All, units) => Sat(A, Resolvent(C, D, v))
<1> DEFINE R == Resolvent(C, D, v)
<1>1. R \subseteq PresentLits /\ C \ {v} \subseteq R /\ D \ {-v} \subseteq R /\ v \in Lits
  BY PresentIsThere DEF Resolvent
<1>2. \A A : Model(A, All, units) => Sat(A, C) /\ Sat(A, D)
  BY DEF Model, IsModel
<1> HIDE DEF R
<1>3. \A A : Model(A, All, units) => Sat(A, R)
  BY <1>1, <1>2, ResolutionHolds
<1>4. QED
  BY <1>1, <1>3 DEF R

LEMMA ParAnticipateShared ==
    ASSUME Mixed, NEW t, ParAnticipate(t)
    PROVE  SharedStep
<1>1. PICK gate, P, N, done :
        Enqueued(core \ (P \cup N), learnts \ (P \cup N), ParUnits(worker[t].var, gate), done) /\ done = {}
  BY DEF ParAnticipate
<1>2. ok
  BY DEF ParAnticipate, At
<1> DEFINE v == worker[t].var
           U == ParUnits(v, gate)
           K == core \ (P \cup N)
           L == learnts \ (P \cup N)
<1>3. ASSUME NEW l \in U
      PROVE  l \in PresentLits /\ \A A : Model(A, All, units) => Holds(A, l)
  <2>1. PICK C \in With(v), D \in With(-v) : l \in Resolvent(C, D, v) /\ Cardinality(Resolvent(C, D, v)) = 1
    BY DEF ParUnits
  <2> DEFINE R == Resolvent(C, D, v)
  <2> HIDE DEF v, U
  <2>2. C \in All /\ D \in All /\ v \in C /\ -v \in D
    BY DEF With
  <2>3. R \subseteq PresentLits /\ \A A : Model(A, All, units) => Sat(A, R)
    BY <2>2, ResolventIsPresent
  <2>4. l \in R /\ Cardinality(R) = 1
    BY <2>1
  <2> HIDE DEF R
  <2>5. R \in SUBSET Lits
    BY <2>3, PresentIsThere
  <2>6. R = {l}
    BY <2>4, <2>5, LitsAreFinite, FS_Singleton
  <2>7. QED
    BY <2>3, <2>4, <2>6 DEF Sat
<1>4. K \cup L \subseteq All
  BY DEF All
<1> HIDE DEF U, K, L
<1>5. K \cup L \subseteq SUBSET PresentLits /\ Tidy(K \cup L)
  BY <1>4, PresentIsThere DEF Tidy
<1>6. \A A : Model(A, All, units) => IsModel(A, K \cup L)
  BY <1>4 DEF Model, IsModel
<1>7. Enqueued(K, L, U, done) /\ done = {}
  BY <1>1 DEF K, L, U
<1>8. U \subseteq PresentLits /\ \A A : Model(A, All, units) => \A l \in U : Holds(A, l)
  BY <1>3
<1>9. \A C \in K \cup L : \A k \in C : \A l \in done : VarOf(k) # VarOf(l)
  BY <1>7
<1>10. QED
  BY <1>2, <1>5, <1>6, <1>7, <1>8, <1>9, EnqueuedShared

LEMMA ParResolveShared ==
    ASSUME Mixed, NEW t, ParResolve(t)
    PROVE  SharedStep
<1> DEFINE v == worker[t].var
           gate == worker[t].gate
           None == {}
<1>1. PICK parents \in 0..2 :
        Enqueued(core \cup ParResolvents(v, gate), learnts \cup ParLearnts(v, gate, parents), None, None)
  BY DEF ParResolve
<1>2. ok
  BY DEF ParResolve, At
<1> DEFINE R == ParResolvents(v, gate)
           S == ParLearnts(v, gate, parents)
           K == core \cup R
           L == learnts \cup S
<1> HIDE DEF v, gate
<1>3. ASSUME NEW C \in R \cup S
      PROVE  C \subseteq PresentLits /\ ~ Tautology(C) /\ \A A : Model(A, All, units) => Sat(A, C)
  <2>1. PICK D, E : D \in With(v) /\ E \in With(-v) /\ Meets(D, E, v) /\ C = Resolvent(D, E, v)
    <3>1. CASE C \in R
      <4>1. C \in ResolventsOf(With(v) \cap core, With(-v) \cap core, v, gate)
        BY <3>1 DEF ParResolvents, ManyLits
      <4>2. QED
        BY <4>1 DEF ResolventsOf
    <3>2. CASE C \in S
      <4>1. \E p \in With(v) \X With(-v) : Meets(p[1], p[2], v) /\ C = Resolvent(p[1], p[2], v)
        BY <3>2 DEF ParLearnts, ManyLits
      <4>2. QED
        BY <4>1
    <3>3. QED
      BY <1>3, <3>1, <3>2
  <2>2. D \in All /\ E \in All /\ v \in D /\ -v \in E
    BY <2>1 DEF With
  <2>3. Resolvent(D, E, v) \subseteq PresentLits /\ \A A : Model(A, All, units) => Sat(A, Resolvent(D, E, v))
    BY <2>2, ResolventIsPresent
  <2>4. QED
    BY <2>1, <2>3 DEF Meets
<1>4. \A C \in K \cup L : C \in All \/ C \in R \cup S
  BY DEF All
<1>5. Enqueued(K, L, None, None)
  BY <1>1
<1> HIDE DEF R, S, K, L
<1>6. K \cup L \subseteq SUBSET PresentLits /\ Tidy(K \cup L)
  BY <1>3, <1>4, PresentIsThere DEF Tidy
<1>7. \A A : Model(A, All, units) => IsModel(A, K \cup L)
  BY <1>3, <1>4 DEF Model, IsModel
<1>8. None \subseteq PresentLits /\ \A A : \A l \in None : Holds(A, l)
  OBVIOUS
<1>9. \A C \in K \cup L : \A k \in C : \A l \in None : VarOf(k) # VarOf(l)
  OBVIOUS
<1> HIDE DEF None
<1>10. QED
  BY <1>2, <1>5, <1>6, <1>7, <1>8, <1>9, EnqueuedShared

LEMMA ParRemoveShared ==
    ASSUME Mixed, NEW t, ParRemove(t)
    PROVE  SharedStep
<1> DEFINE None == {}
           Gone == With(worker[t].var) \cup With(-worker[t].var)
<1>1. Enqueued(core \ Gone, learnts \ Gone, None, None) /\ ok
  BY DEF ParRemove, At
<1>2. core \ Gone \subseteq All /\ learnts \ Gone \subseteq All
  BY DEF All
<1>3. None = {}
  OBVIOUS
<1> HIDE DEF None, Gone
<1>4. QED
  BY <1>1, <1>2, <1>3, RemovingShared

LEMMA ParStrengthenShared ==
    ASSUME Mixed, NEW t, NEW C \in All, NEW D \in All, ParStrengthen(t, C, D)
    PROVE  SharedStep
<1> DEFINE None == {}
<1>1. ok /\ None = {}
  BY DEF ParStrengthen, At
<1>2. CASE C \subseteq D /\ Enqueued((core \ {D}) \cup {C}, learnts \ {C, D}, None, None)
  <2> DEFINE K == (core \ {D}) \cup {C}
             L == learnts \ {C, D}
  <2>1. K \subseteq All /\ L \subseteq All /\ Enqueued(K, L, None, None)
    BY <1>2 DEF All
  <2> HIDE DEF K, L, None
  <2>2. QED
    BY <1>1, <2>1, RemovingShared
<1>3. CASE C \subseteq D /\ Enqueued(core, learnts \ {D}, None, None)
  <2> DEFINE L == learnts \ {D}
  <2>1. core \subseteq All /\ L \subseteq All /\ Enqueued(core, L, None, None)
    BY <1>3 DEF All
  <2> HIDE DEF L, None
  <2>2. QED
    BY <1>1, <2>1, RemovingShared
<1>4. ASSUME NEW l \in C, -l \in D, C \ {l} \subseteq D, NEW K, NEW L, NEW U,
             K \cup L \subseteq All \cup {D \ {-l}}, U \subseteq D \ {-l},
             U = {} \/ Cardinality(D \ {-l}) = 1, Enqueued(K, L, U, None)
      PROVE  SharedStep
  <2> DEFINE E == D \ {-l}
  <2>1. l \in Lits /\ E \subseteq PresentLits /\ ~ Tautology(E)
    BY PresentIsThere DEF Tautology
  <2>2. ASSUME NEW A, Model(A, All, units) PROVE Sat(A, E)
    <3>1. Sat(A, C) /\ Sat(A, D)
      BY <2>2 DEF Model, IsModel
    <3>2. -l \notin C
      BY PresentIsThere DEF Tautology
    <3>3. C \ {l} \subseteq E /\ D \ {-l} \subseteq E
      BY <1>4, <3>2
    <3> HIDE DEF E
    <3>4. QED
      BY <3>1, <3>3, <2>1, ResolutionHolds
  <2>3. K \cup L \subseteq All \cup {E} /\ U \subseteq E /\ (U = {} \/ Cardinality(E) = 1) /\ E \in SUBSET Lits
    BY <1>4, PresentIsThere
  <2> HIDE DEF E
  <2>4. K \cup L \subseteq SUBSET PresentLits /\ Tidy(K \cup L)
    BY <2>1, <2>3, PresentIsThere DEF Tidy
  <2>5. ASSUME NEW A, Model(A, All, units) PROVE IsModel(A, K \cup L) /\ \A k \in U : Holds(A, k)
    <3>1. IsModel(A, K \cup L)
      BY <2>2, <2>3, <2>5 DEF Model, IsModel
    <3>2. ASSUME NEW k \in U PROVE Holds(A, k)
      <4>1. Cardinality(E) = 1 /\ k \in E
        BY <2>3
      <4>2. E = {k}
        BY <4>1, <2>3, LitsAreFinite, FS_Singleton
      <4>3. QED
        BY <4>2, <2>2, <2>5 DEF Sat
    <3>3. QED
      BY <3>1, <3>2
  <2>6. \A X \in K \cup L : \A k \in X : \A m \in None : VarOf(k) # VarOf(m)
    OBVIOUS
  <2>7. U \subseteq PresentLits
    BY <2>1, <2>3
  <2>8. Enqueued(K, L, U, None) /\ ok
    BY <1>1, <1>4
  <2>9. \A A \in SUBSET (Vars \ fresh) :
          Model(A, All, units) => IsModel(A, K \cup L) /\ \A k \in U : Holds(A, k)
    BY <2>5
  <2> HIDE DEF None
  <2>10. QED
    BY <2>4, <2>6, <2>7, <2>8, <2>9, EnqueuedShared
<1>5. ASSUME NEW l \in C, -l \in D, C \ {l} \subseteq D, NEW U,
             U = IF Cardinality(D \ {-l}) = 1 THEN D \ {-l} ELSE {},
             \/ Enqueued((core \ {D}) \cup {D \ {-l}}, learnts \ {D}, U, None)
             \/ Enqueued(core, (learnts \ {D}) \cup {D \ {-l}}, U, None)
      PROVE  SharedStep
  <2>1. U \subseteq D \ {-l} /\ (U = {} \/ Cardinality(D \ {-l}) = 1)
    BY <1>5
  <2> HIDE DEF None
  <2>2. CASE Enqueued((core \ {D}) \cup {D \ {-l}}, learnts \ {D}, U, None)
    <3> DEFINE K == (core \ {D}) \cup {D \ {-l}}
               L == learnts \ {D}
    <3>1. K \cup L \subseteq All \cup {D \ {-l}} /\ Enqueued(K, L, U, None)
      BY <2>2 DEF All
    <3> HIDE DEF K, L
    <3>2. QED
      BY <1>4, <1>5, <2>1, <3>1
  <2>3. CASE Enqueued(core, (learnts \ {D}) \cup {D \ {-l}}, U, None)
    <3> DEFINE L == (learnts \ {D}) \cup {D \ {-l}}
    <3>1. core \cup L \subseteq All \cup {D \ {-l}} /\ Enqueued(core, L, U, None)
      BY <2>3 DEF All
    <3> HIDE DEF L
    <3>2. QED
      BY <1>4, <1>5, <2>1, <3>1
  <2>4. QED
    BY <1>5, <2>2, <2>3
<1>6. QED
  BY <1>2, <1>3, <1>5 DEF ParStrengthen

LEMMA ParPropagateShared ==
    ASSUME Mixed, NEW t, NEW l \in pending, ParPropagate(t, l)
    PROVE  SharedStep
<1> DEFINE Shorter(F) == {C \ {-l} : C \in {D \in F : l \notin D}}
           K == Shorter(core)
           L == Shorter(learnts)
           U == UNION {E \in Shorter(All) : Cardinality(E) = 1}
           done == {l}
<1>1. ok /\ Enqueued(K, L, U, done)
  BY DEF ParPropagate, At
<1>2. l \in units /\ l \in Lits
  BY DEF Mixed, LitsWithout
<1>3. ASSUME NEW E, E \in K \cup L \/ E \in Shorter(All)
      PROVE  /\ E \subseteq PresentLits /\ ~ Tautology(E) /\ l \notin E /\ -l \notin E
             /\ \A A : Model(A, All, units) => Sat(A, E)
  <2>1. PICK D \in All : l \notin D /\ E = D \ {-l}
    BY <1>3 DEF All
  <2>2. E \subseteq PresentLits /\ ~ Tautology(E) /\ l \notin E /\ -l \notin E
    BY <2>1, PresentIsThere DEF Tautology
  <2>3. ASSUME NEW A, Model(A, All, units) PROVE Sat(A, E)
    <3>1. Sat(A, D) /\ Holds(A, l)
      BY <2>3, <1>2 DEF Model, IsModel
    <3>2. ~ Holds(A, -l)
      BY <3>1, <1>2, LitFacts, HoldsFlip
    <3>3. QED
      BY <3>1, <3>2, <2>1 DEF Sat
  <2>4. QED
    BY <2>2, <2>3
<1>4. ASSUME NEW k \in U
      PROVE  k \in PresentLits /\ \A A : Model(A, All, units) => Holds(A, k)
  <2>1. PICK E \in Shorter(All) : Cardinality(E) = 1 /\ k \in E
    OBVIOUS
  <2> HIDE DEF K, L, U, Shorter
  <2>2. E \subseteq PresentLits /\ \A A : Model(A, All, units) => Sat(A, E)
    BY <1>3
  <2>3. E \in SUBSET Lits
    BY <2>2, PresentIsThere
  <2>4. E = {k}
    BY <2>1, <2>3, LitsAreFinite, FS_Singleton
  <2>5. QED
    BY <2>1, <2>2, <2>4 DEF Sat
<1> HIDE DEF K, L, U, Shorter
<1>5. K \cup L \subseteq SUBSET PresentLits /\ Tidy(K \cup L)
  BY <1>3 DEF Tidy
<1>6. \A A : Model(A, All, units) => IsModel(A, K \cup L) /\ \A k \in U : Holds(A, k)
  BY <1>3, <1>4 DEF IsModel
<1>7. ASSUME NEW C \in K \cup L, NEW k \in C PROVE VarOf(k) # VarOf(l)
  <2>1. k \in Lits /\ k # l /\ k # -l
    BY <1>3, PresentIsThere
  <2>2. QED
    BY <2>1, <1>2, LitFacts DEF VarOf
<1>8. \A C \in K \cup L : \A k \in C : \A m \in done : VarOf(k) # VarOf(m)
  BY <1>7
<1>9. U \subseteq PresentLits
  BY <1>4
<1> HIDE DEF done
<1>10. QED
  BY <1>1, <1>5, <1>6, <1>8, <1>9, EnqueuedShared

LEMMA ParallelShared ==
    ASSUME Mixed, ParallelNext
    PROVE  SharedStep
<1>1. ASSUME NEW t, NEW v, ParLook(t, v) PROVE SharedStep
  BY <1>1, NothingShared DEF ParLook, At
<1>2. ASSUME NEW t, ParLockAgain(t) \/ ParLetGo(t) PROVE SharedStep
  BY <1>2, NothingShared DEF ParLockAgain, ParLetGo, At, vars
<1>3. QED
  BY <1>1, <1>2, ParAnticipateShared, ParResolveShared, ParRemoveShared, ParStrengthenShared, ParPropagateShared
     DEF ParallelNext

-----------------------------------------------------------------------------
(* What threads remove comes back from the stack *)

\* Resolvents of one literal have become units.
UnitsHold(A, l, gate) ==
    \A C \in With(l), D \in With(-l) :
        Resolved(C, D, gate) /\ Cardinality(Resolvent(C, D, l)) = 1 => Sat(A, Resolvent(C, D, l))

\* The clauses that are kept have two literals at least and are no tautologies.
Long == (\A C \in All : Cardinality(C) > 1) /\ Tidy(All)

LEMMA ParUnitsHold ==
    ASSUME NEW v, NEW gate, NEW A, \A k \in ParUnits(v, gate) : Holds(A, k)
    PROVE  UnitsHold(A, v, gate)
<1>1. SUFFICES ASSUME NEW C \in With(v), NEW D \in With(-v), Resolved(C, D, gate),
                      Cardinality(Resolvent(C, D, v)) = 1
               PROVE  Sat(A, Resolvent(C, D, v))
  BY DEF UnitsHold
<1> DEFINE R == Resolvent(C, D, v)
<1>2. Cardinality(R) = 1
  BY <1>1
<1>3. <<C, D>> \in With(v) \X With(-v) /\ <<C, D>>[1] = C /\ <<C, D>>[2] = D
  OBVIOUS
<1>4. \A k \in R : k \in ParUnits(v, gate)
  BY <1>1, <1>3 DEF ParUnits
<1> HIDE DEF R
<1>5. R # {}
  BY <1>2, FS_EmptySet
<1>6. PICK k \in R : Holds(A, k)
  BY <1>4, <1>5
<1>7. QED
  BY <1>6 DEF R, Sat

LEMMA UnitsHoldFlipped ==
    ASSUME NEW l \in Lits, NEW gate, NEW A, UnitsHold(A, l, gate)
    PROVE  UnitsHold(A, -l, gate)
<1>1. -(-l) = l /\ l \in Int
  BY LitFacts
<1>2. SUFFICES ASSUME NEW C \in With(-l), NEW D \in With(l), Resolved(C, D, gate),
                      Cardinality(Resolvent(C, D, -l)) = 1
               PROVE  Sat(A, Resolvent(C, D, -l))
  BY <1>1 DEF UnitsHold
<1>3. Resolvent(C, D, -l) = Resolvent(D, C, l) /\ Resolved(D, C, gate)
  BY <1>1, <1>2, SymmetricResolvent
<1>4. QED
  BY <1>2, <1>3 DEF UnitsHold

\* A clause that has no resolvents but tautologies and units: making its literal true
\* satisfies all clauses again.
LEMMA ParBlockedMeans ==
    ASSUME Typed, NEW l \in Lits, NEW gate, gate = {} \/ IsGate(gate, l), NEW A,
           IsModel(A, core \ (ParBlocked(l, gate) \cup ParBlocked(-l, gate))),
           UnitsHold(A, l, gate),
           ~ IsModel(A, ParBlocked(l, gate) \cap core)
    PROVE  IsModel(MadeTrue(A, l), core)
<1> DEFINE B == ParBlocked(l, gate) \cup ParBlocked(-l, gate)
           A1 == MadeTrue(A, l)
<1>1. PICK C \in ParBlocked(l, gate) \cap core : ~ Sat(A, C)
  BY DEF IsModel
<1>2. /\ l \in C /\ C \in core
      /\ \A D \in With(-l) : Resolved(C, D, gate) /\ D \in core =>
            ~ Meets(C, D, l) \/ Cardinality(Resolvent(C, D, l)) = 1
  BY <1>1 DEF ParBlocked, With
<1>3. \A E \in core : E \in Clause /\ \A k \in E : k \in Lits
  BY DEF Typed, Formula, Clause
<1>4. l \in Int /\ l # 0 /\ -l \in Lits /\ -(-l) = l /\ -l # l
  BY LitFacts
<1>5. Holds(A1, l) /\ ~ Holds(A, l) /\ ~ Holds(A1, -l)
  BY <1>1, <1>2, <1>4, MadeTrueHolds, HoldsFlip DEF Sat
<1>6. \A k \in Lits : k # l /\ ~ Holds(A, k) => ~ Holds(A1, k)
  BY <1>4, LitFacts, MadeTrueHolds
<1>7. \A k \in Lits : k # -l /\ ~ Holds(A1, k) => ~ Holds(A, k)
  BY <1>4, LitFacts, MadeTrueHolds
<1>8. \A k \in C \ {l} : ~ Holds(A1, k) /\ ~ Holds(A, k)
  BY <1>1, <1>2, <1>3, <1>6 DEF Sat
<1> HIDE DEF A1
<1>9. SUFFICES ASSUME NEW D \in core PROVE Sat(A1, D)
  BY DEF A1, IsModel
<1>10. CASE l \in D
  BY <1>10, <1>5 DEF Sat
<1>11. CASE l \notin D /\ -l \notin D
  <2>1. D \notin B
    BY <1>11 DEF ParBlocked, With
  <2>2. Sat(A, D)
    BY <2>1 DEF IsModel
  <2>3. QED
    BY <2>2, <1>11, <1>3, FlipStays DEF A1
<1>12. CASE l \notin D /\ -l \in D
  <2>1. SUFFICES ASSUME ~ Sat(A1, D) PROVE FALSE
    OBVIOUS
  <2>2. \A k \in D : ~ Holds(A1, k)
    BY <2>1 DEF Sat
  <2>3. \A k \in D \ {-l} : ~ Holds(A, k)
    BY <2>2, <1>3, <1>7
  <2>4. D \in With(-l) /\ C \in With(l)
    BY <1>2, <1>12 DEF With, All
  <2>5. Meets(C, D, l) /\ ~ Sat(A, Resolvent(C, D, l))
    BY <1>2, <1>3, <1>8, <2>3, FalseResolvent
  <2>6. ~ Resolved(C, D, gate)
    BY <1>2, <2>4, <2>5 DEF UnitsHold
  <2>7. gate # {} /\ IsGate(gate, l) /\ (C \in gate <=> D \in gate)
    BY <2>6 DEF Resolved
  <2>8. CASE C \in gate /\ D \in gate
    <3>1. PICK k \in C \ {l} : -k \in D \ {-l}
      BY <2>7, <2>8, <1>2, <1>12 DEF IsGate
    <3>2. ~ Holds(A, k) /\ ~ Holds(A, -k)
      BY <3>1, <1>8, <2>3
    <3>3. QED
      BY <3>1, <3>2, <1>2, <1>3, LitFacts, HoldsFlip
  <2>9. CASE C \notin gate /\ D \notin gate
    <3>1. PICK g \in gate : Depends(A, g, l) \/ Depends(A, g, -l)
      BY <2>7 DEF IsGate
    <3>2. g \in core /\ g \in Clause
      BY <2>7, <1>3 DEF IsGate
    <3>3. CASE Depends(A, g, -l)
      <4>1. Meets(C, g, l) /\ ~ Sat(A, Resolvent(C, g, l))
        BY <3>2, <3>3, <1>2, <1>3, <1>8, FalseResolvent DEF Depends
      <4>2. g \in With(-l) /\ Resolved(C, g, gate)
        BY <3>2, <3>3, <2>9 DEF With, All, Depends, Resolved
      <4>3. QED
        BY <4>1, <4>2, <3>2, <1>2, <2>4 DEF UnitsHold
    <3>4. CASE Depends(A, g, l)
      <4>1. Meets(g, D, l) /\ ~ Sat(A, Resolvent(g, D, l))
        BY <3>2, <3>4, <1>3, <2>3, FalseResolvent DEF Depends
      <4>2. Resolved(g, D, gate) /\ g \in With(l)
        BY <2>9, <3>2, <3>4 DEF Resolved, With, All, Depends
      <4>3. g \notin ParBlocked(l, gate)
        BY <4>1, <4>2, <2>4, <1>9 DEF ParBlocked, UnitsHold
      <4>4. g \notin ParBlocked(-l, gate)
        BY <3>4 DEF ParBlocked, With, Depends
      <4>5. Sat(A, g)
        BY <4>3, <4>4, <3>2 DEF IsModel
      <4>6. \A k \in g : ~ Holds(A, k)
        BY <3>4, <1>5 DEF Depends
      <4>7. QED
        BY <4>5, <4>6 DEF Sat
    <3>5. QED
      BY <3>1, <3>3, <3>4
  <2>10. QED
    BY <2>7, <2>8, <2>9
<1>13. QED
  BY <1>10, <1>11, <1>12

\* The core clauses with l that are not removed.
Rest(l, B) == (With(l) \cap core) \ B

\* The resolvents that are added and the units give all resolvents of what is left.
LEMMA AllResolventsHold ==
    ASSUME Typed, Long, NEW l \in Lits, NEW gate, gate = {} \/ IsGate(gate, l), NEW B,
           B = {} \/ B = ParBlocked(l, gate) \cup ParBlocked(-l, gate), NEW A,
           UnitsHold(A, l, gate),
           \A C \in Rest(l, B), D \in Rest(-l, B) :
              Resolved(C, D, gate) /\ Meets(C, D, l) /\ Cardinality(Resolvent(C, D, l)) > 1
                 => Sat(A, Resolvent(C, D, l))
    PROVE  \A C \in Rest(l, B), D \in Rest(-l, B) : Sat(A, Resolvent(C, D, l))
<1> DEFINE P == Rest(l, B)
           N == Rest(-l, B)
<1>a. P = (With(l) \cap core) \ B /\ N = (With(-l) \cap core) \ B
  BY DEF Rest
<1>b. \A C \in P, D \in N :
         Resolved(C, D, gate) /\ Meets(C, D, l) /\ Cardinality(Resolvent(C, D, l)) > 1 => Sat(A, Resolvent(C, D, l))
  OBVIOUS
<1>c. SUFFICES \A C \in P, D \in N : Sat(A, Resolvent(C, D, l))
  OBVIOUS
<1> HIDE DEF P, N
<1> USE <1>a, <1>b
<1>1. l \in Int /\ l # 0 /\ -l \in Lits /\ -(-l) = l /\ -l # l
  BY LitFacts
<1>2. \A E \in core : E \in Clause /\ Cardinality(E) > 1
  BY DEF Typed, Formula, Long, All
<1>3. ASSUME NEW C \in P, NEW D \in N, Resolved(C, D, gate), Meets(C, D, l)
      PROVE  Sat(A, Resolvent(C, D, l))
  <2> DEFINE R == Resolvent(C, D, l)
  <2>1. R \in Clause /\ C \in With(l) /\ D \in With(-l) /\ C \in core /\ l \in C
    BY <1>2, ResolventTyped DEF With
  <2>2. R # {}
    <3>1. SUFFICES ASSUME R = {} PROVE FALSE
      OBVIOUS
    <3>2. C = {l}
      BY <3>1, <2>1 DEF Resolvent
    <3>3. Cardinality(C) > 1
      BY <2>1, <1>2
    <3>4. Cardinality(C) = 1
      BY <3>2, FS_Singleton
    <3>5. QED
      BY <3>3, <3>4
  <2>3. Cardinality(R) \in Nat /\ Cardinality(R) # 0
    BY <2>1, <2>2, LitsAreFinite, FS_EmptySet, FS_CardinalityType DEF Clause
  <2>4. CASE Cardinality(R) = 1
    BY <1>3, <2>1, <2>4 DEF UnitsHold
  <2>5. CASE Cardinality(R) > 1
    BY <1>3, <2>5
  <2> HIDE DEF R
  <2>6. Cardinality(R) = 1 \/ Cardinality(R) > 1
    BY <2>3
  <2>7. QED
    BY <2>4, <2>5, <2>6
<1>4. SUFFICES ASSUME NEW C \in P, NEW D \in N, ~ Sat(A, Resolvent(C, D, l)) PROVE FALSE
  OBVIOUS
<1>5. C \in Clause /\ D \in Clause /\ C \in core /\ D \in core /\ l \in C /\ -l \in D
      /\ C \in With(l) /\ D \in With(-l) /\ C \notin B /\ D \notin B
  BY <1>2 DEF With
<1>6. (\A k \in C \ {l} : ~ Holds(A, k)) /\ (\A k \in D \ {-l} : ~ Holds(A, k))
  BY <1>4 DEF Sat, Resolvent
<1>7. Meets(C, D, l)
  BY <1>5, <1>6, FalseResolvent
<1>8. ~ Resolved(C, D, gate)
  BY <1>3, <1>4, <1>7
<1>9. gate # {} /\ IsGate(gate, l) /\ (C \in gate <=> D \in gate)
  BY <1>8 DEF Resolved
<1>10. CASE C \in gate /\ D \in gate
  <2>1. PICK k \in C \ {l} : -k \in D \ {-l}
    BY <1>9, <1>10, <1>5 DEF IsGate
  <2>2. k \in Lits /\ ~ Holds(A, k) /\ ~ Holds(A, -k)
    BY <2>1, <1>5, <1>6 DEF Clause
  <2>3. QED
    BY <2>2, LitFacts, HoldsFlip
<1>11. CASE C \notin gate /\ D \notin gate
  <2>1. PICK g \in gate : Depends(A, g, l) \/ Depends(A, g, -l)
    BY <1>9 DEF IsGate
  <2>2. g \in core /\ g \in Clause
    BY <1>9, <1>2 DEF IsGate
  <2>3. CASE Depends(A, g, -l)
    <3>1. Meets(C, g, l) /\ ~ Sat(A, Resolvent(C, g, l))
      BY <2>2, <2>3, <1>5, <1>6, FalseResolvent DEF Depends
    <3>2. g \in With(-l) /\ l \notin g /\ Resolved(C, g, gate) /\ Resolved(g, C, gate)
      BY <2>2, <2>3, <1>1, <1>11 DEF With, All, Depends, Resolved
    <3>3. g \in B
      BY <3>1, <3>2, <2>2, <1>3
    <3>4. g \in ParBlocked(-l, gate)
      BY <3>2, <3>3 DEF ParBlocked, With
    <3>5. Meets(g, C, -l) /\ Resolvent(g, C, -l) = Resolvent(C, g, l)
      BY <3>1, <1>1, SymmetricResolvent
    <3>6. Cardinality(Resolvent(C, g, l)) = 1
      BY <3>2, <3>4, <3>5, <1>1, <1>5 DEF ParBlocked
    <3>7. QED
      BY <3>1, <3>2, <3>6, <1>5 DEF UnitsHold
  <2>4. CASE Depends(A, g, l)
    <3>1. Meets(g, D, l) /\ ~ Sat(A, Resolvent(g, D, l))
      BY <2>2, <2>4, <1>5, <1>6, FalseResolvent DEF Depends
    <3>2. g \in With(l) /\ -l \notin g /\ Resolved(g, D, gate)
      BY <2>2, <2>4, <1>11 DEF With, All, Depends, Resolved
    <3>3. g \in B
      BY <3>1, <3>2, <2>2, <1>3
    <3>4. g \in ParBlocked(l, gate)
      BY <3>2, <3>3 DEF ParBlocked, With
    <3>5. Cardinality(Resolvent(g, D, l)) = 1
      BY <3>1, <3>2, <3>4, <1>5 DEF ParBlocked
    <3>6. QED
      BY <3>1, <3>2, <3>5, <1>5 DEF UnitsHold
  <2>5. QED
    BY <2>1, <2>3, <2>4
<1>12. QED
  BY <1>9, <1>10, <1>11

\* The stack of blocked clauses, or of all clauses of a variable: first those with -v.
LEMMA TwoListsUndone ==
    ASSUME NEW v \in Lits, Flippable(v), Flippable(-v),
           NEW P \in Formula, \A C \in P : v \in C, NEW N \in Formula, \A C \in N : -v \in C
    PROVE  /\ Pushable(Entries(P, v) \o Entries(N, -v))
           /\ \A A : LET A1 == IF IsModel(A, N) THEN A ELSE MadeTrue(A, -v)
                     IN  Undone(Entries(P, v) \o Entries(N, -v), A) =
                            IF IsModel(A1, P) THEN A1 ELSE MadeTrue(A1, v)
<1>1. /\ Pushable(Entries(P, v)) /\ Pushable(Entries(N, -v))
      /\ \A X : Undone(Entries(P, v), X) = IF IsModel(X, P) THEN X ELSE MadeTrue(X, v)
      /\ \A X : Undone(Entries(N, -v), X) = IF IsModel(X, N) THEN X ELSE MadeTrue(X, -v)
  BY PushableEntries
<1>2. /\ Pushable(Entries(P, v) \o Entries(N, -v))
      /\ \A X : Undone(Entries(P, v) \o Entries(N, -v), X) = Undone(Entries(P, v), Undone(Entries(N, -v), X))
  BY <1>1, PushableConcat
<1>3. QED
  BY <1>1, <1>2

-----------------------------------------------------------------------------
(* The steps of threads are good steps *)

\* The entries E are pushed, and a model of the clauses that are kept and of the units that
\* are found becomes one of what was there.
LEMMA EnqueuedGood ==
    ASSUME Typed, ok, NEW K \in Formula, NEW L \in Formula, NEW U \in SUBSET Lits, NEW done,
           Enqueued(K, L, U, done), NEW E, Pushable(E), undo' = undo \o E,
           \A A : Model(A, {C \in K : Cardinality(C) > 1}, U \cup units) => IsModel(Undone(E, A), core)
    PROVE  GoodStep
<1> DEFINE M == {C \in K : Cardinality(C) > 1}
           N == {C \in L : Cardinality(C) > 1}
<1>1. M \in Formula /\ N \in Formula
  BY DEF Formula
<1>2. /\ fresh' = fresh /\ start' = start
      /\ \/ ok' = FALSE /\ UNCHANGED <<core, learnts, units>>
         \/ core' = M /\ learnts' = N /\ units' = units \cup U /\ ok' = ok
  BY DEF Enqueued
<1>3. \A A : Model(A, M, U \cup units) => IsModel(Undone(E, A), core)
  OBVIOUS
<1> HIDE DEF M, N
<1>4. E \in Seq(Entry) /\ \A i \in 1..Len(E) : Flippable(E[i].lit)
  BY DEF Pushable
<1>5. \A i \in 1..Len(E) : VarOf(E[i].lit) \notin start.frozen
  BY <1>4, FlippableFacts
<1>6. ASSUME ok', NEW A, Model(A, core', units') PROVE Model(Undone(E, A), core, units)
  <2>1. core' = M /\ units' = units \cup U
    BY <1>2, <1>6
  <2>2. Model(A, M, U \cup units) /\ \A l \in units : Holds(A, l)
    BY <1>6, <2>1 DEF Model
  <2>3. \A l \in units : Holds(Undone(E, A), l)
    BY <1>4, <2>2, UnitsStay
  <2>4. QED
    BY <1>3, <2>2, <2>3 DEF Model
<1>7. Extends(E)
  BY <1>4, <1>5, <1>6 DEF Extends
<1>8. /\ core' \in Formula /\ learnts' \in Formula /\ units' \in SUBSET Lits
      /\ fresh' \in SUBSET Vars /\ ok' \in BOOLEAN
  BY <1>1, <1>2 DEF Typed
<1>9. QED
  BY <1>2, <1>7, <1>8 DEF GoodStep

\* The same without entries.
LEMMA EnqueuedOnlyGood ==
    ASSUME Typed, ok, NEW K \in Formula, NEW L \in Formula, NEW U \in SUBSET Lits, NEW done,
           Enqueued(K, L, U, done), undo' = undo,
           \A A : Model(A, {C \in K : Cardinality(C) > 1}, U \cup units) => IsModel(A, core)
    PROVE  GoodStep
<1> DEFINE X == Entry
           E == << >>
<1>1. undo \in Seq(X)
  BY DEF Typed
<1> HIDE DEF X
<1>2. undo' = undo \o E /\ E \in Seq(X) /\ Len(E) = 0
  BY <1>1
<1>3. \A A : Undone(E, A) = A
  BY UndoneNone
<1> HIDE DEF E
<1>4. Pushable(E)
  BY <1>2 DEF Pushable, X
<1>5. \A A : Model(A, {C \in K : Cardinality(C) > 1}, U \cup units) => IsModel(Undone(E, A), core)
  BY <1>3
<1>6. QED
  BY <1>2, <1>4, <1>5, EnqueuedGood

\* Clauses, units and the stack stay.
LEMMA NothingGood ==
    ASSUME Typed, UNCHANGED <<core, learnts, units, ok, undo, fresh, start>>
    PROVE  GoodStep
<1> DEFINE X == Entry
           E == << >>
<1>1. undo \in Seq(X)
  BY DEF Typed
<1> HIDE DEF X
<1>2. undo' = undo \o E /\ E \in Seq(X) /\ Len(E) = 0
  BY <1>1
<1>3. \A A : Undone(E, A) = A
  BY UndoneNone
<1> HIDE DEF E
<1>4. Extends(E)
  BY <1>2, <1>3 DEF Extends, X
<1>5. QED
  BY <1>4 DEF GoodStep, Typed

LEMMA MixedIsLong ==
    ASSUME Mixed
    PROVE  Long
BY DEF Mixed, Long

\* A clause of two literals keeps one when another is removed.
LEMMA SomethingStays ==
    ASSUME NEW C, Cardinality(C) > 1, NEW l
    PROVE  C \ {l} # {}
<1>1. SUFFICES ASSUME C \ {l} = {} PROVE FALSE
  OBVIOUS
<1>2. CASE C = {}
  BY <1>2, FS_EmptySet
<1>3. CASE C = {l}
  <2>1. Cardinality(C) = 1
    BY <1>3, FS_Singleton
  <2>2. QED
    BY <2>1
<1>4. QED
  BY <1>1, <1>2, <1>3

\* A strengthened clause that is not kept is a unit.
LEMMA SmallIsSatisfied ==
    ASSUME NEW E \in Clause, E # {}, NEW A,
           Cardinality(E) > 1 => Sat(A, E), Cardinality(E) = 1 => \A l \in E : Holds(A, l)
    PROVE  Sat(A, E)
<1>1. Cardinality(E) \in Nat /\ Cardinality(E) # 0
  BY LitsAreFinite, FS_EmptySet, FS_CardinalityType DEF Clause
<1>2. CASE Cardinality(E) = 1
  BY <1>2 DEF Sat
<1>3. CASE Cardinality(E) > 1
  BY <1>3
<1>4. QED
  BY <1>1, <1>2, <1>3

\* A clause D becomes X, and nothing else is changed.
Replaces(C, D, X, K, L, U) ==
    /\ X \subseteq D /\ X # {} /\ VarsOf(C) \subseteq VarsOf(D)
    /\ core \ {D} \subseteq K /\ K \subseteq core \cup {X} /\ L \subseteq learnts \cup {X}
    /\ D \in core => X \in K
    /\ D \notin core => K = core
    /\ U = IF Cardinality(X) = 1 THEN X ELSE {}

LEMMA ParStrengthenIs ==
    ASSUME Typed, Mixed, NEW t, NEW C \in All, NEW D \in All, ParStrengthen(t, C, D)
    PROVE  \E X, K, L, U, done : Replaces(C, D, X, K, L, U) /\ Enqueued(K, L, U, done) /\ done = {}
<1> DEFINE None == {}
<1>1. \A F \in All : F \in Clause /\ Cardinality(F) > 1
  BY DEF Typed, Mixed, All, Formula
<1>2. CASE C \subseteq D /\ D \in core /\ Enqueued((core \ {D}) \cup {C}, learnts \ {C, D}, None, None)
  <2> DEFINE K == (core \ {D}) \cup {C}
             L == learnts \ {C, D}
  <2>1. C # {}
    BY <1>1, SomethingStays
  <2>2. Cardinality(C) # 1 /\ VarsOf(C) \subseteq VarsOf(D)
    BY <1>1, <1>2 DEF VarsOf
  <2>3. Replaces(C, D, C, K, L, None)
    BY <1>2, <2>1, <2>2 DEF Replaces
  <2>4. Enqueued(K, L, None, None)
    BY <1>2
  <2> HIDE DEF K, L, None
  <2>5. QED
    BY <2>3, <2>4 DEF None
<1>3. CASE C \subseteq D /\ D \notin core /\ Enqueued(core, learnts \ {D}, None, None)
  <2> DEFINE L == learnts \ {D}
  <2>1. C # {}
    BY <1>1, SomethingStays
  <2>2. Cardinality(C) # 1 /\ VarsOf(C) \subseteq VarsOf(D)
    BY <1>1, <1>3 DEF VarsOf
  <2>3. Replaces(C, D, C, core, L, None)
    BY <1>3, <2>1, <2>2 DEF Replaces
  <2>4. Enqueued(core, L, None, None)
    BY <1>3
  <2> HIDE DEF L, None
  <2>5. QED
    BY <2>3, <2>4 DEF None
<1>4. ASSUME NEW l \in C, -l \in D, C \ {l} \subseteq D, NEW U,
             U = IF Cardinality(D \ {-l}) = 1 THEN D \ {-l} ELSE {},
             \/ D \in core /\ Enqueued((core \ {D}) \cup {D \ {-l}}, learnts \ {D}, U, None)
             \/ D \notin core /\ Enqueued(core, (learnts \ {D}) \cup {D \ {-l}}, U, None)
      PROVE  \E X, K, L, V, done : Replaces(C, D, X, K, L, V) /\ Enqueued(K, L, V, done) /\ done = {}
  <2> DEFINE X == D \ {-l}
  <2>1. X # {}
    BY <1>1, SomethingStays
  <2>2. VarsOf(C) \subseteq VarsOf(D)
    <3>1. l \in Lits
      BY <1>1 DEF Clause
    <3>2. VarOf(l) = VarOf(-l)
      BY <3>1, LitFacts
    <3>3. QED
      BY <1>4, <3>2 DEF VarsOf
  <2>3. X \subseteq D /\ U = IF Cardinality(X) = 1 THEN X ELSE {}
    BY <1>4
  <2>4. \/ D \in core /\ Enqueued((core \ {D}) \cup {X}, learnts \ {D}, U, None)
        \/ D \notin core /\ Enqueued(core, (learnts \ {D}) \cup {X}, U, None)
    BY <1>4
  <2> HIDE DEF X
  <2>5. CASE D \in core /\ Enqueued((core \ {D}) \cup {X}, learnts \ {D}, U, None)
    <3> DEFINE K == (core \ {D}) \cup {X}
               L == learnts \ {D}
    <3>1. Replaces(C, D, X, K, L, U)
      BY <2>1, <2>2, <2>3, <2>5 DEF Replaces
    <3>2. Enqueued(K, L, U, None)
      BY <2>5
    <3> HIDE DEF K, L
    <3>3. QED
      BY <3>1, <3>2 DEF None
  <2>6. CASE D \notin core /\ Enqueued(core, (learnts \ {D}) \cup {X}, U, None)
    <3> DEFINE L == (learnts \ {D}) \cup {X}
    <3>1. Replaces(C, D, X, core, L, U)
      BY <2>1, <2>2, <2>3, <2>6 DEF Replaces
    <3>2. Enqueued(core, L, U, None)
      BY <2>6
    <3> HIDE DEF L
    <3>3. QED
      BY <3>1, <3>2 DEF None
  <2>7. QED
    BY <2>4, <2>5, <2>6
<1>5. QED
  BY <1>2, <1>3, <1>4 DEF ParStrengthen

LEMMA ParStrengthenGood ==
    ASSUME Typed, Mixed, NEW t, NEW C \in All, NEW D \in All, ParStrengthen(t, C, D)
    PROVE  GoodStep
<1>1. PICK X, K, L, U, done : Replaces(C, D, X, K, L, U) /\ Enqueued(K, L, U, done)
  BY ParStrengthenIs
<1>2. \A F \in All : F \in Clause /\ Cardinality(F) > 1
  BY DEF Typed, Mixed, All, Formula
<1>3. X \in Clause /\ X # {} /\ X \subseteq D
  BY <1>1, <1>2 DEF Replaces, Clause
<1>4. K \in Formula /\ L \in Formula /\ U \in SUBSET Lits
  BY <1>1, <1>3 DEF Replaces, Typed, Formula, Clause
<1>5. ASSUME NEW A, Model(A, {F \in K : Cardinality(F) > 1}, U \cup units) PROVE IsModel(A, core)
  <2>1. SUFFICES ASSUME NEW F \in core PROVE Sat(A, F)
    BY DEF IsModel
  <2>2. CASE F \in K
    BY <2>2, <1>2, <1>5 DEF Model, IsModel, All
  <2>3. CASE F \notin K
    <3>1. F = D /\ X \in K
      BY <2>3, <1>1 DEF Replaces
    <3>2. Cardinality(X) > 1 => Sat(A, X)
      BY <3>1, <1>5 DEF Model, IsModel
    <3>3. Cardinality(X) = 1 => \A l \in X : Holds(A, l)
      BY <1>1, <1>5 DEF Model, Replaces
    <3>4. Sat(A, X)
      BY <1>3, <3>2, <3>3, SmallIsSatisfied
    <3>5. QED
      BY <3>1, <3>4, <1>3 DEF Sat
  <2>4. QED
    BY <2>2, <2>3
<1>6. ok /\ undo' = undo
  BY DEF ParStrengthen, At
<1>7. QED
  BY <1>1, <1>4, <1>5, <1>6, EnqueuedOnlyGood

\* What propagation leaves of F.
Shortened(F, l) == {C \ {-l} : C \in {D \in F : l \notin D}}
NewUnits(l) == UNION {E \in Shortened(All, l) : Cardinality(E) = 1}

LEMMA ParPropagateIs ==
    ASSUME NEW t, NEW l, ParPropagate(t, l)
    PROVE  \E done : /\ Enqueued(Shortened(core, l), Shortened(learnts, l), NewUnits(l), done)
                     /\ done = {l} /\ ok /\ undo' = undo
BY DEF ParPropagate, Shortened, NewUnits, At

LEMMA ParPropagateGood ==
    ASSUME Typed, Mixed, NEW t, NEW l \in pending, ParPropagate(t, l)
    PROVE  GoodStep
<1>1. PICK done : /\ Enqueued(Shortened(core, l), Shortened(learnts, l), NewUnits(l), done) /\ ok /\ undo' = undo
  BY ParPropagateIs
<1>2. \A F \in All : F \in Clause /\ Cardinality(F) > 1
  BY DEF Typed, Mixed, All, Formula
<1>3. Shortened(core, l) \in Formula /\ Shortened(learnts, l) \in Formula /\ NewUnits(l) \in SUBSET Lits
  BY <1>2 DEF Shortened, NewUnits, Formula, Clause, All
<1>4. l \in units
  BY DEF Mixed
<1>5. ASSUME NEW A, Model(A, {F \in Shortened(core, l) : Cardinality(F) > 1}, NewUnits(l) \cup units)
      PROVE  IsModel(A, core)
  <2>1. SUFFICES ASSUME NEW F \in core PROVE Sat(A, F)
    BY DEF IsModel
  <2>2. CASE l \in F
    BY <2>2, <1>4, <1>5 DEF Model, Sat
  <2>3. CASE l \notin F
    <3> DEFINE E == F \ {-l}
    <3>1. E \in Clause /\ E # {} /\ E \in Shortened(core, l) /\ E \in Shortened(All, l)
      BY <2>3, <1>2, SomethingStays DEF Shortened, All, Clause
    <3>2. E \subseteq F
      OBVIOUS
    <3> HIDE DEF E
    <3>3. Cardinality(E) > 1 => Sat(A, E)
      BY <3>1, <1>5 DEF Model, IsModel
    <3>4. Cardinality(E) = 1 => \A k \in E : Holds(A, k)
      BY <3>1, <1>5 DEF Model, NewUnits
    <3>5. Sat(A, E)
      BY <3>1, <3>3, <3>4, SmallIsSatisfied
    <3>6. QED
      BY <3>2, <3>5 DEF Sat
  <2>4. QED
    BY <2>2, <2>3
<1>6. QED
  BY <1>1, <1>3, <1>5, EnqueuedOnlyGood

LEMMA ParResolventsTyped ==
    ASSUME Typed, NEW v, NEW gate
    PROVE  ParResolvents(v, gate) \in Formula
<1>1. With(v) \cap core \in Formula /\ With(-v) \cap core \in Formula
  BY DEF Typed, Formula
<1>2. QED
  BY <1>1, ResolventsTyped DEF ParResolvents, ManyLits, Formula

LEMMA ParResolveGood ==
    ASSUME Typed, Mixed, NEW t, ParResolve(t)
    PROVE  GoodStep
<1> DEFINE v == worker[t].var
           gate == worker[t].gate
           None == {}
<1>1. PICK parents \in 0..2 :
        Enqueued(core \cup ParResolvents(v, gate), learnts \cup ParLearnts(v, gate, parents), None, None)
  BY DEF ParResolve
<1>2. ok /\ undo' = undo
  BY DEF ParResolve, At
<1> DEFINE K == core \cup ParResolvents(v, gate)
           L == learnts \cup ParLearnts(v, gate, parents)
<1> HIDE DEF v, gate
<1>3. K \in Formula
  BY ParResolventsTyped DEF Typed, Formula
<1>4. L \in Formula
  <2>1. ASSUME NEW R \in ParLearnts(v, gate, parents) PROVE R \in Clause
    <3>1. \E p \in With(v) \X With(-v) : R = Resolvent(p[1], p[2], v)
      BY DEF ParLearnts, ManyLits
    <3>2. PICK C \in With(v), D \in With(-v) : R = Resolvent(C, D, v)
      BY <3>1
    <3>3. C \in Clause /\ D \in Clause
      BY DEF With, All, Typed, Formula
    <3>4. QED
      BY <3>2, <3>3, ResolventTyped
  <2>2. QED
    BY <2>1 DEF Typed, Formula
<1>5. \A F \in core : F \in K /\ Cardinality(F) > 1
  BY DEF Mixed, All
<1> HIDE DEF K, L
<1>6. \A A : Model(A, {F \in K : Cardinality(F) > 1}, None \cup units) => IsModel(A, core)
  BY <1>5 DEF Model, IsModel
<1>7. Enqueued(K, L, None, None) /\ None \in SUBSET Lits
  BY <1>1 DEF K, L
<1> HIDE DEF None
<1>8. QED
  BY <1>2, <1>3, <1>4, <1>6, <1>7, EnqueuedOnlyGood

-----------------------------------------------------------------------------
(* What threads know *)

\* The resolvents that are kept, and the units, give all resolvents of core clauses.
Settled(v, gate) ==
    \A A : (\A l \in units : Holds(A, l)) /\ IsModel(A, ParResolvents(v, gate)) =>
        \A C \in With(v) \cap core, D \in With(-v) \cap core : Sat(A, Resolvent(C, D, v))

\* A thread that holds its locks: v is there, and its neighbours are among n, which are locked.
Secured(v, n, gate) == v \in Open /\ Near(v) \subseteq n /\ Settled(v, gate)

Holding(t) == worker[t].at \in {"anticipated", "resolved"}

\* The neighbours were collected before they were locked: those that a clause has added
\* since then are noticed, as the thread that has added it still holds v, or has told.
ThreadInv(t) ==
    /\ worker[t].at # "idle" => worker[t].var \in worker[t].near /\ worker[t].var \in Vars \ Frozen
    /\ worker[t].at = "looked" /\ ~ worker[t].stale =>
            \/ Near(worker[t].var) \subseteq worker[t].near
            \/ \E s \in Thread : worker[s].at = "resolved" /\ worker[t].var \in worker[s].near
    /\ Holding(t) => Secured(worker[t].var, worker[t].near, worker[t].gate)
    /\ worker[t].at = "resolved" => ParResolvents(worker[t].var, worker[t].gate) \subseteq core

Workers == [at : {"idle", "looked", "anticipated", "resolved"}, var : Nat, near : SUBSET Vars,
            gate : Formula, stale : BOOLEAN]

LocksApart == \A s, t \in Thread : s # t => Locked(s) \cap Locked(t) = {}

ThreadsInv ==
    /\ worker \in [Thread -> Workers]
    /\ ok => LocksApart /\ \A t \in Thread : ThreadInv(t)

\* All resolvents hold, and a clause with l does not: the others hold without -l.
LEMMA OneSideHolds ==
    ASSUME Typed, NEW l \in Lits, NEW A, IsModel(A, core \ (With(l) \cup With(-l))),
           \A C \in With(l) \cap core, D \in With(-l) \cap core : Sat(A, Resolvent(C, D, l)),
           ~ IsModel(A, With(l) \cap core)
    PROVE  IsModel(MadeTrue(A, l), core)
<1> DEFINE A1 == MadeTrue(A, l)
<1>1. PICK C \in With(l) \cap core : ~ Sat(A, C)
  BY DEF IsModel
<1>2. \A E \in core : E \in Clause /\ \A k \in E : k \in Lits
  BY DEF Typed, Formula, Clause
<1>3. l \in Int /\ l # 0 /\ -l \in Lits /\ -(-l) = l /\ -l # l /\ Holds(A1, l)
  BY LitFacts, MadeTrueHolds
<1>4. \A k \in Lits : k # -l /\ Holds(A, k) => Holds(A1, k)
  BY <1>3, LitFacts, MadeTrueHolds
<1>5. SUFFICES ASSUME NEW D \in core PROVE Sat(A1, D)
  BY DEF A1, IsModel
<1>6. CASE l \in D
  BY <1>6, <1>3 DEF Sat
<1>7. CASE l \notin D /\ -l \notin D
  <2>1. Sat(A, D)
    BY <1>7 DEF With, IsModel
  <2>2. QED
    BY <2>1, <1>7, <1>2, FlipStays DEF A1
<1> HIDE DEF A1
<1>8. CASE l \notin D /\ -l \in D
  <2>1. D \in With(-l) \cap core
    BY <1>8 DEF With, All
  <2>2. Sat(A, Resolvent(C, D, l))
    BY <1>1, <2>1
  <2>3. PICK k \in Resolvent(C, D, l) : Holds(A, k)
    BY <2>2 DEF Sat
  <2>4. k \notin C
    BY <1>1, <2>3 DEF Sat
  <2>5. k \in D /\ k # -l
    BY <2>3, <2>4 DEF Resolvent
  <2>6. QED
    BY <2>3, <2>5, <1>2, <1>4 DEF Sat
<1>9. QED
  BY <1>6, <1>7, <1>8

\* The entries of all clauses of a variable.
LEMMA ParRemoveGood ==
    ASSUME Typed, Mixed, ThreadsInv, NEW t \in Thread, ParRemove(t)
    PROVE  GoodStep
<1> DEFINE v == worker[t].var
           gate == worker[t].gate
           P == With(v) \cap core
           N == With(-v) \cap core
           K == core \ (With(v) \cup With(-v))
           L == learnts \ (With(v) \cup With(-v))
           E == Entries(P, v) \o Entries(N, -v)
           None == {}
<1>1. ok /\ worker[t].at = "resolved" /\ Enqueued(K, L, None, None) /\ Push(E)
  BY DEF ParRemove, At
<1>2. v \in Vars /\ v \in Open \ Frozen /\ Settled(v, gate) /\ ParResolvents(v, gate) \subseteq core
  <2>1. ThreadInv(t) /\ Holding(t)
    BY <1>1 DEF ThreadsInv, Holding
  <2>2. QED
    BY <1>1, <2>1 DEF ThreadInv, Secured
<1> HIDE DEF v, gate
<1>3. v \in Lits /\ -v \in Lits /\ v # -v /\ -(-v) = v /\ Flippable(v) /\ Flippable(-v)
  BY <1>2, CandidateFacts
<1>4. P \in Formula /\ N \in Formula /\ K \in Formula /\ L \in Formula
      /\ (\A C \in P : v \in C) /\ (\A C \in N : -v \in C)
  BY DEF Typed, Formula, With
<1>5. \A C \in All : C \in Clause /\ Cardinality(C) > 1 /\ ~ Tautology(C)
  BY DEF Typed, Mixed, All, Formula, Tidy
<1>6. ParResolvents(v, gate) \subseteq {C \in K : Cardinality(C) > 1}
  <2>1. SUFFICES ASSUME NEW R \in ParResolvents(v, gate) PROVE R \in K /\ Cardinality(R) > 1
    OBVIOUS
  <2>2. R \in ResolventsOf(P, N, v, gate) /\ Cardinality(R) > 1
    BY DEF ParResolvents, ManyLits
  <2>3. PICK C \in P, D \in N : R = Resolvent(C, D, v)
    BY <2>2 DEF ResolventsOf
  <2>4. v \in C /\ -v \in D /\ -v \notin C /\ v \notin D
    BY <1>3, <1>5 DEF With, Tautology
  <2>5. v \notin R /\ -v \notin R
    BY <2>3, <2>4 DEF Resolvent
  <2>6. QED
    BY <1>2, <2>2, <2>5 DEF With
<1>7. ASSUME NEW A, Model(A, {C \in K : Cardinality(C) > 1}, None \cup units)
      PROVE  IsModel(Undone(E, A), core)
  <2>1. IsModel(A, K) /\ (\A l \in units : Holds(A, l)) /\ IsModel(A, ParResolvents(v, gate))
    <3>1. \A C \in K : Cardinality(C) > 1
      BY <1>5 DEF All
    <3>2. QED
      BY <1>6, <1>7, <3>1 DEF Model, IsModel
  <2>2. \A C \in P, D \in N : Sat(A, Resolvent(C, D, v))
    BY <1>2, <2>1 DEF Settled
  <2>3. ~ IsModel(A, P) => IsModel(MadeTrue(A, v), core)
    BY <1>3, <2>1, <2>2, OneSideHolds
  <2>4. ~ IsModel(A, N) => IsModel(MadeTrue(A, -v), core)
    <3>1. \A C \in N, D \in P : Resolvent(C, D, -v) = Resolvent(D, C, v)
      BY <1>3, LitFacts, SymmetricResolvent
    <3>2. \A C \in With(-v) \cap core, D \in With(-(-v)) \cap core : Sat(A, Resolvent(C, D, -v))
      BY <1>3, <2>2, <3>1
    <3>3. IsModel(A, core \ (With(-v) \cup With(-(-v))))
      BY <1>3, <2>1 DEF IsModel
    <3>4. QED
      BY <1>3, <3>2, <3>3, OneSideHolds
  <2>5. Undone(E, A) = LET A1 == IF IsModel(A, N) THEN A ELSE MadeTrue(A, -v)
                       IN  IF IsModel(A1, P) THEN A1 ELSE MadeTrue(A1, v)
    BY <1>3, <1>4, TwoListsUndone
  <2>6. CASE IsModel(A, N) /\ IsModel(A, P)
    <3>1. Undone(E, A) = A
      BY <2>5, <2>6
    <3>2. IsModel(A, core)
      BY <2>1, <2>6 DEF IsModel
    <3>3. QED
      BY <3>1, <3>2
  <2>7. CASE IsModel(A, N) /\ ~ IsModel(A, P)
    BY <2>3, <2>5, <2>7
  <2>8. CASE ~ IsModel(A, N)
    <3>1. IsModel(MadeTrue(A, -v), core) /\ IsModel(MadeTrue(A, -v), P)
      BY <2>4, <2>8 DEF IsModel
    <3>2. QED
      BY <2>5, <2>8, <3>1
  <2>9. QED
    BY <2>6, <2>7, <2>8
<1>8. Pushable(E)
  BY <1>3, <1>4, TwoListsUndone
<1>9. None \in SUBSET Lits
  OBVIOUS
<1> HIDE DEF P, N, K, L, E, None
<1>10. undo' = undo \o E
  BY <1>1, <1>8, PushIs DEF Pushable
<1>11. QED
  BY <1>1, <1>4, <1>7, <1>8, <1>9, <1>10, EnqueuedGood

\* What the blocked clauses of a variable leave, and where the variable stays.
Removes(v, gate, B) == B = {} \/ B = ParBlocked(v, gate) \cup ParBlocked(-v, gate)

LEMMA ParAnticipateIs ==
    ASSUME NEW t, ParAnticipate(t)
    PROVE  \E gate, B, P, N, done :
              /\ gate \in Definitions(worker[t].var) /\ Removes(worker[t].var, gate, B) /\ B = P \cup N
              /\ P \in {{}, ParBlocked(worker[t].var, gate)} /\ N \in {{}, ParBlocked(-worker[t].var, gate)}
              /\ Enqueued(core \ B, learnts \ B, ParUnits(worker[t].var, gate), done) /\ done = {}
              /\ Push(Entries(P \cap core, worker[t].var) \o Entries(N \cap core, -worker[t].var))
              /\ worker' = [worker EXCEPT ![t].at = "anticipated", ![t].gate = gate]
<1> DEFINE v == worker[t].var
<1>1. PICK gate \in Definitions(v), removesBlocked \in BOOLEAN :
        LET P == IF removesBlocked THEN ParBlocked(v, gate) ELSE {}
            N == IF removesBlocked THEN ParBlocked(-v, gate) ELSE {}
        IN  /\ Enqueued(core \ (P \cup N), learnts \ (P \cup N), ParUnits(v, gate), {})
            /\ Push(Entries(P \cap core, v) \o Entries(N \cap core, -v))
            /\ worker' = [worker EXCEPT ![t].at = "anticipated", ![t].gate = gate]
  BY DEF ParAnticipate
<1> DEFINE P == IF removesBlocked THEN ParBlocked(v, gate) ELSE {}
           N == IF removesBlocked THEN ParBlocked(-v, gate) ELSE {}
           None == {}
           B == P \cup N
<1>2. /\ Enqueued(core \ B, learnts \ B, ParUnits(v, gate), None)
      /\ Push(Entries(P \cap core, v) \o Entries(N \cap core, -v))
      /\ worker' = [worker EXCEPT ![t].at = "anticipated", ![t].gate = gate]
  BY <1>1
<1>3. Removes(v, gate, B) /\ B = P \cup N
      /\ P \in {{}, ParBlocked(v, gate)} /\ N \in {{}, ParBlocked(-v, gate)} /\ None = {}
  BY DEF Removes
<1> HIDE DEF P, N, B, None
<1>4. QED
  BY <1>2, <1>3

\* What the thread knows that has its locks now.
LEMMA LooksAgain ==
    ASSUME Typed, Mixed, ThreadsInv, NEW t \in Thread, ok, worker[t].at = "looked",
           FreeFor(t, worker[t].near), StillValid(t)
    PROVE  /\ worker[t].var \in Vars /\ worker[t].var \in Open \ Frozen
           /\ worker[t].var \in worker[t].near /\ Near(worker[t].var) \subseteq worker[t].near
<1>1. ThreadInv(t)
  BY DEF ThreadsInv
<1>2. worker[t].var \in Vars \ Frozen /\ worker[t].var \in worker[t].near /\ worker[t].var \in Open /\ ~ worker[t].stale
  BY <1>1 DEF ThreadInv, StillValid
<1>3. ASSUME NEW s \in Thread, worker[s].at = "resolved", worker[t].var \in worker[s].near PROVE FALSE
  <2>1. s # t
    BY <1>3
  <2>2. Locked(s) = worker[s].near
    BY <1>3 DEF Locked
  <2>3. Locked(s) \cap worker[t].near = {}
    BY <2>1 DEF FreeFor
  <2>4. QED
    BY <2>2, <2>3, <1>2, <1>3
<1>4. QED
  BY <1>1, <1>2, <1>3 DEF ThreadInv

LEMMA ParUnitsTyped ==
    ASSUME Typed, NEW v, NEW gate
    PROVE  ParUnits(v, gate) \in SUBSET Lits
<1>1. ASSUME NEW k \in ParUnits(v, gate) PROVE k \in Lits
  <2>1. PICK C \in With(v), D \in With(-v) : k \in Resolvent(C, D, v)
    BY DEF ParUnits
  <2>2. C \in Clause /\ D \in Clause
    BY DEF With, All, Typed, Formula
  <2>3. Resolvent(C, D, v) \in Clause
    BY <2>2, ResolventTyped
  <2>4. QED
    BY <2>1, <2>3 DEF Clause
<1>2. QED
  BY <1>1

LEMMA ParAnticipateGood ==
    ASSUME Typed, Mixed, ThreadsInv, NEW t \in Thread, ParAnticipate(t)
    PROVE  GoodStep
<1> DEFINE v == worker[t].var
<1>1. PICK gate, B, P, N, done :
        /\ gate \in Definitions(v) /\ Removes(v, gate, B) /\ B = P \cup N
        /\ P \in {{}, ParBlocked(v, gate)} /\ N \in {{}, ParBlocked(-v, gate)}
        /\ Enqueued(core \ B, learnts \ B, ParUnits(v, gate), done)
        /\ Push(Entries(P \cap core, v) \o Entries(N \cap core, -v))
  BY ParAnticipateIs
<1>2. ok /\ v \in Vars /\ v \in Open \ Frozen
  BY LooksAgain DEF ParAnticipate, At
<1> HIDE DEF v
<1>3. v \in Lits /\ -v \in Lits /\ v # -v /\ -(-v) = v /\ Flippable(v) /\ Flippable(-v)
  BY <1>2, CandidateFacts
<1> DEFINE K == core \ B
           L == learnts \ B
           U == ParUnits(v, gate)
           E == Entries(P \cap core, v) \o Entries(N \cap core, -v)
<1>4. P \cap core \in Formula /\ N \cap core \in Formula /\ K \in Formula /\ L \in Formula
      /\ (\A C \in P \cap core : v \in C) /\ (\A C \in N \cap core : -v \in C)
  BY <1>1 DEF Typed, Formula, ParBlocked, With
<1>5. \A C \in All : Cardinality(C) > 1
  BY DEF Mixed
<1>6. gate = {} \/ (IsGate(gate, v) /\ IsGate(gate, -v))
  <2>1. Definitions(-v) = Definitions(v)
    BY <1>3 DEF Definitions
  <2>2. QED
    BY <1>1, <1>3, <2>1, DefinitionFacts
<1>7. Pushable(E) /\ \A A : Undone(E, A) = LET A1 == IF IsModel(A, N \cap core) THEN A ELSE MadeTrue(A, -v)
                                          IN  IF IsModel(A1, P \cap core) THEN A1 ELSE MadeTrue(A1, v)
  <2> DEFINE X == P \cap core
             Y == N \cap core
  <2>1. X \in Formula /\ Y \in Formula /\ (\A C \in X : v \in C) /\ (\A C \in Y : -v \in C)
    BY <1>4
  <2> HIDE DEF X, Y
  <2>2. Pushable(Entries(X, v) \o Entries(Y, -v))
        /\ \A A : LET A1 == IF IsModel(A, Y) THEN A ELSE MadeTrue(A, -v)
                  IN  Undone(Entries(X, v) \o Entries(Y, -v), A) = IF IsModel(A1, X) THEN A1 ELSE MadeTrue(A1, v)
    BY <1>3, <2>1, TwoListsUndone
  <2>3. QED
    BY <2>2 DEF X, Y
<1>8. U \in SUBSET Lits
  BY ParUnitsTyped
<1>9. ASSUME NEW A, Model(A, {C \in K : Cardinality(C) > 1}, U \cup units)
      PROVE  IsModel(Undone(E, A), core)
  <2>1. IsModel(A, core \ B) /\ \A k \in U : Holds(A, k)
    <3>1. \A C \in K : Cardinality(C) > 1
      BY <1>5 DEF All
    <3>2. QED
      BY <1>9, <3>1 DEF Model, IsModel
  <2>2. UnitsHold(A, v, gate)
    BY <2>1, ParUnitsHold
  <2>3. UnitsHold(A, -v, gate)
    BY <1>3, <2>2, UnitsHoldFlipped
  <2>4. IsModel(A, core \ (ParBlocked(v, gate) \cup ParBlocked(-v, gate)))
    BY <1>1, <2>1 DEF IsModel
  <2>5. ~ IsModel(A, P \cap core) => IsModel(MadeTrue(A, v), core)
    <3>1. SUFFICES ASSUME ~ IsModel(A, P \cap core) PROVE IsModel(MadeTrue(A, v), core)
      OBVIOUS
    <3>2. ~ IsModel(A, ParBlocked(v, gate) \cap core)
      BY <1>1, <3>1 DEF IsModel
    <3>3. QED
      BY <1>3, <1>6, <2>2, <2>4, <3>2, ParBlockedMeans
  <2>6. ~ IsModel(A, N \cap core) => IsModel(MadeTrue(A, -v), core)
    <3>1. SUFFICES ASSUME ~ IsModel(A, N \cap core) PROVE IsModel(MadeTrue(A, -v), core)
      OBVIOUS
    <3>2. ~ IsModel(A, ParBlocked(-v, gate) \cap core)
      BY <1>1, <3>1 DEF IsModel
    <3>3. IsModel(A, core \ (ParBlocked(-v, gate) \cup ParBlocked(-(-v), gate)))
      BY <1>3, <2>4 DEF IsModel
    <3>4. QED
      BY <1>3, <1>6, <2>3, <3>2, <3>3, ParBlockedMeans
  <2>7. CASE IsModel(A, N \cap core) /\ IsModel(A, P \cap core)
    <3>1. Undone(E, A) = A
      BY <1>7, <2>7
    <3>2. IsModel(A, core)
      BY <1>1, <2>1, <2>7 DEF IsModel
    <3>3. QED
      BY <3>1, <3>2
  <2>8. CASE IsModel(A, N \cap core) /\ ~ IsModel(A, P \cap core)
    BY <1>7, <2>5, <2>8
  <2>9. CASE ~ IsModel(A, N \cap core)
    <3>1. IsModel(MadeTrue(A, -v), core) /\ IsModel(MadeTrue(A, -v), P \cap core)
      BY <2>6, <2>9 DEF IsModel
    <3>2. QED
      BY <1>7, <2>9, <3>1
  <2>10. QED
    BY <2>7, <2>8, <2>9
<1>10. Enqueued(K, L, U, done) /\ Push(E)
  BY <1>1
<1> HIDE DEF K, L, U, E
<1>11. undo' = undo \o E
  BY <1>7, <1>10, PushIs DEF Pushable
<1>12. QED
  BY <1>2, <1>4, <1>7, <1>8, <1>9, <1>10, <1>11, EnqueuedGood

\* Each step of a thread.
LEMMA ParallelGood ==
    ASSUME Typed, Mixed, ThreadsInv, ParallelNext
    PROVE  GoodStep
<1>1. ASSUME NEW t, NEW v, ParLook(t, v) PROVE GoodStep
  BY <1>1, NothingGood DEF ParLook
<1>2. ASSUME NEW t, ParLockAgain(t) \/ ParLetGo(t) PROVE GoodStep
  BY <1>2, NothingGood DEF ParLockAgain, ParLetGo, vars
<1>3. QED
  BY <1>1, <1>2, ParAnticipateGood, ParResolveGood, ParRemoveGood, ParStrengthenGood, ParPropagateGood
     DEF ParallelNext

-----------------------------------------------------------------------------
(* What threads know stays true *)

\* A step leaves the clauses of v alone, and those with variables among n.
Spared(v, n) ==
    /\ \A C \in Clause : v \in VarsOf(C) => (C \in core' <=> C \in core) /\ (C \in All' => C \in All)
    /\ \A C \in core : VarsOf(C) \subseteq n => C \in core'
    /\ units \subseteq units' /\ v \in Open'

\* No clause of v has new literals.
Shrinks(v) == \A C \in All' : v \in VarsOf(C) => \E D \in All : C \subseteq D

LEMMA VariableOf ==
    ASSUME NEW v \in Vars, NEW C
    PROVE  /\ v \in C \/ -v \in C => v \in VarsOf(C)
           /\ C \in Clause /\ v \in VarsOf(C) => v \in C \/ -v \in C
<1>1. v \in Lits /\ v \in Nat /\ v > 0
  BY VarsAssumption DEF Lits
<1>2. VarOf(v) = v /\ VarOf(-v) = v
  BY <1>1 DEF VarOf
<1>3. \A k \in Lits : VarOf(k) = v => k = v \/ k = -v
  BY <1>1, LitFacts DEF VarOf
<1>4. QED
  BY <1>2, <1>3 DEF VarsOf, Clause

LEMMA NearBy ==
    ASSUME Typed, NEW v \in Vars, NEW C \in All, v \in VarsOf(C)
    PROVE  VarsOf(C) \subseteq Near(v)
<1>1. C \in Clause
  BY DEF Typed, All, Formula
<1>2. C \in With(v) \cup With(-v)
  BY <1>1, VariableOf DEF With
<1>3. QED
  BY <1>2 DEF Near, VarsOf

LEMMA NearIs ==
    ASSUME NEW v \in Vars, NEW x \in Near(v)
    PROVE  \E C \in All : v \in VarsOf(C) /\ x \in VarsOf(C)
<1>1. PICK C \in With(v) \cup With(-v) : \E l \in C : x = VarOf(l)
  BY DEF Near
<1>2. QED
  BY <1>1, VariableOf DEF With, VarsOf

LEMMA ResolventVariables ==
    ASSUME Typed, Mixed, NEW v \in Vars, NEW C \in With(v), NEW D \in With(-v)
    PROVE  /\ Resolvent(C, D, v) \in Clause
           /\ v \notin VarsOf(Resolvent(C, D, v)) /\ VarsOf(Resolvent(C, D, v)) \subseteq Near(v)
<1> DEFINE R == Resolvent(C, D, v)
<1>1. C \in Clause /\ D \in Clause /\ C \in All /\ D \in All /\ v \in C /\ -v \in D
  BY DEF Typed, All, Formula, With
<1>2. R \in Clause
  BY <1>1, ResolventTyped
<1>3. -v \notin C /\ v \notin D /\ v # -v
  <2>1. ~ Tautology(C) /\ ~ Tautology(D)
    BY <1>1 DEF Mixed, Tidy
  <2>2. v \in Lits
    BY DEF Lits
  <2>3. -(-v) = v /\ v # -v
    BY <2>2, LitFacts
  <2>4. QED
    BY <1>1, <2>1, <2>3 DEF Tautology
<1>4. v \notin R /\ -v \notin R
  BY <1>3 DEF Resolvent
<1>5. VarsOf(R) \subseteq VarsOf(C) \cup VarsOf(D)
  BY DEF Resolvent, VarsOf
<1>6. VarsOf(C) \subseteq Near(v) /\ VarsOf(D) \subseteq Near(v)
  BY <1>1, VariableOf, NearBy
<1> HIDE DEF R
<1>7. v \notin VarsOf(R)
  BY <1>2, <1>4, VariableOf
<1>8. QED
  BY <1>2, <1>5, <1>6, <1>7 DEF R

LEMMA SecuredStays ==
    ASSUME Typed, Typed', Mixed, NEW v \in Vars, NEW n, NEW gate, Secured(v, n, gate), Spared(v, n)
    PROVE  /\ Secured(v, n, gate)'
           /\ ParResolvents(v, gate)' = ParResolvents(v, gate)
           /\ ParResolvents(v, gate) \subseteq core => ParResolvents(v, gate)' \subseteq core'
<1>1. (\A C \in core \cup core' : C \in Clause) /\ \A C \in All' : C \in Clause
  BY DEF Typed, All, Formula
<1>2. (With(v) \cap core)' = With(v) \cap core /\ (With(-v) \cap core)' = With(-v) \cap core
  <2>1. \A C : v \in C \/ -v \in C => (C \in core' <=> C \in core)
    BY <1>1, VariableOf DEF Spared
  <2>2. QED
    BY <2>1 DEF With, All
<1>3. ParResolvents(v, gate)' = ParResolvents(v, gate)
  BY <1>2 DEF ParResolvents, ManyLits, ResolventsOf
<1>4. Near(v)' \subseteq Near(v)
  <2>1. SUFFICES ASSUME NEW x \in Near(v)' PROVE x \in Near(v)
    OBVIOUS
  <2>2. PICK C \in All' : (v \in C \/ -v \in C) /\ x \in VarsOf(C)
    BY <2>1 DEF Near, With, VarsOf
  <2>3. C \in All
    BY <1>1, <2>2, VariableOf DEF Spared
  <2>4. QED
    BY <2>2, <2>3 DEF Near, With, VarsOf
<1>5. Settled(v, gate)'
  <2>1. SUFFICES ASSUME NEW A, \A l \in units' : Holds(A, l), IsModel(A, ParResolvents(v, gate)')
                 PROVE  \A C \in (With(v) \cap core)', D \in (With(-v) \cap core)' : Sat(A, Resolvent(C, D, v))
    BY DEF Settled
  <2>2. (\A l \in units : Holds(A, l)) /\ IsModel(A, ParResolvents(v, gate))
    BY <2>1, <1>3 DEF Spared
  <2>3. QED
    BY <2>2, <1>2 DEF Secured, Settled
<1>6. Secured(v, n, gate)'
  BY <1>4, <1>5 DEF Secured, Spared
<1>7. ASSUME ParResolvents(v, gate) \subseteq core, NEW R \in ParResolvents(v, gate) PROVE R \in core'
  <2>1. R \in ResolventsOf(With(v) \cap core, With(-v) \cap core, v, gate)
    BY DEF ParResolvents, ManyLits
  <2>2. PICK C \in With(v), D \in With(-v) : R = Resolvent(C, D, v)
    BY <2>1 DEF ResolventsOf
  <2>3. VarsOf(R) \subseteq n
    BY <2>2, ResolventVariables DEF Secured
  <2>4. QED
    BY <1>7, <2>3 DEF Spared
<1>8. QED
  BY <1>3, <1>6, <1>7

\* What a step has to do for the clauses of v.
LEMMA SparedBy ==
    ASSUME Mixed, ok', NEW K, NEW L, NEW U, NEW done, Enqueued(K, L, U, done), NEW v \in Vars, NEW n, v \in Open,
           \A C \in Clause : v \in VarsOf(C) => (C \in K <=> C \in core) /\ (C \in L => C \in All),
           \A C \in core : VarsOf(C) \subseteq n => C \in K,
           v \notin VarsOf(U)
    PROVE  Spared(v, n)
<1>1. \A C \in All : Cardinality(C) > 1
  BY DEF Mixed
<1>2. \/ UNCHANGED <<core, learnts, units, fresh>>
      \/ /\ core' = {C \in K : Cardinality(C) > 1} /\ learnts' = {C \in L : Cardinality(C) > 1}
         /\ units' = units \cup U /\ fresh' = fresh
  BY DEF Enqueued
<1>3. CASE UNCHANGED <<core, learnts, units, fresh>>
  BY <1>3 DEF Spared, All, Open, Assigned
<1>4. CASE /\ core' = {C \in K : Cardinality(C) > 1} /\ learnts' = {C \in L : Cardinality(C) > 1}
           /\ units' = units \cup U /\ fresh' = fresh
  <2>1. v \in Open'
    BY <1>4 DEF Open, Assigned, VarsOf
  <2>2. \A C \in core : VarsOf(C) \subseteq n => C \in core'
    BY <1>1, <1>4 DEF All
  <2>3. ASSUME NEW C \in Clause, v \in VarsOf(C)
        PROVE  (C \in core' <=> C \in core) /\ (C \in All' => C \in All)
    BY <2>3, <1>1, <1>4 DEF All
  <2>4. QED
    BY <1>4, <2>1, <2>2, <2>3 DEF Spared
<1>5. QED
  BY <1>2, <1>3, <1>4

LEMMA NearShrinks ==
    ASSUME Typed, Typed', NEW v \in Vars, Shrinks(v)
    PROVE  Near(v)' \subseteq Near(v)
<1>1. SUFFICES ASSUME NEW x \in Near(v)' PROVE x \in Near(v)
  OBVIOUS
<1>2. PICK C \in All' : (v \in C \/ -v \in C) /\ x \in VarsOf(C)
  BY <1>1 DEF Near, With, VarsOf
<1>3. PICK D \in All : C \subseteq D
  BY <1>2, VariableOf DEF Shrinks
<1>4. QED
  BY <1>2, <1>3 DEF Near, With, VarsOf

\* The step of one thread: what another thread knows stays true.
SameTask(u) ==
    /\ worker'[u].at = worker[u].at /\ worker'[u].var = worker[u].var
    /\ worker'[u].near = worker[u].near /\ worker'[u].gate = worker[u].gate
    /\ worker[u].stale => worker'[u].stale
Noticed(u) ==
    \/ /\ Shrinks(worker[u].var)
       /\ \A s \in Thread : worker[s].at = "resolved" /\ worker[u].var \in worker[s].near => SameTask(s)
    \/ \E s \in Thread : worker'[s].at = "resolved" /\ worker[u].var \in worker'[s].near

LEMMA ThreadsStay ==
    ASSUME Typed, Typed', Mixed, ThreadsInv, ok, UNCHANGED <<fresh, start>>,
           worker' \in [Thread -> Workers], NEW t \in Thread, \A u \in Thread \ {t} : SameTask(u),
           ok' => /\ ThreadInv(t)'
                  /\ \A u \in Thread \ {t} :
                        /\ Locked(t)' \cap Locked(u) = {}
                        /\ Holding(u) => Spared(worker[u].var, worker[u].near)
                        /\ worker[u].at = "looked" => worker'[u].stale \/ Noticed(u)
    PROVE  ThreadsInv'
<1>1. SUFFICES ASSUME ok' PROVE LocksApart' /\ \A u \in Thread : ThreadInv(u)'
  BY DEF ThreadsInv
<1>2. Frozen' = Frozen
  BY DEF Frozen, ExportVar, Renamed, Typed
<1>3. LocksApart'
  <2>1. \A u \in Thread \ {t} : Locked(u)' = Locked(u)
    BY DEF Locked, SameTask
  <2>2. LocksApart
    BY DEF ThreadsInv
  <2>3. \A u \in Thread \ {t} : Locked(t)' \cap Locked(u) = {}
    BY <1>1
  <2>4. QED
    BY <2>1, <2>2, <2>3 DEF LocksApart
<1>4. ASSUME NEW u \in Thread \ {t} PROVE ThreadInv(u)'
  <2>0. PICK v, n, gate : v = worker[u].var /\ n = worker[u].near /\ gate = worker[u].gate
    OBVIOUS
  <2>1. SameTask(u) /\ ThreadInv(u)
    BY DEF ThreadsInv
  <2>2. worker'[u].at = worker[u].at /\ worker'[u].var = v /\ worker'[u].near = n /\ worker'[u].gate = gate
        /\ (~ worker'[u].stale => ~ worker[u].stale)
    BY <2>0, <2>1 DEF SameTask
  <2>3. /\ worker[u].at # "idle" => v \in n /\ v \in Vars \ Frozen
        /\ worker[u].at = "looked" /\ ~ worker[u].stale =>
              \/ Near(v) \subseteq n
              \/ \E s \in Thread : worker[s].at = "resolved" /\ v \in worker[s].near
        /\ Holding(u) => Secured(v, n, gate)
        /\ worker[u].at = "resolved" => ParResolvents(v, gate) \subseteq core
    BY <2>0, <2>1 DEF ThreadInv
  <2>4. /\ Holding(u) => Spared(v, n)
        /\ worker[u].at = "looked" => worker'[u].stale \/ Noticed(u)
    BY <2>0, <1>1
  <2>5. Holding(u)' <=> Holding(u)
    BY <2>2 DEF Holding
  <2>6. CASE Holding(u)
    <3>1. v \in Vars /\ v \in n /\ v \in Vars \ Frozen
      BY <2>3, <2>6 DEF Holding
    <3>2. /\ Secured(v, n, gate)'
          /\ ParResolvents(v, gate) \subseteq core => ParResolvents(v, gate)' \subseteq core'
      BY <2>3, <2>4, <2>6, <3>1, SecuredStays
    <3>3. worker'[u].at # "looked"
      BY <2>2, <2>6 DEF Holding
    <3>4. Secured(worker[u].var, worker[u].near, worker[u].gate)'
      BY <2>2, <3>2 DEF Secured, Near, Settled, ParResolvents, ResolventsOf, ManyLits, With
    <3>5. worker'[u].at = "resolved" => ParResolvents(worker[u].var, worker[u].gate)' \subseteq core'
      BY <2>2, <2>3, <3>2 DEF ParResolvents, ResolventsOf, ManyLits, With
    <3>6. QED
      BY <1>2, <2>2, <3>1, <3>3, <3>4, <3>5 DEF ThreadInv
  <2>7. CASE worker[u].at = "looked"
    <3>1. v \in Vars /\ v \in n /\ v \in Vars \ Frozen /\ ~ Holding(u)
      BY <2>3, <2>7 DEF Holding
    <3>2. ASSUME ~ worker'[u].stale
          PROVE  \/ Near(v)' \subseteq n
                 \/ \E s \in Thread : worker'[s].at = "resolved" /\ v \in worker'[s].near
      <4>1. CASE \E s \in Thread : worker'[s].at = "resolved" /\ v \in worker'[s].near
        BY <4>1
      <4>2. CASE /\ Shrinks(v)
                 /\ \A s \in Thread : worker[s].at = "resolved" /\ v \in worker[s].near => SameTask(s)
        <5>1. CASE Near(v) \subseteq n
          BY <4>2, <5>1, <3>1, NearShrinks
        <5>2. CASE \E s \in Thread : worker[s].at = "resolved" /\ v \in worker[s].near
          BY <4>2, <5>2 DEF SameTask
        <5>3. QED
          BY <5>1, <5>2, <3>2, <2>2, <2>3, <2>7
      <4>3. QED
        BY <4>1, <4>2, <3>2, <2>0, <2>4, <2>7 DEF Noticed
    <3>3. worker'[u].at = "looked" /\ ~ worker'[u].stale =>
              \/ Near(worker[u].var)' \subseteq n
              \/ \E s \in Thread : worker'[s].at = "resolved" /\ v \in worker'[s].near
      BY <2>2, <3>2 DEF Near, With
    <3>4. QED
      BY <1>2, <2>2, <2>5, <2>7, <3>1, <3>3 DEF ThreadInv
  <2>8. CASE worker[u].at = "idle"
    <3>1. ~ Holding(u)'
      BY <2>5, <2>8 DEF Holding
    <3>2. QED
      BY <2>2, <2>8, <3>1 DEF ThreadInv
  <2>9. worker[u] \in Workers
    BY DEF ThreadsInv
  <2>10. QED
    BY <2>6, <2>7, <2>8, <2>9 DEF Workers, Holding
<1>5. QED
  BY <1>1, <1>3, <1>4

LEMMA HoldingFacts ==
    ASSUME ThreadsInv, ok, NEW u \in Thread, Holding(u)
    PROVE  /\ worker[u].var \in Vars /\ worker[u].var \in Open /\ worker[u].var \in worker[u].near
           /\ Near(worker[u].var) \subseteq worker[u].near
           /\ Locked(u) = worker[u].near
<1>1. ThreadInv(u)
  BY DEF ThreadsInv
<1>2. worker[u].at # "idle"
  BY DEF Holding
<1>3. QED
  BY <1>1, <1>2 DEF ThreadInv, Secured, Locked, Holding

\* Without new literals.
LEMMA ShrinksBy ==
    ASSUME NEW K, NEW L, NEW U, NEW done, Enqueued(K, L, U, done), NEW v,
           \A C \in K \cup L : v \in VarsOf(C) => \E D \in All : C \subseteq D
    PROVE  Shrinks(v)
<1>1. \A C \in All' : C \in All \/ C \in K \cup L
  BY DEF Enqueued, All
<1>2. QED
  BY <1>1 DEF Shrinks

\* The variable that comes first is one of the clause.
LEMMA FirstIsIn ==
    ASSUME NEW C \in Clause, C # {}
    PROVE  First(C) \in VarsOf(C)
<1>1. \A l \in C : VarOf(l) \in Nat
  BY LitFacts DEF Clause
<1>2. VarsOf(C) \in SUBSET Nat /\ VarsOf(C) # {}
  BY <1>1 DEF VarsOf
<1>3. \E x \in VarsOf(C) : \A y \in VarsOf(C) : x <= y
  BY <1>2, LeastOfNat
<1>4. \E x \in {VarOf(l) : l \in C} : \A k \in C : x <= VarOf(k)
  BY <1>3 DEF VarsOf
<1>5. QED
  BY <1>4 DEF First, VarsOf

LEMMA StrengthenSpares ==
    ASSUME Typed, Mixed, ok', NEW C \in All, NEW D \in All, NEW X, NEW K, NEW L, NEW U, NEW done,
           Replaces(C, D, X, K, L, U), Enqueued(K, L, U, done), First(C) \in Vars,
           NEW v \in Vars, v \in Open, NEW n, Near(v) \subseteq n, v \in n, First(C) \notin n
    PROVE  Spared(v, n)
<1>1. C \in Clause /\ C # {}
  <2>1. C \in Clause /\ Cardinality(C) > 1
    BY DEF Typed, Mixed, All, Formula
  <2>2. QED
    BY <2>1, SomethingStays
<1>2. First(C) \in VarsOf(D)
  BY <1>1, FirstIsIn DEF Replaces
<1>3. ~ (VarsOf(D) \subseteq n) /\ v \notin VarsOf(D)
  BY <1>2, NearBy
<1>4. VarsOf(X) \subseteq VarsOf(D)
  BY DEF Replaces, VarsOf
<1>5. ASSUME NEW E \in Clause, v \in VarsOf(E)
      PROVE  (E \in K <=> E \in core) /\ (E \in L => E \in All)
  <2>1. E # D /\ E # X
    BY <1>3, <1>4, <1>5
  <2>2. QED
    BY <2>1 DEF Replaces, All
<1>6. ASSUME NEW E \in core, VarsOf(E) \subseteq n PROVE E \in K
  BY <1>3, <1>6 DEF Replaces
<1>7. v \notin VarsOf(U)
  BY <1>3, <1>4 DEF Replaces, VarsOf
<1>8. QED
  BY <1>5, <1>6, <1>7, SparedBy

LEMMA PropagateSpares ==
    ASSUME Typed, Mixed, ok', NEW l \in Lits, NEW done,
           Enqueued(Shortened(core, l), Shortened(learnts, l), NewUnits(l), done),
           NEW v \in Vars, v \in Open, NEW n, Near(v) \subseteq n, VarOf(l) \notin n
    PROVE  Spared(v, n)
<1>1. VarOf(-l) = VarOf(l)
  BY LitFacts
<1>2. ASSUME NEW C, VarsOf(C) \subseteq n PROVE l \notin C /\ -l \notin C /\ C \ {-l} = C
  BY <1>1, <1>2 DEF VarsOf
<1>3. ASSUME NEW C \in All, v \in VarsOf(C) PROVE VarsOf(C) \subseteq n
  BY <1>3, NearBy
<1>4. ASSUME NEW F, F \subseteq All, NEW C, v \in VarsOf(C) PROVE C \in Shortened(F, l) <=> C \in F
  <2>1. ASSUME C \in F PROVE C \in Shortened(F, l)
    <3>1. l \notin C /\ C \ {-l} = C
      BY <1>2, <1>3, <1>4, <2>1
    <3>2. QED
      BY <2>1, <3>1 DEF Shortened
  <2>2. ASSUME C \in Shortened(F, l) PROVE C \in F
    <3>1. PICK D \in F : C = D \ {-l}
      BY <2>2 DEF Shortened
    <3>2. v \in VarsOf(D)
      BY <3>1, <1>4 DEF VarsOf
    <3>3. D \ {-l} = D
      BY <1>2, <1>3, <1>4, <3>2
    <3>4. QED
      BY <3>1, <3>3
  <2>3. QED
    BY <2>1, <2>2
<1>5. ASSUME NEW C \in Clause, v \in VarsOf(C)
      PROVE  (C \in Shortened(core, l) <=> C \in core) /\ (C \in Shortened(learnts, l) => C \in All)
  <2>1. core \subseteq All /\ learnts \subseteq All
    BY DEF All
  <2>2. QED
    BY <1>4, <1>5, <2>1
<1>6. ASSUME NEW C \in core, VarsOf(C) \subseteq n PROVE C \in Shortened(core, l)
  BY <1>2, <1>6 DEF Shortened
<1>7. v \notin VarsOf(NewUnits(l))
  <2>1. SUFFICES ASSUME NEW k \in NewUnits(l), VarOf(k) = v PROVE FALSE
    BY DEF VarsOf
  <2>2. PICK E \in Shortened(All, l) : Cardinality(E) = 1 /\ k \in E
    BY DEF NewUnits
  <2>3. v \in VarsOf(E)
    BY <2>1, <2>2 DEF VarsOf
  <2>4. E \in All
    BY <1>4, <2>2, <2>3
  <2>5. Cardinality(E) > 1
    BY <2>4 DEF Mixed
  <2>6. QED
    BY <2>2, <2>5
<1>8. QED
  BY <1>5, <1>6, <1>7, SparedBy

LEMMA RemovingSpares ==
    ASSUME Typed, Mixed, ok', NEW B, NEW U, NEW done, Enqueued(core \ B, learnts \ B, U, done),
           NEW w \in Vars, \A C \in B : w \in VarsOf(C),
           NEW v \in Vars, v \in Open, NEW n, Near(v) \subseteq n, w \notin n, v \notin VarsOf(U)
    PROVE  Spared(v, n)
<1>1. ASSUME NEW C \in Clause, v \in VarsOf(C)
      PROVE  (C \in core \ B <=> C \in core) /\ (C \in learnts \ B => C \in All)
  <2>1. C \in core => C \in All
    BY DEF All
  <2>2. C \in All => VarsOf(C) \subseteq n
    BY <1>1, NearBy
  <2>3. C \in core => C \notin B
    BY <2>1, <2>2
  <2>4. QED
    BY <2>3 DEF All
<1>2. \A C \in core : VarsOf(C) \subseteq n => C \in core \ B
  OBVIOUS
<1>3. QED
  BY <1>1, <1>2, SparedBy

LEMMA AddingSpares ==
    ASSUME Typed, Mixed, ok', NEW R, NEW S, NEW U, NEW done, Enqueued(core \cup R, learnts \cup S, U, done), U = {},
           NEW v \in Vars, v \in Open, NEW n, \A C \in R \cup S : v \notin VarsOf(C)
    PROVE  Spared(v, n)
<1> DEFINE K == core \cup R
           L == learnts \cup S
<1>1. \A C \in Clause : v \in VarsOf(C) => (C \in K <=> C \in core) /\ (C \in L => C \in All)
  BY DEF All
<1>2. \A C \in core : VarsOf(C) \subseteq n => C \in K
  OBVIOUS
<1>3. Enqueued(K, L, U, done) /\ v \notin VarsOf(U)
  BY DEF VarsOf
<1> HIDE DEF K, L
<1>4. QED
  BY <1>1, <1>2, <1>3, SparedBy

LEMMA NothingSpares ==
    ASSUME UNCHANGED <<core, learnts, units, fresh>>, NEW v, NEW n, v \in Open
    PROVE  Spared(v, n) /\ Shrinks(v)
BY DEF Spared, Shrinks, All, Open, Assigned

LEMMA NearTyped ==
    ASSUME Typed, NEW v
    PROVE  Near(v) \in SUBSET Vars
<1>1. ASSUME NEW C \in All, NEW l \in C PROVE VarOf(l) \in Vars
  <2>1. l \in Lits
    BY DEF Typed, All, Formula, Clause
  <2>2. QED
    BY <2>1, LitFacts
<1>2. QED
  BY <1>1 DEF Near, With

LEMMA WorkerTyped ==
    ASSUME ThreadsInv, NEW t \in Thread
    PROVE  /\ worker[t] \in Workers /\ DOMAIN worker = Thread
           /\ worker[t] = [at |-> worker[t].at, var |-> worker[t].var, near |-> worker[t].near,
                           gate |-> worker[t].gate, stale |-> worker[t].stale]
BY DEF ThreadsInv, Workers

\* Steps of a thread that has no locks.
LEMMA ParStrengthenThreads ==
    ASSUME Typed, Typed', Mixed, ThreadsInv, NEW t \in Thread, NEW C \in All, NEW D \in All, ParStrengthen(t, C, D)
    PROVE  ThreadsInv'
<1>1. PICK X, K, L, U, done : Replaces(C, D, X, K, L, U) /\ Enqueued(K, L, U, done)
  BY ParStrengthenIs
<1>2. ok /\ worker' = worker /\ worker[t].at = "idle" /\ FreeFor(t, {First(C)}) /\ UNCHANGED <<fresh, start>>
  BY <1>1 DEF ParStrengthen, At, Enqueued
<1>3. First(C) \in Vars
  <2>1. C \in Clause /\ C # {}
    <3>1. C \in Clause /\ Cardinality(C) > 1
      BY DEF Typed, Mixed, All, Formula
    <3>2. QED
      BY <3>1, SomethingStays
  <2>2. First(C) \in VarsOf(C)
    BY <2>1, FirstIsIn
  <2>3. \A l \in C : VarOf(l) \in Vars
    BY <2>1, LitFacts DEF Clause
  <2>4. QED
    BY <2>2, <2>3 DEF VarsOf
<1>4. ASSUME ok', NEW u \in Thread \ {t}, Holding(u) PROVE Spared(worker[u].var, worker[u].near)
  <2>1. Locked(u) \cap {First(C)} = {}
    BY <1>2 DEF FreeFor
  <2>2. /\ worker[u].var \in Vars /\ worker[u].var \in Open /\ worker[u].var \in worker[u].near
        /\ Near(worker[u].var) \subseteq worker[u].near /\ Locked(u) = worker[u].near
    BY <1>2, <1>4, HoldingFacts
  <2>3. QED
    BY <1>1, <1>3, <1>4, <2>1, <2>2, StrengthenSpares
<1>5. ASSUME NEW v PROVE Shrinks(v)
  <2>1. \A E \in K \cup L : \E F \in All : E \subseteq F
    BY <1>1 DEF Replaces, All
  <2>2. QED
    BY <1>1, <2>1, ShrinksBy
<1>6. \A u \in Thread : SameTask(u)
  BY <1>2 DEF SameTask
<1>7. \A u \in Thread : Noticed(u)
  BY <1>5, <1>6 DEF Noticed
<1>8. Locked(t)' = {} /\ ThreadInv(t)'
  BY <1>2 DEF Locked, ThreadInv, Holding
<1>9. worker' \in [Thread -> Workers]
  BY <1>2 DEF ThreadsInv
<1>10. QED
  BY <1>2, <1>4, <1>6, <1>7, <1>8, <1>9, ThreadsStay

LEMMA ParPropagateThreads ==
    ASSUME Typed, Typed', Mixed, ThreadsInv, NEW t \in Thread, NEW l \in pending, ParPropagate(t, l)
    PROVE  ThreadsInv'
<1>1. PICK done : Enqueued(Shortened(core, l), Shortened(learnts, l), NewUnits(l), done)
  BY ParPropagateIs
<1>2. ok /\ worker' = worker /\ worker[t].at = "idle" /\ FreeFor(t, {VarOf(l)}) /\ UNCHANGED <<fresh, start>>
  BY <1>1 DEF ParPropagate, At, Enqueued
<1>3. l \in Lits
  BY DEF Mixed, Typed
<1>4. ASSUME ok', NEW u \in Thread \ {t}, Holding(u) PROVE Spared(worker[u].var, worker[u].near)
  <2>1. Locked(u) \cap {VarOf(l)} = {}
    BY <1>2 DEF FreeFor
  <2>2. /\ worker[u].var \in Vars /\ worker[u].var \in Open /\ worker[u].var \in worker[u].near
        /\ Near(worker[u].var) \subseteq worker[u].near /\ Locked(u) = worker[u].near
    BY <1>2, <1>4, HoldingFacts
  <2>3. QED
    BY <1>1, <1>3, <1>4, <2>1, <2>2, PropagateSpares
<1>5. ASSUME NEW v PROVE Shrinks(v)
  <2>1. \A E \in Shortened(core, l) \cup Shortened(learnts, l) : \E F \in All : E \subseteq F
    BY DEF Shortened, All
  <2>2. QED
    BY <1>1, <2>1, ShrinksBy
<1>6. \A u \in Thread : SameTask(u)
  BY <1>2 DEF SameTask
<1>7. \A u \in Thread : Noticed(u)
  BY <1>5, <1>6 DEF Noticed
<1>8. Locked(t)' = {} /\ ThreadInv(t)'
  BY <1>2 DEF Locked, ThreadInv, Holding
<1>9. worker' \in [Thread -> Workers]
  BY <1>2 DEF ThreadsInv
<1>10. QED
  BY <1>2, <1>4, <1>6, <1>7, <1>8, <1>9, ThreadsStay

\* Clauses and units stay; the thread does not add any.
LEMMA NothingThreads ==
    ASSUME Typed, Typed', Mixed, ThreadsInv, ok, UNCHANGED <<core, learnts, units, ok, fresh, start>>,
           NEW t \in Thread, NEW w \in Workers, worker' = [worker EXCEPT ![t] = w],
           worker[t].at # "resolved", ~ Holding(t)', ThreadInv(t)'
    PROVE  ThreadsInv'
<1>1. worker' \in [Thread -> Workers]
  BY DEF ThreadsInv
<1>2. \A u \in Thread \ {t} : worker'[u] = worker[u]
  BY DEF ThreadsInv
<1>3. \A u \in Thread \ {t} : SameTask(u)
  BY <1>2 DEF SameTask
<1>4. ASSUME NEW u \in Thread \ {t}, Holding(u) PROVE Spared(worker[u].var, worker[u].near)
  BY <1>4, HoldingFacts, NothingSpares
<1>5. \A s \in Thread : worker[s].at = "resolved" => SameTask(s)
  BY <1>3
<1>6. ASSUME NEW u \in Thread \ {t}, worker[u].at = "looked" PROVE Noticed(u)
  <2>1. Shrinks(worker[u].var)
    BY DEF Shrinks, All
  <2>2. QED
    BY <1>5, <2>1 DEF Noticed
<1>7. Locked(t)' = {}
  BY DEF Locked, Holding
<1>8. QED
  BY <1>1, <1>3, <1>4, <1>6, <1>7, ThreadsStay

LEMMA ParLookThreads ==
    ASSUME Typed, Typed', Mixed, ThreadsInv, NEW t \in Thread, NEW v \in Vars, ParLook(t, v)
    PROVE  ThreadsInv'
<1> DEFINE w == [IdleWorker EXCEPT !.at = "looked", !.var = v, !.near = Near(v)]
<1>1. /\ ok /\ worker[t].at = "idle" /\ Candidate(v) /\ worker' = [worker EXCEPT ![t] = w]
      /\ UNCHANGED <<core, learnts, units, ok, fresh, start>>
  BY DEF ParLook, At
<1>2. v \in Nat /\ Near(v) \in SUBSET Vars
  BY NearTyped, VarsAssumption
<1>3. IdleWorker \in Workers
  BY DEF IdleWorker, Workers, Formula
<1>4. w \in Workers /\ w.at = "looked" /\ w.var = v /\ w.near = Near(v)
  <2> DEFINE n == Near(v)
  <2>1. n \in SUBSET Vars
    BY <1>2
  <2> HIDE DEF n
  <2>2. \A r \in Workers : LET x == [r EXCEPT !.at = "looked", !.var = v, !.near = n]
                          IN  x \in Workers /\ x.at = "looked" /\ x.var = v /\ x.near = n
    BY <1>2, <2>1 DEF Workers
  <2>3. QED
    BY <1>3, <2>2 DEF n
<1> HIDE DEF w
<1>5. worker'[t] = w
  BY <1>1, WorkerTyped
<1>6. ~ Holding(t)' /\ worker'[t].at = "looked" /\ worker'[t].var = v /\ worker'[t].near = Near(v)
  BY <1>4, <1>5 DEF Holding
<1>7. v \in Near(v)
  <2>1. PICK C \in All : v \in C \/ -v \in C
    BY <1>1 DEF Candidate, Occurring
  <2>2. v \in VarsOf(C)
    BY <2>1, VariableOf
  <2>3. QED
    BY <2>2, NearBy
<1>8. v \in Vars \ Frozen /\ Frozen' = Frozen /\ Near(v)' = Near(v)
  BY <1>1 DEF Candidate, Frozen, ExportVar, Renamed, Typed, Near, With, All
<1>9. ThreadInv(t)'
  <2>1. Near(worker[t].var)' \subseteq worker'[t].near
    BY <1>1, <1>6 DEF Near, With, All
  <2>2. QED
    BY <1>6, <1>7, <1>8, <2>1 DEF ThreadInv
<1>10. QED
  BY <1>1, <1>4, <1>6, <1>9, NothingThreads

LEMMA ParLetGoThreads ==
    ASSUME Typed, Typed', Mixed, ThreadsInv, NEW t \in Thread, ParLetGo(t) \/ ParLockAgain(t)
    PROVE  ThreadsInv'
<1>1. /\ ok /\ worker[t].at # "resolved" /\ worker' = [worker EXCEPT ![t] = IdleWorker]
      /\ UNCHANGED <<core, learnts, units, ok, fresh, start>>
  BY DEF ParLetGo, ParLockAgain, At, vars
<1>2. IdleWorker \in Workers /\ IdleWorker.at = "idle"
  BY DEF IdleWorker, Workers, Formula
<1>3. worker'[t] = IdleWorker
  BY <1>1, WorkerTyped
<1>4. ~ Holding(t)' /\ ThreadInv(t)'
  BY <1>2, <1>3 DEF Holding, ThreadInv
<1>5. QED
  BY <1>1, <1>2, <1>4, NothingThreads

\* The variables of a unit, and of a resolvent, are neighbours.
LEMMA ParUnitsVariables ==
    ASSUME Typed, Mixed, NEW v \in Vars, NEW gate
    PROVE  v \notin VarsOf(ParUnits(v, gate)) /\ VarsOf(ParUnits(v, gate)) \subseteq Near(v)
<1>1. ASSUME NEW k \in ParUnits(v, gate) PROVE VarOf(k) # v /\ VarOf(k) \in Near(v)
  <2>1. PICK C \in With(v), D \in With(-v) : k \in Resolvent(C, D, v)
    BY DEF ParUnits
  <2>2. v \notin VarsOf(Resolvent(C, D, v)) /\ VarsOf(Resolvent(C, D, v)) \subseteq Near(v)
    BY ResolventVariables
  <2>3. QED
    BY <2>1, <2>2 DEF VarsOf
<1>2. QED
  BY <1>1 DEF VarsOf

LEMMA AddedVariables ==
    ASSUME Typed, Mixed, NEW v \in Vars, NEW gate, NEW parents,
           NEW C \in ParResolvents(v, gate) \cup ParLearnts(v, gate, parents)
    PROVE  v \notin VarsOf(C) /\ VarsOf(C) \subseteq Near(v)
<1>1. PICK D \in With(v), E \in With(-v) : C = Resolvent(D, E, v)
  <2>1. CASE C \in ParResolvents(v, gate)
    <3>1. C \in ResolventsOf(With(v) \cap core, With(-v) \cap core, v, gate)
      BY <2>1 DEF ParResolvents, ManyLits
    <3>2. QED
      BY <3>1 DEF ResolventsOf
  <2>2. CASE C \in ParLearnts(v, gate, parents)
    <3>1. \E p \in With(v) \X With(-v) : C = Resolvent(p[1], p[2], v)
      BY <2>2 DEF ParLearnts, ManyLits
    <3>2. QED
      BY <3>1
  <2>3. QED
    BY <2>1, <2>2
<1>2. QED
  BY <1>1, ResolventVariables

LEMMA ParResolveThreads ==
    ASSUME Typed, Typed', Mixed, ThreadsInv, NEW t \in Thread, ParResolve(t)
    PROVE  ThreadsInv'
<1>0. PICK v, n, gate : v = worker[t].var /\ n = worker[t].near /\ gate = worker[t].gate
  OBVIOUS
<1>1. PICK parents, U :
        parents \in 0..2 /\ U = {} /\ Enqueued(core \cup ParResolvents(v, gate), learnts \cup ParLearnts(v, gate, parents), U, U)
  <2> DEFINE None == {}
  <2>1. \E parents \in 0..2 :
          Enqueued(core \cup ParResolvents(v, gate), learnts \cup ParLearnts(v, gate, parents), None, None)
    BY <1>0 DEF ParResolve
  <2>2. None = {}
    OBVIOUS
  <2> HIDE DEF None
  <2>3. QED
    BY <2>1, <2>2
<1> DEFINE R == ParResolvents(v, gate)
           S == ParLearnts(v, gate, parents)
<1>2. /\ ok /\ worker[t].at = "anticipated" /\ Holding(t) /\ UNCHANGED <<fresh, start>>
      /\ worker' = [worker EXCEPT ![t].at = "resolved"]
  BY <1>1 DEF ParResolve, At, Enqueued, Holding
<1>3. /\ v \in Vars /\ v \in Open /\ v \in n /\ Near(v) \subseteq n /\ Locked(t) = n
      /\ Secured(v, n, gate) /\ v \in Vars \ Frozen
  <2>1. ThreadInv(t)
    BY <1>2 DEF ThreadsInv
  <2>2. QED
    BY <1>0, <1>2, <2>1, HoldingFacts DEF ThreadInv
<1>4. \A C \in R \cup S : v \notin VarsOf(C) /\ VarsOf(C) \subseteq n
  BY <1>3, AddedVariables
<1>5. Enqueued(core \cup R, learnts \cup S, U, U)
  BY <1>1
<1>6. ok' => R \subseteq core'
  <2>1. \A C \in R : Cardinality(C) > 1
    BY DEF ParResolvents, ManyLits
  <2> HIDE DEF R, S
  <2>2. QED
    BY <1>5, <2>1 DEF Enqueued
<1>7. worker' \in [Thread -> Workers] /\ \A u \in Thread \ {t} : worker'[u] = worker[u]
  BY <1>2 DEF ThreadsInv, Workers
<1>8. worker'[t].at = "resolved" /\ worker'[t].var = v /\ worker'[t].near = n /\ worker'[t].gate = gate
  BY <1>0, <1>2, WorkerTyped DEF Workers
<1>9. ASSUME ok', NEW u \in Thread \ {t}, Holding(u) PROVE Spared(worker[u].var, worker[u].near)
  <2>1. Locked(u) \cap n = {}
    BY <1>2, <1>3 DEF ThreadsInv, LocksApart
  <2>2. /\ worker[u].var \in Vars /\ worker[u].var \in Open /\ worker[u].var \in Locked(u)
    BY <1>2, <1>9, HoldingFacts
  <2>3. \A C \in R \cup S : worker[u].var \notin VarsOf(C)
    BY <1>4, <2>1, <2>2
  <2> HIDE DEF R, S
  <2>4. QED
    BY <1>1, <1>5, <1>9, <2>2, <2>3, AddingSpares
<1>10. ASSUME ok' PROVE ThreadInv(t)'
  <2>1. Spared(v, n)
    <3>1. \A C \in R \cup S : v \notin VarsOf(C)
      BY <1>4
    <3> HIDE DEF R, S
    <3>2. QED
      BY <1>1, <1>3, <1>5, <1>10, <3>1, AddingSpares
  <2>2. Secured(v, n, gate)' /\ ParResolvents(v, gate)' = R
    BY <1>3, <2>1, SecuredStays
  <2>3. ParResolvents(v, gate)' \subseteq core'
    BY <1>6, <1>10, <2>2
  <2>4. Frozen' = Frozen
    BY <1>2 DEF Frozen, ExportVar, Renamed, Typed
  <2>5. Secured(worker[t].var, worker[t].near, worker[t].gate)'
    BY <1>8, <2>2 DEF Secured, Near, Settled, ParResolvents, ResolventsOf, ManyLits, With
  <2>6. ParResolvents(worker[t].var, worker[t].gate)' \subseteq core'
    BY <1>8, <2>3 DEF ParResolvents, ResolventsOf, ManyLits, With
  <2>7. QED
    BY <1>3, <1>8, <2>4, <2>5, <2>6 DEF ThreadInv
<1>11. Locked(t)' = n /\ \A u \in Thread \ {t} : Locked(u) \cap n = {}
  BY <1>2, <1>3, <1>8 DEF Locked, ThreadsInv, LocksApart
<1>12. \A u \in Thread \ {t} : SameTask(u)
  BY <1>7 DEF SameTask
<1>13. ASSUME NEW u \in Thread \ {t}, worker[u].at = "looked" PROVE Noticed(u)
  <2>1. CASE worker[u].var \in n
    BY <1>8, <2>1 DEF Noticed
  <2>2. CASE worker[u].var \notin n
    <3>1. \A C \in (core \cup R) \cup (learnts \cup S) : worker[u].var \in VarsOf(C) => C \in All
      BY <1>4, <2>2 DEF All
    <3> DEFINE K == core \cup R
               L == learnts \cup S
    <3>2. Enqueued(K, L, U, U) /\ \A C \in K \cup L : worker[u].var \in VarsOf(C) => \E D \in All : C \subseteq D
      BY <3>1, <1>5
    <3> HIDE DEF K, L
    <3>3. Shrinks(worker[u].var)
      BY <3>2, ShrinksBy
    <3>4. QED
      BY <3>3, <1>2, <1>12 DEF Noticed
  <2>3. QED
    BY <2>1, <2>2
<1>14. QED
  BY <1>2, <1>7, <1>9, <1>10, <1>11, <1>12, <1>13, ThreadsStay

LEMMA ParRemoveThreads ==
    ASSUME Typed, Typed', Mixed, ThreadsInv, NEW t \in Thread, ParRemove(t)
    PROVE  ThreadsInv'
<1>0. PICK v, n, B, U : v = worker[t].var /\ n = worker[t].near /\ B = With(v) \cup With(-v) /\ U = {}
  OBVIOUS
<1>1. /\ ok /\ worker[t].at = "resolved" /\ Holding(t) /\ Enqueued(core \ B, learnts \ B, U, U)
      /\ worker' = [s \in Thread |->
                        IF s = t THEN IdleWorker ELSE [worker[s] EXCEPT !.stale = @ \/ worker[s].var \in n]]
  BY <1>0 DEF ParRemove, At, Holding
<1>2. UNCHANGED <<fresh, start>>
  BY <1>1 DEF Enqueued
<1>3. v \in Vars /\ v \in n /\ Locked(t) = n
  BY <1>0, <1>1, HoldingFacts
<1>4. \A C \in B : v \in VarsOf(C)
  BY <1>0, <1>3, VariableOf DEF With
<1>5. IdleWorker \in Workers /\ IdleWorker.at = "idle"
  BY DEF IdleWorker, Workers, Formula
<1>6. ASSUME NEW u \in Thread \ {t}
      PROVE  /\ worker'[u] \in Workers /\ SameTask(u)
             /\ worker'[u].stale <=> worker[u].stale \/ worker[u].var \in n
  <2>1. worker'[u] = [worker[u] EXCEPT !.stale = @ \/ worker[u].var \in n]
    BY <1>1
  <2>2. worker[u] \in Workers
    BY DEF ThreadsInv
  <2>3. \A r \in Workers, x \in BOOLEAN :
          LET y == [r EXCEPT !.stale = x]
          IN  y \in Workers /\ y.at = r.at /\ y.var = r.var /\ y.near = r.near /\ y.gate = r.gate /\ y.stale = x
    BY DEF Workers
  <2>4. (worker[u].stale \/ worker[u].var \in n) \in BOOLEAN
    OBVIOUS
  <2>5. QED
    BY <2>1, <2>2, <2>3, <2>4 DEF SameTask
<1>7. worker'[t] = IdleWorker
  BY <1>1
<1>8. worker' \in [Thread -> Workers]
  <2>1. \A s \in Thread : worker'[s] \in Workers
    BY <1>5, <1>6, <1>7
  <2>2. worker' = [s \in Thread |-> worker'[s]]
    BY <1>1
  <2>3. QED
    BY <2>1, <2>2
<1>9. ThreadInv(t)' /\ Locked(t)' = {}
  BY <1>5, <1>7 DEF ThreadInv, Holding, Locked
<1>10. ASSUME ok', NEW u \in Thread \ {t}, Holding(u) PROVE Spared(worker[u].var, worker[u].near)
  <2>1. Locked(u) \cap n = {}
    BY <1>1, <1>3 DEF ThreadsInv, LocksApart
  <2>2. /\ worker[u].var \in Vars /\ worker[u].var \in Open /\ Near(worker[u].var) \subseteq worker[u].near
        /\ v \notin worker[u].near
    BY <1>1, <1>3, <1>10, <2>1, HoldingFacts
  <2>3. worker[u].var \notin VarsOf(U)
    BY <1>0 DEF VarsOf
  <2>4. QED
    BY <1>1, <1>3, <1>4, <1>10, <2>2, <2>3, RemovingSpares
<1>11. ASSUME NEW u \in Thread \ {t}, worker[u].at = "looked" PROVE worker'[u].stale \/ Noticed(u)
  <2>1. CASE worker[u].var \in n
    BY <1>6, <2>1
  <2>2. CASE worker[u].var \notin n
    <3>1. \A C \in (core \ B) \cup (learnts \ B) : C \in All
      BY DEF All
    <3>2. Shrinks(worker[u].var)
      <4>1. \A C \in (core \ B) \cup (learnts \ B) : worker[u].var \in VarsOf(C) => \E D \in All : C \subseteq D
        BY <3>1
      <4>2. QED
        BY <1>1, <4>1, ShrinksBy
    <3>3. \A s \in Thread : worker[s].at = "resolved" /\ worker[u].var \in worker[s].near => SameTask(s)
      BY <1>0, <1>6, <2>2
    <3>4. QED
      BY <3>2, <3>3 DEF Noticed
  <2>3. QED
    BY <2>1, <2>2
<1>12. \A u \in Thread \ {t} : SameTask(u)
  BY <1>6
<1>13. QED
  BY <1>1, <1>2, <1>8, <1>9, <1>10, <1>11, <1>12, ThreadsStay

LEMMA ParAnticipateThreads ==
    ASSUME Typed, Typed', Mixed, ThreadsInv, NEW t \in Thread, ParAnticipate(t)
    PROVE  ThreadsInv'
<1>0. PICK v, n : v = worker[t].var /\ n = worker[t].near
  OBVIOUS
<1>1. PICK gate, B, done :
        /\ gate \in Definitions(v) /\ Removes(v, gate, B)
        /\ Enqueued(core \ B, learnts \ B, ParUnits(v, gate), done)
        /\ worker' = [worker EXCEPT ![t].at = "anticipated", ![t].gate = gate]
  BY <1>0, ParAnticipateIs
<1> DEFINE U == ParUnits(v, gate)
<1>2. ok /\ worker[t].at = "looked" /\ FreeFor(t, n) /\ StillValid(t) /\ UNCHANGED <<fresh, start>>
  BY <1>0, <1>1 DEF ParAnticipate, At, Enqueued
<1>3. v \in Vars /\ v \in Open \ Frozen /\ v \in n /\ Near(v) \subseteq n
  BY <1>0, <1>2, LooksAgain
<1>4. v \in Lits /\ -v \in Lits /\ v # -v /\ -(-v) = v
  BY <1>3, CandidateFacts
<1>5. gate = {} \/ IsGate(gate, v)
  BY <1>1, <1>4, DefinitionFacts
<1>6. gate \in Formula
  BY <1>5 DEF IsGate, Typed, Formula
<1>7. \A C \in B : v \in VarsOf(C)
  BY <1>1, <1>3, VariableOf DEF Removes, ParBlocked, With
<1>8. v \notin VarsOf(U) /\ VarsOf(U) \subseteq n
  BY <1>3, ParUnitsVariables
<1>9. worker' \in [Thread -> Workers] /\ \A u \in Thread \ {t} : worker'[u] = worker[u]
  BY <1>1, <1>6 DEF ThreadsInv, Workers
<1>10. worker'[t].at = "anticipated" /\ worker'[t].var = v /\ worker'[t].near = n /\ worker'[t].gate = gate
  BY <1>0, <1>1, <1>6, WorkerTyped DEF Workers
<1> HIDE DEF U
<1>11. Enqueued(core \ B, learnts \ B, U, done)
  BY <1>1 DEF U
<1>12. ASSUME ok', NEW u \in Thread \ {t}, Holding(u) PROVE Spared(worker[u].var, worker[u].near)
  <2>1. Locked(u) \cap n = {}
    BY <1>2 DEF FreeFor
  <2>2. /\ worker[u].var \in Vars /\ worker[u].var \in Open /\ Near(worker[u].var) \subseteq worker[u].near
        /\ v \notin worker[u].near /\ worker[u].var \notin VarsOf(U)
    BY <1>2, <1>3, <1>8, <1>12, <2>1, HoldingFacts
  <2>3. QED
    BY <1>3, <1>7, <1>11, <1>12, <2>2, RemovingSpares
<1>13. ASSUME NEW x PROVE Shrinks(x)
  <2>1. \A C \in (core \ B) \cup (learnts \ B) : x \in VarsOf(C) => \E D \in All : C \subseteq D
    BY DEF All
  <2>2. QED
    BY <1>11, <2>1, ShrinksBy
<1>14. ASSUME ok' PROVE core' = core \ B /\ learnts' = learnts \ B /\ units' = units \cup U
  <2>1. \A C \in All : Cardinality(C) > 1
    BY DEF Mixed
  <2>2. core' = {C \in core \ B : Cardinality(C) > 1} /\ learnts' = {C \in learnts \ B : Cardinality(C) > 1}
        /\ units' = units \cup U
    BY <1>11, <1>14 DEF Enqueued
  <2>3. QED
    BY <2>1, <2>2 DEF All
<1>15. ASSUME ok' PROVE Secured(v, n, gate)'
  <2>1. v \in Open'
    BY <1>2, <1>3, <1>8, <1>14, <1>15 DEF Open, Assigned, VarsOf
  <2>2. Near(v)' \subseteq n
    BY <1>3, <1>13, NearShrinks
  <2>3. Settled(v, gate)'
    <3>0. PICK P, N : P = Rest(v, B) /\ N = Rest(-v, B)
      OBVIOUS
    <3>1. (With(v) \cap core)' = P /\ (With(-v) \cap core)' = N
      BY <3>0, <1>14, <1>15 DEF With, All, Rest
    <3>2. SUFFICES ASSUME NEW A, \A l \in units' : Holds(A, l), IsModel(A, ParResolvents(v, gate)')
                   PROVE  \A C \in P, D \in N : Sat(A, Resolvent(C, D, v))
      BY <3>1 DEF Settled
    <3>3. UnitsHold(A, v, gate)
      BY <1>14, <1>15, <3>2, ParUnitsHold DEF U
    <3>4. ParResolvents(v, gate)' = ManyLits(ResolventsOf(P, N, v, gate))
      BY <3>1 DEF ParResolvents, ManyLits, ResolventsOf
    <3>5. ASSUME NEW C \in P, NEW D \in N, Resolved(C, D, gate), Meets(C, D, v), Cardinality(Resolvent(C, D, v)) > 1
          PROVE  Sat(A, Resolvent(C, D, v))
      <4>1. <<C, D>> \in P \X N /\ <<C, D>>[1] = C /\ <<C, D>>[2] = D
        OBVIOUS
      <4>2. Resolvent(C, D, v) \in ResolventsOf(P, N, v, gate)
        BY <3>5, <4>1 DEF ResolventsOf
      <4>3. Resolvent(C, D, v) \in ParResolvents(v, gate)'
        BY <3>4, <3>5, <4>2 DEF ManyLits
      <4>4. QED
        BY <3>2, <4>3 DEF IsModel
    <3>7. Long /\ (B = {} \/ B = ParBlocked(v, gate) \cup ParBlocked(-v, gate))
      BY <1>1, MixedIsLong DEF Removes
    <3>8. \A C \in Rest(v, B), D \in Rest(-v, B) : Resolved(C, D, gate) /\ Meets(C, D, v) /\ Cardinality(Resolvent(C, D, v)) > 1
            => Sat(A, Resolvent(C, D, v))
      BY <3>0, <3>5
    <3>9. QED
      BY <1>4, <1>5, <3>0, <3>3, <3>7, <3>8, AllResolventsHold
  <2>4. QED
    BY <2>1, <2>2, <2>3 DEF Secured
<1>16. ASSUME ok' PROVE ThreadInv(t)'
  <2>1. Frozen' = Frozen
    BY <1>2 DEF Frozen, ExportVar, Renamed, Typed
  <2>2. Secured(worker[t].var, worker[t].near, worker[t].gate)'
    BY <1>10, <1>15, <1>16 DEF Secured, Near, Settled, ParResolvents, ResolventsOf, ManyLits, With
  <2>3. QED
    BY <1>3, <1>10, <2>1, <2>2 DEF ThreadInv
<1>17. Locked(t)' = n /\ \A u \in Thread \ {t} : Locked(u) \cap n = {}
  BY <1>2, <1>10 DEF Locked, FreeFor
<1>18. \A u \in Thread \ {t} : SameTask(u)
  BY <1>9 DEF SameTask
<1>19. \A u \in Thread \ {t} : Noticed(u)
  <2>1. worker[t].at # "resolved"
    BY <1>2
  <2>2. QED
    BY <2>1, <1>13, <1>18 DEF Noticed
<1>20. QED
  BY <1>2, <1>9, <1>12, <1>16, <1>17, <1>18, <1>19, ThreadsStay

\* Each step of a thread keeps what all threads know.
LEMMA ParallelThreads ==
    ASSUME Typed, Typed', Mixed, ThreadsInv, ParallelNext
    PROVE  ThreadsInv'
BY ParLookThreads, ParLetGoThreads, ParAnticipateThreads, ParResolveThreads, ParRemoveThreads,
   ParStrengthenThreads, ParPropagateThreads DEF ParallelNext

\* Threads that are idle know nothing that a step could change.
LEMMA IdleThreads ==
    ASSUME Quiet, worker \in [Thread -> Workers], worker' = worker
    PROVE  ThreadsInv'
<1>1. \A t \in Thread : worker'[t] = IdleWorker
  BY DEF Quiet
<1>2. IdleWorker.at = "idle"
  BY DEF IdleWorker
<1>3. \A t \in Thread : worker'[t].at = "idle"
  BY <1>1, <1>2
<1>4. \A t \in Thread : Locked(t)' = {} /\ ThreadInv(t)'
  BY <1>3 DEF Locked, ThreadInv, Holding
<1>5. QED
  BY <1>4 DEF ThreadsInv, LocksApart

-----------------------------------------------------------------------------
(* All techniques together *)

\* The techniques that these theorems leave out.
LeftOut == {"bcm", "blocked gates", "exactly one", "ite", "parity", "fm", "alo matrix", "rer",
            "rewriting", "dense"}

\* Only the others run, and equivalences are looked for deep enough.
Lossless(s) == s.techniques \cap LeftOut = {} /\ ("ee" \in s.techniques => DeepEnough)

LEMMA SequentialSafe ==
    ASSUME WellFormed, forward = << >>, Lossless(start), Sequential
    PROVE  SafeStep
<1>1. \A t \in LeftOut : t \notin start.techniques
  BY DEF Lossless
<1>2. /\ "bcm" \notin start.techniques /\ "blocked gates" \notin start.techniques
      /\ "rer" \notin start.techniques /\ {"exactly one", "ite", "parity"} \cap start.techniques = {}
      /\ ~ Uses("rewriting") /\ ~ Uses("fm") /\ ~ Uses("alo matrix")
  BY <1>1 DEF LeftOut, Uses
<1>3. ~ RewritingNext /\ ~ CardinalityNext
  BY <1>2 DEF RewritingNext, CardinalityNext
<1>4. CASE SubsumptionNext \/ EliminationNext \/ ClauseEliminationNext \/ EquivalencesNext
  BY <1>2, <1>4, SubsumptionSafe, EliminationSafe, ClauseEliminationSafe, EquivalencesSafe DEF Lossless
<1>5. CASE ProbingNext \/ UnhidingNext \/ ImpliedNext \/ GatesNext
  BY <1>2, <1>5, ProbingSafe, UnhidingSafe, ImpliedNextSafe, GatesSafe
<1>6. CASE LearntNext \/ AdditionNext \/ ClauseAdditionNext
  BY <1>2, <1>6, LearntNextSafe, AdditionSafe, ClauseAdditionSafe
<1>7. CASE AsymmetricNext \/ SimpNext \/ XorNext
  BY <1>7, AsymmetricSafe, SimpSafe, XorSafe
<1>8. QED
  BY <1>3, <1>4, <1>5, <1>6, <1>7 DEF Sequential

\* What the given formula allows for the frozen variables is still allowed.
StillAllowed ==
    \A A \in SUBSET GivenVars : IsModel(A, Given) => ok /\ Allowed(A, All, units, fresh)

SafeInv == Mixed /\ forward = << >> /\ Lossless(start) /\ StillAllowed

LEMMA SafeBegin ==
    ASSUME Begin, Lossless(start)
    PROVE  SafeInv
<1>1. /\ start \in Starts /\ core = start.core /\ learnts = start.learnts
      /\ units = {} /\ ok = TRUE /\ forward = << >> /\ Quiet
      /\ fresh = Vars \ {VarOf(l) : l \in UNION (start.core \cup start.learnts)}
  BY DEF Begin, Init, NamesInit, ParallelInit, Quiet
<1>2. All = start.core \cup start.learnts /\ All \subseteq Clause /\ fresh = Vars \ GivenVars
  BY <1>1, StartsAssumption DEF All, GivenVars
<1>3. GivenVars \subseteq Vars
  <2>1. ASSUME NEW l \in UNION All PROVE VarOf(l) \in Vars
    <3>1. l \in Lits
      BY <1>2 DEF Clause
    <3>2. QED
      BY <3>1, LitFacts
  <2>2. QED
    BY <1>2, <2>1 DEF GivenVars
<1>4. Vars \ fresh = GivenVars
  BY <1>2, <1>3
<1>5. ASSUME NEW C \in All PROVE C \subseteq OpenLits
  <2>1. SUFFICES ASSUME NEW l \in C PROVE l \in OpenLits
    OBVIOUS
  <2>2. l \in Lits /\ VarOf(l) \in GivenVars
    BY <1>2 DEF Clause, GivenVars
  <2>3. Open = GivenVars
    BY <1>1, <1>4 DEF Open, Assigned
  <2>4. l = VarOf(l) \/ l = -VarOf(l)
    BY <2>2, LitFacts DEF VarOf
  <2>5. QED
    BY <2>2, <2>3, <2>4 DEF OpenLits
<1>6. start.frozen \cap fresh = {}
  BY <1>1, <1>2, FrozenAssumption DEF GivenVars
<1>7. Tidy(All) /\ \A C \in All : Cardinality(C) > 1
  BY <1>1, <1>2, ClausesAssumption DEF Tidy
<1>8. core \in SUBSET (SUBSET OpenLits) /\ learnts \in SUBSET (SUBSET OpenLits)
  BY <1>5 DEF All
<1>9. Mixed
  <2>1. WellFormed
    BY <1>1, <1>6, <1>7, <1>8 DEF WellFormed
  <2>2. pending = {}
    BY <1>1 DEF Quiet
  <2>3. QED
    BY <2>1, <2>2, WellFormedIsMixed
<1>10. StillAllowed
  <2>1. SUFFICES ASSUME NEW A \in SUBSET GivenVars, IsModel(A, Given)
                 PROVE  Allowed(A, All, units, fresh)
    BY <1>1 DEF StillAllowed
  <2>2. \E B \in SUBSET GivenVars : B \cap start.frozen = A \cap start.frozen /\ IsModel(B, All)
    BY <1>1, <1>2, <2>1, LearntsAssumption DEF GivenVars, Given
  <2>3. QED
    BY <1>1, <1>4, <2>2 DEF Allowed, Agree, Model
<1>11. QED
  BY <1>1, <1>9, <1>10 DEF SafeInv

LEMMA SharedStepKeeps ==
    ASSUME SafeInv, SharedStep, NamesFollow
    PROVE  SafeInv'
<1>1. Mixed' /\ start' = start /\ Lossless(start)'
  BY DEF SharedStep, SafeInv
<1>2. forward' = << >>
  BY DEF NamesFollow, Renamed, SafeInv
<1>3. Given' = Given /\ GivenVars' = GivenVars
  BY <1>1 DEF Given, GivenVars
<1>4. ASSUME NEW A \in SUBSET GivenVars, IsModel(A, Given)
      PROVE  ok' /\ Allowed(A, All, units, fresh)'
  <2>1. PICK B \in SUBSET (Vars \ fresh) : Agree(A, B) /\ Model(B, All, units)
    BY <1>4 DEF SafeInv, StillAllowed, Allowed
  <2>2. ok' /\ Allowed(B, All', units', fresh')
    BY <2>1 DEF SharedStep
  <2>3. PICK C \in SUBSET (Vars \ fresh') : Agree(B, C) /\ Model(C, All', units')
    BY <2>2 DEF Allowed
  <2>4. Agree(A, C)'
    BY <1>1, <2>1, <2>3 DEF Agree
  <2>5. Model(C, All, units)'
    BY <2>3 DEF Model, IsModel, Sat, Holds
  <2>6. QED
    BY <2>2, <2>4, <2>5 DEF Allowed
<1>5. StillAllowed'
  BY <1>3, <1>4 DEF StillAllowed
<1>6. QED
  BY <1>1, <1>2, <1>5 DEF SafeInv

LEMMA NextIsSafe ==
    ASSUME SafeInv, [Next]_<<vars, names, worker, pending>>
    PROVE  SafeInv'
<1>1. CASE Quiet /\ Sequential /\ NamesFollow /\ UNCHANGED <<worker, pending>>
  <2>1. SafeStep
    BY <1>1, QuietIsWellFormed, SequentialSafe DEF SafeInv
  <2>2. SharedStep
    BY <1>1, <2>1, SequentialIsShared
  <2>3. QED
    BY <1>1, <2>2, SharedStepKeeps
<1>2. CASE CompactionNext
  <2>1. "dense" \notin start.techniques
    BY DEF SafeInv, Lossless, LeftOut
  <2>2. QED
    BY <1>2, <2>1 DEF CompactionNext, Compress, Uses
<1>3. CASE ParallelNext /\ NamesFollow
  <2>1. SharedStep
    BY <1>3, ParallelShared DEF SafeInv
  <2>2. QED
    BY <1>3, <2>1, SharedStepKeeps
<1>4. CASE UNCHANGED <<vars, names, worker, pending>>
  <2>1. UNCHANGED <<core, learnts, units, ok, fresh, start, forward, worker, pending>>
    BY <1>4 DEF vars, names
  <2>2. UNCHANGED <<All, PresentLits, Given, GivenVars>> /\ LitsWithout(fresh)' = LitsWithout(fresh)
    BY <2>1 DEF All, PresentLits, Awaiting, LitsWithout, Open, Assigned, Given, GivenVars
  <2>3. Mixed' /\ Lossless(start)' /\ forward' = << >>
    BY <2>1, <2>2 DEF SafeInv, Mixed, Tidy
  <2>4. StillAllowed'
    <3>1. ASSUME NEW A, Allowed(A, All, units, fresh) PROVE Allowed(A, All, units, fresh)'
      BY <2>1, <2>2, <3>1 DEF Allowed, Agree, Model, IsModel, Sat, Holds
    <3>2. QED
      BY <2>1, <2>2, <3>1 DEF SafeInv, StillAllowed
  <2>5. QED
    BY <2>3, <2>4 DEF SafeInv
<1>5. QED
  BY <1>1, <1>2, <1>3, <1>4 DEF Next

LEMMA SafeMeans ==
    ASSUME SafeInv
    PROVE  NothingLost
<1>1. SUFFICES ASSUME NEW A \in SUBSET GivenVars, IsModel(A, Given)
               PROVE  ok /\ \E B \in Left(All) : Decompressed(B) \cap start.frozen = A \cap start.frozen
  BY DEF NothingLost
<1>2. ok /\ \E B \in SUBSET (Vars \ fresh) : Agree(A, B) /\ Model(B, All, units)
  BY <1>1 DEF SafeInv, StillAllowed, Allowed
<1>3. \A B : Decompressed(B) = B
  BY DEF Decompressed, Renamed, SafeInv
<1>4. QED
  BY <1>2, <1>3 DEF Left, Model, Agree

\* The simplified formula excludes nothing that the given one allows for the frozen
\* variables, whatever the formula and whichever of the techniques run on it, one after
\* the other in any order or by several threads; a formula that has a model is never refuted.
THEOREM NothingIsExcluded == Spec /\ Lossless(start) => []NothingLost
<1>1. Begin /\ Lossless(start) => SafeInv
  BY SafeBegin
<1>2. SafeInv /\ [Next]_<<vars, names, worker, pending>> => SafeInv'
  BY NextIsSafe
<1>3. SafeInv => NothingLost
  BY SafeMeans
<1>4. QED
  BY <1>1, <1>2, <1>3, PTL DEF Spec

-----------------------------------------------------------------------------
(* Models extend when threads eliminate variables *)

SharedInv == SafeInv /\ Restorable /\ ThreadsInv /\ Covered(start)

LEMMA SharedBegin ==
    ASSUME Begin, Lossless(start), Covered(start)
    PROVE  SharedInv
<1>1. Quiet /\ worker = [t \in Thread |-> IdleWorker]
  BY DEF Begin, ParallelInit, Quiet
<1>2. IdleWorker \in Workers /\ IdleWorker.at = "idle"
  BY DEF IdleWorker, Workers, Formula
<1>3. worker \in [Thread -> Workers] /\ \A t \in Thread : worker[t].at = "idle"
  BY <1>1, <1>2
<1>4. \A t \in Thread : Locked(t) = {} /\ ThreadInv(t)
  BY <1>3 DEF Locked, ThreadInv, Holding
<1>5. ThreadsInv
  BY <1>3, <1>4 DEF ThreadsInv, LocksApart
<1>6. QED
  BY <1>5, SafeBegin, GoodBegin DEF SharedInv

\* Nothing changes.
LEMMA NothingThreadsKnow ==
    ASSUME ThreadsInv, UNCHANGED <<vars, names, worker>>
    PROVE  ThreadsInv'
<1>1. UNCHANGED <<core, learnts, units, ok, fresh, start, forward, worker>>
  BY DEF vars, names
<1>2. UNCHANGED <<All, Open, Frozen>>
  BY <1>1 DEF All, Open, Assigned, Frozen, ExportVar, Renamed
<1>3. \A v : With(v)' = With(v) /\ Near(v)' = Near(v)
  BY <1>2 DEF Near, With
<1>4. \A v, gate : ParResolvents(v, gate)' = ParResolvents(v, gate)
  BY <1>1, <1>2 DEF ParResolvents, ManyLits, ResolventsOf, With
<1>5. ASSUME NEW v, NEW gate, Settled(v, gate) PROVE Settled(v, gate)'
  BY <1>1, <1>3, <1>4, <1>5 DEF Settled
<1>6. ASSUME NEW t \in Thread, ok, ThreadInv(t) PROVE ThreadInv(t)'
  <2>0. PICK v, n, gate : v = worker[t].var /\ n = worker[t].near /\ gate = worker[t].gate
    OBVIOUS
  <2>1. /\ worker[t].at # "idle" => v \in n /\ v \in Vars \ Frozen
        /\ worker[t].at = "looked" /\ ~ worker[t].stale =>
              Near(v) \subseteq n \/ \E s \in Thread : worker[s].at = "resolved" /\ v \in worker[s].near
        /\ Holding(t) => v \in Open /\ Near(v) \subseteq n /\ Settled(v, gate)
        /\ worker[t].at = "resolved" => ParResolvents(v, gate) \subseteq core
    BY <1>6, <2>0 DEF ThreadInv, Secured
  <2>2. Holding(t)' <=> Holding(t)
    BY <1>1 DEF Holding
  <2>3. /\ worker'[t].at # "idle" => v \in n /\ v \in Vars \ Frozen'
        /\ worker'[t].at = "looked" /\ ~ worker'[t].stale =>
              Near(v)' \subseteq n \/ \E s \in Thread : worker'[s].at = "resolved" /\ v \in worker'[s].near
        /\ Holding(t)' => v \in Open' /\ Near(v)' \subseteq n /\ Settled(v, gate)'
        /\ worker'[t].at = "resolved" => ParResolvents(v, gate)' \subseteq core'
    BY <1>1, <1>2, <1>3, <1>4, <1>5, <2>1, <2>2
  <2>4. worker'[t].var = v /\ worker'[t].near = n /\ worker'[t].gate = gate
    BY <2>0, <1>1
  <2>5. Near(worker[t].var)' = Near(v)'
    BY <2>4 DEF Near, With
  <2>6. ParResolvents(worker[t].var, worker[t].gate)' = ParResolvents(v, gate)'
    BY <2>4 DEF ParResolvents, ManyLits, ResolventsOf, With
  <2>7. Holding(t)' => Secured(worker[t].var, worker[t].near, worker[t].gate)'
    BY <2>3, <2>4 DEF Secured, Near, Settled, ParResolvents, ManyLits, ResolventsOf, With
  <2>8. QED
    BY <2>3, <2>4, <2>5, <2>6, <2>7 DEF ThreadInv
<1>7. LocksApart => LocksApart'
  BY <1>1 DEF LocksApart, Locked
<1>8. QED
  BY <1>1, <1>6, <1>7 DEF ThreadsInv

LEMMA NextIsShared ==
    ASSUME SharedInv, [Next]_<<vars, names, worker, pending>>
    PROVE  SharedInv'
<1>1. SafeInv' /\ Typed /\ Mixed
  BY NextIsSafe DEF SharedInv, SafeInv, Restorable
<1>2. CASE Quiet /\ Sequential /\ NamesFollow /\ UNCHANGED <<worker, pending>>
  <2>1. GoodStep
    BY <1>1, <1>2, SequentialGood DEF SharedInv, Covered
  <2>2. Restorable' /\ start' = start
    BY <1>2, <2>1, GoodStepKeeps DEF SharedInv
  <2>3. ThreadsInv'
    BY <1>2, IdleThreads DEF SharedInv, ThreadsInv
  <2>4. QED
    BY <1>1, <2>2, <2>3 DEF SharedInv, Covered
<1>3. CASE CompactionNext
  <2>1. "dense" \notin start.techniques
    BY DEF SharedInv, Covered, Unproved
  <2>2. QED
    BY <1>3, <2>1 DEF CompactionNext, Compress, Uses
<1>4. CASE ParallelNext /\ NamesFollow
  <2>1. GoodStep
    BY <1>1, <1>4, ParallelGood DEF SharedInv
  <2>2. Restorable' /\ start' = start
    BY <1>4, <2>1, GoodStepKeeps DEF SharedInv
  <2>3. Typed'
    BY <2>2 DEF Restorable
  <2>4. ThreadsInv'
    BY <1>1, <1>4, <2>3, ParallelThreads DEF SharedInv
  <2>5. QED
    BY <1>1, <2>2, <2>4 DEF SharedInv, Covered
<1>5. CASE UNCHANGED <<vars, names, worker, pending>>
  <2>1. Restorable' /\ ThreadsInv'
    BY <1>5, NothingKeeps, NothingThreadsKnow DEF SharedInv
  <2>2. start' = start
    BY <1>5 DEF vars
  <2>3. QED
    BY <1>1, <2>1, <2>2 DEF SharedInv, Covered
<1>6. QED
  BY <1>2, <1>3, <1>4, <1>5 DEF Next

\* A model of what is left becomes a model of what was given also when several threads
\* eliminate variables at the same time, and strengthen and propagate meanwhile.
THEOREM ModelsExtendWithThreads == Spec /\ Lossless(start) /\ Covered(start) => []ModelsExtend
<1>1. Begin /\ Lossless(start) /\ Covered(start) => SharedInv
  BY SharedBegin
<1>2. SharedInv /\ [Next]_<<vars, names, worker, pending>> => SharedInv'
  BY NextIsShared
<1>3. SharedInv => ModelsExtend
  BY GoodModels DEF SharedInv
<1>4. QED
  BY <1>1, <1>2, <1>3, PTL DEF Spec

LEMMA TypesOfBoth ==
    ASSUME SharedInv
    PROVE  TypeOK
<1>1. core \subseteq Clause /\ learnts \subseteq Clause /\ units \subseteq Lits
  BY DEF SharedInv, SafeInv, Mixed, PresentLits, LitsWithout, Clause
<1>2. ok \in BOOLEAN /\ fresh \subseteq Vars /\ pending \subseteq units
  BY DEF SharedInv, SafeInv, Mixed
<1>3. \A C \in All : Cardinality(C) > 1 /\ ~ Tautology(C)
  BY DEF SharedInv, SafeInv, Mixed, Tidy
<1>4. ASSUME NEW C \in All PROVE {VarOf(l) : l \in C} \subseteq Open \cup {VarOf(l) : l \in pending}
  BY PresentIsThere DEF SharedInv, SafeInv, PresentLits, Awaiting
<1>5. \A i \in DOMAIN undo : undo[i].lit \in undo[i].clause /\ undo[i].clause \in Clause
  <2>1. undo \in Seq(Entry)
    BY DEF SharedInv, Restorable, Typed
  <2>2. \A e \in Entry : e.lit \in e.clause /\ e.clause \in Clause
    BY DEF Entry
  <2> HIDE DEF Entry
  <2>3. \A i \in DOMAIN undo : undo[i] \in Entry
    BY <2>1
  <2>4. QED
    BY <2>2, <2>3
<1>6. QED
  BY <1>1, <1>2, <1>3, <1>4, <1>5 DEF TypeOK

\* Clauses that are kept have two literals at least, are no tautologies and have no
\* variable that is assigned; an entry of the stack has its literal in its clause.
THEOREM TypesAlwaysHold == Spec /\ Lossless(start) /\ Covered(start) => []TypeOK
<1>1. Begin /\ Lossless(start) /\ Covered(start) => SharedInv
  BY SharedBegin
<1>2. SharedInv /\ [Next]_<<vars, names, worker, pending>> => SharedInv'
  BY NextIsShared
<1>3. SharedInv => TypeOK
  BY TypesOfBoth
<1>4. QED
  BY <1>1, <1>2, <1>3, PTL DEF Spec
==============================================================================
