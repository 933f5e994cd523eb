------------------------------ MODULE Cdcl_proofs ------------------------------
(***************************************************************************)
(* Theorems about module Cdcl, for every finite set of variables, every    *)
(* input and every question: the types, the reasons, and that nothing is   *)
(* claimed that does not follow from the clauses that were added.  First   *)
(* the trail, the levels and the reasons (AssignmentInv), and what the     *)
(* solver does to them: cutting the trail, putting a literal on it and     *)
(* deciding one.  Then the inductive invariant and what follows from it,   *)
(* the steps that open no level and learn nothing, and the others.         *)
(***************************************************************************)
EXTENDS Cdcl, FiniteSetTheorems, SequenceTheorems, WellFoundedInduction, TLAPS

\* A nonempty set of numbers has a least element, and a greatest one if it is
\* bounded.
LEMMA LeastExists ==
    ASSUME NEW S \in SUBSET Nat, S # {}
    PROVE  \E x \in S : \A y \in S : x <= y
<1> DEFINE below == {0 .. x - 1 : x \in S}
<1>1. below \subseteq FiniteSubsetsOf(Nat)
  <2> SUFFICES ASSUME NEW x \in S PROVE 0 .. x - 1 \in FiniteSubsetsOf(Nat) OBVIOUS
  <2>1. IsFiniteSet(0 .. x - 1) BY FS_Interval
  <2> QED BY <2>1 DEF FiniteSubsetsOf
<1>2. below # {} OBVIOUS
<1>3. \E I \in below : \A J \in below : ~ (<<J, I>> \in StrictSubsetOrdering(Nat))
  BY <1>1, <1>2, FS_StrictSubsetOrderingWellFounded, WFMin
<1>4. PICK x \in S : \A y \in S : ~ (<<0 .. y - 1, 0 .. x - 1>> \in StrictSubsetOrdering(Nat))
  BY <1>3
<1>5. \A y \in S : x <= y
  <2> SUFFICES ASSUME NEW y \in S, y < x PROVE FALSE OBVIOUS
  <2>1. 0 .. y - 1 \in SUBSET Nat /\ 0 .. x - 1 \in SUBSET Nat OBVIOUS
  <2>2. 0 .. y - 1 \subseteq 0 .. x - 1 OBVIOUS
  <2>3. y \in 0 .. x - 1 /\ y \notin 0 .. y - 1 OBVIOUS
  <2> QED BY <1>4, <2>1, <2>2, <2>3 DEF StrictSubsetOrdering
<1> QED BY <1>5

\* A bounded set of numbers that is not empty has a greatest one.
LEMMA GreatestExists ==
    ASSUME NEW S \in SUBSET Nat, S # {}, NEW b \in Nat, \A x \in S : x <= b
    PROVE  \E x \in S : \A y \in S : y <= x
<1> DEFINE T == {b - x : x \in S}
<1>1. T \in SUBSET Nat /\ T # {}
  <2>1. \A x \in S : b - x \in Nat OBVIOUS
  <2> QED BY <2>1
<1>2. PICK t \in T : \A u \in T : t <= u
  <2> HIDE DEF T
  <2> QED BY <1>1, LeastExists
<1>3. PICK x \in S : t = b - x OBVIOUS
<1>4. \A y \in S : y <= x
  <2> TAKE y \in S
  <2>1. b - x <= b - y BY <1>2, <1>3
  <2> QED BY <2>1
<1> QED BY <1>4

-----------------------------------------------------------------------------
(* The assignment *)

\* Each variable is assigned once.
OnceOnTrail == \A i, j \in DOMAIN trail : VarOf(trail[i]) = VarOf(trail[j]) => i = j

\* Levels begin one after the other.
LimitsInOrder ==
    /\ \A k \in DOMAIN trail_lim : trail_lim[k] <= Len(trail)
    /\ \A j, k \in DOMAIN trail_lim : j <= k => trail_lim[j] <= trail_lim[k]

\* A literal stands on the trail where its level is, and after the first
\* literal of a level there are no decisions.
LevelsMatch ==
    \A i \in DOMAIN trail :
        LET k == LevelOf(trail[i])
        IN  /\ k <= DecisionLevel
            /\ k > 0 => trail_lim[k] < i
            /\ k < DecisionLevel => i <= trail_lim[k + 1]
            /\ k > 0 /\ ReasonOf(trail[i]) = NoReason => i = trail_lim[k] + 1

\* What is not assigned has neither level nor reason.
NothingElse ==
    \A v \in Vars : (\A i \in DOMAIN trail : VarOf(trail[i]) # v)
                      => level[v] = 0 /\ reason[v] = NoReason

\* All other literals of a reason were false before.
ReasonsBefore ==
    \A i \in DOMAIN trail :
        LET R == ReasonOf(trail[i])
        IN  R # NoReason => /\ trail[i] \in R
                            /\ \A l \in R \ {trail[i]} : \E j \in 1 .. i - 1 : trail[j] = -l

AssignmentOK ==
    /\ trail \in Seq(Lits) /\ trail_lim \in Seq(Nat)
    /\ level \in [Vars -> Nat] /\ reason \in [Vars -> Clause]

AssignmentInv == /\ AssignmentOK /\ OnceOnTrail /\ LimitsInOrder /\ LevelsMatch
                 /\ NothingElse /\ ReasonsBefore

\* Literals, their complements and their variables.
LEMMA LitFacts ==
    ASSUME NEW l \in Lits
    PROVE  /\ VarOf(l) \in Vars /\ l \in Int /\ -l \in Lits /\ -(-l) = l /\ l # -l
           /\ VarOf(-l) = VarOf(l)
           /\ \A m \in Lits : VarOf(m) = VarOf(l) => m = l \/ m = -l
<1>1. Vars \subseteq Nat \ {0} BY VarsAssumption
<1>2. \A m \in Lits : m \in Int /\ m # 0 /\ VarOf(m) \in Vars /\ -m \in Lits
  BY <1>1 DEF Lits, VarOf
<1> QED BY <1>2 DEF VarOf

\* Where BackTo cuts the trail.
Cut(to) == IF to < DecisionLevel THEN trail_lim[to + 1] ELSE Len(trail)

\* The part of the trail up to a level is what has at most this level.
LEMMA CutFacts ==
    ASSUME AssignmentInv, NEW to \in 0 .. DecisionLevel
    PROVE  /\ DecisionLevel \in Nat /\ Len(trail) \in Nat
           /\ DOMAIN trail = 1 .. Len(trail) /\ DOMAIN trail_lim = 1 .. DecisionLevel
           /\ Cut(to) \in 0 .. Len(trail)
           /\ \A i \in DOMAIN trail : /\ trail[i] \in Lits /\ LevelOf(trail[i]) \in Nat
                                      /\ i <= Cut(to) <=> LevelOf(trail[i]) <= to
<1>1. /\ DecisionLevel \in Nat /\ Len(trail) \in Nat
      /\ DOMAIN trail = 1 .. Len(trail) /\ DOMAIN trail_lim = 1 .. DecisionLevel
      /\ \A k \in 1 .. DecisionLevel : trail_lim[k] \in Nat
  BY DEF DecisionLevel, AssignmentInv, AssignmentOK
<1>2. /\ \A k \in 1 .. DecisionLevel : trail_lim[k] <= Len(trail)
      /\ \A j, k \in 1 .. DecisionLevel : j <= k => trail_lim[j] <= trail_lim[k]
  BY <1>1 DEF AssignmentInv, LimitsInOrder
<1>3. Cut(to) \in 0 .. Len(trail)
  <2>1. CASE to < DecisionLevel
    <3>1. to + 1 \in 1 .. DecisionLevel BY <1>1, <2>1
    <3> QED BY <1>1, <1>2, <2>1, <3>1 DEF Cut
  <2>2. CASE ~ to < DecisionLevel BY <1>1, <2>2 DEF Cut
  <2> QED BY <2>1, <2>2
<1>4. ASSUME NEW i \in DOMAIN trail
      PROVE  /\ trail[i] \in Lits /\ LevelOf(trail[i]) \in Nat
             /\ i <= Cut(to) <=> LevelOf(trail[i]) <= to
  <2>1. trail[i] \in Lits BY DEF AssignmentInv, AssignmentOK
  <2>2. LevelOf(trail[i]) \in Nat BY <2>1, LitFacts DEF LevelOf, AssignmentInv, AssignmentOK
  <2> DEFINE k == LevelOf(trail[i])
  <2>3. /\ k <= DecisionLevel
        /\ k > 0 => trail_lim[k] < i
        /\ k < DecisionLevel => i <= trail_lim[k + 1]
    BY DEF AssignmentInv, LevelsMatch
  <2> HIDE DEF k
  <2>4. ASSUME k <= to PROVE i <= Cut(to)
    <3>1. CASE to < DecisionLevel
      <4>1. k + 1 \in 1 .. DecisionLevel /\ to + 1 \in 1 .. DecisionLevel
        BY <1>1, <2>2, <2>4, <3>1 DEF k
      <4>2. i <= trail_lim[k + 1] /\ trail_lim[k + 1] <= trail_lim[to + 1]
        BY <1>1, <1>2, <2>2, <2>3, <2>4, <3>1, <4>1 DEF k
      <4> QED BY <1>1, <3>1, <4>1, <4>2 DEF Cut
    <3>2. CASE ~ to < DecisionLevel BY <1>1, <3>2 DEF Cut
    <3> QED BY <3>1, <3>2
  <2>5. ASSUME k > to PROVE ~ i <= Cut(to)
    <3>1. to + 1 \in 1 .. DecisionLevel /\ k \in 1 .. DecisionLevel
      BY <1>1, <2>2, <2>3, <2>5 DEF k
    <3>2. trail_lim[to + 1] <= trail_lim[k] /\ trail_lim[k] < i
      BY <1>2, <2>2, <2>3, <2>5, <3>1 DEF k
    <3> QED BY <1>1, <2>5, <3>1, <3>2 DEF Cut
  <2> QED BY <2>1, <2>2, <2>4, <2>5 DEF k
<1> QED BY <1>1, <1>3, <1>4

\* What is left of the trail, and what comes on it.
LEMMA BackToFacts ==
    ASSUME AssignmentInv, NEW to \in 0 .. DecisionLevel, NEW queue \in Seq(Lits),
           NEW why \in Clause, BackTo(to, queue, why)
    PROVE  /\ trail' \in Seq(Lits) /\ trail_lim' \in Seq(Nat)
           /\ Len(queue) \in Nat
           /\ Len(trail') = Cut(to) + Len(queue) /\ DOMAIN trail' = 1 .. Len(trail')
           /\ \A i \in 1 .. Cut(to) : trail'[i] = trail[i]
           /\ \A i \in 1 .. Len(queue) : trail'[Cut(to) + i] = queue[i]
           /\ DecisionLevel' = to /\ DOMAIN trail_lim' = 1 .. to
           /\ \A k \in 1 .. to : trail_lim'[k] = trail_lim[k]
<1> DEFINE part == SubSeq(trail, 1, Cut(to))
           lims == SubSeq(trail_lim, 1, to)
<1>1. trail' = part \o queue /\ trail_lim' = IF to < DecisionLevel THEN lims ELSE trail_lim
  BY DEF BackTo, Cut
<1>2. /\ DecisionLevel \in Nat /\ Cut(to) \in 0 .. Len(trail)
      /\ Len(trail) \in Nat /\ DOMAIN trail_lim = 1 .. DecisionLevel
      /\ \A i \in 1 .. Len(trail) : trail[i] \in Lits
      /\ trail_lim \in Seq(Nat) /\ Len(trail_lim) = DecisionLevel
      /\ \A k \in 1 .. DecisionLevel : trail_lim[k] \in Nat
  BY CutFacts DEF AssignmentInv, AssignmentOK, DecisionLevel
<1>3. part \in Seq(Lits) /\ Len(part) = Cut(to) /\ \A i \in 1 .. Cut(to) : part[i] = trail[i]
  <2>1. \A i \in 1 .. Cut(to) : trail[i] \in Lits BY <1>2
  <2>2. /\ part \in Seq(Lits) /\ Len(part) = IF 1 <= Cut(to) THEN Cut(to) - 1 + 1 ELSE 0
        /\ \A i \in 1 .. Cut(to) - 1 + 1 : part[i] = trail[1 + i - 1]
    <3>1. 1 \in Int /\ Cut(to) \in Int BY <1>2
    <3> QED BY <2>1, <3>1, SubSeqProperties
  <2> QED BY <1>2, <2>2
<1>4. lims \in Seq(Nat) /\ Len(lims) = to /\ \A k \in 1 .. to : lims[k] = trail_lim[k]
  <2>1. \A k \in 1 .. to : trail_lim[k] \in Nat BY <1>2
  <2>2. /\ lims \in Seq(Nat) /\ Len(lims) = IF 1 <= to THEN to - 1 + 1 ELSE 0
        /\ \A k \in 1 .. to - 1 + 1 : lims[k] = trail_lim[1 + k - 1]
    <3>1. 1 \in Int /\ to \in Int BY <1>2
    <3> QED BY <2>1, <3>1, SubSeqProperties
  <2> QED BY <1>2, <2>2
<1>5. Len(queue) \in Nat OBVIOUS
<1> HIDE DEF part, lims
<1>6. /\ part \o queue \in Seq(Lits) /\ Len(part \o queue) = Cut(to) + Len(queue)
      /\ \A i \in 1 .. Cut(to) + Len(queue) :
            (part \o queue)[i] = IF i <= Cut(to) THEN part[i] ELSE queue[i - Cut(to)]
  <2>1. part \in Seq(Lits) /\ queue \in Seq(Lits) BY <1>3
  <2>2. /\ part \o queue \in Seq(Lits) /\ Len(part \o queue) = Len(part) + Len(queue)
        /\ \A i \in 1 .. Len(part) + Len(queue) :
              (part \o queue)[i] = IF i <= Len(part) THEN part[i] ELSE queue[i - Len(part)]
    BY <2>1, ConcatProperties, Zenon
  <2> QED BY <1>3, <2>2, Zenon
<1>7. /\ trail' \in Seq(Lits) /\ Len(trail') = Cut(to) + Len(queue)
      /\ DOMAIN trail' = 1 .. Len(trail')
  BY <1>1, <1>6
<1>8. \A i \in 1 .. Cut(to) : trail'[i] = trail[i]
  BY <1>1, <1>2, <1>3, <1>5, <1>6
<1>9. ASSUME NEW i \in 1 .. Len(queue) PROVE trail'[Cut(to) + i] = queue[i]
  <2> DEFINE j == Cut(to) + i
  <2>1. j \in 1 .. Cut(to) + Len(queue) /\ ~ j <= Cut(to) /\ j - Cut(to) = i
    BY <1>2, <1>5
  <2> HIDE DEF j
  <2>2. (part \o queue)[j] = queue[j - Cut(to)] BY <1>6, <2>1
  <2>3. trail'[j] = queue[i] BY <1>1, <2>1, <2>2
  <2> QED BY <2>3 DEF j
<1>10. trail_lim' \in Seq(Nat) /\ Len(trail_lim') = to
  BY <1>1, <1>2, <1>4
<1>11. DecisionLevel' = to /\ DOMAIN trail_lim' = 1 .. to BY <1>10 DEF DecisionLevel
<1>12. \A k \in 1 .. to : trail_lim'[k] = trail_lim[k] BY <1>1, <1>2, <1>4
<1> QED BY <1>5, <1>7, <1>8, <1>9, <1>10, <1>11, <1>12

\* A literal that may come on the trail after a cut: its variable is not kept,
\* and either it is on level 0 or the other literals of its reason are false.
MayFollow(l, to, why) ==
    /\ \A j \in 1 .. Cut(to) : VarOf(trail[j]) # VarOf(l)
    /\ IF why = NoReason THEN to = 0
       ELSE /\ l \in why
            /\ \A m \in why \ {l} : \E j \in 1 .. Cut(to) : trail[j] = -m

\* What is kept keeps its level and its reason; what is new gets them.
LEMMA BackToVardata ==
    ASSUME AssignmentInv, NEW to \in 0 .. DecisionLevel, NEW queue \in Seq(Lits),
           NEW why \in Clause, BackTo(to, queue, why),
           \A i \in 1 .. Len(queue) : MayFollow(queue[i], to, why)
    PROVE  /\ level' \in [Vars -> Nat] /\ reason' \in [Vars -> Clause]
           /\ \A i \in 1 .. Cut(to) : /\ level'[VarOf(trail[i])] = LevelOf(trail[i])
                                      /\ reason'[VarOf(trail[i])] = ReasonOf(trail[i])
           /\ \A i \in 1 .. Len(queue) : /\ level'[VarOf(queue[i])] = to
                                         /\ reason'[VarOf(queue[i])] = why
           /\ NothingElse'
<1> DEFINE keep == {VarOf(trail[i]) : i \in 1 .. Cut(to)}
           new  == {VarOf(queue[i]) : i \in DOMAIN queue}
<1>1. /\ level' = [v \in Vars |-> IF v \in new THEN Len(trail_lim')
                                    ELSE IF v \in keep THEN level[v] ELSE 0]
      /\ reason' = [v \in Vars |-> IF v \in new THEN why
                                     ELSE IF v \in keep THEN reason[v] ELSE NoReason]
  BY DEF BackTo, Cut
<1>2. /\ DecisionLevel' = to /\ Len(trail_lim') = to /\ Len(trail') = Cut(to) + Len(queue)
      /\ DOMAIN trail' = 1 .. Len(trail') /\ Len(queue) \in Nat
      /\ \A i \in 1 .. Cut(to) : trail'[i] = trail[i]
      /\ \A i \in 1 .. Len(queue) : trail'[Cut(to) + i] = queue[i]
  BY BackToFacts, Zenon DEF DecisionLevel
<1>3. /\ DecisionLevel \in Nat /\ Cut(to) \in 0 .. Len(trail)
      /\ Len(trail) \in Nat /\ DOMAIN queue = 1 .. Len(queue)
      /\ \A i \in 1 .. Len(trail) : trail[i] \in Lits
  BY CutFacts DEF AssignmentInv, AssignmentOK
<1>4. /\ \A i \in 1 .. Cut(to) : VarOf(trail[i]) \in Vars /\ VarOf(trail[i]) \in keep \ new
      /\ \A i \in 1 .. Len(queue) : VarOf(queue[i]) \in Vars /\ VarOf(queue[i]) \in new
  <2>1. ASSUME NEW i \in 1 .. Cut(to) PROVE VarOf(trail[i]) \in Vars /\ VarOf(trail[i]) \in keep
    <3>1. i \in 1 .. Len(trail) BY <1>3
    <3> QED BY <1>3, <3>1, LitFacts
  <2>2. ASSUME NEW i \in 1 .. Len(queue) PROVE VarOf(queue[i]) \in Vars /\ VarOf(queue[i]) \in new
    <3>1. queue[i] \in Lits OBVIOUS
    <3> QED BY <1>3, <3>1, LitFacts
  <2>3. \A i \in 1 .. Cut(to) : VarOf(trail[i]) \notin new BY <1>3 DEF MayFollow
  <2> QED BY <2>1, <2>2, <2>3
<1>5. level \in [Vars -> Nat] /\ reason \in [Vars -> Clause] /\ NoReason \in Clause
  BY DEF AssignmentInv, AssignmentOK, NoReason, Clause
<1>6. \A v \in Vars : v \in new \cup keep \/ (level'[v] = 0 /\ reason'[v] = NoReason)
  BY <1>1
<1> HIDE DEF keep, new
<1>7. level' \in [Vars -> Nat] /\ reason' \in [Vars -> Clause]
  BY <1>1, <1>2, <1>3, <1>5
<1>8. \A i \in 1 .. Cut(to) : /\ level'[VarOf(trail[i])] = LevelOf(trail[i])
                              /\ reason'[VarOf(trail[i])] = ReasonOf(trail[i])
  BY <1>1, <1>4 DEF LevelOf, ReasonOf
<1>9. \A i \in 1 .. Len(queue) : /\ level'[VarOf(queue[i])] = to
                                 /\ reason'[VarOf(queue[i])] = why
  BY <1>1, <1>2, <1>4
<1>10. NothingElse'
  <2> SUFFICES ASSUME NEW v \in Vars, \A i \in 1 .. Len(trail') : VarOf(trail'[i]) # v
               PROVE  level'[v] = 0 /\ reason'[v] = NoReason
    BY <1>2 DEF NothingElse
  <2>1. v \notin keep
    <3> SUFFICES ASSUME NEW i \in 1 .. Cut(to), v = VarOf(trail[i]) PROVE FALSE BY DEF keep
    <3>1. i \in 1 .. Len(trail') /\ trail'[i] = trail[i] BY <1>2, <1>3
    <3> QED BY <3>1
  <2>2. v \notin new
    <3> SUFFICES ASSUME NEW i \in 1 .. Len(queue), v = VarOf(queue[i]) PROVE FALSE
      BY <1>3 DEF new
    <3>1. Cut(to) + i \in 1 .. Len(trail') /\ trail'[Cut(to) + i] = queue[i] BY <1>2, <1>3
    <3> QED BY <3>1
  <2> QED BY <1>6, <2>1, <2>2
<1> QED BY <1>7, <1>8, <1>9, <1>10

\* Cutting the trail and putting a literal on it keeps the assignment in order.
LEMMA BackToInv ==
    ASSUME AssignmentInv, NEW to \in 0 .. DecisionLevel, NEW queue \in Seq(Lits),
           NEW why \in Clause, BackTo(to, queue, why), Len(queue) <= 1,
           \A i \in 1 .. Len(queue) : MayFollow(queue[i], to, why)
    PROVE  AssignmentInv'
<1>1. /\ trail' \in Seq(Lits) /\ trail_lim' \in Seq(Nat)
      /\ Len(trail_lim') = to /\ Len(trail') = Cut(to) + Len(queue) /\ DOMAIN trail_lim' = 1 .. to
      /\ DOMAIN trail' = 1 .. Len(trail') /\ Len(queue) \in Nat
      /\ \A i \in 1 .. Cut(to) : trail'[i] = trail[i]
      /\ \A k \in 1 .. to : trail_lim'[k] = trail_lim[k]
  BY BackToFacts, Zenon DEF DecisionLevel
<1>2. /\ DecisionLevel \in Nat /\ Cut(to) \in 0 .. Len(trail) /\ Len(trail) \in Nat
      /\ DOMAIN trail = 1 .. Len(trail) /\ DOMAIN trail_lim = 1 .. DecisionLevel
      /\ \A i \in 1 .. Len(trail) :
            /\ trail[i] \in Lits /\ LevelOf(trail[i]) \in Nat
            /\ i <= Cut(to) <=> LevelOf(trail[i]) <= to
      /\ \A k \in 1 .. to : trail_lim[k] \in Nat
  <2>1. \A k \in DOMAIN trail_lim : trail_lim[k] \in Nat BY DEF AssignmentInv, AssignmentOK
  <2> QED BY <2>1, CutFacts
<1>3. /\ level' \in [Vars -> Nat] /\ reason' \in [Vars -> Clause]
      /\ \A i \in 1 .. Cut(to) : /\ level'[VarOf(trail[i])] = LevelOf(trail[i])
                           /\ reason'[VarOf(trail[i])] = ReasonOf(trail[i])
      /\ \A i \in 1 .. Len(queue) : /\ level'[VarOf(queue[i])] = to
                                    /\ reason'[VarOf(queue[i])] = why
      /\ NothingElse'
  BY BackToVardata, Zenon
<1>4. ASSUME NEW i \in 1 .. Len(trail'), ~ i <= Cut(to)
      PROVE  /\ i = Cut(to) + 1 /\ Len(queue) = 1 /\ 1 \in 1 .. Len(queue)
             /\ trail'[i] = queue[1] /\ trail'[i] \in Lits
             /\ level'[VarOf(trail'[i])] = to /\ reason'[VarOf(trail'[i])] = why
             /\ MayFollow(trail'[i], to, why)
  <2>1. i = Cut(to) + 1 /\ Len(queue) = 1
    <3>1. i \in Nat /\ i <= Cut(to) + Len(queue) /\ Cut(to) \in Nat /\ Len(queue) \in Nat
      BY <1>1, <1>2
    <3> QED BY <1>4, <3>1
  <2>2. trail'[Cut(to) + 1] = queue[1]
    <3>1. \A j \in 1 .. Len(queue) : trail'[Cut(to) + j] = queue[j] BY BackToFacts, Zenon
    <3> QED BY <2>1, <3>1
  <2>3. 1 \in 1 .. Len(queue) /\ queue[1] \in Lits
    <3>1. 1 \in 1 .. Len(queue) BY <2>1
    <3> QED BY <3>1
  <2> QED BY <1>3, <2>1, <2>2, <2>3
<1>5. ASSUME NEW i \in 1 .. Len(trail'), i <= Cut(to)
      PROVE  /\ i \in 1 .. Cut(to) /\ i \in 1 .. Len(trail) /\ trail'[i] = trail[i] /\ trail[i] \in Lits
             /\ LevelOf(trail[i]) \in Nat /\ LevelOf(trail[i]) <= to
             /\ level'[VarOf(trail'[i])] = LevelOf(trail[i])
             /\ reason'[VarOf(trail'[i])] = ReasonOf(trail[i])
  BY <1>1, <1>2, <1>3, <1>5
<1>6. OnceOnTrail'
  <2> SUFFICES ASSUME NEW i \in 1 .. Len(trail'), NEW j \in 1 .. Len(trail'),
                      VarOf(trail'[i]) = VarOf(trail'[j])
               PROVE  i = j
    BY <1>1 DEF OnceOnTrail
  <2>1. CASE i <= Cut(to) /\ j <= Cut(to)
    BY <1>2, <1>5, <2>1 DEF AssignmentInv, OnceOnTrail
  <2>2. CASE i <= Cut(to) /\ ~ j <= Cut(to) BY <1>4, <1>5, <2>2 DEF MayFollow
  <2>3. CASE ~ i <= Cut(to) /\ j <= Cut(to) BY <1>4, <1>5, <2>3 DEF MayFollow
  <2>4. CASE ~ i <= Cut(to) /\ ~ j <= Cut(to) BY <1>4, <2>4
  <2> QED BY <2>1, <2>2, <2>3, <2>4
<1>7. \A k \in 1 .. to : k \in 1 .. DecisionLevel /\ trail_lim[k] <= Cut(to)
  <2> TAKE k \in 1 .. to
  <2>1. k \in 1 .. DecisionLevel BY <1>2
  <2>2. CASE to < DecisionLevel
    <3>1. to + 1 \in 1 .. DecisionLevel /\ k <= to + 1 BY <1>2, <2>2
    <3>2. trail_lim[k] <= trail_lim[to + 1]
      BY <1>2, <2>1, <3>1 DEF AssignmentInv, LimitsInOrder
    <3> QED BY <2>1, <2>2, <3>2 DEF Cut
  <2>3. CASE ~ to < DecisionLevel
    BY <1>2, <2>1, <2>3 DEF Cut, AssignmentInv, LimitsInOrder
  <2> QED BY <2>2, <2>3
<1>8. LimitsInOrder'
  <2>1. \A k \in 1 .. to : trail_lim'[k] <= Len(trail')
    BY <1>1, <1>2, <1>7
  <2>2. \A j, k \in 1 .. to : j <= k => trail_lim'[j] <= trail_lim'[k]
    BY <1>1, <1>2, <1>7 DEF AssignmentInv, LimitsInOrder
  <2> QED BY <1>1, <2>1, <2>2 DEF LimitsInOrder
<1>9. LevelsMatch'
  <2> SUFFICES ASSUME NEW i \in 1 .. Len(trail')
               PROVE  LET k == level'[VarOf(trail'[i])]
                      IN  /\ k <= to
                          /\ k > 0 => trail_lim'[k] < i
                          /\ k < to => i <= trail_lim'[k + 1]
                          /\ k > 0 /\ reason'[VarOf(trail'[i])] = NoReason
                             => i = trail_lim'[k] + 1
    BY <1>1 DEF LevelsMatch, LevelOf, ReasonOf, DecisionLevel
  <2>1. CASE i <= Cut(to)
    <3> DEFINE k == LevelOf(trail[i])
    <3>1. /\ k > 0 => trail_lim[k] < i
          /\ k < DecisionLevel => i <= trail_lim[k + 1]
          /\ k > 0 /\ ReasonOf(trail[i]) = NoReason => i = trail_lim[k] + 1
      BY <1>2, <1>5, <2>1 DEF AssignmentInv, LevelsMatch
    <3>2. k \in Nat /\ k <= to BY <1>5, <2>1
    <3>3. level'[VarOf(trail'[i])] = k /\ reason'[VarOf(trail'[i])] = ReasonOf(trail[i])
      BY <1>5, <2>1
    <3> HIDE DEF k
    <3>4. k > 0 => trail_lim'[k] = trail_lim[k] BY <1>1, <3>2
    <3>5. k < to => trail_lim'[k + 1] = trail_lim[k + 1] /\ k < DecisionLevel
      BY <1>1, <1>2, <3>2
    <3> QED BY <3>1, <3>2, <3>3, <3>4, <3>5
  <2>2. CASE ~ i <= Cut(to)
    <3>1. /\ i = Cut(to) + 1 /\ level'[VarOf(trail'[i])] = to
          /\ reason'[VarOf(trail'[i])] = NoReason => to = 0
      BY <1>4, <2>2 DEF MayFollow
    <3>2. to > 0 => trail_lim'[to] <= Cut(to) /\ trail_lim'[to] \in Nat BY <1>1, <1>2, <1>7
    <3> QED BY <1>2, <3>1, <3>2
  <2> QED BY <2>1, <2>2
<1>10. ReasonsBefore'
  <2> SUFFICES ASSUME NEW i \in 1 .. Len(trail'), reason'[VarOf(trail'[i])] # NoReason,
                      NEW R \in Clause, R = reason'[VarOf(trail'[i])]
               PROVE  /\ trail'[i] \in R
                      /\ \A l \in R \ {trail'[i]} : \E j \in 1 .. i - 1 : trail'[j] = -l
    <3>1. \A i \in 1 .. Len(trail') : reason'[VarOf(trail'[i])] \in Clause
      BY <1>1, <1>3, LitFacts
    <3> QED BY <1>1, <3>1 DEF ReasonsBefore, ReasonOf
  <2>1. CASE i <= Cut(to)
    <3>1. R = ReasonOf(trail[i]) /\ R # NoReason /\ trail'[i] = trail[i] /\ i \in DOMAIN trail
      BY <1>2, <1>5, <2>1
    <3>2. /\ trail[i] \in R
          /\ \A l \in R \ {trail[i]} : \E j \in 1 .. i - 1 : trail[j] = -l
      BY <3>1 DEF AssignmentInv, ReasonsBefore
    <3>3. \A j \in 1 .. i - 1 : trail'[j] = trail[j] BY <1>1, <1>2, <2>1
    <3> QED BY <3>1, <3>2, <3>3
  <2>2. CASE ~ i <= Cut(to)
    <3>1. i = Cut(to) + 1 /\ R = why /\ MayFollow(trail'[i], to, R) BY <1>4, <2>2
    <3>2. /\ trail'[i] \in R
          /\ \A m \in R \ {trail'[i]} : \E j \in 1 .. Cut(to) : trail[j] = -m
      BY <3>1 DEF MayFollow
    <3>3. 1 .. i - 1 = 1 .. Cut(to) BY <1>2, <3>1
    <3> QED BY <1>1, <3>2, <3>3
  <2> QED BY <2>1, <2>2
<1> QED BY <1>1, <1>3, <1>6, <1>8, <1>9, <1>10 DEF AssignmentInv, AssignmentOK

\* One literal that comes on the trail after a cut.
LEMMA PutInv ==
    ASSUME AssignmentInv, NEW to \in 0 .. DecisionLevel, NEW l \in Lits, NEW why \in Clause,
           BackTo(to, <<l>>, why), MayFollow(l, to, why)
    PROVE  /\ AssignmentInv'
           /\ DecisionLevel' = to
           /\ Cut(to) \in Nat /\ DOMAIN trail' = 1 .. Cut(to) + 1
           /\ \A i \in 1 .. Cut(to) : /\ i \in DOMAIN trail
                                      /\ trail'[i] = trail[i]
                                      /\ level'[VarOf(trail[i])] = LevelOf(trail[i])
                                      /\ reason'[VarOf(trail[i])] = ReasonOf(trail[i])
           /\ trail'[Cut(to) + 1] = l
           /\ level'[VarOf(l)] = to
           /\ reason'[VarOf(l)] = why
<1> DEFINE queue == <<l>>
<1>1. /\ Len(trail) \in Nat /\ DOMAIN trail = 1 .. Len(trail) /\ Cut(to) \in 0 .. Len(trail)
  BY CutFacts
<1>2. /\ queue \in Seq(Lits) /\ Len(queue) = 1 /\ queue[1] = l
      /\ \A i \in 1 .. Len(queue) : queue[i] = l
  OBVIOUS
<1>3. /\ BackTo(to, queue, why) /\ Len(queue) <= 1
      /\ \A i \in 1 .. Len(queue) : MayFollow(queue[i], to, why)
  BY <1>2
<1> HIDE DEF queue
<1>4. AssignmentInv' BY <1>2, <1>3, BackToInv, Zenon
<1>5. /\ \A i \in 1 .. Cut(to) : /\ level'[VarOf(trail[i])] = LevelOf(trail[i])
                                 /\ reason'[VarOf(trail[i])] = ReasonOf(trail[i])
      /\ \A i \in 1 .. Len(queue) : /\ level'[VarOf(queue[i])] = to
                                    /\ reason'[VarOf(queue[i])] = why
  BY <1>2, <1>3, BackToVardata
<1>6. /\ Len(trail') = Cut(to) + Len(queue) /\ DOMAIN trail' = 1 .. Len(trail')
      /\ \A i \in 1 .. Cut(to) : trail'[i] = trail[i]
      /\ \A i \in 1 .. Len(queue) : trail'[Cut(to) + i] = queue[i]
      /\ DecisionLevel' = to
  BY <1>2, <1>3, BackToFacts, Zenon
<1>7. 1 \in 1 .. Len(queue) BY <1>2
<1>8. trail'[Cut(to) + 1] = l BY <1>2, <1>6, <1>7
<1>9. level'[VarOf(l)] = to /\ reason'[VarOf(l)] = why BY <1>2, <1>5, <1>7
<1>10. DOMAIN trail' = 1 .. Cut(to) + 1 BY <1>2, <1>6
<1> QED BY <1>1, <1>4, <1>5, <1>6, <1>8, <1>9, <1>10

\* propagate() puts a literal with its reason on the current level, addClause_
\* one without a reason on level 0.
LEMMA EnqueueInv ==
    ASSUME AssignmentInv, NEW l \in Lits, NEW why \in Clause, Enqueue(l, why),
           ~ True(l), ~ False(l),
           IF why = NoReason THEN DecisionLevel = 0
           ELSE l \in why /\ \A m \in why \ {l} : False(m)
    PROVE  /\ AssignmentInv'
           /\ DecisionLevel' = DecisionLevel
           /\ Len(trail) \in Nat /\ DOMAIN trail = 1 .. Len(trail)
           /\ DOMAIN trail' = 1 .. Len(trail) + 1
           /\ \A i \in DOMAIN trail : /\ trail'[i] = trail[i]
                                      /\ level'[VarOf(trail[i])] = LevelOf(trail[i])
                                      /\ reason'[VarOf(trail[i])] = ReasonOf(trail[i])
           /\ trail'[Len(trail) + 1] = l
           /\ level'[VarOf(l)] = DecisionLevel
           /\ reason'[VarOf(l)] = why
<1> DEFINE to == DecisionLevel
<1>1. /\ DecisionLevel \in Nat /\ Len(trail) \in Nat
      /\ DOMAIN trail = 1 .. Len(trail) /\ \A i \in DOMAIN trail : trail[i] \in Lits
  <2>1. 0 \in 0 .. DecisionLevel BY DEF AssignmentInv, AssignmentOK, DecisionLevel
  <2> QED BY <2>1, CutFacts
<1>2. to \in 0 .. DecisionLevel /\ Cut(to) = Len(trail) BY <1>1 DEF Cut
<1>3. MayFollow(l, to, why)
  <2>1. \A j \in 1 .. Len(trail) : VarOf(trail[j]) # VarOf(l)
    BY <1>1, LitFacts DEF True, False
  <2>2. \A m \in why : False(m) => \E j \in 1 .. Len(trail) : trail[j] = -m
    BY <1>1 DEF True, False
  <2> QED BY <1>2, <2>1, <2>2 DEF MayFollow
<1>4. BackTo(to, <<l>>, why) BY DEF Enqueue
<1>5. to = DecisionLevel OBVIOUS
<1> HIDE DEF to
<1>6. /\ AssignmentInv'
      /\ DecisionLevel' = to
      /\ DOMAIN trail' = 1 .. Cut(to) + 1
      /\ \A i \in 1 .. Cut(to) : /\ i \in DOMAIN trail
                                 /\ trail'[i] = trail[i]
                                 /\ level'[VarOf(trail[i])] = LevelOf(trail[i])
                                 /\ reason'[VarOf(trail[i])] = ReasonOf(trail[i])
      /\ trail'[Cut(to) + 1] = l
      /\ level'[VarOf(l)] = to
      /\ reason'[VarOf(l)] = why
  BY <1>2, <1>3, <1>4, PutInv, Zenon
<1> QED BY <1>1, <1>2, <1>5, <1>6

\* Going back puts nothing new on the trail.
LEMMA GoBackInv ==
    ASSUME AssignmentInv, NEW to \in 0 .. DecisionLevel, BackTo(to, << >>, NoReason)
    PROVE  /\ AssignmentInv'
           /\ DecisionLevel' = to
           /\ Cut(to) \in 0 .. Len(trail) /\ Len(trail) \in Nat
           /\ DOMAIN trail = 1 .. Len(trail) /\ DOMAIN trail' = 1 .. Cut(to)
           /\ \A i \in DOMAIN trail' : /\ i \in DOMAIN trail
                                       /\ trail'[i] = trail[i]
                                       /\ LevelOf(trail[i]) <= to
                                       /\ level'[VarOf(trail[i])] = LevelOf(trail[i])
                                       /\ reason'[VarOf(trail[i])] = ReasonOf(trail[i])
<1> DEFINE queue == << >>
<1>1. /\ queue \in Seq(Lits) /\ Len(queue) = 0
      /\ Len(queue) <= 1 /\ \A i \in 1 .. Len(queue) : MayFollow(queue[i], to, NoReason)
      /\ NoReason \in Clause /\ BackTo(to, queue, NoReason)
  BY DEF Clause, NoReason
<1>2. /\ Len(trail) \in Nat /\ DOMAIN trail = 1 .. Len(trail) /\ Cut(to) \in 0 .. Len(trail)
      /\ \A i \in 1 .. Cut(to) : LevelOf(trail[i]) <= to
  BY CutFacts
<1> HIDE DEF queue
<1>3. AssignmentInv' BY <1>1, BackToInv, Zenon
<1>4. \A i \in 1 .. Cut(to) : /\ level'[VarOf(trail[i])] = LevelOf(trail[i])
                              /\ reason'[VarOf(trail[i])] = ReasonOf(trail[i])
  BY <1>1, BackToVardata, Zenon
<1>5. /\ Len(trail') = Cut(to) + Len(queue) /\ DOMAIN trail' = 1 .. Len(trail')
      /\ \A i \in 1 .. Cut(to) : trail'[i] = trail[i]
      /\ DecisionLevel' = to
  BY <1>1, BackToFacts, Zenon
<1>6. DOMAIN trail' = 1 .. Cut(to) BY <1>1, <1>2, <1>5
<1> QED BY <1>2, <1>3, <1>4, <1>5, <1>6

\* A decision opens a level.
LEMMA DecisionInv ==
    ASSUME AssignmentInv, NEW l \in Lits, EnqueueDecision(l), ~ True(l), ~ False(l)
    PROVE  /\ AssignmentInv'
           /\ DecisionLevel \in Nat /\ DecisionLevel' = DecisionLevel + 1
           /\ Len(trail) \in Nat /\ DOMAIN trail = 1 .. Len(trail)
           /\ DOMAIN trail' = 1 .. Len(trail) + 1
           /\ \A i \in DOMAIN trail : /\ trail'[i] = trail[i]
                                      /\ level'[VarOf(trail[i])] = LevelOf(trail[i])
                                      /\ reason'[VarOf(trail[i])] = ReasonOf(trail[i])
           /\ trail'[Len(trail) + 1] = l
           /\ level'[VarOf(l)] = DecisionLevel + 1
           /\ reason'[VarOf(l)] = NoReason
<1>1. /\ DecisionLevel \in Nat /\ Len(trail) \in Nat
      /\ DOMAIN trail = 1 .. Len(trail) /\ DOMAIN trail_lim = 1 .. DecisionLevel
      /\ \A i \in DOMAIN trail : trail[i] \in Lits /\ LevelOf(trail[i]) \in Nat
  <2>1. 0 \in 0 .. DecisionLevel BY DEF AssignmentInv, AssignmentOK, DecisionLevel
  <2> QED BY <2>1, CutFacts
<1>2. /\ \A i \in 1 .. Len(trail) : /\ VarOf(trail[i]) # VarOf(l)
                                    /\ VarOf(trail[i]) \in Vars
      /\ VarOf(l) \in Vars
  BY <1>1, LitFacts DEF True, False
<1>3. /\ trail' = Append(trail, l) /\ trail_lim' = Append(trail_lim, Len(trail))
      /\ level' = [level EXCEPT ![VarOf(l)] = DecisionLevel + 1]
      /\ reason' = [reason EXCEPT ![VarOf(l)] = NoReason]
  BY DEF EnqueueDecision
<1>4. /\ trail \in Seq(Lits) /\ trail_lim \in Seq(Nat)
      /\ level \in [Vars -> Nat] /\ reason \in [Vars -> Clause] /\ NoReason \in Clause
  BY DEF AssignmentInv, AssignmentOK, NoReason, Clause
<1>5. /\ trail' \in Seq(Lits) /\ Len(trail') = Len(trail) + 1
      /\ DOMAIN trail' = 1 .. Len(trail) + 1
      /\ \A i \in 1 .. Len(trail) : trail'[i] = trail[i]
      /\ trail'[Len(trail) + 1] = l
  BY <1>1, <1>3, <1>4
<1>6. /\ trail_lim' \in Seq(Nat) /\ Len(trail_lim') = DecisionLevel + 1
      /\ DOMAIN trail_lim' = 1 .. DecisionLevel + 1
      /\ \A k \in 1 .. DecisionLevel : trail_lim'[k] = trail_lim[k]
      /\ trail_lim'[DecisionLevel + 1] = Len(trail)
  BY <1>1, <1>3, <1>4 DEF DecisionLevel
<1>7. /\ level' \in [Vars -> Nat] /\ reason' \in [Vars -> Clause]
      /\ \A i \in 1 .. Len(trail) : /\ level'[VarOf(trail[i])] = LevelOf(trail[i])
                                    /\ reason'[VarOf(trail[i])] = ReasonOf(trail[i])
      /\ level'[VarOf(l)] = DecisionLevel + 1 /\ reason'[VarOf(l)] = NoReason
      /\ \A v \in Vars : v # VarOf(l) => level'[v] = level[v] /\ reason'[v] = reason[v]
  BY <1>1, <1>2, <1>3, <1>4 DEF LevelOf, ReasonOf
<1>8. OnceOnTrail'
  BY <1>1, <1>2, <1>5 DEF AssignmentInv, OnceOnTrail
<1>9. \A k \in 1 .. DecisionLevel : trail_lim[k] \in Nat /\ trail_lim[k] <= Len(trail)
  BY <1>1, <1>4 DEF AssignmentInv, LimitsInOrder
<1>10. LimitsInOrder'
  <2>1. \A k \in 1 .. DecisionLevel + 1 : k = DecisionLevel + 1 \/ k \in 1 .. DecisionLevel
    BY <1>1
  <2>2. \A k \in 1 .. DecisionLevel + 1 : trail_lim'[k] <= Len(trail)
    BY <1>1, <1>6, <1>9, <2>1
  <2>3. \A j, k \in 1 .. DecisionLevel : j <= k => trail_lim[j] <= trail_lim[k]
    BY <1>1 DEF AssignmentInv, LimitsInOrder
  <2>4. ASSUME NEW j \in 1 .. DecisionLevel + 1, NEW k \in 1 .. DecisionLevel + 1, j <= k
        PROVE  trail_lim'[j] <= trail_lim'[k]
    <3>1. CASE k = DecisionLevel + 1 BY <1>6, <2>2, <3>1
    <3>2. CASE k \in 1 .. DecisionLevel
      <4>1. j \in 1 .. DecisionLevel BY <1>1, <2>4, <3>2
      <4> QED BY <1>6, <2>3, <2>4, <3>2, <4>1
    <3> QED BY <2>1, <3>1, <3>2
  <2>5. \A k \in 1 .. DecisionLevel + 1 : trail_lim'[k] <= Len(trail')
    BY <1>1, <1>5, <1>6, <1>9, <2>1, <2>2
  <2> QED BY <1>6, <2>4, <2>5 DEF LimitsInOrder
<1>11. LevelsMatch'
  <2> SUFFICES ASSUME NEW i \in 1 .. Len(trail) + 1
               PROVE  LET k == level'[VarOf(trail'[i])]
                      IN  /\ k <= DecisionLevel + 1
                          /\ k > 0 => trail_lim'[k] < i
                          /\ k < DecisionLevel + 1 => i <= trail_lim'[k + 1]
                          /\ k > 0 /\ reason'[VarOf(trail'[i])] = NoReason
                             => i = trail_lim'[k] + 1
    BY <1>5, <1>6 DEF LevelsMatch, LevelOf, ReasonOf, DecisionLevel
  <2>1. CASE i = Len(trail) + 1
    BY <1>1, <1>5, <1>6, <1>7, <2>1
  <2>2. CASE i \in 1 .. Len(trail)
    <3> DEFINE k == LevelOf(trail[i])
    <3>1. /\ k \in Nat /\ k <= DecisionLevel
          /\ k > 0 => trail_lim[k] < i
          /\ k < DecisionLevel => i <= trail_lim[k + 1]
          /\ k > 0 /\ ReasonOf(trail[i]) = NoReason => i = trail_lim[k] + 1
      BY <1>1, <2>2 DEF AssignmentInv, LevelsMatch
    <3>2. level'[VarOf(trail'[i])] = k /\ reason'[VarOf(trail'[i])] = ReasonOf(trail[i])
      BY <1>5, <1>7, <2>2
    <3> HIDE DEF k
    <3>3. k > 0 => trail_lim'[k] = trail_lim[k] BY <1>1, <1>6, <3>1
    <3>4. /\ k < DecisionLevel => trail_lim'[k + 1] = trail_lim[k + 1]
          /\ k = DecisionLevel => trail_lim'[k + 1] = Len(trail)
      BY <1>1, <1>6, <3>1
    <3> QED BY <1>1, <2>2, <3>1, <3>2, <3>3, <3>4
  <2> QED BY <1>1, <2>1, <2>2
<1>12. NothingElse'
  <2> SUFFICES ASSUME NEW v \in Vars, \A i \in DOMAIN trail' : VarOf(trail'[i]) # v
               PROVE  level'[v] = 0 /\ reason'[v] = NoReason
    BY DEF NothingElse
  <2>1. DOMAIN trail \subseteq DOMAIN trail' /\ \A i \in DOMAIN trail : trail'[i] = trail[i]
    BY <1>1, <1>5
  <2>2. \A i \in DOMAIN trail : VarOf(trail[i]) # v BY <2>1
  <2>3. v # VarOf(l) BY <1>1, <1>5
  <2> QED BY <1>1, <1>7, <2>2, <2>3 DEF AssignmentInv, NothingElse
<1>13. ReasonsBefore'
  <2> SUFFICES ASSUME NEW i \in 1 .. Len(trail) + 1, reason'[VarOf(trail'[i])] # NoReason
               PROVE  LET R == reason'[VarOf(trail'[i])]
                      IN  /\ trail'[i] \in R
                          /\ \A m \in R \ {trail'[i]} : \E j \in 1 .. i - 1 : trail'[j] = -m
    BY <1>5 DEF ReasonsBefore, ReasonOf
  <2>1. i \in 1 .. Len(trail) BY <1>1, <1>5, <1>7
  <2>2. trail'[i] = trail[i] /\ reason'[VarOf(trail'[i])] = ReasonOf(trail[i])
    BY <1>5, <1>7, <2>1
  <2>3. LET R == ReasonOf(trail[i])
        IN  /\ trail[i] \in R
            /\ \A m \in R \ {trail[i]} : \E j \in 1 .. i - 1 : trail[j] = -m
    BY <1>1, <2>1, <2>2 DEF AssignmentInv, ReasonsBefore
  <2>4. \A j \in 1 .. i - 1 : trail'[j] = trail[j] BY <1>1, <1>5, <2>1
  <2> QED BY <2>2, <2>3, <2>4
<1> QED BY <1>1, <1>5, <1>6, <1>7, <1>8, <1>10, <1>11, <1>12, <1>13
        DEF AssignmentInv, AssignmentOK, DecisionLevel

-----------------------------------------------------------------------------
(* The inductive invariant *)

\* Where the solver is on level 0, and where it is not.
Home == /\ pc \in {"idle", "adding", "called"} => DecisionLevel = 0 /\ ~ refining
        /\ pc = "analyze" => DecisionLevel > 0

\* No clause was falsified before this level, and none is once propagation
\* has ended.
NothingMissed ==
    \A C \in Database :
        Falsified(C) => /\ pc \notin {"quiet", "decide"}
                        /\ DecisionLevel = 0 \/ OnThisLevel(C) # {}

\* Clauses have two literals at least, and reasons are among the clauses, but
\* for binary ones on level 0.
NoUnits == \A C \in Database : Cardinality(C) > 1

ReasonsKept ==
    \A i \in DOMAIN trail :
        LET R == ReasonOf(trail[i])
        IN  R # NoReason => \/ R \in Database
                            \/ Cardinality(R) = 2 /\ LevelOf(trail[i]) = 0

\* The literals under analysis are false above level 0, one of them on this
\* level; there is a bi-asserting clause left for literals seen twice.
WorkInv ==
    /\ pc \in {"analyze", "final"} => \A l \in work : False(l) /\ LevelOf(l) > 0
    /\ pc = "analyze" => /\ OnThisLevel(work) # {}
                         /\ merges < 2 => biasserting < MaxBiAsserting

\* While a conflict is refined there is one, but while the next is computed.
RefiningInv == refining /\ pc # "final" => conflict # << >>

\* The inductive invariant.
IndInv == /\ TypeOK /\ AssignmentInv /\ Home /\ NothingMissed /\ NoUnits /\ ReasonsKept
          /\ WorkInv /\ RefiningInv /\ Implied

-----------------------------------------------------------------------------
(* Clauses and finite sets *)

\* There are finitely many literals, so clauses are finite.
LEMMA LitsFinite == IsFiniteSet(Lits) /\ \A C \in Clause : IsFiniteSet(C)
<1> DEFINE neg == {-v : v \in Vars}
           f   == [v \in Vars |-> -v]
<1>1. IsFiniteSet(Vars) BY VarsAssumption
<1>2. f \in Surjection(Vars, neg) BY DEF Surjection
<1>3. IsFiniteSet(neg) BY <1>1, <1>2, FS_Surjection
<1>4. IsFiniteSet(Lits) BY <1>1, <1>3, FS_Union DEF Lits
<1> QED BY <1>4, FS_Subset DEF Clause

\* A set of two elements or more has another one besides each of them.
LEMMA AnotherOne ==
    ASSUME NEW S, IsFiniteSet(S), Cardinality(S) > 1, NEW x
    PROVE  \E y \in S : y # x
<1>1. IsFiniteSet(S \ {x}) /\ Cardinality(S) \in Nat
      /\ Cardinality(S \ {x}) = IF x \in S THEN Cardinality(S) - 1 ELSE Cardinality(S)
  BY FS_RemoveElement, FS_CardinalityType
<1>2. S \ {x} # {} BY <1>1, FS_EmptySet
<1> QED BY <1>2

\* Adding an element to a nonempty finite set makes it larger than one.
LEMMA TwoOrMore ==
    ASSUME NEW S, IsFiniteSet(S), S # {}, NEW x, x \notin S
    PROVE  Cardinality({x} \cup S) > 1
<1>1. Cardinality(S) \in Nat /\ Cardinality(S) # 0 BY FS_CardinalityType, FS_EmptySet
<1>2. Cardinality(S \cup {x}) = Cardinality(S) + 1 BY FS_AddElement
<1>3. S \cup {x} = {x} \cup S OBVIOUS
<1> QED BY <1>1, <1>2, <1>3

\* In a total assignment a literal holds or its complement does.
LEMMA HoldsNegated ==
    ASSUME NEW A \in SUBSET Vars, NEW l \in Lits
    PROVE  Holds(A, -l) <=> ~ Holds(A, l)
<1>1. l \in Int /\ l # 0 BY LitFacts
<1> QED BY <1>1 DEF Holds

-----------------------------------------------------------------------------
(* What follows from the reasons *)

\* Facts about the trail that are used everywhere.
LEMMA TrailFacts ==
    ASSUME AssignmentInv
    PROVE  /\ DecisionLevel \in Nat /\ Len(trail) \in Nat
           /\ DOMAIN trail = 1 .. Len(trail) /\ DOMAIN trail_lim = 1 .. DecisionLevel
           /\ \A k \in DOMAIN trail_lim : trail_lim[k] \in Nat
           /\ trail \in Seq(Lits) /\ trail_lim \in Seq(Nat)
           /\ level \in [Vars -> Nat] /\ reason \in [Vars -> Clause]
           /\ \A i \in DOMAIN trail :
                 /\ trail[i] \in Lits /\ LevelOf(trail[i]) \in 0 .. DecisionLevel
                 /\ ReasonOf(trail[i]) \in Clause
           /\ \A l \in Lits : LevelOf(l) \in Nat /\ ReasonOf(l) \in Clause
<1>1. 0 \in 0 .. DecisionLevel BY DEF AssignmentInv, AssignmentOK, DecisionLevel
<1>2. /\ DecisionLevel \in Nat /\ Len(trail) \in Nat
      /\ DOMAIN trail = 1 .. Len(trail) /\ DOMAIN trail_lim = 1 .. DecisionLevel
      /\ \A i \in DOMAIN trail : trail[i] \in Lits /\ LevelOf(trail[i]) \in Nat
  BY <1>1, CutFacts
<1>3. /\ trail \in Seq(Lits) /\ trail_lim \in Seq(Nat)
      /\ level \in [Vars -> Nat] /\ reason \in [Vars -> Clause]
      /\ \A k \in DOMAIN trail_lim : trail_lim[k] \in Nat
  BY DEF AssignmentInv, AssignmentOK
<1>4. \A l \in Lits : LevelOf(l) \in Nat /\ ReasonOf(l) \in Clause
  BY <1>3, LitFacts DEF LevelOf, ReasonOf
<1>5. \A i \in DOMAIN trail : LevelOf(trail[i]) <= DecisionLevel
  BY DEF AssignmentInv, LevelsMatch
<1> QED BY <1>2, <1>3, <1>4, <1>5

\* A false literal stands on the trail with its complement, at one place.
LEMMA FalseFacts ==
    ASSUME AssignmentInv, NEW l \in Lits, False(l)
    PROVE  /\ Index(l) \in 1 .. Len(trail) /\ trail[Index(l)] = -l
           /\ \A i \in DOMAIN trail : trail[i] = -l => i = Index(l)
           /\ LevelOf(l) = LevelOf(-l) /\ ReasonOf(l) = ReasonOf(-l)
           /\ LevelOf(l) \in 0 .. DecisionLevel
           /\ ~ True(l)
<1>1. DOMAIN trail = 1 .. Len(trail) BY TrailFacts
<1>2. Index(l) \in DOMAIN trail /\ trail[Index(l)] = -l BY DEF False, True, Index
<1>3. \A i \in DOMAIN trail : trail[i] = -l => i = Index(l)
  BY <1>2 DEF AssignmentInv, OnceOnTrail
<1>4. VarOf(-l) = VarOf(l) /\ l # -l BY LitFacts
<1>5. LevelOf(l) = LevelOf(-l) /\ ReasonOf(l) = ReasonOf(-l)
  BY <1>4 DEF LevelOf, ReasonOf
<1>6. LevelOf(-l) \in 0 .. DecisionLevel BY <1>2, TrailFacts
<1>7. ~ True(l)
  BY <1>2, <1>4 DEF True, AssignmentInv, OnceOnTrail
<1> QED BY <1>1, <1>2, <1>3, <1>5, <1>6, <1>7

\* What is false on level 0 is false in every model.
LEMMA Level0False ==
    ASSUME AssignmentInv, Implied, NEW A \in SUBSET Vars, IsModel(A, given),
           NEW l \in Lits, False(l), LevelOf(l) = 0
    PROVE  ~ Holds(A, l)
<1>1. Index(l) \in DOMAIN trail /\ trail[Index(l)] = -l /\ LevelOf(-l) = 0
  BY FalseFacts, TrailFacts
<1>2. Holds(A, -l) BY <1>1 DEF Implied
<1> QED BY <1>2, HoldsNegated

\* If a literal that was falsified above level 0 holds in a model, so does
\* one that its reason has above level 0, and that was falsified earlier.
LEMMA ReasonHolds ==
    ASSUME IndInv, NEW A \in SUBSET Vars, IsModel(A, given),
           NEW l \in Lits, False(l), LevelOf(l) > 0, ReasonOf(l) # NoReason, Holds(A, l)
    PROVE  \E m \in AboveLevel0(ReasonOf(l) \ {-l}) :
              m \in Lits /\ False(m) /\ Holds(A, m) /\ Index(m) < Index(l)
<1> DEFINE R == ReasonOf(l)
<1>1. AssignmentInv /\ Implied BY DEF IndInv
<1>2. /\ Index(l) \in 1 .. Len(trail) /\ DOMAIN trail = 1 .. Len(trail)
      /\ trail[Index(l)] = -l /\ R = ReasonOf(-l) /\ LevelOf(-l) > 0
  BY <1>1, FalseFacts, TrailFacts
<1>3. R \in Database BY <1>2 DEF IndInv, ReasonsKept
<1>4. R \in Clause BY <1>1, TrailFacts
<1> HIDE DEF R
<1>5. PICK m \in R : Holds(A, m)
  BY <1>3 DEF IndInv, Implied, IsModel, Sat
<1>6. m \in Lits BY <1>4 DEF Clause
<1>7. m # -l BY HoldsNegated, <1>5
<1>8. PICK j \in 1 .. Index(l) - 1 : trail[j] = -m
  BY <1>1, <1>2, <1>7 DEF AssignmentInv, ReasonsBefore, R
<1>9. j \in DOMAIN trail BY <1>2
<1>10. False(m) BY <1>8, <1>9 DEF False, True
<1>11. Index(m) < Index(l)
  <2>1. j = Index(m) BY <1>1, <1>6, <1>8, <1>9, <1>10, FalseFacts
  <2> QED BY <1>2, <1>8, <2>1
<1>12. LevelOf(m) > 0
  <2>1. LevelOf(m) \in Nat BY <1>1, <1>6, TrailFacts
  <2>2. LevelOf(m) # 0 BY <1>1, <1>5, <1>6, <1>10, Level0False
  <2> QED BY <2>1, <2>2
<1>13. m \in AboveLevel0(R \ {-l}) BY <1>7, <1>12 DEF AboveLevel0
<1> QED BY <1>5, <1>6, <1>10, <1>11, <1>13 DEF R

\* Literals that are implied by each other and by literals that do not hold
\* do not hold either: the one falsified first has no reason to.
LEMMA ImpliedFalls ==
    ASSUME IndInv, NEW A \in SUBSET Vars, IsModel(A, given),
           NEW S \in SUBSET Lits, NEW K,
           \A l \in S : False(l) /\ LevelOf(l) > 0 /\ ImpliedBy(l, S \cup K),
           \A l \in K : ~ Holds(A, l)
    PROVE  \A l \in S : ~ Holds(A, l)
<1> SUFFICES ASSUME NEW l \in S, Holds(A, l) PROVE FALSE OBVIOUS
<1> DEFINE T == {Index(m) : m \in {n \in S : Holds(A, n)}}
<1>1. T \in SUBSET Nat /\ T # {}
  <2>1. \A m \in S : Index(m) \in Nat
    <3> TAKE m \in S
    <3>1. Index(m) \in 1 .. Len(trail) BY FalseFacts DEF IndInv
    <3>2. Len(trail) \in Nat BY TrailFacts DEF IndInv
    <3> QED BY <3>1, <3>2
  <2> QED BY <2>1
<1>2. PICK t \in T : \A u \in T : t <= u
  <2> HIDE DEF T
  <2> QED BY <1>1, LeastExists
<1>3. PICK m \in S : Holds(A, m) /\ t = Index(m) OBVIOUS
<1>4. /\ m \in Lits /\ False(m) /\ LevelOf(m) > 0
      /\ ReasonOf(m) # NoReason /\ AboveLevel0(ReasonOf(m) \ {-m}) \subseteq S \cup K
  BY DEF ImpliedBy
<1>5. PICK n \in AboveLevel0(ReasonOf(m) \ {-m}) : Holds(A, n) /\ Index(n) < Index(m)
  BY <1>3, <1>4, ReasonHolds
<1>6. n \in S BY <1>4, <1>5
<1>7. Index(n) \in T BY <1>5, <1>6
<1>8. Index(n) \in Nat /\ Index(m) \in Nat BY <1>1, <1>3, <1>7
<1> QED BY <1>2, <1>3, <1>5, <1>7, <1>8

\* What minimization removes does not hold where the rest does not.
LEMMA RedundantFalls ==
    ASSUME IndInv, NEW A \in SUBSET Vars, IsModel(A, given),
           NEW seen \in SUBSET Lits, \A l \in seen : False(l) /\ LevelOf(l) > 0,
           NEW mode \in 0 .. 2,
           \A l \in seen \ Redundant(mode, seen) : ~ Holds(A, l)
    PROVE  \A l \in seen : ~ Holds(A, l)
<1> DEFINE gone == Redundant(mode, seen)
           rest == seen \ gone
<1>1. CASE mode = 0 BY <1>1 DEF Redundant
<1>2. CASE mode = 1
  <2>1. gone = {l \in seen : ImpliedBy(l, seen)} BY <1>2 DEF Redundant
  <2>2. gone \in SUBSET Lits /\ gone \cup rest = seen BY <2>1
  <2>3. \A l \in gone : False(l) /\ LevelOf(l) > 0 /\ ImpliedBy(l, gone \cup rest)
    BY <2>1, <2>2
  <2>4. \A l \in rest : ~ Holds(A, l) OBVIOUS
  <2> HIDE DEF gone, rest
  <2>5. \A l \in gone : ~ Holds(A, l) BY <2>2, <2>3, <2>4, ImpliedFalls
  <2> QED BY <2>2, <2>4, <2>5
<1>3. CASE mode = 2
  <2>1. gone = {l \in seen : ImpliedThrough(l, seen)} BY <1>3 DEF Redundant
  <2> DEFINE Explains(l, R) == /\ Levels(R) \subseteq Levels(seen)
                               /\ \A m \in R \cup {l} : ImpliedBy(m, seen \cup R)
             false == {-trail[i] : i \in DOMAIN trail}
             S == gone \cup {m \in Lits : \E l \in gone, R \in SUBSET false :
                                            Explains(l, R) /\ m \in R}
  <2>2. \A l \in gone : \E R \in SUBSET false : Explains(l, R)
    BY <2>1 DEF ImpliedThrough
  <2>3. \A m \in false : m \in Lits /\ False(m)
    <3> SUFFICES ASSUME NEW i \in DOMAIN trail PROVE -trail[i] \in Lits /\ False(-trail[i])
      OBVIOUS
    <3>1. trail[i] \in Lits BY TrailFacts DEF IndInv
    <3> QED BY <3>1, LitFacts DEF False, True
  <2>4. gone \in SUBSET Lits /\ gone \cup rest = seen /\ S \in SUBSET Lits BY <2>1
  <2>5. ASSUME NEW l \in gone, NEW R \in SUBSET false, Explains(l, R)
        PROVE  /\ R \subseteq S
               /\ \A m \in R \cup {l} : ImpliedBy(m, S \cup rest)
               /\ \A m \in R : False(m) /\ LevelOf(m) > 0
    <3>1. R \subseteq S BY <2>3, <2>5
    <3>2. seen \cup R \subseteq S \cup rest BY <2>4, <3>1
    <3> HIDE DEF S, rest, gone
    <3>3. \A m \in R \cup {l} : ImpliedBy(m, S \cup rest) BY <2>5, <3>2 DEF ImpliedBy
    <3>4. \A m \in R : LevelOf(m) > 0 BY <2>5 DEF Levels
    <3> QED BY <2>3, <3>1, <3>3, <3>4
  <2>6. \A m \in S : False(m) /\ LevelOf(m) > 0 /\ ImpliedBy(m, S \cup rest)
    <3> SUFFICES ASSUME NEW m \in S
                 PROVE  False(m) /\ LevelOf(m) > 0 /\ ImpliedBy(m, S \cup rest)
      OBVIOUS
    <3>1. CASE m \in gone
      <4>1. PICK R \in SUBSET false : Explains(m, R) BY <2>2, <3>1
      <4>2. ImpliedBy(m, S \cup rest)
        <5> HIDE DEF S, gone, rest, false, Explains
        <5> QED BY <2>5, <3>1, <4>1
      <4>3. m \in seen BY <2>4, <3>1
      <4> QED BY <4>2, <4>3
    <3>2. CASE m \notin gone
      <4>1. PICK l \in gone, R \in SUBSET false : Explains(l, R) /\ m \in R BY <3>2
      <4> HIDE DEF S, gone, rest, false, Explains
      <4> QED BY <2>5, <4>1
    <3> QED BY <3>1, <3>2
  <2>7. \A l \in rest : ~ Holds(A, l) OBVIOUS
  <2>8. gone \subseteq S OBVIOUS
  <2> HIDE DEF S, gone, rest
  <2>9. \A l \in S : ~ Holds(A, l) BY <2>4, <2>6, <2>7, ImpliedFalls
  <2> QED BY <2>4, <2>7, <2>8, <2>9
<1> QED BY <1>1, <1>2, <1>3

-----------------------------------------------------------------------------
(* The literal that was falsified last *)

\* There is a literal that was falsified last.
LEMMA LatestFacts ==
    ASSUME AssignmentInv, NEW W \in SUBSET Lits, W # {}, \A l \in W : False(l)
    PROVE  /\ Latest(W) \in W
           /\ \A m \in W \ {Latest(W)} : Index(m) < Index(Latest(W))
<1> DEFINE T == {Index(m) : m \in W}
<1>1. Len(trail) \in Nat /\ \A m \in W : Index(m) \in 1 .. Len(trail)
  BY FalseFacts, TrailFacts
<1>2. T \in SUBSET Nat /\ T # {} /\ \A t \in T : t <= Len(trail)
  <2>1. \A m \in W : Index(m) \in Nat /\ Index(m) <= Len(trail) BY <1>1
  <2> QED BY <2>1
<1>3. PICK t \in T : \A u \in T : u <= t
  <2> HIDE DEF T
  <2> QED BY <1>1, <1>2, GreatestExists
<1>4. PICK l \in W : t = Index(l) OBVIOUS
<1>5. \A m \in W : Index(m) <= Index(l) BY <1>3, <1>4
<1>6. Latest(W) \in W /\ \A m \in W : Index(m) <= Index(Latest(W)) BY <1>5 DEF Latest
<1>7. \A m, n \in W : Index(m) = Index(n) => m = n
  <2> SUFFICES ASSUME NEW m \in W, NEW n \in W, Index(m) = Index(n) PROVE m = n OBVIOUS
  <2>1. -m = -n BY FalseFacts
  <2>2. -(-m) = m /\ -(-n) = n BY LitFacts
  <2> QED BY <2>1, <2>2
<1>8. ASSUME NEW m \in W \ {Latest(W)} PROVE Index(m) < Index(Latest(W))
  <2>1. Index(m) # Index(Latest(W)) BY <1>6, <1>7
  <2>2. Index(m) \in Nat /\ Index(Latest(W)) \in Nat BY <1>1, <1>6
  <2> QED BY <1>6, <2>1, <2>2
<1> QED BY <1>6, <1>8

\* Levels do not decrease along the trail.
LEMMA LevelsRise ==
    ASSUME AssignmentInv, NEW l \in Lits, NEW m \in Lits, False(l), False(m),
           Index(l) <= Index(m)
    PROVE  LevelOf(l) <= LevelOf(m)
<1>1. /\ Index(l) \in DOMAIN trail /\ trail[Index(l)] = -l /\ LevelOf(-l) = LevelOf(l)
      /\ Index(m) \in DOMAIN trail /\ trail[Index(m)] = -m /\ LevelOf(-m) = LevelOf(m)
      /\ LevelOf(m) \in 0 .. DecisionLevel
  BY FalseFacts, TrailFacts
<1>2. Index(m) <= Cut(LevelOf(m)) BY <1>1, CutFacts
<1>3. Cut(LevelOf(m)) \in Nat /\ Index(l) \in Nat /\ Index(m) \in Nat
  BY <1>1, CutFacts, TrailFacts
<1>4. Index(l) <= Cut(LevelOf(m)) BY <1>2, <1>3
<1> QED BY <1>1, <1>4, CutFacts

\* The latest of the literals under analysis is on this level.
LEMMA LatestOnThisLevel ==
    ASSUME IndInv, pc = "analyze"
    PROVE  /\ Latest(work) \in OnThisLevel(work)
           /\ \A m \in work \ {Latest(work)} : Index(m) < Index(Latest(work))
<1>1. AssignmentInv /\ work \in SUBSET Lits BY DEF IndInv, TypeOK, Clause
<1>2. work # {} /\ \A l \in work : False(l) BY DEF IndInv, WorkInv, OnThisLevel
<1>3. /\ Latest(work) \in work
      /\ \A m \in work \ {Latest(work)} : Index(m) < Index(Latest(work))
  BY <1>1, <1>2, LatestFacts
<1>4. PICK m \in OnThisLevel(work) : TRUE BY DEF IndInv, WorkInv
<1>5. CASE m = Latest(work) BY <1>3, <1>4, <1>5
<1>6. CASE m # Latest(work)
  <2>1. m \in work /\ LevelOf(m) = DecisionLevel BY <1>4 DEF OnThisLevel
  <2>2. Index(m) < Index(Latest(work)) BY <1>3, <1>6, <2>1
  <2>3. Index(m) \in Nat /\ Index(Latest(work)) \in Nat
    <3>1. Index(m) \in 1 .. Len(trail) /\ Index(Latest(work)) \in 1 .. Len(trail)
      BY <1>1, <1>2, <1>3, <2>1, FalseFacts
    <3>2. Len(trail) \in Nat BY <1>1, TrailFacts
    <3> QED BY <3>1, <3>2
  <2>4. LevelOf(m) <= LevelOf(Latest(work))
    BY <1>1, <1>2, <1>3, <2>1, <2>2, <2>3, LevelsRise
  <2>5. LevelOf(Latest(work)) \in 0 .. DecisionLevel
    BY <1>1, <1>2, <1>3, FalseFacts
  <2>6. DecisionLevel \in Nat BY <1>1, TrailFacts
  <2> QED BY <1>3, <2>1, <2>4, <2>5, <2>6 DEF OnThisLevel
<1> QED BY <1>3, <1>5, <1>6

\* While more than one literal of this level is left, the latest has a reason
\* and is not the last one of the level.
LEMMA NotAtUip ==
    ASSUME IndInv, pc = "analyze", ~ AtUip
    PROVE  /\ ReasonOf(Latest(work)) # NoReason
           /\ OnThisLevel(work \ {Latest(work)}) # {}
<1> DEFINE l == Latest(work)
           W == OnThisLevel(work)
<1>1. AssignmentInv /\ work \in Clause /\ DecisionLevel > 0 /\ merges \in 0 .. 2
  BY DEF IndInv, TypeOK, Home
<1>2. l \in W /\ \A m \in work \ {l} : Index(m) < Index(l) BY LatestOnThisLevel
<1>3. W \in Clause BY <1>1 DEF OnThisLevel, Clause
<1>4. IsFiniteSet(W) BY <1>3, LitsFinite
<1>5. Cardinality(W) \in Nat BY <1>4, FS_CardinalityType
<1>6. Cardinality(W) > 1 BY <1>1, <1>5 DEF AtUip, PathLimit
<1>7. PICK m \in W : m # l BY <1>4, <1>6, AnotherOne
<1>8. m \in work /\ LevelOf(m) = DecisionLevel /\ l \in work /\ LevelOf(l) = DecisionLevel
  BY <1>2, <1>7 DEF OnThisLevel
<1>9. OnThisLevel(work \ {l}) # {} BY <1>7, <1>8 DEF OnThisLevel
<1>10. ReasonOf(l) # NoReason
  <2> SUFFICES ASSUME ReasonOf(l) = NoReason PROVE FALSE OBVIOUS
  <2>1. m \in Lits /\ l \in Lits /\ False(m) /\ False(l)
    BY <1>1, <1>8 DEF IndInv, WorkInv, Clause
  <2>2. /\ Index(l) \in DOMAIN trail /\ trail[Index(l)] = -l
        /\ LevelOf(-l) = DecisionLevel /\ ReasonOf(-l) = NoReason
        /\ Index(m) \in DOMAIN trail /\ trail[Index(m)] = -m /\ LevelOf(-m) = DecisionLevel
    BY <1>1, <1>8, <2>1, FalseFacts, TrailFacts
  <2>3. Index(l) = trail_lim[DecisionLevel] + 1
    BY <1>1, <2>2 DEF AssignmentInv, LevelsMatch
  <2>4. trail_lim[DecisionLevel] < Index(m)
    BY <1>1, <2>2 DEF AssignmentInv, LevelsMatch
  <2>5. Index(m) < Index(l) BY <1>2, <1>7, <1>8
  <2>6. Index(m) \in Nat /\ Index(l) \in Nat BY <1>1, <2>2, TrailFacts
  <2>7. trail_lim[DecisionLevel] \in Nat
    <3>1. DecisionLevel \in DOMAIN trail_lim BY <1>1, TrailFacts
    <3> QED BY <1>1, <3>1, TrailFacts
  <2> QED BY <2>3, <2>4, <2>5, <2>6, <2>7
<1> QED BY <1>9, <1>10

-----------------------------------------------------------------------------
(* Every step keeps the invariant *)

\* A model satisfies what is true on level 0.
Level0Holds(A) == \A i \in DOMAIN trail : LevelOf(trail[i]) = 0 => Holds(A, trail[i])

\* Going back makes no clause false, and takes no clause's last literal of
\* this level.
LEMMA GoBackKeeps ==
    ASSUME IndInv, NEW to \in 0 .. DecisionLevel, BackTo(to, << >>, NoReason),
           Database \subseteq Database'
    PROVE  /\ AssignmentInv' /\ DecisionLevel' = to
           /\ \A C \in Database : Falsified(C)' => /\ Falsified(C)
                                                   /\ to = 0 \/ OnThisLevel(C)' # {}
           /\ \A l \in Lits : LevelOf(l) > to => ~ False(l)'
           /\ ReasonsKept'
           /\ \A A \in SUBSET Vars : Level0Holds(A) => Level0Holds(A)'
<1>1. AssignmentInv BY DEF IndInv
<1>2. /\ AssignmentInv' /\ DecisionLevel' = to
      /\ Cut(to) \in 0 .. Len(trail) /\ Len(trail) \in Nat
      /\ DOMAIN trail = 1 .. Len(trail) /\ DOMAIN trail' = 1 .. Cut(to)
      /\ \A i \in DOMAIN trail' : /\ i \in DOMAIN trail
                                  /\ trail'[i] = trail[i]
                                  /\ LevelOf(trail[i]) <= to
                                  /\ level'[VarOf(trail[i])] = LevelOf(trail[i])
                                  /\ reason'[VarOf(trail[i])] = ReasonOf(trail[i])
  BY <1>1, GoBackInv, Zenon
<1>3. ASSUME NEW C \in Database, Falsified(C)'
      PROVE  Falsified(C) /\ (to = 0 \/ OnThisLevel(C)' # {})
  <2>1. C \in SUBSET Lits BY DEF Database, IndInv, TypeOK, Formula, Clause
  <2>2. \A l \in C : \E i \in DOMAIN trail' : trail'[i] = -l
    BY <1>3 DEF Falsified, False, True
  <2>3. Falsified(C) BY <1>2, <2>2 DEF Falsified, False, True
  <2>4. CASE DecisionLevel = 0
    <3>1. to = 0 BY <2>4
    <3> QED BY <2>3, <3>1
  <2>5. CASE DecisionLevel # 0
    <3>1. PICK l \in C : LevelOf(l) = DecisionLevel
      BY <2>3, <2>5 DEF IndInv, NothingMissed, OnThisLevel
    <3>2. PICK i \in DOMAIN trail' : trail'[i] = -l BY <2>2
    <3>3. l \in Lits /\ VarOf(-l) = VarOf(l) BY <2>1, LitFacts
    <3>4. LevelOf(-l) = DecisionLevel BY <3>1, <3>3 DEF LevelOf
    <3>5. DecisionLevel <= to /\ level'[VarOf(l)] = DecisionLevel
      BY <1>2, <3>2, <3>3, <3>4
    <3>6. to = DecisionLevel BY <1>1, <3>5, TrailFacts
    <3> QED BY <1>2, <2>3, <3>5, <3>6 DEF OnThisLevel, LevelOf
  <2> QED BY <2>4, <2>5
<1>4. ReasonsKept'
  <2> SUFFICES ASSUME NEW i \in DOMAIN trail', reason'[VarOf(trail'[i])] # NoReason
               PROVE  LET R == reason'[VarOf(trail'[i])]
                      IN  \/ R \in Database'
                          \/ Cardinality(R) = 2 /\ level'[VarOf(trail'[i])] = 0
    BY DEF ReasonsKept, ReasonOf, LevelOf
  <2>1. /\ i \in DOMAIN trail /\ reason'[VarOf(trail'[i])] = ReasonOf(trail[i])
        /\ level'[VarOf(trail'[i])] = LevelOf(trail[i])
    BY <1>2
  <2> QED BY <2>1 DEF IndInv, ReasonsKept
<1>5. ASSUME NEW A \in SUBSET Vars, Level0Holds(A) PROVE Level0Holds(A)'
  <2> SUFFICES ASSUME NEW i \in DOMAIN trail', level'[VarOf(trail'[i])] = 0
               PROVE  Holds(A, trail'[i])
    BY DEF Level0Holds, LevelOf
  <2>1. i \in DOMAIN trail /\ trail'[i] = trail[i] /\ LevelOf(trail[i]) = 0 BY <1>2
  <2> QED BY <1>5, <2>1 DEF Level0Holds
<1>6. ASSUME NEW l \in Lits, False(l)' PROVE LevelOf(l) <= to
  <2>1. PICK i \in DOMAIN trail' : trail'[i] = -l BY <1>6 DEF False, True
  <2>2. VarOf(-l) = VarOf(l) BY LitFacts
  <2> QED BY <1>2, <2>1, <2>2 DEF LevelOf
<1>7. ASSUME NEW l \in Lits, LevelOf(l) > to PROVE ~ False(l)'
  <2>1. LevelOf(l) \in Nat /\ DecisionLevel \in Nat BY <1>1, TrailFacts
  <2> QED BY <1>6, <1>7, <2>1
<1> QED BY <1>2, <1>3, <1>4, <1>5, <1>7

\* In the model of what was given, as Implied says.
LEMMA ModelFacts ==
    ASSUME IndInv, NEW A \in SUBSET Vars, IsModel(A, given)
    PROVE  /\ ok /\ IsModel(A, Database) /\ Level0Holds(A)
           /\ pc = "analyze" => Sat(A, work)
           /\ pc = "final" => Sat(A, work \cup Range(conflict))
BY DEF IndInv, Implied, Level0Holds

\* A clause that is falsified on level 0 refutes what was given.
LEMMA Level0Conflict ==
    ASSUME IndInv, DecisionLevel = 0, NEW C \in Database, Falsified(C),
           NEW A \in SUBSET Vars, IsModel(A, given)
    PROVE  FALSE
<1>1. C \in SUBSET Lits BY DEF Database, IndInv, TypeOK, Formula, Clause
<1>2. PICK l \in C : Holds(A, l) BY ModelFacts DEF IsModel, Sat
<1>3. AssignmentInv /\ Implied BY DEF IndInv
<1>4. False(l) /\ l \in Lits BY <1>1 DEF Falsified
<1>5. LevelOf(l) = 0 BY <1>3, <1>4, FalseFacts
<1> QED BY <1>2, <1>3, <1>4, <1>5, Level0False

\* solve_ ends: if it blames the clauses, they have no model.
LEMMA ReturnInv ==
    ASSUME IndInv, NEW result \in {"sat", "unsat", "undef"}, NEW lits \in SUBSET Lits,
           Return(result, lits),
           result = "unsat" \/ refining =>
              conflict # << >> \/ \A A \in SUBSET Vars : ~ IsModel(A, given)
    PROVE  IndInv'
<1>1. /\ pc' = "idle" /\ saved' = << >> /\ refining' = FALSE
      /\ status' = IF refining THEN "unsat" ELSE result
      /\ model' = lits
      /\ ok' = (ok /\ ~ Contradictory(status'))
      /\ assumptions' = IF refining THEN saved ELSE assumptions
      /\ BackTo(0, << >>, NoReason)
      /\ UNCHANGED <<given, clauses, learnts, weak, work, merges, conflict, counters>>
  BY DEF Return
<1>2. 0 \in 0 .. DecisionLevel BY TrailFacts DEF IndInv
<1>3. Database' = Database BY <1>1 DEF Database
<1>4. /\ AssignmentInv' /\ DecisionLevel' = 0
      /\ ReasonsKept'
      /\ \A A \in SUBSET Vars : Level0Holds(A) => Level0Holds(A)'
  BY <1>1, <1>2, <1>3, GoBackKeeps
<1>5. AssignmentOK' BY <1>4 DEF AssignmentInv
<1>6. TypeOK'
  <2>1. ok' \in BOOLEAN BY <1>1, Zenon DEF IndInv, TypeOK
  <2>2. refining' \in BOOLEAN BY <1>1, Zenon
  <2>3. assumptions' \in Seq(Lits) /\ saved' \in Seq(Lits) BY <1>1 DEF IndInv, TypeOK
  <2>4. status' \in {"none", "sat", "unsat", "undef"} BY <1>1
  <2>5. /\ given' \in Formula /\ clauses' \in Formula /\ learnts' \in Formula
        /\ weak' \in Formula /\ work' \in Clause /\ merges' \in 0 .. 2
        /\ conflict' \in Seq(Lits) /\ model' \in SUBSET Lits
        /\ solves' \in 0 .. MaxSolves /\ restarts' \in 0 .. MaxRestarts
        /\ biasserting' \in 0 .. MaxBiAsserting /\ removals' \in 0 .. MaxRemovals
    BY <1>1 DEF IndInv, TypeOK, counters
  <2> QED BY <1>1, <1>5, <2>1, <2>2, <2>3, <2>4, <2>5 DEF TypeOK, AssignmentOK
<1>7. Home' /\ NothingMissed' /\ WorkInv' /\ RefiningInv'
  BY <1>1, <1>4 DEF Home, NothingMissed, WorkInv, RefiningInv
<1>8. NoUnits' BY <1>3 DEF IndInv, NoUnits
<1>9. Implied'
  <2> SUFFICES ASSUME NEW A \in SUBSET Vars, IsModel(A, given)
               PROVE  ok' /\ IsModel(A, Database) /\ Level0Holds(A)'
    BY <1>1, <1>3 DEF Implied, Level0Holds
  <2>1. ok /\ IsModel(A, Database) /\ Level0Holds(A) BY ModelFacts
  <2>2. ~ Contradictory(status') BY <1>1 DEF Contradictory
  <2> QED BY <1>1, <1>4, <2>1, <2>2
<1> QED BY <1>4, <1>6, <1>7, <1>8, <1>9 DEF IndInv

\* A step that leaves the assignment and the clauses alone.
LEMMA SameTrail ==
    ASSUME IndInv, UNCHANGED assigned, Database' = Database
    PROVE  /\ AssignmentInv' /\ NoUnits' /\ ReasonsKept'
           /\ DecisionLevel' = DecisionLevel
           /\ \A l : (False(l)' <=> False(l)) /\ LevelOf(l)' = LevelOf(l)
           /\ \A C : (Falsified(C)' <=> Falsified(C)) /\ OnThisLevel(C)' = OnThisLevel(C)
           /\ \A A : Level0Holds(A)' <=> Level0Holds(A)
<1> USE DEF assigned
<1>1. AssignmentInv'
  BY DEF IndInv, AssignmentInv, AssignmentOK, OnceOnTrail, LimitsInOrder, LevelsMatch,
         NothingElse, ReasonsBefore, LevelOf, ReasonOf, DecisionLevel
<1>2. NoUnits' BY DEF IndInv, NoUnits
<1>3. ReasonsKept' BY DEF IndInv, ReasonsKept, ReasonOf, LevelOf
<1>4. DecisionLevel' = DecisionLevel BY DEF DecisionLevel
<1>5. \A l : (False(l)' <=> False(l)) /\ LevelOf(l)' = LevelOf(l) BY DEF False, True, LevelOf
<1>6. \A C : (Falsified(C)' <=> Falsified(C)) /\ OnThisLevel(C)' = OnThisLevel(C)
  BY <1>4, <1>5 DEF Falsified, OnThisLevel
<1>7. \A A : Level0Holds(A)' <=> Level0Holds(A) BY DEF Level0Holds, LevelOf
<1> QED BY <1>1, <1>2, <1>3, <1>4, <1>5, <1>6, <1>7

\* The parts of the invariant that speak of what the solver is doing follow
\* from these facts where the assignment and the clauses stay.
LEMMA SameTrailInv ==
    ASSUME IndInv, UNCHANGED assigned, Database' = Database, TypeOK',
           Home', RefiningInv', WorkInv',
           pc' \in {"quiet", "decide"} => \A C \in Database : ~ Falsified(C),
           ASSUME NEW A \in SUBSET Vars, IsModel(A, given')
           PROVE  /\ IsModel(A, given) /\ ok'
                  /\ pc' = "analyze" => Sat(A, work')
                  /\ pc' = "final" => Sat(A, work' \cup Range(conflict'))
    PROVE  IndInv'
<1>1. /\ AssignmentInv' /\ NoUnits' /\ ReasonsKept'
      /\ DecisionLevel' = DecisionLevel
      /\ \A C : (Falsified(C)' <=> Falsified(C)) /\ OnThisLevel(C)' = OnThisLevel(C)
      /\ \A A : Level0Holds(A)' <=> Level0Holds(A)
  BY SameTrail
<1>2. NothingMissed' BY <1>1 DEF IndInv, NothingMissed
<1>3. Implied'
  <2> SUFFICES ASSUME NEW A \in SUBSET Vars, IsModel(A, given')
               PROVE  /\ ok' /\ IsModel(A, Database) /\ Level0Holds(A)'
                      /\ pc' = "analyze" => Sat(A, work')
                      /\ pc' = "final" => Sat(A, work' \cup Range(conflict'))
    BY DEF Implied, Level0Holds
  <2>1. IsModel(A, given) OBVIOUS
  <2> QED BY <1>1, <2>1, ModelFacts
<1> QED BY <1>1, <1>2, <1>3 DEF IndInv

\* A call begins with no conflict and all its counters at 0.
LEMMA CallInv == ASSUME IndInv, NEW A \in Questions, Call(A) PROVE IndInv'
<1> USE DEF Call, base, assigned
<1>1. A \in Seq(Lits) BY QuestionsAssumption
<1>2. Database' = Database BY DEF Database
<1>3. solves' \in 0 .. MaxSolves
  <2>1. MaxSolves \in Nat /\ solves \in 0 .. MaxSolves BY BoundsAssumption DEF IndInv, TypeOK
  <2> QED BY <2>1
<1>4. 0 \in 0 .. MaxRestarts /\ 0 \in 0 .. MaxBiAsserting /\ 0 \in 0 .. MaxRemovals
  BY BoundsAssumption
<1>5. TypeOK' BY <1>1, <1>3, <1>4 DEF IndInv, TypeOK
<1>6. ~ refining BY DEF IndInv, Home
<1>7. Home' /\ RefiningInv' /\ WorkInv'
  BY <1>6 DEF IndInv, Home, RefiningInv, WorkInv, DecisionLevel
<1>8. ASSUME NEW B \in SUBSET Vars, IsModel(B, given') PROVE IsModel(B, given) /\ ok'
  BY <1>8, ModelFacts
<1> QED BY <1>2, <1>5, <1>7, <1>8, SameTrailInv

\* addClause_ sets ok to false for a clause that is falsified on level 0.
LEMMA AddingFailsInv == ASSUME IndInv, AddingFails PROVE IndInv'
<1> USE DEF AddingFails, answer, counters, asked
<1>1. Database' = Database BY DEF Database
<1>2. TypeOK' BY DEF IndInv, TypeOK, assigned
<1>3. Home' /\ RefiningInv' /\ WorkInv'
  BY DEF IndInv, Home, RefiningInv, WorkInv, DecisionLevel, assigned
<1>4. ASSUME NEW A \in SUBSET Vars, IsModel(A, given) PROVE FALSE
  BY <1>4, Level0Conflict DEF IndInv, Home
<1> QED BY <1>1, <1>2, <1>3, <1>4, SameTrailInv

\* Once propagation has ended no clause is falsified.
LEMMA PropagationEndsInv == ASSUME IndInv, PropagationEnds PROVE IndInv'
<1> USE DEF PropagationEnds, EndPropagation, answer, counters, asked, base
<1>1. Database' = Database BY DEF Database
<1>2. TypeOK' BY DEF IndInv, TypeOK, assigned
<1>3. Home' /\ RefiningInv' /\ WorkInv'
  BY DEF IndInv, Home, RefiningInv, WorkInv, DecisionLevel, assigned
<1>4. \A C \in Database : ~ Falsified(C) BY DEF Propagated
<1>5. ASSUME NEW A \in SUBSET Vars, IsModel(A, given') PROVE IsModel(A, given) /\ ok'
  BY <1>5, ModelFacts
<1>6. pc' \notin {"analyze", "final"} OBVIOUS
<1> QED BY <1>1, <1>2, <1>3, <1>4, <1>5, <1>6, SameTrailInv

\* solve_ blames the clauses if ok is false already.
LEMMA AlreadyUnsatInv == ASSUME IndInv, AlreadyUnsat PROVE IndInv'
<1>1. \A A \in SUBSET Vars : ~ IsModel(A, given) BY ModelFacts DEF AlreadyUnsat
<1>2. Return("unsat", {}) BY DEF AlreadyUnsat
<1> QED BY <1>1, <1>2, ReturnInv

\* search() blames the clauses for a conflict on level 0.
LEMMA ConflictOnLevel0Inv == ASSUME IndInv, ConflictOnLevel0 PROVE IndInv'
<1>1. \A A \in SUBSET Vars : ~ IsModel(A, given)
  BY Level0Conflict DEF ConflictOnLevel0
<1>2. Return("unsat", {}) BY DEF ConflictOnLevel0
<1> QED BY <1>1, <1>2, ReturnInv

\* search() that stops claims nothing, but for the conflict it may refine.
LEMMA SearchStopsInv == ASSUME IndInv, SearchStops PROVE IndInv'
<1>1. pc = "quiet" /\ Return("undef", {}) BY DEF SearchStops
<1>2. refining => conflict # << >> BY <1>1 DEF IndInv, RefiningInv
<1> QED BY <1>1, <1>2, ReturnInv

\* search() that finds a model blames no clause.
LEMMA ModelFoundInv == ASSUME IndInv, ModelFound PROVE IndInv'
<1>1. pc = "decide" /\ Return("sat", {l \in Lits : True(l)}) BY DEF ModelFound
<1>2. refining => conflict # << >> BY <1>1 DEF IndInv, RefiningInv
<1>3. {l \in Lits : True(l)} \in SUBSET Lits OBVIOUS
<1> QED BY <1>1, <1>2, <1>3, ReturnInv

\* The clause under analysis holds without its literals of level 0.
LEMMA AboveLevel0Holds ==
    ASSUME IndInv, NEW C \in Database, Falsified(C)
    PROVE  /\ AboveLevel0(C) \in Clause
           /\ \A l \in AboveLevel0(C) : False(l) /\ LevelOf(l) > 0
           /\ \A A \in SUBSET Vars : IsModel(A, given) => Sat(A, AboveLevel0(C))
<1>1. C \in SUBSET Lits BY DEF Database, IndInv, TypeOK, Formula, Clause
<1>2. AboveLevel0(C) \in Clause /\ \A l \in AboveLevel0(C) : False(l) /\ LevelOf(l) > 0
  BY <1>1 DEF AboveLevel0, Falsified, Clause
<1>3. ASSUME NEW A \in SUBSET Vars, IsModel(A, given) PROVE Sat(A, AboveLevel0(C))
  <2>1. PICK l \in C : Holds(A, l) BY <1>3, ModelFacts DEF IsModel, Sat
  <2>2. AssignmentInv /\ Implied /\ l \in Lits /\ False(l) BY <1>1 DEF IndInv, Falsified
  <2>3. LevelOf(l) # 0 BY <1>3, <2>1, <2>2, Level0False
  <2>4. LevelOf(l) \in Nat BY <2>2, TrailFacts
  <2> QED BY <2>1, <2>3, <2>4 DEF AboveLevel0, Sat
<1> QED BY <1>2, <1>3

\* analyze() starts from a clause that holds without its level 0 literals.
LEMMA StartAnalysisInv == ASSUME IndInv, StartAnalysis PROVE IndInv'
<1> USE DEF StartAnalysis, base, asked, answer, counters
<1>1. Database' = Database BY DEF Database
<1>2. PICK C \in Database : Falsified(C) /\ work' = AboveLevel0(C) OBVIOUS
<1>3. /\ work' \in Clause /\ \A l \in work' : False(l) /\ LevelOf(l) > 0
      /\ \A A \in SUBSET Vars : IsModel(A, given) => Sat(A, work')
  BY <1>2, AboveLevel0Holds
<1>4. /\ merges' \in 0 .. 2
      /\ merges' < 2 => biasserting < MaxBiAsserting
  OBVIOUS
<1>5. TypeOK' BY <1>3, <1>4 DEF IndInv, TypeOK, assigned
<1>6. OnThisLevel(work') # {}
  <2>1. PICK l \in C : LevelOf(l) = DecisionLevel BY <1>2 DEF IndInv, NothingMissed, OnThisLevel
  <2> QED BY <1>2, <2>1 DEF OnThisLevel, AboveLevel0
<1>7. Home' /\ RefiningInv' /\ WorkInv'
  BY <1>3, <1>4, <1>6
     DEF IndInv, Home, RefiningInv, WorkInv, DecisionLevel, OnThisLevel, LevelOf, False, True,
         assigned
<1>8. ASSUME NEW A \in SUBSET Vars, IsModel(A, given')
      PROVE  IsModel(A, given) /\ ok' /\ Sat(A, work')
  BY <1>3, <1>8, ModelFacts
<1>9. pc' = "analyze" OBVIOUS
<1> QED BY <1>1, <1>5, <1>7, <1>8, <1>9, SameTrailInv

\* So does analyzeFinal() when the assumptions are in conflict already.
LEMMA StopEarlyInv == ASSUME IndInv, StopEarly PROVE IndInv'
<1> USE DEF StopEarly, base, asked, counters
<1>1. Database' = Database BY DEF Database
<1>2. PICK C \in Database : Falsified(C) /\ work' = AboveLevel0(C) OBVIOUS
<1>3. /\ work' \in Clause /\ \A l \in work' : False(l) /\ LevelOf(l) > 0
      /\ \A A \in SUBSET Vars : IsModel(A, given) => Sat(A, work')
  BY <1>2, AboveLevel0Holds
<1>4. TypeOK' BY <1>3 DEF IndInv, TypeOK, assigned
<1>5. Home' /\ RefiningInv' /\ WorkInv'
  BY <1>3 DEF IndInv, Home, RefiningInv, WorkInv, DecisionLevel, LevelOf, False, True, assigned
<1>6. ASSUME NEW A \in SUBSET Vars, IsModel(A, given')
      PROVE  IsModel(A, given) /\ ok' /\ Sat(A, work' \cup Range(conflict'))
  BY <1>3, <1>6, ModelFacts DEF Sat
<1>7. pc' = "final" OBVIOUS
<1> QED BY <1>1, <1>4, <1>5, <1>6, <1>7, SameTrailInv

\* Replacing a literal under analysis by its reason: the clause still holds,
\* and its literals are still false above level 0.
LEMMA ReplaceByReason ==
    ASSUME IndInv, pc \in {"analyze", "final"}, NEW l \in work, ReasonOf(l) # NoReason
    PROVE  LET rest == AboveLevel0(ReasonOf(l) \ {-l})
           IN  /\ rest \in Clause
               /\ \A m \in rest : False(m) /\ LevelOf(m) > 0
               /\ \A A \in SUBSET Vars :
                     IsModel(A, given) /\ Holds(A, l) => Sat(A, rest)
<1> DEFINE R == ReasonOf(l)
           rest == AboveLevel0(R \ {-l})
<1>1. AssignmentInv /\ l \in Lits /\ False(l) /\ LevelOf(l) > 0
  BY DEF IndInv, TypeOK, WorkInv, Clause
<1>2. R \in Clause BY <1>1, TrailFacts
<1>3. rest \in Clause /\ \A m \in rest : m \in R \ {-l} /\ LevelOf(m) > 0
  BY <1>2 DEF AboveLevel0, Clause
<1>4. ASSUME NEW m \in rest PROVE False(m)
  <2>1. /\ Index(l) \in DOMAIN trail /\ trail[Index(l)] = -l /\ R = ReasonOf(-l)
        /\ Len(trail) \in Nat /\ DOMAIN trail = 1 .. Len(trail)
    BY <1>1, FalseFacts, TrailFacts
  <2>2. m \in R \ {-l} BY <1>3
  <2>3. PICK j \in 1 .. Index(l) - 1 : trail[j] = -m
    BY <1>1, <2>1, <2>2 DEF AssignmentInv, ReasonsBefore
  <2>4. j \in DOMAIN trail BY <2>1
  <2> QED BY <2>3, <2>4 DEF False, True
<1>5. ASSUME NEW A \in SUBSET Vars, IsModel(A, given), Holds(A, l) PROVE Sat(A, rest)
  BY <1>1, <1>5, ReasonHolds DEF Sat
<1> QED BY <1>3, <1>4, <1>5

\* analyze() replaces a literal by its reason, and stays above one of this level.
LEMMA ResolveInv == ASSUME IndInv, Resolve PROVE IndInv'
<1> DEFINE l == Latest(work)
           rest == AboveLevel0(ReasonOf(l) \ {-l})
<1>1. /\ pc = "analyze" /\ pc' = "analyze" /\ ~ AtUip
      /\ work' = (work \ {l}) \cup rest
      /\ merges' = Merged(Cardinality(rest \cap work))
      /\ UNCHANGED <<given, ok, weak, assigned, asked, answer, counters>>
      /\ \/ UNCHANGED <<clauses, learnts>>
         \/ /\ ReasonOf(l) \in learnts
            /\ clauses' = clauses \cup {ReasonOf(l)} /\ learnts' = learnts \ {ReasonOf(l)}
  BY DEF Resolve
<1>2. l \in work /\ ReasonOf(l) # NoReason /\ OnThisLevel(work \ {l}) # {}
  BY <1>1, LatestOnThisLevel, NotAtUip DEF OnThisLevel
<1>3. /\ rest \in Clause
      /\ \A m \in rest : False(m) /\ LevelOf(m) > 0
      /\ \A A \in SUBSET Vars : IsModel(A, given) /\ Holds(A, l) => Sat(A, rest)
  BY <1>1, <1>2, ReplaceByReason
<1> HIDE DEF rest, l
<1>4. Database' = Database BY <1>1 DEF Database
<1>5. work' \in Clause BY <1>1, <1>3 DEF IndInv, TypeOK, Clause
<1>6. clauses' \in Formula /\ learnts' \in Formula BY <1>1 DEF IndInv, TypeOK, Formula
<1>7. merges' \in 0 .. 2 /\ (merges' < 2 => merges < 2)
  <2>1. IsFiniteSet(rest \cap work)
    <3>1. rest \cap work \in Clause BY <1>3 DEF Clause
    <3> QED BY <3>1, LitsFinite
  <2>2. Cardinality(rest \cap work) \in Nat BY <2>1, FS_CardinalityType
  <2>3. merges \in 0 .. 2 BY DEF IndInv, TypeOK
  <2> QED BY <1>1, <2>2, <2>3 DEF Merged
<1>8. TypeOK'
  BY <1>1, <1>5, <1>6, <1>7 DEF IndInv, TypeOK, assigned, asked, answer, counters
<1>9. OnThisLevel(work') # {} BY <1>1, <1>2 DEF OnThisLevel
<1>10. \A m \in work' : False(m) /\ LevelOf(m) > 0 BY <1>1, <1>3 DEF IndInv, WorkInv
<1>11. Home' /\ RefiningInv' /\ WorkInv'
  BY <1>1, <1>7, <1>9, <1>10
     DEF IndInv, Home, RefiningInv, WorkInv, DecisionLevel, OnThisLevel, LevelOf, False, True,
         assigned, asked, answer, counters
<1>12. ASSUME NEW A \in SUBSET Vars, IsModel(A, given')
       PROVE  IsModel(A, given) /\ ok' /\ Sat(A, work')
  <2>1. IsModel(A, given) /\ ok /\ Sat(A, work) BY <1>1, <1>12, ModelFacts
  <2>2. Sat(A, work') BY <1>1, <1>3, <2>1 DEF Sat
  <2> QED BY <1>1, <2>1, <2>2
<1> QED BY <1>1, <1>4, <1>8, <1>11, <1>12, SameTrailInv

\* What is in a conflict that a literal is appended to.
LEMMA AppendRange ==
    ASSUME NEW s \in Seq(Lits), NEW l \in Lits
    PROVE  Append(s, l) \in Seq(Lits) /\ Range(Append(s, l)) = Range(s) \cup {l}
<1> DEFINE new == Append(s, l)
<1>1. /\ new \in Seq(Lits) /\ Len(s) \in Nat /\ DOMAIN s = 1 .. Len(s)
      /\ DOMAIN new = 1 .. Len(s) + 1
      /\ \A i \in 1 .. Len(s) : new[i] = s[i]
      /\ new[Len(s) + 1] = l
  OBVIOUS
<1> HIDE DEF new
<1>2. Range(new) \subseteq Range(s) \cup {l} BY <1>1 DEF Range
<1>3. Range(s) \cup {l} \subseteq Range(new) BY <1>1 DEF Range
<1> QED BY <1>1, <1>2, <1>3 DEF new

\* analyzeFinal() does the same, or moves a decision into the conflict.
LEMMA ExplainLatestInv == ASSUME IndInv, ExplainLatest PROVE IndInv'
<1> DEFINE l == Latest(work)
           rest == AboveLevel0(ReasonOf(l) \ {-l})
<1>1. /\ pc = "final" /\ work # {} /\ pc' = "final"
      /\ UNCHANGED <<base, assigned, asked, merges, model, status, counters>>
      /\ \/ /\ ReasonOf(l) = NoReason
            /\ conflict' = Append(conflict, l) /\ work' = work \ {l}
         \/ /\ ReasonOf(l) # NoReason
            /\ work' = (work \ {l}) \cup rest /\ conflict' = conflict
  BY DEF ExplainLatest
<1>2. l \in work
  <2>1. AssignmentInv /\ work \in SUBSET Lits /\ \A m \in work : False(m)
    BY <1>1 DEF IndInv, TypeOK, WorkInv, Clause
  <2> QED BY <1>1, <2>1, LatestFacts
<1>3. ReasonOf(l) # NoReason =>
         /\ rest \in Clause
         /\ \A m \in rest : False(m) /\ LevelOf(m) > 0
         /\ \A A \in SUBSET Vars : IsModel(A, given) /\ Holds(A, l) => Sat(A, rest)
  BY <1>1, <1>2, ReplaceByReason
<1> HIDE DEF rest, l
<1>4. Database' = Database BY <1>1 DEF Database, base
<1>5. work' \in Clause BY <1>1, <1>3 DEF IndInv, TypeOK, Clause
<1>6. /\ conflict \in Seq(Lits) /\ l \in Lits /\ conflict' \in Seq(Lits)
      /\ ReasonOf(l) = NoReason => Range(conflict') = Range(conflict) \cup {l}
  <2>1. conflict \in Seq(Lits) /\ l \in Lits BY <1>2 DEF IndInv, TypeOK, Clause
  <2>2. CASE ReasonOf(l) = NoReason BY <1>1, <2>1, <2>2, AppendRange
  <2>3. CASE ReasonOf(l) # NoReason BY <1>1, <2>1, <2>3
  <2> QED BY <2>2, <2>3
<1>7. TypeOK'
  BY <1>1, <1>5, <1>6 DEF IndInv, TypeOK, base, assigned, asked, counters
<1>8. \A m \in work' : False(m) /\ LevelOf(m) > 0 BY <1>1, <1>3 DEF IndInv, WorkInv
<1>9. Home' /\ RefiningInv' /\ WorkInv'
  BY <1>1, <1>8
     DEF IndInv, Home, RefiningInv, WorkInv, DecisionLevel, LevelOf, False, True,
         assigned, asked
<1>10. ASSUME NEW A \in SUBSET Vars, IsModel(A, given')
       PROVE  IsModel(A, given) /\ ok' /\ Sat(A, work' \cup Range(conflict'))
  <2>1. IsModel(A, given) /\ ok /\ Sat(A, work \cup Range(conflict))
    BY <1>1, <1>10, ModelFacts DEF base
  <2>2. Sat(A, work' \cup Range(conflict')) BY <1>1, <1>3, <1>6, <2>1 DEF Sat
  <2> QED BY <1>1, <2>1, <2>2 DEF base
<1> QED BY <1>1, <1>4, <1>7, <1>9, <1>10, SameTrailInv

\* analyzeFinal() starts from an assumption and its complement.
LEMMA AssumptionFailsInv == ASSUME IndInv, AssumptionFails PROVE IndInv'
<1> USE DEF AssumptionFails, base, asked, counters
<1>1. Database' = Database BY DEF Database
<1>2. PICK p \in Prefetched : False(p) /\ conflict' = <<-p>> /\ work' = AboveLevel0({p}) OBVIOUS
<1>3. p \in Lits
  <2>1. assumptions \in Seq(Lits) /\ DecisionLevel \in Nat BY TrailFacts DEF IndInv, TypeOK
  <2>2. DecisionLevel + 1 \in 1 .. Len(assumptions) BY <2>1
  <2>3. \A i \in DecisionLevel + 2 .. Len(assumptions) : i \in 1 .. Len(assumptions) BY <2>1
  <2>4. \A i \in 1 .. Len(assumptions) : assumptions[i] \in Lits BY <2>1
  <2> QED BY <2>2, <2>3, <2>4 DEF Prefetched, NextAssumption
<1>4. -p \in Lits BY <1>3, LitFacts
<1>5. /\ work' \in Clause /\ \A l \in work' : False(l) /\ LevelOf(l) > 0
      /\ conflict' \in Seq(Lits) /\ Range(conflict') = {-p}
  BY <1>2, <1>3, <1>4 DEF AboveLevel0, Clause, Range
<1>6. TypeOK' BY <1>5 DEF IndInv, TypeOK, assigned
<1>7. Home' /\ RefiningInv' /\ WorkInv'
  BY <1>5 DEF IndInv, Home, RefiningInv, WorkInv, DecisionLevel, LevelOf, False, True, assigned
<1>8. ASSUME NEW A \in SUBSET Vars, IsModel(A, given')
      PROVE  IsModel(A, given) /\ ok' /\ Sat(A, work' \cup Range(conflict'))
  <2>1. IsModel(A, given) /\ ok BY <1>8, ModelFacts
  <2>2. AssignmentInv /\ Implied /\ LevelOf(p) \in Nat BY <1>3, TrailFacts DEF IndInv
  <2>3. CASE LevelOf(p) = 0
    <3>1. ~ Holds(A, p) BY <1>2, <1>3, <2>1, <2>2, <2>3, Level0False
    <3>2. Holds(A, -p) BY <1>3, <3>1, HoldsNegated
    <3> QED BY <1>5, <2>1, <3>2 DEF Sat
  <2>4. CASE LevelOf(p) # 0
    <3>1. p \in work' BY <1>2, <2>2, <2>4 DEF AboveLevel0
    <3>2. Holds(A, p) \/ Holds(A, -p) BY <1>3, HoldsNegated
    <3> QED BY <1>5, <2>1, <3>1, <3>2 DEF Sat
  <2> QED BY <2>3, <2>4
<1>9. pc' = "final" OBVIOUS
<1> QED BY <1>1, <1>6, <1>7, <1>8, <1>9, SameTrailInv

\* A literal that comes on the trail.
LEMMA EnqueueKeeps ==
    ASSUME IndInv, NEW l \in Lits, NEW why \in Clause, Enqueue(l, why),
           ~ True(l), ~ False(l),
           IF why = NoReason THEN DecisionLevel = 0
           ELSE why \in Database /\ l \in why /\ \A m \in why \ {l} : False(m),
           Database' = Database
    PROVE  /\ AssignmentInv' /\ DecisionLevel' = DecisionLevel /\ ReasonsKept' /\ NoUnits'
           /\ \A C \in Database : Falsified(C)' => DecisionLevel = 0 \/ OnThisLevel(C)' # {}
           /\ \A A \in SUBSET Vars : Level0Holds(A) /\ (DecisionLevel = 0 => Holds(A, l))
                                     => Level0Holds(A)'
<1>1. AssignmentInv BY DEF IndInv
<1>2. /\ AssignmentInv'
      /\ DecisionLevel' = DecisionLevel
      /\ Len(trail) \in Nat /\ DOMAIN trail = 1 .. Len(trail)
      /\ DOMAIN trail' = 1 .. Len(trail) + 1
      /\ \A i \in DOMAIN trail : /\ trail'[i] = trail[i]
                                 /\ level'[VarOf(trail[i])] = LevelOf(trail[i])
                                 /\ reason'[VarOf(trail[i])] = ReasonOf(trail[i])
      /\ trail'[Len(trail) + 1] = l
      /\ level'[VarOf(l)] = DecisionLevel
      /\ reason'[VarOf(l)] = why
  BY <1>1, EnqueueInv
<1>3. ASSUME NEW i \in DOMAIN trail'
      PROVE  \/ /\ i \in DOMAIN trail /\ trail'[i] = trail[i]
                /\ level'[VarOf(trail'[i])] = LevelOf(trail[i])
                /\ reason'[VarOf(trail'[i])] = ReasonOf(trail[i])
             \/ /\ trail'[i] = l /\ level'[VarOf(trail'[i])] = DecisionLevel
                /\ reason'[VarOf(trail'[i])] = why
  <2>1. i \in DOMAIN trail \/ i = Len(trail) + 1 BY <1>2
  <2> QED BY <1>2, <2>1
<1>4. ReasonsKept'
  <2> SUFFICES ASSUME NEW i \in DOMAIN trail', reason'[VarOf(trail'[i])] # NoReason
               PROVE  LET R == reason'[VarOf(trail'[i])]
                      IN  \/ R \in Database
                          \/ Cardinality(R) = 2 /\ level'[VarOf(trail'[i])] = 0
    BY DEF ReasonsKept, ReasonOf, LevelOf
  <2>1. CASE i \in DOMAIN trail /\ trail'[i] = trail[i]
             /\ level'[VarOf(trail'[i])] = LevelOf(trail[i])
             /\ reason'[VarOf(trail'[i])] = ReasonOf(trail[i])
    BY <2>1 DEF IndInv, ReasonsKept
  <2>2. CASE reason'[VarOf(trail'[i])] = why BY <2>2
  <2> QED BY <1>3, <2>1, <2>2
<1>5. ASSUME NEW C \in Database, Falsified(C)', DecisionLevel # 0
      PROVE  OnThisLevel(C)' # {}
  <2>1. C \in SUBSET Lits BY DEF Database, IndInv, TypeOK, Formula, Clause
  <2>2. ASSUME NEW m \in C
        PROVE  \/ False(m) /\ level'[VarOf(m)] = LevelOf(m)
               \/ level'[VarOf(m)] = DecisionLevel
    <3>1. PICK i \in DOMAIN trail' : trail'[i] = -m BY <1>5 DEF Falsified, False, True
    <3>2. m \in Lits /\ VarOf(-m) = VarOf(m) BY <2>1, LitFacts
    <3>3. CASE trail'[i] = l /\ level'[VarOf(trail'[i])] = DecisionLevel
      BY <3>1, <3>2, <3>3
    <3>4. CASE /\ i \in DOMAIN trail /\ trail'[i] = trail[i]
               /\ level'[VarOf(trail'[i])] = LevelOf(trail[i])
      BY <3>1, <3>2, <3>4 DEF False, True, LevelOf
    <3> QED BY <1>3, <3>3, <3>4
  <2>3. CASE \E m \in C : level'[VarOf(m)] = DecisionLevel
    BY <1>2, <2>3 DEF OnThisLevel, LevelOf
  <2>4. CASE \A m \in C : level'[VarOf(m)] # DecisionLevel
    <3>1. Falsified(C) BY <2>2, <2>4 DEF Falsified
    <3>2. PICK m \in C : LevelOf(m) = DecisionLevel
      BY <1>5, <3>1 DEF IndInv, NothingMissed, OnThisLevel
    <3> QED BY <2>2, <2>4, <3>2
  <2> QED BY <2>3, <2>4
<1>6. ASSUME NEW A \in SUBSET Vars, Level0Holds(A), DecisionLevel = 0 => Holds(A, l)
      PROVE  Level0Holds(A)'
  <2> SUFFICES ASSUME NEW i \in DOMAIN trail', level'[VarOf(trail'[i])] = 0
               PROVE  Holds(A, trail'[i])
    BY DEF Level0Holds, LevelOf
  <2> QED BY <1>3, <1>6 DEF Level0Holds
<1>7. NoUnits' BY DEF IndInv, NoUnits
<1> QED BY <1>2, <1>4, <1>5, <1>6, <1>7

\* propagate() puts a unit on the trail, which follows if it is on level 0.
LEMMA PropagateInv == ASSUME IndInv, Propagate PROVE IndInv'
<1>0. PICK C \in Database : \E l \in C : UnitUnder(C, l) /\ Implies(C, l) BY DEF Propagate
<1>1. PICK l \in C : UnitUnder(C, l) /\ Implies(C, l) BY <1>0
<1> USE DEF Implies, base, asked, answer, counters
<1>2. /\ C \in Clause /\ l \in Lits /\ C # NoReason /\ pc \in {"adding", "propagate"}
      /\ ~ True(l) /\ ~ False(l) /\ \A m \in C \ {l} : False(m)
  BY <1>1 DEF Database, IndInv, TypeOK, Formula, Clause, UnitUnder, Unassigned, Falsified,
              NoReason, Propagate
<1>3. Database' = Database BY <1>1 DEF Database
<1>4. /\ AssignmentInv' /\ DecisionLevel' = DecisionLevel /\ ReasonsKept' /\ NoUnits'
      /\ \A D \in Database : Falsified(D)' => DecisionLevel = 0 \/ OnThisLevel(D)' # {}
      /\ \A A \in SUBSET Vars : Level0Holds(A) /\ (DecisionLevel = 0 => Holds(A, l))
                                => Level0Holds(A)'
  BY <1>1, <1>2, <1>3, EnqueueKeeps
<1>5. AssignmentOK' BY <1>4 DEF AssignmentInv
<1>6. TypeOK' BY <1>1, <1>5 DEF IndInv, TypeOK, AssignmentOK
<1>7. Home' /\ NothingMissed' /\ WorkInv' /\ RefiningInv'
  BY <1>1, <1>2, <1>3, <1>4 DEF IndInv, Home, NothingMissed, WorkInv, RefiningInv
<1>8. Implied'
  <2> SUFFICES ASSUME NEW A \in SUBSET Vars, IsModel(A, given)
               PROVE  ok /\ IsModel(A, Database) /\ Level0Holds(A)'
    BY <1>1, <1>2, <1>3 DEF Implied, Level0Holds
  <2>1. ok /\ IsModel(A, Database) /\ Level0Holds(A) BY ModelFacts
  <2>2. ASSUME DecisionLevel = 0 PROVE Holds(A, l)
    <3>1. PICK m \in C : Holds(A, m) BY <2>1 DEF IsModel, Sat
    <3> SUFFICES ASSUME m # l PROVE FALSE BY <3>1
    <3>2. m \in Lits /\ False(m) BY <1>2, <3>1 DEF Clause
    <3>3. AssignmentInv /\ Implied BY DEF IndInv
    <3>4. LevelOf(m) = 0 BY <2>2, <3>2, <3>3, FalseFacts
    <3> QED BY <3>1, <3>2, <3>3, <3>4, Level0False
  <2> QED BY <1>4, <2>1, <2>2
<1> QED BY <1>4, <1>6, <1>7, <1>8 DEF IndInv

\* What addClause_ leaves of a clause on level 0 still follows.
LEMMA ReducedHolds ==
    ASSUME IndInv, DecisionLevel = 0, NEW C \in Clause,
           NEW A \in SUBSET Vars, IsModel(A, given), Sat(A, C)
    PROVE  Sat(A, Reduced(C))
<1>1. PICK l \in C : Holds(A, l) BY DEF Sat
<1>2. l \in Lits /\ AssignmentInv /\ Implied BY DEF Clause, IndInv
<1>3. ~ False(l)
  <2> SUFFICES ASSUME False(l) PROVE FALSE OBVIOUS
  <2>1. LevelOf(l) = 0 BY <1>2, FalseFacts
  <2> QED BY <1>1, <1>2, <2>1, Level0False
<1> QED BY <1>1, <1>3 DEF Reduced, Sat

\* addClause_ keeps what is left of a clause, a unit on the trail.
LEMMA AddClauseInv == ASSUME IndInv, NEW C \in Input, AddClause(C) PROVE IndInv'
<1> DEFINE R == Reduced(C)
<1>1. /\ pc = "idle" /\ given' = given \cup {C}
      /\ UNCHANGED <<learnts, weak, asked, work, merges, answer, counters>>
  BY DEF AddClause
<1>2. C \in Clause /\ R \in Clause BY InputAssumption DEF Reduced, Clause
<1>3. given' \in Formula BY <1>1, <1>2 DEF IndInv, TypeOK, Formula
<1>4. DecisionLevel = 0 /\ ~ refining BY <1>1 DEF IndInv, Home
<1>5. ASSUME NEW A \in SUBSET Vars, IsModel(A, given')
      PROVE  /\ IsModel(A, given) /\ ok /\ IsModel(A, Database) /\ Level0Holds(A)
             /\ Sat(A, R)
  <2>1. IsModel(A, given) /\ Sat(A, C) BY <1>1, <1>5 DEF IsModel
  <2> QED BY <1>2, <1>4, <2>1, ModelFacts, ReducedHolds
<1> HIDE DEF R
<1>6. CASE (~ ok \/ Satisfied(C) \/ Tautology(C)) /\ UNCHANGED <<pc, ok, clauses, assigned>>
  <2>1. Database' = Database BY <1>1, <1>6 DEF Database
  <2>2. TypeOK' BY <1>1, <1>3, <1>6 DEF IndInv, TypeOK, assigned, asked, answer, counters
  <2>3. Home' /\ RefiningInv' /\ WorkInv'
    BY <1>1, <1>6 DEF IndInv, Home, RefiningInv, WorkInv, DecisionLevel, assigned, asked, answer
  <2> QED BY <1>1, <1>5, <1>6, <2>1, <2>2, <2>3, SameTrailInv
<1>7. CASE R = {} /\ ok' = FALSE /\ UNCHANGED <<pc, clauses, assigned>>
  <2>1. Database' = Database BY <1>1, <1>7 DEF Database
  <2>2. TypeOK' BY <1>1, <1>3, <1>7 DEF IndInv, TypeOK, assigned, asked, answer, counters
  <2>3. Home' /\ RefiningInv' /\ WorkInv'
    BY <1>1, <1>7 DEF IndInv, Home, RefiningInv, WorkInv, DecisionLevel, assigned, asked, answer
  <2>4. ASSUME NEW A \in SUBSET Vars, IsModel(A, given') PROVE FALSE
    BY <1>5, <1>7, <2>4 DEF Sat
  <2> QED BY <1>1, <1>7, <2>1, <2>2, <2>3, <2>4, SameTrailInv
<1>8. CASE /\ ~ Satisfied(C)
           /\ \E l \in R : R = {l} /\ Enqueue(l, NoReason)
           /\ pc' = "adding" /\ UNCHANGED <<ok, clauses>>
  <2>1. PICK l \in R : R = {l} /\ Enqueue(l, NoReason) BY <1>8
  <2>2. l \in Lits /\ l \in C /\ ~ False(l) BY <1>2, <2>1 DEF Clause, R, Reduced
  <2>3. ~ True(l) BY <1>8, <2>2 DEF Satisfied
  <2>4. Database' = Database BY <1>1, <1>8 DEF Database
  <2>5. NoReason \in Clause BY DEF NoReason, Clause
  <2>6. /\ AssignmentInv' /\ DecisionLevel' = DecisionLevel /\ ReasonsKept' /\ NoUnits'
        /\ \A A \in SUBSET Vars : Level0Holds(A) /\ (DecisionLevel = 0 => Holds(A, l))
                                  => Level0Holds(A)'
    BY <1>4, <2>1, <2>2, <2>3, <2>4, <2>5, EnqueueKeeps
  <2>7. AssignmentOK' BY <2>6 DEF AssignmentInv
  <2>8. TypeOK'
    BY <1>1, <1>3, <1>8, <2>7 DEF IndInv, TypeOK, AssignmentOK, asked, answer, counters
  <2>9. Home' /\ NothingMissed' /\ WorkInv' /\ RefiningInv'
    BY <1>1, <1>4, <1>8, <2>6 DEF IndInv, Home, NothingMissed, WorkInv, RefiningInv, asked
  <2>10. Implied'
    <3> SUFFICES ASSUME NEW A \in SUBSET Vars, IsModel(A, given')
                 PROVE  ok /\ IsModel(A, Database) /\ Level0Holds(A)'
      BY <1>8, <2>4 DEF Implied, Level0Holds
    <3>1. Holds(A, l) BY <1>5, <2>1 DEF Sat
    <3> QED BY <1>5, <2>6, <3>1
  <2> QED BY <2>6, <2>8, <2>9, <2>10 DEF IndInv
<1>9. CASE /\ Cardinality(R) > 1 /\ clauses' = clauses \cup {R}
           /\ UNCHANGED <<pc, ok, assigned>>
  <2>1. Database' = Database \cup {R} BY <1>1, <1>9 DEF Database
  <2>2. clauses' \in Formula BY <1>2, <1>9 DEF IndInv, TypeOK, Formula
  <2>3. TypeOK'
    BY <1>1, <1>3, <1>9, <2>2 DEF IndInv, TypeOK, assigned, asked, answer, counters
  <2>4. AssignmentInv'
    BY <1>9 DEF IndInv, AssignmentInv, AssignmentOK, OnceOnTrail, LimitsInOrder, LevelsMatch,
                NothingElse, ReasonsBefore, LevelOf, ReasonOf, DecisionLevel, assigned
  <2>5. NoUnits' BY <1>9, <2>1 DEF IndInv, NoUnits
  <2>6. ReasonsKept' BY <1>9, <2>1 DEF IndInv, ReasonsKept, ReasonOf, LevelOf, assigned
  <2>7. Home' /\ NothingMissed' /\ WorkInv' /\ RefiningInv'
    BY <1>1, <1>4, <1>9
       DEF IndInv, Home, NothingMissed, WorkInv, RefiningInv, DecisionLevel, assigned, asked
  <2>8. Implied'
    <3> SUFFICES ASSUME NEW A \in SUBSET Vars, IsModel(A, given')
                 PROVE  ok /\ IsModel(A, Database \cup {R}) /\ Level0Holds(A)
      BY <1>1, <1>9, <2>1 DEF Implied, Level0Holds, LevelOf, assigned
    <3> QED BY <1>5 DEF IsModel
  <2> QED BY <2>3, <2>4, <2>5, <2>6, <2>7, <2>8 DEF IndInv
<1> QED BY <1>6, <1>7, <1>8, <1>9 DEF AddClause, R

\* A restart goes back to any level.
LEMMA RestartInv == ASSUME IndInv, Restart PROVE IndInv'
<1> USE DEF Restart, base, asked, answer
<1>1. PICK to \in 0 .. DecisionLevel : BackTo(to, << >>, NoReason) OBVIOUS
<1>2. Database' = Database BY DEF Database
<1>3. /\ AssignmentInv' /\ DecisionLevel' = to
      /\ \A C \in Database : Falsified(C)' => Falsified(C)
      /\ ReasonsKept'
      /\ \A A \in SUBSET Vars : Level0Holds(A) => Level0Holds(A)'
  BY <1>1, <1>2, GoBackKeeps
<1>4. AssignmentOK' BY <1>3 DEF AssignmentInv
<1>5. restarts' \in 0 .. MaxRestarts
  <2>1. MaxRestarts \in Nat /\ restarts \in 0 .. MaxRestarts BY BoundsAssumption DEF IndInv, TypeOK
  <2> QED BY <2>1
<1>6. TypeOK' BY <1>4, <1>5 DEF IndInv, TypeOK, AssignmentOK
<1>7. \A C \in Database : ~ Falsified(C)' BY <1>3 DEF IndInv, NothingMissed
<1>8. Home' /\ NothingMissed' /\ WorkInv' /\ RefiningInv' /\ NoUnits'
  BY <1>2, <1>7 DEF IndInv, Home, NothingMissed, WorkInv, RefiningInv, NoUnits
<1>9. Implied'
  <2> SUFFICES ASSUME NEW A \in SUBSET Vars, IsModel(A, given)
               PROVE  ok /\ IsModel(A, Database) /\ Level0Holds(A)'
    BY <1>2 DEF Implied, Level0Holds
  <2> QED BY <1>3, ModelFacts
<1> QED BY <1>3, <1>6, <1>8, <1>9 DEF IndInv

\* A reason that is not locked has two literals.
LEMMA UnlockedReason ==
    ASSUME IndInv, NEW i \in DOMAIN trail, ReasonOf(trail[i]) # NoReason,
           ReasonOf(trail[i]) \in Database, ~ Locked(ReasonOf(trail[i]))
    PROVE  Cardinality(ReasonOf(trail[i])) = 2
<1> DEFINE R == ReasonOf(trail[i])
<1>1. trail[i] \in R BY DEF IndInv, AssignmentInv, ReasonsBefore
<1>2. True(trail[i]) BY DEF True
<1>3. ~ Cardinality(R) > 2 BY <1>1, <1>2 DEF Locked
<1>4. Cardinality(R) > 1 BY DEF IndInv, NoUnits
<1>5. R \in Clause BY TrailFacts DEF IndInv
<1>6. Cardinality(R) \in Nat BY <1>5, LitsFinite, FS_CardinalityType
<1> QED BY <1>3, <1>4, <1>6

\* initSolve removes no reason, as those of binary clauses are not needed.
LEMMA StartSearchInv == ASSUME IndInv, StartSearch PROVE IndInv'
<1> USE DEF StartSearch, asked, answer
<1>1. PICK gone \in SUBSET {C \in learnts : ~ Locked(C)} :
         /\ removals' = IF gone = {} THEN removals ELSE removals + 1
         /\ learnts' = learnts \ gone
  OBVIOUS
<1>2. Database' \subseteq Database /\ Database \subseteq Database' \cup gone
  BY <1>1 DEF Database
<1>3. learnts' \in Formula BY <1>1 DEF IndInv, TypeOK, Formula
<1>4. removals' \in 0 .. MaxRemovals
  <2>1. MaxRemovals \in Nat /\ removals \in 0 .. MaxRemovals BY BoundsAssumption DEF IndInv, TypeOK
  <2> QED BY <1>1, <2>1
<1>5. TypeOK' BY <1>3, <1>4 DEF IndInv, TypeOK, assigned
<1>6. AssignmentInv' /\ DecisionLevel' = 0
  BY DEF IndInv, Home, AssignmentInv, AssignmentOK, OnceOnTrail, LimitsInOrder, LevelsMatch,
         NothingElse, ReasonsBefore, LevelOf, ReasonOf, DecisionLevel, assigned
<1>7. Home' /\ NothingMissed' /\ WorkInv' /\ RefiningInv' /\ NoUnits'
  BY <1>2, <1>6 DEF IndInv, Home, NothingMissed, WorkInv, RefiningInv, NoUnits
<1>8. ReasonsKept'
  <2> SUFFICES ASSUME NEW i \in DOMAIN trail, ReasonOf(trail[i]) # NoReason
               PROVE  \/ ReasonOf(trail[i]) \in Database'
                      \/ Cardinality(ReasonOf(trail[i])) = 2 /\ LevelOf(trail[i]) = 0
    BY DEF ReasonsKept, ReasonOf, LevelOf, assigned
  <2>1. LevelOf(trail[i]) = 0
    <3>1. DecisionLevel = 0 /\ LevelOf(trail[i]) \in 0 .. DecisionLevel
      BY TrailFacts DEF IndInv, Home
    <3> QED BY <3>1
  <2> DEFINE R == ReasonOf(trail[i])
  <2>2. R \in Database \/ Cardinality(R) = 2 BY DEF IndInv, ReasonsKept
  <2>3. CASE R \in gone /\ R \in Database BY <2>1, <2>3, UnlockedReason
  <2>4. CASE R \notin gone /\ R \in Database BY <1>2, <2>4
  <2> QED BY <2>1, <2>2, <2>3, <2>4
<1>9. Implied'
  <2> SUFFICES ASSUME NEW A \in SUBSET Vars, IsModel(A, given)
               PROVE  ok /\ IsModel(A, Database') /\ Level0Holds(A)
    BY DEF Implied, Level0Holds, LevelOf, assigned
  <2>1. ok /\ IsModel(A, Database) /\ Level0Holds(A) BY ModelFacts
  <2> QED BY <1>2, <2>1 DEF IsModel
<1> QED BY <1>5, <1>6, <1>7, <1>8, <1>9 DEF IndInv

\* simplify() and reduceDB() remove no reason that is needed.
LEMMA TidyInv == ASSUME IndInv, Tidy PROVE IndInv'
<1> DEFINE Offs == {{}} \cup (IF DecisionLevel = 0
                              THEN {{C \in learnts : Satisfied(C)},
                                    {C \in Database : Satisfied(C)}}
                              ELSE {})
<1>1. /\ pc = "quiet" /\ pc' = "decide" /\ removals' <= MaxRemovals
      /\ UNCHANGED <<given, ok, weak, trail, trail_lim, level, asked, work, merges, answer,
                     solves, restarts, biasserting>>
      /\ \E off \in Offs : \E gone \in SUBSET (Removable \ off) :
          /\ removals' = IF off \cup gone = {} THEN removals ELSE removals + 1
          /\ clauses' = clauses \ off
          /\ learnts' = learnts \ (off \cup gone)
          /\ reason' = [v \in Vars |-> IF reason[v] \in off /\ Locked(reason[v]) THEN NoReason
                                         ELSE reason[v]]
  BY DEF Tidy
<1>2. PICK off \in Offs : \E gone \in SUBSET (Removable \ off) :
          /\ removals' = IF off \cup gone = {} THEN removals ELSE removals + 1
          /\ clauses' = clauses \ off
          /\ learnts' = learnts \ (off \cup gone)
          /\ reason' = [v \in Vars |-> IF reason[v] \in off /\ Locked(reason[v]) THEN NoReason
                                         ELSE reason[v]]
  BY <1>1
<1>3. PICK gone \in SUBSET (Removable \ off) :
          /\ removals' = IF off \cup gone = {} THEN removals ELSE removals + 1
          /\ clauses' = clauses \ off
          /\ learnts' = learnts \ (off \cup gone)
          /\ reason' = [v \in Vars |-> IF reason[v] \in off /\ Locked(reason[v]) THEN NoReason
                                         ELSE reason[v]]
  BY <1>2
<1>4. off = {} \/ DecisionLevel = 0 BY <1>2
<1> HIDE DEF Offs
<1>5. /\ Database' \subseteq Database /\ Database \subseteq Database' \cup off \cup gone
      /\ \A C \in gone : Cardinality(C) > 2 /\ ~ Locked(C)
  BY <1>3 DEF Database, Removable
<1>6. clauses' \in Formula /\ learnts' \in Formula BY <1>3 DEF IndInv, TypeOK, Formula
<1>7. removals' \in 0 .. MaxRemovals
  <2>1. MaxRemovals \in Nat /\ removals \in 0 .. MaxRemovals BY BoundsAssumption DEF IndInv, TypeOK
  <2> QED BY <1>1, <1>3, <2>1
<1>8. /\ reason' \in [Vars -> Clause]
      /\ \A v \in Vars : \/ reason'[v] = reason[v] /\ ~ (reason[v] \in off /\ Locked(reason[v]))
                         \/ reason'[v] = NoReason /\ off # {} /\ reason[v] \in off
  <2>1. reason \in [Vars -> Clause] /\ NoReason \in Clause
    BY DEF IndInv, TypeOK, NoReason, Clause
  <2> QED BY <1>3, <2>1
<1>9. TypeOK' BY <1>1, <1>6, <1>7, <1>8 DEF IndInv, TypeOK, asked, answer
<1>10. DecisionLevel' = DecisionLevel BY <1>1 DEF DecisionLevel
<1>11. /\ AssignmentInv /\ Len(trail) \in Nat /\ DOMAIN trail = 1 .. Len(trail)
       /\ \A i \in DOMAIN trail : /\ trail[i] \in Lits /\ VarOf(trail[i]) \in Vars
                                  /\ LevelOf(trail[i]) \in 0 .. DecisionLevel
  BY TrailFacts, LitFacts DEF IndInv
<1>12. AssignmentInv'
  <2>1. AssignmentOK' /\ OnceOnTrail' /\ LimitsInOrder'
    BY <1>1, <1>8, <1>11 DEF AssignmentInv, AssignmentOK, OnceOnTrail, LimitsInOrder
  <2>2. NothingElse' BY <1>1, <1>8, <1>11 DEF AssignmentInv, NothingElse
  <2>3. LevelsMatch'
    <3> SUFFICES ASSUME NEW i \in DOMAIN trail
                 PROVE  LET k == LevelOf(trail[i])
                        IN  /\ k <= DecisionLevel
                            /\ k > 0 => trail_lim[k] < i
                            /\ k < DecisionLevel => i <= trail_lim[k + 1]
                            /\ k > 0 /\ reason'[VarOf(trail[i])] = NoReason
                               => i = trail_lim[k] + 1
      BY <1>1, <1>10 DEF LevelsMatch, LevelOf, ReasonOf
    <3>1. CASE reason'[VarOf(trail[i])] = ReasonOf(trail[i])
      BY <1>11, <3>1 DEF AssignmentInv, LevelsMatch
    <3>2. CASE off # {}
      <4>1. LevelOf(trail[i]) = 0 BY <1>4, <1>11, <3>2
      <4> QED BY <1>11, <4>1 DEF AssignmentInv, LevelsMatch
    <3> QED BY <1>8, <1>11, <3>1, <3>2 DEF ReasonOf
  <2>4. ReasonsBefore'
    <3> SUFFICES ASSUME NEW i \in DOMAIN trail, reason'[VarOf(trail[i])] # NoReason
                 PROVE  LET R == reason'[VarOf(trail[i])]
                        IN  /\ trail[i] \in R
                            /\ \A l \in R \ {trail[i]} : \E j \in 1 .. i - 1 : trail[j] = -l
      BY <1>1 DEF ReasonsBefore, ReasonOf
    <3>1. reason'[VarOf(trail[i])] = ReasonOf(trail[i]) BY <1>8, <1>11 DEF ReasonOf
    <3> QED BY <1>11, <3>1 DEF AssignmentInv, ReasonsBefore
  <2> QED BY <2>1, <2>2, <2>3, <2>4 DEF AssignmentInv
<1>13. \A C \in Database : ~ Falsified(C)' 
  BY <1>1 DEF IndInv, NothingMissed, Falsified, False, True
<1>14. Home' /\ NothingMissed' /\ WorkInv' /\ RefiningInv' /\ NoUnits'
  BY <1>1, <1>5, <1>13 DEF IndInv, Home, NothingMissed, WorkInv, RefiningInv, NoUnits, asked, answer
<1>15. ReasonsKept'
  <2> SUFFICES ASSUME NEW i \in DOMAIN trail, reason'[VarOf(trail[i])] # NoReason
               PROVE  \/ reason'[VarOf(trail[i])] \in Database'
                      \/ Cardinality(reason'[VarOf(trail[i])]) = 2 /\ LevelOf(trail[i]) = 0
    BY <1>1 DEF ReasonsKept, ReasonOf, LevelOf
  <2> DEFINE R == ReasonOf(trail[i])
  <2>1. reason'[VarOf(trail[i])] = R /\ ~ (R \in off /\ Locked(R))
    BY <1>8, <1>11 DEF ReasonOf
  <2>2. R # NoReason BY <2>1
  <2> HIDE DEF R
  <2>3. R \in Database \/ (Cardinality(R) = 2 /\ LevelOf(trail[i]) = 0)
    BY <2>2 DEF IndInv, ReasonsKept, R
  <2>4. R \in Database /\ ~ Locked(R) => Cardinality(R) = 2 BY <2>2, UnlockedReason DEF R
  <2>5. CASE R \in Database /\ R \in off
    <3>1. LevelOf(trail[i]) = 0 BY <1>4, <1>11, <2>5
    <3> QED BY <2>1, <2>4, <2>5, <3>1
  <2>6. CASE R \in Database /\ R \in gone
    <3>1. Cardinality(R) = 2 BY <1>5, <2>4, <2>6
    <3> QED BY <1>5, <2>6, <3>1
  <2>7. CASE R \in Database /\ R \notin off /\ R \notin gone BY <1>5, <2>1, <2>7
  <2> QED BY <2>1, <2>3, <2>5, <2>6, <2>7
<1>16. Implied'
  <2> SUFFICES ASSUME NEW A \in SUBSET Vars, IsModel(A, given)
               PROVE  ok /\ IsModel(A, Database') /\ Level0Holds(A)
    BY <1>1 DEF Implied, Level0Holds, LevelOf
  <2>1. ok /\ IsModel(A, Database) /\ Level0Holds(A) BY ModelFacts
  <2> QED BY <1>5, <2>1 DEF IsModel
<1> QED BY <1>9, <1>12, <1>14, <1>15, <1>16 DEF IndInv

-----------------------------------------------------------------------------
(* Decisions *)

\* A decision falsifies only clauses with a literal on the new level.
LEMMA DecisionKeeps ==
    ASSUME IndInv, NEW l \in Lits, EnqueueDecision(l), ~ True(l), ~ False(l),
           Database' = Database
    PROVE  /\ AssignmentInv' /\ DecisionLevel' = DecisionLevel + 1 /\ DecisionLevel \in Nat
           /\ ReasonsKept' /\ NoUnits'
           /\ \A C \in Database : Falsified(C)' => Falsified(C) \/ OnThisLevel(C)' # {}
           /\ \A A \in SUBSET Vars : Level0Holds(A) => Level0Holds(A)'
<1>1. AssignmentInv BY DEF IndInv
<1>2. /\ AssignmentInv'
      /\ DecisionLevel \in Nat /\ DecisionLevel' = DecisionLevel + 1
      /\ Len(trail) \in Nat /\ DOMAIN trail = 1 .. Len(trail)
      /\ DOMAIN trail' = 1 .. Len(trail) + 1
      /\ \A i \in DOMAIN trail : /\ trail'[i] = trail[i]
                                 /\ level'[VarOf(trail[i])] = LevelOf(trail[i])
                                 /\ reason'[VarOf(trail[i])] = ReasonOf(trail[i])
      /\ trail'[Len(trail) + 1] = l
      /\ level'[VarOf(l)] = DecisionLevel + 1
      /\ reason'[VarOf(l)] = NoReason
  BY <1>1, DecisionInv
<1>3. ASSUME NEW i \in DOMAIN trail'
      PROVE  \/ /\ i \in DOMAIN trail /\ trail'[i] = trail[i]
                /\ level'[VarOf(trail'[i])] = LevelOf(trail[i])
                /\ reason'[VarOf(trail'[i])] = ReasonOf(trail[i])
             \/ /\ trail'[i] = l /\ level'[VarOf(trail'[i])] = DecisionLevel + 1
                /\ reason'[VarOf(trail'[i])] = NoReason
  <2>1. i \in DOMAIN trail \/ i = Len(trail) + 1 BY <1>2
  <2> QED BY <1>2, <2>1
<1>4. ReasonsKept'
  <2> SUFFICES ASSUME NEW i \in DOMAIN trail', reason'[VarOf(trail'[i])] # NoReason
               PROVE  LET R == reason'[VarOf(trail'[i])]
                      IN  \/ R \in Database
                          \/ Cardinality(R) = 2 /\ level'[VarOf(trail'[i])] = 0
    BY DEF ReasonsKept, ReasonOf, LevelOf
  <2> QED BY <1>3 DEF IndInv, ReasonsKept
<1>5. ASSUME NEW C \in Database, Falsified(C)', ~ Falsified(C)
      PROVE  OnThisLevel(C)' # {}
  <2>1. PICK m \in C : ~ False(m) BY <1>5 DEF Falsified
  <2>2. m \in Lits BY DEF Database, IndInv, TypeOK, Formula, Clause
  <2>3. PICK i \in DOMAIN trail' : trail'[i] = -m BY <1>5 DEF Falsified, False, True
  <2>4. ~ (i \in DOMAIN trail /\ trail'[i] = trail[i]) BY <2>1, <2>3 DEF False, True
  <2>5. level'[VarOf(-m)] = DecisionLevel' BY <1>2, <1>3, <2>3, <2>4
  <2>6. VarOf(-m) = VarOf(m) BY <2>2, LitFacts
  <2> QED BY <2>5, <2>6 DEF OnThisLevel, LevelOf
<1>6. ASSUME NEW A \in SUBSET Vars, Level0Holds(A) PROVE Level0Holds(A)'
  <2> SUFFICES ASSUME NEW i \in DOMAIN trail', level'[VarOf(trail'[i])] = 0
               PROVE  Holds(A, trail'[i])
    BY DEF Level0Holds, LevelOf
  <2>1. i \in DOMAIN trail /\ trail'[i] = trail[i] /\ LevelOf(trail[i]) = 0 BY <1>2, <1>3
  <2> QED BY <1>6, <2>1 DEF Level0Holds
<1>7. NoUnits' BY DEF IndInv, NoUnits
<1> QED BY <1>2, <1>4, <1>5, <1>6, <1>7

\* performSearchDecision() decides a literal that has no value.
LEMMA NewLevelInv ==
    ASSUME IndInv, pc = "decide", NEW l \in Lits, Unassigned(l), EnqueueDecision(l),
           pc' = "propagate", UNCHANGED <<base, asked, work, merges, answer, counters>>
    PROVE  IndInv'
<1> USE DEF base, asked, answer, counters
<1>1. Database' = Database BY DEF Database
<1>2. ~ True(l) /\ ~ False(l) BY DEF Unassigned
<1>3. /\ AssignmentInv' /\ DecisionLevel' = DecisionLevel + 1 /\ DecisionLevel \in Nat
      /\ ReasonsKept' /\ NoUnits'
      /\ \A C \in Database : Falsified(C)' => Falsified(C) \/ OnThisLevel(C)' # {}
      /\ \A A \in SUBSET Vars : Level0Holds(A) => Level0Holds(A)'
  BY <1>1, <1>2, DecisionKeeps
<1>4. AssignmentOK' BY <1>3 DEF AssignmentInv
<1>5. TypeOK' BY <1>4 DEF IndInv, TypeOK, AssignmentOK
<1>6. \A C \in Database : ~ Falsified(C) BY DEF IndInv, NothingMissed
<1>7. Home' /\ NothingMissed' /\ WorkInv' /\ RefiningInv'
  BY <1>1, <1>3, <1>6 DEF IndInv, Home, NothingMissed, WorkInv, RefiningInv
<1>8. Implied'
  <2> SUFFICES ASSUME NEW A \in SUBSET Vars, IsModel(A, given)
               PROVE  ok /\ IsModel(A, Database) /\ Level0Holds(A)'
    BY <1>1 DEF Implied, Level0Holds
  <2> QED BY <1>3, ModelFacts
<1> QED BY <1>3, <1>5, <1>7, <1>8 DEF IndInv

\* The next assumption is decided,
LEMMA DecideAssumptionInv == ASSUME IndInv, DecideAssumption PROVE IndInv'
<1>1. assumptions \in Seq(Lits) /\ DecisionLevel \in Nat BY TrailFacts DEF IndInv, TypeOK
<1>2. NextAssumption \in Lits BY <1>1 DEF DecideAssumption, NextAssumption
<1> QED BY <1>2, NewLevelInv DEF DecideAssumption

\* or a literal that is open.
LEMMA DecideInv == ASSUME IndInv, Decide PROVE IndInv'
<1>1. PICK l \in Open : EnqueueDecision(l) BY DEF Decide
<1>2. l \in Lits /\ Unassigned(l) BY DEF Open
<1> QED BY <1>1, <1>2, NewLevelInv DEF Decide

\* A level for an assumption that holds already is empty.
LEMMA DummyLevelInv == ASSUME IndInv, DummyLevel PROVE IndInv'
<1> DEFINE n == DecisionLevel
<1>1. /\ pc = "decide" /\ trail_lim' = Append(trail_lim, Len(trail))
      /\ UNCHANGED <<pc, base, trail, level, reason, asked, work, merges, answer, counters>>
  BY DEF DummyLevel
<1>2. /\ AssignmentInv /\ n \in Nat /\ Len(trail) \in Nat
      /\ DOMAIN trail = 1 .. Len(trail) /\ DOMAIN trail_lim = 1 .. n
      /\ trail_lim \in Seq(Nat)
      /\ \A i \in DOMAIN trail : LevelOf(trail[i]) \in 0 .. n
  BY TrailFacts DEF IndInv
<1>3. /\ trail_lim' \in Seq(Nat) /\ Len(trail_lim') = n + 1 /\ DOMAIN trail_lim' = 1 .. n + 1
      /\ \A k \in 1 .. n : trail_lim'[k] = trail_lim[k]
      /\ trail_lim'[n + 1] = Len(trail)
  BY <1>1, <1>2 DEF DecisionLevel
<1>4. DecisionLevel' = n + 1 BY <1>3 DEF DecisionLevel
<1> HIDE DEF n
<1>5. \A k \in 1 .. n : trail_lim[k] \in Nat /\ trail_lim[k] <= Len(trail)
  BY <1>2 DEF AssignmentInv, LimitsInOrder
<1>6. LimitsInOrder'
  <2>1. \A k \in 1 .. n + 1 : k = n + 1 \/ k \in 1 .. n BY <1>2
  <2>2. \A j, k \in 1 .. n : j <= k => trail_lim[j] <= trail_lim[k]
    BY <1>2 DEF AssignmentInv, LimitsInOrder
  <2>3. \A k \in 1 .. n + 1 : trail_lim'[k] <= Len(trail) BY <1>2, <1>3, <1>5, <2>1
  <2>4. ASSUME NEW j \in 1 .. n + 1, NEW k \in 1 .. n + 1, j <= k
        PROVE  trail_lim'[j] <= trail_lim'[k]
    <3>1. CASE k = n + 1 BY <1>3, <2>3, <3>1
    <3>2. CASE k \in 1 .. n
      <4>1. j \in 1 .. n BY <1>2, <2>4, <3>2
      <4> QED BY <1>3, <2>2, <2>4, <3>2, <4>1
    <3> QED BY <2>1, <3>1, <3>2
  <2> QED BY <1>1, <1>3, <2>3, <2>4 DEF LimitsInOrder
<1>7. LevelsMatch'
  <2> SUFFICES ASSUME NEW i \in DOMAIN trail
               PROVE  LET k == LevelOf(trail[i])
                      IN  /\ k <= n + 1
                          /\ k > 0 => trail_lim'[k] < i
                          /\ k < n + 1 => i <= trail_lim'[k + 1]
                          /\ k > 0 /\ ReasonOf(trail[i]) = NoReason => i = trail_lim'[k] + 1
    BY <1>1, <1>4 DEF LevelsMatch, LevelOf, ReasonOf
  <2> DEFINE k == LevelOf(trail[i])
  <2>1. /\ k \in 0 .. n
        /\ k > 0 => trail_lim[k] < i
        /\ k < n => i <= trail_lim[k + 1]
        /\ k > 0 /\ ReasonOf(trail[i]) = NoReason => i = trail_lim[k] + 1
    BY <1>2 DEF AssignmentInv, LevelsMatch, n
  <2> HIDE DEF k
  <2>2. k > 0 => trail_lim'[k] = trail_lim[k] BY <1>2, <1>3, <2>1
  <2>3. /\ k < n => trail_lim'[k + 1] = trail_lim[k + 1]
        /\ k = n => trail_lim'[k + 1] = Len(trail)
    BY <1>2, <1>3, <2>1
  <2> QED BY <1>2, <2>1, <2>2, <2>3 DEF k
<1>8. AssignmentInv'
  BY <1>1, <1>2, <1>3, <1>6, <1>7
     DEF AssignmentInv, AssignmentOK, OnceOnTrail, NothingElse, ReasonsBefore, LevelOf, ReasonOf
<1>9. AssignmentOK' BY <1>8 DEF AssignmentInv
<1>10. TypeOK'
  BY <1>1, <1>9 DEF IndInv, TypeOK, AssignmentOK, base, asked, answer, counters
<1>11. Database' = Database BY <1>1 DEF Database, base
<1>12. \A C \in Database : ~ Falsified(C)'
  BY <1>1 DEF IndInv, NothingMissed, Falsified, False, True
<1>13. Home' /\ NothingMissed' /\ WorkInv' /\ RefiningInv' /\ NoUnits' /\ ReasonsKept'
  BY <1>1, <1>11, <1>12
     DEF IndInv, Home, NothingMissed, WorkInv, RefiningInv, NoUnits, ReasonsKept, ReasonOf,
         LevelOf, asked, answer
<1>14. Implied'
  <2> SUFFICES ASSUME NEW A \in SUBSET Vars, IsModel(A, given)
               PROVE  ok /\ IsModel(A, Database) /\ Level0Holds(A)
    BY <1>1, <1>11 DEF Implied, Level0Holds, LevelOf, base
  <2> QED BY ModelFacts
<1> QED BY <1>8, <1>10, <1>13, <1>14 DEF IndInv

-----------------------------------------------------------------------------
(* Assumptions that are refuted *)

\* refineFinalConflict() asks again under the conflict that was found.
LEMMA RefineInv == ASSUME IndInv, Refine PROVE IndInv'
<1>1. /\ Len(conflict) >= 2 /\ pc' = "propagate" /\ refining' = TRUE /\ saved' = assumptions
      /\ assumptions' = [i \in DOMAIN conflict |-> -conflict[i]]
      /\ BackTo(0, << >>, NoReason)
      /\ UNCHANGED <<base, work, merges, answer, counters>>
  BY DEF Refine
<1>2. 0 \in 0 .. DecisionLevel BY TrailFacts DEF IndInv
<1>3. Database' = Database BY <1>1 DEF Database, base
<1>4. /\ AssignmentInv' /\ DecisionLevel' = 0 /\ ReasonsKept'
      /\ \A A \in SUBSET Vars : Level0Holds(A) => Level0Holds(A)'
  BY <1>1, <1>2, <1>3, GoBackKeeps
<1>5. AssignmentOK' BY <1>4 DEF AssignmentInv
<1>6. assumptions' \in Seq(Lits)
  <2>1. conflict \in Seq(Lits) BY DEF IndInv, TypeOK
  <2>2. /\ Len(conflict) \in Nat /\ DOMAIN conflict = 1 .. Len(conflict)
        /\ \A i \in 1 .. Len(conflict) : conflict[i] \in Lits
    BY <2>1
  <2>3. \A i \in 1 .. Len(conflict) : -conflict[i] \in Lits BY <2>2, LitFacts
  <2> QED BY <1>1, <2>2, <2>3
<1>7. refining' \in BOOLEAN BY <1>1, Zenon
<1>8. TypeOK'
  BY <1>1, <1>5, <1>6, <1>7 DEF IndInv, TypeOK, AssignmentOK, base, answer, counters
<1>9. conflict' # << >> BY <1>1 DEF answer
<1>10. Home' /\ NothingMissed' /\ WorkInv' /\ RefiningInv' /\ NoUnits'
  BY <1>1, <1>3, <1>4, <1>9 DEF IndInv, Home, NothingMissed, WorkInv, RefiningInv, NoUnits
<1>11. Implied'
  <2> SUFFICES ASSUME NEW A \in SUBSET Vars, IsModel(A, given)
               PROVE  ok /\ IsModel(A, Database) /\ Level0Holds(A)'
    BY <1>1, <1>3 DEF Implied, Level0Holds, base
  <2> QED BY <1>4, ModelFacts
<1> QED BY <1>4, <1>8, <1>10, <1>11 DEF IndInv

\* solve_ blames the clauses only if no assumption is in the conflict.
LEMMA AssumptionsRefutedInv == ASSUME IndInv, AssumptionsRefuted PROVE IndInv'
<1>1. CASE Return("unsat", {})
  <2>1. ASSUME conflict = << >>, NEW A \in SUBSET Vars, IsModel(A, given) PROVE FALSE
    <3>1. Sat(A, work \cup Range(conflict)) BY <2>1, ModelFacts DEF AssumptionsRefuted
    <3>2. work = {} BY DEF AssumptionsRefuted
    <3>3. Range(conflict) = {} BY <2>1 DEF Range
    <3> QED BY <3>1, <3>2, <3>3 DEF Sat
  <2> QED BY <1>1, <2>1, ReturnInv
<1>2. CASE Refine BY <1>2, RefineInv
<1> QED BY <1>1, <1>2 DEF AssumptionsRefuted

\* The invariant holds in the beginning,
LEMMA InitInv == Init => IndInv
<1> SUFFICES ASSUME Init PROVE IndInv OBVIOUS
<1> USE DEF Init
<1>1. trail = << >> /\ trail_lim = << >> /\ DOMAIN trail = {} /\ DOMAIN trail_lim = {}
      /\ DecisionLevel = 0
  BY DEF DecisionLevel
<1>2. NoReason \in Clause /\ {} \in Clause BY DEF NoReason, Clause
<1>3. Start \in Formula /\ \A C \in Start : Cardinality(C) > 1
  BY StartAssumption DEF Formula
<1>4. 0 \in 0 .. MaxSolves /\ 0 \in 0 .. MaxRestarts /\ 0 \in 0 .. MaxBiAsserting
      /\ 0 \in 0 .. MaxRemovals
  BY BoundsAssumption
<1>5. Database = Start BY DEF Database
<1>6. {} \in Formula BY DEF Formula
<1>7. AssignmentOK BY <1>1, <1>2 DEF AssignmentOK
<1>8. ok \in BOOLEAN /\ refining \in BOOLEAN BY Zenon
<1>9. TypeOK BY <1>2, <1>3, <1>4, <1>6, <1>7, <1>8 DEF TypeOK, AssignmentOK
<1>10. AssignmentInv
  BY <1>1, <1>7
     DEF AssignmentInv, OnceOnTrail, LimitsInOrder, LevelsMatch, NothingElse, ReasonsBefore
<1>11. Home /\ NothingMissed /\ NoUnits /\ ReasonsKept /\ WorkInv /\ RefiningInv
  BY <1>1, <1>3, <1>5 DEF Home, NothingMissed, NoUnits, ReasonsKept, WorkInv, RefiningInv
<1>12. Implied BY <1>1, <1>5 DEF Implied
<1> QED BY <1>9, <1>10, <1>11, <1>12 DEF IndInv

-----------------------------------------------------------------------------
(* Learning *)

\* A literal that was false on a higher level may come on the trail after the
\* solver went back.
LEMMA JumpFollows ==
    ASSUME IndInv, NEW to \in 0 .. DecisionLevel, NEW l \in Lits, NEW why \in Clause,
           LevelOf(l) > to,
           IF why = NoReason THEN to = 0
           ELSE l \in why /\ \A m \in why \ {l} : False(m) /\ LevelOf(m) <= to
    PROVE  MayFollow(l, to, why)
<1> DEFINE n == Cut(to)
<1>1. AssignmentInv BY DEF IndInv
<1>2. /\ Len(trail) \in Nat /\ DOMAIN trail = 1 .. Len(trail) /\ n \in 0 .. Len(trail)
      /\ \A i \in DOMAIN trail : /\ trail[i] \in Lits /\ LevelOf(trail[i]) \in Nat
                                 /\ i <= n <=> LevelOf(trail[i]) <= to
  BY <1>1, CutFacts
<1>3. ASSUME NEW j \in 1 .. n, VarOf(trail[j]) = VarOf(l) PROVE FALSE
  <2>1. LevelOf(trail[j]) = LevelOf(l) BY <1>3 DEF LevelOf
  <2>2. j \in DOMAIN trail /\ LevelOf(trail[j]) <= to BY <1>2
  <2>3. LevelOf(l) \in Nat /\ DecisionLevel \in Nat BY <1>1, TrailFacts
  <2> QED BY <2>1, <2>2, <2>3
<1>4. ASSUME NEW m \in why \ {l}, why # NoReason
      PROVE  \E j \in 1 .. n : trail[j] = -m
  <2>1. m \in Lits /\ False(m) /\ LevelOf(m) <= to BY <1>4 DEF Clause
  <2>2. /\ Index(m) \in 1 .. Len(trail) /\ trail[Index(m)] = -m /\ LevelOf(-m) = LevelOf(m)
    BY <1>1, <2>1, FalseFacts
  <2>3. Index(m) <= n BY <1>2, <2>1, <2>2
  <2>4. Index(m) \in 1 .. n BY <1>2, <2>2, <2>3
  <2> QED BY <2>2, <2>4
<1> QED BY <1>3, <1>4 DEF MayFollow

\* A literal that was false on a higher level comes on the trail after the
\* solver went back.
LEMMA JumpKeeps ==
    ASSUME IndInv, NEW to \in 0 .. DecisionLevel, to < DecisionLevel,
           NEW l \in Lits, NEW why \in Clause, BackTo(to, <<l>>, why),
           False(l), LevelOf(l) > to,
           IF why = NoReason THEN to = 0
           ELSE /\ why \in Database' /\ l \in why
                /\ \A m \in why \ {l} : False(m) /\ LevelOf(m) <= to,
           Database \subseteq Database'
    PROVE  /\ AssignmentInv' /\ DecisionLevel' = to /\ ReasonsKept' /\ ~ False(l)'
           /\ \A D \in Database : Falsified(D)' => to = 0 \/ OnThisLevel(D)' # {}
           /\ \A A \in SUBSET Vars : Level0Holds(A) /\ (to = 0 => Holds(A, l))
                                     => Level0Holds(A)'
<1> DEFINE n == Cut(to)
<1>1. AssignmentInv BY DEF IndInv
<1>2. /\ Len(trail) \in Nat /\ DOMAIN trail = 1 .. Len(trail) /\ n \in 0 .. Len(trail)
      /\ \A i \in DOMAIN trail : /\ trail[i] \in Lits /\ LevelOf(trail[i]) \in Nat
                                 /\ i <= n <=> LevelOf(trail[i]) <= to
  BY <1>1, CutFacts
<1>3. MayFollow(l, to, why) BY JumpFollows
<1>4. /\ AssignmentInv'
      /\ DecisionLevel' = to
      /\ Cut(to) \in Nat /\ DOMAIN trail' = 1 .. Cut(to) + 1
      /\ \A i \in 1 .. Cut(to) : /\ i \in DOMAIN trail
                                 /\ trail'[i] = trail[i]
                                 /\ level'[VarOf(trail[i])] = LevelOf(trail[i])
                                 /\ reason'[VarOf(trail[i])] = ReasonOf(trail[i])
      /\ trail'[Cut(to) + 1] = l
      /\ level'[VarOf(l)] = to
      /\ reason'[VarOf(l)] = why
  BY <1>1, <1>3, PutInv, Zenon
<1>5. ASSUME NEW i \in DOMAIN trail'
      PROVE  \/ /\ i \in DOMAIN trail /\ trail'[i] = trail[i] /\ LevelOf(trail[i]) <= to
                /\ level'[VarOf(trail'[i])] = LevelOf(trail[i])
                /\ reason'[VarOf(trail'[i])] = ReasonOf(trail[i])
             \/ /\ trail'[i] = l /\ level'[VarOf(trail'[i])] = to
                /\ reason'[VarOf(trail'[i])] = why
  <2>1. i \in 1 .. Cut(to) \/ i = Cut(to) + 1 BY <1>4
  <2>2. CASE i \in 1 .. Cut(to)
    <3>1. LevelOf(trail[i]) <= to BY <1>2, <2>2
    <3> QED BY <1>4, <2>2, <3>1
  <2>3. CASE i = Cut(to) + 1 BY <1>4, <2>3
  <2> QED BY <2>1, <2>2, <2>3
<1>6. ReasonsKept'
  <2> SUFFICES ASSUME NEW i \in DOMAIN trail', reason'[VarOf(trail'[i])] # NoReason
               PROVE  LET R == reason'[VarOf(trail'[i])]
                      IN  \/ R \in Database'
                          \/ Cardinality(R) = 2 /\ level'[VarOf(trail'[i])] = 0
    BY DEF ReasonsKept, ReasonOf, LevelOf
  <2>1. CASE i \in DOMAIN trail /\ level'[VarOf(trail'[i])] = LevelOf(trail[i])
             /\ reason'[VarOf(trail'[i])] = ReasonOf(trail[i])
    BY <2>1 DEF IndInv, ReasonsKept
  <2>2. CASE reason'[VarOf(trail'[i])] = why BY <2>2
  <2> QED BY <1>5, <2>1, <2>2
<1>7. ~ False(l)'
  <2> SUFFICES ASSUME NEW i \in DOMAIN trail', trail'[i] = -l PROVE FALSE
    BY DEF False, True
  <2>1. VarOf(-l) = VarOf(l) /\ l # -l BY LitFacts
  <2>2. Cut(to) + 1 \in DOMAIN trail' BY <1>4
  <2>3. i = Cut(to) + 1 BY <1>4, <2>1, <2>2 DEF AssignmentInv, OnceOnTrail
  <2> QED BY <1>4, <2>1, <2>3
<1>8. ASSUME NEW D \in Database, Falsified(D)' PROVE OnThisLevel(D)' # {}
  <2>1. D \in SUBSET Lits BY DEF Database, IndInv, TypeOK, Formula, Clause
  <2>2. ASSUME NEW m \in D
        PROVE  \/ False(m) /\ LevelOf(m) <= to
               \/ level'[VarOf(m)] = to
    <3>1. PICK i \in DOMAIN trail' : trail'[i] = -m BY <1>8 DEF Falsified, False, True
    <3>2. m \in Lits /\ VarOf(-m) = VarOf(m) BY <2>1, LitFacts
    <3>3. CASE level'[VarOf(trail'[i])] = to BY <3>1, <3>2, <3>3
    <3>4. CASE i \in DOMAIN trail /\ trail'[i] = trail[i] /\ LevelOf(trail[i]) <= to
      BY <3>1, <3>2, <3>4 DEF False, True, LevelOf
    <3> QED BY <1>5, <3>3, <3>4
  <2>3. CASE \E m \in D : level'[VarOf(m)] = to
    BY <1>4, <2>3 DEF OnThisLevel, LevelOf
  <2>4. CASE \A m \in D : level'[VarOf(m)] # to
    <3>1. Falsified(D) /\ \A m \in D : LevelOf(m) <= to BY <2>2, <2>4 DEF Falsified
    <3>2. DecisionLevel \in Nat BY <1>1, TrailFacts
    <3>3. PICK m \in D : LevelOf(m) = DecisionLevel
      BY <3>1, <3>2 DEF IndInv, NothingMissed, OnThisLevel
    <3> QED BY <3>1, <3>2, <3>3
  <2> QED BY <2>3, <2>4
<1>9. ASSUME NEW A \in SUBSET Vars, Level0Holds(A), to = 0 => Holds(A, l)
      PROVE  Level0Holds(A)'
  <2> SUFFICES ASSUME NEW i \in DOMAIN trail', level'[VarOf(trail'[i])] = 0
               PROVE  Holds(A, trail'[i])
    BY DEF Level0Holds, LevelOf
  <2> QED BY <1>5, <1>9 DEF Level0Holds
<1> QED BY <1>4, <1>6, <1>7, <1>8, <1>9

\* The solver goes back below this level, to where only the first literal and
\* those of this level are open.
LEMMA JumpLevelFacts ==
    ASSUME IndInv, DecisionLevel > 0, NEW C \in Clause,
           \A l \in C : False(l) /\ LevelOf(l) > 0
    PROVE  /\ JumpLevel(C) \in 0 .. DecisionLevel /\ JumpLevel(C) < DecisionLevel
           /\ \A l \in C \ OnThisLevel(C) : LevelOf(l) <= JumpLevel(C)
           /\ C \subseteq OnThisLevel(C) => JumpLevel(C) = 0
           /\ ~ C \subseteq OnThisLevel(C) =>
                 \E l \in C \ OnThisLevel(C) : LevelOf(l) = JumpLevel(C)
<1> DEFINE below == C \ OnThisLevel(C)
           S == Levels(below)
<1>1. DecisionLevel \in Nat /\ AssignmentInv BY TrailFacts DEF IndInv
<1>2. \A l \in below : LevelOf(l) \in Nat /\ LevelOf(l) <= DecisionLevel - 1
  <2> TAKE l \in below
  <2>1. l \in Lits /\ False(l) /\ LevelOf(l) # DecisionLevel BY DEF Clause, OnThisLevel
  <2>2. LevelOf(l) \in 0 .. DecisionLevel BY <1>1, <2>1, FalseFacts
  <2> QED BY <1>1, <2>1, <2>2
<1>3. CASE below = {}
  <2>1. JumpLevel(C) = 0 BY <1>3 DEF JumpLevel
  <2> QED BY <1>1, <1>3, <2>1
<1>4. CASE below # {}
  <2>1. S \in SUBSET Nat /\ S # {} /\ \A s \in S : s <= DecisionLevel - 1
    BY <1>2, <1>4 DEF Levels
  <2>2. DecisionLevel - 1 \in Nat BY <1>1
  <2>3. JumpLevel(C) = Max(S) BY <1>4 DEF JumpLevel
  <2>4. \A l \in below : LevelOf(l) \in S BY DEF Levels
  <2> HIDE DEF S
  <2>5. \E s \in S : \A t \in S : t <= s BY <2>1, <2>2, GreatestExists
  <2>6. \E s \in S : \A t \in S : s >= t BY <2>1, <2>5
  <2>7. Max(S) \in S /\ \A t \in S : Max(S) >= t BY <2>6 DEF Max
  <2>8. JumpLevel(C) \in Nat /\ JumpLevel(C) <= DecisionLevel - 1 BY <2>1, <2>3, <2>7
  <2>9. \A l \in below : LevelOf(l) <= JumpLevel(C) BY <1>2, <2>1, <2>3, <2>4, <2>7
  <2>10. \E l \in below : LevelOf(l) = JumpLevel(C) BY <2>3, <2>7 DEF S, Levels
  <2> QED BY <1>1, <1>4, <2>8, <2>9, <2>10
<1> QED BY <1>3, <1>4

\* The clause that is learned, minimized or not, holds in every model.
LEMMA LearnedHolds ==
    ASSUME IndInv, pc = "analyze", NEW mode \in CcMinModes, NEW others,
           LET seen  == work \ {Latest(work)}
               short == seen \ Redundant(mode, seen)
           IN  others \in {short, short \ RemovedByBinary(Latest(work), short)},
           NEW A \in SUBSET Vars, IsModel(A, given)
    PROVE  Sat(A, {Latest(work)} \cup others)
<1> DEFINE first == Latest(work)
           seen  == work \ {first}
           short == seen \ Redundant(mode, seen)
<1>1. IsModel(A, Database) /\ Sat(A, work) BY ModelFacts
<1>2. first \in work BY LatestOnThisLevel DEF OnThisLevel
<1>3. seen \in SUBSET Lits /\ \A l \in seen : False(l) /\ LevelOf(l) > 0
  BY DEF IndInv, TypeOK, Clause, WorkInv
<1>4. mode \in 0 .. 2 BY CcMinAssumption
<1> SUFFICES ASSUME ~ Holds(A, first), \A l \in others : ~ Holds(A, l) PROVE FALSE
  BY DEF Sat
<1>5. ASSUME NEW l \in short PROVE ~ Holds(A, l)
  <2>1. CASE l \in others BY <2>1
  <2>2. CASE l \notin others
    <3>1. {first, -l} \in Database BY <2>2 DEF RemovedByBinary
    <3>2. Holds(A, first) \/ Holds(A, -l) BY <1>1, <3>1 DEF IsModel, Sat
    <3>3. l \in Lits BY <1>3
    <3> QED BY <3>2, <3>3, HoldsNegated
  <2> QED BY <2>1, <2>2
<1>6. \A l \in seen \ Redundant(mode, seen) : ~ Holds(A, l) BY <1>5
<1> HIDE DEF seen
<1>7. \A l \in seen : ~ Holds(A, l) BY <1>3, <1>4, <1>6, RedundantFalls
<1> QED BY <1>1, <1>7 DEF Sat, seen

\* analyze() learns a clause, minimized or not, and the solver goes back.
LEMMA LearnInv == ASSUME IndInv, Learn PROVE IndInv'
<1> DEFINE seen == work \ {Latest(work)}
           Shortened(mode) == seen \ Redundant(mode, seen)
           Others(mode, binary) ==
              IF binary THEN Shortened(mode) \ RemovedByBinary(Latest(work), Shortened(mode))
                        ELSE Shortened(mode)
<1>1. /\ pc = "analyze" /\ AtUip /\ pc' = "propagate" /\ work' = {} /\ merges' = 0
      /\ UNCHANGED <<given, ok, asked, answer, solves, restarts, removals>>
  BY DEF Learn
<1>2. PICK mode \in CcMinModes, binary \in BOOLEAN :
         Learned(Latest(work), Others(mode, binary))
  BY DEF Learn
<1>3. PICK first : first = Latest(work) OBVIOUS
<1>4. PICK others : others = Others(mode, binary) OBVIOUS
<1>5. PICK C : C = {first} \cup others OBVIOUS
<1>6. PICK to : to = JumpLevel(C) OBVIOUS
<1> DEFINE bi == OnThisLevel(others) # {}
\* The clause
<1>7. /\ first \in OnThisLevel(work) /\ others \subseteq work \ {first}
      /\ \A l \in work : l \in Lits /\ False(l) /\ LevelOf(l) > 0
  BY <1>1, <1>3, <1>4, LatestOnThisLevel DEF IndInv, TypeOK, Clause, WorkInv
<1>8. ASSUME NEW A \in SUBSET Vars, IsModel(A, given) PROVE Sat(A, C)
  BY <1>1, <1>3, <1>4, <1>5, <1>8, LearnedHolds
<1>9. /\ BackTo(to, IF bi THEN << >> ELSE <<first>>, IF others = {} THEN NoReason ELSE C)
      /\ biasserting' = IF bi THEN biasserting + 1 ELSE biasserting
      /\ weak' = IF bi /\ Cardinality(C) > 2 THEN weak \cup ({C} \ Database) ELSE weak \ {C}
      /\ IF others = {}
         THEN UNCHANGED <<clauses, learnts>>
         ELSE \/ clauses' = clauses \cup {C} /\ UNCHANGED learnts
              \/ learnts' = learnts \cup {C} /\ UNCHANGED clauses
  BY <1>2, <1>3, <1>4, <1>5, <1>6 DEF Learned
<1> HIDE DEF Others
<1>10. /\ first \in work /\ LevelOf(first) = DecisionLevel /\ first \in Lits
       /\ first \notin others /\ first \in C /\ others \subseteq C
       /\ C \in Clause /\ \A l \in C : l \in Lits /\ False(l) /\ LevelOf(l) > 0
  BY <1>5, <1>7 DEF OnThisLevel, Clause
<1>11. DecisionLevel > 0 /\ DecisionLevel \in Nat BY <1>1, TrailFacts DEF IndInv, Home
<1>12. /\ to \in 0 .. DecisionLevel /\ to < DecisionLevel
       /\ \A l \in C \ OnThisLevel(C) : LevelOf(l) <= to
       /\ C \subseteq OnThisLevel(C) => to = 0
  BY <1>6, <1>10, <1>11, JumpLevelFacts
<1>13. LevelOf(first) > to BY <1>10, <1>11, <1>12
<1>14. /\ Database \subseteq Database'
       /\ Database' = Database \/ (others # {} /\ Database' = Database \cup {C})
       /\ others # {} => C \in Database'
  BY <1>9 DEF Database
<1>15. NoUnits'
  <2>1. others # {} => Cardinality(C) > 1
    <3>1. others \in Clause BY <1>7 DEF Clause
    <3>2. IsFiniteSet(others) BY <3>1, LitsFinite
    <3> QED BY <1>5, <1>10, <3>2, TwoOrMore
  <2> QED BY <1>14, <2>1 DEF IndInv, NoUnits
\* The assignment
<1>16. /\ AssignmentInv' /\ DecisionLevel' = to /\ ReasonsKept' /\ ~ False(first)'
       /\ \A D \in Database : Falsified(D)' => to = 0 \/ OnThisLevel(D)' # {}
       /\ \A A \in SUBSET Vars : Level0Holds(A) /\ IsModel(A, given) => Level0Holds(A)'
  <2>1. CASE bi
    <3>1. BackTo(to, << >>, NoReason)
      <4>1. BackTo(to, << >>, IF others = {} THEN NoReason ELSE C) BY <1>9, <2>1
      <4> QED BY <4>1 DEF BackTo
    <3>2. /\ AssignmentInv' /\ DecisionLevel' = to
          /\ \A D \in Database : Falsified(D)' => to = 0 \/ OnThisLevel(D)' # {}
          /\ \A l \in Lits : LevelOf(l) > to => ~ False(l)'
          /\ ReasonsKept'
          /\ \A A \in SUBSET Vars : Level0Holds(A) => Level0Holds(A)'
      BY <1>12, <1>14, <3>1, GoBackKeeps
    <3> QED BY <1>10, <1>13, <3>2
  <2>2. CASE ~ bi /\ others # {}
    <3>1. BackTo(to, <<first>>, C) BY <1>9, <2>2
    <3>2. \A m \in C \ {first} : False(m) /\ LevelOf(m) <= to
      BY <1>5, <1>10, <1>12, <2>2 DEF OnThisLevel
    <3>3. C # NoReason BY <1>10 DEF NoReason
    <3>4. to # 0
      <4>1. PICK l \in others : TRUE BY <2>2
      <4>2. l \in C \ {first} /\ l \in Lits BY <1>10, <4>1
      <4>3. LevelOf(l) <= to /\ LevelOf(l) > 0 /\ LevelOf(l) \in Nat
        BY <1>10, <3>2, <4>2, TrailFacts DEF IndInv
      <4> QED BY <1>12, <4>3
    <3>5. /\ AssignmentInv' /\ DecisionLevel' = to /\ ReasonsKept' /\ ~ False(first)'
          /\ \A D \in Database : Falsified(D)' => to = 0 \/ OnThisLevel(D)' # {}
          /\ \A A \in SUBSET Vars : Level0Holds(A) /\ (to = 0 => Holds(A, first))
                                    => Level0Holds(A)'
      BY <1>10, <1>12, <1>13, <1>14, <2>2, <3>1, <3>2, <3>3, JumpKeeps
    <3> QED BY <3>4, <3>5
  <2>3. CASE ~ bi /\ others = {}
    <3>1. BackTo(to, <<first>>, NoReason) BY <1>9, <2>3
    <3>2. C = {first} BY <1>5, <2>3
    <3>3. to = 0 BY <1>10, <1>12, <3>2 DEF OnThisLevel
    <3>4. \A A \in SUBSET Vars : IsModel(A, given) => Holds(A, first) BY <1>8, <3>2 DEF Sat
    <3>5. NoReason \in Clause BY DEF NoReason, Clause
    <3>6. /\ AssignmentInv' /\ DecisionLevel' = to /\ ReasonsKept' /\ ~ False(first)'
          /\ \A D \in Database : Falsified(D)' => to = 0 \/ OnThisLevel(D)' # {}
          /\ \A A \in SUBSET Vars : Level0Holds(A) /\ (to = 0 => Holds(A, first))
                                    => Level0Holds(A)'
      BY <1>10, <1>12, <1>13, <1>14, <3>1, <3>3, <3>5, JumpKeeps
    <3> QED BY <3>4, <3>6
  <2> QED BY <2>1, <2>2, <2>3
<1>17. NothingMissed'
  <2>1. ~ Falsified(C)' BY <1>10, <1>16 DEF Falsified
  <2> QED BY <1>1, <1>14, <1>16, <2>1 DEF NothingMissed
\* The rest
<1>18. biasserting' \in 0 .. MaxBiAsserting
  <2>1. MaxBiAsserting \in Nat /\ biasserting \in 0 .. MaxBiAsserting /\ merges \in 0 .. 2
    BY BoundsAssumption DEF IndInv, TypeOK
  <2>2. CASE ~ bi BY <1>9, <2>1, <2>2
  <2>3. CASE bi
    <3> DEFINE W == OnThisLevel(work)
    <3>1. PICK l \in others : LevelOf(l) = DecisionLevel BY <2>3 DEF OnThisLevel
    <3>2. l \in W \ {first} /\ first \in W BY <1>7, <3>1 DEF OnThisLevel
    <3>3. IsFiniteSet(W) /\ IsFiniteSet(W \ {first})
      <4>1. W \in Clause /\ W \ {first} \in Clause BY <1>7 DEF OnThisLevel, Clause
      <4> QED BY <4>1, LitsFinite
    <3> HIDE DEF W
    <3>4. {first} \cup (W \ {first}) = W BY <3>2
    <3>5. Cardinality({first} \cup (W \ {first})) > 1 BY <3>2, <3>3, TwoOrMore
    <3>6. Cardinality(W) > 1 /\ Cardinality(W) \in Nat
      BY <3>3, <3>4, <3>5, FS_CardinalityType
    <3>7. Cardinality(W) <= 1 + PathLimit BY <1>1 DEF AtUip, W
    <3>8. merges = 1 BY <3>6, <3>7 DEF PathLimit
    <3>9. biasserting < MaxBiAsserting BY <1>1, <3>8 DEF IndInv, WorkInv
    <3> QED BY <1>9, <2>1, <2>3, <3>9
  <2> QED BY <2>2, <2>3
<1>19. clauses' \in Formula /\ learnts' \in Formula /\ weak' \in Formula
  BY <1>9, <1>10 DEF IndInv, TypeOK, Formula
<1>20. AssignmentOK' BY <1>16 DEF AssignmentInv
<1>21. {} \in Clause /\ 0 \in 0 .. 2 BY DEF Clause
<1>22. TypeOK'
  BY <1>1, <1>18, <1>19, <1>20, <1>21 DEF IndInv, TypeOK, AssignmentOK, asked, answer
<1>23. Home' /\ WorkInv' /\ RefiningInv'
  BY <1>1 DEF IndInv, Home, WorkInv, RefiningInv, asked, answer
<1>24. Implied'
  <2> SUFFICES ASSUME NEW A \in SUBSET Vars, IsModel(A, given)
               PROVE  ok /\ IsModel(A, Database') /\ Level0Holds(A)'
    BY <1>1 DEF Implied, Level0Holds
  <2>1. ok /\ IsModel(A, Database) /\ Level0Holds(A) BY ModelFacts
  <2>2. IsModel(A, Database') BY <1>8, <1>14, <2>1 DEF IsModel
  <2> QED BY <1>16, <2>1, <2>2
<1> QED BY <1>15, <1>16, <1>17, <1>22, <1>23, <1>24 DEF IndInv

-----------------------------------------------------------------------------
(* The theorems *)

\* and every step keeps it.
LEMMA NextInv == IndInv /\ [Next]_vars => IndInv'
<1> SUFFICES ASSUME IndInv, [Next]_vars PROVE IndInv' OBVIOUS
<1>1. CASE \E C \in Input : AddClause(C) BY <1>1, AddClauseInv
<1>2. CASE \E A \in Questions : Call(A) BY <1>2, CallInv
<1>3. CASE AlreadyUnsat \/ StartSearch BY <1>3, AlreadyUnsatInv, StartSearchInv
<1>4. CASE Propagate \/ AddingFails \/ PropagationEnds
  BY <1>4, PropagateInv, AddingFailsInv, PropagationEndsInv
<1>5. CASE ConflictOnLevel0 \/ StartAnalysis \/ Resolve \/ Learn
  BY <1>5, ConflictOnLevel0Inv, StartAnalysisInv, ResolveInv, LearnInv
<1>6. CASE Restart \/ SearchStops \/ Tidy
  BY <1>6, RestartInv, SearchStopsInv, TidyInv
<1>7. CASE DummyLevel \/ DecideAssumption \/ AssumptionFails \/ Decide \/ ModelFound
  BY <1>7, DummyLevelInv, DecideAssumptionInv, AssumptionFailsInv, DecideInv, ModelFoundInv
<1>8. CASE StopEarly \/ ExplainLatest \/ AssumptionsRefuted
  BY <1>8, StopEarlyInv, ExplainLatestInv, AssumptionsRefutedInv
<1>9. CASE UNCHANGED vars
  <2> USE DEF vars, base, asked, answer, counters
  <2>1. Database' = Database BY <1>9 DEF Database
  <2>2. TypeOK' BY <1>9 DEF IndInv, TypeOK, assigned
  <2>3. Home' /\ RefiningInv' /\ WorkInv'
    BY <1>9 DEF IndInv, Home, RefiningInv, WorkInv, DecisionLevel, OnThisLevel, LevelOf, False,
                True, assigned
  <2>4. pc' \in {"quiet", "decide"} => \A C \in Database : ~ Falsified(C)
    BY <1>9 DEF IndInv, NothingMissed
  <2>5. ASSUME NEW A \in SUBSET Vars, IsModel(A, given')
        PROVE  /\ IsModel(A, given) /\ ok'
               /\ pc' = "analyze" => Sat(A, work')
               /\ pc' = "final" => Sat(A, work' \cup Range(conflict'))
    BY <1>9, <2>5, ModelFacts
  <2> QED BY <1>9, <2>1, <2>2, <2>3, <2>4, <2>5, SameTrailInv
<1> QED BY <1>1, <1>2, <1>3, <1>4, <1>5, <1>6, <1>7, <1>8, <1>9 DEF Next, Search

\* The variables keep their types.
THEOREM TypeCorrect == Spec => []TypeOK
<1>1. Init => IndInv BY InitInv
<1>2. IndInv /\ [Next]_vars => IndInv' BY NextInv
<1>3. IndInv => TypeOK BY DEF IndInv
<1> QED BY <1>1, <1>2, <1>3, PTL DEF Spec

\* Nothing is claimed that does not follow from the clauses that were added:
\* not a clause that addClause_ shortens or analyze() learns and minimizes,
\* not a literal of level 0, not a clause under analysis, and not that the
\* clauses are contradictory (ok = false), whichever options are on.
THEOREM Sound == Spec => []Implied
<1>1. Init => IndInv BY InitInv
<1>2. IndInv /\ [Next]_vars => IndInv' BY NextInv
<1>3. IndInv => Implied BY DEF IndInv
<1> QED BY <1>1, <1>2, <1>3, PTL DEF Spec

\* What analyze() and analyzeFinal() walk along: reduceDB, simplify and
\* initSolve remove no clause that is the reason of a literal, but for binary
\* ones of level 0, and the other literals of a reason were false before.
THEOREM Reasons == Spec => []ReasonsHold
<1>1. Init => IndInv BY InitInv
<1>2. IndInv /\ [Next]_vars => IndInv' BY NextInv
<1>3. IndInv => ReasonsHold
  BY DEF IndInv, ReasonsKept, AssignmentInv, ReasonsBefore, ReasonsHold
<1> QED BY <1>1, <1>2, <1>3, PTL DEF Spec

-----------------------------------------------------------------------------
(***************************************************************************)
(* The answers: no clause that was given is lost, the first levels are     *)
(* those of the assumptions, and the solver keeps the promise of module    *)
(* IncrementalSat to the program that uses it.  And what it learns: below  *)
(* the level the solver is on, propagation was complete, so that a clause  *)
(* that leaves one literal open where the solver jumps to is new.          *)
(***************************************************************************)

(* What a step does to the trail *)

\* The literal at i stays, and so does its reason, but on level 0.
Kept(i) ==
    /\ i \in DOMAIN trail /\ i \in DOMAIN trail'
    /\ trail'[i] = trail[i]
    /\ level'[VarOf(trail[i])] = LevelOf(trail[i])
    /\ LevelOf(trail[i]) > 0 => reason'[VarOf(trail[i])] = ReasonOf(trail[i])

\* The literal at i is new on the level the solver is on: implied, or decided,
\* and then it is the next assumption if there is one.
Came(i) ==
    /\ level'[VarOf(trail'[i])] = DecisionLevel'
    /\ \/ DecisionLevel' = 0
       \/ reason'[VarOf(trail'[i])] # NoReason
       \/ /\ DecisionLevel' = DecisionLevel + 1
          /\ DecisionLevel < Len(assumptions) => trail'[i] = NextAssumption

\* Up to the level the solver is on after a step, literals stay; only where it
\* decides is a level opened, and the next assumption holds on it.
Moves ==
    /\ \A i \in DOMAIN trail : LevelOf(trail[i]) <= DecisionLevel' => Kept(i)
    /\ \A i \in DOMAIN trail' : Kept(i) \/ Came(i)
    /\ DecisionLevel' > DecisionLevel =>
          /\ pc = "decide" /\ DecisionLevel' = DecisionLevel + 1
          /\ DecisionLevel < Len(assumptions) =>
                \E i \in DOMAIN trail' : trail'[i] = NextAssumption

\* The trail stays.
LEMMA StayMoves ==
    ASSUME IndInv, UNCHANGED <<trail, trail_lim, level>>,
           \A i \in DOMAIN trail :
              LevelOf(trail[i]) > 0 => reason'[VarOf(trail[i])] = ReasonOf(trail[i])
    PROVE  Moves
<1>1. DecisionLevel \in Nat /\ DecisionLevel' = DecisionLevel
  BY TrailFacts DEF IndInv, DecisionLevel
<1>2. \A i \in DOMAIN trail : Kept(i) BY DEF Kept, LevelOf
<1> QED BY <1>1, <1>2 DEF Moves

\* The solver goes back.
LEMMA BackMoves ==
    ASSUME IndInv, NEW to \in 0 .. DecisionLevel, BackTo(to, << >>, NoReason)
    PROVE  Moves /\ DecisionLevel' = to
<1>1. AssignmentInv BY DEF IndInv
<1>2. /\ DecisionLevel' = to /\ Cut(to) \in 0 .. Len(trail)
      /\ DOMAIN trail = 1 .. Len(trail) /\ DOMAIN trail' = 1 .. Cut(to)
      /\ \A i \in DOMAIN trail' : /\ i \in DOMAIN trail
                                  /\ trail'[i] = trail[i]
                                  /\ level'[VarOf(trail[i])] = LevelOf(trail[i])
                                  /\ reason'[VarOf(trail[i])] = ReasonOf(trail[i])
  BY <1>1, GoBackInv, Zenon
<1>3. DecisionLevel \in Nat /\ \A i \in DOMAIN trail : i <= Cut(to) <=> LevelOf(trail[i]) <= to
  BY <1>1, CutFacts
<1>4. \A i \in DOMAIN trail' : Kept(i) BY <1>2 DEF Kept
<1>5. \A i \in DOMAIN trail : LevelOf(trail[i]) <= to => i \in DOMAIN trail' BY <1>1, <1>2, <1>3, TrailFacts
<1>6. ~ DecisionLevel' > DecisionLevel BY <1>2, <1>3
<1> QED BY <1>2, <1>4, <1>5, <1>6 DEF Moves

\* The solver goes back, or stays on its level, and a literal follows.
LEMMA PutMoves ==
    ASSUME IndInv, NEW to \in 0 .. DecisionLevel, NEW l \in Lits, NEW why \in Clause,
           BackTo(to, <<l>>, why), MayFollow(l, to, why)
    PROVE  Moves
<1>1. AssignmentInv BY DEF IndInv
<1>2. /\ DecisionLevel' = to
      /\ Cut(to) \in Nat /\ DOMAIN trail' = 1 .. Cut(to) + 1
      /\ \A i \in 1 .. Cut(to) : /\ i \in DOMAIN trail
                                 /\ trail'[i] = trail[i]
                                 /\ level'[VarOf(trail[i])] = LevelOf(trail[i])
                                 /\ reason'[VarOf(trail[i])] = ReasonOf(trail[i])
      /\ trail'[Cut(to) + 1] = l
      /\ level'[VarOf(l)] = to
      /\ reason'[VarOf(l)] = why
  BY <1>1, PutInv, Zenon
<1>3. /\ DecisionLevel \in Nat /\ DOMAIN trail = 1 .. Len(trail) /\ Len(trail) \in Nat
      /\ \A i \in DOMAIN trail : i <= Cut(to) <=> LevelOf(trail[i]) <= to
  BY <1>1, CutFacts
<1>4. \A i \in 1 .. Cut(to) : Kept(i)
  <2> TAKE i \in 1 .. Cut(to)
  <2>1. i \in DOMAIN trail' BY <1>2
  <2> QED BY <1>2, <2>1 DEF Kept
<1>5. \A i \in DOMAIN trail : LevelOf(trail[i]) <= to => i \in 1 .. Cut(to) BY <1>2, <1>3
<1>6. Came(Cut(to) + 1)
  <2>1. why = NoReason => to = 0 BY DEF MayFollow
  <2> QED BY <1>2, <2>1 DEF Came
<1>7. \A i \in DOMAIN trail' : i \in 1 .. Cut(to) \/ i = Cut(to) + 1 BY <1>2
<1>8. ~ DecisionLevel' > DecisionLevel BY <1>2, <1>3
<1> QED BY <1>2, <1>4, <1>5, <1>6, <1>7, <1>8 DEF Moves

\* A literal without a value is implied, or holds on level 0.
LEMMA EnqueueMoves ==
    ASSUME IndInv, NEW l \in Lits, NEW why \in Clause, Enqueue(l, why),
           ~ True(l), ~ False(l),
           IF why = NoReason THEN DecisionLevel = 0
           ELSE l \in why /\ \A m \in why \ {l} : False(m)
    PROVE  Moves /\ \E i \in DOMAIN trail' : trail'[i] = l /\ level'[VarOf(l)] = DecisionLevel
<1>1. AssignmentInv BY DEF IndInv
<1>2. /\ DecisionLevel' = DecisionLevel
      /\ Len(trail) \in Nat /\ DOMAIN trail = 1 .. Len(trail)
      /\ DOMAIN trail' = 1 .. Len(trail) + 1
      /\ \A i \in DOMAIN trail : /\ trail'[i] = trail[i]
                                 /\ level'[VarOf(trail[i])] = LevelOf(trail[i])
                                 /\ reason'[VarOf(trail[i])] = ReasonOf(trail[i])
      /\ trail'[Len(trail) + 1] = l
      /\ level'[VarOf(l)] = DecisionLevel
      /\ reason'[VarOf(l)] = why
  BY <1>1, EnqueueInv, Zenon
<1>3. \A i \in DOMAIN trail : Kept(i)
  <2> TAKE i \in DOMAIN trail
  <2>1. i \in DOMAIN trail' BY <1>2
  <2> QED BY <1>2, <2>1 DEF Kept
<1>4. Came(Len(trail) + 1) BY <1>2 DEF Came
<1>5. \A i \in DOMAIN trail' : i \in DOMAIN trail \/ i = Len(trail) + 1 BY <1>2
<1>6. ~ DecisionLevel' > DecisionLevel BY <1>1, <1>2, TrailFacts
<1>7. Len(trail) + 1 \in DOMAIN trail' BY <1>2
<1> QED BY <1>2, <1>3, <1>4, <1>5, <1>6, <1>7 DEF Moves

\* A literal without a value is decided.
LEMMA DecisionMoves ==
    ASSUME IndInv, pc = "decide", NEW l \in Lits, EnqueueDecision(l), Unassigned(l),
           DecisionLevel < Len(assumptions) => l = NextAssumption
    PROVE  Moves
<1>1. AssignmentInv /\ ~ True(l) /\ ~ False(l) BY DEF IndInv, Unassigned
<1>2. /\ DecisionLevel \in Nat /\ DecisionLevel' = DecisionLevel + 1
      /\ Len(trail) \in Nat /\ DOMAIN trail = 1 .. Len(trail)
      /\ DOMAIN trail' = 1 .. Len(trail) + 1
      /\ \A i \in DOMAIN trail : /\ trail'[i] = trail[i]
                                 /\ level'[VarOf(trail[i])] = LevelOf(trail[i])
                                 /\ reason'[VarOf(trail[i])] = ReasonOf(trail[i])
      /\ trail'[Len(trail) + 1] = l
      /\ level'[VarOf(l)] = DecisionLevel + 1
  BY <1>1, DecisionInv, Zenon
<1>3. \A i \in DOMAIN trail : Kept(i)
  <2> TAKE i \in DOMAIN trail
  <2>1. i \in DOMAIN trail' BY <1>2
  <2> QED BY <1>2, <2>1 DEF Kept
<1>4. Came(Len(trail) + 1) BY <1>2 DEF Came
<1>5. \A i \in DOMAIN trail' : i \in DOMAIN trail \/ i = Len(trail) + 1 BY <1>2
<1>6. Len(trail) + 1 \in DOMAIN trail' BY <1>2
<1> QED BY <1>2, <1>3, <1>4, <1>5, <1>6 DEF Moves

-----------------------------------------------------------------------------
(* Every step moves so *)

\* addClause_ puts a unit clause on level 0.
LEMMA AddClauseMoves == ASSUME IndInv, NEW C \in Input, AddClause(C) PROVE Moves
<1>1. CASE UNCHANGED assigned BY <1>1, StayMoves DEF assigned, ReasonOf
<1>2. CASE /\ ~ Satisfied(C)
           /\ \E l \in Reduced(C) : Reduced(C) = {l} /\ Enqueue(l, NoReason)
  <2>1. PICK l \in Reduced(C) : Enqueue(l, NoReason) BY <1>2
  <2>2. l \in Lits /\ ~ True(l) /\ ~ False(l) BY <1>2, InputAssumption DEF Reduced, Satisfied, Clause
  <2>3. DecisionLevel = 0 /\ NoReason \in Clause
    BY DEF AddClause, IndInv, Home, NoReason, Clause
  <2> QED BY <2>1, <2>2, <2>3, EnqueueMoves
<1> QED BY <1>1, <1>2 DEF AddClause

\* The solver goes back to level 0 at the end of a search.
LEMMA ReturnMoves ==
    ASSUME IndInv, NEW result, NEW lits, Return(result, lits) \/ Refine
    PROVE  Moves /\ DecisionLevel' = 0
<1>1. 0 \in 0 .. DecisionLevel BY TrailFacts DEF IndInv
<1>2. BackTo(0, << >>, NoReason) BY DEF Return, Refine
<1> QED BY <1>1, <1>2, BackMoves

\* What is propagated has a reason.
LEMMA PropagateMoves == ASSUME IndInv, Propagate PROVE Moves
<1>0. PICK C \in Database : \E l \in C : UnitUnder(C, l) /\ Implies(C, l) BY DEF Propagate
<1>1. PICK l \in C : UnitUnder(C, l) /\ Implies(C, l) BY <1>0
<1>2. /\ C \in Clause /\ l \in Lits /\ C # NoReason
      /\ ~ True(l) /\ ~ False(l) /\ \A m \in C \ {l} : False(m)
  BY <1>1 DEF Database, IndInv, TypeOK, Formula, Clause, UnitUnder, Unassigned, Falsified,
              NoReason
<1>3. Enqueue(l, C) BY <1>1 DEF Implies
<1> QED BY <1>2, <1>3, EnqueueMoves

\* Whatever minimization removes, a clause of the literals under analysis is
\* learned.
LEMMA LearnedFromWork ==
    ASSUME Learn
    PROVE  \E others \in SUBSET (work \ {Latest(work)}) : Learned(Latest(work), others)
<1> DEFINE first == Latest(work)
           seen == work \ {first}
           Short(mode) == seen \ Redundant(mode, seen)
<1>1. PICK mode \in CcMinModes, binary \in BOOLEAN :
         Learned(first, IF binary THEN Short(mode) \ RemovedByBinary(first, Short(mode))
                                  ELSE Short(mode))
  BY DEF Learn
<1> DEFINE rest == IF binary THEN Short(mode) \ RemovedByBinary(first, Short(mode))
                             ELSE Short(mode)
<1>2. rest \in SUBSET seen OBVIOUS
<1> HIDE DEF rest
<1>3. Learned(first, rest) BY <1>1 DEF rest
<1> QED BY <1>2, <1>3

\* The clause C of first and others that is learned, and where the solver jumps.
LEMMA LearnFacts ==
    ASSUME IndInv, Learn
    PROVE  \E others, C, to :
              LET first == Latest(work)
              IN  /\ C = {first} \cup others /\ first \notin others /\ C \subseteq work
                  /\ to = JumpLevel(C) /\ Learned(first, others)
                  /\ first \in Lits /\ LevelOf(first) = DecisionLevel /\ C \in Clause
                  /\ \A l \in C : l \in Lits /\ False(l) /\ LevelOf(l) > 0
                  /\ DecisionLevel \in Nat /\ to \in 0 .. DecisionLevel /\ to < DecisionLevel
                  /\ \A l \in C \ OnThisLevel(C) : LevelOf(l) <= to
                  /\ C \subseteq OnThisLevel(C) => to = 0
                  /\ ~ C \subseteq OnThisLevel(C) =>
                        \E l \in C \ OnThisLevel(C) : LevelOf(l) = to
<1> DEFINE first == Latest(work)
<1>1. pc = "analyze" BY DEF Learn
<1>2. PICK others \in SUBSET (work \ {first}) : Learned(first, others) BY LearnedFromWork
<1>3. PICK C : C = {first} \cup others OBVIOUS
<1>4. PICK to : to = JumpLevel(C) OBVIOUS
<1>5. /\ first \in OnThisLevel(work)
      /\ \A l \in work : l \in Lits /\ False(l) /\ LevelOf(l) > 0
  BY <1>1, LatestOnThisLevel DEF IndInv, TypeOK, Clause, WorkInv
<1>6. /\ first \notin others /\ C \subseteq work /\ first \in Lits
      /\ LevelOf(first) = DecisionLevel
      /\ C \in Clause /\ \A l \in C : l \in Lits /\ False(l) /\ LevelOf(l) > 0
  BY <1>2, <1>3, <1>5 DEF OnThisLevel, Clause
<1>7. DecisionLevel > 0 /\ DecisionLevel \in Nat BY <1>1, TrailFacts DEF IndInv, Home
<1> HIDE DEF first
<1>8. /\ to \in 0 .. DecisionLevel /\ to < DecisionLevel
      /\ \A l \in C \ OnThisLevel(C) : LevelOf(l) <= to
      /\ C \subseteq OnThisLevel(C) => to = 0
      /\ ~ C \subseteq OnThisLevel(C) => \E l \in C \ OnThisLevel(C) : LevelOf(l) = to
  BY <1>4, <1>6, <1>7, JumpLevelFacts
<1> QED BY <1>2, <1>3, <1>4, <1>6, <1>7, <1>8 DEF first

\* The first literal of a learned clause is implied where the solver jumps.
LEMMA LearnMoves ==
    ASSUME IndInv, Learn
    PROVE  Moves
<1> DEFINE first == Latest(work)
<1>1. PICK others, C, to :
         /\ C = {first} \cup others /\ first \notin others
         /\ to = JumpLevel(C) /\ Learned(first, others)
         /\ first \in Lits /\ LevelOf(first) = DecisionLevel /\ C \in Clause
         /\ \A l \in C : l \in Lits /\ False(l) /\ LevelOf(l) > 0
         /\ DecisionLevel \in Nat /\ to \in 0 .. DecisionLevel /\ to < DecisionLevel
         /\ \A l \in C \ OnThisLevel(C) : LevelOf(l) <= to
         /\ C \subseteq OnThisLevel(C) => to = 0
  BY LearnFacts
<1> HIDE DEF first
<1> DEFINE bi == OnThisLevel(others) # {}
<1>2. BackTo(to, IF bi THEN << >> ELSE <<first>>, IF others = {} THEN NoReason ELSE C)
  BY <1>1 DEF Learned
<1>3. CASE bi
  <2>1. BackTo(to, << >>, IF others = {} THEN NoReason ELSE C) BY <1>2, <1>3
  <2>2. BackTo(to, << >>, NoReason) BY <2>1 DEF BackTo
  <2> QED BY <1>1, <2>2, BackMoves
<1>4. CASE ~ bi
  <2> DEFINE why == IF others = {} THEN NoReason ELSE C
  <2>1. BackTo(to, <<first>>, why) BY <1>2, <1>4
  <2>2. why \in Clause BY <1>1 DEF NoReason, Clause
  <2>3. LevelOf(first) > to BY <1>1
  <2>4. \A m \in C \ {first} : False(m) /\ LevelOf(m) <= to BY <1>1, <1>4 DEF OnThisLevel
  <2>5. others = {} => to = 0 BY <1>1 DEF OnThisLevel
  <2>6. C # NoReason BY <1>1 DEF NoReason
  <2>7. IF why = NoReason THEN to = 0
        ELSE first \in why /\ \A m \in why \ {first} : False(m) /\ LevelOf(m) <= to
    BY <1>1, <2>4, <2>5, <2>6
  <2> HIDE DEF why
  <2>8. MayFollow(first, to, why) BY <1>1, <2>2, <2>3, <2>7, JumpFollows
  <2> QED BY <1>1, <2>1, <2>2, <2>8, PutMoves
<1> QED BY <1>3, <1>4

\* handleRestarts() keeps some levels.
LEMMA RestartMoves == ASSUME IndInv, Restart PROVE Moves
<1>1. PICK to \in 0 .. DecisionLevel : BackTo(to, << >>, NoReason) BY DEF Restart
<1> QED BY <1>1, BackMoves

\* simplify() takes the reasons of literals of level 0.
LEMMA TidyMoves == ASSUME IndInv, Tidy PROVE Moves
<1>1. UNCHANGED <<trail, trail_lim, level>> BY DEF Tidy
<1>2. ASSUME NEW i \in DOMAIN trail, LevelOf(trail[i]) > 0
      PROVE  reason'[VarOf(trail[i])] = ReasonOf(trail[i])
  <2>1. /\ trail[i] \in Lits /\ LevelOf(trail[i]) \in 0 .. DecisionLevel
        /\ DecisionLevel \in Nat /\ reason \in [Vars -> Clause]
    BY TrailFacts DEF IndInv
  <2>2. VarOf(trail[i]) \in Vars BY <2>1, LitFacts
  <2>3. DecisionLevel # 0 BY <1>2, <2>1
  <2>4. PICK off \in {{}} :
           reason' = [v \in Vars |-> IF reason[v] \in off /\ Locked(reason[v]) THEN NoReason
                                       ELSE reason[v]]
    BY <2>3 DEF Tidy
  <2> QED BY <2>2, <2>4 DEF ReasonOf
<1> QED BY <1>1, <1>2, StayMoves

\* The assumption of an empty level holds already.
LEMMA DummyLevelMoves == ASSUME IndInv, DummyLevel PROVE Moves
<1>1. /\ trail_lim' = Append(trail_lim, Len(trail)) /\ UNCHANGED <<trail, level, reason>>
      /\ pc = "decide" /\ True(NextAssumption)
  BY DEF DummyLevel
<1>2. /\ trail_lim \in Seq(Nat) /\ Len(trail) \in Nat /\ DecisionLevel \in Nat BY TrailFacts DEF IndInv
<1>3. DecisionLevel' = DecisionLevel + 1 BY <1>1, <1>2 DEF DecisionLevel
<1>4. \A i \in DOMAIN trail : Kept(i) BY <1>1 DEF Kept, LevelOf, ReasonOf
<1>5. \E i \in DOMAIN trail' : trail'[i] = NextAssumption BY <1>1 DEF True
<1> QED BY <1>1, <1>3, <1>4, <1>5 DEF Moves

\* The next assumption is decided before any other literal.
LEMMA DecideMoves == ASSUME IndInv, DecideAssumption \/ Decide PROVE Moves
<1>1. assumptions \in Seq(Lits) /\ DecisionLevel \in Nat BY TrailFacts DEF IndInv, TypeOK
<1>2. CASE DecideAssumption
  <2>1. NextAssumption \in Lits BY <1>1, <1>2 DEF DecideAssumption, NextAssumption
  <2> QED BY <1>2, <2>1, DecisionMoves DEF DecideAssumption
<1>3. CASE Decide
  <2>1. PICK l \in Open : EnqueueDecision(l) BY <1>3 DEF Decide
  <2>2. l \in Lits /\ Unassigned(l) BY DEF Open
  <2>3. pc = "decide" /\ ~ DecisionLevel < Len(assumptions) BY <1>1, <1>3 DEF Decide
  <2> QED BY <2>1, <2>2, <2>3, DecisionMoves
<1> QED BY <1>2, <1>3

\* So every step moves as said.
LEMMA StepMoves == ASSUME IndInv, [Next]_vars PROVE Moves
<1> USE DEF assigned
<1>1. CASE \E C \in Input : AddClause(C) BY <1>1, AddClauseMoves
<1>2. CASE UNCHANGED assigned BY <1>2, StayMoves DEF ReasonOf
<1>3. CASE (\E A \in Questions : Call(A)) \/ StartSearch BY <1>2, <1>3 DEF Call, StartSearch
<1>4. CASE AlreadyUnsat \/ ConflictOnLevel0 \/ SearchStops \/ ModelFound
  BY <1>4, ReturnMoves DEF AlreadyUnsat, ConflictOnLevel0, SearchStops, ModelFound
<1>5. CASE Propagate BY <1>5, PropagateMoves
<1>6. CASE AddingFails \/ PropagationEnds
  BY <1>2, <1>6 DEF AddingFails, PropagationEnds, EndPropagation
<1>7. CASE StartAnalysis \/ Resolve BY <1>2, <1>7 DEF StartAnalysis, Resolve
<1>8. CASE Learn BY <1>8, LearnMoves
<1>9. CASE Restart \/ Tidy BY <1>9, RestartMoves, TidyMoves
<1>10. CASE DummyLevel \/ DecideAssumption \/ Decide BY <1>10, DummyLevelMoves, DecideMoves
<1>11. CASE AssumptionFails \/ StopEarly \/ ExplainLatest
  BY <1>2, <1>11 DEF AssumptionFails, StopEarly, ExplainLatest
<1>12. CASE AssumptionsRefuted BY <1>12, ReturnMoves DEF AssumptionsRefuted
<1>13. CASE UNCHANGED vars BY <1>2, <1>13 DEF vars
<1> QED BY <1>1, <1>3, <1>4, <1>5, <1>6, <1>7, <1>8, <1>9, <1>10, <1>11, <1>12, <1>13
        DEF Next, Search

-----------------------------------------------------------------------------
(* Nothing is lost *)

\* What holds on level 0 after a step held before.
LEMMA Level0Stays ==
    ASSUME IndInv, Moves, IndInv', NEW A, Level0Holds(A)'
    PROVE  Level0Holds(A)
<1> SUFFICES ASSUME NEW i \in DOMAIN trail, LevelOf(trail[i]) = 0 PROVE Holds(A, trail[i])
  BY DEF Level0Holds
<1>1. trail_lim' \in Seq(Nat) BY DEF IndInv, TypeOK
<1>2. DecisionLevel' \in Nat BY <1>1 DEF DecisionLevel
<1>3. LevelOf(trail[i]) <= DecisionLevel' BY <1>2
<1>4. Kept(i) BY <1>3 DEF Moves
<1> QED BY <1>4 DEF Kept, Level0Holds, LevelOf

\* Only clauses that are satisfied on level 0 are removed.
LEMMA ClausesStay ==
    ASSUME IndInv, Search \/ (\E A \in Questions : Call(A)) \/ UNCHANGED vars
    PROVE  /\ given' = given /\ (ok' => ok)
           /\ \A C \in clauses : C \in clauses' \/ (DecisionLevel = 0 /\ Satisfied(C))
<1> USE DEF base
<1>1. CASE (\E A \in Questions : Call(A)) \/ UNCHANGED vars BY <1>1 DEF Call, vars
<1>2. CASE AlreadyUnsat \/ ConflictOnLevel0 \/ SearchStops \/ ModelFound
  BY <1>2 DEF AlreadyUnsat, ConflictOnLevel0, SearchStops, ModelFound, Return
<1>3. CASE AssumptionsRefuted
  <2>1. CASE Return("unsat", {}) BY <2>1 DEF Return
  <2>2. CASE Refine BY <2>2 DEF Refine
  <2> QED BY <1>3, <2>1, <2>2 DEF AssumptionsRefuted
<1>4. CASE StartSearch \/ Propagate \/ PropagationEnds
  BY <1>4 DEF StartSearch, Propagate, Implies, PropagationEnds, EndPropagation
<1>5. CASE AddingFails BY <1>5 DEF AddingFails
<1>6. CASE StartAnalysis \/ Resolve BY <1>6 DEF StartAnalysis, Resolve
<1>7. CASE Learn
  <2>1. PICK others : Learned(Latest(work), others) BY <1>7, LearnedFromWork
  <2>2. clauses \subseteq clauses' BY <2>1 DEF Learned
  <2> QED BY <1>7, <2>2 DEF Learn
<1>8. CASE Restart \/ StopEarly \/ ExplainLatest BY <1>8 DEF Restart, StopEarly, ExplainLatest
<1>9. CASE Tidy
  <2>1. given' = given /\ ok' = ok BY <1>9 DEF Tidy
  <2>2. PICK off \in {{}} \cup (IF DecisionLevel = 0
                                THEN {{C \in learnts : Satisfied(C)},
                                      {C \in Database : Satisfied(C)}}
                                ELSE {}) : clauses' = clauses \ off
    BY <1>9 DEF Tidy
  <2> QED BY <2>1, <2>2
<1>10. CASE DummyLevel \/ DecideAssumption \/ AssumptionFails \/ Decide
  BY <1>10 DEF DummyLevel, DecideAssumption, AssumptionFails, Decide
<1> QED BY <1>1, <1>2, <1>3, <1>4, <1>5, <1>6, <1>7, <1>8, <1>9, <1>10 DEF Search

\* Searching, learning and removing clauses lose nothing;
LEMMA SearchLosesNothing ==
    ASSUME IndInv, IndInv', Moves, NothingLost,
           Search \/ (\E A \in Questions : Call(A)) \/ UNCHANGED vars
    PROVE  NothingLost'
<1> SUFFICES ASSUME ok', NEW A \in SUBSET Vars, IsModel(A, clauses'), Level0Holds(A)'
             PROVE  IsModel(A, given')
  BY DEF NothingLost, Level0Holds
<1>1. /\ given' = given /\ ok
      /\ \A C \in clauses : C \in clauses' \/ (DecisionLevel = 0 /\ Satisfied(C))
  BY ClausesStay
<1>2. Level0Holds(A) BY Level0Stays
<1>3. ASSUME NEW C \in clauses, DecisionLevel = 0, Satisfied(C) PROVE Sat(A, C)
  <2>1. PICK l \in C : True(l) BY <1>3 DEF Satisfied
  <2>2. PICK i \in DOMAIN trail : trail[i] = l BY <2>1 DEF True
  <2>3. LevelOf(trail[i]) = 0
    <3>1. LevelOf(trail[i]) \in 0 .. DecisionLevel BY TrailFacts DEF IndInv
    <3> QED BY <1>3, <3>1
  <2> QED BY <1>2, <2>2, <2>3 DEF Level0Holds, Sat
<1>4. IsModel(A, clauses) BY <1>1, <1>3 DEF IsModel
<1> QED BY <1>1, <1>2, <1>4 DEF NothingLost, Level0Holds

\* neither does addClause_, which ignores and shortens clauses.
LEMMA AddClauseLosesNothing ==
    ASSUME IndInv, IndInv', Moves, NothingLost, NEW C \in Input, AddClause(C)
    PROVE  NothingLost'
<1> SUFFICES ASSUME ok', NEW A \in SUBSET Vars, IsModel(A, clauses'), Level0Holds(A)'
             PROVE  IsModel(A, given')
  BY DEF NothingLost, Level0Holds
<1> DEFINE R == Reduced(C)
<1>1. Level0Holds(A) BY Level0Stays
<1>2. /\ given' = given \cup {C} /\ ok /\ clauses \subseteq clauses'
      /\ \/ Satisfied(C) \/ Tautology(C)
         \/ ~ Satisfied(C) /\ \E l \in R : R = {l} /\ Enqueue(l, NoReason)
         \/ R \in clauses'
  BY DEF AddClause
<1>3. IsModel(A, given)
  <2>1. IsModel(A, clauses) BY <1>2 DEF IsModel
  <2> QED BY <1>1, <1>2, <2>1 DEF NothingLost, Level0Holds
<1>4. C \in Clause BY InputAssumption
<1>5. DecisionLevel = 0 /\ AssignmentInv BY DEF AddClause, IndInv, Home
<1>6. Sat(A, C)
  <2>1. CASE Satisfied(C)
    <3>1. PICK l \in C : True(l) BY <2>1 DEF Satisfied
    <3>2. PICK i \in DOMAIN trail : trail[i] = l BY <3>1 DEF True
    <3>3. LevelOf(trail[i]) = 0
      <4>1. LevelOf(trail[i]) \in 0 .. DecisionLevel BY <1>5, TrailFacts
      <4> QED BY <1>5, <4>1
    <3> QED BY <1>1, <3>2, <3>3 DEF Level0Holds, Sat
  <2>2. CASE Tautology(C)
    <3>1. PICK l \in C : -l \in C BY <2>2 DEF Tautology
    <3>2. l \in Lits BY <1>4 DEF Clause
    <3> QED BY <3>1, <3>2, HoldsNegated DEF Sat
  <2>3. CASE ~ Satisfied(C) /\ \E l \in R : R = {l} /\ Enqueue(l, NoReason)
    <3>1. PICK l \in R : Enqueue(l, NoReason) BY <2>3
    <3>2. l \in C /\ l \in Lits /\ ~ True(l) /\ ~ False(l)
      BY <1>4, <2>3 DEF Reduced, Satisfied, Clause
    <3>3. NoReason \in Clause BY DEF NoReason, Clause
    <3>4. PICK i \in DOMAIN trail' : trail'[i] = l /\ level'[VarOf(l)] = DecisionLevel
      BY <1>5, <3>1, <3>2, <3>3, EnqueueMoves
    <3>5. Holds(A, l) BY <1>5, <3>4 DEF Level0Holds, LevelOf
    <3> QED BY <3>2, <3>5 DEF Sat
  <2>4. CASE R \in clauses'
    <3>1. Sat(A, R) BY <2>4 DEF IsModel
    <3> QED BY <3>1 DEF Sat, Reduced
  <2> QED BY <1>2, <2>1, <2>2, <2>3, <2>4
<1> QED BY <1>2, <1>3, <1>6 DEF IsModel

\* In the beginning all clauses are kept.
LEMMA InitLosesNothing == Init => NothingLost
BY DEF Init, NothingLost

LEMMA StepLosesNothing == IndInv /\ NothingLost /\ [Next]_vars => NothingLost'
<1> SUFFICES ASSUME IndInv, NothingLost, [Next]_vars PROVE NothingLost' OBVIOUS
<1>1. IndInv' /\ Moves BY NextInv, StepMoves
<1>2. CASE \E C \in Input : AddClause(C) BY <1>1, <1>2, AddClauseLosesNothing
<1>3. CASE Search \/ (\E A \in Questions : Call(A)) \/ UNCHANGED vars
  BY <1>1, <1>3, SearchLosesNothing
<1> QED BY <1>2, <1>3 DEF Next

\* An assignment that satisfies the clauses that are kept and the literals of
\* level 0 satisfies all that was given: addClause_ may drop and shorten
\* clauses, simplify() and reduceDB() may remove them, but no constraint goes.
THEOREM NothingIsLost == Spec => []NothingLost
<1>1. Init => IndInv /\ NothingLost BY InitInv, InitLosesNothing
<1>2. IndInv /\ NothingLost /\ [Next]_vars => (IndInv /\ NothingLost)'
  BY NextInv, StepLosesNothing
<1> QED BY <1>1, <1>2, PTL DEF Spec

-----------------------------------------------------------------------------
(* The assumptions come first *)

\* While the solver searches.
Searching == pc \in {"propagate", "analyze", "quiet", "decide", "final"}

\* A search begins on level 0, and its assumptions stay.
LEMMA SearchBegins ==
    ASSUME IndInv, [Next]_vars, Searching'
    PROVE  DecisionLevel' = 0 \/ (Searching /\ assumptions' = assumptions)
<1> USE DEF Searching, asked
<1>1. CASE \E C \in Input : AddClause(C) BY <1>1 DEF AddClause
<1>2. CASE \E A \in Questions : Call(A) BY <1>2 DEF Call
<1>3. CASE StartSearch
  <2>1. DecisionLevel' = DecisionLevel BY <1>3 DEF StartSearch, assigned, DecisionLevel
  <2> QED BY <1>3, <2>1 DEF StartSearch, IndInv, Home
<1>4. CASE AlreadyUnsat \/ ConflictOnLevel0 \/ SearchStops \/ ModelFound
  BY <1>4 DEF AlreadyUnsat, ConflictOnLevel0, SearchStops, ModelFound, Return
<1>5. CASE AssumptionsRefuted
  <2>1. CASE Return("unsat", {}) BY <2>1 DEF Return
  <2>2. CASE Refine BY <2>2, ReturnMoves
  <2> QED BY <1>5, <2>1, <2>2 DEF AssumptionsRefuted
<1>6. CASE Propagate \/ AddingFails \/ PropagationEnds
  <2>1. CASE Propagate BY <2>1 DEF Propagate, Implies
  <2>2. CASE AddingFails BY <2>2 DEF AddingFails
  <2>3. CASE PropagationEnds BY <2>3 DEF PropagationEnds, EndPropagation
  <2> QED BY <1>6, <2>1, <2>2, <2>3
<1>7. CASE StartAnalysis \/ Resolve \/ Learn BY <1>7 DEF StartAnalysis, Resolve, Learn
<1>8. CASE Restart \/ Tidy BY <1>8 DEF Restart, Tidy
<1>9. CASE DummyLevel \/ DecideAssumption \/ AssumptionFails \/ Decide
  BY <1>9 DEF DummyLevel, DecideAssumption, AssumptionFails, Decide
<1>10. CASE StopEarly \/ ExplainLatest BY <1>10 DEF StopEarly, ExplainLatest
<1>11. CASE UNCHANGED vars BY <1>11 DEF vars
<1> QED BY <1>1, <1>2, <1>3, <1>4, <1>5, <1>6, <1>7, <1>8, <1>9, <1>10, <1>11 DEF Next, Search

\* The literal that opens the level of an assumption is the assumption.
LEMMA StepAssumptionsFirst == IndInv /\ AssumptionsFirst /\ [Next]_vars => AssumptionsFirst'
<1> SUFFICES ASSUME IndInv, AssumptionsFirst, [Next]_vars PROVE AssumptionsFirst' OBVIOUS
<1>1. IndInv' /\ Moves BY NextInv, StepMoves
<1> SUFFICES ASSUME Searching', NEW i \in DOMAIN trail',
                    level'[VarOf(trail'[i])] \in 1 .. Len(assumptions'),
                    reason'[VarOf(trail'[i])] = NoReason
             PROVE  trail'[i] = assumptions'[level'[VarOf(trail'[i])]]
  BY DEF AssumptionsFirst, Searching, LevelOf, ReasonOf
<1> DEFINE k == level'[VarOf(trail'[i])]
<1>2. Len(assumptions') \in Nat
  <2>1. assumptions' \in Seq(Lits) BY <1>1 DEF IndInv, TypeOK
  <2> QED BY <2>1
<1>3. DecisionLevel' # 0
  <2>1. AssignmentInv' BY <1>1 DEF IndInv
  <2>2. /\ trail_lim' \in Seq(Nat) /\ level' \in [Vars -> Nat]
        /\ k <= DecisionLevel'
    BY <2>1 DEF AssignmentInv, AssignmentOK, LevelsMatch, LevelOf
  <2> QED BY <1>2, <2>2
<1>4. Searching /\ assumptions' = assumptions BY <1>3, SearchBegins
<1>5. CASE Kept(i)
  <2>1. trail'[i] = trail[i] /\ LevelOf(trail[i]) = k /\ ReasonOf(trail[i]) = NoReason
    BY <1>2, <1>5 DEF Kept
  <2> QED BY <1>4, <1>5, <2>1 DEF AssumptionsFirst, Searching, Kept
<1>6. CASE Came(i)
  <2>1. k = DecisionLevel + 1 /\ (DecisionLevel < Len(assumptions) => trail'[i] = NextAssumption)
    BY <1>2, <1>6 DEF Came
  <2>2. DecisionLevel \in Nat BY TrailFacts DEF IndInv
  <2> QED BY <1>2, <1>4, <2>1, <2>2 DEF NextAssumption
<1> QED BY <1>1, <1>5, <1>6 DEF Moves

\* What analyzeFinal() takes for granted: up to the number of assumptions, the
\* literal of a level that has no reason is the assumption of that level.
THEOREM AssumptionsComeFirst == Spec => []AssumptionsFirst
<1>1. Init => IndInv /\ AssumptionsFirst BY InitInv DEF Init, AssumptionsFirst
<1>2. IndInv /\ AssumptionsFirst /\ [Next]_vars => (IndInv /\ AssumptionsFirst)'
  BY NextInv, StepAssumptionsFirst
<1> QED BY <1>1, <1>2, PTL DEF Spec

-----------------------------------------------------------------------------
(* What an answer rests on *)

\* What the program that uses the solver assumes.
Question == Range(IF refining THEN saved ELSE assumptions)

\* The solver does not search with clauses that are contradictory.
SearchesIfOk == pc \notin {"idle", "called"} => ok

\* Up to the level the solver is on, the assumptions hold.
AssumptionsHold ==
    Searching => \A k \in 1 .. DecisionLevel :
                    k <= Len(assumptions) =>
                       \E i \in DOMAIN trail : trail[i] = assumptions[k] /\ LevelOf(trail[i]) <= k

\* The conflict is empty until there is one, then it is a clause over the
\* negated assumptions, and while it is refined it holds.
ConflictInv ==
    /\ pc \notin {"idle", "adding", "final"} /\ ~ refining => conflict = << >>
    /\ pc \notin {"idle", "adding"} => Range(conflict) \subseteq Negated(Question)
    /\ refining => Range(assumptions) \subseteq Range(saved)
    /\ refining /\ pc # "final" => Entails(given, Range(conflict))
    /\ pc = "final" => DecisionLevel <= Len(assumptions)

\* The inductive invariant.
AnswerInv == /\ IndInv /\ NothingLost /\ AssumptionsFirst
             /\ SearchesIfOk /\ AssumptionsHold /\ ConflictInv

\* solve_ and addClause_ go on only while ok is true.
LEMMA StepSearchesIfOk == IndInv /\ SearchesIfOk /\ [Next]_vars => SearchesIfOk'
<1> SUFFICES ASSUME IndInv, SearchesIfOk, [Next]_vars PROVE SearchesIfOk' OBVIOUS
<1> USE DEF SearchesIfOk, base
<1>1. CASE \E C \in Input : AddClause(C) BY <1>1 DEF AddClause
<1>2. CASE \E A \in Questions : Call(A) BY <1>2 DEF Call
<1>3. CASE AlreadyUnsat \/ ConflictOnLevel0 \/ SearchStops \/ ModelFound
  BY <1>3 DEF AlreadyUnsat, ConflictOnLevel0, SearchStops, ModelFound, Return
<1>4. CASE AssumptionsRefuted
  <2>1. CASE Return("unsat", {}) BY <2>1 DEF Return
  <2>2. CASE Refine BY <1>4, <2>2 DEF AssumptionsRefuted, Refine
  <2> QED BY <1>4, <2>1, <2>2 DEF AssumptionsRefuted
<1>5. CASE StartSearch \/ AddingFails BY <1>5 DEF StartSearch, AddingFails
<1>6. CASE Propagate BY <1>6 DEF Propagate, Implies
<1>7. CASE PropagationEnds BY <1>7 DEF PropagationEnds, EndPropagation
<1>8. CASE StartAnalysis \/ Resolve \/ Learn BY <1>8 DEF StartAnalysis, Resolve, Learn
<1>9. CASE Restart \/ Tidy BY <1>9 DEF Restart, Tidy
<1>10. CASE DummyLevel \/ DecideAssumption \/ AssumptionFails \/ Decide
  BY <1>10 DEF DummyLevel, DecideAssumption, AssumptionFails, Decide
<1>11. CASE StopEarly \/ ExplainLatest BY <1>11 DEF StopEarly, ExplainLatest
<1>12. CASE UNCHANGED vars BY <1>12 DEF vars
<1> QED BY <1>1, <1>2, <1>3, <1>4, <1>5, <1>6, <1>7, <1>8, <1>9, <1>10, <1>11, <1>12
        DEF Next, Search

\* A level that is opened holds the next assumption, and what is on a level
\* stays as long as the level does.
LEMMA StepAssumptionsHold == IndInv /\ AssumptionsHold /\ [Next]_vars => AssumptionsHold'
<1> SUFFICES ASSUME IndInv, AssumptionsHold, [Next]_vars PROVE AssumptionsHold' OBVIOUS
<1>1. IndInv' /\ Moves BY NextInv, StepMoves
<1> SUFFICES ASSUME Searching', NEW k \in 1 .. DecisionLevel', k <= Len(assumptions')
             PROVE  \E i \in DOMAIN trail' : /\ trail'[i] = assumptions'[k]
                                             /\ level'[VarOf(trail'[i])] <= k
  BY DEF AssumptionsHold, LevelOf
<1>2. /\ DecisionLevel \in Nat /\ DecisionLevel' \in Nat
      /\ \A i \in DOMAIN trail : LevelOf(trail[i]) \in Nat
      /\ \A i \in DOMAIN trail' : level'[VarOf(trail'[i])] <= DecisionLevel'
  <2>1. AssignmentInv' BY <1>1 DEF IndInv
  <2>2. trail_lim' \in Seq(Nat) BY <2>1 DEF AssignmentInv, AssignmentOK
  <2>3. DecisionLevel' \in Nat BY <2>2 DEF DecisionLevel
  <2>4. \A i \in DOMAIN trail' : level'[VarOf(trail'[i])] <= DecisionLevel'
    BY <2>1 DEF AssignmentInv, LevelsMatch, LevelOf
  <2>5. DecisionLevel \in Nat /\ \A i \in DOMAIN trail : LevelOf(trail[i]) \in Nat
    BY TrailFacts DEF IndInv
  <2> QED BY <2>3, <2>4, <2>5
<1>3. Searching /\ assumptions' = assumptions BY <1>2, SearchBegins
<1>4. CASE k <= DecisionLevel
  <2>1. k \in 1 .. DecisionLevel BY <1>2, <1>4
  <2>2. PICK i \in DOMAIN trail : trail[i] = assumptions[k] /\ LevelOf(trail[i]) <= k
    BY <1>3, <2>1 DEF AssumptionsHold
  <2>3. LevelOf(trail[i]) <= DecisionLevel' BY <1>2, <2>2
  <2>4. Kept(i) BY <1>1, <2>3 DEF Moves
  <2> QED BY <1>3, <2>2, <2>4 DEF Kept
<1>5. CASE ~ k <= DecisionLevel
  <2>1. DecisionLevel' = DecisionLevel + 1 /\ k = DecisionLevel + 1
    BY <1>1, <1>2, <1>5 DEF Moves
  <2>2. Len(assumptions) \in Nat
    <3>1. assumptions \in Seq(Lits) BY DEF IndInv, TypeOK
    <3> QED BY <3>1
  <2>3. PICK i \in DOMAIN trail' : trail'[i] = NextAssumption
    BY <1>1, <1>2, <1>3, <2>1, <2>2 DEF Moves
  <2> QED BY <1>2, <1>3, <2>1, <2>3 DEF NextAssumption
<1> QED BY <1>4, <1>5

\* solve_ ends: there is nothing left to refine.
LEMMA ReturnConflict ==
    ASSUME NEW result, NEW lits, Return(result, lits)
    PROVE  ConflictInv'
BY DEF Return, ConflictInv

\* The steps that leave the conflict and the question alone.
LEMMA SameConflict ==
    ASSUME IndInv, ConflictInv, UNCHANGED <<conflict, asked>>, pc # "final", pc' # "final",
           pc' \in {"idle", "adding"} \/ pc \notin {"idle", "adding"},
           given' = given \/ pc = "idle"
    PROVE  ConflictInv'
<1>1. UNCHANGED <<conflict, assumptions, saved, refining>> BY DEF asked
<1>2. Question' = Question BY <1>1 DEF Question
<1>3. refining => given' = given BY DEF IndInv, Home
<1> QED BY <1>1, <1>2, <1>3 DEF ConflictInv

\* A new call has no conflict yet.
LEMMA CallConflict == ASSUME IndInv, ConflictInv, NEW A \in Questions, Call(A) PROVE ConflictInv'
<1>1. conflict' = << >> /\ pc' = "called" /\ ~ refining' BY DEF Call, IndInv, Home
<1>2. Range(<< >>) = {} BY DEF Range
<1> QED BY <1>1, <1>2 DEF ConflictInv

\* The conflict consists of negated assumptions, and holds when nothing is left
\* under analysis: it can be assumed in turn.
LEMMA RefineConflict ==
    ASSUME IndInv, ConflictInv, pc = "final", work = {}, Refine
    PROVE  ConflictInv'
<1>1. /\ ~ refining /\ pc' = "propagate" /\ refining' = TRUE /\ saved' = assumptions
      /\ assumptions' = [i \in DOMAIN conflict |-> -conflict[i]]
      /\ conflict' = conflict /\ given' = given
  BY DEF Refine, base, answer
<1>2. Question = Range(assumptions) /\ Question' = Range(assumptions) BY <1>1 DEF Question
<1>3. Range(conflict) \subseteq Negated(Range(assumptions)) BY <1>2 DEF ConflictInv
<1>4. Range(assumptions) \subseteq Lits
  <2>1. assumptions \in Seq(Lits) BY DEF IndInv, TypeOK
  <2>2. \A i \in DOMAIN assumptions : assumptions[i] \in Lits BY <2>1
  <2> QED BY <2>2 DEF Range
<1>5. Range(assumptions') \subseteq Range(saved')
  <2> SUFFICES ASSUME NEW i \in DOMAIN conflict PROVE -conflict[i] \in Range(assumptions)
    BY <1>1 DEF Range
  <2>1. conflict[i] \in Negated(Range(assumptions)) BY <1>3 DEF Range
  <2>2. PICK q \in Range(assumptions) : conflict[i] = -q BY <2>1 DEF Negated
  <2>3. -(-q) = q BY <1>4, LitFacts
  <2> QED BY <2>2, <2>3
<1>6. Entails(given, Range(conflict))
  <2> SUFFICES ASSUME NEW A \in SUBSET Vars, IsModel(A, given) PROVE Sat(A, Range(conflict))
    BY DEF Entails
  <2>1. Sat(A, work \cup Range(conflict)) BY ModelFacts
  <2>2. work \cup Range(conflict) = Range(conflict) OBVIOUS
  <2> QED BY <2>1, <2>2
<1> QED BY <1>1, <1>2, <1>3, <1>5, <1>6 DEF ConflictInv

\* analyzeFinal() begins with one false assumption, or with none.
LEMMA FinalBegins ==
    ASSUME IndInv, ConflictInv, AssumptionFails \/ StopEarly
    PROVE  ConflictInv'
<1>1. /\ UNCHANGED <<assumptions, saved, refining, trail_lim>> /\ pc' = "final"
      /\ pc \in {"decide", "propagate"}
  BY DEF AssumptionFails, StopEarly, asked, assigned
<1>2. assumptions \in Seq(Lits) /\ DecisionLevel \in Nat /\ DecisionLevel' = DecisionLevel
  BY <1>1, TrailFacts DEF IndInv, TypeOK, DecisionLevel
<1>3. Len(assumptions) \in Nat /\ DOMAIN assumptions = 1 .. Len(assumptions) BY <1>2
<1>4. DecisionLevel' <= Len(assumptions') BY <1>1, <1>2, <1>3 DEF AssumptionFails, StopEarly
<1>5. refining => Range(assumptions) \subseteq Range(saved) BY DEF ConflictInv
<1>6. Range(conflict') \subseteq Negated(Range(assumptions))
  <2>1. CASE AssumptionFails
    <3>1. PICK p \in Prefetched : conflict' = <<-p>> BY <2>1 DEF AssumptionFails
    <3>2. DecisionLevel + 1 \in 1 .. Len(assumptions) BY <1>2, <1>3, <2>1 DEF AssumptionFails
    <3>3. \A i \in DecisionLevel + 2 .. Len(assumptions) : i \in 1 .. Len(assumptions)
      BY <1>2, <1>3
    <3>4. p \in Range(assumptions)
      BY <1>3, <3>2, <3>3 DEF Prefetched, NextAssumption, Range
    <3>5. Range(<<-p>>) = {-p} BY DEF Range
    <3> QED BY <3>1, <3>4, <3>5 DEF Negated
  <2>2. CASE StopEarly
    <3>1. Range(<< >>) = {} BY DEF Range
    <3> QED BY <2>2, <3>1 DEF StopEarly
  <2> QED BY <2>1, <2>2
<1>7. Range(conflict') \subseteq Negated(Question')
  BY <1>1, <1>5, <1>6 DEF Question, Negated
<1> QED BY <1>1, <1>4, <1>5, <1>7 DEF ConflictInv

\* A decision that analyzeFinal() meets is an assumption.
LEMMA ExplainConflict ==
    ASSUME IndInv, AssumptionsFirst, ConflictInv, ExplainLatest
    PROVE  ConflictInv'
<1> DEFINE l == Latest(work)
<1>1. /\ pc = "final" /\ pc' = "final" /\ work # {}
      /\ UNCHANGED <<assumptions, saved, refining, trail_lim>>
      /\ \/ ReasonOf(l) = NoReason /\ conflict' = Append(conflict, l)
         \/ conflict' = conflict
  BY DEF ExplainLatest, asked, assigned
<1>2. AssignmentInv /\ work \in SUBSET Lits /\ \A m \in work : False(m) /\ LevelOf(m) > 0
  BY <1>1 DEF IndInv, TypeOK, WorkInv, Clause
<1>3. l \in work BY <1>1, <1>2, LatestFacts
<1> HIDE DEF l
<1>4. DecisionLevel' = DecisionLevel /\ Question' = Question
  BY <1>1 DEF DecisionLevel, Question
<1>5. ReasonOf(l) = NoReason => l \in Negated(Question)
  <2> SUFFICES ASSUME ReasonOf(l) = NoReason PROVE l \in Negated(Question) OBVIOUS
  <2> DEFINE i == Index(l)
             k == LevelOf(l)
  <2>1. /\ i \in DOMAIN trail /\ trail[i] = -l /\ LevelOf(trail[i]) = k
        /\ ReasonOf(trail[i]) = NoReason /\ k \in 0 .. DecisionLevel /\ k > 0
        /\ DecisionLevel \in Nat
    BY <1>2, <1>3, FalseFacts, TrailFacts
  <2>2. /\ assumptions \in Seq(Lits) /\ DecisionLevel <= Len(assumptions)
    BY <1>1 DEF IndInv, TypeOK, ConflictInv
  <2>3. k \in 1 .. Len(assumptions) /\ DOMAIN assumptions = 1 .. Len(assumptions) BY <2>1, <2>2
  <2>4. trail[i] = assumptions[k] BY <1>1, <2>1, <2>3 DEF AssumptionsFirst
  <2>5. -l \in Range(assumptions) BY <2>1, <2>3, <2>4 DEF Range
  <2>6. -l \in Question BY <2>5 DEF Question, ConflictInv
  <2>7. -(-l) = l BY <1>2, <1>3, LitFacts
  <2> QED BY <2>6, <2>7 DEF Negated
<1>6. Range(conflict') \subseteq Negated(Question)
  <2>1. conflict \in Seq(Lits) /\ l \in Lits BY <1>2, <1>3 DEF IndInv, TypeOK
  <2>2. Range(conflict) \subseteq Negated(Question) BY <1>1 DEF ConflictInv
  <2> QED BY <1>1, <1>5, <2>1, <2>2, AppendRange
<1> QED BY <1>1, <1>4, <1>6 DEF ConflictInv

LEMMA StepConflictInv ==
    IndInv /\ AssumptionsFirst /\ ConflictInv /\ [Next]_vars => ConflictInv'
<1> SUFFICES ASSUME IndInv, AssumptionsFirst, ConflictInv, [Next]_vars PROVE ConflictInv'
  OBVIOUS
<1> USE DEF base, answer
<1>1. CASE \E C \in Input : AddClause(C) BY <1>1, SameConflict DEF AddClause
<1>2. CASE \E A \in Questions : Call(A) BY <1>2, CallConflict
<1>3. CASE AlreadyUnsat \/ ConflictOnLevel0 \/ SearchStops \/ ModelFound
  BY <1>3, ReturnConflict DEF AlreadyUnsat, ConflictOnLevel0, SearchStops, ModelFound
<1>4. CASE AssumptionsRefuted BY <1>4, ReturnConflict, RefineConflict DEF AssumptionsRefuted
<1>5. CASE StartSearch \/ AddingFails BY <1>5, SameConflict DEF StartSearch, AddingFails
<1>6. CASE Propagate BY <1>6, SameConflict DEF Propagate, Implies
<1>7. CASE PropagationEnds BY <1>7, SameConflict DEF PropagationEnds, EndPropagation
<1>8. CASE StartAnalysis \/ Resolve \/ Learn
  BY <1>8, SameConflict DEF StartAnalysis, Resolve, Learn
<1>9. CASE Restart \/ Tidy BY <1>9, SameConflict DEF Restart, Tidy
<1>10. CASE DummyLevel \/ DecideAssumption \/ Decide
  BY <1>10, SameConflict DEF DummyLevel, DecideAssumption, Decide
<1>11. CASE AssumptionFails \/ StopEarly BY <1>11, FinalBegins
<1>12. CASE ExplainLatest BY <1>12, ExplainConflict
<1>13. CASE UNCHANGED vars
  <2>1. DecisionLevel' = DecisionLevel /\ Question' = Question
    BY <1>13 DEF vars, asked, assigned, DecisionLevel, Question
  <2> QED BY <1>13, <2>1 DEF vars, asked, ConflictInv
<1> QED BY <1>1, <1>2, <1>3, <1>4, <1>5, <1>6, <1>7, <1>8, <1>9, <1>10, <1>11, <1>12, <1>13
        DEF Next, Search

-----------------------------------------------------------------------------
(* The promise is kept *)

\* What the program that uses the solver sees, besides the question.
Verdict == IF pc \in {"idle", "adding"} THEN status ELSE "open"
Witness == IF pc \notin {"idle", "adding"} THEN {}
           ELSE IF status = "unsat" THEN Range(conflict) ELSE model

LEMMA SameMeaning ==
    /\ Promise!Clause = Clause /\ Promise!Formula = Formula /\ Promise!Lits = Lits
    /\ \A C : Promise!Negated(C) = Negated(C)
    /\ \A A : Promise!LitsOf(A) = LitsOf(A)
    /\ \A A, F : Promise!IsModel(A, F) <=> IsModel(A, F)
    /\ \A F, C : Promise!Entails(F, C) <=> Entails(F, C)
BY DEF Promise!Clause, Clause, Promise!Formula, Formula, Promise!Lits, Lits, Promise!Negated,
       Negated, Promise!LitsOf, LitsOf, Promise!IsModel, IsModel, Promise!Entails, Entails,
       Promise!Sat, Sat, Promise!Holds, Holds

\* In the beginning nothing was asked.
LEMMA InitPromise == Init => Promise!Init
<1> SUFFICES ASSUME Init PROVE Promise!Init OBVIOUS
<1>1. Start \in Formula BY StartAssumption DEF Formula
<1>2. Range(<< >>) = {} BY DEF Range
<1> QED BY <1>1, <1>2, SameMeaning DEF Init, Promise!Init

\* Most steps are inside a call, or change nothing that is seen.
LEMMA SilentStep ==
    ASSUME given' = given, Question' = Question,
           pc \in {"idle", "adding"} <=> pc' \in {"idle", "adding"},
           pc \in {"idle", "adding"} => UNCHANGED answer
    PROVE  UNCHANGED Promise!vars
<1>1. Verdict' = Verdict /\ Witness' = Witness BY DEF Verdict, Witness, answer
<1> QED BY <1>1 DEF Promise!vars, Question, Verdict, Witness

\* addClause_ adds to the formula.
LEMMA AddClausePromise == ASSUME IndInv, NEW C \in Input, AddClause(C) PROVE Promise!Add
<1>1. /\ pc = "idle" /\ pc' \in {"idle", "adding"} /\ given' = given \cup {C}
      /\ UNCHANGED <<asked, answer>>
  BY DEF AddClause
<1>2. status # "open" BY DEF IndInv, TypeOK
<1>3. C \in Promise!Clause BY InputAssumption, SameMeaning
<1>4. Question' = Question /\ Verdict' = Verdict /\ Witness' = Witness /\ Verdict # "open"
  BY <1>1, <1>2 DEF Question, Verdict, Witness, asked, answer
<1> QED BY <1>1, <1>3, <1>4 DEF Promise!Add, Question, Verdict, Witness

\* solve_ is called with a new question.
LEMMA CallPromise == ASSUME IndInv, NEW A \in Questions, Call(A) PROVE Promise!Ask
<1>1. /\ pc = "idle" /\ pc' = "called" /\ given' = given /\ assumptions' = A /\ ~ refining'
  BY DEF Call, base, IndInv, Home
<1>2. Question' = Range(A) BY <1>1 DEF Question
<1>3. Range(A) \in SUBSET Promise!Lits
  <2>1. A \in Seq(Lits) BY QuestionsAssumption
  <2>2. \A i \in DOMAIN A : A[i] \in Lits BY <2>1
  <2> QED BY <2>2, SameMeaning DEF Range
<1>4. status # "open" BY DEF IndInv, TypeOK
<1>5. Verdict # "open" /\ Verdict' = "open" /\ Witness' = {}
  BY <1>1, <1>4 DEF Verdict, Witness
<1> QED BY <1>1, <1>2, <1>3, <1>5 DEF Promise!Ask, Question, Verdict, Witness

\* What is seen of the end of solve_.
LEMMA ReturnSeen ==
    ASSUME pc \notin {"idle", "adding"}, NEW result, NEW lits, Return(result, lits)
    PROVE  /\ given' = given /\ Question' = Question /\ Verdict = "open"
           /\ Verdict' = IF refining THEN "unsat" ELSE result
           /\ Witness' = IF refining \/ result = "unsat" THEN Range(conflict) ELSE lits
<1>1. /\ pc' = "idle" /\ ~ refining' /\ given' = given /\ conflict' = conflict
      /\ status' = IF refining THEN "unsat" ELSE result
      /\ model' = lits
      /\ assumptions' = IF refining THEN saved ELSE assumptions
  BY DEF Return
<1> QED BY <1>1 DEF Question, Verdict, Witness

\* The conflict of a question that has no model is a clause over its negated
\* assumptions, and it follows from the formula.
LEMMA UnsatPromise ==
    ASSUME AnswerInv, pc \notin {"idle", "adding"}, NEW result, NEW lits, Return(result, lits),
           refining \/ result = "unsat",
           ~ (refining /\ pc # "final") => Entails(given, Range(conflict))
    PROVE  Promise!AnswerUnsat
<1>1. Entails(given, Range(conflict)) /\ Range(conflict) \subseteq Negated(Question)
  BY DEF AnswerInv, ConflictInv
<1>2. /\ given' = given /\ Question' = Question /\ Verdict = "open"
      /\ Verdict' = "unsat" /\ Witness' = Range(conflict)
  BY ReturnSeen
<1>3. Witness' \in SUBSET Promise!Negated(Question) /\ Promise!Entails(given, Witness')
  BY <1>1, <1>2, SameMeaning
<1> QED BY <1>2, <1>3 DEF Promise!AnswerUnsat, Question, Verdict, Witness

\* Where the clauses alone are contradictory any conflict follows.
LEMMA ContradictionPromise ==
    ASSUME AnswerInv, AlreadyUnsat \/ ConflictOnLevel0
    PROVE  Promise!AnswerUnsat
<1>1. pc \notin {"idle", "adding"} /\ Return("unsat", {}) BY DEF AlreadyUnsat, ConflictOnLevel0
<1>2. IndInv BY DEF AnswerInv
<1>3. ASSUME NEW A \in SUBSET Vars, IsModel(A, given) PROVE FALSE
  BY <1>2, <1>3, ModelFacts, Level0Conflict DEF AlreadyUnsat, ConflictOnLevel0
<1>4. Entails(given, Range(conflict)) BY <1>3 DEF Entails
<1> QED BY <1>1, <1>4, UnsatPromise

\* search() that stops leaves the question open, but for a conflict that was
\* to be refined.
LEMMA SearchStopsPromise ==
    ASSUME AnswerInv, SearchStops
    PROVE  Promise!AnswerUnsat \/ Promise!GiveUp
<1>1. pc = "quiet" /\ Return("undef", {}) BY DEF SearchStops
<1>2. CASE refining BY <1>1, <1>2, UnsatPromise
<1>3. CASE ~ refining
  <2>1. /\ given' = given /\ Question' = Question /\ Verdict = "open"
        /\ Verdict' = "undef" /\ Witness' = {}
    BY <1>1, <1>3, ReturnSeen
  <2> QED BY <2>1 DEF Promise!GiveUp, Question, Verdict, Witness
<1> QED BY <1>2, <1>3

\* The conflict of analyzeFinal() holds once all literals are explained; it is
\* returned or assumed in turn.
LEMMA AssumptionsRefutedPromise ==
    ASSUME AnswerInv, AssumptionsRefuted
    PROVE  Promise!AnswerUnsat \/ UNCHANGED Promise!vars
<1>1. pc = "final" /\ work = {} /\ (Return("unsat", {}) \/ Refine) BY DEF AssumptionsRefuted
<1>2. IndInv BY DEF AnswerInv
<1>3. CASE Return("unsat", {})
  <2>1. ASSUME NEW A \in SUBSET Vars, IsModel(A, given) PROVE Sat(A, Range(conflict))
    <3>1. Sat(A, work \cup Range(conflict)) BY <1>1, <1>2, <2>1, ModelFacts
    <3>2. work \cup Range(conflict) = Range(conflict) BY <1>1
    <3> QED BY <3>1, <3>2
  <2>2. Entails(given, Range(conflict)) BY <2>1 DEF Entails
  <2> QED BY <1>1, <1>3, <2>2, UnsatPromise
<1>4. CASE Refine
  <2>1. Question' = Question BY <1>4 DEF Refine, Question
  <2>2. given' = given /\ pc' = "propagate" BY <1>4 DEF Refine, base
  <2> QED BY <1>1, <2>1, <2>2, SilentStep
<1> QED BY <1>1, <1>3, <1>4

\* If every variable may be decided, what is true when nothing is open is a
\* model of the formula and of the assumptions.
LEMMA ModelFoundPromise ==
    ASSUME AnswerInv, DecisionVars = Vars, ModelFound
    PROVE  Promise!AnswerSat \/ Promise!AnswerUnsat
<1> DEFINE lits == {l \in Lits : True(l)}
           A == {v \in Vars : True(v)}
<1>1. /\ pc = "decide" /\ DecisionLevel >= Len(assumptions) /\ Open = {}
      /\ Return("sat", lits)
  BY DEF ModelFound
<1>2. IndInv /\ AssignmentInv /\ ok BY <1>1 DEF AnswerInv, IndInv, SearchesIfOk
<1>3. ASSUME NEW l \in Lits PROVE (True(l) \/ False(l)) /\ (Holds(A, l) <=> True(l))
  <2>1. True(l) \/ False(l)
    <3>1. VarOf(l) \in DecisionVars BY LitFacts
    <3> QED BY <1>1, <3>1 DEF Open, Unassigned
  <2>2. ~ (True(l) /\ False(l)) BY <1>2, FalseFacts
  <2>3. l \in Int /\ (l > 0 => l \in Vars) /\ (~ l > 0 => -l \in Vars)
    BY VarsAssumption DEF Lits
  <2> QED BY <2>1, <2>2, <2>3 DEF Holds, False
<1> HIDE DEF A
<1>4. A \in SUBSET Vars /\ LitsOf(A) = lits BY <1>3 DEF LitsOf, A
<1>5. IsModel(A, clauses)
  <2> SUFFICES ASSUME NEW C \in clauses PROVE Sat(A, C) BY DEF IsModel
  <2>1. C \in Database /\ C \in SUBSET Lits
    BY <1>2 DEF Database, IndInv, TypeOK, Formula, Clause
  <2>2. PICK l \in C : ~ False(l) BY <1>1, <1>2, <2>1 DEF IndInv, NothingMissed, Falsified
  <2> QED BY <1>3, <2>1, <2>2 DEF Sat
<1>6. \A i \in DOMAIN trail : Holds(A, trail[i])
  <2> TAKE i \in DOMAIN trail
  <2>1. trail[i] \in Lits BY <1>2, TrailFacts
  <2> QED BY <1>3, <2>1 DEF True
<1>7. IsModel(A, given) BY <1>2, <1>4, <1>5, <1>6 DEF AnswerInv, NothingLost
<1>8. CASE refining BY <1>1, <1>8, UnsatPromise
<1>9. CASE ~ refining
  <2>1. Question \subseteq LitsOf(A)
    <3>1. /\ assumptions \in Seq(Lits) /\ DecisionLevel \in Nat
      BY <1>2, TrailFacts DEF IndInv, TypeOK
    <3>2. Len(assumptions) \in Nat /\ DOMAIN assumptions = 1 .. Len(assumptions)
          /\ \A k \in DOMAIN assumptions : assumptions[k] \in Lits
      BY <3>1
    <3> SUFFICES ASSUME NEW k \in DOMAIN assumptions PROVE assumptions[k] \in LitsOf(A)
      BY <1>9 DEF Question, Range
    <3>3. k \in 1 .. DecisionLevel /\ k <= Len(assumptions) BY <1>1, <3>1, <3>2
    <3>4. True(assumptions[k])
      BY <1>1, <3>3 DEF AnswerInv, AssumptionsHold, Searching, True
    <3> QED BY <1>4, <3>2, <3>4
  <2>2. /\ given' = given /\ Question' = Question /\ Verdict = "open"
        /\ Verdict' = "sat" /\ Witness' = LitsOf(A)
    BY <1>1, <1>4, <1>9, ReturnSeen
  <2>3. /\ Promise!IsModel(A, given) /\ Question \subseteq Promise!LitsOf(A)
        /\ Witness' = Promise!LitsOf(A)
    BY <1>7, <2>1, <2>2, SameMeaning
  <2> QED BY <1>4, <2>2, <2>3 DEF Promise!AnswerSat, Question, Verdict, Witness
<1> QED BY <1>8, <1>9

\* Every step of the solver is one that is promised, or is not seen.
LEMMA StepPromise ==
    ASSUME AnswerInv, DecisionVars = Vars, [Next]_vars
    PROVE  [Promise!Next]_(Promise!vars)
<1>1. IndInv BY DEF AnswerInv
<1> USE DEF base, asked
<1>2. CASE \E C \in Input : AddClause(C) BY <1>1, <1>2, AddClausePromise DEF Promise!Next
<1>3. CASE \E A \in Questions : Call(A) BY <1>1, <1>3, CallPromise DEF Promise!Next
<1>4. CASE AlreadyUnsat \/ ConflictOnLevel0 BY <1>4, ContradictionPromise DEF Promise!Next
<1>5. CASE SearchStops BY <1>5, SearchStopsPromise DEF Promise!Next
<1>6. CASE ModelFound BY <1>6, ModelFoundPromise DEF Promise!Next
<1>7. CASE AssumptionsRefuted BY <1>7, AssumptionsRefutedPromise DEF Promise!Next
<1>8. CASE StartSearch \/ AddingFails
  BY <1>8, SilentStep DEF StartSearch, AddingFails, Question
<1>9. CASE Propagate BY <1>9, SilentStep DEF Propagate, Implies, Question
<1>10. CASE PropagationEnds BY <1>10, SilentStep DEF PropagationEnds, EndPropagation, Question
<1>11. CASE StartAnalysis \/ Resolve \/ Learn
  BY <1>11, SilentStep DEF StartAnalysis, Resolve, Learn, Question
<1>12. CASE Restart \/ Tidy BY <1>12, SilentStep DEF Restart, Tidy, Question
<1>13. CASE DummyLevel \/ DecideAssumption \/ Decide \/ AssumptionFails
  BY <1>13, SilentStep DEF DummyLevel, DecideAssumption, Decide, AssumptionFails, Question
<1>14. CASE StopEarly \/ ExplainLatest BY <1>14, SilentStep DEF StopEarly, ExplainLatest, Question
<1>15. CASE UNCHANGED vars BY <1>15, SilentStep DEF vars, Question
<1> QED BY <1>2, <1>3, <1>4, <1>5, <1>6, <1>7, <1>8, <1>9, <1>10, <1>11, <1>12, <1>13, <1>14,
           <1>15 DEF Next, Search

LEMMA InitAnswers == Init => AnswerInv
<1> SUFFICES ASSUME Init PROVE AnswerInv OBVIOUS
<1>1. IndInv /\ NothingLost BY InitInv, InitLosesNothing
<1>2. pc = "idle" /\ ~ refining BY DEF Init
<1> QED BY <1>1, <1>2
        DEF AnswerInv, AssumptionsFirst, SearchesIfOk, AssumptionsHold, Searching, ConflictInv

LEMMA StepAnswers == AnswerInv /\ [Next]_vars => AnswerInv'
BY NextInv, StepLosesNothing, StepAssumptionsFirst, StepSearchesIfOk, StepAssumptionsHold,
   StepConflictInv DEF AnswerInv

\* What the comments of Solver.h promise to the program that calls the solver,
\* over any number of calls, with clauses added in between and the search
\* restarted, stopped, and run again to refine a conflict: a model satisfies
\* all that was given and assumed, a conflict is a clause over the negated
\* assumptions that follows from what was given.  A model is a total assignment
\* only if every variable may be decided.
THEOREM PromiseIsKept ==
    ASSUME DecisionVars = Vars
    PROVE  Spec => KeepsPromise
<1>1. Init => AnswerInv BY InitAnswers
<1>2. AnswerInv /\ [Next]_vars => AnswerInv' BY StepAnswers
<1>3. Init => Promise!Init BY InitPromise
<1>4. AnswerInv /\ [Next]_vars => [Promise!Next]_(Promise!vars) BY StepPromise
<1> QED BY <1>1, <1>2, <1>3, <1>4, PTL DEF Spec, KeepsPromise, Promise!Spec

-----------------------------------------------------------------------------
(* Propagation was complete on the levels below *)

FalseBy(l, k)    == False(l) /\ LevelOf(l) <= k
AssignedBy(l, k) == ~ Unassigned(l) /\ LevelOf(l) <= k

\* D implies nothing on level k that was not assigned there.
QuietOn(D, k) == \A l \in D : (\A m \in D \ {l} : FalseBy(m, k)) => AssignedBy(l, k)

\* Bi-asserting clauses aside, no clause implies anything on the levels below,
QuietBelow == \A k \in 0 .. DecisionLevel - 1 : \A D \in Database \ weak : QuietOn(D, k)

\* nor on this level once propagation has ended.
QuietHere ==
    pc \in {"quiet", "decide"} => \A D \in Database \ weak : \A l \in D : ~ UnitUnder(D, l)

\* The literals of a clause that stay on the trail keep their levels.
LEMMA KeptLevels ==
    ASSUME IndInv, Moves, NEW l \in Lits, NEW i \in DOMAIN trail, trail[i] \in {l, -l},
           LevelOf(l) <= DecisionLevel'
    PROVE  i \in DOMAIN trail' /\ trail'[i] = trail[i] /\ LevelOf(l)' = LevelOf(l)
<1>1. VarOf(-l) = VarOf(l) BY LitFacts
<1>2. LevelOf(trail[i]) = LevelOf(l) /\ VarOf(trail[i]) = VarOf(l) BY <1>1 DEF LevelOf
<1>3. Kept(i) BY <1>2 DEF Moves
<1> QED BY <1>2, <1>3 DEF Kept, LevelOf

\* What is complete below the level of the solver stays so.
LEMMA QuietStays ==
    ASSUME IndInv, Moves, NEW D \in Clause, NEW k \in Nat, k < DecisionLevel',
           DecisionLevel' \in Nat, QuietOn(D, k)
    PROVE  QuietOn(D, k)'
<1> SUFFICES ASSUME NEW l \in D, \A m \in D \ {l} : FalseBy(m, k)'
             PROVE  AssignedBy(l, k)'
  BY DEF QuietOn
<1>1. D \subseteq Lits BY DEF Clause
<1>2. ASSUME NEW m \in D \ {l} PROVE FalseBy(m, k)
  <2>1. PICK i \in DOMAIN trail' : trail'[i] = -m BY DEF FalseBy, False, True
  <2>2. m \in Lits /\ VarOf(-m) = VarOf(m) BY <1>1, LitFacts
  <2>3. level'[VarOf(trail'[i])] <= k BY <2>1, <2>2 DEF FalseBy, LevelOf
  <2>4. level'[VarOf(trail'[i])] # DecisionLevel' BY <2>3
  <2>5. Kept(i) BY <2>4 DEF Moves, Came
  <2>6. trail[i] = -m /\ i \in DOMAIN trail /\ LevelOf(m) <= k
    BY <2>1, <2>2, <2>3, <2>5 DEF Kept, LevelOf
  <2> QED BY <2>6 DEF FalseBy, False, True
<1>3. AssignedBy(l, k) BY <1>2 DEF QuietOn
<1>4. PICK i \in DOMAIN trail : trail[i] \in {l, -l}
  BY <1>3 DEF AssignedBy, Unassigned, True, False
<1>5. l \in Lits /\ LevelOf(l) \in Nat /\ LevelOf(l) <= k
  BY <1>1, <1>3, TrailFacts DEF AssignedBy, IndInv
<1>6. i \in DOMAIN trail' /\ trail'[i] = trail[i] /\ LevelOf(l)' = LevelOf(l)
  BY <1>4, <1>5, KeptLevels
<1> QED BY <1>4, <1>5, <1>6 DEF AssignedBy, Unassigned, True, False

\* Where propagation has ended it is complete on this level.
LEMMA QuietOpens ==
    ASSUME IndInv, NEW D \in Clause, \A l \in D : ~ UnitUnder(D, l)
    PROVE  QuietOn(D, DecisionLevel)
<1> SUFFICES ASSUME NEW l \in D, \A m \in D \ {l} : FalseBy(m, DecisionLevel)
             PROVE  AssignedBy(l, DecisionLevel)
  BY DEF QuietOn
<1>1. l \in Lits BY DEF Clause
<1>2. ~ Unassigned(l) BY DEF UnitUnder, Falsified, FalseBy
<1>3. PICK i \in DOMAIN trail : trail[i] \in {l, -l} BY <1>2 DEF Unassigned, True, False
<1>4. VarOf(-l) = VarOf(l) BY <1>1, LitFacts
<1>5. LevelOf(trail[i]) = LevelOf(l) BY <1>3, <1>4 DEF LevelOf
<1>6. LevelOf(trail[i]) \in 0 .. DecisionLevel /\ DecisionLevel \in Nat BY TrailFacts DEF IndInv
<1> QED BY <1>2, <1>5, <1>6 DEF AssignedBy

-----------------------------------------------------------------------------
(* The learned clause *)

\* Of the learned clause the literals of this level are open after the jump,
\* and no others.
LEMMA LearnLeaves ==
    ASSUME IndInv, IndInv', Learn
    PROVE  \E first, others, C, to :
              /\ C = {first} \cup others /\ first \notin others /\ C \subseteq work
              /\ first = Latest(work)
              /\ to = JumpLevel(C) /\ Learned(first, others)
              /\ first \in Lits /\ LevelOf(first) = DecisionLevel /\ C \in Clause
              /\ DecisionLevel \in Nat /\ to \in Nat /\ to < DecisionLevel
              /\ DecisionLevel' = to
              /\ C \subseteq OnThisLevel(C) => to = 0
              /\ ~ C \subseteq OnThisLevel(C) => \E l \in C \ OnThisLevel(C) : LevelOf(l) = to
              /\ \A l \in C : False(l)
              /\ \A l \in C : IF l \in OnThisLevel(C) THEN ~ False(l)'
                              ELSE False(l)' /\ LevelOf(l)' = LevelOf(l)
              /\ \A i \in DOMAIN trail' :
                    \/ i \in 1 .. Cut(to)
                    \/ i = Cut(to) + 1 /\ trail'[i] = first /\ OnThisLevel(others) = {}
              /\ OnThisLevel(others) = {} => \E i \in DOMAIN trail' : trail'[i] = first
<1> DEFINE first == Latest(work)
<1>1. PICK others, C, to :
         /\ C = {first} \cup others /\ first \notin others /\ C \subseteq work
         /\ to = JumpLevel(C) /\ Learned(first, others)
         /\ first \in Lits /\ LevelOf(first) = DecisionLevel /\ C \in Clause
         /\ \A l \in C : l \in Lits /\ False(l) /\ LevelOf(l) > 0
         /\ DecisionLevel \in Nat /\ to \in 0 .. DecisionLevel /\ to < DecisionLevel
         /\ \A l \in C \ OnThisLevel(C) : LevelOf(l) <= to
         /\ C \subseteq OnThisLevel(C) => to = 0
         /\ ~ C \subseteq OnThisLevel(C) =>
               \E l \in C \ OnThisLevel(C) : LevelOf(l) = to
  BY LearnFacts
<1> HIDE DEF first
<1> DEFINE bi == OnThisLevel(others) # {}
           queue == IF bi THEN << >> ELSE <<first>>
           why == IF others = {} THEN NoReason ELSE C
<1>2. BackTo(to, queue, why) BY <1>1 DEF Learned
<1>3. AssignmentInv /\ AssignmentInv' BY DEF IndInv
<1>4. Moves BY LearnMoves
<1>5. queue \in Seq(Lits) /\ why \in Clause /\ Len(queue) = IF bi THEN 0 ELSE 1
  BY <1>1 DEF NoReason, Clause
<1> HIDE DEF queue, why
<1>6. /\ DecisionLevel' = to
      /\ DOMAIN trail' = 1 .. Cut(to) + Len(queue) /\ Cut(to) \in Nat
      /\ \A i \in 1 .. Cut(to) : trail'[i] = trail[i]
      /\ \A i \in 1 .. Len(queue) : trail'[Cut(to) + i] = queue[i]
  <2>1. /\ DecisionLevel' = to /\ DOMAIN trail' = 1 .. Len(trail')
        /\ Len(trail') = Cut(to) + Len(queue)
        /\ \A i \in 1 .. Cut(to) : trail'[i] = trail[i]
        /\ \A i \in 1 .. Len(queue) : trail'[Cut(to) + i] = queue[i]
    BY <1>1, <1>2, <1>3, <1>5, BackToFacts, Zenon
  <2>2. Cut(to) \in 0 .. Len(trail) /\ Len(trail) \in Nat BY <1>1, <1>3, CutFacts
  <2> QED BY <2>1, <2>2
<1>7. ASSUME NEW l \in C, l \notin OnThisLevel(C) PROVE False(l)' /\ LevelOf(l)' = LevelOf(l)
  <2>1. l \in Lits /\ False(l) /\ LevelOf(l) <= DecisionLevel' BY <1>1, <1>6, <1>7
  <2>2. Index(l) \in DOMAIN trail /\ trail[Index(l)] = -l BY <1>3, <2>1, FalseFacts, TrailFacts
  <2>3. Index(l) \in DOMAIN trail' /\ trail'[Index(l)] = -l /\ LevelOf(l)' = LevelOf(l)
    BY <1>4, <2>1, <2>2, KeptLevels
  <2> QED BY <2>3 DEF False, True
<1>8. ASSUME NEW l \in C, l \in OnThisLevel(C) PROVE ~ False(l)'
  <2>1. l \in Lits /\ False(l) /\ LevelOf(l) = DecisionLevel /\ VarOf(-l) = VarOf(l) /\ l # -l
    BY <1>1, <1>8, LitFacts DEF OnThisLevel
  <2> SUFFICES ASSUME NEW i \in DOMAIN trail', trail'[i] = -l PROVE FALSE
    BY DEF False, True
  <2>2. CASE i \in 1 .. Cut(to)
    <3>1. trail[i] = -l BY <1>6, <2>2
    <3>2. /\ DOMAIN trail = 1 .. Len(trail) /\ Cut(to) \in 0 .. Len(trail) /\ Len(trail) \in Nat
          /\ \A j \in DOMAIN trail : j <= Cut(to) <=> LevelOf(trail[j]) <= to
      BY <1>1, <1>3, CutFacts
    <3>3. LevelOf(trail[i]) <= to BY <2>2, <3>2
    <3>4. LevelOf(l) <= to BY <2>1, <3>1, <3>3 DEF LevelOf
    <3> QED BY <1>1, <2>1, <3>4
  <2>3. CASE i \notin 1 .. Cut(to)
    <3>1. ~ bi /\ i = Cut(to) + 1 BY <1>5, <1>6, <2>3
    <3>2. trail'[i] = first BY <1>5, <1>6, <3>1 DEF queue
    <3>3. l = first BY <1>1, <1>8, <2>1, <3>1 DEF OnThisLevel
    <3> QED BY <2>1, <3>2, <3>3
  <2> QED BY <2>2, <2>3
<1>9. to \in Nat BY <1>1
<1>10. DecisionLevel' = to BY <1>6
<1>11. \A l \in C : IF l \in OnThisLevel(C) THEN ~ False(l)'
                     ELSE False(l)' /\ LevelOf(l)' = LevelOf(l)
  BY <1>7, <1>8
<1>12. \A i \in DOMAIN trail' : \/ i \in 1 .. Cut(to)
                                \/ i = Cut(to) + 1 /\ trail'[i] = first /\ ~ bi
  BY <1>5, <1>6 DEF queue
<1>13. ASSUME ~ bi PROVE \E i \in DOMAIN trail' : trail'[i] = first
  <2>1. Len(queue) = 1 /\ queue[1] = first BY <1>5, <1>13 DEF queue
  <2>2. Cut(to) + 1 \in DOMAIN trail' /\ trail'[Cut(to) + 1] = first BY <1>6, <2>1
  <2> QED BY <2>2
<1>14. /\ \A i \in DOMAIN trail' :
             \/ i \in 1 .. Cut(to)
             \/ i = Cut(to) + 1 /\ trail'[i] = first /\ OnThisLevel(others) = {}
       /\ OnThisLevel(others) = {} => \E i \in DOMAIN trail' : trail'[i] = first
  BY <1>12, <1>13, Zenon
<1>15. first = Latest(work) BY DEF first
<1> HIDE DEF bi
<1> QED BY <1>1, <1>9, <1>10, <1>11, <1>14, <1>15, Zenon

\* Three different elements make a set larger than two.
LEMMA ThreeOrMore ==
    ASSUME NEW S, IsFiniteSet(S), NEW x \in S, NEW y \in S, NEW z \in S,
           x # y, x # z, y # z
    PROVE  Cardinality(S) > 2
<1> DEFINE T == S \ {z}
           U == T \ {x}
<1>1. IsFiniteSet(T) /\ Cardinality(T) = Cardinality(S) - 1 BY FS_RemoveElement
<1>2. IsFiniteSet(U) BY <1>1, FS_RemoveElement
<1>3. U # {} /\ x \notin U /\ {x} \cup U = T OBVIOUS
<1> HIDE DEF U
<1>4. Cardinality({x} \cup U) > 1 BY <1>2, <1>3, TwoOrMore
<1>5. Cardinality(T) > 1 BY <1>3, <1>4
<1>6. Cardinality(S) \in Nat BY FS_CardinalityType
<1> QED BY <1>1, <1>5, <1>6

\* A learned clause implies nothing below the level the solver jumps to, unless
\* it is bi-asserting.
LEMMA LearnQuiet ==
    ASSUME IndInv, IndInv', Learn,
           NEW D \in Database' \ weak', D \notin Database \ weak,
           NEW k \in Nat, k < DecisionLevel'
    PROVE  QuietOn(D, k)'
<1>1. PICK first, others, C, to :
         /\ C = {first} \cup others /\ first \notin others
         /\ to = JumpLevel(C) /\ Learned(first, others)
         /\ LevelOf(first) = DecisionLevel /\ C \in Clause
         /\ DecisionLevel \in Nat /\ to \in Nat /\ to < DecisionLevel
         /\ DecisionLevel' = to
         /\ C \subseteq OnThisLevel(C) => to = 0
         /\ ~ C \subseteq OnThisLevel(C) => \E l \in C \ OnThisLevel(C) : LevelOf(l) = to
         /\ \A l \in C : IF l \in OnThisLevel(C) THEN ~ False(l)'
                         ELSE False(l)' /\ LevelOf(l)' = LevelOf(l)
  BY LearnLeaves
<1> DEFINE bi == OnThisLevel(others) # {}
<1>2. /\ weak' = IF bi /\ Cardinality(C) > 2 THEN weak \cup ({C} \ Database) ELSE weak \ {C}
      /\ Database' \subseteq Database \cup {C}
  BY <1>1 DEF Learned, Database
<1>3. PICK m \in C \ OnThisLevel(C) : LevelOf(m) = to BY <1>1
<1>4. D = C /\ ~ (bi /\ Cardinality(C) > 2) BY <1>2
<1>5. first \in OnThisLevel(C) BY <1>1 DEF OnThisLevel
<1>6. ~ bi
  <2> SUFFICES ASSUME bi PROVE FALSE OBVIOUS
  <2>1. PICK l \in others : LevelOf(l) = DecisionLevel BY DEF OnThisLevel
  <2>2. l \in C /\ l # first /\ l # m /\ first \in C /\ first # m
    BY <1>1, <1>3, <1>5, <2>1 DEF OnThisLevel
  <2>3. IsFiniteSet(C) BY <1>1, LitsFinite
  <2>4. Cardinality(C) > 2 BY <1>3, <2>2, <2>3, ThreeOrMore
  <2> QED BY <1>4, <2>4
<1>7. ~ FalseBy(first, k)' BY <1>1, <1>5 DEF FalseBy, OnThisLevel
<1>8. ~ FalseBy(m, k)'
  <2>1. LevelOf(m)' = to BY <1>1, <1>3
  <2>2. ~ to <= k BY <1>1
  <2> QED BY <2>1, <2>2 DEF FalseBy
<1>9. \A l \in D : \E n \in D \ {l} : ~ FalseBy(n, k)'
  <2>1. first \in D /\ m \in D /\ first # m BY <1>3, <1>4, <1>5 DEF OnThisLevel
  <2> QED BY <1>7, <1>8, <2>1
<1> QED BY <1>9 DEF QuietOn

\* Other clauses are new on level 0 only.
LEMMA OldClauses ==
    ASSUME IndInv, IndInv', [Next]_vars, ~ Learn, NEW D \in Database' \ weak'
    PROVE  D \in Database \ weak \/ DecisionLevel' = 0
<1> USE DEF base, Database
<1>1. CASE \E C \in Input : AddClause(C) BY <1>1 DEF AddClause, IndInv, Home
<1>2. CASE \E A \in Questions : Call(A) BY <1>2 DEF Call
<1>3. CASE AlreadyUnsat \/ ConflictOnLevel0 \/ SearchStops \/ ModelFound
  BY <1>3 DEF AlreadyUnsat, ConflictOnLevel0, SearchStops, ModelFound, Return
<1>4. CASE AssumptionsRefuted
  <2>1. CASE Return("unsat", {}) BY <2>1 DEF Return
  <2>2. CASE Refine BY <2>2 DEF Refine
  <2> QED BY <1>4, <2>1, <2>2 DEF AssumptionsRefuted
<1>5. CASE StartSearch
  <2>1. clauses' = clauses /\ learnts' \subseteq learnts /\ weak' = weak BY <1>5 DEF StartSearch
  <2> QED BY <2>1
<1>6. CASE Propagate BY <1>6 DEF Propagate, Implies
<1>7. CASE AddingFails \/ PropagationEnds
  BY <1>7 DEF AddingFails, PropagationEnds, EndPropagation
<1>8. CASE StartAnalysis \/ Resolve BY <1>8 DEF StartAnalysis, Resolve
<1>9. CASE Restart BY <1>9 DEF Restart
<1>10. CASE Tidy
  <2>1. clauses' \subseteq clauses /\ learnts' \subseteq learnts /\ weak' = weak BY <1>10 DEF Tidy
  <2> QED BY <2>1
<1>11. CASE DummyLevel \/ DecideAssumption \/ AssumptionFails \/ Decide
  BY <1>11 DEF DummyLevel, DecideAssumption, AssumptionFails, Decide
<1>12. CASE StopEarly \/ ExplainLatest BY <1>12 DEF StopEarly, ExplainLatest
<1>13. CASE UNCHANGED vars BY <1>13 DEF vars
<1> QED BY <1>1, <1>2, <1>3, <1>4, <1>5, <1>6, <1>7, <1>8, <1>9, <1>10, <1>11, <1>12, <1>13
        DEF Next, Search

\* A level is left behind only once propagation has ended on it.
LEMMA StepQuietBelow ==
    IndInv /\ QuietBelow /\ QuietHere /\ [Next]_vars => QuietBelow'
<1> SUFFICES ASSUME IndInv, QuietBelow, QuietHere, [Next]_vars PROVE QuietBelow' OBVIOUS
<1>1. IndInv' /\ Moves BY NextInv, StepMoves
<1>2. DecisionLevel \in Nat /\ DecisionLevel' \in Nat
  <2>1. trail_lim' \in Seq(Nat) BY <1>1 DEF IndInv, TypeOK
  <2> QED BY <2>1, TrailFacts DEF IndInv, DecisionLevel
<1> SUFFICES ASSUME NEW k \in 0 .. DecisionLevel' - 1, NEW D \in Database' \ weak'
             PROVE  QuietOn(D, k)'
  BY DEF QuietBelow
<1>3. k \in Nat /\ k < DecisionLevel' /\ DecisionLevel' # 0
  <2>1. \A n \in Nat : \A j \in 0 .. n - 1 : j \in Nat /\ j < n /\ n # 0 OBVIOUS
  <2>2. PICK n \in Nat : n = DecisionLevel' BY <1>2
  <2>3. k \in 0 .. n - 1 BY <2>2
  <2> QED BY <2>1, <2>2, <2>3
<1>4. CASE D \notin Database \ weak BY <1>1, <1>3, <1>4, LearnQuiet, OldClauses
<1>5. CASE D \in Database \ weak
  <2>1. D \in Clause BY <1>5 DEF IndInv, TypeOK, Formula, Database
  <2>2. QuietOn(D, k)
    <3>1. CASE k < DecisionLevel
      <4>1. k \in 0 .. DecisionLevel - 1 BY <1>2, <1>3, <3>1
      <4> QED BY <1>5, <4>1 DEF QuietBelow
    <3>2. CASE ~ k < DecisionLevel
      <4>1. pc = "decide" /\ k = DecisionLevel BY <1>1, <1>2, <1>3, <3>2 DEF Moves
      <4> QED BY <1>5, <2>1, <4>1, QuietOpens DEF QuietHere
    <3> QED BY <3>1, <3>2
  <2> QED BY <1>1, <1>2, <1>3, <2>1, <2>2, QuietStays
<1> QED BY <1>4, <1>5

LEMMA StepQuietHere == IndInv /\ QuietHere /\ [Next]_vars => QuietHere'
<1> SUFFICES ASSUME IndInv, QuietHere, [Next]_vars, pc' \in {"quiet", "decide"}
             PROVE  \A D \in Database' \ weak' : \A l \in D : ~ UnitUnder(D, l)'
  BY DEF QuietHere
<1> USE DEF UnitUnder, Unassigned, Falsified, True, False, Database, base, assigned
<1>1. CASE PropagationEnds
  BY <1>1 DEF PropagationEnds, EndPropagation, Propagated
<1>2. CASE Tidy
  <2>1. /\ clauses' \subseteq clauses /\ learnts' \subseteq learnts /\ weak' = weak
        /\ trail' = trail /\ pc = "quiet"
    BY <1>2 DEF Tidy
  <2> QED BY <2>1 DEF QuietHere
<1>3. CASE DummyLevel BY <1>3 DEF DummyLevel, QuietHere
<1>4. CASE UNCHANGED vars BY <1>4 DEF vars, QuietHere
<1>5. pc' \notin {"quiet", "decide"} \/ PropagationEnds \/ Tidy \/ DummyLevel \/ UNCHANGED vars
  <2>1. CASE (\E C \in Input : AddClause(C)) \/ (\E A \in Questions : Call(A))
    BY <2>1 DEF AddClause, Call
  <2>2. CASE AlreadyUnsat \/ ConflictOnLevel0 \/ SearchStops \/ ModelFound
    BY <2>2 DEF AlreadyUnsat, ConflictOnLevel0, SearchStops, ModelFound, Return
  <2>3. CASE AssumptionsRefuted
    <3>1. CASE Return("unsat", {}) BY <3>1 DEF Return
    <3>2. CASE Refine BY <3>2 DEF Refine
    <3> QED BY <2>3, <3>1, <3>2 DEF AssumptionsRefuted
  <2>4. CASE StartSearch \/ AddingFails BY <2>4 DEF StartSearch, AddingFails
  <2>5. CASE Propagate BY <2>5 DEF Propagate, Implies
  <2>6. CASE StartAnalysis \/ Resolve \/ Learn \/ Restart
    BY <2>6 DEF StartAnalysis, Resolve, Learn, Restart
  <2>7. CASE DecideAssumption \/ AssumptionFails \/ Decide
    BY <2>7 DEF DecideAssumption, AssumptionFails, Decide
  <2>8. CASE StopEarly \/ ExplainLatest BY <2>8 DEF StopEarly, ExplainLatest
  <2> QED BY <2>1, <2>2, <2>3, <2>4, <2>5, <2>6, <2>7, <2>8 DEF Next, Search
<1> QED BY <1>1, <1>2, <1>3, <1>4, <1>5

LEMMA InitQuiet == Init => QuietBelow /\ QuietHere
<1> SUFFICES ASSUME Init PROVE QuietBelow /\ QuietHere OBVIOUS
<1>1. DecisionLevel = 0 /\ pc = "idle" BY DEF Init, DecisionLevel
<1>2. 0 .. DecisionLevel - 1 = {} BY <1>1
<1> QED BY <1>1, <1>2 DEF QuietBelow, QuietHere

-----------------------------------------------------------------------------
(* What is learned is new *)

\* An analysis ends in a learned clause.
LEMMA OnlyLearn ==
    ASSUME [Next]_vars, pc = "analyze", pc' = "propagate"
    PROVE  Learn
<1>1. CASE (\E C \in Input : AddClause(C)) \/ (\E A \in Questions : Call(A))
  BY <1>1 DEF AddClause, Call
<1>2. CASE AlreadyUnsat \/ ConflictOnLevel0 \/ SearchStops \/ ModelFound
  BY <1>2 DEF AlreadyUnsat, ConflictOnLevel0, SearchStops, ModelFound
<1>3. CASE StartSearch \/ AddingFails \/ PropagationEnds \/ AssumptionsRefuted
  BY <1>3 DEF StartSearch, AddingFails, PropagationEnds, EndPropagation, AssumptionsRefuted
<1>4. CASE Propagate BY <1>4 DEF Propagate
<1>5. CASE StartAnalysis \/ Resolve \/ Restart \/ Tidy
  BY <1>5 DEF StartAnalysis, Resolve, Restart, Tidy
<1>6. CASE DummyLevel \/ DecideAssumption \/ AssumptionFails \/ Decide
  BY <1>6 DEF DummyLevel, DecideAssumption, AssumptionFails, Decide
<1>7. CASE StopEarly \/ ExplainLatest BY <1>7 DEF StopEarly, ExplainLatest
<1>8. CASE UNCHANGED vars BY <1>8 DEF vars
<1> QED BY <1>1, <1>2, <1>3, <1>4, <1>5, <1>6, <1>7, <1>8 DEF Next, Search

\* No clause is falsified by one literal of this level and others from below: it
\* would have implied that literal on the level before.
LEMMA NoneBelow ==
    ASSUME IndInv, QuietBelow, DecisionLevel \in Nat \ {0}, NEW first \in Lits,
           NEW D \in Database \ weak, \A l \in D : False(l),
           \A l \in D : l = first \/ LevelOf(l) < DecisionLevel
    PROVE  FALSE
<1>1. OnThisLevel(D) # {} BY DEF IndInv, NothingMissed, Falsified
<1>2. first \in D /\ LevelOf(first) = DecisionLevel BY <1>1 DEF OnThisLevel
<1>3. D \subseteq Lits BY DEF IndInv, TypeOK, Formula, Clause, Database
<1>4. ASSUME NEW m \in D \ {first} PROVE FalseBy(m, DecisionLevel - 1)
  <2>1. LevelOf(m) \in Nat /\ LevelOf(m) < DecisionLevel /\ False(m)
    BY <1>3, TrailFacts DEF IndInv
  <2> QED BY <2>1 DEF FalseBy
<1>5. DecisionLevel - 1 \in 0 .. DecisionLevel - 1 OBVIOUS
<1>6. QuietOn(D, DecisionLevel - 1) BY <1>5 DEF QuietBelow
<1>7. LevelOf(first) <= DecisionLevel - 1 BY <1>2, <1>4, <1>6 DEF QuietOn, AssignedBy
<1> QED BY <1>2, <1>7

\* How many literals of this level the analysis leaves.
LEMMA FewOnThisLevel ==
    ASSUME IndInv, AtUip, NEW C \in SUBSET work, NEW first \in OnThisLevel(C)
    PROVE  /\ Cardinality(OnThisLevel(C)) \in IF merges = 1 THEN {1, 2} ELSE {1}
           /\ Cardinality(OnThisLevel(C)) = 1 => OnThisLevel(C) = {first}
<1> DEFINE S == OnThisLevel(C)
           W == OnThisLevel(work)
<1>1. work \in Clause BY DEF IndInv, TypeOK
<1>2. IsFiniteSet(work) BY <1>1, LitsFinite
<1>3. S \subseteq W /\ W \subseteq work BY DEF OnThisLevel
<1>4. IsFiniteSet(W) BY <1>2, <1>3, FS_Subset
<1>5. /\ IsFiniteSet(S) /\ Cardinality(S) \in Nat /\ Cardinality(W) \in Nat
      /\ Cardinality(S) <= Cardinality(W)
  BY <1>3, <1>4, FS_Subset, FS_CardinalityType
<1>6. Cardinality(S) # 0 BY <1>5, FS_EmptySet
<1>7. Cardinality(W) <= IF merges = 1 THEN 2 ELSE 1 BY DEF AtUip, PathLimit
<1>8. ASSUME S # {first} PROVE Cardinality(S) > 1
  <2> DEFINE T == S \ {first}
  <2>1. T # {} /\ first \notin T /\ {first} \cup T = S BY <1>8
  <2>2. IsFiniteSet(T) BY <1>5, FS_Subset
  <2> HIDE DEF T
  <2>3. Cardinality({first} \cup T) > 1 BY <2>1, <2>2, TwoOrMore
  <2> QED BY <2>1, <2>3
<1> HIDE DEF S, W
<1>9. Cardinality(S) \in IF merges = 1 THEN {1, 2} ELSE {1} BY <1>5, <1>6, <1>7
<1>10. Cardinality(S) = 1 => S = {first} BY <1>8
<1> QED BY <1>9, <1>10 DEF S

LEMMA LearnIsNew ==
    ASSUME IndInv, IndInv', QuietBelow, Learn
    PROVE  LET C    == UNION ((clauses' \cup learnts') \ Database)
               open == {l \in C : ~ False(l)'}
           IN  /\ Len(trail_lim') < DecisionLevel
               /\ C # {} => /\ Cardinality(open) \in IF merges = 1 THEN {1, 2} ELSE {1}
                            /\ Cardinality(open) = 1 =>
                                  \A D \in Database \ weak : ~ D \subseteq C
<1>1. PICK first, others, C, to :
         /\ C = {first} \cup others /\ C \subseteq work
         /\ Learned(first, others)
         /\ first \in Lits /\ LevelOf(first) = DecisionLevel /\ C \in Clause
         /\ DecisionLevel \in Nat /\ to \in Nat /\ to < DecisionLevel
         /\ DecisionLevel' = to
         /\ \A l \in C : False(l)
         /\ \A l \in C : IF l \in OnThisLevel(C) THEN ~ False(l)'
                         ELSE False(l)' /\ LevelOf(l)' = LevelOf(l)
  BY LearnLeaves
<1> DEFINE B == UNION ((clauses' \cup learnts') \ Database)
           open == {l \in B : ~ False(l)'}
<1>2. Len(trail_lim') < DecisionLevel BY <1>1 DEF DecisionLevel
<1>3. B = {} \/ B = C
  <2>1. clauses' \cup learnts' \subseteq Database \cup {C} BY <1>1 DEF Learned, Database
  <2>2. (clauses' \cup learnts') \ Database \in {{}, {C}} BY <2>1
  <2> QED BY <2>2
<1> HIDE DEF B
<1>4. ASSUME B # {}
      PROVE  /\ Cardinality(open) \in IF merges = 1 THEN {1, 2} ELSE {1}
             /\ Cardinality(open) = 1 => \A D \in Database \ weak : ~ D \subseteq B
  <2>1. B = C BY <1>3, <1>4
  <2>2. open = OnThisLevel(C) BY <1>1, <2>1 DEF OnThisLevel
  <2>3. first \in OnThisLevel(C) BY <1>1 DEF OnThisLevel
  <2>4. /\ Cardinality(OnThisLevel(C)) \in IF merges = 1 THEN {1, 2} ELSE {1}
        /\ Cardinality(OnThisLevel(C)) = 1 => OnThisLevel(C) = {first}
    <3>1. AtUip BY DEF Learn
    <3> QED BY <1>1, <2>3, <3>1, FewOnThisLevel
  <2>5. ASSUME Cardinality(open) = 1, NEW D \in Database \ weak, D \subseteq B PROVE FALSE
    <3>1. OnThisLevel(C) = {first} BY <2>2, <2>4, <2>5
    <3>2. \A l \in D : False(l) BY <1>1, <2>1, <2>5
    <3>3. ASSUME NEW l \in D, l # first PROVE LevelOf(l) < DecisionLevel
      <4>1. l \in C /\ l \notin OnThisLevel(C) /\ l \in Lits
        BY <2>1, <2>5, <3>1, <3>3, <1>1 DEF Clause
      <4>2. LevelOf(l) \in 0 .. DecisionLevel
        BY <1>1, <4>1, FalseFacts DEF IndInv
      <4> QED BY <1>1, <4>1, <4>2 DEF OnThisLevel
    <3>4. DecisionLevel \in Nat \ {0} BY <1>1
    <3> QED BY <1>1, <2>5, <3>2, <3>3, <3>4, NoneBelow
  <2> HIDE DEF open
  <2> QED BY <2>2, <2>4, <2>5
<1> QED BY <1>2, <1>4 DEF B

\* What the solver learns from a conflict leaves one literal open where it jumps
\* to, or two if the clause is bi-asserting, and with one it is new: analyze(),
\* the level it returns and the end of search()'s conflict branch.
THEOREM LearnsNew == Spec => LearnsSomethingNew
<1> DEFINE Step == pc = "analyze" /\ pc' = "propagate" =>
              LET C    == UNION ((clauses' \cup learnts') \ Database)
                  open == {l \in C : ~ False(l)'}
              IN  /\ Len(trail_lim') < DecisionLevel
                  /\ C # {} => /\ Cardinality(open) \in IF merges = 1 THEN {1, 2} ELSE {1}
                               /\ Cardinality(open) = 1 =>
                                     \A D \in Database \ weak : ~ D \subseteq C
<1>1. IndInv /\ IndInv' /\ QuietBelow /\ [Next]_vars => Step
  <2> SUFFICES ASSUME IndInv, IndInv', QuietBelow, [Next]_vars, pc = "analyze", pc' = "propagate"
               PROVE  Step
    OBVIOUS
  <2>1. Learn BY OnlyLearn
  <2> QED BY <2>1, LearnIsNew
<1>2. Init => IndInv /\ QuietBelow /\ QuietHere BY InitInv, InitQuiet
<1>3. IndInv /\ QuietBelow /\ QuietHere /\ [Next]_vars => (IndInv /\ QuietBelow /\ QuietHere)'
  BY NextInv, StepQuietBelow, StepQuietHere
<1>4. IndInv /\ IndInv' /\ QuietBelow /\ [Next]_vars => [Step]_vars BY <1>1
<1> QED BY <1>2, <1>3, <1>4, PTL DEF Spec, LearnsSomethingNew

==============================================================================
