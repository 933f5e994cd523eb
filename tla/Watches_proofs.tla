---------------------------- MODULE Watches_proofs ----------------------------
(***************************************************************************)
(* The watch lists of module Watches lose nothing: with them the search is *)
(* that of module Cdcl, whose propagation finds every falsified clause and *)
(* every unit but those of bi-asserting clauses.                           *)
(***************************************************************************)
EXTENDS Watches, Cdcl_proofs

(* The inductive invariant *)

\* Up to which level all literals before qhead have been propagated: where a
\* clause is falsified, propagate() leaves the rest of the level.
Covered == IF confl # {} \/ (DecisionLevel > 0 /\ pc \in {"analyze", "final"})
           THEN DecisionLevel - 1 ELSE DecisionLevel

\* propagate() has looked at C for the literal at i.
Visited(i, C) == i < qhead \/ (i = qhead /\ C \notin todo)

\* If the literal w of C is false and that was seen, then C had a true literal.
Fine(C, w) ==
    \A i \in DOMAIN trail :
        trail[i] = -w /\ Visited(i, C) /\ LevelOf(w) <= Covered
        => \E t \in C : True(t) /\ LevelOf(t) <= LevelOf(w)

\* Both watched literals are fine, or one of a bi-asserting clause.
Seen(C) == IF C \in weak THEN Fine(C, head[C][1]) \/ Fine(C, head[C][2])
                         ELSE Fine(C, head[C][1]) /\ Fine(C, head[C][2])

\* Each clause has two watched literals.
HeadInv ==
    /\ DOMAIN head = Database
    /\ \A C \in Database : /\ head[C] \in C \X C
                           /\ head[C][1] # head[C][2]

\* Where propagate() is in its lists.
ScanInv ==
    /\ qhead \in 0 .. Len(trail)
    /\ scan \in {"next", "watch", "over"}
    /\ scan = "watch" => qhead > 0
    /\ scan = "over" => confl # {}
    /\ scan # "next" \/ confl # {} => Propagating
    /\ scan # "watch" => todo = {}
    /\ todo \subseteq Database
    /\ \A C \in todo : -Literal \in {head[C][1], head[C][2]}
    /\ confl # {} => confl \in Database /\ Falsified(confl)
    /\ ~ refining

\* What is left to propagate is of this level, and between the calls and before
\* a decision nothing is left, nor where an assumption is refuted on level 0.
QueueInv ==
    /\ \A i \in DOMAIN trail : i > qhead \/ (i = qhead /\ scan = "watch")
                                 => LevelOf(trail[i]) = DecisionLevel
    /\ ok /\ (pc \in {"idle", "called", "quiet", "decide"} \/ (pc = "final" /\ DecisionLevel = 0))
          => qhead = Len(trail)

SeenInv == ok => \A C \in Database : Seen(C)

\* The inductive invariant of the watch lists, and that of both modules.
WatchInv  == HeadInv /\ ScanInv /\ QueueInv /\ SeenInv /\ ReasonFirst
SearchInv == AnswerInv /\ WatchInv

-----------------------------------------------------------------------------
(* Facts that are used everywhere *)

\* A set of two elements has no third one.
LEMMA JustTwo ==
    ASSUME NEW S, IsFiniteSet(S), Cardinality(S) = 2, NEW x \in S, NEW y \in S, x # y
    PROVE  S = {x, y}
<1> SUFFICES ASSUME NEW z \in S, z # x, z # y PROVE FALSE OBVIOUS
<1>1. Cardinality(S) > 2 BY ThreeOrMore
<1> QED BY <1>1

\* The clauses and their watched literals.
LEMMA HeadFacts ==
    ASSUME IndInv, HeadInv, NEW C \in Database
    PROVE  /\ C \in Clause /\ C \subseteq Lits /\ IsFiniteSet(C) /\ Cardinality(C) > 1
           /\ head[C][1] \in C /\ head[C][2] \in C /\ head[C][1] # head[C][2]
           /\ C \in DOMAIN head /\ C # {}
<1>1. C \in Clause BY DEF IndInv, TypeOK, Formula, Database
<1>2. IsFiniteSet(C) BY <1>1, LitsFinite
<1>3. Cardinality(C) > 1 BY DEF IndInv, NoUnits
<1>4. head[C] \in C \X C /\ head[C][1] # head[C][2] /\ C \in DOMAIN head BY DEF HeadInv
<1>5. head[C][1] \in C /\ head[C][2] \in C BY <1>4
<1>6. C # {} BY <1>5
<1> QED BY <1>1, <1>2, <1>3, <1>4, <1>5, <1>6 DEF Clause

\* The level that is covered.
LEMMA CoveredFacts ==
    ASSUME IndInv
    PROVE  /\ DecisionLevel \in Nat /\ Covered \in Int
           /\ Covered <= DecisionLevel /\ DecisionLevel - 1 <= Covered
<1>1. DecisionLevel \in Nat BY TrailFacts DEF IndInv
<1> QED BY <1>1 DEF Covered

\* The clause that propagate() looks at, and its watched literals.
LEMMA VisitFacts ==
    ASSUME IndInv, HeadInv, ScanInv, NEW C \in todo
    PROVE  /\ scan = "watch" /\ Propagating /\ C \in Database
           /\ qhead \in DOMAIN trail /\ qhead \in Nat
           /\ Literal \in Lits /\ trail[qhead] = Literal /\ True(Literal) /\ False(-Literal)
           /\ -Literal \in C /\ -Literal \in Lits /\ -(-Literal) = Literal
           /\ OtherWatched(C) \in C /\ OtherWatched(C) # -Literal /\ OtherWatched(C) \in Lits
           /\ {head[C][1], head[C][2]} = {OtherWatched(C), -Literal}
<1>1. scan = "watch" /\ Propagating /\ C \in Database /\ qhead \in 0 .. Len(trail) /\ qhead > 0
  BY DEF ScanInv
<1>2. DOMAIN trail = 1 .. Len(trail) /\ Len(trail) \in Nat BY TrailFacts DEF IndInv
<1>3. qhead \in DOMAIN trail /\ qhead \in Nat BY <1>1, <1>2
<1>4. Literal \in Lits /\ trail[qhead] = Literal
  BY <1>3, TrailFacts DEF IndInv, Literal
<1>5. -(-Literal) = Literal /\ -Literal \in Lits BY <1>4, LitFacts
<1>6. True(Literal) /\ False(-Literal) BY <1>3, <1>4, <1>5 DEF True, False
<1>7. -Literal \in {head[C][1], head[C][2]} BY DEF ScanInv
<1>8. head[C][1] \in C /\ head[C][2] \in C /\ head[C][1] # head[C][2] /\ C \subseteq Lits
  BY <1>1, HeadFacts
<1>9. /\ -Literal \in C /\ OtherWatched(C) \in C /\ OtherWatched(C) # -Literal
      /\ {head[C][1], head[C][2]} = {OtherWatched(C), -Literal}
  BY <1>7, <1>8 DEF OtherWatched
<1> QED BY <1>1, <1>3, <1>4, <1>5, <1>6, <1>8, <1>9

-----------------------------------------------------------------------------
(* Each step is a step of the search, or none *)

\* What a clause that is looked at implies is a unit.
LEMMA VisitIsStep ==
    ASSUME IndInv, HeadInv, ScanInv, NEW C \in todo, Binary(C) \/ Blocked(C) \/ Long(C)
    PROVE  Propagate \/ UNCHANGED vars
<1>1. /\ Propagating /\ C \in Database /\ False(-Literal) /\ -Literal \in C
      /\ OtherWatched(C) \in C /\ OtherWatched(C) # -Literal /\ -Literal \in Lits
  BY VisitFacts
<1>2. IsFiniteSet(C) BY <1>1, HeadFacts
<1>3. ASSUME UNCHANGED <<search, assigned>> PROVE UNCHANGED vars
  BY <1>3 DEF search, assigned, vars
<1>4. ASSUME NEW l \in C, Unassigned(l), Falsified(C \ {l}), Implies(C, l) PROVE Propagate
  <2>1. UnitUnder(C, l) BY <1>4 DEF UnitUnder
  <2> QED BY <1>1, <1>4, <2>1 DEF Propagate, Propagating
<1>5. CASE Binary(C)
  <2>1. PICK imp \in C \ {-Literal} :
           \/ UNCHANGED <<search, assigned>>
           \/ Unassigned(imp) /\ Implies(C, imp)
    BY <1>5 DEF Binary
  <2>2. Cardinality(C) = 2 BY <1>5 DEF Binary
  <2>3. C = {imp, -Literal} BY <1>1, <1>2, <2>2, JustTwo
  <2>4. Falsified(C \ {imp}) BY <1>1, <2>3 DEF Falsified
  <2> QED BY <1>3, <1>4, <2>1, <2>4
<1>6. CASE Blocked(C) BY <1>3, <1>6 DEF Blocked
<1>7. CASE Long(C)
  <2> DEFINE first == OtherWatched(C)
             rest == C \ {first, -Literal}
  <2>1. \/ UNCHANGED <<search, assigned>>
        \/ Unassigned(first) /\ Falsified(rest) /\ Implies(C, first)
    BY <1>7 DEF Long
  <2>2. Falsified(rest) => Falsified(C \ {first}) BY <1>1 DEF Falsified
  <2> HIDE DEF first, rest
  <2>3. first \in C BY <1>1 DEF first
  <2> QED BY <1>3, <1>4, <2>1, <2>2, <2>3
<1> QED BY <1>5, <1>6, <1>7

\* When the trail has been propagated, nothing was missed: a clause with two
\* false watched literals, or one if it is not bi-asserting, has a true one.
LEMMA EndsIsStep ==
    ASSUME IndInv, SearchesIfOk, WatchInv, Ends
    PROVE  PropagationEnds
<1>1. scan = "next" /\ qhead = Len(trail) /\ confl = {} /\ EndPropagation /\ todo = {} /\ ok
  BY DEF Ends, Over, WatchInv, ScanInv, EndPropagation, SearchesIfOk
<1>2. DOMAIN trail = 1 .. Len(trail) /\ Len(trail) \in Nat /\ DecisionLevel \in Nat
  BY TrailFacts DEF IndInv
<1>3. Covered = DecisionLevel BY <1>1 DEF Covered, EndPropagation
<1>4. ASSUME NEW C \in Database, NEW w \in C, False(w), Fine(C, w) PROVE \E t \in C : True(t)
  <2>1. PICK i \in DOMAIN trail : trail[i] = -w BY <1>4 DEF False, True
  <2>2. Visited(i, C) BY <1>1, <1>2 DEF Visited
  <2>3. w \in Lits BY HeadFacts DEF WatchInv
  <2>4. LevelOf(w) <= Covered BY <1>3, <1>4, <2>3, FalseFacts, <1>2 DEF IndInv
  <2> QED BY <1>4, <2>1, <2>2, <2>4 DEF Fine
<1>5. ASSUME NEW C \in Database, NEW t \in C, True(t), NEW l \in C, Falsified(C \ {l})
      PROVE  t = l
  <2>1. t \in Lits BY HeadFacts DEF WatchInv
  <2>2. ~ False(t) BY <1>5, <2>1, FalseFacts DEF IndInv
  <2> QED BY <1>5, <2>2 DEF Falsified
<1>6. ASSUME NEW C \in Database, Falsified(C) PROVE FALSE
  <2>1. head[C][1] \in C /\ head[C][2] \in C BY HeadFacts DEF WatchInv
  <2>2. Fine(C, head[C][1]) \/ Fine(C, head[C][2]) BY <1>1 DEF WatchInv, SeenInv, Seen
  <2>3. PICK t \in C : True(t) BY <1>4, <1>6, <2>1, <2>2 DEF Falsified
  <2>4. t \in Lits BY HeadFacts DEF WatchInv
  <2> QED BY <1>6, <2>3, <2>4, FalseFacts DEF Falsified, IndInv
<1>7. ASSUME NEW C \in Database \ weak, NEW l \in C, UnitUnder(C, l) PROVE FALSE
  <2>1. head[C][1] \in C /\ head[C][2] \in C /\ head[C][1] # head[C][2]
    BY HeadFacts DEF WatchInv
  <2>2. Fine(C, head[C][1]) /\ Fine(C, head[C][2]) BY <1>1 DEF WatchInv, SeenInv, Seen
  <2>3. Falsified(C \ {l}) /\ ~ True(l) BY <1>7 DEF UnitUnder, Unassigned
  <2>4. PICK w \in {head[C][1], head[C][2]} : w # l BY <2>1
  <2>5. w \in C /\ False(w) /\ Fine(C, w) BY <2>1, <2>2, <2>3, <2>4 DEF Falsified
  <2>6. PICK t \in C : True(t) BY <1>4, <2>5
  <2> QED BY <1>5, <2>3, <2>6
<1>8. Propagated BY <1>6, <1>7 DEF Propagated
<1> QED BY <1>1, <1>8 DEF PropagationEnds

\* The search with watch lists does what the search does.
LEMMA StepIsStep ==
    ASSUME SearchInv, [WatchesNext]_<<vars, lists>>
    PROVE  [Next]_vars
<1>1. IndInv /\ SearchesIfOk /\ WatchInv /\ HeadInv /\ ScanInv
  BY DEF SearchInv, AnswerInv, WatchInv
<1>2. CASE \E C \in Input : Adds(C) BY <1>2 DEF Adds, Next
<1>3. CASE NextLiteral \/ ListEnds
  BY <1>3 DEF NextLiteral, ListEnds, search, assigned, vars
<1>4. CASE \E C \in todo : Binary(C) \/ Blocked(C) \/ Long(C)
  BY <1>1, <1>4, VisitIsStep DEF Next, Search
<1>5. CASE Ends BY <1>1, <1>5, EndsIsStep DEF Next, Search
<1>6. CASE Fails BY <1>6 DEF Fails, Next, Search
<1>7. CASE Analyzes BY <1>7 DEF Analyzes, Next, Search
<1>8. CASE Starts \/ Learns \/ Removes BY <1>8 DEF Starts, Learns, Removes, Next, Search
<1>9. CASE GoesBack BY <1>9 DEF GoesBack, Next, Search
<1>10. CASE GoesOn BY <1>10 DEF GoesOn, Next, Search
<1>11. CASE UNCHANGED <<vars, lists>> BY <1>11
<1> QED BY <1>2, <1>3, <1>4, <1>5, <1>6, <1>7, <1>8, <1>9, <1>10, <1>11 DEF WatchesNext

-----------------------------------------------------------------------------
(* What is seen stays seen *)

\* What was seen of the watched literal w of C was seen before as well.
Carried(C, w) ==
    \A i \in DOMAIN trail' :
        trail'[i] = -w /\ Visited(i, C)' /\ LevelOf(w)' <= Covered'
        => Kept(i) /\ Visited(i, C) /\ LevelOf(w) <= Covered

\* A true literal stays as long as the false one, whose level is not lower.
LEMMA FineStays ==
    ASSUME IndInv, IndInv', Moves, NEW C \in Clause, NEW w \in C, Carried(C, w), Fine(C, w)
    PROVE  Fine(C, w)'
<1> SUFFICES ASSUME NEW i \in DOMAIN trail', trail'[i] = -w, Visited(i, C)',
                    LevelOf(w)' <= Covered'
             PROVE  \E t \in C : True(t)' /\ LevelOf(t)' <= LevelOf(w)'
  BY DEF Fine
<1>1. Kept(i) /\ Visited(i, C) /\ LevelOf(w) <= Covered BY DEF Carried
<1>2. C \subseteq Lits BY DEF Clause
<1>3. VarOf(-w) = VarOf(w) BY <1>2, LitFacts
<1>4. trail[i] = -w /\ i \in DOMAIN trail /\ LevelOf(w)' = LevelOf(w)
  BY <1>1, <1>3 DEF Kept, LevelOf
<1>5. PICK t \in C : True(t) /\ LevelOf(t) <= LevelOf(w) BY <1>1, <1>4 DEF Fine
<1>6. PICK j \in DOMAIN trail : trail[j] = t BY <1>5 DEF True
<1>7. LevelOf(t) \in Nat /\ LevelOf(w) \in Nat BY <1>2, TrailFacts DEF IndInv
<1>8. LevelOf(w)' <= DecisionLevel'
  <2>1. i \in DOMAIN trail' /\ AssignmentInv' BY DEF IndInv
  <2>2. level'[VarOf(trail'[i])] <= DecisionLevel'
    BY <2>1 DEF AssignmentInv, LevelsMatch, LevelOf
  <2> QED BY <1>3, <2>2 DEF LevelOf
<1>9. DecisionLevel' \in Nat
  <2>1. trail_lim' \in Seq(Nat) BY DEF IndInv, TypeOK
  <2> QED BY <2>1 DEF DecisionLevel
<1>10. LevelOf(trail[j]) <= DecisionLevel' BY <1>4, <1>5, <1>6, <1>7, <1>8, <1>9
<1>11. Kept(j) BY <1>10 DEF Moves
<1>12. True(t)' /\ LevelOf(t)' = LevelOf(t) BY <1>6, <1>11 DEF Kept, True, LevelOf
<1> QED BY <1>4, <1>5, <1>12

\* So does what is known of a clause whose watched literals stay.
LEMMA SeenStays ==
    ASSUME IndInv, IndInv', Moves, HeadInv, NEW C \in Database,
           {head'[C][1], head'[C][2]} = {head[C][1], head[C][2]},
           \A w \in {head[C][1], head[C][2]} : Carried(C, w),
           C \in weak => C \in weak', Seen(C)
    PROVE  Seen(C)'
<1>1. C \in Clause /\ head[C][1] \in C /\ head[C][2] \in C BY HeadFacts
<1>2. \A w \in {head[C][1], head[C][2]} : Fine(C, w) => Fine(C, w)' BY <1>1, FineStays
<1> QED BY <1>2 DEF Seen

\* A literal that is not false is fine, and so is every literal of this level
\* in a clause with a true one.
LEMMA FineOpen ==
    ASSUME NEW C, NEW w, ~ False(w)'
    PROVE  Fine(C, w)'
BY DEF Fine, False, True

LEMMA FineTrue ==
    ASSUME IndInv', NEW C \in Clause, NEW w \in C, LevelOf(w)' = DecisionLevel',
           NEW t \in C, True(t)'
    PROVE  Fine(C, w)'
<1>1. AssignmentInv' BY DEF IndInv
<1>2. PICK j \in DOMAIN trail' : trail'[j] = t BY DEF True
<1>3. level'[VarOf(t)] <= DecisionLevel' BY <1>1, <1>2 DEF AssignmentInv, LevelsMatch, LevelOf
<1> QED BY <1>3 DEF Fine, LevelOf

\* The literal that is looked at, and what is before it.
LEMMA QueueFacts ==
    ASSUME IndInv, ScanInv, QueueInv
    PROVE  /\ qhead \in Nat /\ qhead <= Len(trail) /\ Len(trail) \in Nat
           /\ DOMAIN trail = 1 .. Len(trail)
           /\ \A i \in DOMAIN trail : i \in Nat /\ LevelOf(trail[i]) \in 0 .. DecisionLevel
           /\ \A i \in DOMAIN trail : LevelOf(trail[i]) < DecisionLevel =>
                 i <= qhead /\ (i = qhead => todo = {})
<1>1. /\ DOMAIN trail = 1 .. Len(trail) /\ Len(trail) \in Nat
      /\ \A i \in DOMAIN trail : LevelOf(trail[i]) \in 0 .. DecisionLevel
      /\ DecisionLevel \in Nat
  BY TrailFacts DEF IndInv
<1>2. qhead \in Nat /\ qhead <= Len(trail) BY <1>1 DEF ScanInv
<1>3. ASSUME NEW i \in DOMAIN trail, LevelOf(trail[i]) < DecisionLevel
      PROVE  i <= qhead /\ (i = qhead => todo = {})
  <2>1. ~ (i > qhead \/ (i = qhead /\ scan = "watch")) BY <1>1, <1>3 DEF QueueInv
  <2> QED BY <1>1, <1>2, <2>1 DEF ScanInv
<1> QED BY <1>1, <1>2, <1>3

\* The trail and the levels after a step.
LEMMA TrailAfter ==
    ASSUME IndInv'
    PROVE  /\ DOMAIN trail' = 1 .. Len(trail') /\ Len(trail') \in Nat
           /\ trail' \in Seq(Lits) /\ trail_lim' \in Seq(Nat)
           /\ DecisionLevel' \in Nat /\ Covered' \in Int
           /\ Covered' <= DecisionLevel' /\ DecisionLevel' - 1 <= Covered'
           /\ \A i \in DOMAIN trail' :
                 i \in Nat /\ trail'[i] \in Lits /\ level'[VarOf(trail'[i])] <= DecisionLevel'
<1>1. TypeOK' /\ AssignmentInv' BY DEF IndInv
<1>2. trail' \in Seq(Lits) /\ trail_lim' \in Seq(Nat) BY <1>1 DEF TypeOK
<1>3. DOMAIN trail' = 1 .. Len(trail') /\ Len(trail') \in Nat BY <1>2
<1>4. DecisionLevel' \in Nat BY <1>2 DEF DecisionLevel
<1>5. Covered' = DecisionLevel' \/ Covered' = DecisionLevel' - 1 BY DEF Covered
<1>6. \A i \in DOMAIN trail' : level'[VarOf(trail'[i])] <= DecisionLevel'
  BY <1>1 DEF AssignmentInv, LevelsMatch, LevelOf
<1>7. \A i \in DOMAIN trail' : i \in Nat /\ trail'[i] \in Lits BY <1>2, <1>3
<1>8. Covered' \in Int /\ Covered' <= DecisionLevel' /\ DecisionLevel' - 1 <= Covered'
  BY <1>4, <1>5
<1> QED BY <1>2, <1>3, <1>4, <1>6, <1>7, <1>8

\* Steps that propagate nothing, go nowhere, and cover no more than before, or
\* no more than there was.
LEMMA StayCarried ==
    ASSUME IndInv, IndInv', ScanInv, QueueInv, qhead' = qhead,
           \A i \in DOMAIN trail' : Kept(i) \/ i > qhead,
           Covered' <= Covered \/ Covered = DecisionLevel,
           NEW C \in Clause, NEW w \in C, C \in todo => C \in todo' \/ w # -Literal
    PROVE  Carried(C, w)
<1> SUFFICES ASSUME NEW i \in DOMAIN trail', trail'[i] = -w, Visited(i, C)',
                    LevelOf(w)' <= Covered'
             PROVE  Kept(i) /\ Visited(i, C) /\ LevelOf(w) <= Covered
  BY DEF Carried
<1>2. Kept(i)
  <2>1. qhead \in Nat BY QueueFacts
  <2>2. i \in Nat BY TrailAfter
  <2> QED BY <2>1, <2>2 DEF Visited
<1>3. w \in Lits /\ VarOf(-w) = VarOf(w) /\ -(-w) = w BY LitFacts DEF Clause
<1>4. trail[i] = -w /\ i \in DOMAIN trail /\ LevelOf(w)' = LevelOf(w) /\ LevelOf(trail[i]) = LevelOf(w)
  BY <1>2, <1>3 DEF Kept, LevelOf
<1>5. LevelOf(w) \in Nat /\ LevelOf(w) <= DecisionLevel /\ DecisionLevel \in Nat /\ Covered \in Int
  BY <1>4, QueueFacts, CoveredFacts
<1>6. LevelOf(w) <= Covered
  <2>1. Covered' \in Int BY TrailAfter
  <2> QED BY <1>4, <1>5, <2>1
<1>7. Visited(i, C)
  <2>1. w = -trail[i] BY <1>3, <1>4
  <2> QED BY <2>1 DEF Visited, Literal
<1> QED BY <1>2, <1>6, <1>7

\* Where a conflict is found, this level is covered no more.
LEMMA ConflictCarried ==
    ASSUME IndInv, ScanInv, QueueInv, scan = "watch", UNCHANGED assigned,
           confl' # {}, NEW C \in Clause, NEW w \in C
    PROVE  Carried(C, w)
<1> SUFFICES ASSUME NEW i \in DOMAIN trail', trail'[i] = -w, LevelOf(w)' <= Covered'
             PROVE  Kept(i) /\ Visited(i, C) /\ LevelOf(w) <= Covered
  BY DEF Carried
<1>1. LevelOf(w) <= DecisionLevel - 1 BY DEF Covered, LevelOf, DecisionLevel, assigned
<1>2. w \in Lits /\ VarOf(-w) = VarOf(w) BY LitFacts DEF Clause
<1>3. LevelOf(trail[i]) = LevelOf(w) /\ i \in DOMAIN trail BY <1>2 DEF LevelOf, assigned
<1>4. LevelOf(w) \in Nat /\ DecisionLevel \in Nat /\ Covered \in Int /\ DecisionLevel - 1 <= Covered
  BY <1>3, QueueFacts, CoveredFacts
<1>5. LevelOf(w) <= Covered /\ LevelOf(w) < DecisionLevel BY <1>1, <1>4
<1>6. Visited(i, C)
  <2>1. ~ (i > qhead \/ i = qhead) BY <1>3, <1>4, <1>5 DEF QueueInv
  <2>2. i \in Nat /\ qhead \in Nat BY <1>3, QueueFacts
  <2> QED BY <2>1, <2>2 DEF Visited
<1>7. Kept(i)
  <2> QED BY <1>3 DEF Kept, LevelOf, ReasonOf, assigned
<1> QED BY <1>5, <1>6, <1>7

\* Where the solver goes back, it goes on with the first literal that is gone.
LEMMA BackCarried ==
    ASSUME IndInv, IndInv', ScanInv, QueueInv, todo = {}, todo' = {},
           NEW to \in 0 .. DecisionLevel, DecisionLevel' = to,
           qhead' = IF to < DecisionLevel THEN Cut(to) ELSE qhead,
           \A i \in DOMAIN trail' : Kept(i) \/ i > qhead',
           to < DecisionLevel \/ Covered = DecisionLevel,
           NEW C \in Clause, NEW w \in C
    PROVE  Carried(C, w)
<1> SUFFICES ASSUME NEW i \in DOMAIN trail', trail'[i] = -w, Visited(i, C)',
                    LevelOf(w)' <= Covered'
             PROVE  Kept(i) /\ Visited(i, C) /\ LevelOf(w) <= Covered
  BY DEF Carried
<1>1. /\ DecisionLevel \in Nat /\ Covered \in Int /\ Covered <= DecisionLevel
      /\ DecisionLevel - 1 <= Covered
  BY CoveredFacts
<1>2. Cut(to) \in Nat /\ qhead \in Nat /\ qhead' \in Nat
  <2>1. Cut(to) \in 0 .. Len(trail) /\ Len(trail) \in Nat BY CutFacts DEF IndInv
  <2> QED BY <2>1, QueueFacts
<1>3. Kept(i)
  <2>1. i < qhead' \/ i = qhead' BY DEF Visited
  <2>2. i \in Nat BY TrailAfter
  <2> QED BY <1>2, <2>1, <2>2
<1>4. w \in Lits /\ VarOf(-w) = VarOf(w) BY LitFacts DEF Clause
<1>5. trail[i] = -w /\ i \in DOMAIN trail /\ LevelOf(w)' = LevelOf(w) /\ LevelOf(trail[i]) = LevelOf(w)
  BY <1>3, <1>4 DEF Kept, LevelOf
<1>6. LevelOf(w) \in Nat /\ i \in Nat /\ LevelOf(w) <= DecisionLevel BY <1>5, <1>1, QueueFacts
<1>7. LevelOf(w)' <= to
  <2>1. AssignmentInv' BY DEF IndInv
  <2>2. level'[VarOf(trail'[i])] <= DecisionLevel' BY <2>1 DEF AssignmentInv, LevelsMatch, LevelOf
  <2> QED BY <1>4, <2>2 DEF LevelOf
<1>8. LevelOf(w) <= Covered BY <1>1, <1>5, <1>6, <1>7
<1>9. Visited(i, C)
  <2>1. CASE to < DecisionLevel
    <3>1. LevelOf(trail[i]) < DecisionLevel BY <1>1, <1>5, <1>6, <1>7, <2>1
    <3>2. i <= qhead BY <1>5, <3>1, QueueFacts
    <3> QED BY <1>2, <1>6, <3>2 DEF Visited
  <2>2. CASE ~ to < DecisionLevel
    <3>1. i < qhead \/ i = qhead BY <2>2 DEF Visited
    <3> QED BY <3>1 DEF Visited
  <2> QED BY <2>1, <2>2
<1> QED BY <1>3, <1>8, <1>9

-----------------------------------------------------------------------------
(* The steps that visit no clause *)

\* The literal at i keeps its reason, or loses it, and a reason that is kept
\* keeps its first literal; or it has a reason with this literal in front.
FirstKept(i) ==
    \/ /\ i \in DOMAIN trail /\ trail'[i] = trail[i]
       /\ reason'[VarOf(trail[i])] = NoReason \/ reason'[VarOf(trail[i])] = ReasonOf(trail[i])
       /\ LET R == ReasonOf(trail[i])
          IN  R \in Database' /\ Cardinality(R) > 2 => head'[R][1] = head[R][1]
    \/ LET R == reason'[VarOf(trail'[i])]
       IN  Cardinality(R) > 2 => head'[R][1] = trail'[i]

LEMMA FirstStays ==
    ASSUME IndInv, IndInv', ReasonFirst, \A i \in DOMAIN trail' : FirstKept(i)
    PROVE  ReasonFirst'
<1> SUFFICES ASSUME NEW i \in DOMAIN trail', Cardinality(reason'[VarOf(trail'[i])]) > 2
             PROVE  head'[reason'[VarOf(trail'[i])]][1] = trail'[i]
  BY DEF ReasonFirst, ReasonOf
<1>1. PICK R : R = reason'[VarOf(trail'[i])] OBVIOUS
<1>2. Cardinality({}) = 0 BY FS_EmptySet
<1>3. R # NoReason /\ ~ (Cardinality(R) = 2) BY <1>1, <1>2 DEF NoReason
<1>4. R \in Database' BY <1>1, <1>3 DEF IndInv, ReasonsKept, ReasonOf
<1>5. FirstKept(i) OBVIOUS
<1>6. CASE head'[R][1] = trail'[i] BY <1>1, <1>6
<1>7. CASE head'[R][1] # trail'[i]
  <2>1. /\ i \in DOMAIN trail /\ trail'[i] = trail[i] /\ R = ReasonOf(trail[i])
        /\ head'[R][1] = head[R][1]
    BY <1>1, <1>3, <1>4, <1>5, <1>7 DEF FirstKept
  <2>2. head[R][1] = trail[i] BY <1>1, <2>1 DEF ReasonFirst
  <2> QED BY <1>1, <2>1, <2>2
<1> QED BY <1>6, <1>7

\* Where propagate() is not at work nothing is left of a list or a conflict.
LEMMA NotPropagating ==
    ASSUME ScanInv, ~ Propagating
    PROVE  scan = "next" /\ confl = {} /\ todo = {} /\ Covered \in {DecisionLevel, DecisionLevel - 1}
BY DEF ScanInv, Covered

\* Steps that leave the assignment, the clauses and the position alone.
LEMMA SameInv ==
    ASSUME SearchInv, IndInv', Moves, UNCHANGED <<assigned, head, qhead, todo, weak, ok>>,
           Database' = Database, ~ refining', scan' = "next", confl' = {}, todo = {},
           Covered' <= Covered \/ Covered = DecisionLevel,
           ok /\ (pc' \in {"idle", "called", "quiet", "decide"} \/ (pc' = "final" /\ DecisionLevel = 0))
             => qhead = Len(trail)
    PROVE  WatchInv'
<1>1. /\ IndInv /\ HeadInv /\ ScanInv /\ QueueInv /\ SeenInv /\ ReasonFirst
  BY DEF SearchInv, AnswerInv, WatchInv
<1>2. HeadInv' BY <1>1 DEF HeadInv
<1>3. UNCHANGED <<trail, trail_lim, level, reason, head, qhead, todo, weak, ok>> BY DEF assigned
<1>4. ScanInv' BY <1>1, <1>3, Zenon DEF ScanInv
<1>5. QueueInv' BY <1>1, <1>3 DEF QueueInv, LevelOf, DecisionLevel
<1>6. \A i \in DOMAIN trail' : Kept(i) BY <1>1, <1>3 DEF Kept, LevelOf, ReasonOf
<1>7. \A C \in Clause : \A w \in C : Carried(C, w) BY <1>1, <1>3, <1>6, StayCarried
<1>8. SeenInv'
  <2> SUFFICES ASSUME ok', NEW C \in Database' PROVE Seen(C)' BY DEF SeenInv
  <2>1. C \in Database /\ Seen(C) BY <1>1, <1>3 DEF SeenInv
  <2>2. C \in Clause /\ head[C][1] \in C /\ head[C][2] \in C BY <1>1, <2>1, HeadFacts
  <2> QED BY <1>1, <1>3, <1>7, <2>1, <2>2, SeenStays
<1>9. \A i \in DOMAIN trail' : FirstKept(i) BY <1>3 DEF FirstKept, ReasonOf
<1>10. ReasonFirst' BY <1>1, <1>9, FirstStays
<1> QED BY <1>2, <1>4, <1>5, <1>8, <1>10 DEF WatchInv

\* propagate() returns without a conflict.
LEMMA EndsWatch ==
    ASSUME SearchInv, IndInv', Moves, Ends
    PROVE  WatchInv'
<1>1. /\ scan = "next" /\ qhead = Len(trail) /\ confl = {} /\ EndPropagation /\ todo = {}
      /\ ~ refining
  BY DEF Ends, Over, SearchInv, WatchInv, ScanInv
<1>2. /\ UNCHANGED <<assigned, head, qhead, todo, weak, ok, confl, scan, refining>>
      /\ Database' = Database /\ Covered = DecisionLevel
  BY <1>1 DEF Ends, EndPropagation, base, asked, lists, Database, Covered
<1> QED BY <1>1, <1>2, SameInv

\* analyze() or analyzeFinal() begins with the conflict of propagate().
LEMMA AnalyzesWatch ==
    ASSUME SearchInv, IndInv', Moves, Analyzes
    PROVE  WatchInv'
<1>1. /\ todo = {} /\ confl # {} /\ ~ refining /\ IndInv
  BY DEF Analyzes, Conflict, Over, SearchInv, AnswerInv, WatchInv, ScanInv
<1>2. /\ UNCHANGED <<assigned, head, qhead, todo, weak, ok, refining>>
      /\ Database' = Database /\ scan' = "next" /\ confl' = {}
      /\ pc' \in {"analyze", "final"} /\ DecisionLevel > 0
  <2>1. DecisionLevel \in Nat BY <1>1, TrailFacts DEF IndInv
  <2> QED BY <1>1, <2>1 DEF Analyzes, Reset, StartAnalysis, StopEarly, base, asked, Database
<1>3. Covered' <= Covered
  <2>1. DecisionLevel' = DecisionLevel BY <1>2 DEF assigned, DecisionLevel
  <2>2. DecisionLevel \in Nat BY <1>1, TrailFacts DEF IndInv
  <2>3. Covered = DecisionLevel - 1 BY <1>1 DEF Covered
  <2>4. Covered' = DecisionLevel' - 1 BY <1>2, <2>1 DEF Covered
  <2> QED BY <2>1, <2>2, <2>3, <2>4
<1>4. DecisionLevel # 0 BY <1>2
<1> QED BY <1>1, <1>2, <1>3, <1>4, SameInv

\* solve_ is called, and the conflict is analyzed, step by step.
LEMMA StaysWatch ==
    ASSUME SearchInv, IndInv', Moves, UNCHANGED lists,
           (\E A \in Questions : Call(A)) \/ Resolve \/ AssumptionFails \/ ExplainLatest
    PROVE  WatchInv'
<1>1. pc \in {"idle", "analyze", "decide", "final"}
  BY DEF Call, Resolve, AssumptionFails, ExplainLatest
<1>2. scan = "next" /\ confl = {} /\ todo = {} /\ ~ refining /\ IndInv
  BY <1>1, NotPropagating DEF Propagating, SearchInv, AnswerInv, WatchInv, ScanInv
<1>3. DecisionLevel \in Nat BY <1>2, TrailFacts DEF IndInv
<1>4. /\ UNCHANGED <<assigned, head, qhead, todo, scan, confl, weak, ok, refining>>
      /\ Database' = Database
      /\ \/ pc = "idle" /\ pc' = "called"
         \/ pc = "decide" /\ pc' = "final"
         \/ pc \in {"analyze", "final"} /\ pc' = pc
  BY DEF Call, Resolve, AssumptionFails, ExplainLatest, base, asked, lists, Database
<1>5. DecisionLevel' = DecisionLevel BY <1>4 DEF assigned, DecisionLevel
<1>6. Covered' <= Covered \/ Covered = DecisionLevel
  <2>1. CASE pc \in {"idle", "decide"} BY <1>2, <2>1 DEF Covered
  <2>2. CASE pc \in {"analyze", "final"} /\ pc' = pc
    <3>1. Covered' = Covered BY <1>4, <1>5, <2>2 DEF Covered
    <3>2. Covered \in Int BY <1>2, CoveredFacts
    <3> QED BY <3>1, <3>2
  <2> QED BY <1>4, <2>1, <2>2
<1>7. ok /\ (pc' \in {"called", "decide"} \/ (pc' = "final" /\ DecisionLevel = 0))
        => qhead = Len(trail)
  BY <1>3, <1>4 DEF SearchInv, WatchInv, QueueInv
<1> QED BY <1>2, <1>4, <1>6, <1>7, SameInv

\* The solver stops with contradictory clauses on level 0.
LEMMA StopsInv ==
    ASSUME SearchInv, IndInv', Moves, DecisionLevel = 0, UNCHANGED <<head, qhead>>,
           ~ ok', Database' = Database, ~ refining',
           scan' = "next", todo' = {}, confl' = {},
           BackTo(0, << >>, NoReason) \/ UNCHANGED assigned
    PROVE  WatchInv'
<1>1. IndInv /\ HeadInv /\ ScanInv /\ QueueInv /\ ReasonFirst /\ AssignmentInv
  BY DEF SearchInv, AnswerInv, WatchInv, IndInv
<1>2. /\ DOMAIN trail' = DOMAIN trail /\ Len(trail') = Len(trail) /\ DecisionLevel' = 0
      /\ \A i \in DOMAIN trail' : /\ trail'[i] = trail[i]
                                  /\ level'[VarOf(trail[i])] = LevelOf(trail[i])
                                  /\ reason'[VarOf(trail[i])] = ReasonOf(trail[i])
  <2>1. CASE BackTo(0, << >>, NoReason)
    <3>1. 0 \in 0 .. DecisionLevel BY DEF SearchInv
    <3>2. /\ DecisionLevel' = 0 /\ DOMAIN trail = 1 .. Len(trail) /\ DOMAIN trail' = 1 .. Cut(0)
          /\ \A i \in DOMAIN trail' : /\ trail'[i] = trail[i]
                                      /\ level'[VarOf(trail[i])] = LevelOf(trail[i])
                                      /\ reason'[VarOf(trail[i])] = ReasonOf(trail[i])
      BY <1>1, <2>1, <3>1, GoBackInv
    <3>3. Cut(0) = Len(trail) BY DEF Cut
    <3>4. Len(trail) \in Nat /\ trail' \in Seq(Lits) BY <1>1, TrailFacts, TrailAfter
    <3>5. Len(trail') = Len(trail) BY <3>2, <3>3, <3>4
    <3> QED BY <3>2, <3>3, <3>5
  <2>2. CASE UNCHANGED assigned BY <2>2 DEF assigned, DecisionLevel, LevelOf, ReasonOf
  <2> QED BY <2>1, <2>2
<1>3. HeadInv' BY <1>1 DEF HeadInv
<1>4. ScanInv' BY <1>1, <1>2 DEF ScanInv
<1>5. QueueInv'
  <2>1. \A i \in DOMAIN trail' : LevelOf(trail[i]) = 0 BY <1>1, <1>2, TrailFacts
  <2> QED BY <1>2, <2>1 DEF QueueInv, LevelOf
<1>6. SeenInv' BY DEF SeenInv
<1>7. \A i \in DOMAIN trail' : FirstKept(i) BY <1>2 DEF FirstKept
<1>8. ReasonFirst' BY <1>1, <1>7, FirstStays
<1> QED BY <1>3, <1>4, <1>5, <1>6, <1>8 DEF WatchInv

\* propagate() found a conflict on level 0, in addClause_ or in the search.
LEMMA FailsWatch ==
    ASSUME SearchInv, IndInv', Moves, Fails
    PROVE  WatchInv'
<1>1. /\ IndInv /\ ~ refining /\ Home /\ ConflictInv
      /\ UNCHANGED <<head, qhead>> /\ scan' = "next" /\ todo' = {} /\ confl' = {}
  BY DEF SearchInv, AnswerInv, WatchInv, ScanInv, IndInv, Fails, Reset
<1>2. CASE AddingFails
  <2>1. DecisionLevel = 0 /\ ~ ok' /\ Database' = Database /\ ~ refining' /\ UNCHANGED assigned
    BY <1>1, <1>2 DEF AddingFails, Home, Database, asked
  <2> QED BY <1>1, <2>1, StopsInv
<1>3. CASE ConflictOnLevel0
  <2>1. pc = "propagate" /\ DecisionLevel = 0 /\ Return("unsat", {})
    BY <1>3 DEF ConflictOnLevel0
  <2>2. conflict = << >> BY <1>1, <2>1 DEF ConflictInv
  <2>3. ~ ok' /\ Database' = Database /\ ~ refining' /\ BackTo(0, << >>, NoReason)
    BY <1>1, <2>1, <2>2 DEF Return, Contradictory, Database
  <2> QED BY <1>1, <2>1, <2>3, StopsInv
<1> QED BY <1>2, <1>3 DEF Fails

\* solve_ finds the clauses contradictory already.
LEMMA AlreadyUnsatWatch ==
    ASSUME SearchInv, IndInv', Moves, UNCHANGED lists, AlreadyUnsat
    PROVE  WatchInv'
<1>1. /\ IndInv /\ ~ refining /\ Home /\ ScanInv /\ pc = "called" /\ ~ ok /\ Return("unsat", {})
  BY DEF SearchInv, AnswerInv, WatchInv, ScanInv, IndInv, AlreadyUnsat
<1>2. scan = "next" /\ confl = {} /\ todo = {} BY <1>1, NotPropagating DEF Propagating
<1>3. DecisionLevel = 0 BY <1>1 DEF Home
<1>4. ~ ok' /\ Database' = Database /\ ~ refining' /\ BackTo(0, << >>, NoReason)
  BY <1>1 DEF Return, Database
<1>5. UNCHANGED <<head, qhead, scan, todo, confl>> BY DEF lists
<1> QED BY <1>2, <1>3, <1>4, <1>5, StopsInv

\* A level is opened where all was propagated, with a literal on it or none.
LEMMA LevelWatch ==
    ASSUME SearchInv, IndInv', Moves, UNCHANGED lists, DummyLevel \/ DecideAssumption \/ Decide
    PROVE  WatchInv'
<1>1. /\ IndInv /\ HeadInv /\ ScanInv /\ QueueInv /\ SeenInv /\ ReasonFirst /\ AssignmentInv
      /\ pc = "decide" /\ ok /\ ~ refining /\ pc' \in {"decide", "propagate"}
  BY DEF SearchInv, AnswerInv, SearchesIfOk, WatchInv, ScanInv, IndInv, DummyLevel,
         DecideAssumption, Decide
<1>2. scan = "next" /\ confl = {} /\ todo = {} BY <1>1, NotPropagating DEF Propagating
<1>3. UNCHANGED <<head, qhead, scan, todo, confl, weak, ok, refining>> /\ Database' = Database
  BY DEF lists, DummyLevel, DecideAssumption, Decide, base, asked, Database
<1>4. qhead = Len(trail) /\ Covered = DecisionLevel BY <1>1, <1>2 DEF QueueInv, Covered
<1>5. DecisionLevel \in Nat /\ Len(trail) \in Nat /\ DOMAIN trail = 1 .. Len(trail)
  BY <1>1, TrailFacts
<1>6. /\ \A i \in DOMAIN trail' :
            \/ /\ i \in DOMAIN trail /\ trail'[i] = trail[i]
               /\ level'[VarOf(trail[i])] = LevelOf(trail[i])
               /\ reason'[VarOf(trail[i])] = ReasonOf(trail[i])
            \/ /\ i = Len(trail) + 1 /\ pc' = "propagate"
               /\ level'[VarOf(trail'[i])] = DecisionLevel'
               /\ reason'[VarOf(trail'[i])] = NoReason
      /\ Len(trail') >= Len(trail) /\ (pc' = "decide" => Len(trail') = Len(trail))
  <2>1. CASE DummyLevel BY <1>1, <1>5, <2>1 DEF DummyLevel, LevelOf, ReasonOf
  <2>2. CASE DecideAssumption \/ Decide
    <3>1. pc' = "propagate" BY <2>2 DEF DecideAssumption, Decide
    <3>2. PICK l \in Lits : Unassigned(l) /\ EnqueueDecision(l)
      <4>1. CASE DecideAssumption
        <5>1. NextAssumption \in Lits
          <6>1. assumptions \in Seq(Lits) BY <1>1 DEF IndInv, TypeOK
          <6>2. DecisionLevel + 1 \in 1 .. Len(assumptions)
            BY <1>5, <4>1, <6>1 DEF DecideAssumption
          <6> QED BY <6>1, <6>2 DEF NextAssumption
        <5> QED BY <4>1, <5>1 DEF DecideAssumption
      <4>2. CASE Decide BY <4>2 DEF Decide, Open
      <4> QED BY <2>2, <4>1, <4>2
    <3>3. ~ True(l) /\ ~ False(l) BY <3>2 DEF Unassigned
    <3>4. /\ DecisionLevel' = DecisionLevel + 1
          /\ DOMAIN trail' = 1 .. Len(trail) + 1
          /\ \A i \in DOMAIN trail : /\ trail'[i] = trail[i]
                                     /\ level'[VarOf(trail[i])] = LevelOf(trail[i])
                                     /\ reason'[VarOf(trail[i])] = ReasonOf(trail[i])
          /\ trail'[Len(trail) + 1] = l
          /\ level'[VarOf(l)] = DecisionLevel + 1
          /\ reason'[VarOf(l)] = NoReason
      BY <1>1, <3>2, <3>3, DecisionInv
    <3>5. Len(trail') = Len(trail) + 1
      <4>1. DOMAIN trail' = 1 .. Len(trail') /\ Len(trail') \in Nat BY TrailAfter
      <4> QED BY <1>5, <3>4, <4>1
    <3> QED BY <1>5, <3>1, <3>4, <3>5
  <2> QED BY <2>1, <2>2
<1>7. HeadInv' BY <1>1, <1>3 DEF HeadInv
<1>8. ScanInv'
  <2>1. qhead \in 0 .. Len(trail') BY <1>4, <1>5, <1>6, TrailAfter
  <2> QED BY <1>1, <1>2, <1>3, <2>1, Zenon DEF ScanInv
<1>9. QueueInv'
  <2>1. \A i \in DOMAIN trail' : i > qhead => level'[VarOf(trail'[i])] = DecisionLevel'
    BY <1>4, <1>5, <1>6
  <2> QED BY <1>1, <1>2, <1>3, <1>4, <1>6, <2>1 DEF QueueInv, LevelOf
<1>10. \A i \in DOMAIN trail' : Kept(i) \/ i > qhead
  BY <1>4, <1>5, <1>6 DEF Kept
<1>11. \A C \in Clause : \A w \in C : Carried(C, w)
  BY <1>1, <1>2, <1>3, <1>4, <1>10, StayCarried
<1>12. SeenInv'
  <2> SUFFICES ASSUME NEW C \in Database' PROVE Seen(C)' BY DEF SeenInv
  <2>1. C \in Database /\ Seen(C) BY <1>1, <1>3 DEF SeenInv
  <2>2. C \in Clause /\ head[C][1] \in C /\ head[C][2] \in C BY <1>1, <2>1, HeadFacts
  <2> QED BY <1>1, <1>3, <1>11, <2>1, <2>2, SeenStays
<1>13. ReasonFirst'
  <2>1. ~ Cardinality(NoReason) > 2 BY FS_EmptySet DEF NoReason
  <2>2. ASSUME NEW i \in DOMAIN trail' PROVE FirstKept(i)
    <3>1. CASE reason'[VarOf(trail'[i])] = NoReason BY <2>1, <3>1 DEF FirstKept
    <3>2. CASE reason'[VarOf(trail'[i])] # NoReason BY <1>3, <1>6, <3>2 DEF FirstKept
    <3> QED BY <3>1, <3>2
  <2> QED BY <1>1, <2>2, FirstStays
<1> QED BY <1>7, <1>8, <1>9, <1>12, <1>13 DEF WatchInv

\* The steps of the search that leave the watch lists alone.
LEMMA GoesOnWatch ==
    ASSUME SearchInv, IndInv', Moves, GoesOn
    PROVE  WatchInv'
<1>1. UNCHANGED lists BY DEF GoesOn
<1>2. \/ (\E A \in Questions : Call(A)) \/ Resolve \/ AssumptionFails \/ ExplainLatest
      \/ AlreadyUnsat
      \/ DummyLevel \/ DecideAssumption \/ Decide
  BY DEF GoesOn
<1> QED BY <1>1, <1>2, StaysWatch, AlreadyUnsatWatch, LevelWatch

\* propagate() takes the next literal from the trail, or is through with one:
\* of what does not watch it nothing has to be seen.
LEMMA LiteralWatch ==
    ASSUME SearchInv, IndInv', Moves, NextLiteral \/ ListEnds
    PROVE  WatchInv'
<1>1. /\ IndInv /\ HeadInv /\ ScanInv /\ QueueInv /\ SeenInv /\ ReasonFirst /\ AssignmentInv
      /\ Propagating
  BY DEF SearchInv, AnswerInv, WatchInv, ScanInv, IndInv, NextLiteral, ListEnds
<1>2. /\ UNCHANGED <<pc, base, assigned, asked, head, confl>>
      /\ \/ /\ scan = "next" /\ qhead < Len(trail) /\ qhead' = qhead + 1
            /\ scan' = "watch" /\ todo' = Watching(trail[qhead + 1])
         \/ /\ scan = "watch" /\ todo = {} /\ scan' = "next" /\ qhead' = qhead /\ todo' = {}
  BY DEF NextLiteral, ListEnds, search
<1>3. /\ UNCHANGED <<pc, given, ok, clauses, learnts, weak, trail, trail_lim, level, reason,
                     assumptions, saved, refining, head, confl>>
      /\ Database' = Database /\ DecisionLevel' = DecisionLevel /\ Covered' = Covered
      /\ (Propagating' <=> Propagating)
      /\ \A C : Falsified(C)' <=> Falsified(C)
  <2>1. UNCHANGED <<pc, given, ok, clauses, learnts, weak, trail, trail_lim, level, reason,
                    assumptions, saved, refining, head, confl>>
    BY <1>2 DEF base, assigned, asked
  <2>2. DecisionLevel' = DecisionLevel BY <2>1 DEF DecisionLevel
  <2>3. \A C : Falsified(C)' <=> Falsified(C) BY <2>1 DEF Falsified, False, True
  <2>4. Propagating' <=> Propagating BY <2>1 DEF Propagating
  <2> QED BY <2>1, <2>2, <2>3, <2>4 DEF Database, Covered
<1>4. /\ DOMAIN trail = 1 .. Len(trail) /\ Len(trail) \in Nat /\ qhead \in Nat /\ qhead <= Len(trail)
      /\ \A i \in DOMAIN trail : i \in Nat /\ trail[i] \in Lits
  BY <1>1, QueueFacts, TrailFacts
<1>5. HeadInv' BY <1>1, <1>3 DEF HeadInv
<1>6. ScanInv'
  <2>1. CASE scan' = "watch"
    <3>1. qhead' = qhead + 1 /\ todo' = Watching(trail[qhead + 1]) /\ qhead < Len(trail)
      BY <1>2, <2>1
    <3>2. DOMAIN head = Database BY <1>1 DEF HeadInv
    <3>3. todo' \subseteq Database' /\ \A C \in todo' : -trail'[qhead'] \in {head'[C][1], head'[C][2]}
      BY <1>3, <3>1, <3>2 DEF Watching
    <3>4. qhead' \in 0 .. Len(trail') /\ qhead' > 0 BY <1>3, <1>4, <3>1
    <3> QED BY <1>1, <1>3, <2>1, <3>3, <3>4 DEF ScanInv, Literal
  <2>2. CASE scan' # "watch"
    <3>1. scan' = "next" /\ qhead' = qhead /\ todo' = {} BY <1>2, <2>2
    <3> QED BY <1>1, <1>3, <3>1 DEF ScanInv
  <2> QED BY <2>1, <2>2
<1>7. QueueInv'
  <2>1. pc \notin {"idle", "called", "quiet", "decide", "final"} BY <1>1 DEF Propagating
  <2>2. ASSUME NEW i \in DOMAIN trail, i > qhead' \/ (i = qhead' /\ scan' = "watch")
        PROVE  LevelOf(trail[i]) = DecisionLevel
    <3>1. i > qhead
      <4>1. CASE scan' = "watch" BY <1>2, <1>4, <2>2, <4>1
      <4>2. CASE scan' # "watch" BY <1>2, <1>4, <2>2, <4>2
      <4> QED BY <4>1, <4>2
    <3> QED BY <1>1, <3>1 DEF QueueInv
  <2> QED BY <1>3, <2>1, <2>2 DEF QueueInv, LevelOf
<1>8. ASSUME NEW C \in Database, NEW w \in {head[C][1], head[C][2]} PROVE Carried(C, w)
  <2> SUFFICES ASSUME NEW i \in DOMAIN trail', trail'[i] = -w, Visited(i, C)',
                      LevelOf(w)' <= Covered'
               PROVE  Kept(i) /\ Visited(i, C) /\ LevelOf(w) <= Covered
    BY DEF Carried
  <2>1. Kept(i) /\ LevelOf(w) <= Covered BY <1>3 DEF Kept, LevelOf, ReasonOf
  <2>2. i \in Nat /\ trail[i] = -w /\ w \in Lits /\ -(-w) = w
    BY <1>1, <1>3, <1>4, HeadFacts, LitFacts
  <2>3. Visited(i, C)
    <3>1. CASE scan' = "watch"
      <4>1. qhead' = qhead + 1 /\ todo' = Watching(trail[qhead + 1]) /\ todo = {}
        BY <1>1, <1>2, <3>1 DEF ScanInv
      <4>2. i # qhead'
        <5> SUFFICES ASSUME i = qhead' PROVE FALSE OBVIOUS
        <5>1. C \notin todo' BY <1>4, <4>1 DEF Visited
        <5>2. C \in DOMAIN head BY <1>1 DEF HeadInv
        <5> QED BY <2>2, <4>1, <5>1, <5>2, <1>3 DEF Watching
      <4>3. i < qhead' BY <4>2 DEF Visited
      <4>4. i < qhead \/ i = qhead BY <1>4, <2>2, <4>1, <4>3
      <4> QED BY <4>1, <4>4 DEF Visited
    <3>2. CASE scan' # "watch"
      <4>1. qhead' = qhead /\ todo = {} BY <1>2, <3>2
      <4> QED BY <4>1 DEF Visited
    <3> QED BY <3>1, <3>2
  <2> QED BY <2>1, <2>3
<1>9. SeenInv'
  <2> SUFFICES ASSUME ok', NEW C \in Database' PROVE Seen(C)' BY DEF SeenInv
  <2>1. C \in Database /\ Seen(C) BY <1>1, <1>3 DEF SeenInv
  <2> QED BY <1>1, <1>3, <1>8, <2>1, SeenStays
<1>10. ReasonFirst'
  <2>1. \A i \in DOMAIN trail' : FirstKept(i) BY <1>3 DEF FirstKept, ReasonOf
  <2> QED BY <1>1, <2>1, FirstStays
<1> QED BY <1>5, <1>6, <1>7, <1>9, <1>10 DEF WatchInv

\* Clauses are removed, and with them their watches; simplify() may take the
\* reasons of literals of level 0.
LEMMA RemovesWatch ==
    ASSUME SearchInv, IndInv', Moves, Starts \/ Removes
    PROVE  WatchInv'
<1>1. /\ IndInv /\ HeadInv /\ ScanInv /\ QueueInv /\ SeenInv /\ ReasonFirst /\ AssignmentInv
      /\ pc \in {"called", "quiet"} /\ pc' \in {"propagate", "decide"} /\ ~ refining
  BY DEF SearchInv, AnswerInv, WatchInv, ScanInv, IndInv, Starts, Removes, StartSearch, Tidy
<1>2. scan = "next" /\ confl = {} /\ todo = {} BY <1>1, NotPropagating DEF Propagating
<1>3. /\ UNCHANGED <<ok, weak, trail, trail_lim, level, refining, qhead, scan, todo, confl>>
      /\ Database' \subseteq Database
      /\ head' = [C \in DOMAIN head \cap Database' |-> head[C]]
      /\ ok
      /\ \A v \in Vars : reason'[v] = NoReason \/ reason'[v] = reason[v]
  <2>1. CASE Starts
    BY <2>1 DEF Starts, StartSearch, Detach, position, assigned, asked, Database
  <2>2. CASE Removes
    <3>1. ok BY <2>2 DEF SearchInv, AnswerInv, SearchesIfOk, Removes, Tidy
    <3> QED BY <2>2, <3>1 DEF Removes, Tidy, Detach, position, asked, Database
  <2> QED BY <2>1, <2>2
<1>4. DecisionLevel' = DecisionLevel /\ Covered' = DecisionLevel /\ Covered = DecisionLevel
  BY <1>1, <1>2, <1>3 DEF DecisionLevel, Covered
<1>5. /\ DecisionLevel \in Nat
      /\ \A i \in DOMAIN trail : trail[i] \in Lits /\ LevelOf(trail[i]) <= DecisionLevel
  BY <1>1, TrailFacts
<1>6. DOMAIN head = Database BY <1>1 DEF HeadInv
<1>7. HeadInv' BY <1>1, <1>3, <1>6 DEF HeadInv
<1>8. ScanInv' BY <1>1, <1>2, <1>3 DEF ScanInv
<1>9. QueueInv'
  <2>1. qhead = Len(trail) BY <1>1, <1>3 DEF QueueInv
  <2> QED BY <1>1, <1>2, <1>3, <1>4, <2>1 DEF QueueInv, LevelOf
<1>10. \A i \in DOMAIN trail' : Kept(i) BY <1>3, <1>4, <1>5 DEF Moves
<1>11. \A C \in Clause : \A w \in C : Carried(C, w)
  BY <1>1, <1>2, <1>3, <1>4, <1>10, StayCarried
<1>12. SeenInv'
  <2> SUFFICES ASSUME NEW C \in Database' PROVE Seen(C)' BY DEF SeenInv
  <2>1. C \in Database /\ Seen(C) /\ head'[C] = head[C] BY <1>1, <1>3, <1>6 DEF SeenInv
  <2>2. C \in Clause /\ head[C][1] \in C /\ head[C][2] \in C BY <1>1, <2>1, HeadFacts
  <2> QED BY <1>1, <1>3, <1>11, <2>1, <2>2, SeenStays
<1>13. ReasonFirst'
  <2>1. ASSUME NEW i \in DOMAIN trail' PROVE FirstKept(i)
    <3>1. i \in DOMAIN trail /\ trail'[i] = trail[i] /\ VarOf(trail[i]) \in Vars
      BY <1>3, <1>5, LitFacts
    <3>2. \A R \in Database' : head'[R] = head[R] BY <1>3, <1>6
    <3> QED BY <1>3, <3>1, <3>2 DEF FirstKept, ReasonOf
  <2> QED BY <1>1, <2>1, FirstStays
<1> QED BY <1>7, <1>8, <1>9, <1>12, <1>13 DEF WatchInv

\* The solver goes back to a lower level, and propagates from there.
LEMMA BackWatch ==
    ASSUME SearchInv, IndInv', Moves, NEW to \in 0 .. DecisionLevel,
           BackTo(to, << >>, NoReason), Rewind, UNCHANGED <<head, scan, todo, confl>>,
           pc \in {"quiet", "decide", "final"}, pc' \in {"idle", "propagate"},
           Database' = Database, weak' = weak, ok' => ok, ~ refining',
           to < DecisionLevel \/ Covered = DecisionLevel
    PROVE  WatchInv'
<1>1. /\ IndInv /\ HeadInv /\ ScanInv /\ QueueInv /\ SeenInv /\ ReasonFirst /\ AssignmentInv
  BY DEF SearchInv, AnswerInv, WatchInv, IndInv
<1>2. scan = "next" /\ confl = {} /\ todo = {} /\ ok
  BY <1>1, NotPropagating DEF Propagating, SearchInv, AnswerInv, SearchesIfOk
<1>3. /\ DecisionLevel' = to /\ Cut(to) \in 0 .. Len(trail) /\ Len(trail) \in Nat
      /\ DOMAIN trail = 1 .. Len(trail) /\ DOMAIN trail' = 1 .. Cut(to)
      /\ \A i \in DOMAIN trail' : /\ i \in DOMAIN trail
                                  /\ trail'[i] = trail[i]
                                  /\ LevelOf(trail[i]) <= to
                                  /\ level'[VarOf(trail[i])] = LevelOf(trail[i])
                                  /\ reason'[VarOf(trail[i])] = ReasonOf(trail[i])
  BY <1>1, GoBackInv
<1>4. qhead' = IF to < DecisionLevel THEN Cut(to) ELSE qhead
  BY <1>3 DEF Rewind, DecisionLevel, Cut
<1>5. Len(trail') = Cut(to) /\ Cut(to) \in Nat
  <2>1. DOMAIN trail' = 1 .. Len(trail') /\ Len(trail') \in Nat BY TrailAfter
  <2> QED BY <1>3, <2>1
<1>6. qhead' = Len(trail')
  <2>1. CASE to < DecisionLevel BY <1>4, <1>5, <2>1
  <2>2. CASE ~ to < DecisionLevel
    <3>1. Covered = DecisionLevel /\ Cut(to) = Len(trail) /\ qhead' = qhead
      BY <1>4, <2>2 DEF Cut
    <3>2. pc = "final" => DecisionLevel = 0
      <4>1. DecisionLevel \in Nat BY <1>1, TrailFacts
      <4> QED BY <1>2, <3>1, <4>1 DEF Covered
    <3>3. qhead = Len(trail) BY <1>1, <1>2, <3>2 DEF QueueInv
    <3> QED BY <1>5, <3>1, <3>3
  <2> QED BY <2>1, <2>2
<1>7. HeadInv' BY <1>1 DEF HeadInv
<1>8. ScanInv'
  <2>1. qhead' \in 0 .. Len(trail') BY <1>5, <1>6
  <2> QED BY <1>2, <2>1 DEF ScanInv
<1>9. QueueInv'
  <2>1. \A i \in DOMAIN trail' : ~ (i > qhead') BY <1>3, <1>5, <1>6
  <2> QED BY <1>2, <1>6, <2>1 DEF QueueInv
<1>10. \A i \in DOMAIN trail' : Kept(i) BY <1>3 DEF Kept
<1>11. \A C \in Clause : \A w \in C : Carried(C, w)
  BY <1>1, <1>2, <1>3, <1>4, <1>10, BackCarried
<1>12. SeenInv'
  <2> SUFFICES ASSUME NEW C \in Database' PROVE Seen(C)' BY DEF SeenInv
  <2>1. C \in Database /\ Seen(C) BY <1>1, <1>2 DEF SeenInv
  <2>2. C \in Clause /\ head[C][1] \in C /\ head[C][2] \in C BY <1>1, <2>1, HeadFacts
  <2> QED BY <1>1, <1>11, <2>1, <2>2, SeenStays
<1>13. ReasonFirst'
  <2>1. \A i \in DOMAIN trail' : FirstKept(i) BY <1>3 DEF FirstKept
  <2> QED BY <1>1, <2>1, FirstStays
<1> QED BY <1>7, <1>8, <1>9, <1>12, <1>13 DEF WatchInv

\* A restart, and the end of a search, if no conflict is to be refined.
LEMMA GoesBackWatch ==
    ASSUME ~ MayRefine, SearchInv, IndInv', Moves, GoesBack
    PROVE  WatchInv'
<1>1. /\ IndInv /\ Rewind /\ UNCHANGED <<head, scan, todo, confl>> /\ ~ refining
      /\ DecisionLevel \in Nat
  BY TrailFacts DEF SearchInv, AnswerInv, IndInv, WatchInv, ScanInv, GoesBack
<1>2. CASE Restart
  <2>1. PICK to \in 0 .. DecisionLevel : BackTo(to, << >>, NoReason) BY <1>2 DEF Restart
  <2>2. /\ pc = "quiet" /\ pc' = "propagate" /\ Database' = Database /\ weak' = weak
        /\ ok' = ok /\ ~ refining'
    BY <1>1, <1>2 DEF Restart, base, asked, Database
  <2>3. Covered = DecisionLevel
    BY <1>1, <2>2, NotPropagating DEF Covered, Propagating, SearchInv, WatchInv
  <2> QED BY <1>1, <2>1, <2>2, <2>3, BackWatch
<1>3. CASE SearchStops \/ ModelFound \/ AssumptionsRefuted
  <2>1. PICK result, lits : Return(result, lits)
    BY <1>3 DEF SearchStops, ModelFound, AssumptionsRefuted, Refine
  <2>2. pc \in {"quiet", "decide", "final"}
    BY <1>3 DEF SearchStops, ModelFound, AssumptionsRefuted
  <2>3. /\ pc' = "idle" /\ Database' = Database /\ weak' = weak /\ (ok' => ok) /\ ~ refining'
        /\ BackTo(0, << >>, NoReason)
    BY <2>1 DEF Return, Database
  <2>4. 0 < DecisionLevel \/ Covered = DecisionLevel
    BY <1>1, <2>2, NotPropagating DEF Covered, Propagating, SearchInv, WatchInv
  <2>5. 0 \in 0 .. DecisionLevel BY <1>1
  <2> QED BY <1>1, <2>2, <2>3, <2>4, <2>5, BackWatch
<1> QED BY <1>2, <1>3 DEF GoesBack

-----------------------------------------------------------------------------
(* New clauses *)

\* A clause without a literal and its complement has two literals of the
\* smallest variables.
LEMMA SortedFacts ==
    ASSUME NEW C \in Clause, Cardinality(C) > 1, ~ Tautology(C)
    PROVE  /\ Sorted(C) \in C \X C
           /\ Sorted(C)[1] # Sorted(C)[2]
<1>1. IsFiniteSet(C) /\ C \subseteq Lits BY LitsFinite DEF Clause
<1>2. \A l \in C : VarOf(l) \in Nat /\ l \in Lits
  BY <1>1, LitFacts, VarsAssumption
<1>3. ASSUME NEW D \in SUBSET C, D # {}
      PROVE  \E l \in D : \A m \in D : VarOf(l) <= VarOf(m)
  <2>1. {VarOf(l) : l \in D} \in SUBSET Nat BY <1>2
  <2>2. {VarOf(l) : l \in D} # {} BY <1>3
  <2>3. PICK x \in {VarOf(l) : l \in D} : \A y \in {VarOf(l) : l \in D} : x <= y
    BY <2>1, <2>2, LeastExists
  <2> QED BY <2>3
<1>4. PICK z \in C : z # 0 BY <1>1, AnotherOne
<1>5. PICK a \in C : \A m \in C : VarOf(a) <= VarOf(m) BY <1>3, <1>4
<1>6. PICK y \in C : y # a BY <1>1, AnotherOne
<1>7. PICK b \in C \ {a} : \A m \in C \ {a} : VarOf(b) <= VarOf(m)
  <2>1. C \ {a} # {} BY <1>6
  <2> QED BY <1>3, <2>1
<1>8. VarOf(a) # VarOf(b)
  <2>1. a \in Lits /\ b \in Lits BY <1>2
  <2>2. b = a \/ b = -a \/ VarOf(a) # VarOf(b) BY <2>1, LitFacts
  <2> QED BY <1>7, <2>2 DEF Tautology
<1>9. VarOf(a) \in Nat /\ VarOf(b) \in Nat BY <1>2
<1>10. VarOf(a) < VarOf(b) BY <1>5, <1>7, <1>8, <1>9
<1>11. <<a, b>> \in C \X C BY <1>7
<1>12. \E h \in C \X C : /\ VarOf(h[1]) < VarOf(h[2])
                         /\ \A l \in C \ {h[1]} : VarOf(h[2]) <= VarOf(l)
  <2>1. <<a, b>>[1] = a /\ <<a, b>>[2] = b OBVIOUS
  <2> QED BY <1>7, <1>10, <1>11, <2>1
<1>13. /\ Sorted(C) \in C \X C /\ VarOf(Sorted(C)[1]) < VarOf(Sorted(C)[2])
  BY <1>12 DEF Sorted
<1>14. Sorted(C)[1] \in C BY <1>13
<1>15. VarOf(Sorted(C)[1]) \in Nat BY <1>2, <1>14
<1>16. ~ VarOf(Sorted(C)[1]) < VarOf(Sorted(C)[1]) BY <1>15
<1> QED BY <1>13, <1>16

\* addClause_ watches what it keeps of a clause, of which nothing is false.
LEMMA AddsWatch ==
    ASSUME SearchInv, IndInv', Moves, NEW C \in Input, Adds(C)
    PROVE  WatchInv'
<1>1. /\ IndInv /\ HeadInv /\ ScanInv /\ QueueInv /\ SeenInv /\ ReasonFirst /\ AssignmentInv
      /\ pc = "idle" /\ ~ refining /\ DecisionLevel = 0 /\ AddClause(C)
      /\ C \in Clause
  BY InputAssumption DEF SearchInv, AnswerInv, WatchInv, ScanInv, IndInv, Home, Adds, AddClause
<1>2. scan = "next" /\ confl = {} /\ todo = {} BY <1>1, NotPropagating DEF Propagating
<1>3. UNCHANGED <<qhead, scan, todo, confl, weak, refining>> /\ learnts' = learnts
  BY <1>1 DEF Adds, position, AddClause, asked
<1> DEFINE R == Reduced(C)
<1>4. Len(trail) \in Nat /\ DOMAIN trail = 1 .. Len(trail)
  BY <1>1, TrailFacts
<1>5. /\ \A i \in DOMAIN trail' :
            \/ /\ i \in DOMAIN trail /\ trail'[i] = trail[i]
               /\ level'[VarOf(trail[i])] = LevelOf(trail[i])
               /\ reason'[VarOf(trail[i])] = ReasonOf(trail[i])
            \/ i = Len(trail) + 1 /\ reason'[VarOf(trail'[i])] = NoReason /\ ok
      /\ Len(trail') >= Len(trail) /\ DecisionLevel' = 0
      /\ (pc' = "idle" => Len(trail') = Len(trail)) /\ pc' \in {"idle", "adding"}
      /\ (ok' => ok)
  <2>1. CASE UNCHANGED <<pc, assigned>>
    <3>1. ok' => ok BY <1>1 DEF AddClause
    <3> QED BY <1>1, <1>4, <2>1, <3>1 DEF assigned, LevelOf, ReasonOf, DecisionLevel
  <2>2. CASE \E l \in R : R = {l} /\ Enqueue(l, NoReason) /\ pc' = "adding" /\ ok' = ok
                          /\ ~ Satisfied(C) /\ ok
    <3>1. PICK l \in R : R = {l} /\ Enqueue(l, NoReason) /\ ~ Satisfied(C) BY <2>2
    <3>2. l \in Lits /\ ~ False(l) /\ ~ True(l)
      BY <1>1, <3>1 DEF Reduced, Satisfied, Clause
    <3>3. NoReason \in Clause BY DEF NoReason, Clause
    <3>4. /\ DecisionLevel' = DecisionLevel
          /\ DOMAIN trail' = 1 .. Len(trail) + 1
          /\ \A i \in DOMAIN trail : /\ trail'[i] = trail[i]
                                     /\ level'[VarOf(trail[i])] = LevelOf(trail[i])
                                     /\ reason'[VarOf(trail[i])] = ReasonOf(trail[i])
          /\ trail'[Len(trail) + 1] = l
          /\ reason'[VarOf(l)] = NoReason
      BY <1>1, <3>1, <3>2, <3>3, EnqueueInv
    <3>5. Len(trail') = Len(trail) + 1
      <4>1. DOMAIN trail' = 1 .. Len(trail') /\ Len(trail') \in Nat BY TrailAfter
      <4> QED BY <1>4, <3>4, <4>1
    <3> QED BY <1>1, <1>4, <2>2, <3>4, <3>5
  <2> QED BY <1>1, <2>1, <2>2 DEF AddClause
<1>6. /\ Database \subseteq Database' /\ DOMAIN head' = Database'
      /\ \A D \in Database : head'[D] = head[D]
      /\ \A D \in Database' \ Database :
            /\ head'[D] \in D \X D /\ head'[D][1] # head'[D][2]
            /\ \A w \in D : ~ False(w)'
  <2>1. CASE clauses' \ Database = {}
    <3>1. Database' = Database
      <4>1. clauses \subseteq clauses' BY <1>1 DEF AddClause
      <4> QED BY <1>3, <2>1, <4>1 DEF Database
    <3>2. head' = head BY <2>1 DEF Adds
    <3> QED BY <1>1, <3>1, <3>2 DEF HeadInv
  <2>2. CASE clauses' \ Database # {}
    <3>1. /\ clauses' = clauses \cup {R} /\ Cardinality(R) > 1 /\ ~ Satisfied(C)
          /\ ~ Tautology(C) /\ UNCHANGED assigned
      BY <1>1, <2>2 DEF AddClause, Database
    <3>2. R \notin Database /\ Database' = Database \cup {R} /\ clauses' \ Database = {R}
      BY <1>3, <2>2, <3>1 DEF Database
    <3>3. Attach(R, Sorted(R)) BY <3>2 DEF Adds
    <3>4. R \in Clause /\ R \subseteq C /\ ~ Tautology(R)
      BY <1>1, <3>1 DEF Reduced, Clause, Tautology
    <3>5. Sorted(R) \in R \X R /\ Sorted(R)[1] # Sorted(R)[2] BY <3>1, <3>4, SortedFacts
    <3>6. /\ DOMAIN head' = Database' /\ head'[R] = Sorted(R)
          /\ \A D \in Database : head'[D] = head[D]
      BY <1>1, <3>2, <3>3 DEF Attach, HeadInv
    <3>7. \A w \in R : ~ False(w)
      BY DEF Reduced
    <3>8. \A w : False(w)' <=> False(w) BY <3>1 DEF False, True, assigned
    <3> HIDE DEF R
    <3>9. \A D \in Database' \ Database : D = R BY <3>2
    <3> QED BY <3>2, <3>5, <3>6, <3>7, <3>8, <3>9
  <2> QED BY <2>1, <2>2
<1> HIDE DEF R
<1>7. HeadInv' BY <1>1, <1>6 DEF HeadInv
<1>8. ScanInv'
  <2>1. qhead \in 0 .. Len(trail')
    <3>1. qhead \in Nat /\ qhead <= Len(trail) BY <1>1, QueueFacts
    <3>2. Len(trail') \in Nat BY TrailAfter
    <3> QED BY <1>4, <1>5, <3>1, <3>2
  <2> QED BY <1>1, <1>2, <1>3, <2>1, Zenon DEF ScanInv
<1>9. ok => qhead = Len(trail) BY <1>1 DEF QueueInv
<1>10. QueueInv'
  <2>1. \A i \in DOMAIN trail' : level'[VarOf(trail'[i])] = DecisionLevel'
    <3>1. IndInv' /\ AssignmentInv' BY DEF IndInv
    <3>2. trail' \in Seq(Lits) /\ level' \in [Vars -> Nat] BY <3>1 DEF IndInv, TypeOK
    <3>3. \A i \in DOMAIN trail' : VarOf(trail'[i]) \in Vars BY TrailAfter, LitFacts
    <3>4. \A i \in DOMAIN trail' : level'[VarOf(trail'[i])] \in Nat BY <3>2, <3>3
    <3> QED BY <1>5, <3>4, TrailAfter
  <2>2. ok' /\ pc' = "idle" => qhead' = Len(trail') BY <1>3, <1>5, <1>9
  <2> QED BY <1>5, <2>1, <2>2 DEF QueueInv, LevelOf
<1>11. ASSUME ok' PROVE \A D \in Clause : \A w \in D : Carried(D, w)
  <2>1. \A i \in DOMAIN trail' : Kept(i) \/ i > qhead
    BY <1>4, <1>5, <1>9, <1>11 DEF Kept
  <2>2. Covered = DecisionLevel BY <1>1, <1>2 DEF Covered
  <2> QED BY <1>1, <1>2, <1>3, <2>1, <2>2, StayCarried
<1>12. SeenInv'
  <2> SUFFICES ASSUME ok', NEW D \in Database' PROVE Seen(D)' BY DEF SeenInv
  <2>1. CASE D \in Database
    <3>1. Seen(D) BY <1>1, <1>5, <2>1 DEF SeenInv
    <3>2. D \in Clause /\ head[D][1] \in D /\ head[D][2] \in D BY <1>1, <2>1, HeadFacts
    <3> QED BY <1>1, <1>3, <1>6, <1>11, <2>1, <3>1, <3>2, SeenStays
  <2>2. CASE D \notin Database
    <3>1. head'[D][1] \in D /\ head'[D][2] \in D BY <1>6, <2>2
    <3>2. PICK a, b : a = head'[D][1] /\ b = head'[D][2] OBVIOUS
    <3>3. ~ False(a)' /\ ~ False(b)' BY <1>6, <2>2, <3>1, <3>2
    <3>4. Fine(D, a)' /\ Fine(D, b)' BY <3>3, FineOpen
    <3> QED BY <3>2, <3>4 DEF Seen
  <2> QED BY <2>1, <2>2
<1>13. ReasonFirst'
  <2>1. ~ Cardinality(NoReason) > 2 BY FS_EmptySet DEF NoReason
  <2>2. ASSUME NEW i \in DOMAIN trail' PROVE FirstKept(i)
    <3>1. CASE reason'[VarOf(trail'[i])] = NoReason BY <2>1, <3>1 DEF FirstKept
    <3>2. CASE reason'[VarOf(trail'[i])] # NoReason
      <4>1. /\ i \in DOMAIN trail /\ trail'[i] = trail[i]
            /\ reason'[VarOf(trail[i])] = ReasonOf(trail[i])
        BY <1>5, <3>2
      <4>2. Cardinality(ReasonOf(trail[i])) > 2 => ReasonOf(trail[i]) \in Database
        <5>1. Cardinality(ReasonOf(trail[i])) > 2 => ~ Cardinality(ReasonOf(trail[i])) = 2
          OBVIOUS
        <5> QED BY <1>1, <2>1, <4>1, <5>1 DEF IndInv, ReasonsKept
      <4> QED BY <1>6, <4>1, <4>2 DEF FirstKept
    <3> QED BY <3>1, <3>2
  <2> QED BY <1>1, <2>2, FirstStays
<1> QED BY <1>7, <1>8, <1>10, <1>12, <1>13 DEF WatchInv

\* Which clause gets new watched literals when C is learned, and which ones:
\* the first literal, and one of the level that is jumped to or, if the clause
\* is bi-asserting, another one of this level.
LEMMA LearnedHead ==
    ASSUME SearchInv, IndInv', Learns,
           NEW first, NEW others, NEW C, NEW to \in 0 .. DecisionLevel, to = JumpLevel(C),
           C = {first} \cup others, first \notin others, first = Latest(work),
           Learned(first, others), C \in Clause, first \in Lits, LevelOf(first) = DecisionLevel,
           \A l \in C : False(l), ~ False(first)'
    PROVE  /\ Database \subseteq Database' /\ Database' \subseteq Database \cup {C}
           /\ \/ /\ UNCHANGED head /\ Database' = Database
                 /\ OnThisLevel(others) # {} \/ others = {}
              \/ /\ C \in Database' /\ others # {}
                 /\ OnThisLevel(others) = {} \/ C \notin Database
                 /\ \E s \in Second(C, first) : Attach(C, <<first, s>>)
<1>1. IndInv /\ HeadInv /\ AssignmentInv BY DEF SearchInv, AnswerInv, WatchInv, IndInv
<1>2. /\ UNCHANGED <<clauses, learnts>> \/ others # {}
      /\ others # {} => \/ clauses' = clauses \cup {C} /\ UNCHANGED learnts
                        \/ learnts' = learnts \cup {C} /\ UNCHANGED clauses
      /\ BackTo(to, IF OnThisLevel(others) # {} THEN << >> ELSE <<first>>,
                IF others = {} THEN NoReason ELSE C)
  BY DEF Learned
<1>3. /\ Database \subseteq Database' /\ Database' \subseteq Database \cup {C}
      /\ others # {} => C \in Database'
      /\ others = {} => Database' = Database
  BY <1>2 DEF Database
<1>4. PICK why : why = reason'[VarOf(first)] OBVIOUS
<1>5. CASE OnThisLevel(others) = {} /\ others # {}
  <2>1. why = C
    <3>1. reason' = [v \in Vars |-> IF v \in {VarOf(<<first>>[i]) : i \in DOMAIN <<first>>}
                                    THEN C ELSE reason'[v]]
      BY <1>2, <1>5 DEF BackTo
    <3>2. VarOf(first) \in {VarOf(<<first>>[i]) : i \in DOMAIN <<first>>}
      <4>1. 1 \in DOMAIN <<first>> /\ <<first>>[1] = first OBVIOUS
      <4> QED BY <4>1
    <3>3. VarOf(first) \in Vars BY LitFacts
    <3> QED BY <1>4, <3>1, <3>2, <3>3
  <2>2. C \in {D \in clauses' \cup learnts' : D \notin Database \/ D = why}
    BY <1>3, <1>5, <2>1 DEF Database
  <2>3. PICK D \in {D \in clauses' \cup learnts' : D \notin Database \/ D = why} :
           \E s \in Second(D, first) : Attach(D, <<first, s>>)
    BY <1>4, <2>2 DEF Learns
  <2>4. D = C BY <1>3, <2>1, <2>3 DEF Database
  <2> QED BY <1>3, <1>5, <2>3, <2>4
<1>6. CASE OnThisLevel(others) # {} \/ others = {}
  <2>1. why = NoReason
    <3>1. CASE OnThisLevel(others) # {}
      <4>1. BackTo(to, << >>, NoReason)
        <5>1. others # {} BY <3>1 DEF OnThisLevel
        <5>2. BackTo(to, << >>, IF others = {} THEN NoReason ELSE C) BY <1>2, <3>1
        <5>3. \A R : BackTo(to, << >>, R) => BackTo(to, << >>, NoReason)
          <6>1. \A v : v \notin {VarOf(<< >>[i]) : i \in DOMAIN << >>} OBVIOUS
          <6> QED BY <6>1 DEF BackTo
        <5> QED BY <5>2, <5>3
      <4>2. \A i \in DOMAIN trail' : i \in DOMAIN trail /\ trail'[i] = trail[i]
        BY <1>1, <4>1, GoBackInv
      <4>3. ~ True(first) BY <1>1, FalseFacts
      <4>4. \A i \in DOMAIN trail' : trail'[i] # first /\ trail'[i] # -first
        BY <4>2, <4>3 DEF True, False
      <4>5. \A i \in DOMAIN trail' : VarOf(trail'[i]) # VarOf(first)
        BY <4>4, TrailAfter, LitFacts
      <4>6. VarOf(first) \in Vars BY LitFacts
      <4>7. NothingElse' BY DEF IndInv, AssignmentInv
      <4> QED BY <1>4, <4>5, <4>6, <4>7 DEF NothingElse
    <3>2. CASE others = {} /\ OnThisLevel(others) = {}
      <4>1. reason' = [v \in Vars |-> IF v \in {VarOf(<<first>>[i]) : i \in DOMAIN <<first>>}
                                      THEN NoReason ELSE reason'[v]]
        BY <1>2, <3>2 DEF BackTo
      <4>2. VarOf(first) \in {VarOf(<<first>>[i]) : i \in DOMAIN <<first>>}
        <5>1. 1 \in DOMAIN <<first>> /\ <<first>>[1] = first OBVIOUS
        <5> QED BY <5>1
      <4>3. VarOf(first) \in Vars BY LitFacts
      <4> QED BY <1>4, <4>1, <4>2, <4>3
    <3> QED BY <1>6, <3>1, <3>2
  <2>2. why \notin Database'
    <3>1. ~ Cardinality({}) > 1 BY FS_EmptySet
    <3>2. NoUnits' BY DEF IndInv
    <3> QED BY <2>1, <3>1, <3>2 DEF NoUnits, NoReason
  <2>3. CASE Database' = Database
    <3>1. {D \in clauses' \cup learnts' : D \notin Database \/ D = why} = {}
      BY <2>2, <2>3 DEF Database
    <3>2. UNCHANGED head BY <1>4, <3>1 DEF Learns
    <3> QED BY <1>3, <1>6, <2>3, <3>2
  <2>4. CASE Database' # Database
    <3>1. PICK D : D \in Database' \ Database BY <1>3, <2>4
    <3>2. C \in Database' \ Database /\ others # {} BY <1>3, <3>1
    <3>3. {E \in clauses' \cup learnts' : E \notin Database \/ E = why} = {C}
      BY <1>3, <2>2, <3>2 DEF Database
    <3>4. \E s \in Second(C, first) : Attach(C, <<first, s>>) BY <1>4, <3>3 DEF Learns
    <3> QED BY <1>3, <3>2, <3>4
  <2> QED BY <2>3, <2>4
<1> QED BY <1>5, <1>6

\* analyze() watches what it learned so that what is implied where the solver
\* jumps to is seen, and what is open there will be.
LEMMA LearnsWatch ==
    ASSUME SearchInv, IndInv', Moves, Learns
    PROVE  WatchInv'
<1>1. /\ IndInv /\ HeadInv /\ ScanInv /\ QueueInv /\ SeenInv /\ ReasonFirst /\ AssignmentInv
      /\ pc = "analyze" /\ pc' = "propagate" /\ ~ refining /\ ok /\ Learn
  BY DEF SearchInv, AnswerInv, SearchesIfOk, WatchInv, ScanInv, IndInv, Learns, Learn
<1>2. scan = "next" /\ confl = {} /\ todo = {} BY <1>1, NotPropagating DEF Propagating
<1>3. UNCHANGED <<scan, todo, confl, refining, ok>> BY <1>1 DEF Learns, Learn, asked
<1>4. PICK first, others, C, to :
         /\ C = {first} \cup others /\ first \notin others /\ first = Latest(work)
         /\ to = JumpLevel(C) /\ Learned(first, others)
         /\ first \in Lits /\ LevelOf(first) = DecisionLevel /\ C \in Clause
         /\ DecisionLevel \in Nat /\ to \in Nat /\ to < DecisionLevel
         /\ DecisionLevel' = to
         /\ \A l \in C : False(l)
         /\ \A l \in C : IF l \in OnThisLevel(C) THEN ~ False(l)'
                         ELSE False(l)' /\ LevelOf(l)' = LevelOf(l)
         /\ \A i \in DOMAIN trail' :
               \/ i \in 1 .. Cut(to)
               \/ i = Cut(to) + 1 /\ trail'[i] = first /\ OnThisLevel(others) = {}
         /\ OnThisLevel(others) = {} => \E i \in DOMAIN trail' : trail'[i] = first
  BY <1>1, LearnLeaves
<1>5. first \in OnThisLevel(C) /\ ~ False(first)' /\ to \in 0 .. DecisionLevel
  BY <1>4 DEF OnThisLevel
<1>6. /\ Database \subseteq Database' /\ Database' \subseteq Database \cup {C}
      /\ \/ /\ UNCHANGED head /\ Database' = Database
            /\ OnThisLevel(others) # {} \/ others = {}
         \/ /\ C \in Database' /\ others # {}
            /\ OnThisLevel(others) = {} \/ C \notin Database
            /\ \E s \in Second(C, first) : Attach(C, <<first, s>>)
  BY <1>4, <1>5, LearnedHead
<1>7. weak' = IF OnThisLevel(others) # {} /\ Cardinality(C) > 2
              THEN weak \cup ({C} \ Database) ELSE weak \ {C}
  BY <1>4 DEF Learned
<1>8. /\ DOMAIN trail = 1 .. Len(trail) /\ Cut(to) \in 0 .. Len(trail) /\ Len(trail) \in Nat
      /\ \A i \in DOMAIN trail : i <= Cut(to) <=> LevelOf(trail[i]) <= to
  BY <1>1, <1>5, CutFacts
<1>9. \A i \in 1 .. Cut(to) : i \in DOMAIN trail /\ LevelOf(trail[i]) <= to /\ Kept(i)
  <2>1. \A i \in DOMAIN trail : LevelOf(trail[i]) <= to => Kept(i) BY <1>4 DEF Moves
  <2>2. \A i \in 1 .. Cut(to) : i \in DOMAIN trail /\ LevelOf(trail[i]) <= to BY <1>8
  <2> QED BY <2>1, <2>2
<1>10. qhead' = Cut(to) /\ Cut(to) \in Nat
  BY <1>4, <1>8 DEF Learns, Rewind, DecisionLevel, Cut
<1>11. Cut(to) <= Len(trail')
  <2>1. DOMAIN trail' = 1 .. Len(trail') /\ Len(trail') \in Nat BY TrailAfter
  <2>2. \A i \in 1 .. Cut(to) : i \in 1 .. Len(trail') BY <1>9, <2>1 DEF Kept
  <2>3. Cut(to) = 0 \/ Cut(to) \in 1 .. Cut(to) BY <1>10
  <2> QED BY <1>10, <2>1, <2>2, <2>3
<1>12. /\ DOMAIN head' = Database' /\ \A D \in Database : D # C => head'[D] = head[D]
       /\ C \in Database' => head'[C] \in C \X C /\ head'[C][1] # head'[C][2]
  <2>1. CASE UNCHANGED head /\ Database' = Database BY <1>1, <2>1 DEF HeadInv
  <2>2. CASE \E s \in Second(C, first) : Attach(C, <<first, s>>) /\ C \in Database'
    <3>1. PICK s \in Second(C, first) : Attach(C, <<first, s>>) /\ C \in Database' BY <2>2
    <3>2. s \in C /\ s # first /\ first \in C BY <1>4, <1>5, <3>1 DEF Second
    <3>3. DOMAIN head = Database BY <1>1 DEF HeadInv
    <3>4. /\ DOMAIN head' = Database \cup {C} /\ head'[C] = <<first, s>>
          /\ \A D \in Database : D # C => head'[D] = head[D]
      BY <3>1, <3>3 DEF Attach
    <3>5. Database' = Database \cup {C} BY <1>6, <3>1
    <3>6. <<first, s>> \in C \X C /\ <<first, s>>[1] # <<first, s>>[2] BY <3>2
    <3> QED BY <3>4, <3>5, <3>6
  <2> QED BY <1>6, <2>1, <2>2
<1>13. HeadInv'
  <2>1. \A D \in Database' : D = C \/ D \in Database BY <1>6
  <2> QED BY <1>1, <1>12, <2>1 DEF HeadInv
<1>14. ScanInv'
  <2>1. Len(trail') \in Nat BY TrailAfter
  <2>2. qhead' \in 0 .. Len(trail') BY <1>10, <1>11, <2>1
  <2> QED BY <1>1, <1>2, <1>3, <2>2 DEF ScanInv, Propagating
<1>15. QueueInv'
  <2>1. ASSUME NEW i \in DOMAIN trail', i > qhead'
        PROVE  level'[VarOf(trail'[i])] = DecisionLevel'
    <3>1. i = Cut(to) + 1 /\ i \in Nat
      <4>1. i \in 1 .. Cut(to) \/ i = Cut(to) + 1 BY <1>4
      <4> QED BY <1>10, <2>1, <4>1
    <3>2. CASE Kept(i)
      <4>1. i \in DOMAIN trail /\ ~ LevelOf(trail[i]) <= to BY <1>8, <1>10, <3>1, <3>2 DEF Kept
      <4>2. level'[VarOf(trail'[i])] <= DecisionLevel' BY TrailAfter
      <4> QED BY <1>4, <3>2, <4>1, <4>2 DEF Kept
    <3>3. CASE Came(i) BY <3>3 DEF Came
    <3> QED BY <3>2, <3>3 DEF Moves
  <2> QED BY <1>1, <1>2, <1>3, <2>1 DEF QueueInv, LevelOf
<1>16. \A D \in Clause : \A w \in D : Carried(D, w)
  <2>1. ASSUME NEW i \in DOMAIN trail' PROVE Kept(i) \/ i > qhead'
    <3>1. i \in 1 .. Cut(to) \/ i = Cut(to) + 1 BY <1>4
    <3> QED BY <1>9, <1>10, <3>1
  <2> QED BY <1>1, <1>2, <1>3, <1>4, <1>5, <1>10, <2>1, BackCarried
<1>17. ASSUME NEW D \in Database, head'[D] = head[D], D \in weak => D \in weak'
       PROVE  Seen(D)'
  <2>1. Seen(D) BY <1>1 DEF SeenInv
  <2>2. D \in Clause /\ head[D][1] \in D /\ head[D][2] \in D BY <1>1, HeadFacts
  <2> QED BY <1>1, <1>16, <1>17, <2>1, <2>2, SeenStays
<1>18. ASSUME OnThisLevel(others) # {}, ~ Cardinality(C) > 2, C \in Database' PROVE Seen(C)'
  <2>1. PICK m \in others : LevelOf(m) = DecisionLevel BY <1>18 DEF OnThisLevel
  <2>2. IsFiniteSet(C) /\ Cardinality(C) > 1 BY <1>4, <1>18, LitsFinite DEF IndInv, NoUnits
  <2>3. Cardinality(C) = 2 BY <1>18, <2>2, FS_CardinalityType
  <2>4. C = {first, m} BY <1>4, <2>1, <2>2, <2>3, JustTwo
  <2>5. \A l \in C : ~ False(l)' BY <1>4, <1>5, <2>1, <2>4 DEF OnThisLevel
  <2>6. PICK a, b : a = head'[C][1] /\ b = head'[C][2] OBVIOUS
  <2>7. a \in C /\ b \in C BY <1>12, <1>18, <2>6
  <2>8. Fine(C, a)' /\ Fine(C, b)' BY <2>5, <2>7, FineOpen
  <2> QED BY <2>6, <2>8 DEF Seen
<1>19. ASSUME C \in Database' PROVE Seen(C)'
  <2>1. CASE OnThisLevel(others) # {} /\ ~ Cardinality(C) > 2 BY <1>18, <1>19, <2>1
  <2>2. CASE OnThisLevel(others) # {} /\ Cardinality(C) > 2 /\ C \in Database
    <3>1. head'[C] = head[C] BY <1>6, <2>2
    <3>2. weak' = weak BY <1>7, <2>2
    <3> QED BY <1>17, <2>2, <3>1, <3>2
  <2>3. CASE C \in Database' /\ others # {} /\ (OnThisLevel(others) = {} \/ C \notin Database)
             /\ \E s \in Second(C, first) : Attach(C, <<first, s>>)
    <3>1. PICK s \in Second(C, first) : Attach(C, <<first, s>>) BY <2>3
    <3>2. head'[C] = <<first, s>> BY <3>1 DEF Attach
    <3>3. head'[C][1] = first /\ head'[C][2] = s BY <3>2
    <3>4. Fine(C, first)' BY <1>5, FineOpen
    <3>5. CASE OnThisLevel(others) # {}
      <4>1. CASE Cardinality(C) > 2
        <5>1. C \in weak' BY <1>7, <2>3, <3>5, <4>1
        <5> QED BY <3>3, <3>4, <5>1 DEF Seen
      <4>2. CASE ~ Cardinality(C) > 2 BY <1>18, <1>19, <3>5, <4>2
      <4> QED BY <4>1, <4>2
    <3>6. CASE OnThisLevel(others) = {}
      <4>1. C \ OnThisLevel(C) # {}
        <5>1. PICK m \in others : TRUE BY <2>3
        <5>2. m \in C /\ m \notin OnThisLevel(C) BY <1>4, <3>6 DEF OnThisLevel
        <5> QED BY <5>2
      <4>2. s \in C /\ s \notin OnThisLevel(C) /\ LevelOf(s) = to BY <1>4, <3>1, <4>1 DEF Second
      <4>3. LevelOf(s)' = DecisionLevel' BY <1>4, <4>2
      <4>4. True(first)' BY <1>4, <3>6 DEF True
      <4>5. first \in C BY <1>4
      <4>6. Fine(C, s)' BY <1>4, <4>2, <4>3, <4>4, <4>5, FineTrue
      <4> QED BY <3>3, <3>4, <4>6 DEF Seen
    <3> QED BY <3>5, <3>6
  <2>4. CASE UNCHANGED head /\ Database' = Database /\ others = {}
    <3>1. IsFiniteSet({first}) /\ Cardinality({first}) = 1 BY FS_Singleton
    <3>2. C = {first} BY <1>4, <2>4
    <3>3. ~ Cardinality(C) > 1 BY <3>1, <3>2
    <3> QED BY <1>19, <3>3 DEF IndInv, NoUnits
  <2>5. CASE UNCHANGED head /\ Database' = Database /\ OnThisLevel(others) # {}
    BY <1>19, <2>1, <2>2, <2>5
  <2> QED BY <1>6, <2>3, <2>4, <2>5
<1>20. SeenInv'
  <2> SUFFICES ASSUME NEW D \in Database' PROVE Seen(D)' BY DEF SeenInv
  <2>1. CASE D = C BY <1>19, <2>1
  <2>2. CASE D # C
    <3>1. D \in Database /\ head'[D] = head[D] BY <1>6, <1>12, <2>2
    <3>2. D \in weak => D \in weak' BY <1>7, <2>2
    <3> QED BY <1>17, <3>1, <3>2
  <2> QED BY <2>1, <2>2
<1>21. BackTo(to, IF OnThisLevel(others) # {} THEN << >> ELSE <<first>>,
               IF others = {} THEN NoReason ELSE C)
  BY <1>4 DEF Learned
<1>22. \A v \in Vars : \/ v = VarOf(first)
                       \/ reason'[v] = reason[v] \/ reason'[v] = NoReason
  <2>1. PICK queue, why : BackTo(to, queue, why) /\ queue \in {<< >>, <<first>>} BY <1>21
  <2>2. \A v \in {VarOf(queue[i]) : i \in DOMAIN queue} : v = VarOf(first)
    <3>1. CASE queue = << >> BY <3>1
    <3>2. CASE queue = <<first>> BY <3>2
    <3> QED BY <2>1, <3>1, <3>2
  <2>3. PICK new : new = {VarOf(queue[i]) : i \in DOMAIN queue} OBVIOUS
  <2>4. PICK keep : reason' = [v \in Vars |-> IF v \in new THEN why
                                              ELSE IF v \in keep THEN reason[v] ELSE NoReason]
    BY <2>1, <2>3 DEF BackTo
  <2> QED BY <2>2, <2>3, <2>4
<1>23. OnThisLevel(others) = {} =>
          reason'[VarOf(first)] = IF others = {} THEN NoReason ELSE C
  <2> SUFFICES ASSUME OnThisLevel(others) = {}
               PROVE  reason'[VarOf(first)] = IF others = {} THEN NoReason ELSE C
    OBVIOUS
  <2>1. PICK why : why = IF others = {} THEN NoReason ELSE C OBVIOUS
  <2>2. BackTo(to, <<first>>, why) BY <1>21, <2>1
  <2>3. reason' = [v \in Vars |-> IF v \in {VarOf(<<first>>[i]) : i \in DOMAIN <<first>>}
                                  THEN why ELSE reason'[v]]
    BY <2>2 DEF BackTo
  <2>4. VarOf(first) \in {VarOf(<<first>>[i]) : i \in DOMAIN <<first>>}
    <3>1. 1 \in DOMAIN <<first>> /\ <<first>>[1] = first OBVIOUS
    <3> QED BY <3>1
  <2>5. VarOf(first) \in Vars BY <1>4, LitFacts
  <2> QED BY <2>1, <2>3, <2>4, <2>5
<1>24. ASSUME NEW i \in 1 .. Cut(to) PROVE FirstKept(i)
  <2>1. /\ i \in DOMAIN trail /\ LevelOf(trail[i]) <= to /\ trail'[i] = trail[i]
        /\ trail[i] \in Lits /\ LevelOf(trail[i]) \in Nat
    BY <1>1, <1>9, TrailFacts DEF Kept
  <2>2. VarOf(trail[i]) # VarOf(first) BY <1>4, <2>1 DEF LevelOf
  <2>3. VarOf(trail[i]) \in Vars BY <2>1, LitFacts
  <2>4. reason'[VarOf(trail[i])] = NoReason \/ reason'[VarOf(trail[i])] = ReasonOf(trail[i])
    BY <1>22, <2>2, <2>3 DEF ReasonOf
  <2>5. PICK R : R = ReasonOf(trail[i]) OBVIOUS
  <2>6. ASSUME Cardinality(R) > 2 PROVE head'[R][1] = head[R][1]
    <3>1. R # NoReason /\ ~ (Cardinality(R) = 2) BY <2>6, FS_EmptySet DEF NoReason
    <3>2. R \in Database BY <1>1, <2>1, <2>5, <3>1 DEF IndInv, ReasonsKept
    <3>3. trail[i] \in R BY <1>1, <2>1, <2>5, <3>1 DEF AssignmentInv, ReasonsBefore
    <3>4. True(trail[i]) BY <2>1 DEF True
    <3>5. R # C BY <1>1, <1>4, <2>1, <3>3, <3>4, FalseFacts
    <3> QED BY <1>12, <3>2, <3>5
  <2> QED BY <2>1, <2>4, <2>5, <2>6 DEF FirstKept
<1>25. ASSUME NEW i \in DOMAIN trail', trail'[i] = first, OnThisLevel(others) = {}
       PROVE  FirstKept(i)
  <2>1. CASE others = {}
    <3>1. ~ Cardinality(NoReason) > 2 BY FS_EmptySet DEF NoReason
    <3> QED BY <1>23, <1>25, <2>1, <3>1 DEF FirstKept
  <2>2. CASE others # {}
    <3>1. PICK s \in Second(C, first) : Attach(C, <<first, s>>) BY <1>6, <1>25, <2>2
    <3>2. head'[C] = <<first, s>> BY <3>1 DEF Attach
    <3>3. head'[C][1] = first BY <3>2
    <3> QED BY <1>23, <1>25, <2>2, <3>3 DEF FirstKept
  <2> QED BY <2>1, <2>2
<1>26. ReasonFirst'
  <2>1. \A i \in DOMAIN trail' : FirstKept(i) BY <1>4, <1>24, <1>25
  <2> QED BY <1>1, <2>1, FirstStays
<1> QED BY <1>13, <1>14, <1>15, <1>20, <1>26 DEF WatchInv

-----------------------------------------------------------------------------
(* The clauses that propagate() looks at *)

\* A clause that is a reason has its true literal in front: not the one that is
\* propagated, which is false in it.
LEMMA ReasonOther ==
    ASSUME SearchInv, NEW C \in todo, NEW i \in DOMAIN trail, ReasonOf(trail[i]) = C,
           Cardinality(C) > 2
    PROVE  OtherWatched(C) = head[C][1] /\ True(OtherWatched(C))
<1>1. IndInv /\ HeadInv /\ ScanInv /\ ReasonFirst /\ AssignmentInv
  BY DEF SearchInv, AnswerInv, WatchInv, IndInv
<1>2. head[C][1] = trail[i] BY <1>1 DEF ReasonFirst
<1>3. True(head[C][1]) BY <1>2 DEF True
<1>4. -Literal \in Lits /\ False(-Literal) BY <1>1, VisitFacts
<1>5. ~ True(-Literal) BY <1>1, <1>4, FalseFacts
<1> QED BY <1>3, <1>5 DEF OtherWatched

\* What stands on the trail stays there, and what the clause implies comes.
LEMMA PassTrail ==
    ASSUME SearchInv, IndInv', NEW C \in todo,
           \/ UNCHANGED assigned
           \/ /\ Unassigned(OtherWatched(C)) /\ Falsified(C \ {OtherWatched(C)})
              /\ Enqueue(OtherWatched(C), C)
    PROVE  /\ DecisionLevel' = DecisionLevel
           /\ Len(trail') \in Nat /\ Len(trail) <= Len(trail')
           /\ \A i \in DOMAIN trail : /\ i \in DOMAIN trail' /\ trail'[i] = trail[i]
                                      /\ level'[VarOf(trail[i])] = LevelOf(trail[i])
                                      /\ reason'[VarOf(trail[i])] = ReasonOf(trail[i])
           /\ \A i \in DOMAIN trail' :
                 \/ i \in DOMAIN trail
                 \/ /\ i = Len(trail) + 1 /\ trail'[i] = OtherWatched(C)
                    /\ level'[VarOf(trail'[i])] = DecisionLevel'
                    /\ reason'[VarOf(trail'[i])] = C
                    /\ Unassigned(OtherWatched(C))
<1>1. IndInv /\ HeadInv /\ ScanInv /\ AssignmentInv
  BY DEF SearchInv, AnswerInv, WatchInv, IndInv
<1>2. Len(trail) \in Nat /\ DOMAIN trail = 1 .. Len(trail) BY <1>1, TrailFacts
<1>3. Len(trail') \in Nat /\ DOMAIN trail' = 1 .. Len(trail') BY TrailAfter
<1>4. CASE UNCHANGED assigned
  <2>1. UNCHANGED <<trail, trail_lim, level, reason>> BY <1>4 DEF assigned
  <2> QED BY <1>2, <2>1 DEF LevelOf, ReasonOf, DecisionLevel
<1>5. CASE /\ Unassigned(OtherWatched(C)) /\ Falsified(C \ {OtherWatched(C)})
           /\ Enqueue(OtherWatched(C), C)
  <2>1. PICK l : l = OtherWatched(C) OBVIOUS
  <2>2. l \in Lits /\ l \in C /\ C \in Database BY <1>1, <2>1, VisitFacts
  <2>3. C \in Clause /\ C # NoReason BY <1>1, <2>2, HeadFacts DEF NoReason
  <2>4. ~ True(l) /\ ~ False(l) /\ \A m \in C \ {l} : False(m)
    BY <1>5, <2>1 DEF Unassigned, Falsified
  <2>5. /\ DecisionLevel' = DecisionLevel
        /\ DOMAIN trail' = 1 .. Len(trail) + 1
        /\ \A i \in DOMAIN trail : /\ trail'[i] = trail[i]
                                   /\ level'[VarOf(trail[i])] = LevelOf(trail[i])
                                   /\ reason'[VarOf(trail[i])] = ReasonOf(trail[i])
        /\ trail'[Len(trail) + 1] = l
        /\ level'[VarOf(l)] = DecisionLevel
        /\ reason'[VarOf(l)] = C
    BY <1>1, <1>5, <2>1, <2>2, <2>3, <2>4, EnqueueInv
  <2>6. Len(trail') = Len(trail) + 1
    <3>1. 1 .. Len(trail') = 1 .. Len(trail) + 1 BY <1>3, <2>5
    <3>2. \A m, n \in Nat : 1 .. m = 1 .. n + 1 => m = n + 1
      <4> SUFFICES ASSUME NEW m \in Nat, NEW n \in Nat, 1 .. m = 1 .. n + 1 PROVE m = n + 1
        OBVIOUS
      <4>1. n + 1 \in 1 .. m OBVIOUS
      <4>2. m = 0 \/ m \in 1 .. n + 1 OBVIOUS
      <4> QED BY <4>1, <4>2
    <3> QED BY <1>2, <1>3, <3>1, <3>2
  <2> QED BY <1>2, <1>3, <1>5, <2>1, <2>5, <2>6
<1> QED BY <1>4, <1>5

\* A clause is done with: what was seen of it and of the others stays seen, but
\* for the literal that is propagated, which is now seen of this clause.
LEMMA PassCarried ==
    ASSUME SearchInv, IndInv', NEW C \in todo,
           \/ UNCHANGED assigned
           \/ /\ Unassigned(OtherWatched(C)) /\ Falsified(C \ {OtherWatched(C)})
              /\ Enqueue(OtherWatched(C), C),
           UNCHANGED <<pc, qhead, confl>>, todo' = todo \ {C},
           NEW D \in Clause, NEW w \in D, D # C \/ w # -Literal
    PROVE  Carried(D, w)
<1>1. IndInv /\ ScanInv /\ QueueInv BY DEF SearchInv, AnswerInv, WatchInv
<1>2. /\ DecisionLevel' = DecisionLevel
      /\ \A i \in DOMAIN trail : /\ i \in DOMAIN trail' /\ trail'[i] = trail[i]
                                 /\ level'[VarOf(trail[i])] = LevelOf(trail[i])
                                 /\ reason'[VarOf(trail[i])] = ReasonOf(trail[i])
      /\ \A i \in DOMAIN trail' : i \in DOMAIN trail \/ i = Len(trail) + 1
  BY PassTrail
<1>3. qhead \in Nat /\ qhead <= Len(trail) /\ Len(trail) \in Nat BY <1>1, QueueFacts
<1>4. \A i \in DOMAIN trail' : Kept(i) \/ i > qhead BY <1>2, <1>3 DEF Kept
<1>5. Covered' = Covered BY <1>2 DEF Covered
<1>6. Covered' <= Covered BY <1>1, <1>5, CoveredFacts
<1> QED BY <1>1, <1>4, <1>6, StayCarried

\* What is known of a clause that is done with.
LEMMA PassInv ==
    ASSUME SearchInv, IndInv', Moves, NEW C \in todo,
           \/ UNCHANGED assigned
           \/ /\ Unassigned(OtherWatched(C)) /\ Falsified(C \ {OtherWatched(C)})
              /\ Enqueue(OtherWatched(C), C)
              /\ Cardinality(C) = 2 \/ head'[C][1] = OtherWatched(C),
           UNCHANGED <<pc, ok, weak, refining, qhead, scan, confl>>, Database' = Database,
           todo' = todo \ {C},
           DOMAIN head' = DOMAIN head, \A D \in Database : D # C => head'[D] = head[D],
           head'[C] \in C \X C, head'[C][1] # head'[C][2],
           /\ Cardinality(C) > 2 /\ True(OtherWatched(C)) /\ OtherWatched(C) = head[C][1]
           => head'[C][1] = head[C][1],
           ok => Seen(C)'
    PROVE  WatchInv'
<1>1. /\ IndInv /\ HeadInv /\ ScanInv /\ QueueInv /\ SeenInv /\ ReasonFirst /\ AssignmentInv
  BY DEF SearchInv, AnswerInv, WatchInv, IndInv
<1>2. /\ DecisionLevel' = DecisionLevel
      /\ Len(trail') \in Nat /\ Len(trail) <= Len(trail')
      /\ \A i \in DOMAIN trail : /\ i \in DOMAIN trail' /\ trail'[i] = trail[i]
                                 /\ level'[VarOf(trail[i])] = LevelOf(trail[i])
                                 /\ reason'[VarOf(trail[i])] = ReasonOf(trail[i])
      /\ \A i \in DOMAIN trail' :
            \/ i \in DOMAIN trail
            \/ /\ i = Len(trail) + 1 /\ trail'[i] = OtherWatched(C)
               /\ level'[VarOf(trail'[i])] = DecisionLevel'
               /\ reason'[VarOf(trail'[i])] = C
               /\ Unassigned(OtherWatched(C))
  BY PassTrail
<1>3. qhead \in Nat /\ qhead <= Len(trail) /\ Len(trail) \in Nat /\ qhead \in DOMAIN trail
      /\ scan = "watch" /\ Propagating /\ C \in Database
  BY <1>1, QueueFacts, VisitFacts
<1>4. HeadInv' BY <1>1 DEF HeadInv
<1>5. ScanInv'
  <2>1. qhead' \in 0 .. Len(trail') BY <1>2, <1>3
  <2>2. \A D \in todo' : -trail'[qhead'] \in {head'[D][1], head'[D][2]}
    BY <1>1, <1>2, <1>3 DEF ScanInv, Literal
  <2>3. \A l : False(l) => False(l)' BY <1>2 DEF False, True
  <2>4. confl' # {} => confl' \in Database' /\ Falsified(confl)'
    BY <1>1, <2>3 DEF ScanInv, Falsified
  <2> QED BY <1>1, <1>3, <2>1, <2>2, <2>4 DEF ScanInv, Propagating, Literal
<1>6. QueueInv'
  <2>1. pc' \notin {"idle", "called", "quiet", "decide", "final"} BY <1>3 DEF Propagating
  <2>2. \A i \in DOMAIN trail' : i > qhead' \/ (i = qhead' /\ scan' = "watch")
                                   => level'[VarOf(trail'[i])] = DecisionLevel'
    BY <1>1, <1>2 DEF QueueInv
  <2> QED BY <2>1, <2>2 DEF QueueInv, LevelOf
<1>7. SeenInv'
  <2> SUFFICES ASSUME ok, NEW D \in Database PROVE Seen(D)' BY DEF SeenInv
  <2>1. CASE D = C BY <2>1
  <2>2. CASE D # C
    <3>1. Seen(D) /\ head'[D] = head[D] BY <1>1, <2>2 DEF SeenInv
    <3>2. D \in Clause /\ head[D][1] \in D /\ head[D][2] \in D BY <1>1, HeadFacts
    <3>3. \A w \in D : Carried(D, w) BY <2>2, <3>2, PassCarried
    <3> QED BY <1>1, <3>1, <3>2, <3>3, SeenStays
  <2> QED BY <2>1, <2>2
<1>8. ReasonFirst'
  <2>1. ASSUME NEW i \in DOMAIN trail, Cardinality(ReasonOf(trail[i])) > 2,
               ReasonOf(trail[i]) \in Database'
        PROVE  head'[ReasonOf(trail[i])][1] = head[ReasonOf(trail[i])][1]
    <3>1. CASE ReasonOf(trail[i]) = C BY <2>1, <3>1, ReasonOther
    <3>2. CASE ReasonOf(trail[i]) # C BY <2>1, <3>2
    <3> QED BY <3>1, <3>2
  <2>2. ASSUME NEW i \in DOMAIN trail' PROVE FirstKept(i)
    <3>1. CASE i \in DOMAIN trail BY <1>2, <2>1, <3>1 DEF FirstKept
    <3>2. CASE i \notin DOMAIN trail
      <4>1. trail'[i] = OtherWatched(C) /\ reason'[VarOf(trail'[i])] = C
        BY <1>2, <3>2
      <4>2. ~ UNCHANGED assigned BY <2>2, <3>2 DEF assigned
      <4>3. Cardinality(C) > 2 => head'[C][1] = OtherWatched(C)
        <5>1. Cardinality(C) > 2 => ~ Cardinality(C) = 2 OBVIOUS
        <5> QED BY <4>2, <5>1
      <4> QED BY <4>1, <4>3 DEF FirstKept
    <3> QED BY <3>1, <3>2
  <2> QED BY <1>1, <2>2, FirstStays
<1> QED BY <1>4, <1>5, <1>6, <1>7, <1>8 DEF WatchInv

\* The literal that is propagated is fine where another one of the clause is
\* true, and the other watched literal as it was.
LEMMA PassFine ==
    ASSUME SearchInv, IndInv', Moves, NEW C \in todo,
           \/ UNCHANGED assigned
           \/ /\ Unassigned(OtherWatched(C)) /\ Falsified(C \ {OtherWatched(C)})
              /\ Enqueue(OtherWatched(C), C),
           UNCHANGED <<pc, qhead, confl>>, todo' = todo \ {C},
           NEW w
    PROVE  /\ w = -Literal /\ (\E t \in C : True(t)') => Fine(C, w)'
           /\ w = OtherWatched(C) /\ (~ False(w) \/ (C \notin weak /\ ok)) => Fine(C, w)'
<1>1. /\ IndInv /\ HeadInv /\ ScanInv /\ QueueInv /\ SeenInv
  BY DEF SearchInv, AnswerInv, WatchInv
<1>2. /\ scan = "watch" /\ C \in Database /\ qhead \in DOMAIN trail
      /\ Literal \in Lits /\ trail[qhead] = Literal /\ -Literal \in C
      /\ OtherWatched(C) \in C /\ OtherWatched(C) # -Literal
      /\ {head[C][1], head[C][2]} = {OtherWatched(C), -Literal}
  BY <1>1, VisitFacts
<1>3. C \in Clause BY <1>1, <1>2, HeadFacts
<1>4. ASSUME w = -Literal, NEW t \in C, True(t)' PROVE Fine(C, w)'
  <2>1. LevelOf(trail[qhead]) = DecisionLevel BY <1>1, <1>2 DEF QueueInv
  <2>2. level'[VarOf(trail[qhead])] = LevelOf(trail[qhead]) /\ DecisionLevel' = DecisionLevel
    BY <1>2, PassTrail
  <2>3. VarOf(w) = VarOf(trail[qhead]) BY <1>2, <1>4, LitFacts
  <2>4. LevelOf(w)' = DecisionLevel' BY <2>1, <2>2, <2>3 DEF LevelOf
  <2> QED BY <1>2, <1>3, <1>4, <2>4, FineTrue
<1>6. ASSUME w = OtherWatched(C), ~ False(w) PROVE Fine(C, w)'
  <2>1. w \in Lits /\ w # -w BY <1>2, <1>3, <1>6, LitFacts DEF Clause
  <2>2. /\ \A i \in DOMAIN trail : trail'[i] = trail[i]
        /\ \A i \in DOMAIN trail' : i \in DOMAIN trail \/ trail'[i] = w
    BY <1>6, PassTrail
  <2>3. \A i \in DOMAIN trail' : trail'[i] # -w BY <1>6, <2>1, <2>2 DEF False, True
  <2>4. ~ False(w)' BY <2>3 DEF False, True
  <2> QED BY <2>4, FineOpen
<1>5. ASSUME w = OtherWatched(C), C \notin weak, ok PROVE Fine(C, w)'
  <2>1. Fine(C, w)
    <3>1. Fine(C, head[C][1]) /\ Fine(C, head[C][2]) BY <1>1, <1>2, <1>5 DEF SeenInv, Seen
    <3>2. w = head[C][1] \/ w = head[C][2] BY <1>2, <1>5
    <3> QED BY <3>1, <3>2
  <2>2. Carried(C, w) BY <1>2, <1>3, <1>5, PassCarried
  <2> QED BY <1>1, <1>2, <1>3, <1>5, <2>1, <2>2, FineStays
<1> QED BY <1>4, <1>5, <1>6

\* A clause that is falsified becomes the conflict: this level is no longer
\* covered.
LEMMA ConflictWatch ==
    ASSUME SearchInv, IndInv', Moves, NEW C \in todo, UNCHANGED <<search, assigned>>,
           confl' = C, Falsified(C),
           \/ scan' = "over" /\ todo' = {} /\ qhead' = qhead
           \/ scan' = scan /\ todo' = todo \ {C} /\ qhead' = qhead
           \/ scan' = "next" /\ todo' = {} /\ qhead' = Len(trail),
           DOMAIN head' = DOMAIN head, \A D \in Database : D # C => head'[D] = head[D],
           head'[C] \in C \X C, head'[C][1] # head'[C][2],
           {head'[C][1], head'[C][2]} = {head[C][1], head[C][2]}
    PROVE  WatchInv'
<1>1. /\ IndInv /\ HeadInv /\ ScanInv /\ QueueInv /\ SeenInv /\ ReasonFirst /\ AssignmentInv
  BY DEF SearchInv, AnswerInv, WatchInv, IndInv
<1>2. /\ UNCHANGED <<pc, ok, weak, refining, trail, trail_lim, level, reason>>
      /\ Database' = Database /\ (Propagating' <=> Propagating)
  BY DEF search, base, asked, assigned, Database, Propagating
<1>3. qhead \in Nat /\ qhead <= Len(trail) /\ Len(trail) \in Nat /\ qhead \in DOMAIN trail
      /\ scan = "watch" /\ Propagating /\ C \in Database /\ qhead > 0
      /\ DOMAIN trail = 1 .. Len(trail)
  BY <1>1, QueueFacts, VisitFacts
<1>4. C # {} /\ C \in Clause BY <1>1, <1>3, HeadFacts
<1>5. HeadInv' BY <1>1, <1>2 DEF HeadInv
<1>6. ScanInv'
  <2>1. qhead' \in 0 .. Len(trail') BY <1>2, <1>3
  <2>2. \A D \in todo' : -trail'[qhead'] \in {head'[D][1], head'[D][2]}
    BY <1>1, <1>2, <1>3 DEF ScanInv, Literal
  <2>3. Falsified(confl)' BY <1>2 DEF Falsified, False, True
  <2>4. todo' \subseteq Database' BY <1>1, <1>2 DEF ScanInv
  <2>5. scan' = "watch" => qhead' > 0 BY <1>3
  <2> QED BY <1>1, <1>2, <1>3, <1>4, <2>1, <2>2, <2>3, <2>4, <2>5 DEF ScanInv, Literal
<1>7. QueueInv'
  <2>1. pc' \notin {"idle", "called", "quiet", "decide", "final"}
    BY <1>2, <1>3 DEF Propagating
  <2>2. ASSUME NEW i \in DOMAIN trail', i > qhead' \/ (i = qhead' /\ scan' = "watch")
        PROVE  level'[VarOf(trail'[i])] = DecisionLevel'
    <3>1. i \in DOMAIN trail /\ (i > qhead \/ (i = qhead /\ scan = "watch"))
      <4>1. CASE qhead' = qhead BY <1>2, <1>3, <2>2, <4>1
      <4>2. CASE qhead' = Len(trail) /\ scan' = "next" BY <1>2, <1>3, <2>2, <4>2
      <4> QED BY <4>1, <4>2
    <3> QED BY <1>1, <1>2, <3>1 DEF QueueInv, LevelOf, DecisionLevel
  <2> QED BY <2>1, <2>2 DEF QueueInv, LevelOf
<1>8. SeenInv'
  <2> SUFFICES ASSUME ok, NEW D \in Database PROVE Seen(D)' BY <1>2 DEF SeenInv
  <2>1. Seen(D) /\ {head'[D][1], head'[D][2]} = {head[D][1], head[D][2]}
    BY <1>1 DEF SeenInv
  <2>2. D \in Clause /\ head[D][1] \in D /\ head[D][2] \in D BY <1>1, HeadFacts
  <2>3. \A w \in D : Carried(D, w) BY <1>1, <1>3, <1>4, <2>2, ConflictCarried
  <2> QED BY <1>1, <1>2, <2>1, <2>2, <2>3, SeenStays
<1>9. ReasonFirst'
  <2>1. ASSUME NEW i \in DOMAIN trail, Cardinality(ReasonOf(trail[i])) > 2,
               ReasonOf(trail[i]) \in Database'
        PROVE  head'[ReasonOf(trail[i])][1] = head[ReasonOf(trail[i])][1]
    <3>1. CASE ReasonOf(trail[i]) = C
      <4>1. True(OtherWatched(C)) BY <2>1, <3>1, ReasonOther
      <4>2. OtherWatched(C) \in C /\ OtherWatched(C) \in Lits BY <1>1, VisitFacts
      <4> QED BY <1>1, <4>1, <4>2, FalseFacts DEF Falsified
    <3>2. CASE ReasonOf(trail[i]) # C BY <1>2, <2>1, <3>2
    <3> QED BY <3>1, <3>2
  <2>2. \A i \in DOMAIN trail' : FirstKept(i) BY <1>2, <2>1 DEF FirstKept, ReasonOf
  <2> QED BY <1>1, <2>2, FirstStays
<1> QED BY <1>5, <1>6, <1>7, <1>8, <1>9 DEF WatchInv

\* What a clause implies holds.
LEMMA ImpliedHolds ==
    ASSUME SearchInv, NEW C \in todo, NEW a, a = OtherWatched(C),
           Unassigned(OtherWatched(C)), Falsified(C \ {OtherWatched(C)}),
           Enqueue(OtherWatched(C), C)
    PROVE  True(a)'
<1>1. IndInv /\ HeadInv /\ ScanInv BY DEF SearchInv, AnswerInv, WatchInv
<1>2. C \in Database /\ a \in C /\ a \in Lits BY <1>1, VisitFacts
<1>3. C \in Clause /\ C # NoReason BY <1>1, <1>2, HeadFacts DEF NoReason
<1>4. IF C = NoReason THEN DecisionLevel = 0
      ELSE a \in C /\ \A m \in C \ {a} : False(m)
  BY <1>2, <1>3 DEF Falsified
<1>5. Enqueue(a, C) /\ ~ True(a) /\ ~ False(a) BY DEF Unassigned
<1>6. \E i \in DOMAIN trail' : trail'[i] = a /\ level'[VarOf(a)] = DecisionLevel
  BY <1>1, <1>2, <1>3, <1>4, <1>5, EnqueueMoves
<1> QED BY <1>6 DEF True

\* A binary clause is true, implies its other literal, or is falsified.
LEMMA BinaryWatch ==
    ASSUME SearchInv, IndInv', Moves, NEW C \in todo, Binary(C)
    PROVE  WatchInv'
<1>1. /\ IndInv /\ HeadInv /\ ScanInv /\ AssignmentInv
  BY DEF SearchInv, AnswerInv, WatchInv, IndInv
<1>2. /\ C \in Database /\ -Literal \in C /\ False(-Literal)
      /\ OtherWatched(C) \in C /\ OtherWatched(C) # -Literal /\ OtherWatched(C) \in Lits
      /\ {head[C][1], head[C][2]} = {OtherWatched(C), -Literal}
  BY <1>1, VisitFacts
<1>3. IsFiniteSet(C) /\ Cardinality(C) = 2 BY <1>1, <1>2, HeadFacts DEF Binary
<1>4. C = {OtherWatched(C), -Literal} BY <1>2, <1>3, JustTwo
<1>5. PICK imp \in C \ {-Literal} :
          \/ /\ True(imp)
             /\ todo' = todo \ {C}
             /\ UNCHANGED <<search, assigned, scan, confl>>
          \/ /\ Unassigned(imp) /\ Implies(C, imp)
             /\ todo' = todo \ {C}
             /\ UNCHANGED <<scan, confl>>
          \/ /\ False(imp) /\ confl' = C
             /\ \/ scan' = "over" /\ todo' = {}
                \/ MayGoOn /\ scan' = scan /\ todo' = todo \ {C}
             /\ UNCHANGED <<search, assigned>>
  BY DEF Binary
<1>6. imp = OtherWatched(C) BY <1>4
<1>7. UNCHANGED <<head, qhead>> BY DEF Binary
<1>8. /\ DOMAIN head' = DOMAIN head /\ \A D \in Database : D # C => head'[D] = head[D]
      /\ head'[C] \in C \X C /\ head'[C][1] # head'[C][2]
      /\ {head'[C][1], head'[C][2]} = {head[C][1], head[C][2]}
  BY <1>1, <1>2, <1>7 DEF HeadInv
<1>9. CASE False(imp) /\ confl' = C
           /\ (\/ scan' = "over" /\ todo' = {}
               \/ MayGoOn /\ scan' = scan /\ todo' = todo \ {C})
           /\ UNCHANGED <<search, assigned>>
  <2>1. Falsified(C) BY <1>2, <1>4, <1>6, <1>9 DEF Falsified
  <2> QED BY <1>7, <1>8, <1>9, <2>1, ConflictWatch
<1>10. CASE \/ /\ True(imp)
               /\ todo' = todo \ {C}
               /\ UNCHANGED <<search, assigned, scan, confl>>
            \/ /\ Unassigned(imp) /\ Implies(C, imp)
               /\ todo' = todo \ {C}
               /\ UNCHANGED <<scan, confl>>
  <2>1. /\ UNCHANGED <<pc, ok, weak, refining, qhead, scan, confl>> /\ Database' = Database
        /\ todo' = todo \ {C}
    BY <1>7, <1>10 DEF search, base, asked, Implies, Database
  <2>2. \/ UNCHANGED assigned /\ True(OtherWatched(C))
        \/ /\ Unassigned(OtherWatched(C)) /\ Falsified(C \ {OtherWatched(C)})
           /\ Enqueue(OtherWatched(C), C)
    BY <1>2, <1>4, <1>6, <1>10 DEF Implies, Falsified
  <2>3. PICK a, b : a = OtherWatched(C) /\ b = -Literal OBVIOUS
  <2>4. a \in C /\ ~ False(a) /\ True(a)'
    <3>1. CASE UNCHANGED assigned /\ True(OtherWatched(C))
      <4>1. ~ False(a) BY <1>1, <1>2, <2>3, <3>1, FalseFacts
      <4>2. True(a)' BY <2>3, <3>1 DEF True, assigned
      <4> QED BY <1>2, <2>3, <4>1, <4>2
    <3>2. CASE /\ Unassigned(OtherWatched(C)) /\ Falsified(C \ {OtherWatched(C)})
               /\ Enqueue(OtherWatched(C), C)
      <4>1. ~ False(a) BY <2>3, <3>2 DEF Unassigned
      <4>2. True(a)' BY <2>2, <2>3, <3>2, ImpliedHolds
      <4> QED BY <1>2, <2>3, <4>1, <4>2
    <3> QED BY <2>2, <3>1, <3>2
  <2>5. Fine(C, a)' /\ Fine(C, b)' BY <2>1, <2>2, <2>3, <2>4, PassFine
  <2>6. Seen(C)'
    <3>1. {head'[C][1], head'[C][2]} = {a, b} BY <1>2, <1>8, <2>3
    <3>2. PICK x, y : x = head'[C][1] /\ y = head'[C][2] OBVIOUS
    <3>3. x \in {a, b} /\ y \in {a, b} BY <3>1, <3>2
    <3>4. Fine(C, x)' /\ Fine(C, y)' BY <2>5, <3>3
    <3> QED BY <3>2, <3>4 DEF Seen
  <2>7. ~ Cardinality(C) > 2 BY <1>3
  <2> QED BY <1>3, <1>8, <2>1, <2>2, <2>6, <2>7, PassInv
<1> QED BY <1>5, <1>9, <1>10

\* A clause with a true literal is not looked at.
LEMMA BlockedWatch ==
    ASSUME SearchInv, IndInv', Moves, NEW C \in todo, Blocked(C)
    PROVE  WatchInv'
<1>1. /\ IndInv /\ HeadInv /\ ScanInv /\ AssignmentInv
  BY DEF SearchInv, AnswerInv, WatchInv, IndInv
<1>2. /\ C \in Database /\ -Literal \in C
      /\ OtherWatched(C) \in C /\ OtherWatched(C) \in Lits
      /\ {head[C][1], head[C][2]} = {OtherWatched(C), -Literal}
  BY <1>1, VisitFacts
<1>3. UNCHANGED <<search, assigned, head, qhead, scan, confl>> /\ todo' = todo \ {C}
      /\ Satisfied(C) /\ Cardinality(C) > 2
  BY DEF Blocked
<1>4. UNCHANGED <<pc, ok, weak, refining, qhead, scan, confl>> /\ Database' = Database
  BY <1>3 DEF search, base, asked, Database
<1>5. /\ DOMAIN head' = DOMAIN head /\ \A D \in Database : D # C => head'[D] = head[D]
      /\ head'[C] \in C \X C /\ head'[C][1] # head'[C][2]
      /\ {head'[C][1], head'[C][2]} = {head[C][1], head[C][2]}
  BY <1>1, <1>2, <1>3 DEF HeadInv
<1>6. \E t \in C : True(t)' BY <1>3 DEF Satisfied, True, assigned
<1>7. ASSUME ok PROVE Seen(C)'
  <2>1. PICK a, b : a = OtherWatched(C) /\ b = -Literal OBVIOUS
  <2>2. Fine(C, b)' /\ (C \notin weak => Fine(C, a)')
    BY <1>3, <1>4, <1>6, <1>7, <2>1, PassFine
  <2>3. PICK x, y : x = head'[C][1] /\ y = head'[C][2] OBVIOUS
  <2>4. {x, y} = {a, b} BY <1>2, <1>5, <2>1, <2>3
  <2>5. b = x \/ b = y BY <2>4
  <2>6. x \in {a, b} /\ y \in {a, b} BY <2>4
  <2> QED BY <1>4, <2>2, <2>3, <2>5, <2>6 DEF Seen
<1> QED BY <1>3, <1>4, <1>5, <1>7, PassInv

\* A longer clause: its other watched literal is true or gets implied, another
\* literal is watched, or the clause is falsified.
LEMMA LongWatch ==
    ASSUME SearchInv, IndInv', Moves, NEW C \in todo, Long(C)
    PROVE  WatchInv'
<1>1. /\ IndInv /\ HeadInv /\ ScanInv /\ AssignmentInv
  BY DEF SearchInv, AnswerInv, WatchInv, IndInv
<1>2. PICK a, b : a = OtherWatched(C) /\ b = -Literal OBVIOUS
<1>3. /\ C \in Database /\ b \in C /\ False(b)
      /\ a \in C /\ a \in Lits /\ a # b
      /\ {head[C][1], head[C][2]} = {a, b}
  BY <1>1, <1>2, VisitFacts
<1>4. Cardinality(C) > 2 /\ ~ Cardinality(C) = 2 BY DEF Long
<1>5. DOMAIN head = Database BY <1>1 DEF HeadInv
<1>6. ASSUME NEW x \in C, NEW y \in C, x # y, Attach(C, <<x, y>>)
      PROVE  /\ DOMAIN head' = DOMAIN head /\ \A D \in Database : D # C => head'[D] = head[D]
             /\ head'[C] \in C \X C /\ head'[C][1] # head'[C][2]
             /\ head'[C][1] = x /\ head'[C][2] = y
  <2>1. DOMAIN head \cup {C} = DOMAIN head BY <1>3, <1>5
  <2>2. head' = [D \in DOMAIN head |-> IF D = C THEN <<x, y>> ELSE head[D]]
    BY <1>6, <2>1 DEF Attach
  <2>3. head'[C] = <<x, y>> BY <1>3, <1>5, <2>2
  <2>4. <<x, y>>[1] = x /\ <<x, y>>[2] = y /\ <<x, y>> \in C \X C BY <1>6
  <2> QED BY <1>3, <1>5, <1>6, <2>2, <2>3, <2>4
<1>7. ASSUME UNCHANGED search PROVE UNCHANGED <<pc, ok, weak, refining>> /\ Database' = Database
  BY <1>7 DEF search, base, asked, Database
<1>8. ASSUME NEW x \in C, NEW y \in C, x = head'[C][1], y = head'[C][2],
             Fine(C, x)', Fine(C, y)' \/ C \in weak'
      PROVE  Seen(C)'
  BY <1>8 DEF Seen
<1>9. ASSUME NEW x \in C, NEW y \in C, x = head'[C][1], y = head'[C][2],
             Fine(C, y)', Fine(C, x)' \/ C \in weak'
      PROVE  Seen(C)'
  BY <1>9 DEF Seen
<1>10. CASE /\ True(a) /\ ToFront(C, a) /\ todo' = todo \ {C}
            /\ UNCHANGED <<search, assigned, qhead, scan, confl>>
  <2>1. Attach(C, <<a, b>>) BY <1>2, <1>10 DEF ToFront
  <2>2. /\ DOMAIN head' = DOMAIN head /\ \A D \in Database : D # C => head'[D] = head[D]
        /\ head'[C] \in C \X C /\ head'[C][1] # head'[C][2]
        /\ head'[C][1] = a /\ head'[C][2] = b
    BY <1>3, <1>6, <2>1
  <2>3. UNCHANGED <<pc, ok, weak, refining, qhead, scan, confl>> /\ Database' = Database
    BY <1>7, <1>10
  <2>4. True(a)' BY <1>10 DEF True, assigned
  <2>5. ~ False(a) BY <1>1, <1>3, <1>10, FalseFacts
  <2>6. Fine(C, a)' /\ Fine(C, b)' BY <1>2, <1>3, <1>10, <2>3, <2>4, <2>5, PassFine
  <2>7. Seen(C)' BY <1>3, <1>8, <2>2, <2>6
  <2> QED BY <1>2, <1>10, <2>2, <2>3, <2>7, PassInv
<1>11. CASE /\ ~ True(a) /\ todo' = todo \ {C}
            /\ \E l \in C \ {a, b} : ~ False(l) /\ Attach(C, <<a, l>>)
            /\ UNCHANGED <<search, assigned, qhead, scan, confl>>
  <2>1. PICK l \in C \ {a, b} : ~ False(l) /\ Attach(C, <<a, l>>) BY <1>11
  <2>2. /\ DOMAIN head' = DOMAIN head /\ \A D \in Database : D # C => head'[D] = head[D]
        /\ head'[C] \in C \X C /\ head'[C][1] # head'[C][2]
        /\ head'[C][1] = a /\ head'[C][2] = l
    BY <1>3, <1>6, <2>1
  <2>3. UNCHANGED <<pc, ok, weak, refining, qhead, scan, confl>> /\ Database' = Database
    BY <1>7, <1>11
  <2>4. ~ False(l)' BY <1>11, <2>1 DEF False, True, assigned
  <2>5. Fine(C, l)' BY <2>4, FineOpen
  <2>6. ASSUME ok PROVE Seen(C)'
    <3>1. C \notin weak => Fine(C, a)' BY <1>2, <1>11, <2>3, <2>6, PassFine
    <3> QED BY <1>3, <1>9, <2>1, <2>2, <2>3, <2>5, <3>1
  <2> QED BY <1>2, <1>11, <2>2, <2>3, <2>6, PassInv
<1>12. CASE /\ Unassigned(a) /\ Falsified(C \ {a, b}) /\ Implies(C, a)
            /\ ToFront(C, a) /\ todo' = todo \ {C}
            /\ UNCHANGED <<qhead, scan, confl>>
  <2>1. Attach(C, <<a, b>>) BY <1>2, <1>12 DEF ToFront
  <2>2. /\ DOMAIN head' = DOMAIN head /\ \A D \in Database : D # C => head'[D] = head[D]
        /\ head'[C] \in C \X C /\ head'[C][1] # head'[C][2]
        /\ head'[C][1] = a /\ head'[C][2] = b
    BY <1>3, <1>6, <2>1
  <2>3. /\ UNCHANGED <<pc, ok, weak, refining, qhead, scan, confl>> /\ Database' = Database
        /\ Enqueue(a, C)
    BY <1>12 DEF Implies, base, asked, Database
  <2>4. Falsified(C \ {a}) BY <1>3, <1>12 DEF Falsified
  <2>5. True(a)' BY <1>2, <1>12, <2>3, <2>4, ImpliedHolds
  <2>6. ~ False(a) /\ ~ True(a) BY <1>12 DEF Unassigned
  <2>7. Fine(C, a)' /\ Fine(C, b)'
    BY <1>2, <1>3, <1>12, <2>3, <2>4, <2>5, <2>6, PassFine
  <2>8. Seen(C)' BY <1>3, <1>8, <2>2, <2>7
  <2> QED BY <1>2, <1>12, <2>2, <2>3, <2>4, <2>6, <2>8, PassInv
<1>13. CASE /\ False(a) /\ Falsified(C \ {a, b}) /\ ToFront(C, a)
            /\ confl' = C /\ qhead' = Len(trail)
            /\ scan' = "next" /\ todo' = {}
            /\ UNCHANGED <<search, assigned>>
  <2>1. Attach(C, <<a, b>>) BY <1>2, <1>13 DEF ToFront
  <2>2. /\ DOMAIN head' = DOMAIN head /\ \A D \in Database : D # C => head'[D] = head[D]
        /\ head'[C] \in C \X C /\ head'[C][1] # head'[C][2]
        /\ head'[C][1] = a /\ head'[C][2] = b
    BY <1>3, <1>6, <2>1
  <2>3. Falsified(C) BY <1>3, <1>13 DEF Falsified
  <2>4. {head'[C][1], head'[C][2]} = {head[C][1], head[C][2]} BY <1>3, <2>2
  <2> QED BY <1>13, <2>2, <2>3, <2>4, ConflictWatch
<1> QED BY <1>2, <1>10, <1>11, <1>12, <1>13 DEF Long

-----------------------------------------------------------------------------
(* The invariant holds *)

\* In the beginning nothing is false, and every clause is watched.
LEMMA InitWatch == WatchesInit => SearchInv
<1> SUFFICES ASSUME WatchesInit PROVE SearchInv OBVIOUS
<1>1. AnswerInv /\ IndInv BY InitAnswers DEF WatchesInit, AnswerInv
<1>2. /\ clauses = Start /\ learnts = {} /\ trail = << >> /\ pc = "idle" /\ ~ refining
      /\ head = [C \in Start |-> Sorted(C)] /\ qhead = 0 /\ scan = "next" /\ todo = {}
      /\ confl = {}
  BY DEF WatchesInit, Init
<1>3. Database = Start BY <1>2 DEF Database
<1>4. DOMAIN trail = {} /\ Len(trail) = 0 BY <1>2
<1>5. HeadInv
  <2>1. \A C \in Start : C \in Clause /\ ~ Tautology(C) /\ Cardinality(C) > 1
    BY StartAssumption
  <2>2. \A C \in Start : Sorted(C) \in C \X C /\ Sorted(C)[1] # Sorted(C)[2]
    BY <2>1, SortedFacts
  <2> QED BY <1>2, <1>3, <2>2 DEF HeadInv
<1>6. ScanInv BY <1>2, <1>4 DEF ScanInv
<1>7. QueueInv BY <1>2, <1>4 DEF QueueInv
<1>8. \A C, w : Fine(C, w) BY <1>4 DEF Fine
<1>9. SeenInv BY <1>8 DEF SeenInv, Seen
<1>10. ReasonFirst BY <1>4 DEF ReasonFirst
<1> QED BY <1>1, <1>5, <1>6, <1>7, <1>9, <1>10 DEF SearchInv, WatchInv

\* Every step keeps it.
LEMMA StepWatch ==
    ASSUME ~ MayRefine, SearchInv, [WatchesNext]_<<vars, lists>>
    PROVE  SearchInv'
<1>1. [Next]_vars BY StepIsStep
<1>2. AnswerInv /\ IndInv BY DEF SearchInv, AnswerInv
<1>3. AnswerInv' BY <1>1, <1>2, StepAnswers
<1>4. IndInv' BY <1>3 DEF AnswerInv
<1>5. ASSUME WatchInv' PROVE SearchInv' BY <1>3, <1>5 DEF SearchInv
<1>6. Moves BY <1>1, <1>2, StepMoves
<1>7. CASE \E C \in Input : Adds(C) BY <1>4, <1>6, <1>7, <1>5, AddsWatch
<1>8. CASE NextLiteral \/ ListEnds BY <1>4, <1>6, <1>8, <1>5, LiteralWatch
<1>9. CASE \E C \in todo : Binary(C) \/ Blocked(C) \/ Long(C)
  BY <1>4, <1>6, <1>9, <1>5, BinaryWatch, BlockedWatch, LongWatch
<1>10. CASE Ends BY <1>4, <1>6, <1>10, <1>5, EndsWatch
<1>11. CASE Fails BY <1>4, <1>6, <1>11, <1>5, FailsWatch
<1>12. CASE Analyzes BY <1>4, <1>6, <1>12, <1>5, AnalyzesWatch
<1>13. CASE Starts \/ Removes BY <1>4, <1>6, <1>13, <1>5, RemovesWatch
<1>14. CASE Learns BY <1>4, <1>6, <1>14, <1>5, LearnsWatch
<1>15. CASE GoesBack BY <1>4, <1>6, <1>15, <1>5, GoesBackWatch
<1>16. CASE GoesOn BY <1>4, <1>6, <1>16, <1>5, GoesOnWatch
<1>17. CASE UNCHANGED <<vars, lists>>
  <2>1. WatchInv BY DEF SearchInv
  <2>2. /\ UNCHANGED <<pc, ok, clauses, learnts, weak, trail, trail_lim, level, reason, refining>>
        /\ UNCHANGED <<head, qhead, scan, todo, confl>>
    BY <1>17 DEF vars, base, assigned, asked, lists
  <2>3. HeadInv' BY <2>1, <2>2 DEF WatchInv, HeadInv, Database
  <2>4. ScanInv'
    BY <2>1, <2>2 DEF WatchInv, ScanInv, Database, Propagating, Literal, Falsified, False, True
  <2>5. QueueInv' BY <2>1, <2>2 DEF WatchInv, QueueInv, LevelOf, DecisionLevel
  <2>6. SeenInv'
    BY <2>1, <2>2 DEF WatchInv, SeenInv, Seen, Fine, Visited, Covered, DecisionLevel, LevelOf,
                      True, Database
  <2>7. ReasonFirst' BY <2>1, <2>2 DEF WatchInv, ReasonFirst, ReasonOf
  <2>8. WatchInv' BY <2>3, <2>4, <2>5, <2>6, <2>7 DEF WatchInv
  <2> QED BY <1>3, <2>8 DEF SearchInv
<1> QED BY <1>7, <1>8, <1>9, <1>10, <1>11, <1>12, <1>13, <1>14, <1>15, <1>16, <1>17, <1>5
        DEF WatchesNext

\* What propagate() returns is falsified, on this level or on level 0.
LEMMA ConflictFacts == SearchInv => ConflictIsNew
<1> SUFFICES ASSUME SearchInv, Conflict
             PROVE  Falsified(confl) /\ (DecisionLevel > 0 => OnThisLevel(confl) # {})
  BY DEF ConflictIsNew
<1>1. confl \in Database /\ Falsified(confl)
  BY DEF Conflict, SearchInv, WatchInv, ScanInv
<1>2. NothingMissed BY DEF SearchInv, AnswerInv, IndInv
<1>3. DecisionLevel = 0 => ~ DecisionLevel > 0 OBVIOUS
<1> QED BY <1>1, <1>2, <1>3 DEF NothingMissed

\* propagate() with its watch lists and blockers is the propagation of module
\* Cdcl: when it returns without a conflict no clause is falsified and none but
\* bi-asserting ones implies anything, whichever literals addClause_, analyze()
\* and propagate() itself chose to watch, and however far the solver went back
\* without looking at the lists.  So all that is proved of Cdcl holds for the
\* code's search.  While a final conflict is refined this fails, see the run
\* watches_refine.
THEOREM WatchesFindAll ==
    ASSUME ~ MayRefine
    PROVE  WatchesSpec => FindsAll
<1>1. WatchesInit => SearchInv BY InitWatch
<1>2. SearchInv /\ [WatchesNext]_<<vars, lists>> => SearchInv' BY StepWatch
<1>3. SearchInv /\ [WatchesNext]_<<vars, lists>> => [Next]_vars BY StepIsStep
<1>4. WatchesInit => Init BY DEF WatchesInit
<1> QED BY <1>1, <1>2, <1>3, <1>4, PTL DEF WatchesSpec, FindsAll, Spec

\* locked() and removeClause() look for the literal that a clause implies in
\* front of the clause: propagate(), analyze() and addClause_ keep it there.
THEOREM ReasonsAreFirst ==
    ASSUME ~ MayRefine
    PROVE  WatchesSpec => []ReasonFirst
<1>1. WatchesInit => SearchInv BY InitWatch
<1>2. SearchInv /\ [WatchesNext]_<<vars, lists>> => SearchInv' BY StepWatch
<1>3. SearchInv => ReasonFirst BY DEF SearchInv, WatchInv
<1> QED BY <1>1, <1>2, <1>3, PTL DEF WatchesSpec

\* The conflict that propagate() returns is falsified, and on this level: the
\* loop of analyze() finds a literal to start from.
THEOREM ConflictsAreNew ==
    ASSUME ~ MayRefine
    PROVE  WatchesSpec => []ConflictIsNew
<1>1. WatchesInit => SearchInv BY InitWatch
<1>2. SearchInv /\ [WatchesNext]_<<vars, lists>> => SearchInv' BY StepWatch
<1>3. SearchInv => ConflictIsNew BY ConflictFacts
<1> QED BY <1>1, <1>2, <1>3, PTL DEF WatchesSpec
===============================================================================
