-------------------------------- MODULE Watches --------------------------------
(***************************************************************************)
(* The search of module Cdcl with the propagation that the code has:       *)
(* propagate() (riss/core/Solver.cc) looks only at the clauses that watch  *)
(* the complement of the literal it takes from the trail, which are those  *)
(* whose first two literals include it, and reorders their literals.       *)
(*                                                                         *)
(* Only the first two literals of a clause are kept in order.  A blocker   *)
(* is some literal of its clause: a clause with a true literal may be      *)
(* skipped.  The clauses of a watch list may be visited in any order.  A   *)
(* removed clause leaves the lists at once: the code cleans them when it   *)
(* propagates next.  A bi-asserting clause learned twice is kept once.     *)
(***************************************************************************)
EXTENDS Cdcl

CONSTANT MayGoOn   \* opt_long_conflict: a binary conflict does not stop propagate()

VARIABLES
    head,    \* the first two literals of every clause, the watched ones
    qhead,   \* how much of the trail has been propagated
    scan,    \* propagate(): "next" literal, "watch" list, or it is "over"
    todo,    \* the rest of the watch list of trail[qhead]
    confl    \* the conflict clause that propagate() has found

lists    == <<head, qhead, scan, todo, confl>>
position == <<qhead, scan, todo, confl>>
search   == <<pc, base, asked, work, merges, answer, counters>>

\* addClause_ sorts the literals: the first two are of the smallest variables.
Sorted(C) ==
    CHOOSE h \in C \X C :
        /\ VarOf(h[1]) < VarOf(h[2])
        /\ \A l \in C \ {h[1]} : VarOf(h[2]) <= VarOf(l)

WatchesInit ==
    /\ Init
    /\ head = [C \in Start |-> Sorted(C)]
    /\ qhead = 0 /\ scan = "next" /\ todo = {} /\ confl = {}

-----------------------------------------------------------------------------
(* The watch lists *)

\* watches[p]
Watching(p) == {C \in DOMAIN head : -p \in {head[C][1], head[C][2]}}

\* attachClause of what is new, detachClause of what is gone.
Attach(C, h) == head' = [D \in DOMAIN head \cup {C} |-> IF D = C THEN h ELSE head[D]]
Detach == head' = [C \in DOMAIN head \cap (clauses' \cup learnts') |-> head[C]]

\* cancelUntil: propagation goes on from where the trail is cut.
Rewind_TooFar == qhead' = Len(trail')
Rewind == qhead' = IF Len(trail_lim') < DecisionLevel THEN trail_lim[Len(trail_lim') + 1]
                   ELSE qhead

-----------------------------------------------------------------------------
(* propagate() *)

Propagating == pc \in {"adding", "propagate"}
Literal     == trail[qhead]

NextLiteral ==
    /\ Propagating /\ scan = "next" /\ qhead < Len(trail)
    /\ qhead' = qhead + 1
    /\ scan' = "watch" /\ todo' = Watching(trail[qhead + 1])
    /\ UNCHANGED <<search, assigned, head, confl>>

ListEnds ==
    /\ scan = "watch" /\ todo = {}
    /\ scan' = "next"
    /\ UNCHANGED <<search, assigned, head, qhead, todo, confl>>

\* A binary clause: its other literal is the blocker.
Binary(C) ==
    /\ scan = "watch" /\ C \in todo /\ Cardinality(C) = 2
    /\ \E imp \in C \ {-Literal} :
          \/ /\ True(imp)
             /\ todo' = todo \ {C}
             /\ UNCHANGED <<search, assigned, scan, confl>>
          \/ /\ Unassigned(imp) /\ Implies(C, imp)
             /\ todo' = todo \ {C}
             /\ UNCHANGED <<scan, confl>>
          \/ /\ False(imp) /\ confl' = C
             /\ \/ scan' = "over" /\ todo' = {}
                \/ MayGoOn /\ scan' = scan /\ todo' = todo \ {C}
             /\ UNCHANGED <<search, assigned>>
    /\ UNCHANGED <<head, qhead>>

\* The blocker is true: the clause is not looked at.
Blocked(C) ==
    /\ scan = "watch" /\ C \in todo /\ Cardinality(C) > 2
    /\ Satisfied(C)
    /\ todo' = todo \ {C}
    /\ UNCHANGED <<search, assigned, head, qhead, scan, confl>>

OtherWatched(C)   == IF head[C][1] = -Literal THEN head[C][2] ELSE head[C][1]
ToFront_Never(C, first) == UNCHANGED head
ToFront(C, first) == Attach(C, <<first, -Literal>>)

\* The false literal becomes the second one; then the first one is true, or
\* a literal that is not false is watched in place of the second, or the first
\* one is implied, or the clause is falsified and propagation ends.
Long(C) ==
    /\ scan = "watch" /\ C \in todo /\ Cardinality(C) > 2
    /\ LET false == -Literal
           first == OtherWatched(C)
           rest  == C \ {first, false}
       IN  \/ /\ True(first)
              /\ ToFront(C, first)
              /\ todo' = todo \ {C}
              /\ UNCHANGED <<search, assigned, qhead, scan, confl>>
           \/ /\ ~ True(first)
              /\ \E l \in rest : ~ False(l) /\ Attach(C, <<first, l>>)
              /\ todo' = todo \ {C}
              /\ UNCHANGED <<search, assigned, qhead, scan, confl>>
           \/ /\ Unassigned(first) /\ Falsified(rest)
              /\ Implies(C, first)
              /\ ToFront(C, first)
              /\ todo' = todo \ {C}
              /\ UNCHANGED <<qhead, scan, confl>>
           \/ /\ False(first) /\ Falsified(rest)
              /\ ToFront(C, first)
              /\ confl' = C /\ qhead' = Len(trail)
              /\ scan' = "next" /\ todo' = {}
              /\ UNCHANGED <<search, assigned>>

\* propagate() returns.
Over     == scan = "over" \/ (scan = "next" /\ qhead = Len(trail))
Conflict == Over /\ confl # {}
Reset_KeepsConflict == scan' = "next" /\ todo' = {} /\ confl' = confl
Reset    == scan' = "next" /\ todo' = {} /\ confl' = {}

Ends ==
    /\ Over /\ confl = {}
    /\ EndPropagation
    /\ UNCHANGED lists

-----------------------------------------------------------------------------
(* The steps of the search, and what they do to the watch lists *)

Adds(C) ==
    /\ AddClause(C)
    /\ LET new == clauses' \ Database
       IN  \/ new = {} /\ UNCHANGED head
           \/ \E D \in new : Attach(D, Sorted(D))
    /\ UNCHANGED position

Starts == StartSearch /\ Detach /\ UNCHANGED position

Fails ==
    /\ Conflict
    /\ AddingFails \/ ConflictOnLevel0
    /\ Reset /\ UNCHANGED <<head, qhead>>

Analyzes ==
    /\ Conflict
    /\ StartAnalysis \/ StopEarly
    /\ work' = AboveLevel0(confl)
    /\ Reset /\ UNCHANGED <<head, qhead>>

\* The second literal of a learned clause is one of the level that is jumped
\* back to, of a binary bi-asserting clause the other one.
Second_Any(C, first) == C \ {first}
Second(C, first) ==
    LET below == C \ OnThisLevel(C)
    IN  IF below = {} THEN C \ {first} ELSE {l \in below : LevelOf(l) = JumpLevel(C)}

Learns ==
    /\ Learn
    /\ Rewind
    /\ LET first == Latest(work)
           new   == {C \in clauses' \cup learnts' :
                        C \notin Database \/ C = reason'[VarOf(first)]}
       IN  \/ new = {} /\ UNCHANGED head
           \/ \E C \in new : \E s \in Second(C, first) : Attach(C, <<first, s>>)
    /\ UNCHANGED <<scan, todo, confl>>

Removes == Tidy /\ Detach /\ UNCHANGED position

\* Steps that may go back to a lower level, and steps that do not.
GoesBack ==
    /\ Restart \/ SearchStops \/ ModelFound \/ AssumptionsRefuted
    /\ Rewind
    /\ UNCHANGED <<head, scan, todo, confl>>

GoesOn ==
    /\ \/ \E A \in Questions : Call(A)
       \/ AlreadyUnsat \/ Resolve \/ DummyLevel \/ DecideAssumption \/ AssumptionFails
       \/ Decide \/ ExplainLatest
    /\ UNCHANGED lists

-----------------------------------------------------------------------------
WatchesNext ==
    \/ \E C \in Input : Adds(C)
    \/ NextLiteral \/ ListEnds
    \/ \E C \in todo : Binary(C) \/ Blocked(C) \/ Long(C)
    \/ Ends \/ Fails \/ Analyzes
    \/ Starts \/ Learns \/ Removes \/ GoesBack \/ GoesOn

WatchesSpec == WatchesInit /\ [][WatchesNext]_<<vars, lists>>
-----------------------------------------------------------------------------
(* Properties *)

\* A long clause that is the reason of a literal has it in front, where
\* locked() and removeClause() look for it and the analysis leaves it out.
ReasonFirst ==
    \A i \in DOMAIN trail :
        LET R == ReasonOf(trail[i])
        IN  Cardinality(R) > 2 => head[R][1] = trail[i]

\* What propagate() returns is falsified, and on this level: the analysis
\* finds a literal to start from.
ConflictIsNew ==
    Conflict => Falsified(confl) /\ (DecisionLevel > 0 => OnThisLevel(confl) # {})

\* What solve() stores as a model satisfies all clauses that were added: "If
\* problem is satisfiable, this vector contains the model" (Solver.h).
ModelsSatisfy ==
    [][model' \notin {{}, model} => \A C \in given : C \cap model' # {}]_<<vars, lists>>

\* The search with watch lists is a search in which propagation misses no
\* unit clause and no falsified clause.
FindsAll == Spec
===============================================================================
