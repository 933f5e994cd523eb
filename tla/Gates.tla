------------------------------- MODULE Gates -------------------------------
(***************************************************************************)
(* Gates other than AND and what they say of their literals                *)
(* (coprocessor/Circuit.cc, EquivalenceElimination::findGateEquivalences): *)
(* generic AND, exactly-one, if-then-else and parity gates of three and    *)
(* four literals.  All are off by default.  The queue that decides which   *)
(* two gates meet and the gates that rest on blocked clauses are left out. *)
(***************************************************************************)
EXTENDS Equivalences

\* A clause of a gate, or a stronger one: a subset of it, or two of its literals, the
\* complement of one of which implies the other.
Shown(C) == \/ \E D \in All : D \subseteq C
            \/ \E k, l \in C : k # l /\ l \in Reaches(All, -k)

\* Two literals are equivalent.
Equal(k, l) == IF k = -l THEN Fail ELSE Apply(Unfrozen({k, l}))

-----------------------------------------------------------------------------
(* AND gates *)

\* A clause with out the complements of whose other literals out implies.
GenAndGates ==
    {[out |-> x[2], in |-> Negated(x[1] \ {x[2]})] :
        x \in {y \in All \X OpenLits :
                /\ y[2] \in y[1] /\ Cardinality(y[1]) > 3
                /\ Negated(y[1] \ {y[2]}) \subseteq Reaches(All, y[2])}}

AndGate(g, h) == g.in = h.in /\ g.out # h.out /\ Equal(g.out, h.out)

GenAndGate(g, h) == g.in = h.in /\ g.out # h.out /\ Equal(g.out, h.out)

-----------------------------------------------------------------------------
(* Exactly one *)

\* Each literal of the clause has as many binary clauses as there are other literals;
\* whether these are the literals they exclude is not looked at.
ExoGates == {C \in All : Cardinality(C) > 2 /\ \A l \in C : Cardinality({k \in OpenLits : Implies(All, l, k)}) + 1 >= Cardinality(C)}

ExoGate(C, D) ==
    /\ Cardinality(C) = Cardinality(D)
    /\ \E k \in C \ D, l \in D \ C : C \ {k} = D \ {l} /\ Equal(k, l)

-----------------------------------------------------------------------------
(* If-then-else *)

Ite(x, s, t, f) == [x |-> x, s |-> s, t |-> t, f |-> f]

\* The candidates for f, from ternary and from binary clauses.
TernaryCandidates(x, s) == {-l : l \in {k \in OpenLits : {x, s, k} \in All /\ Cardinality({x, s, k}) = 3}}
BinaryCandidates(x)  == {-l : l \in {k \in OpenLits : Implies(All, -x, k)}}
Candidates(x, s) == TernaryCandidates(x, s) \cup BinaryCandidates(x)

\* The two clauses with -x: as ternary clause, by an implication, or by a binary clause,
\* with which the loop over the candidates ends.
AsTernary(x, s, t) == {-x, -s, t} \in All
ByBinary(x, s, t)  == Implies(All, x, t) \/ Implies(All, x, -s)
Verified(x, s, t)  == AsTernary(x, s, t) \/ {t, -s} \cap Reaches(All, x) # {}
EndsLoop(x, s, t, f) ==
    \/ ~ AsTernary(x, s, t) /\ ByBinary(x, s, t)
    \/ ~ AsTernary(x, -s, f) /\ ByBinary(x, -s, f) /\ Verified(x, s, t)

\* The candidate with which the loop ends and those after it are not verified.
Accepted(x, s, t, f) ==
    \/ Verified(x, s, t) /\ Verified(x, -s, f)
    \/ \E e \in Candidates(x, s) :
        /\ EndsLoop(x, s, t, e)
        /\ e = f \/ e \in TernaryCandidates(x, s) \/ f \in BinaryCandidates(x)

IteGates ==
    UNION {{Ite(z[1], z[2], z[3], f) : f \in {e \in Candidates(z[1], z[2]) : Accepted(z[1], z[2], z[3], e)}} :
            z \in {y \in OpenLits \X OpenLits \X OpenLits :
                {y[1], -y[2], -y[3]} \in All /\ Cardinality({y[1], -y[2], -y[3]}) = 3}}

\* The same selector and inputs: the outputs are equal, or complements if the inputs are.
IteGate(g, h) ==
    /\ g.x # h.x
    /\ \/ g.s = h.s /\ g.t = h.t /\ g.f = h.f /\ Equal(g.x, h.x)
       \/ g.s = -h.s /\ g.f = h.t /\ g.t = h.f /\ Equal(g.x, h.x)
       \/ g.s = h.s /\ g.t = -h.t /\ g.f = -h.f /\ Equal(g.x, -h.x)
       \/ g.s = -h.s /\ g.t = -h.f /\ g.f = -h.t /\ Equal(g.x, -h.x)

-----------------------------------------------------------------------------
(* Parity *)

\* The literals of S sum up to an odd number: a clause, and all those with an even
\* number of its literals complemented.
Odd(S) == Cardinality({l \in S : l < 0}) % 2 = 1
VarsOf(S) == {VarOf(l) : l \in S}
Flips(S)  == {(S \ T) \cup Negated(T) : T \in {U \in SUBSET S : Cardinality(U) % 2 = 0}}
ParityGates(n) == {S \in All : Cardinality(S) = n /\ ~ Tautology(S) /\ \A C \in Flips(S) : Shown(C)}

\* Both parities of the same variables.
ContradictoryParities(n) ==
    /\ \E S, T \in ParityGates(n) : VarsOf(S) = VarsOf(T) /\ Odd(S) # Odd(T)
    /\ Fail

\* The polarity of S collects the signs of the literals it shares with the gates of the
\* other size it meets, and keeps them when it meets the next one: of three literals
\* all that match, of four, the last two swapped, all up to the first that does not,
\* and the one behind that.
Order(T) == LET s == SetToSortSeq(T, LAMBDA k, l : VarOf(k) < VarOf(l))
            IN  IF Cardinality(T) = 3 THEN s ELSE <<s[1], s[2], s[4], s[3]>>
Collected(S, T) ==
    LET o == Order(T)
        matches(i) == VarOf(o[i]) \in VarsOf(S)
    IN  {o[i] : i \in {j \in DOMAIN o : matches(j) /\ (Len(o) = 4 => \A k \in 1..j - 2 : matches(k))}}
Polarities(S, T) ==
    {Odd(S)} \cup {Odd(S) # Odd(Collected(S, U)) :
                    U \in {W \in ParityGates(7 - Cardinality(S)) : VarsOf(W) # VarsOf(T)}}

\* Two gates of one size that share all variables but one.
Remaining(S, T, k, l) ==
    Cardinality(S) = Cardinality(T) /\ VarsOf(S \ {k}) = VarsOf(T \ {l}) /\ VarOf(k) # VarOf(l)

EqualParities(S, T) ==
    \E k \in S, l \in T :
        /\ Remaining(S, T, k, l)
        /\ \E polarity \in Polarities(S, T) :
            Equal(k, IF (polarity # (k < 0)) = Odd(T \ {l}) THEN l ELSE -l)

\* A gate of three literals within one of four gives a unit, whichever is processed.
ParityUnit(S, T) ==
    /\ Cardinality(S) = 3 /\ Cardinality(T) = 4 /\ VarsOf(S) \subseteq VarsOf(T)
    /\ LET k == CHOOSE l \in T : VarOf(l) \notin VarsOf(S)
       IN  \/ k = Order(T)[4]
             /\ \E polarity \in Polarities(S, T) :
                Rewrite(core, learnts, {IF polarity # Odd(T \ {k}) THEN k ELSE -k})
          \/ \E polarity \in Polarities(T, S) :
                Rewrite(core, learnts, {IF (polarity # Odd(S)) # (k < 0) THEN k ELSE -k})

GatesNext ==
    \/ Uses("and") /\ \E g, h \in AndGates : AndGate(g, h)
    \/ Uses("and") /\ \E g, h \in GenAndGates : GenAndGate(g, h)
    \/ Uses("exactly one") /\ \E C, D \in ExoGates : ExoGate(C, D)
    \/ Uses("ite") /\ \E g, h \in IteGates : IteGate(g, h)
    \/ Uses("parity") /\ \E n \in {3, 4} : ContradictoryParities(n)
    \/ Uses("parity") /\ \E S, T \in ParityGates(3) \cup ParityGates(4) : EqualParities(S, T) \/ ParityUnit(S, T)
==============================================================================
