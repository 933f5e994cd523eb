---------------------------- MODULE Equivalences ----------------------------
(***************************************************************************)
(* Equivalent literals, from the binary clauses and from AND gates         *)
(* (coprocessor/techniques/EquivalenceElimination.cc, Circuit.cc): one     *)
(* literal of a class takes the place of the others in all clauses.        *)
(* Classes are looked for and applied one at a time here.                  *)
(***************************************************************************)
EXTENDS CoprocessorData

CONSTANT MaxDepth   \* of the recursion that looks for components, 32000 in the code

\* The order of literals: by variable, the positive one first.
Index(l) == 2 * VarOf(l) + IF l < 0 THEN 1 ELSE 0
Least(K) == CHOOSE l \in K : \A k \in K : Index(l) <= Index(k)

-----------------------------------------------------------------------------
(* Applying a class *)

\* getReplacement, once the literals of K stand for r.
Replacement(l, K, r) == IF l \in K THEN r ELSE IF -l \in K THEN -r ELSE l
Replaced(C, K, r) == {Replacement(l, K, r) : l \in C}

\* The formula after that, without tautologies; a learnt copy of a core clause goes.
ReplacedIn(F, K, r) == {D \in {Replaced(C, K, r) : C \in F} : ~ Tautology(D)}

\* A literal that is replaced and occurs follows its representative in a model.
EntriesOf_OneDirection(l, r) == << [lit |-> l, clause |-> {l, -r}] >>
EntriesOf(l, r) == << [lit |-> l, clause |-> {l, -r}], [lit |-> -l, clause |-> {-l, r}] >>
Stacked(K, r) ==
    LET s == SetToSeq({l \in K \ {r} : {l, -l} \cap Occurring # {}})
        after[i \in 0..Len(s)] == IF i = 0 THEN << >> ELSE after[i - 1] \o EntriesOf(s[i], r)
    IN  after[Len(s)]

\* Frozen variables have been taken out of the class; a class with a literal and its
\* complement fails.
Apply(K) ==
    /\ Cardinality(K) > 1
    /\ LET r == Least(K)
       IN  IF \E l \in K : -l \in K
           THEN Fail
           ELSE /\ Become(ReplacedIn(core, K, r), ReplacedIn(learnts, K, r) \ ReplacedIn(core, K, r), {})
                /\ Push(Stacked(K, r)) /\ UNCHANGED fresh

\* What may be replaced (ee_freeze_eager, the default; without it frozen variables stay
\* in the class, and clauses for their equivalences are added).
Unfrozen(K) == {l \in K : VarOf(l) \in Open \ Frozen}

-----------------------------------------------------------------------------
(* The binary clauses *)

\* Tarjan's algorithm on the graph of all binary clauses.
Component(l) == {l} \cup {k \in Reaches(All, l) : l \in Reaches(All, k)}

EquivalentByBinaries(l) ==
    /\ Uses("ee") /\ VarOf(l) \in Open \ Frozen
    /\ Apply(Unfrozen(Component(l)))

\* The iterative variant adds one of two components that are each other's complement.
EquivalentByIteration(l) ==
    /\ Uses("ee") /\ Least(Component(l)) > 0
    /\ Apply(Unfrozen(Component(l)))

\* Where the recursion is cut off the literal stays on the stack and joins the
\* component of the one before it on the path.
PathsTo(l) ==
    LET longer[n \in 1..MaxDepth] ==
        IF n = 1 THEN { <<l>> }
        ELSE {<<x[2]>> \o x[1] : x \in {y \in longer[n - 1] \X OpenLits :
                    Implies(All, y[2], Head(y[1])) /\ \A i \in DOMAIN y[1] : y[1][i] # y[2]}}
    IN  longer[MaxDepth]

CutOff(l, k) ==
    /\ Uses("ee") /\ Implies(All, l, k)
    /\ \E path \in PathsTo(l) : \A i \in DOMAIN path : path[i] # k
    /\ Apply(Unfrozen(Component(l) \cup {k}))

-----------------------------------------------------------------------------
(* AND gates *)

\* getANDGates: out is equivalent to the conjunction of in.
AndGates ==
    {g \in [out : OpenLits, in : {S \in SUBSET OpenLits : Cardinality(S) = 2}] :
        /\ g.in \subseteq Reaches(All, g.out)
        /\ Negated(g.in) \cup {g.out} \in All /\ ~ Tautology(Negated(g.in) \cup {g.out})}

\* Two gates that share one input, with the other one complemented, split that input.
Split == {[out |-> -y[3], in |-> {-y[1].out, -y[2].out}] :
            y \in {x \in AndGates \X AndGates \X OpenLits :
                /\ x[1].in \cap x[2].in = {x[3]} /\ x[2].in = {x[3]} \cup Negated(x[1].in \ {x[3]})
                /\ VarOf(x[1].out) # VarOf(x[2].out)}}
Gates2 == AndGates \cup Split

\* What two gates say of their outputs and inputs.
EquivalentByGates(g, h) ==
    \/ g.in = h.in /\ Apply(Unfrozen({g.out, h.out}))
    \/ \E a \in g.in \cap h.in : h.in = {a, g.out} /\ Apply(Unfrozen({g.out, h.out}))
    \/ h.out = -g.out /\ h.in = Negated(g.in) /\ Apply(Unfrozen(g.in \cup {g.out}))

UnitByGates(g, h) ==
    \/ \E a \in g.in \cap h.in :
        h.out = -g.out /\ h.in = {a} \cup Negated(g.in \ {a}) /\ Rewrite(core, learnts, {a})
    \/ \E a \in g.in : h.in = {g.out, -a} /\ Rewrite(core, learnts, {-h.out})

Gate ==
    /\ Uses("gates")
    /\ \E g, h \in Gates2 : EquivalentByGates(g, h) \/ UnitByGates(g, h)

\* A literal that implies another one and its complement.
ContradictoryGate(l) ==
    /\ Uses("gates") /\ \E k \in OpenLits : {k, -k} \subseteq Reaches(All, l)
    /\ Rewrite(core, learnts, {-l})

\* With blocked gates the missing clause is added, where -l occurs in binary clauses only.
AddBlockedGate(l) ==
    /\ Uses("blocked gates")
    /\ LET in == {k \in OpenLits : Implies(All, l, k)}
       IN  /\ Cardinality(in) = 2 /\ With(-l) = {{-l, k} : k \in in} /\ Negated(in) \cup {l} \notin All
           /\ Rewrite(core \cup {Negated(in) \cup {l}}, learnts, {})

EquivalencesNext ==
    \/ \E l \in OpenLits : EquivalentByBinaries(l)
    \/ \E l \in OpenLits : EquivalentByIteration(l)
    \/ \E l, k \in OpenLits : CutOff(l, k)
    \/ Gate
    \/ \E l \in OpenLits : ContradictoryGate(l)
    \/ \E l \in OpenLits : AddBlockedGate(l)
==============================================================================
