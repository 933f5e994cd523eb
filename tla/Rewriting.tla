------------------------------ MODULE Rewriting ------------------------------
(***************************************************************************)
(* Rewriting of at-most-one constraints (coprocessor/techniques/           *)
(* Rewriter.cc, rewriteAMO): of n literals at most one is true; about half *)
(* as many new variables say which one, and in which half.  The choice of  *)
(* the constraints by number of occurrences is left out, and a duplicate   *)
(* is looked for in all clauses.                                           *)
(***************************************************************************)
EXTENDS CoprocessorData, FiniteSetsExt

\* Clauses with their learnt flag, which every clause made of them inherits.
Flagged == ({FALSE} \X core) \cup ({TRUE} \X learnts)
Duplicate(F, C) == \E d \in F : d[2] \subseteq C

\* C joins F unless a clause of F subsumes it (hasDuplicate), and what it subsumes goes.
Join(F, C, learnt) ==
    IF Duplicate(F, C) THEN F ELSE {d \in F : ~ C \subseteq d[2]} \cup {<<learnt, C>>}

\* l stands for p /\ q: the clause c has the literal l.
Positive(F, c, l, p, q) ==
    LET rest   == c[2] \ {l}
        others == F \ {c}
        Second(G) == IF -q \in rest THEN G ELSE Join(G, rest \cup {q}, c[1])
    IN  IF {p, q} \subseteq rest THEN others \cup {<<c[1], rest>>}
        ELSE IF -p \notin rest /\ ~ Duplicate(others, rest \cup {p})
             THEN Second(Join(others, rest \cup {p}, c[1]))
        ELSE \* reuseClause: q takes the place of p
             IF -q \in rest \/ (q \in rest /\ -p \notin rest) THEN others
             ELSE Join(others, (rest \ {p}) \cup {q}, c[1])

\* The clause c has the literal -l.
Negative(F, c, l, p, q) ==
    LET rest   == c[2] \ {-l}
        others == F \ {c}
    IN  IF {p, q} \cap rest # {} THEN others
        ELSE IF {-p, -q} \cap rest # {} THEN others \cup {<<c[1], rest \cup {-p, -q}>>}
        ELSE Join(others, rest \cup {-p, -q}, c[1])

\* Every clause of F with the literal l or -l, unless it has been removed meanwhile.
ReplaceLiteral(F, l, p, q) ==
    LET List(G, k) == SetToSeq({c \in G : k \in c[2]})
        G == FoldLeft(LAMBDA H, c : IF c \in H THEN Positive(H, c, l, p, q) ELSE H, F, List(F, l))
    IN  FoldLeft(LAMBDA H, c : IF c \in H THEN Negative(H, c, l, p, q) ELSE H, G, List(G, -l))

IsAMO(A) == \A a, b \in A : a # b => VarOf(a) # VarOf(b) /\ {-a, -b} \in All

\* s lists the constraint's literals; the k-th one of either half gets the variable r(k).
RewriteAMO(s) ==
    LET half == (Len(s) + 1) \div 2
        new  == SetToSortSeq(fresh, <)
        x    == new[1]
        r(k) == new[1 + k]
        P(j) == IF j <= half THEN x ELSE -x
        Q(j) == IF j <= half THEN r(j) ELSE r(j - half)
        Pairs == {{-s[i], -s[j]} : i, j \in DOMAIN s}
        After == FoldLeft(LAMBDA F, j : ReplaceLiteral(F, s[j], P(j), Q(j)),
                          {c \in Flagged : c[2] \notin Pairs}, [j \in DOMAIN s |-> j])
        Odd   == IF Len(s) % 2 = 1 THEN {{x, -r(half)}} ELSE {}
        Defines(j) == LET l == s[j] IN
            <<[lit |-> l, clause |-> {l, -P(j), -Q(j)}],
              [lit |-> -l, clause |-> {-l, P(j)}], [lit |-> -l, clause |-> {-l, Q(j)}]>>
        Left(learnt) == {c[2] : c \in {d \in After : d[1] = learnt}}
    IN  /\ Become(Left(FALSE) \cup Odd \cup {{-r(p[1]), -r(p[2])} : p \in {q \in (1..half) \X (1..half) : q[1] < q[2]}},
                  Left(TRUE), {})
        /\ Push(FlattenSeq([j \in DOMAIN s |-> Defines(j)]))
        /\ fresh' = fresh \ ({x} \cup {r(k) : k \in 1..half})

RewritingNext ==
    /\ Uses("rewriting")
    /\ \E A \in {B \in SUBSET Occurring : Cardinality(B) > 2 /\ IsAMO(B)} :
         /\ Cardinality(fresh) > (Cardinality(A) + 1) \div 2
         /\ \E s \in [1..Cardinality(A) -> A] : ToSet(s) = A /\ RewriteAMO(s)
==============================================================================
