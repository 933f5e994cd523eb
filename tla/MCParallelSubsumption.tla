------------------------ MODULE MCParallelSubsumption ------------------------
EXTENDS ParallelSubsumption

\* Three copies and a learnt clause that subsumes them; all become core clauses in turn.
Copies == << {1, 2, 3}, {1, 2, 3}, {1, 2}, {1, 2, 3} >>
\* A clause that two others remove, while its own visit ends.
Twice  == << {1, 2, 3}, {1, 2}, {1, 3} >>
\* Clauses that lose their first literal while others wait for its lock.
Chain  == << {1, 2}, {-1, 2, -3, 4}, {3, 4} >>
\* Two units that contradict each other.
Clash  == << {1, 2}, {-1, 2}, {1, -2}, {-1, -2} >>

All    == 1 .. 4

Problem(c, l, q, d, w) ==
    [lits |-> c, learnt |-> l, queues |-> q, deferred |-> d, word |-> w]

SomeProblems ==
    {Problem(Copies, {1, 2, 3}, <<All, {}>>, TRUE, TRUE),
     Problem(Chain, {1}, <<{}, 1 .. 3>>, TRUE, TRUE),
     Problem(Clash, {2}, <<{}, All>>, TRUE, TRUE)}
    \cup {Problem(Copies, {1, 3}, <<All, {}>>, FALSE, w) : w \in BOOLEAN}
    \cup {Problem(Twice, {}, <<1 .. 3, {}>>, FALSE, w) : w \in BOOLEAN}
==============================================================================
