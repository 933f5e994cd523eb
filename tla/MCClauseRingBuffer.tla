------------------------- MODULE MCClauseRingBuffer -------------------------
(* Instances of ClauseRingBuffer for TLC.                                   *)
EXTENDS ClauseRingBuffer

CONSTANTS t1, t2, a, b, c

TwoThreads   == {t1, t2}
ThreeLits    == {a, b, c}
\* Both pools of CommunicationData in one: the two special kinds have their own.
AllKinds     == {[kind |-> "clause",      lits |-> {a, b}],
                 [kind |-> "multiunits",  lits |-> {a, c}],
                 [kind |-> "equivalence", lits |-> {a, b, c}]}
ReceiveSome  == [t \in Thread |-> IF t = t1 THEN {a, b} ELSE {a}]

=============================================================================
