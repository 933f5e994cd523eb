------------------------- MODULE ParallelElimination -------------------------
(***************************************************************************)
(* Variable elimination by several threads                                 *)
(* (coprocessor/techniques/BVEParallel.cc).  A thread eliminates a         *)
(* variable while it holds the locks of the variable and of all its        *)
(* neighbours; the resolvents are added before the clauses are removed.    *)
(* Another thread propagates or strengthens under the lock of a single     *)
(* variable.                                                               *)
(***************************************************************************)
EXTENDS VariableElimination

CONSTANT Thread

VARIABLES
    worker,     \* of each thread [at, var, near, gate, stale]
    pending     \* the part of the trail that is not propagated yet

IdleWorker == [at |-> "idle", var |-> 0, near |-> {}, gate |-> {}, stale |-> FALSE]
ParallelInit == worker = [t \in Thread |-> IdleWorker] /\ pending = {}
Quiet == pending = {} /\ \A t \in Thread : worker[t] = IdleWorker

At(t, place) == ok /\ worker[t].at = place
Locked_Variable(t) == IF worker[t].at \in {"anticipated", "resolved"} THEN {worker[t].var} ELSE {}
Locked(t) == IF worker[t].at \in {"anticipated", "resolved"} THEN worker[t].near ELSE {}
FreeFor(t, V) == \A s \in Thread \ {t} : Locked(s) \cap V = {}

\* The clauses, and U enqueued; a contradiction ends the run of all threads.
Enqueued(K, L, U, done) ==
    /\ IF \E l \in U : -l \in units \cup U
       THEN ok' = FALSE /\ UNCHANGED <<core, learnts, units, pending>>
       ELSE /\ core' = {C \in K : Cardinality(C) > 1} /\ learnts' = {C \in L : Cardinality(C) > 1}
            /\ units' = units \cup U /\ pending' = (pending \ done) \cup (U \ units)
            /\ UNCHANGED ok
    /\ UNCHANGED <<fresh, start>>

Near(v) == {VarOf(l) : l \in UNION (With(v) \cup With(-v))}

\* The worker takes a variable and collects its neighbours, before it locks them.
ParLook(t, v) ==
    /\ Uses("parallel bve") /\ At(t, "idle") /\ Candidate(v) /\ FreeFor(t, {v})
    /\ worker' = [worker EXCEPT ![t] = [IdleWorker EXCEPT !.at = "looked", !.var = v, !.near = Near(v)]]
    /\ steps' = steps + 1
    /\ UNCHANGED <<core, learnts, units, ok, undo, fresh, start, pending>>

\* lastTouched: another thread has eliminated a neighbour meanwhile.
StillValid_IgnoresUnits(t) == ~ worker[t].stale
StillValid(t) == ~ worker[t].stale /\ worker[t].var \in Open
ParLockAgain(t) ==
    /\ At(t, "looked") /\ FreeFor(t, worker[t].near) /\ ~ StillValid(t)
    /\ worker' = [worker EXCEPT ![t] = IdleWorker]
    /\ UNCHANGED <<vars, pending>>

\* Resolvents of one literal are enqueued, and the elimination goes on.
ParUnits(v, gate) ==
    UNION {R \in {Resolvent(p[1], p[2], v) : p \in {q \in With(v) \X With(-v) : Resolved(q[1], q[2], gate)}} :
           Cardinality(R) = 1}

\* A resolvent of one literal does not count for its parents.
ParBlocked(l, gate) ==
    {C \in With(l) :
        \A D \in With(-l) : Resolved(C, D, gate) /\ (C \in learnts \/ D \in core) =>
            ~ Meets(C, D, l) \/ Cardinality(Resolvent(C, D, l)) = 1}

\* With all locks: the gate, the units and the blocked clauses.
ParAnticipate(t) ==
    /\ At(t, "looked") /\ FreeFor(t, worker[t].near) /\ StillValid(t)
    /\ \E gate \in Definitions(worker[t].var), removesBlocked \in BOOLEAN :
        LET v == worker[t].var
            P == IF removesBlocked THEN ParBlocked(v, gate) ELSE {}
            N == IF removesBlocked THEN ParBlocked(-v, gate) ELSE {}
        IN  /\ Enqueued(core \ (P \cup N), learnts \ (P \cup N), ParUnits(v, gate), {})
            /\ Push(Entries(P \cap core, v) \o Entries(N \cap core, -v))
            /\ worker' = [worker EXCEPT ![t].at = "anticipated", ![t].gate = gate]
    /\ UNCHANGED steps

ManyLits(S) == {R \in S : Cardinality(R) > 1}
ParResolvents(v, gate) == ManyLits(ResolventsOf(With(v) \cap core, With(-v) \cap core, v, gate))

\* Resolvents with learnt parents must not be longer than the longer parent.
ParLearnts(v, gate, parents) ==
    ManyLits({Resolvent(p[1], p[2], v) : p \in {q \in With(v) \X With(-v) :
        /\ Resolved(q[1], q[2], gate) /\ Meets(q[1], q[2], v)
        /\ Cardinality({q[1], q[2]} \ core) \in 1..parents
        /\ \E C \in {q[1], q[2]} : Cardinality(Resolvent(q[1], q[2], v)) <= Cardinality(C)}})

\* Without resolvents of core clauses, or with too many, the variable stays.
ParLetGo(t) ==
    /\ At(t, "anticipated")
    /\ worker' = [worker EXCEPT ![t] = IdleWorker]
    /\ UNCHANGED <<vars, pending>>

ParResolve(t) ==
    /\ At(t, "anticipated") /\ ParResolvents(worker[t].var, worker[t].gate) # {}
    /\ \E parents \in 0..2 :
        LET v == worker[t].var
        IN  Enqueued(core \cup ParResolvents(v, worker[t].gate),
                     learnts \cup ParLearnts(v, worker[t].gate, parents), {}, {})
    /\ worker' = [worker EXCEPT ![t].at = "resolved"]
    /\ UNCHANGED <<undo, steps>>

\* Both lists go to the stack; whoever has looked at a neighbour has to look again.
ParRemove(t) ==
    /\ At(t, "resolved")
    /\ LET v == worker[t].var
           P == With(v)
           N == With(-v)
       IN  /\ Enqueued(core \ (P \cup N), learnts \ (P \cup N), {}, {})
           /\ Push(Entries(P \cap core, v) \o Entries(N \cap core, -v))
           /\ worker' = [s \in Thread |->
                IF s = t THEN IdleWorker
                ELSE [worker[s] EXCEPT !.stale = @ \/ worker[s].var \in worker[t].near]]
    /\ UNCHANGED steps

First(C) == CHOOSE v \in {VarOf(l) : l \in C} : \A k \in C : v <= VarOf(k)

\* C strengthens or subsumes D while its thread holds the lock of the first variable.
ParStrengthen(t, C, D) ==
    /\ At(t, "idle") /\ "parallel bve" \in start.techniques /\ FreeFor(t, {First(C)})
    /\ C # D
    /\ \/ /\ C \subseteq D
          /\ IF D \in core THEN Enqueued((core \ {D}) \cup {C}, learnts \ {C, D}, {}, {})
             ELSE Enqueued(core, learnts \ {D}, {}, {})
       \/ \E l \in C :
            /\ -l \in D /\ C \ {l} \subseteq D
            /\ LET E == D \ {-l}
                   U == IF Cardinality(E) = 1 THEN E ELSE {}
               IN  IF D \in core THEN Enqueued((core \ {D}) \cup {E}, learnts \ {D}, U, {})
                   ELSE Enqueued(core, (learnts \ {D}) \cup {E}, U, {})
    /\ UNCHANGED <<undo, steps, worker>>

\* par_bve_propagate, under the lock of the variable.
ParPropagate(t, l) ==
    /\ At(t, "idle") /\ l \in pending /\ FreeFor(t, {VarOf(l)})
    /\ LET Shorter(F) == {C \ {-l} : C \in {D \in F : l \notin D}}
           U == UNION {E \in Shorter(All) : Cardinality(E) = 1}
       IN  Enqueued(Shorter(core), Shorter(learnts), U, {l})
    /\ UNCHANGED <<undo, steps, worker>>

ParallelNext ==
    \/ \E t \in Thread : \E v \in Vars : ParLook(t, v)
    \/ \E t \in Thread :
        ParLockAgain(t) \/ ParAnticipate(t) \/ ParLetGo(t) \/ ParResolve(t) \/ ParRemove(t)
    \/ \E t \in Thread : \E C, D \in All : ParStrengthen(t, C, D)
    \/ \E t \in Thread : \E l \in pending : ParPropagate(t, l)
==============================================================================
