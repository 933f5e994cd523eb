------------------------- MODULE ParallelSubsumption -------------------------
(***************************************************************************)
(* Subsumption and strengthening with several threads, as                  *)
(* Subsumption::process hands them to the thread pool                      *)
(* (coprocessor/techniques/Subsumption.cc).                                *)
(*                                                                         *)
(* A clause is a reference: copies of a clause have references of their    *)
(* own.  While subsumption runs, learnt flags stay, and so do deleted      *)
(* flags if removals are deferred; the master changes them in the end.     *)
(* Strengthening locks the smallest variable of both of its clauses.       *)
(* A thread takes one clause at a time, in any order, which includes every *)
(* way to cut the queue into chunks.                                       *)
(***************************************************************************)
EXTENDS Propagation, FiniteSetsExt

CONSTANTS
    Threads,    \* the threads of the pool
    Problems,   \* what to start with: records [lits, learnt, queues, deferred, word]
    MayStop     \* an interrupt or the limit of steps stops the threads

\* Without threads the simplifier subsumes alone; 0 stands for no thread.
ASSUME ThreadsAssumption == Threads # {} /\ 0 \notin Threads

\* The clauses that Preprocessor::initializePreprocessor gives to the techniques
\* (Coprocessor.cc:1262) have two literals at least: units go to the trail, an empty clause ends everything.
\* Solver::addClause_ removes tautologies.
ASSUME ProblemsAssumption ==
    \A p \in Problems :
        /\ DOMAIN p.lits \subseteq Nat
        /\ p.lits \in [DOMAIN p.lits -> Clause]
        /\ \A c \in DOMAIN p.lits : Cardinality(p.lits[c]) > 1 /\ ~ Tautology(p.lits[c])
        /\ p.learnt \subseteq DOMAIN p.lits
        /\ p.queues[1] \subseteq DOMAIN p.lits /\ p.queues[2] \subseteq DOMAIN p.lits

VARIABLES
    lits, learnt, deleted,      \* per clause: literals, flags
    units, ok,                  \* the trail, and whether the formula may be satisfiable
    subsume, strengthen,        \* the two queues of CoprocessorData
    job, queue,                 \* what the pool does, what no thread has taken yet
    toDelete, setNonLearnt,     \* what the master has to do
    pc, cls, rest, other,       \* per thread: place, clause, clauses to visit, the one visited
    inherits,                   \* learnt_subsumed_non_learnt
    local,                      \* localQueue: clauses that became shorter
    fst, d_fst,                 \* the smallest variables of cls and other, as read
    lockOf,                     \* per variable: the thread that holds its lock, or 0
    bit, read,                  \* clauses whose header is locked, a header that is written back
    start                       \* the problem: clauses, what is in the queues; deferred: the
                                \* master removes what is subsumed (opt_sub_par_subs_counts);
                                \* word: the compiler stores all flags to change one

formula == <<lits, learnt, deleted, units, ok>>
master  == <<subsume, strengthen, job, start>>
later   == <<toDelete, setNonLearnt>>
scan    == <<cls, rest, other, inherits, fst, d_fst>>
header  == <<bit, read>>
vars == <<formula, master, queue, later, pc, scan, local, lockOf, header>>

Refs     == DOMAIN lits
Kept     == Refs \ deleted
First(c) == Min({VarOf(l) : l \in lits[c]})

Init ==
    /\ start \in Problems
    /\ lits = start.lits /\ learnt = start.learnt /\ deleted = {}
    /\ units = {} /\ ok = TRUE
    /\ subsume = start.queues[1] /\ strengthen = start.queues[2]
    /\ job = "none" /\ queue = {} /\ toDelete = {} /\ setNonLearnt = {}
    /\ pc = [t \in Threads |-> "idle"]
    /\ cls = [t \in Threads |-> 0] /\ rest = [t \in Threads |-> {}]
    /\ other = [t \in Threads |-> 0] /\ inherits = [t \in Threads |-> FALSE]
    /\ local = [t \in Threads |-> {}]
    /\ fst = [t \in Threads |-> 0] /\ d_fst = [t \in Threads |-> 0]
    /\ lockOf = [v \in Vars |-> 0]
    /\ bit = {} /\ read = [t \in Threads |-> {}]

Goes(t, place) == pc' = [pc EXCEPT ![t] = place]

\* A thread that is done with a clause remembers nothing of it.
Forget(t) ==
    /\ cls' = [cls EXCEPT ![t] = 0] /\ rest' = [rest EXCEPT ![t] = {}]
    /\ other' = [other EXCEPT ![t] = 0] /\ inherits' = [inherits EXCEPT ![t] = FALSE]
    /\ fst' = [fst EXCEPT ![t] = 0] /\ d_fst' = [d_fst EXCEPT ![t] = 0]

-----------------------------------------------------------------------------
(* The master: Subsumption::process *)

Start(name, Q) ==
    /\ job = "none" /\ ok
    /\ job' = name /\ queue' = Q /\ pc' = [t \in Threads |-> "take"]
    /\ UNCHANGED <<formula, subsume, strengthen, start, later, scan, local, lockOf, header>>

Subsume    == subsume # {} /\ Start("subsume", subsume)
Strengthen == subsume = {} /\ strengthen # {} /\ Start("strengthen", strengthen)

AllBack == \A t \in Threads : pc[t] = "back"

\* The deferred removals, then the deferred flags.
SetFlags_BeforeAll == deleted' = deleted \cup toDelete /\ UNCHANGED learnt
SetFlags ==
    /\ deleted' = deleted \cup toDelete
    /\ learnt' = learnt \ (setNonLearnt \ deleted')

Subsumed ==
    /\ job = "subsume" /\ AllBack /\ job' = "none"
    /\ SetFlags
    /\ subsume' = {} /\ toDelete' = {} /\ setNonLearnt' = {} /\ queue' = {}
    /\ pc' = [t \in Threads |-> "idle"]
    /\ UNCHANGED <<lits, units, ok, strengthen, start, scan, local, lockOf, header>>

\* Units are propagated; what becomes shorter waits for the next subsumption.
Strengthened ==
    /\ job = "strengthen" /\ AllBack /\ job' = "none"
    /\ LET F == {lits[c] : c \in Kept}
           U == UnitsFrom(F, units)
           gone == {c \in Kept : lits[c] \cap U # {}}
       IN  IF ok /\ ~ FailsWith(F, U)
           THEN /\ units' = U /\ deleted' = deleted \cup gone /\ ok' = TRUE
                /\ lits' = [c \in Refs |-> IF c \in Kept \ gone THEN Without(lits[c], U) ELSE lits[c]]
                /\ subsume' = subsume \cup {c \in Refs : lits'[c] # lits[c]}
           ELSE ok' = FALSE /\ UNCHANGED <<units, deleted, lits, subsume>>
    /\ strengthen' = {} /\ queue' = {} /\ local' = [t \in Threads |-> {}]
    /\ pc' = [t \in Threads |-> "idle"]
    /\ UNCHANGED <<learnt, start, later, scan, lockOf, header>>

Finished == job = "none" /\ (~ ok \/ subsume \cup strengthen = {})

-----------------------------------------------------------------------------
(* A thread takes a clause from what became shorter, or from the queue; what *)
(* became shorter is left where the queue ends.                              *)

Take(t, c) ==
    /\ pc[t] = "take"
    /\ \/ c \in local[t] /\ queue # {} /\ local' = [local EXCEPT ![t] = @ \ {c}] /\ UNCHANGED queue
       \/ local[t] = {} /\ c \in queue /\ queue' = queue \ {c} /\ UNCHANGED local

Skip(t, c) ==
    /\ Take(t, c) /\ c \in deleted
    /\ UNCHANGED <<formula, master, later, pc, scan, lockOf, header>>

Back(t) ==
    /\ pc[t] = "take" /\ (MayStop \/ queue = {} \/ ~ ok)
    /\ Goes(t, "back")
    /\ UNCHANGED <<formula, master, queue, later, scan, local, lockOf, header>>

-----------------------------------------------------------------------------
(* par_subsumption_worker *)

Subsumes(c, d) == lits[c] \subseteq lits[d]

TakeSubsumer(t, c) ==
    /\ job = "subsume" /\ Take(t, c) /\ c \notin deleted
    /\ Goes(t, "visit")
    /\ cls' = [cls EXCEPT ![t] = c]
    /\ rest' = [rest EXCEPT ![t] = {d \in Refs \ {c} : Subsumes(c, d)}]
    /\ inherits' = [inherits EXCEPT ![t] = FALSE]
    /\ UNCHANGED <<formula, master, later, other, fst, d_fst, lockOf, header>>

Visits(t, d) ==
    /\ job = "subsume" /\ pc[t] = "visit" /\ d \in rest[t]
    /\ rest' = [rest EXCEPT ![t] = @ \ {d}]

\* removeClauseThreadSafe, or left to the master.
Removes(t, c) ==
    /\ IF start.deferred THEN toDelete' = toDelete \cup {c} /\ UNCHANGED <<pc, other>>
                   ELSE Goes(t, "spin") /\ other' = [other EXCEPT ![t] = c] /\ UNCHANGED toDelete
    /\ UNCHANGED <<setNonLearnt, inherits>>

\* Of two copies the one with the smaller reference is kept.
Later_Any(c, d) == lits[c] = lits[d]
Later(c, d)     == lits[c] = lits[d] /\ c > d

\* What the flags in the code are for: the clause that is kept becomes a core
\* clause if the other one is.
HandOver(t, c, d) ==
    /\ toDelete' = toDelete \cup {c} /\ setNonLearnt' = setNonLearnt \cup {d}
    /\ UNCHANGED <<pc, other, inherits>>

Inherit(t, d) ==
    /\ toDelete' = toDelete \cup {d} /\ inherits' = [inherits EXCEPT ![t] = TRUE]
    /\ UNCHANGED <<pc, other, setNonLearnt>>

Visit(t, d) ==
    /\ Visits(t, d)
    /\ LET c == cls[t]
       IN  \/ d \in deleted /\ UNCHANGED <<later, pc, other, inherits>>
           \/ d \notin deleted /\ Later(c, d)
              /\ IF c \notin learnt /\ d \in learnt THEN HandOver(t, c, d) ELSE Removes(t, c)
           \/ d \notin deleted /\ ~ Later(c, d)
              /\ IF c \in learnt /\ d \notin learnt THEN Inherit(t, d) ELSE Removes(t, d)
    /\ UNCHANGED <<formula, master, queue, cls, fst, d_fst, local, lockOf, header>>

\* removeClauseThreadSafe: spinlock(), set_delete(), unlock().
SpinLock(t) ==
    /\ pc[t] = "spin" /\ other[t] \notin bit
    /\ bit' = bit \cup {other[t]}
    /\ Goes(t, "locked")
    /\ UNCHANGED <<formula, master, queue, later, scan, local, lockOf, read>>

Delete(t) ==
    /\ pc[t] = "locked"
    /\ deleted' = deleted \cup {other[t]}
    /\ bit' = bit \ {other[t]}
    /\ Goes(t, "visit")
    /\ UNCHANGED <<lits, learnt, units, ok, master, queue, later, scan, local, lockOf, read>>

AddNonLearnt(t) == setNonLearnt' = IF inherits[t] THEN setNonLearnt \cup {cls[t]} ELSE setNonLearnt

\* set_subsume(false) changes one flag of the clause without its lock.  The flags are
\* a bit-field: a compiler may store the whole word, with the lock and the deleted
\* flag as they were read, or the byte of that flag only, where neither of them is
\* (g++ for x86-64).  Nobody else writes the word while the removals are deferred.
EndVisits(t) ==
    /\ job = "subsume" /\ pc[t] = "visit" /\ rest[t] = {}
    /\ AddNonLearnt(t)
    /\ IF start.word /\ ~ start.deferred
       THEN /\ Goes(t, "write") /\ UNCHANGED scan
            /\ read' = [read EXCEPT ![t] = {f \in {"bit", "deleted"} :
                         cls[t] \in IF f = "bit" THEN bit ELSE deleted}]
       ELSE Goes(t, "take") /\ Forget(t) /\ UNCHANGED read
    /\ UNCHANGED <<formula, master, queue, toDelete, local, lockOf, bit>>

WriteFlags(t) ==
    /\ pc[t] = "write" /\ Goes(t, "take") /\ Forget(t)
    /\ bit' = IF "bit" \in read[t] THEN bit \cup {cls[t]} ELSE bit \ {cls[t]}
    /\ deleted' = IF "deleted" \in read[t] THEN deleted \cup {cls[t]} ELSE deleted \ {cls[t]}
    /\ UNCHANGED <<lits, learnt, units, ok, master, queue, later, local, lockOf, read>>

-----------------------------------------------------------------------------
(* par_strengthening_worker, par_nn_strengthening_worker *)

TakeStrengthener(t, c) ==
    /\ job = "strengthen" /\ Take(t, c) /\ c \notin deleted
    /\ Goes(t, "lock")
    /\ cls' = [cls EXCEPT ![t] = c] /\ fst' = [fst EXCEPT ![t] = First(c)]
    /\ UNCHANGED <<formula, master, later, rest, other, inherits, d_fst, lockOf, header>>

\* The clause may be gone or have lost its first variable before the lock is ours.
LockFirst(t) ==
    /\ pc[t] = "lock" /\ lockOf[fst[t]] = 0
    /\ LET c == cls[t]
       IN  \/ c \in deleted /\ Goes(t, "take") /\ Forget(t) /\ UNCHANGED lockOf
           \/ /\ c \notin deleted /\ First(c) # fst[t]
              /\ fst' = [fst EXCEPT ![t] = First(c)]
              /\ UNCHANGED <<pc, cls, rest, other, inherits, d_fst, lockOf>>
           \/ /\ c \notin deleted /\ First(c) = fst[t]
              /\ lockOf' = [lockOf EXCEPT ![fst[t]] = t]
              /\ \E min \in lits[c] :
                    rest' = [rest EXCEPT ![t] = {d \in Refs \ {c} : {min, -min} \cap lits[d] # {}}]
              /\ Goes(t, "visit") /\ UNCHANGED <<cls, other, inherits, fst, d_fst>>
    /\ UNCHANGED <<formula, master, queue, later, local, header>>

Dropped(t, d) == rest' = [rest EXCEPT ![t] = @ \ {d}]

\* A clause whose first variable is larger cannot contain ours.
LookAt(t, d) ==
    /\ job = "strengthen" /\ pc[t] = "visit" /\ d \in rest[t]
    /\ \/ (d \in deleted \/ First(d) > fst[t]) /\ Dropped(t, d) /\ UNCHANGED <<pc, other, d_fst>>
       \/ /\ d \notin deleted /\ First(d) <= fst[t]
          /\ other' = [other EXCEPT ![t] = d] /\ d_fst' = [d_fst EXCEPT ![t] = First(d)]
          /\ Goes(t, IF First(d) = fst[t] THEN "check" ELSE "lockOther")
          /\ UNCHANGED rest
    /\ UNCHANGED <<formula, master, queue, later, cls, inherits, fst, local, lockOf, header>>

StillFirst_Unchecked(d, v) == TRUE
StillFirst_Swapped(d, v) == First(d) < v
StillFirst(d, v) == First(d) = v

LockOther(t) ==
    /\ pc[t] = "lockOther" /\ lockOf[d_fst[t]] = 0
    /\ LET d == other[t]
       IN  \/ d \in deleted /\ Dropped(t, d) /\ Goes(t, "visit") /\ UNCHANGED lockOf
           \/ d \notin deleted /\ ~ StillFirst(d, d_fst[t]) /\ Goes(t, "visit") /\ UNCHANGED <<rest, lockOf>>
           \/ /\ d \notin deleted /\ StillFirst(d, d_fst[t])
              /\ lockOf' = [lockOf EXCEPT ![d_fst[t]] = t]
              /\ Goes(t, "check") /\ UNCHANGED rest
    /\ UNCHANGED <<formula, master, queue, later, cls, other, inherits, fst, d_fst, local, header>>

\* c with one literal complemented is a subset of d.
Resolves_NoSubset(c, d, l) == l \in lits[c] /\ -l \in lits[d]
Resolves(c, d, l) == l \in lits[c] /\ -l \in lits[d] /\ lits[c] \ {l} \subseteq lits[d]

Free(t, V) == lockOf' = [v \in Vars |-> IF v \in V /\ lockOf[v] = t THEN 0 ELSE lockOf[v]]

InProgress == queue \cup UNION {local[t] : t \in Threads}
                    \cup {cls[t] : t \in {u \in Threads : pc[u] \notin {"take", "back"}}}

\* d loses a literal; a clause of two becomes a unit, which may contradict the
\* trail; then the thread ends.
Strengthens(t, l) ==
    LET d == other[t]
        unit == CHOOSE k \in lits[d] : k # -l
    IN  IF Cardinality(lits[d]) = 2
        THEN /\ deleted' = deleted \cup {d}
             /\ IF -unit \in units
                THEN ok' = FALSE /\ Goes(t, "back") /\ Free(t, {fst[t], d_fst[t]}) /\ UNCHANGED units
                ELSE units' = units \cup {unit} /\ Goes(t, "visit") /\ Free(t, {d_fst[t]} \ {fst[t]}) /\ UNCHANGED ok
             /\ UNCHANGED <<lits, subsume, local>>
        ELSE /\ lits' = [lits EXCEPT ![d] = @ \ {-l}]
             /\ subsume' = subsume \cup {d}
             /\ local' = IF d \in InProgress THEN local ELSE [local EXCEPT ![t] = @ \cup {d}]
             /\ Goes(t, "visit") /\ Free(t, {d_fst[t]} \ {fst[t]})
             /\ UNCHANGED <<deleted, units, ok>>

\* One step, although another thread can lock d as soon as its first literal is
\* overwritten, before this one has set can_subsume and filled the queue: it would
\* have to delete d in between, and the compiler to store whole words, for that
\* write to undo the deletion.
Check(t) ==
    /\ pc[t] = "check"
    /\ Dropped(t, other[t])
    /\ \/ \E l \in lits[cls[t]] : Resolves(cls[t], other[t], l) /\ Strengthens(t, l)
       \/ /\ ~ \E l \in lits[cls[t]] : Resolves(cls[t], other[t], l)
          /\ Goes(t, "visit") /\ Free(t, {d_fst[t]} \ {fst[t]})
          /\ UNCHANGED <<lits, deleted, units, ok, subsume, local>>
    /\ UNCHANGED <<learnt, strengthen, job, start, queue, later, cls, other, inherits, fst, d_fst, header>>

EndStrengthening(t) ==
    /\ job = "strengthen" /\ pc[t] = "visit" /\ (rest[t] = {} \/ MayStop)
    /\ Goes(t, "take") /\ Free(t, {fst[t]}) /\ Forget(t)
    /\ UNCHANGED <<formula, master, queue, later, local, header>>

-----------------------------------------------------------------------------
Worker(t) ==
    \/ \E c \in Refs : Skip(t, c) \/ TakeSubsumer(t, c) \/ TakeStrengthener(t, c)
    \/ Back(t) \/ SpinLock(t) \/ Delete(t) \/ EndVisits(t) \/ WriteFlags(t)
    \/ \E d \in Refs : Visit(t, d) \/ LookAt(t, d)
    \/ LockFirst(t) \/ LockOther(t) \/ Check(t) \/ EndStrengthening(t)

Master == Subsume \/ Subsumed \/ Strengthen \/ Strengthened

\* All is done, or a thread tries the lock of a clause's flags in vain.
Spinning(t) == pc[t] = "spin" /\ other[t] \in bit
Rest == (Finished \/ \E t \in Threads : Spinning(t)) /\ UNCHANGED vars

Next == Master \/ Rest \/ \E t \in Threads : Worker(t)

\* The scheduler runs every thread.  A spin lock is tried again and again; strong
\* fairness says that a thread does not always miss the moments it is free.
Fairness == WF_vars(Master) /\ \A t \in Threads : SF_vars(Worker(t))

Spec == Init /\ [][Next]_vars /\ Fairness

-----------------------------------------------------------------------------
(* Properties *)

Given      == {start.lits[c] : c \in Refs}
GivenCore  == {start.lits[c] : c \in Refs \ start.learnt}
Now        == {lits[c] : c \in Kept} \cup {{l} : l \in units}
NowCore    == {lits[c] : c \in Kept \ learnt} \cup {{l} : l \in units}

\* Between two jobs the core clauses that are left imply those that were given:
\* a clause that subsumes a core clause has become a core clause itself, in
\* whatever order the threads find and delete each other's clauses (the races that the
\* comment of par_subsumption_worker describes).
NothingLost ==
    job = "none" /\ ok => \A A \in SUBSET Vars : IsModel(A, NowCore) => IsModel(A, GivenCore)

\* What the threads leave follows from what was given, also while they work on
\* clauses that others change: every literal is removed by a resolution step.
NothingInvented ==
    \A A \in SUBSET Vars : IsModel(A, Given) => ok /\ IsModel(A, Now)

\* Two threads never change a clause, or change one that the other strengthens with.
Using(t) == IF pc[t] \in {"visit", "lockOther", "check"} THEN {cls[t]} ELSE {}
OneAtATime ==
    job = "strengthen" =>
        \A t, u \in Threads :
            t # u /\ pc[t] = "check" => other[t] \notin Using(u) \cup (IF pc[u] = "check" THEN {other[u]} ELSE {})

\* Every job of the pool comes to its end: locks are taken in the order of the
\* variables, who tries again finds a clause whose first variable has grown, and who
\* has the lock of a clause's flags gives it back.  The last part is not claimed of
\* removals at once where the compiler stores whole words: WriteFlags may put back
\* a lock that was released, and the next one to remove the clause spins for ever.
JobsEnd ==
    job = "strengthen" \/ (job = "subsume" /\ (start.deferred \/ ~ start.word)) ~> job = "none"
==============================================================================
