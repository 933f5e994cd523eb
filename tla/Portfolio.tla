------------------------------ MODULE Portfolio ------------------------------
(***************************************************************************)
(* The parallel solver: one master thread inside PSolver::solveLimited     *)
(* and one worker thread per solver incarnation (pfolio/PSolver.cc), which *)
(* talk through the state of each worker's Communicator                    *)
(* (riss/core/Communication.h) and two kinds of condition variable         *)
(* (SleepLock of riss/utils/LockCollection.h): ownLock of each worker and  *)
(* the master's lock.                                                      *)
(*                                                                         *)
(* Granularity.  A section of ownLock holds one read or one write of the   *)
(* state and no call that blocks, except for the wait itself, so that it   *)
(* is one action; setting a state and broadcasting are two sections in the *)
(* code and two actions here.  The master reads the states of the workers  *)
(* one after the other under its own lock only, so each read is an action, *)
(* and a broadcast to the master has to wait while mpc = "scan".           *)
(*                                                                         *)
(* The incremental interface is part of the master: between two calls of   *)
(* solveLimited a client adds variables and clauses.  What a worker        *)
(* computes is reduced to what it was computed from.                       *)
(***************************************************************************)
EXTENDS Integers, FiniteSets

CONSTANTS
    Threads,          \* number of incarnations; solver 0 is the parsed one
    MaxRounds,        \* bound: calls of solveLimited
    MaxVars,          \* bound: variables; variable v is given by its number
    MaxClauses,       \* bound: clauses the client adds
    Assumptions,      \* what a client may assume in a call, {} included
    Budget,           \* is a conflict budget set (a solver may give up)?
    Faults            \* what may go wrong, one set of faults for each kind of run

ASSUME ThreadsAssumption == Threads \in Nat \ {0}
ASSUME BoundsAssumption  == {MaxRounds, MaxClauses} \subseteq Nat /\ MaxVars \in Nat \ {0}
ASSUME AssumptionsAssumption == {} \in Assumptions
ASSUME BudgetAssumption == Budget \in BOOLEAN

\* A signal handler calls interrupt(), the first wait of a worker returns without
\* a broadcast, pthread_create fails.
ASSUME FaultsAssumption == Faults \subseteq SUBSET {"signal", "spurious", "create"}

Worker == 0 .. Threads - 1

\* Communicator::State, the values that PSolver and the solvers use.
State == {"waiting", "working", "finished", "aborted"}

\* A clause is its number and its largest variable; the formula is a set.
Clause == [id : 1 .. MaxClauses, var : 1 .. MaxVars]
Answer == [val : {"undef", "sat", "unsat"}, clauses : SUBSET Clause, assumed : Assumptions]
NoAnswer == [val |-> "undef", clauses |-> {}, assumed |-> {}]

VARIABLES
    faults,     \* what may go wrong in this run: chosen at the start, never changed
    mpc,        \* where the master is
    mi,         \* its loop index
    waitState,  \* argument of waitFor
    round,      \* calls of solveLimited so far
    initialized, created,   \* threads are set up; solvers 0 .. created-1 exist
    given,      \* clauses the client added so far
    assumed,    \* argument of solveLimited
    result,     \* what solveLimited returned last
    wpc,        \* where each worker is
    state,      \* Communicator::state
    db,         \* clauses in each solver
    nVars,      \* variables of each solver
    interrupt,  \* Solver::asynch_interrupt
    ret,        \* Communicator::returnValue
    winner      \* Communicator::winner

master == <<faults, mpc, mi, waitState, round, initialized, created, given, assumed, result>>
solver == <<db, nVars, interrupt>>
comm   == <<state, ret, winner>>
vars   == <<master, wpc, solver, comm>>

Init ==
    /\ faults \in Faults
    /\ mpc = "api" /\ mi = 0 /\ waitState = "oneFinished" /\ round = 0
    /\ initialized = FALSE /\ created = 1
    /\ given = {} /\ assumed = {} /\ result = NoAnswer
    /\ wpc = [i \in Worker |-> "none"]
    /\ state = [i \in Worker |-> "waiting"]
    /\ db = [i \in Worker |-> {}]
    /\ nVars = [i \in Worker |-> 0]
    /\ interrupt = [i \in Worker |-> FALSE]
    /\ ret = [i \in Worker |-> NoAnswer]
    /\ winner = [i \in Worker |-> FALSE]

\* Mutant: a clause reaches the first solver only.
FirstOnly == {0}

\* The solvers that exist: solver 0 only, until the threads are initialized.
Existing == {i \in Worker : i < created}

Goto(where) == mpc' = where /\ mi' = 0

\* Mutant: the loop runs once too often.
StepTooFar(where) == IF mi < Threads THEN mi' = mi + 1 /\ UNCHANGED mpc
                                     ELSE Goto(where)

\* Loops of the master over all threads.
StepOr(where) == IF mi + 1 < Threads THEN mi' = mi + 1 /\ UNCHANGED mpc
                                     ELSE Goto(where)

-----------------------------------------------------------------------------
(* Between the calls: the incremental interface. *)

\* newVar: solver 0 gets the variable.
NewVar ==
    /\ mpc = "api"
    /\ nVars[0] < MaxVars
    /\ nVars' = [nVars EXCEPT ![0] = @ + 1]
    /\ UNCHANGED <<master, wpc, db, interrupt, comm>>

\* addClause_: a clause over variables of the formula, to all solvers there are.
AddClause(v) ==
    /\ mpc = "api"
    /\ Cardinality(given) < MaxClauses
    /\ v <= nVars[0]
    /\ LET c == [id |-> Cardinality(given) + 1, var |-> v] IN
         /\ given' = given \cup {c}
         /\ db' = [i \in Worker |-> IF i \in Existing THEN db[i] \cup {c} ELSE db[i]]
    /\ UNCHANGED <<faults, mpc, mi, waitState, round, initialized, created, assumed, result,
                   wpc, nVars, interrupt, comm>>

\* interrupt(), called by a signal handler at any time.
Interrupt ==
    /\ "signal" \in faults
    /\ mpc # "done"
    /\ interrupt' = [i \in Worker |-> interrupt[i] \/ i \in Existing]
    /\ UNCHANGED <<master, wpc, db, nVars, comm>>

-----------------------------------------------------------------------------
(* solveLimited, the master *)

\* Without threads the call first runs simplifyFormula and initializeThreads.
\* After a failed initialization there is no further call (an assertion of
\* initializeThreads forbids it).
CallSolve(as) ==
    /\ mpc = "api"
    /\ round < MaxRounds
    /\ "aborted" \notin {state[i] : i \in Worker}
    /\ round' = round + 1
    /\ assumed' = as
    /\ result' = NoAnswer
    /\ Goto(IF initialized THEN "prepare" ELSE "simplify")
    /\ UNCHANGED <<faults, waitState, initialized, created, given, wpc, solver, comm>>

\* simplifyFormula: solver 0 is preprocessed.  Unsatisfiable formulas are
\* reported at once, in every other case the threads are set up.
Simplify ==
    /\ mpc = "simplify"
    /\ \/ /\ Goto("api")
          /\ result' = [val |-> "unsat", clauses |-> db[0], assumed |-> {}]
       \/ /\ Goto("spawn")
          /\ UNCHANGED result
    /\ UNCHANGED <<faults, waitState, round, initialized, created, given, assumed,
                   wpc, solver, comm>>

\* One round of the loop of initializeThreads: the communicator and the solver
\* of the thread are created, then the thread itself.
Spawn ==
    /\ mpc = "spawn"
    /\ created' = IF mi = 0 THEN created ELSE mi + 1
    /\ \/ /\ wpc' = [wpc EXCEPT ![mi] = "entry"]
          /\ state' = [state EXCEPT ![mi] = "waiting"]
       \/ /\ "create" \in faults
          /\ state' = [state EXCEPT ![mi] = "aborted"]
          /\ UNCHANGED wpc
    /\ IF mi + 1 < Threads
       THEN mi' = mi + 1 /\ UNCHANGED mpc
       ELSE Goto(IF \E i \in Worker : state'[i] = "aborted" THEN "api" ELSE "clone")
    /\ UNCHANGED <<faults, waitState, round, initialized, given, assumed, result,
                   solver, ret, winner>>

\* The formula and the variables of solver 0 are copied to solver mi.
Clone ==
    /\ mpc = "clone"
    /\ db'    = [db EXCEPT ![mi] = db[0]]
    /\ nVars' = [nVars EXCEPT ![mi] = nVars[0]]
    /\ StepOr("prepare")
    /\ initialized' = (mi + 1 = Threads)
    /\ UNCHANGED <<faults, waitState, round, created, given, assumed, result,
                   wpc, interrupt, comm>>

\* No incarnation is told the assumptions: the copy to the communicators is
\* commented out in the code, their vectors stay empty.
WorkerAssumptions(i) == {}

\* Everybody gets the variables of the assumptions (they are old variables
\* here), and nobody has won yet.
Prepare ==
    /\ mpc = "prepare"
    /\ winner' = [i \in Worker |-> FALSE]
    /\ Goto("start")
    /\ UNCHANGED <<faults, waitState, round, initialized, created, given, assumed, result,
                   wpc, solver, state, ret>>

\* The worker is in a section of ownLock that is longer than one action, or was
\* cancelled in its wait: it has the mutex back then, and nobody unlocks it.
HoldsLock(i) == wpc[i] \in {"parkTell", "parkLook", "cancelled"}

\* start: set the state of a worker, then wake it up.
StartSet ==
    /\ mpc = "start"
    /\ ~ HoldsLock(mi)
    /\ state' = [state EXCEPT ![mi] = "working"]
    /\ mpc' = "startAwake"
    /\ UNCHANGED <<faults, mi, waitState, round, initialized, created, given, assumed, result,
                   wpc, solver, ret, winner>>

\* Mutant: the workers are not woken up.
NoWake(i) == wpc[i]

\* A broadcast on ownLock ends the wait of the worker.  The worker is still inside
\* pthread_cond_wait then, until it has the mutex again.
Awoken(i) == CASE wpc[i] = "wait0"  -> "woken0"
               [] wpc[i] = "wait"   -> "woken"
               [] wpc[i] = "parked" -> "parkWoken"
               [] OTHER             -> wpc[i]

\* The worker is inside pthread_cond_wait, where a thread can be cancelled.
InWait(i) == wpc[i] \in {"wait0", "woken0", "wait", "woken", "parked", "parkWoken"}

StartAwake ==
    /\ mpc = "startAwake"
    /\ ~ HoldsLock(mi)
    /\ wpc' = [wpc EXCEPT ![mi] = Awoken(mi)]
    /\ IF mi + 1 < Threads
       THEN mpc' = "start" /\ mi' = mi + 1 /\ UNCHANGED waitState
       ELSE Goto("scan") /\ waitState' = "oneFinished"
    /\ UNCHANGED <<faults, round, initialized, created, given, assumed, result,
                   solver, comm>>

-----------------------------------------------------------------------------
(* waitFor *)

\* Mutant: the master does not wait for the other solvers.
NoSecondWait == "reset"

\* What the master does when the wait is over.
AfterWait == IF waitState = "oneFinished" THEN "interrupt" ELSE "reset"

\* One read of a state while the master's lock is held.  oneFinished ends the
\* wait at the first finished worker, allFinished at the end of the loop.
Scan ==
    /\ mpc = "scan"
    /\ LET hit == state[mi] = "finished" IN
       IF waitState = "oneFinished"
       THEN IF hit THEN Goto(AfterWait) ELSE StepOr("msleep")
       ELSE IF hit THEN StepOr(AfterWait) ELSE Goto("msleep")
    /\ UNCHANGED <<faults, waitState, round, initialized, created, given, assumed, result,
                   wpc, solver, comm>>

\* The wait of the master returns without a broadcast and it scans again.
MasterSpurious ==
    /\ mpc = "msleep"
    /\ Goto("scan")
    /\ UNCHANGED <<faults, waitState, round, initialized, created, given, assumed, result,
                   wpc, solver, comm>>

\* All other solvers are interrupted, one after the other.
InterruptOthers ==
    /\ mpc = "interrupt"
    /\ interrupt' = [interrupt EXCEPT ![mi] = TRUE]
    /\ IF mi + 1 < Threads
       THEN mi' = mi + 1 /\ UNCHANGED <<mpc, waitState>>
       ELSE Goto("scan") /\ waitState' = "allFinished"
    /\ UNCHANGED <<faults, round, initialized, created, given, assumed, result,
                   wpc, db, nVars, comm>>

\* Mutant: only the first solver is reset.
ResetFirst ==
    /\ mpc = "reset"
    /\ interrupt' = [interrupt EXCEPT ![0] = FALSE]
    /\ StepOr("collect")
    /\ UNCHANGED <<faults, waitState, round, initialized, created, given, assumed, result,
                   wpc, db, nVars, comm>>

\* resetLastSolve of one solver.
Reset ==
    /\ mpc = "reset"
    /\ interrupt' = [interrupt EXCEPT ![mi] = FALSE]
    /\ StepOr("collect")
    /\ UNCHANGED <<faults, waitState, round, initialized, created, given, assumed, result,
                   wpc, db, nVars, comm>>

\* Mutant: the answer of the first worker counts.
FirstWorker == 0

\* The winner is the first worker with an answer, or worker 0.
WinningSolver ==
    IF \E i \in Worker : winner[i] /\ ret[i].val # "undef"
    THEN CHOOSE i \in Worker :
            /\ winner[i] /\ ret[i].val # "undef"
            /\ \A j \in 0 .. i - 1 : ~ (winner[j] /\ ret[j].val # "undef")
    ELSE 0

Collect ==
    /\ mpc = "collect"
    /\ result' = ret[WinningSolver]
    /\ Goto("api")
    /\ UNCHANGED <<faults, waitState, round, initialized, created, given, assumed,
                   wpc, solver, comm>>

-----------------------------------------------------------------------------
(* kill *)

\* Nothing is done if the initialization did not succeed; otherwise everybody
\* is interrupted.
Kill ==
    /\ mpc = "api"
    /\ IF initialized
       THEN /\ Goto("abort")
            /\ interrupt' = [i \in Worker |-> TRUE]
       ELSE Goto("done") /\ UNCHANGED interrupt
    /\ UNCHANGED <<faults, waitState, round, initialized, created, given, assumed, result,
                   wpc, db, nVars, comm>>

AbortSet ==
    /\ mpc = "abort"
    /\ ~ HoldsLock(mi)
    /\ state' = [state EXCEPT ![mi] = "aborted"]
    /\ mpc' = "abortAwake"
    /\ UNCHANGED <<faults, mi, waitState, round, initialized, created, given, assumed, result,
                   wpc, solver, ret, winner>>

AbortAwake ==
    /\ mpc = "abortAwake"
    /\ ~ HoldsLock(mi)
    /\ wpc' = [wpc EXCEPT ![mi] = Awoken(mi)]
    /\ IF mi + 1 < Threads THEN mpc' = "abort" /\ mi' = mi + 1 ELSE Goto("cancel")
    /\ UNCHANGED <<faults, waitState, round, initialized, created, given, assumed, result,
                   solver, comm>>

\* One round of the loop that ends the threads, first half: pthread_cancel, which
\* does not wait for the thread.
Cancel ==
    /\ mpc = "cancel"
    /\ mpc' = "join"
    /\ UNCHANGED <<faults, mi, waitState, round, initialized, created, given, assumed,
                   result, wpc, solver, comm>>

\* Mutant: the thread is not joined.
NoJoin(i) == TRUE

\* What pthread_join waits for.
Joinable(i) == wpc[i] \in {"exit", "cancelled"}

\* The second half: pthread_join.
Join ==
    /\ mpc = "join"
    /\ Joinable(mi)
    /\ IF mi + 1 < Threads THEN mpc' = "cancel" /\ mi' = mi + 1 ELSE Goto("done")
    /\ UNCHANGED <<faults, waitState, round, initialized, created, given, assumed, result,
                   wpc, solver, comm>>

-----------------------------------------------------------------------------
(* runWorkerSolver, worker i.  A worker that waits in pthread_cond_wait is  *)
(* at wait0 (before its first task), wait (between tasks) or parked (inside *)
(* a solver that asks for its state), and at woken0, woken or parkWoken     *)
(* when its wait is over but the mutex is not its own yet.                  *)

\* What a step of worker i leaves alone.
WorkerFrame == UNCHANGED <<faults, mi, waitState, round, initialized, created, given, assumed,
                           result, db, nVars>>

WGoto(i, where) == wpc' = [wpc EXCEPT ![i] = where]

\* Mutant: the master is not woken up.
NoAwake == UNCHANGED mpc

\* awakeMaster: a master that sleeps scans again.  Its lock is needed.
AwakeMaster == /\ mpc # "scan"
               /\ mpc' = IF mpc = "msleep" THEN "scan" ELSE mpc

\* Mutant: a worker starts at once.
NoFirstWait(i) == FALSE

\* Is there nothing to do for a thread that starts?
FirstWait(i) == state[i] = "waiting"

\* The thread takes ownLock and tests its state, once.
Entry(i) ==
    /\ wpc[i] = "entry"
    /\ WGoto(i, IF FirstWait(i) THEN "wait0" ELSE "check")
    /\ UNCHANGED <<mpc, interrupt, comm>> /\ WorkerFrame

\* The first wait is not inside a loop: when it returns, the worker goes on.
SpuriousFirst(i) ==
    /\ "spurious" \in faults
    /\ wpc[i] = "wait0"
    /\ WGoto(i, Awoken(i))
    /\ UNCHANGED <<mpc, interrupt, comm>> /\ WorkerFrame

\* The head of the loop over the tasks, where a worker comes to at once when it
\* leaves the first wait.
Check(i) ==
    /\ wpc[i] \in {"woken0", "check"}
    /\ WGoto(i, IF state[i] = "aborted" THEN "exit" ELSE "solve")
    /\ UNCHANGED <<mpc, interrupt, comm>> /\ WorkerFrame

\* The solver answers; setReturnValue.
Decide(i) ==
    /\ wpc[i] = "solve"
    /\ \E val \in {"sat", "unsat"} :
          ret' = [ret EXCEPT ![i] = [val |-> val, clauses |-> db[i],
                                     assumed |-> WorkerAssumptions(i)]]
    /\ WGoto(i, "report")
    /\ UNCHANGED <<mpc, interrupt, state, winner>> /\ WorkerFrame

\* The solver gives up, because it was interrupted or its budget is used up.
GiveUp(i) ==
    /\ wpc[i] = "solve"
    /\ interrupt[i] \/ Budget
    /\ ret' = [ret EXCEPT ![i] = NoAnswer]
    /\ WGoto(i, "report")
    /\ UNCHANGED <<mpc, interrupt, state, winner>> /\ WorkerFrame

\* setWinner, for an answer.
Report(i) ==
    /\ wpc[i] = "report"
    /\ winner' = [winner EXCEPT ![i] = @ \/ ret[i].val # "undef"]
    /\ WGoto(i, "finish")
    /\ UNCHANGED <<mpc, interrupt, state, ret>> /\ WorkerFrame

\* The state becomes finished, then the master is woken up.
Finish(i) ==
    /\ wpc[i] = "finish"
    /\ state' = [state EXCEPT ![i] = "finished"]
    /\ WGoto(i, "tell")
    /\ UNCHANGED <<mpc, interrupt, ret, winner>> /\ WorkerFrame

Tell(i) ==
    /\ wpc[i] = "tell"
    /\ AwakeMaster
    /\ WGoto(i, "look")
    /\ UNCHANGED <<interrupt, comm>> /\ WorkerFrame

\* The loop that waits for the next task, or the end.
Look(i) ==
    /\ wpc[i] \in {"look", "woken"}
    /\ WGoto(i, IF state[i] \in {"working", "aborted"} THEN "check" ELSE "wait")
    /\ UNCHANGED <<mpc, interrupt, comm>> /\ WorkerFrame

\* The waits that are inside a loop may return spuriously in every run.
SpuriousWait(i) ==
    /\ wpc[i] \in {"wait", "parked"}
    /\ WGoto(i, Awoken(i))
    /\ UNCHANGED <<mpc, interrupt, comm>> /\ WorkerFrame

-----------------------------------------------------------------------------
(* updateSleep: a solver that is not to work any more tells the master and  *)
(* waits.  From SetWaiting to the wait it holds ownLock.                    *)

\* The state is read without the lock.
AskState(i) ==
    /\ wpc[i] = "solve"
    /\ state[i] # "working"
    /\ IF state[i] = "aborted"
       THEN interrupt' = [interrupt EXCEPT ![i] = TRUE] /\ UNCHANGED wpc
       ELSE WGoto(i, "park") /\ UNCHANGED interrupt
    /\ UNCHANGED <<mpc, comm>> /\ WorkerFrame

SetWaiting(i) ==
    /\ wpc[i] = "park"
    /\ state' = [state EXCEPT ![i] = "waiting"]
    /\ WGoto(i, "parkTell")
    /\ UNCHANGED <<mpc, interrupt, ret, winner>> /\ WorkerFrame

ParkTell(i) ==
    /\ wpc[i] = "parkTell"
    /\ AwakeMaster
    /\ WGoto(i, "parkLook")
    /\ UNCHANGED <<interrupt, comm>> /\ WorkerFrame

\* Awake again, by a broadcast or not, with the lock.
ParkLook(i) ==
    /\ wpc[i] \in {"parkLook", "parkWoken"}
    /\ CASE state[i] = "working" -> WGoto(i, "solve")  /\ UNCHANGED interrupt
         [] state[i] = "aborted" -> /\ WGoto(i, "solve")
                                    /\ interrupt' = [interrupt EXCEPT ![i] = TRUE]
         [] OTHER                -> WGoto(i, "parked") /\ UNCHANGED interrupt
    /\ UNCHANGED <<mpc, comm>> /\ WorkerFrame

-----------------------------------------------------------------------------
(* A wait is where a cancelled thread ends. *)

\* The thread that kill() has cancelled and joins dies inside pthread_cond_wait.
Cancelled(i) ==
    /\ mpc = "join" /\ mi = i
    /\ InWait(i)
    /\ WGoto(i, "cancelled")
    /\ UNCHANGED <<mpc, interrupt, comm>> /\ WorkerFrame

-----------------------------------------------------------------------------
Solving(i)  == Decide(i) \/ GiveUp(i) \/ AskState(i)
WorkerStep(i) ==
    \/ Entry(i) \/ Check(i) \/ Report(i) \/ Finish(i) \/ Tell(i) \/ Look(i)
    \/ SetWaiting(i) \/ ParkTell(i) \/ ParkLook(i) \/ Cancelled(i)

MasterStep ==
    \/ Simplify \/ Spawn \/ Clone \/ Prepare \/ StartSet \/ StartAwake
    \/ Scan \/ InterruptOthers \/ Reset \/ Collect
    \/ AbortSet \/ AbortAwake \/ Cancel \/ Join

Client == \/ NewVar \/ Interrupt \/ Kill
          \/ \E v \in 1 .. MaxVars : AddClause(v)
          \/ \E as \in Assumptions : CallSolve(as)

\* The portfolio is gone and every thread it joined too.
Done == mpc = "done" /\ UNCHANGED vars

Next ==
    \/ Client \/ MasterStep \/ MasterSpurious \/ Done
    \/ \E i \in Worker : WorkerStep(i) \/ Solving(i) \/ SpuriousFirst(i) \/ SpuriousWait(i)

\* The scheduler is fair to every thread, and so is the lock of the master,
\* which a thread gets that waits for it again and again.  Of the solvers only two things are
\* assumed: one that is interrupted stops, and as long as one is at work one
\* answers some time; which one is open.
Fairness ==
    /\ WF_vars(MasterStep)
    /\ \A i \in Worker : WF_vars(WorkerStep(i)) /\ SF_vars(Tell(i))
    /\ \A i \in Worker : WF_vars(GiveUp(i) /\ interrupt[i])
    /\ WF_vars(\E i \in Worker : Decide(i))

Spec == Init /\ [][Next]_vars
LiveSpec == Spec /\ Fairness

-----------------------------------------------------------------------------
TypeOK ==
    /\ faults \in Faults
    /\ mpc \in {"api", "simplify", "spawn", "clone", "prepare", "start", "startAwake",
                "scan", "msleep", "interrupt", "reset", "collect",
                "abort", "abortAwake", "cancel", "join", "done"}
    /\ mi \in Worker
    /\ waitState \in {"oneFinished", "allFinished"}
    /\ round \in 0 .. MaxRounds
    /\ initialized \in BOOLEAN
    /\ created \in 1 .. Threads
    /\ given \subseteq Clause
    /\ assumed \in Assumptions
    /\ result \in Answer
    /\ wpc \in [Worker -> {"none", "entry", "wait0", "woken0", "check", "solve", "report",
                           "finish", "tell", "look", "wait", "woken", "park", "parkTell",
                           "parkLook", "parked", "parkWoken", "exit", "cancelled"}]
    /\ state \in [Worker -> State]
    /\ db \in [Worker -> SUBSET Clause]
    /\ nVars \in [Worker -> 0 .. MaxVars]
    /\ interrupt \in [Worker -> BOOLEAN]
    /\ ret \in [Worker -> Answer]
    /\ winner \in [Worker -> BOOLEAN]

\* A worker that uses its solver or is about to publish what it found.
Busy(i) == wpc[i] \in {"solve", "park", "parkTell", "parkLook", "parked", "parkWoken",
                       "report", "finish"}

\* While the master sets the solvers up for the first round (initializeThreads,
\* the copy of the formula, the loop over the assumptions), no worker uses one:
\* "all solvers should not touch anything!".  The first wait of a worker is in no
\* loop, and where it returns without a broadcast this does not hold.
QuietSetup ==
    "spurious" \notin faults /\ mpc \in {"clone", "prepare"} => \A i \in Worker : ~ Busy(i)

\* From the moment the master resets the solvers until the next start, and
\* whenever the client may call the incremental interface, no worker uses a
\* solver: not if a first wait returned too early, and not if a thread could not
\* be created.  It is not claimed of a run that meets both: the call returns
\* without a round then, and nobody waits for the worker that started too early.
QuietBetweenRounds ==
    ~ {"spurious", "create"} \subseteq faults /\ mpc \in {"reset", "collect", "api"} =>
        \A i \in Worker : ~ Busy(i)

\* The interrupts with which the master ended a round are gone before the next
\* one starts: no solver of an incremental call gives up because of an old one.
InterruptsAreOver ==
    "signal" \notin faults /\ mpc \in {"collect", "api", "prepare"} =>
        \A i \in Worker : ~ interrupt[i]

\* An answer that solveLimited returns belongs to the formula as it was when
\* the call was made: every clause a client added before, in any round, reached
\* the solver that won, and no answer of an earlier round is returned again.  (A
\* worker that starts too early may answer for a formula that is half copied.)
AnswersTheFormula ==
    [][("spurious" \notin faults /\ mpc # "api" /\ mpc' = "api" /\ result'.val # "undef") =>
          result'.clauses = given]_vars

\* If some worker has found an answer in this round, solveLimited returns one,
\* although others may have given up before.
NoAnswerLost ==
    [][("spurious" \notin faults /\ mpc = "collect" /\ mpc' = "api"
          /\ \E i \in Worker : ret[i].val # "undef") => result'.val # "undef"]_vars

\* "Search for a model that respects a given set of assumptions" (PSolver.h): a
\* model that is returned was found under the assumptions of the call.
ModelsRespectAssumptions ==
    mpc = "api" /\ result.val = "sat" => result.assumed = assumed

\* After kill() no thread of the portfolio is left, if all could be created:
\* otherwise kill() does nothing.
NoThreadLeft ==
    "create" \notin faults /\ mpc = "done" =>
        \A i \in Worker : wpc[i] \in {"none", "exit", "cancelled"}

\* pthread_cancel, which kill() calls right after the broadcasts, can end a worker
\* inside a wait.  It never cuts a task short and kill() does not depend on it: the
\* worker was waiting for its next task, has been told to stop and woken up, and
\* would have ended by itself.
CancelEndsNoTask ==
    [][\A i \in Worker : wpc[i] # "cancelled" /\ wpc'[i] = "cancelled" =>
          wpc[i] = "woken" /\ state[i] = "aborted"]_vars

\* Every call of solveLimited returns, and kill() does.  (A worker that starts too
\* early may park after the master has told it to work, and sleep for ever.)
EveryCallReturns ==
    "spurious" \notin faults /\ mpc # "api" ~> mpc \in {"api", "done"}

=============================================================================
