# TLA+ models and proofs for Riss

Riss is a CDCL SAT solver with a formula simplifier (Coprocessor) and a
portfolio that runs several solver incarnations in parallel threads. This
directory holds TLA+ modules of its core logic, TLC configurations that check
them on small instances, and theorems about them that TLAPS proves.

## 1. Inventory

| Component | State | Operations | Talks to | What is hard | Correct when |
|---|---|---|---|---|---|
| Clause sharing pool, `riss/core/Communication.h` (`ClauseRingBuffer`, `CommunicationData`, `TreeReceiver`, `Communicator`) | slots with author, kind and literals; `addHereNext`; one lock; last seen index per thread | `addClause`, `receiveClauses`, `incorporateReceiveItem` | every solver thread, `ProofMaster` | overlapping writers and readers, wrap-around, overtaken readers | what is received was sent, once, in order, never strengthened; the proof contains what is pooled |
| Solver side of sharing, `riss/core/SolverCommunication.h` | send and receive limits, received vectors | `updateSleep`, `addLearnedClause`, `resetLastSolve` | `Communicator`, search | filters on both sides, waiting while not "working" | only clauses over shared variables travel |
| Portfolio, `pfolio/PSolver.{h,cc}` | communicator states, winner and return value per worker, interrupt flags, solvers' clauses | `newVar`, `addClause_`, `solveLimited`, `initializeThreads`, `start`, `waitFor`, `kill`, `runWorkerSolver` | pthreads, sharing pool, solvers | two kinds of condition variable, spurious wake-ups, interrupts, incremental calls, failing thread creation | nobody uses a solver the master changes; the answer belongs to the formula; every call returns |
| Thread pool, `riss/utils/ThreadController.h` | per thread state, job pointer and lock; master lock | `init`, `runJobs`, `performTask`, `waitForAllFinished`, `run` | parallel simplification (BVE, subsumption, HTE) | hand-over of jobs through unlocked state | every job runs exactly once before `runJobs` returns; the pool stops |
| CDCL core, `riss/core/Solver.{h,cc}`, `SolverTypes.h` | trail, levels, reasons, watch lists, clause arenas, heap | `addClause_`, `uncheckedEnqueue`, `propagate`, `analyze`, `cancelUntil`, `search`, `reduceDB`, `simplify`, `analyzeFinal`, `solve_` | everything | long sequences of legal steps: learn, backjump, restart, delete, assume | learned clauses are consequences, models satisfy the formula, conflicts over assumptions are right |
| Model enumeration, `riss/core/EnumerateMaster.{h,cc}`, `EnumerationClient` in `Solver.cc` | blocked models, per client counters | `addModel`, `receiveModelBlockingClauses`, … | portfolio, Coprocessor | several clients add models concurrently | no model twice, none lost |
| Interfaces, `ipasir.cc`, `librissc.cc`, `pfolio/libprissc.cc`, `BMCwrapper.h` | assumption vectors, last result | add, assume, solve, val, failed | solver | call sequences | state machine of the interface |
| Variable compression, `Dense.cc`, `riss/utils/Compression.{h,cc}` | forward and backward tables, values of removed variables | `compress`, `update`, `newVar`, `importLit`, `exportLit`, `decompress` | shared data, extension stack, interfaces | who speaks in which numbers | numbers are translated where the stack and the client are met |
| Proof output, `proofcheck/` | counted clause table, local logs; online checker | add, delete, RUP check | solver threads | order of additions and deletions across threads | every added clause is checkable when added |
| Shared data of the simplifier, `coprocessor/CoprocessorTypes.h`, `Coprocessor.cc`, `techniques/Propagation.cc` | clauses with flags, occurrence lists, trail, extension stack, equivalences, frozen variables | `addClause`, `enqueue`, `addToExtension`, `extendModel`, `nextFreshVariable`, the pipeline | solver, every technique | techniques undo what others rely on; the stack mixes entries of all of them | nothing the client may still ask about is excluded, and a model of what is left becomes a model of what was given |
| Elimination of variables and clauses: `BVE.cc`, `BVEParallel.cc`, `BCE.cc`, `ClauseElimination.cc`, `HiddenTautologyElimination.cc`, `RATE.cc`, `simp/SimpSolver.cc` | heaps of variables, marks, locks of variables | eliminate, remove blocked, covered, tautological and resolution-asymmetric clauses | shared data, thread pool | what is only preserved up to satisfiability; locks that are taken after looking | the stack repairs every model |
| Subsumption and strengthening, `Subsumption.cc` | queues of clauses, notes for the master | one worker function for each, alone and in parallel | shared data, thread pool | copies, learnt clauses that become core clauses, locks of first variables | no core constraint gets lost, none is invented |
| Equivalent literals: `EquivalenceElimination.cc`, `Circuit.cc`, `Unhiding.cc`, `Probing.cc`, `HBR.cc` | graph of binary clauses, components, gates, stamps | find classes, replace, fail literals, vivify | shared data | recursion with a limit, gates of several kinds, frozen variables | replaced literals are equivalent and come back in models |
| Adding: `BVA.cc`, `Rewriter.cc`, `LiteralAddition.cc`, `Resolving.cc` | pattern tables, new variables | replace shared parts, rewrite at-most-one constraints, add literals and resolvents | shared data | learnt and core clauses in one pattern, duplicates | new variables are defined, core clauses rest on core clauses |
| Reasoning: `Xor.cc`, `FourierMotzkin.cc`, `Entailed.cc`, `ModPrep.cc`, `Symmetry.cc` | constraints found in the clauses | find, eliminate, add what follows | shared data | incomplete detection, learnt sources | what is added follows, what is removed does too |
| Learnt clauses between searches, `riss/core/Solver.cc` | learnt clauses, trail at level 0 | vivification (LCM), strengthening, UHLE, OTFSS, probing, look-ahead, extended resolution | search, sharing | a shortened clause is used by the next step | learnt clauses follow, new variables are definitions |
| Containers, `riss/mtl/` | heaps, vectors, arena allocators | | everything | in-place algorithms | heap order, relocation keeps references |
| Local search, experimental technique, shuffling, MaxSAT wrapper, graphs and communities, DIMACS reader, options, configuration | | | | pure functions or input and output | |
| Test instances, scripts, tuning files, the C model checker in `tools/` | | | | | not modelled |

The portfolio creates one solver per thread. Solver 0 parses and simplifies
the formula; the others are copies. During search each solver writes short
learned clauses to the ring buffer and reads those of the others when it is at
level 0. The master sleeps until the first worker reports an answer, interrupts
the rest and returns the answer. Coprocessor runs inside one solver (or once
for all of them) between search phases, and hands parts of its work to the
threads of a `ThreadController`.

## 2. Modules

| Module | Models | Main actions and the code they stand for |
|---|---|---|
| `Clauses` | literals, clauses, assignments and entailment: what answers are measured against | |
| `IncrementalSat` | the promise of an incremental solver (abstract) | `Add`, `Ask`, `AnswerSat`, `AnswerUnsat`, `GiveUp` |
| `Cdcl` | `Solver`: adding clauses and searching | `AddClause`; `Call`, `AlreadyUnsat`, `StartSearch` (`solve_`, `initSolve`); `Propagate`, `AddingFails`, `PropagationEnds`; `ConflictOnLevel0`, `StartAnalysis`, `Resolve`, `Learn` (`search`, `analyze`, `litRedundant`, `minimisationWithBinaryResolution`, `handleLearntClause`); `Restart`, `SearchStops`, `Tidy` (`simplify`, `reduceDB`); `DummyLevel`, `DecideAssumption`, `AssumptionFails`, `Decide`, `ModelFound` (`performSearchDecision`); `StopEarly`, `ExplainLatest`, `AssumptionsRefuted` (`analyzeFinal`, `refineFinalConflict`) |
| `Cdcl_proofs` | lemmas about the trail; the inductive invariant and the steps that keep it; theorems about what is implied, what is answered (with the refinement to `IncrementalSat`) and what is learned | |
| `Watches` | `propagate` with watched literals, in the search of `Cdcl` | `NextLiteral`, `ListEnds`, `Binary`, `Blocked`, `Long`, `Ends` (`propagate`); `Adds`, `Starts`, `Fails`, `Analyzes`, `Learns`, `Removes`, `GoesBack`, `GoesOn`: an action of `Cdcl` with what it does to the watch lists |
| `Watches_proofs` | theorems about it: the refinement to `Cdcl` | |
| `ClauseRingBuffer` | the pool of shared clauses | `AddLock`, `AddFill`, `AddUnlock` (`addClause`); `ReceiveLock`, `ReceiveItem`, `ReceiveUnlock` (`receiveClauses`) |
| `ClauseRingBuffer_proofs` | theorems about it | |
| `Portfolio` | `PSolver` and its workers | `NewVar`, `AddClause`, `CallSolve` (client); `Simplify`, `Spawn`, `Clone`, `Prepare`, `StartSet`/`StartAwake`, `Scan`, `InterruptOthers`, `Reset`, `Collect` (`solveLimited`); `AbortSet`/`AbortAwake`, `Cancel`, `Join` (`kill`), `Cancelled` (where a thread ends by that); `Entry` … `Look` (`runWorkerSolver`); `AskState`, `SetWaiting`, `ParkTell`, `ParkLook` (`updateSleep`) |
| `Portfolio_proofs` | theorems about it | |
| `JobRounds` | what a pool of threads promises to its caller (abstract) | a call, a job that is done, a return |
| `ThreadController` | the pool of the simplifier | the master in `init`, `runJobs`, `waitForAllFinished` and the destructor; each thread in `ThreadData::run` |
| `ThreadController_proofs` | theorems about it | |
| `Propagation`, `CoprocessorData` | the formula that all techniques share | `UnitsFrom`, `Reduced` (propagation); `Become` (clauses change, units are put on the trail and propagated), `Push`, `Extended` (extension stack) |
| `Subsumption` | subsumption by one thread | `Subsumption`, `Strengthening` |
| `ParallelSubsumption` | subsumption and strengthening by several threads | `TakeSubsumer`, `Visits`, `Removes`, `Delete`, `Inherit`, `WriteFlags` (`par_subsumption_worker`); `LockFirst`, `LockOther`, `Strengthens` (`par_strengthening_worker`); `SetFlags` and the end of each job (the master) |
| `ParallelSubsumption_proofs` | theorems about it | |
| `VariableElimination` | `BVE.cc` | `Eliminate`, `RemoveBlocked`, `UnitResolvent` |
| `ParallelElimination` | `BVEParallel.cc` | `ParLook`, `ParLockAgain`, `ParAnticipate`, `ParResolve`, `ParRemove`, `ParStrengthen`, `ParPropagate`: the places between which a thread holds or drops its locks |
| `SimpSolver` | the simplifier of MiniSat | `BackwardSubsumed`, `Asymmetric`, `EliminateVar` |
| `ClauseElimination` | `BCE.cc`, `ClauseElimination.cc`, `HiddenTautologyElimination.cc` | `BlockedClause`, `MinimizeBlocked`, `ShrinkCovered`, `ExtendCovered`, `CoveredClause`, `Transitive`, `HiddenTautology`, `HiddenLiteral` |
| `Equivalences`, `Gates` | `EquivalenceElimination.cc`, `Circuit.cc` | `EquivalentByBinaries`, `CutOff`, `EquivalentByGates`, `UnitByGates`, `ContradictoryGate`, `AddBlockedGate`; the other kinds of gates in `Gates` |
| `Probing` | `Probing.cc` | `UnitsOfConflict`, `Necessary`, `EquivalentByProbing`, `DoubleLook`, `HyperBinary`, `Vivify` |
| `Unhiding` | `Unhiding.cc`, `HBR.cc` | `FailedStamp`, `TransitiveEdge`, `StampClass`, `RemoveTautology`, `RemoveHiddenLiteral`, … |
| `VariableAddition` | `BVA.cc` | `AndAddition`, `SubstituteOr`, `HandleComplement`, `HalfXor`, `FullXor`, `HalfIte`, `FullIte` |
| `Rewriting` | `Rewriter.cc` | `RewriteAMO` |
| `ClauseAddition` | `LiteralAddition.cc`, `Resolving.cc` | `AddAsymmetric`, `AddCovered`, `TernaryResolve`, `AddRedundantBinary` |
| `AsymmetricTautologies` | `RATE.cc` | `EliminateRAT`, `MinimizeRAT`, `ShortenAT`, `Substitute` |
| `XorReasoning` | `Xor.cc` | `XorUnit`, `XorEquivalence`, `XorClauses` over the sums of constraints that are `Found` |
| `CardinalityReasoning` | `FourierMotzkin.cc` | `UnitConstraint`, `Contradiction`, `AddAmo`, `AddAlo`, `UnitsOfAmos`, `DeduceAlo` over `NewConstraints` |
| `ImpliedClauses` | `Entailed.cc`, `ModPrep.cc`, `Symmetry.cc` | `Entailed`, `Communities`, `SymmetricPair` |
| `LearntClauses` | what `Solver.cc` does to learnt clauses between the searches | `MinimizeLearnt` (LCM), `InterleavedStrengthening`, `LearntHidden` (UHLE), `OnTheFly` (OTFSS), `Forget`, `AnalyzeLearnt`, `ProbeVariable`, `LookAhead`, `ExtendedResolution` |
| `Compaction` | `Dense.cc`, `Compression.h` | `Compress`, `NamesFollow`, `Decompressed` |
| `Coprocessor` | all of them together, and what they promise | `Next`: any step of any technique |
| `Coprocessor_proofs` | that the extension stack gives a model of the given formula | |
| `CoprocessorLossless_proofs` | that nothing is excluded, and the types | |

`MC…` modules give the constants small values. Two chains of refinement are
checked: `Watches` implements `Cdcl`, which implements `IncrementalSat`;
`ThreadController` implements `JobRounds`. All three refinements are also proved.

### Cdcl

A clause is a set of literals and the formula a set of clauses, core learnt
clauses included; `learnts` holds those that may be removed. `trail`,
`trail_lim`, `level` and `reason` are the fields of the code; `seen` is the set
`work`, walked from its latest literal down as `analyze` walks the trail.
The place in the code is `pc`: `propagate` → `quiet` (nothing left to
propagate) → `decide` → …, or `analyze`, or `final` (`analyzeFinal`).

What a heuristic decides is any choice: which clause propagates first, which
literal is decided, when and how far to restart, which clauses are removed, and
whether a learnt clause becomes a core clause. The control around the choice is
that of the code. A binary clause is never locked, because the reason of what it
implies is its other literal and not the clause. With `opt_refineConflict` the
second search ends with whatever conflict it finds, and its result is not used.

`weak` holds the bi-asserting clauses. Two of their literals have the level of
the conflict, but only one of them is among the first two literals, next to one of
the level that `analyze` jumps back to, so that watching them may miss a unit. `Cdcl` takes
that into account by asking for all units of the other clauses only, and
`Watches` shows that this is exactly what is missed.

Simplifications: literals that wait for level 0 (`hpushUnit`, off by default),
saved searches, OTFSS, all-UIP and decision clauses, UHLE and reverse
minimization, extended resolution, LCM, interleaved strengthening, look-ahead,
probing, DPLL mode, sharing during the search, and pre- and inprocessing are not
in the module. `abstractLevel` is an exact set of levels: the hash of the code
only lets `litRedundant` give up later, never with another result. A learnt clause
that becomes a core clause leaves `learnts` at once, while the code keeps it in both
lists until `reduceDB` or `simplify` (`Solver.cc:1147`). If `initSolve` runs before
that it may remove the clause (4169), core clause or not; in the module that is a
behaviour in which the clause has not become a core clause.

### Watches

Each clause keeps its first two literals in order (`head`); the others are a
set, and the literal that replaces a watch is any that is not false. The scan of
one watch list is cut into one action per clause. Each action of `Cdcl` that
changes clauses or the trail is joined with what happens to `head` and `qhead`.
The property `FindsAll` is the specification of `Cdcl`: the guard of
`PropagationEnds` there says that nothing is left to propagate, while `Ends`
here only says that `qhead` has reached the end of the trail. So the property
shows that the watch lists lose nothing, through backjumps, restarts, removed
clauses and clauses with literals left in the queue after a binary conflict
(the comment at `Solver.cc:1819` says there are none).

### ThreadController

The master writes a thread's state without the lock of the thread and signals
it; a thread reads its state under its lock, waits, runs its job, reports and
takes the master's lock to wake the master. The wait of the master and of the
threads is a place of its own, as in `Portfolio`. The job pointer is the number
of the call it belongs to, so that an old or a missed job shows. `submitJob` and
`waitForOneFinished` have no caller and are left out.

### ClauseRingBuffer

A slot is a record of author, kind and set of literals; a thread is inside
`addClause`, inside `receiveClauses`, or idle. The critical sections are cut
into several actions so that the lock is what keeps them apart. `Receivable[t]`
stands for the template parameter `receiveData.canBeReceived` of the code. The
solver's own instance of it (`VariableInformation`, `Solver.h:1630`) returns
flags that nothing ever sets; the buffer is modelled for every answer.
History variables: `stamp` (which element a slot holds), `sent` (all elements
in order), `got` (what each thread took), `seen`.

The counted proof is a function from clauses to the number of times they are
present; `proof` may go below zero exactly when something is deleted that was
not added.

### Portfolio

Each worker has a program counter. A wait in `pthread_cond_wait` is a place of
its own (`wait0`, `wait`, `parked`), and so is the end of such a wait (`woken0`, `woken`,
`parkWoken`): after a broadcast or a spurious return the worker is still inside
`pthread_cond_wait` until the mutex is its own again, and can be cancelled there.
`kill` cancels and joins the threads one after the other (`Cancel`, `Join`), right after
the broadcasts; a worker that it finds inside a wait may die there (`Cancelled`) or
go on and end by itself. What may go wrong in a behaviour is chosen at its
start (`faults`): a signal handler that interrupts, a first wait that returns
spuriously, a thread that cannot be created. A section of a worker's lock that holds one
read or write is one action. The loop of `waitFor` reads one state per action,
so that workers report between two reads. A solver is reduced to the set of
clauses and the number of variables it has, and its answer to what it was
computed from, so that an answer for an old or half copied formula shows.
`Simplify` of the whole formula either refutes it or goes on, as in the code,
which also goes on when the simplifier has found a model.

### The simplifier

`Coprocessor` puts all techniques on one formula. A clause is a set of literals
and either a core clause or a learnt one; the trail at level 0 is the set
`units`; the extension stack is a sequence of a literal and a clause. What a
technique does to the formula in one piece is one action: it changes the
clauses, puts units on the trail and pushes on the stack. Afterwards the clauses
are propagated (`Become`), because each technique begins with or ends in
`Propagation::process`. Most of the code of a technique is about *what to
try first* and *when to stop*: heaps, queues, occurrence counts, limits of
steps, bounds on growth. All of that is left open: any step that the code's
conditions allow may be taken and any other one may follow. So the pipeline of
`Coprocessor.cc`, in which options choose techniques and their order, is a
disjunction.

Conditions that decide what is *correct* are kept exactly: which clauses of a
pattern may be learnt, what may be frozen, in which order the clauses of an
elimination go to the stack and with which literal first, which of two equivalent
literals remains, what a technique compares with its own result. Where such a
condition of the code is wider or narrower than the idea behind it, the module
follows the code: `Fuses` and `Comparable` in `LearntClauses`, `IsFailed` in
`CardinalityReasoning`, `CutOff` in `Equivalences`, `EndsLoop` in `Gates`.

`Equivalences` takes frozen variables out of a class before it is applied
(`ee_freeze_eager`, the default); without that option they stay, and clauses are added for
their equivalences (`EquivalenceElimination.cc:2072`), which is not modelled.

Reachability stands for stamps and for Tarjan's components, except for the limit
of the recursion, which is `CutOff` with `MaxDepth`. Sets stand for the marks,
arrays and Bloom sums by which the code compares clauses.

`ParallelElimination` keeps the places of a thread of `BVEParallel.cc`: it looks
at a variable and its neighbours without their locks, takes the locks, checks
whether what it saw is still valid, finds gate, units and blocked clauses, adds
the resolvents, removes the clauses, and drops the locks. Units are
propagated by any thread under the lock of one variable (`pending` is the part
of the trail for which that has not happened). The locks are taken in one step,
in ascending order in the code, so no cycle of waiting threads arises among
them; strengthening with the resolvents, which the code does after the locks are
dropped and then under one lock per clause, may use any clause. The unit that
line 883 enqueues is the wrong literal, as section 4 says, and the code is reached
only for resolvents of one literal, which `ParAnticipate` has handled by then.

`ParallelSubsumption` has clauses as references, because copies of a clause
matter there: the flags of a clause are read and written by several threads,
deferred for the master or at once. A thread takes one clause at a time in any
order, which includes every division of the queue. The lock of strengthening is
that of the smallest variable of both clauses. `set_subsume` at the end of a visit
(`Subsumption.cc:425`) changes one flag without the lock that is in the same word, a data
race; a problem says what the compiler makes of it (`word`): a store of the whole
word as it was read before (`EndVisits`, `WriteFlags`), or one of the byte with that flag only, in
which neither the lock nor the deleted flag is (bits 30, 1 and 0). g++ for x86-64
makes the second of it, at every level of optimization. `Check` strengthens in one step,
which includes the flag and the queue entry that the code writes after the first
literal, by which others lock the clause.

`LearntClauses` takes the operations of the search that change learnt clauses
outside of `analyze`, at level 0: they share the formula and the trail with the
simplifier, and inprocessing mixes both.

`Compaction` renumbers. The solver's variables are `Vars \ fresh` before and
after; `forward` and `mapping` are the tables of `Compression`, with 0 for a
removed variable, and `kept` its stored values. The client and the extension
stack speak the numbers of the given formula, so `Push` exports its literals and
a frozen variable is one whose exported name is frozen. New variables of other
techniques extend both tables (`NamesFollow`). One compression is modelled.

## 3. Runs, bounds, fairness

The number and kinds of the steps are finite once the bounds (constants
`Max…`) are fixed. Each run asks its own question:

* `ring_laps`: three slots and four additions are more than a lap for two
  threads, so every relation of reader and writer (behind, level, overtaken)
  occurs, with clauses, units and equivalences, and with receivers that take
  different literals. Deliveries, their order and the counted proof are checked.
* `portfolio_rounds`: two threads, two calls of `solveLimited`, a clause that
  comes before or between the calls. A third call would find the workers in the
  states in which the second finds them. Fairness: weak for each thread
  (the scheduler runs it), strong for the mutex of the master (`Tell`: who asks
  for a mutex again and again gets it), an interrupted solver stops (the search
  loop tests the flag), some solver answers. A behaviour has one kind of fault
  (`OneFault`), as often as it likes: signals, first waits that return
  spuriously, or threads that cannot be created. Each property names the faults
  with which it is not claimed, and holds with the others. TLC finds each of these
  behaviours once the condition is taken away; section 4 says what happens in them.
* `portfolio_assume` is a violation, see below.
* `threads_rounds`: three threads, two calls of `runJobs`, then the destructor.
  Three threads are the fewest for which one may report while a second waits and
  a third works. Fairness as above: each thread runs, mutexes are fair.
* `cdcl_learn`: one formula with five variables, three of them decision
  variables and two defined by gates, satisfiable in one way before and in none
  after the last clause. It is small, and rich enough for conflicts over three
  levels: a learned clause with a literal that only the recursive minimization
  removes, a jump over a level in between, a bi-asserting clause, a learnt
  clause that is a reason when clauses are removed. `WF_vars(Search)` says that
  the thread that called the solver runs on. Termination is claimed only with
  the restarts, the removals and the bi-asserting clauses of a call bounded: the
  code spaces restarts and removals further and further apart; bi-asserting
  clauses are limited by `biAsFreq`. Without that limit the same
  bi-asserting clause can be learned again and again.
* `cdcl_assume`: two calls with two or three assumptions over four variables,
  with clauses added before, between and after, one of which makes the
  assumptions and later the formula contradictory. Early conflicts
  (`opt_earlyAssumptionConflict`), prefetched assumptions and refined conflicts
  occur, the last with a conflict of three literals that becomes shorter.
* `parallel_subsumption`: two threads and seven problems: three copies of a clause
  with a learnt clause that subsumes them, with removals deferred or at once;
  a clause that two others remove at once while its own visit ends; both, where
  removals are at once, with flags that are stored one by one and as a whole word;
  a chain in which clauses lose the variable whose lock others wait for; four
  clauses that end in contradicting units. Four clauses are the fewest for which
  one of the copies inherits what another one was to remove. Weak fairness of
  the master, strong fairness of each thread, because of the spin locks. `JobsEnd` is
  not claimed of removals at once with whole words: see section 4. `subsumption_stops` is the
  same with an interrupt, and a violation, see below.
* `simplify`: about 80 formulas of three to six variables. Each was
  made for its technique, so that every action of every module is taken, mostly
  with a learnt clause and a frozen variable, and with another technique before
  or after. A start gives the number of steps (one to three); the seven variables
  leave room for those that a technique adds. `MaxDepth = 3` stands for 32000
  in Tarjan's algorithm, `Width = 3` and `EliminatedLiterals = 2` bound the
  constraints of Fourier-Motzkin, two threads eliminate two variables. In
  `InterleavedStrengthening` what is learnt has two literals at most,
  and `LookAhead` takes two decisions. The properties are about *all* models of
  what is left, so a run of two steps that leaves an unsound clause is found
  without the search that would use it. Longer runs add nothing but
  combinations: each property is about the state, and each step may start from
  any state the two before it leave. The solver may stop here, hence
  no check for deadlock; there is no fairness.
* `watches_search`: one call with and without assumptions, bi-asserting clauses,
  a removal and a binary conflict that does not stop propagation. `watches_refine`
  makes two calls with refined conflicts, and is a violation.

The runs of `Cdcl` and `Watches` do not check for deadlock, because a client may
stop asking; that no call is stuck is `EveryCallReturns`. In the others the end
of all calls is a step of its own.

## 4. Findings

* `portfolio_assume`: the assumptions of a call do not reach the workers
  (`PSolver.cc:483` is commented out), whose models may violate them.
* `subsumption_stops`: `par_subsumption_worker` notes which clauses become core
  clauses and which are deleted, and relies on later visits to complete that
  (comment at `Subsumption.cc:331`). An interrupt or the limit of steps ends the
  loop before them (350, 359), and a core clause is lost.
* `watches_refine`: when assumptions are refuted, `refineFinalConflict` starts a
  second search and drops its result (`Solver.cc:4508`). That search may find a
  conflict on level 0. The conflict over the assumptions is not empty, so
  `solve_` does not set `ok` to false (4474), and `propagate` has moved `qhead`
  behind the literals of the falsified clause, which no later call visits. The
  next call finds a "model". The compiled solver does the same with its default
  options: for the formula of the run, which is contradictory, a call with the
  assumptions 1, 2, 3 returns UNSAT and the next, without assumptions, SAT.

### Observations without a run

The following is what reading and modelling showed. The formulas of the runs
stay clear of it, because a property cannot hold there.

* A core clause depends on a learnt one. `blockedSubstitution` (`RATE.cc:1256`,
  `1346`), `eliminateRAT` (148), `bvaHandleComplement` (`BVA.cc:1839`),
  `Resolving::hasDuplicate` (290) and `Rewriter::hasDuplicate` (1149) remove or
  shorten core clauses because of learnt ones, which the search may forget
  later. `ModelsExtend` does not hold for
  `Start(2, {"bcs","ratm"}, {{1,2,3},{-1,2},{-2,3,4},{-1,-3,4},{1,2,-4},{-2,-4,1}}, {{2,3,4}}, {4})`.
* `BCE.cc:399` counts a clause as blocked without the learnt clauses, which is fine
  for the model but not for these: with
  `Start(2, {"cce","bcm"}, {{1,2,3},{-1,-3,4},{-4,-3}}, {{-1,-3}}, {3})`
  `NothingLost` fails after a clause has been shortened on a blocked literal.
* The recursion of Tarjan's algorithm ends at a depth of 32000, and the literal
  at which it ends joins the component that is closed next
  (`EquivalenceElimination.cc:1868`). With `MaxDepth = 3`:
  `Start(1, {"ee"}, {{-1,2},{-2,3},{-3,1},{1,2,4},{-3,-4,2}}, {{-3,-1}}, {})`.
* Gates that are off by default: exactly-one gates (`Circuit.cc:297`) take a
  clause as a gate although one of its pairs is missing; the loop over
  if-then-else gates (642, 647) stops too early and accepts a wrong one;
  `processXORgate` and `processFASUMgate` (`EquivalenceElimination.cc:1473`,
  `1621`) keep a polarity that was changed for the gate before.
* `circ_AddBlocked` (off by default) adds the clause of a gate that is blocked without
  looking whether the output of the gate is frozen (`Circuit.cc:181`). `NothingLost` fails for
  `Start(1, {"gates","blocked gates"}, {{-3,1},{-3,2},{1,2,4},{-4,3}}, {}, {1,2,3})`.
* `SimpSolver::eliminateVar` skips clauses that are implied (`SimpSolver.cc:176`,
  `574`) by those that are about to go: eliminating 1 from
  `{{1,2},{-1,2},{-2,3,4},{1,-3,-4}}` loses the unit 2.
* `BVEParallel.cc:883` enqueues the member `resolvent[0]` instead of `ps[0]`.
* Restricted extended resolution: the sum of the second clause (`Solver.cc:4916`)
  contains its asserting literal, that of the first (4797) does not, so that they meet
  for one literal only; for if-then-else the scan tests complements (5165) and never
  succeeds; `erRewrite` skips every clause it could rewrite (957).
* OTFSS (off by default) removes the literal it noted for a learnt clause after
  LCM may have shortened that clause (2988, 3063); the module does both in one step.
* The rewriter and some patterns of BVA do not look at frozen variables, and
  the rewriter reuses clauses for new ones (`Rewriter.cc:806`); `rewriteImpl`, which is
  off, compares the wrong literals and is not modelled.
* A second compression translates current numbers with the table of the given
  formula (`Dense.cc`, `compressClauses` and the loop of `moveVar`), and
  `Compression::newVar` does not extend the values that `update` and
  `value` read. `decompress` adds variables to the solver which the tables do not
  know.
* A copy of a learnt clause can take away its inheritance (`Subsumption.cc:387` and
  407): of two learnt copies the one in the queue inherits the place of a core clause, and is
  then removed for the other one, which has the smaller reference; if that one
  is not in the queue, it stays learnt and the core clause is gone. It takes a copy
  that went through the queue before and did not subsume the core clause then, which
  the threads of one round do not leave behind (section 5).
* `set_subsume` (`Subsumption.cc:425`) writes a bit-field of a clause unlocked
  (modelled in `ParallelSubsumption`); the comment at 471 says it does not matter. Where a
  compiler stores the whole word, it may undo a deletion, which only restores a clause.
  It may also set the lock again that the thread which deleted the clause has
  given back: with `par_subs_counts=0` (`Subsumption.cc:394`, 412; three presets of
  `riss/utils/Config.h` have it, the default is 1) the next thread that removes the clause
  spins in `spinlock` for ever (`SolverTypes.h:488`). TLC finds that for the clauses
  `{1,2,3}`, `{1,2}`, `{1,3}` when `JobsEnd` is asked without its condition.
* A variable that is added after the first call reaches solver 0 only
  (`PSolver.cc:220`; `PSolver.h:194` speaks of all solvers), a clause over it all
  of them. `NewVar` is modelled like that.
* The first lap around the ring deletes an empty clause from the proof for every
  unused slot (`Communication.h:186`; the comment at 185 wants the opposite).

`Portfolio` also says what its faults do:

* A first wait that returns spuriously starts a solver before the master has told it to,
  while the formula is copied: `QuietSetup` and `AnswersTheFormula` do not hold then.
  If it has marked itself as a winner before the master takes all marks back
  (`PSolver.cc:485`), its answer is overlooked (`NoAnswerLost`). The solver may find in `updateSleep` that it is not to work. It decides that
  from a state it reads without the lock, and then writes `waiting` over the `working`
  that the master has set in between (`SolverCommunication.h:126`, 141): it
  sleeps, and nobody wakes it (`EveryCallReturns`).
* A thread that cannot be created: the call returns without a round, and `kill` does
  nothing because not all threads are there (`NoThreadLeft`), although the destructor
  deletes the solvers they wait to use.
* Both in one behaviour: thread 0 may be solving when the client may call again
  (`QuietBetweenRounds`). With either of them alone no solver is at work then.
* `pthread_cancel` follows the broadcast at once (`PSolver.cc:1234`). A worker that it
  ends inside its wait was waiting for its next task and had been told to stop
  (`CancelEndsNoTask`), so no task is lost; but it dies with the mutex of its wait,
  which is then destroyed while it is locked (`Communication.h:648`).

## 5. Proofs

### The search

The theorems hold for every finite set of variables, every formula, input
and question, and every value of the options (`CcMinModes`, `MayStopEarly`,
`MayPrefetch`, `MayRefine`, the bounds). `Cdcl_proofs` has

* `TypeCorrect`;
* `Sound`: nothing is claimed that does not follow from the clauses that were
  added (`Implied`): no shortened, learned or minimized clause, no literal of
  level 0, no clause under analysis, not that the clauses are contradictory;
* `Reasons`: `simplify`, `reduceDB` and `initSolve` remove no clause that the
  analysis still needs as a reason;

then, from what a step does to the trail,

* `NothingIsLost`: what is kept (without the learnt clauses) and level 0 imply
  all that was added;
* `AssumptionsComeFirst`: up to the number of assumptions, what stands on a level
  without a reason is the assumption of that level;
* `PromiseIsKept`: `Cdcl` implements `IncrementalSat`, the refinement that
  `cdcl_assume` checks, if every variable may be decided (`DecisionVars = Vars`;
  otherwise the answer "sat" comes with a partial assignment, and that it can be
  completed is up to who restricted the decisions);

and

* `LearnsNew`: a learned clause leaves one literal open at the level that the
  solver jumps to, or two if it is bi-asserting, and with one it contains
  no clause of the database, those apart that were bi-asserting when they were learned.

`Implied` is not inductive: that a resolvent follows needs the reasons, and
that a literal can be resolved at all needs the order of the trail. `IndInv` adds

* `AssignmentInv`, about the trail alone: each variable is on it once; the
  levels begin one after the other, and the level of a literal is the one it
  stands on; only the first literal of a level has no reason; a reason contains
  its literal, and the others were falsified before;
* `NothingMissed`: a falsified clause has a literal of the current level, so
  that the analysis has one to start from and going back leaves no clause
  falsified;
* `NoUnits`, `ReasonsKept`: clauses have two literals at least (a unit would be
  a reason that is never locked), and reasons are in the database;
* `WorkInv`: what is analyzed is false above level 0, a part of it on the
  current level; `Home` and `RefiningInv`: what is known at each place.

While two literals of the current level are left, the latest has a reason,
because the decision is the earliest of its level (`NotAtUip`). Minimization is sound
(`RedundantFalls`) although the removed literals are explained by each other:
of those that hold in a model of the clauses the one falsified first would need
a reason with another one falsified before it (`ImpliedFalls`, by the least
element of a set of numbers). There are lemmas of their own about
cutting the trail (`GoBackInv`), putting a literal on it (`PutInv`) and
opening a level (`DecisionInv`), which speak of no clause; each action then has
a lemma of its own.

These theorems rest on `IndInv` and on `Moves`: a step
keeps the literals below the level it leads to in their places, and what is new
stands on the last level with a reason, as a decision, or on level 0.
`AnswerInv` is what the refinement needs besides: that
the search runs only while the clauses are not known to be contradictory, that
the assumption of each level that is open holds (`AssumptionsHold`), and that
the conflict under construction consists of negated assumptions (`ConflictInv`). A step that
returns is an answer of `IncrementalSat`, a clause or a question is `Add` or
`Ask`, everything else stutters. For `LearnsNew` the invariant is `QuietBelow`: on every
level below the current one no clause implies a literal that is not assigned there, because
a level is left for the next only after propagation has ended (`QuietHere`), and a
clause learned later has a second literal on the level the solver
jumps to. So a clause that is part of the learned one would have implied its open
literal on a level below the conflict.

The assumptions are that the variables are positive numbers
and finitely many, that what comes in are clauses over them, and that no clause
of the initial formula is a unit or a tautology.

### The watch lists

`Watches_proofs` proves, for every formula, question, input and option but one,
that propagation with watched literals is the propagation of `Cdcl`:

* `WatchesFindAll`: every step of `Watches` is a step of `Cdcl` or stutters, so
  that all that is proved about `Cdcl` holds for it (`FindsAll`);
* `ReasonsAreFirst`: a clause that is the reason of a literal has it in front;
* `ConflictsAreNew`: the clause that `propagate` returns is falsified, by a literal
  of the current level.

They assume `~ MayRefine`: with `opt_refineConflict` and a second call the
statement is false, as `watches_refine` shows. (`watches_search` makes one call,
and there it holds with refinement.)

The only step that is not obviously one of `Cdcl` is `Ends`, where `Cdcl` asks
that nothing is left to propagate. For this `SeenInv` says of each clause, per
watched literal, what `propagate` has seen: `Fine(C, w)` holds if, when `w` is
false and its list has been walked (`Visited`), the clause has a true literal,
on a level not above that of `w`. The level is what makes it survive a jump back:
the true literal goes only if the false one goes (`FineStays`). Of a bi-asserting
clause one watched literal is fine, of any other both (`Seen`); in a falsified clause
neither can be, and in a clause with one open literal not both. `Covered` says
which levels this is claimed for: when a conflict was found, `propagate` leaves
the rest of the current level, which is all right because the next step jumps
below it, or ends the search for good. `QueueInv` says that what waits in the
queue is of the current level, so that a jump leaves no literal unvisited;
`ScanInv` where `propagate` is in its lists; `HeadInv` that each clause of the
database has two watched literals.

`Carried` is the condition under which what was seen of a literal stays
seen: whatever is claimed of it after the step was claimed before. Each kind of step
has one lemma for it (`StayCarried`, `BackCarried`, `ConflictCarried`,
`PassCarried`), and then only the clauses that the step writes are left: the one
visited, which is fine again because a watch moved to an open or true literal, or is
the reason of the other (`LongWatch`); the one learned, whose second literal is on
the level jumped to (`LearnsWatch`); the one added, which is sorted (`SortedFacts`,
`AddsWatch`). `IndInv` of `Cdcl` is available in each step because the step is one
of `Cdcl`.

### The pool of clauses

`ClauseRingBuffer_proofs` proves for every pool of at least two slots, every
set of threads, literals and elements, and every number of additions:

* `TypeCorrect`: the type invariant, in particular that all indices stay inside
  the pool;
* `Delivery`: what a thread takes is the element that was sent under that
  number, with its author, kind and literals;
* `OnceInOrder`: the numbers a thread takes increase and none is its own;
* `NothingStronger`: a clause is taken whole, of a set of units the units, and a
  class of equivalent literals loses members only;
* `WholeLapsOnly`: a reader that is overtaken misses whole laps, the oldest
  elements first, and nothing as long as fewer elements came than there are slots;
* `ProofHasThePool`: of each clause in the pool the counted proof has at least as
  many copies as the pool, if `KindsApart`: a clause does not have the literals of
  a set of units or of a class. The code sees to that by having two buffers:
  only the one for clauses is given the proof (`Communication.h:405`), and
  `Communicator::addClause` (783) sends sets of units and classes to the other.
  In one buffer `addClause` would take a clause out of the proof for each of them.

The properties are not inductive. `IndInv` adds
mutual exclusion (who holds the lock is the only one away from `idle`), the
order of the stamps along the ring (`SlotOrder`: going back from `addHereNext`
the slots hold the last elements sent), the content of every slot that is not
being written (`SlotContent`) and, for a reader, that its cursor stands between
what it saw last and what was added (`Readers`). Each action has one step in
the proof and each conjunct it disturbs one below it. The arithmetic of the
ring is stated once as lemmas about `Succ` and `Pred`.
For `ProofHasThePool` the invariant is that each slot that is not being written
has its copy in the proof (`ProofCounts`): what is overwritten was deleted once,
when the lock was taken. For `WholeLapsOnly` it is that the distance of a
reader from the writer is the number of elements it has not seen, up to laps
(`Laps`), and which of them are still in the slots ahead of it (`Window`).

### The portfolio

`Portfolio_proofs` proves, for every number of threads, calls, variables and
clauses, with or without a budget, and for every combination of faults:

* `TypeCorrect`;
* `NobodyUsesASolverBetweenCalls`: no worker uses a solver that the master resets or
  reads, nor one that the client may change (`QuietBetweenRounds`);
* `NoOldInterrupts`: no round starts with an interrupt of an earlier one;
* `AnswersAreCurrent`: an answer was found for all clauses given by then;
* `AnswersAreReturned`: if a worker has an answer, the call returns one;
* `AllThreadsEnd`: no thread is left after `kill`;
* `NoTaskIsCancelled`: a worker that dies of the cancellation in `kill` was waiting for
  its next task, had been told to stop and woken up (`CancelEndsNoTask`).

The theorems have no hypotheses. The conditions are in the properties, and are about
the faults of one behaviour only: signals (`NoOldInterrupts`), a first wait
that returns spuriously (the answers), a failed creation (`AllThreadsEnd`), both of the last
two (`NobodyUsesASolverBetweenCalls`).

The properties speak of moments of the master; what makes them inductive is what is
true of a worker at each moment. `Places` says where a worker can be in each
state that the master reads: the state of a worker is written by both, but only the
master leaves `finished` and `aborted`. `SetupInv` counts the threads that were
created, `RoundInv` says how far the master is in starting, collecting or stopping
them, `ClausesInv` when the copies are complete, `InterruptInv` when an interrupt
may be set. `AnswersInv` follows an answer from the worker that computes
it to the master: it is about the clauses of this round, and whoever
has one is marked as a winner before it reports `finished`.

### The pool of threads

`ThreadController_proofs` proves for every number of threads and of calls:

* `TypeCorrect`;
* `Told`: a thread that runs a job was told to by the master;
* `JobsDone`: between two calls every thread waits and has run its job of each
  call once, in order;
* `Implements`: the pool implements `JobRounds`.

`IndInv` is the type invariant, what is true of the round (`RoundInv`: how far
the master is in telling the threads and in collecting them) and, for each
thread, which pairs of its place and its state are possible at each place of the
master (`ThreadInv`). The last is needed because the state of a thread is
written by both sides, by the master without the lock. The refinement has one
lemma per kind of step that `JobRounds` sees (`RunJobsCalls`, `WorkRuns`,
`ScanReturns`) and one for all others (`OtherStutters`).

### Parallel subsumption

`ParallelSubsumption_proofs` proves, for every finite set of variables, every set of
threads and every formula with its learnt clauses and queues, for deferred and direct
removal:

* `OneThreadPerClause`: while threads strengthen, none changes a clause that another
  one strengthens or strengthens with (`OneAtATime`);
* `NothingIsInvented`: whatever is left follows from what was given, at every
  step (`NothingInvented`);
* `CoreIsKept`: between two jobs the core clauses that are left imply
  those that were given (`NothingLost`).

`OneAtATime` becomes inductive with `LockInv`: who strengthens with a clause holds the
lock of its first variable, and who changes one that of this clause's, and both *still
are* the first variables; a clause loses a literal only under that lock, so
that others find them unchanged (`CheckLocks`).

For `NothingInvented` the invariant (`FollowInv`) is that all clauses follow, deleted
ones too: a deleted clause may still be the one a thread strengthens with.
`ResolventHolds` is the resolution step; it needs that no clause is a
tautology. `StrengthenedFacts` is about the propagation of the units
in the end, and rests on what the rounds of `UnitsFrom` compute (`UnitsHold`, and
`NothingLeft`: the rounds are enough).

`CoreIsKept` is the argument that the comment of `par_subsumption_worker` begins. `Before`
orders the clauses: a clause comes before those it subsumes and before its copies
with larger references. A core clause is `Good` if the learnt clauses before
it are all in the queue, and the invariant `Covers` says that below
each core clause that was given there is a good one, or a unit. During subsumption, K being
the clauses at its start,

* whoever is removed at once is `Redundant`: a clause of K comes before it, a core clause
  if it is one itself (`RemovedPart`; a clause whose deleted flag is overwritten by
  `set_subsume` only comes back);
* whoever is left to the master has a clause of K before it (`LeftPart`);
* a learnt clause that went through the queue, and has none before it, is noted to
  become a core clause, or each core clause after it is redundant (`StandPart`).

In the end take the first of the good clauses below a given one. No core clause comes
before it. If no learnt clause does either, it stays; otherwise the first of those stays,
and has become a core clause (`CoverSubsumed`). The reasons are all about K, and so hold
in whatever order the threads see each other's removals.

`CoreIsKept` assumes `~ MayStop`, because it is false otherwise (`subsumption_stops`), and of
the queues what `Queued` says: below each core clause there is one before which no
learnt clause is missing in the queue. `initClause` (`Subsumption.cc:1547`) queues every
clause that changed since it went through the queue. It cannot be dropped, see the
copies in section 4. The module's assumptions on the clauses are those of
`initializePreprocessor`: two literals at least, no tautologies.

### The simplifier

`Coprocessor_proofs` proves, for every finite set of variables, every formula and every
number of steps,

* `ModelsAlwaysExtend`: whichever of the covered techniques run, in whichever order and as often as
  they like, a model of the core clauses that are left becomes a model of the given
  formula when the extension stack is undone, and the frozen variables keep their
  values (`ModelsExtend`).

Of the formulas it needs only that they are sets of clauses (`StartsAssumption`).
Nothing is needed of the learnt clauses: they may say anything,
and the property does not speak of them. That is what excludes five techniques (`Unproved`):
`rate`, `bcs`, `complements`, `resolving learnts` and `rcheck` remove or shorten a core clause
because of a learnt clause, which keeps the property only if learnt clauses follow
from the core clauses in the first place. They stay with TLC, where
the learnt clauses do follow, and so do two techniques for which there is no proof: `rewriting`, and
`dense`, which renumbers. `parallel bve`, whose steps are parts of an elimination, is left to
`ModelsExtendWithThreads` below (`OneThread`), which needs more of the formulas.

The invariant is `IndInv`: no thread is in the middle of a step (`Quiet`), and `Restorable`: types,
no entry of the stack is about a frozen variable, and `Restores`, the property without the
frozen variables. It is inductive because a step only adds to the end of the stack and the stack is
undone from its end (`UndoneConcat`): what the new entries `E` do comes first, and leads to
a model of what was there before the step. `GoodStep` says this of one step, `GoodStepKeeps`
that it keeps `IndInv`, and each action of each technique has a lemma that
it is a `GoodStep`, of one of these kinds:

* nothing is pushed, and each clause that goes is a superset of one that stays or of a unit
  (subsumption, strengthening, vivification), or it is not a core clause, or it is satisfied by every model
  of what stays (hidden tautologies, gates, parities, bounded variable addition,
  equivalences that are kept as clauses);
* one clause is pushed with a literal `l`, and making `l` true satisfies it and harms no other
  clause (blocked and covered clauses; for covered clauses the literals are added one after the other
  and are undone in the opposite order, `ExtensionsMean`);
* all clauses of a variable are resolved away (`VariableElimination`, `SimpSolver`): if one side
  needs the variable, the other holds without it, because all resolvents hold;
* a literal is replaced by an equivalent one, and the entries give it back its value (`StackedTied`).

What recursive functions compute is proved by induction on the natural numbers, for which
`Induction` and `Iterates` are derived from the library's theorem about minimal
elements of a well-founded relation.

`CoprocessorLossless_proofs` proves the other direction, in which learnt clauses count:

* `NothingIsExcluded`: whichever of the techniques run that it covers (`Lossless`), in any order and as often as they like, what
  the given formula allows for the frozen variables is still allowed by all clauses that are left and
  the units, and a formula that has a model is never refuted (`NothingLost`); `parallel bve` is among
  them, with any number of threads;
* `ModelsExtendWithThreads`: `ModelsExtend` as well when threads eliminate variables, and strengthen
  and propagate meanwhile, between steps of the techniques that both theorems cover;
* `TypesAlwaysHold`: clauses that are kept have two literals at least, are no
  tautologies and have no variable that is assigned or gone, and each entry of the stack has its
  literal in its clause (`TypeOK`), for the techniques that both theorems cover.

The assumptions are what the preprocessor gets from the solver:
no clause of one literal and no tautology (`ClausesAssumption`, from `addClause_`), frozen variables are
variables of the formula (`FrozenAssumption`), and the learnt clauses exclude nothing that the core
clauses allow for the frozen variables (`LearntsAssumption`: they may come from search
or from simplification before). TLC evaluates them for the formulas of `simplify`.

The property alone is not inductive. `SafeInv` adds `WellFormed` (the types of `TypeOK`, over
variables that are open, and no frozen variable is a fresh one), and that nothing is renumbered.
While threads work it is weaker: clauses may contain variables that are assigned and not yet
propagated (`Mixed`), and a step of a thread is a `SharedStep`, which excludes nothing either. When all are
done nothing awaits propagation, and `Mixed` is `WellFormed` again (`QuietIsWellFormed`). A step is a
`SafeStep` if it keeps `WellFormed` and every model of clauses and units *before* it has a model *after* it with the
same values of the frozen variables. These compose, so that `SafeStepKeeps` is short, and
the work is one lemma per action. Most rest on a few about what
they have in common:

* propagation finds literals that every model has (`UnitsAreImplied`), so that a contradiction is
  found only where there is no model, and what stays when all are put in has no assigned variable;
* what is added follows from clauses that are there: resolvents, hyper binary clauses, literals
  that failed, hidden and asymmetric literals, sums of parities (`Sum2Obeys`, `SumsObey`: a model obeys
  two constraints, so it obeys their sum), strengthened and vivified clauses;
* what is removed excludes nothing. So elimination and blocked clauses, which are hard
  for the extension stack, are easy here (`RemovingSafe`, `EliminateSafe`);
* where a clause comes in that does not follow, the model changes: covered clauses that are
  shortened, and clauses that are shortened as resolution asymmetric tautologies, need one variable
  that is not frozen to change, and all clauses that contain the opposite literal, the learnt ones
  too, allow it (`FlipSafe`, `FlipUnitSafe`); bounded variable addition gives the
  new variable the value of what it stands for (`ExchangeSafe`);
* literals that are equivalent in every model may replace each other. Classes come from paths of
  implications, as long as the recursion does not end early: `DeepEnough` says that `MaxDepth` (32000 in
  the code) is larger than the number of literals, and then no path is cut off (`NoLongPath`). It is asked for
  only if the technique `ee` runs, and section 4 shows that it is needed.

That removing excludes nothing holds whatever the threads see of each other, so
`NothingIsExcluded` needs no argument about locks. `ModelsExtendWithThreads` does. A thread chooses
which resolvents to keep under its locks, removes blocked clauses only until these are added, and then
removes and pushes the clauses of its variable; a missing resolvent leaves models that do not extend.
Its invariant adds `ThreadsInv`, which TLC was used to find on small formulas before it was proved:

* the variables that two threads have locked are disjoint (`LocksApart`);
* a thread that holds its locks knows that its variable is open, that all neighbours of it are locked,
  and that the resolvents it will keep, with the units, give all resolvents of core clauses
  (`Secured`, with `Settled` for what a gate lets it leave out); after adding, they are among the core clauses;
* a thread that has looked and not yet locked knows less: its list of neighbours is complete, or it is
  already marked as stale, or another thread has added a clause with the variable and still holds the
  variable, and will have told when it drops it (`ThreadInv`). So the check after locking is enough.

The steps of the others keep this because they touch no clause of a locked variable and remove none among
locked variables only (`Spared`), and if they add literals to clauses of a variable that is only looked at,
they are among those who tell (`Noticed`). Strengthening holds one lock, that of the smallest
variable of the subsuming clause, which is a variable of the clause that is shortened too; this one variable is
enough to keep it from the clauses of a thread that holds its locks, because a clause of that
thread's variable has only locked variables.

Ten techniques are left out (`LeftOut`). For two the property is false without more about
the clauses: `bcm` shortens a clause that is blocked among the core clauses, and a learnt clause that
does not follow from those may then exclude something (section 4 has a formula); `blocked gates` adds a
clause that restricts a variable that may be frozen (also there). The
gates `exactly one`, `ite` and `parity` are not verified completely by the code (section
4). `rer` compares sums of literals: of two learnt clauses whose other literals are complements it makes a definition
that is a tautology, so that `WellFormed` needs that search never learns such a pair, and
the module does not say so. `fm` may add constraints with a literal and its complement, and
with `alo matrix` it counts; there is no proof for them, nor for `rewriting` and `dense`.

### Only model-checked

Of `Coprocessor`, `ModelsExtend` for the techniques of `Unproved`, and `NothingLost` for those of `LeftOut`,
and its type invariant for both; that answers are right over several calls with refined conflicts, which
is false for `Watches`; and every liveness property, because the proofs would need
`ENABLED`.

## 6. Not modelled, and the plan

* Theorems about `rewriting` and `dense`, and about reasoning with constraints (`fm`, `alo matrix`).
* Model enumeration by several clients (`EnumerateMaster`): abstractly a set of
  models that are each reported once. Nothing in the solver's core depends on it.
* The interfaces (`ipasir`, `librissc`, `libprissc`, `BMCwrapper`): they forward
  calls; their protocol over `IncrementalSat` is the next step.
* The proof of a parallel run (`ProofMaster`, `OnlineProofChecker`), of which the
  counted clauses appear in `ClauseRingBuffer`.
* A second compression and files with its table; in the simplifier, `rewriteImpl`,
  gates that rest on blocked clauses of other kinds than AND, symmetry scores.
* Containers: the binary heap and the relocation of clauses in the arena.
* The options of `Cdcl` that are left out: delayed units, saved searches,
  integration of new clauses without a restart.

Local search finds models and changes no formula; `Experimental.cc` is for
debugging. The shuffler, the MaxSAT wrapper, graphs and communities, parsing,
options and output are pure functions or input and output, and no state of
theirs is shared; they stay out. So do floating point activities and
schedules, which only choose among steps that are all allowed.
