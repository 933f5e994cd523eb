--------------------------- MODULE Portfolio_proofs ---------------------------
(***************************************************************************)
(* Theorems about module Portfolio, for every number of threads, calls,    *)
(* variables and clauses, whatever the solvers answer and when.            *)
(***************************************************************************)
EXTENDS Portfolio, FiniteSetTheorems, WellFoundedInduction, TLAPS

(* The inductive invariant *)

Setup   == {"simplify", "spawn", "clone"}
Running == {"start", "startAwake", "scan", "msleep", "interrupt", "reset", "collect"}
Killing == {"abort", "abortAwake", "cancel", "join"}

\* The threads the master has told something in its loop.
Passed(i) == i < mi \/ (mpc \in {"startAwake", "abortAwake"} /\ i = mi)

\* In this round thread i was told to work.
Started(i) == \/ mpc \in {"scan", "msleep", "interrupt", "reset", "collect"}
              \/ mpc \in {"start", "startAwake"} /\ Passed(i)

\* kill() has told thread i to stop.
Stopped(i) == mpc \in {"cancel", "join"} \/ Passed(i)

\* Nothing was set up yet.
Fresh == created = 1 /\ \A i \in Worker : wpc[i] = "none" /\ state[i] = "waiting"

\* The master
MasterInv ==
    /\ mpc \in Setup => ~ initialized
    /\ mpc \in {"prepare"} \cup Running \cup Killing => initialized
    /\ initialized \/ mpc = "clone" => created = Threads
    /\ mpc \in {"api", "simplify", "prepare", "msleep", "collect", "done"} => mi = 0
    /\ mpc \in {"simplify", "spawn"} => result.val = "undef"

\* The threads before they are all there, or some of them could not be created.
SetupInv ==
    /\ mpc = "simplify" => Fresh
    /\ mpc \in {"api", "done"} /\ ~ initialized =>
          Fresh \/ ("create" \in faults /\ \E i \in Worker : state[i] = "aborted")
    /\ mpc = "spawn" =>
          /\ created = IF mi = 0 THEN 1 ELSE mi
          /\ \A i \in Worker :
                /\ i >= mi => wpc[i] = "none" /\ state[i] = "waiting"
                /\ i < mi /\ "spurious" \notin faults => state[i] \in {"waiting", "aborted"}
                /\ state[i] = "aborted" => "create" \in faults
    /\ mpc = "clone" /\ "spurious" \notin faults => \A i \in Worker : state[i] = "waiting"
    /\ mpc = "prepare" /\ "spurious" \notin faults => \A i \in Worker : state[i] \in {"waiting", "finished"}

\* Where a thread may be in each of its states.
Places(i) ==
    /\ state[i] = "finished" => wpc[i] \in {"tell", "look", "wait", "woken"}
    /\ state[i] = "aborted"  =>
          /\ wpc[i] \in {"none", "tell", "look", "wait", "woken", "check", "exit", "cancelled"}
          /\ mpc \in Killing \cup {"done"} \/ (~ initialized /\ mpc # "clone" /\ wpc[i] = "none")
    /\ "spurious" \notin faults =>
          /\ state[i] = "waiting" => wpc[i] \in {"none", "entry", "wait0"} /\ ~ Started(i)
          /\ state[i] = "working" => Started(i)
          /\ wpc[i] \notin {"park", "parkTell", "parkLook", "parked", "parkWoken"}

\* When the threads have finished, and when they were told to stop.
RoundInv ==
    /\ mpc \in {"reset", "collect"} \/ (mpc = "api" /\ initialized) =>
          \A i \in Worker : state[i] = "finished"
    /\ mpc = "scan" /\ waitState = "allFinished" =>
          \A i \in Worker : i < mi => state[i] = "finished"
    /\ mpc \in Killing => \A i \in Worker : state[i] = IF Stopped(i) THEN "aborted"
                                                                     ELSE "finished"
    /\ mpc \in Killing => \A i \in Worker : mpc \in {"cancel", "join"} \/ i < mi => wpc[i] # "wait"
    /\ mpc \in {"cancel", "join"} => \A i \in Worker : i < mi => wpc[i] \in {"exit", "cancelled"}
    /\ mpc = "done" /\ initialized => \A i \in Worker : wpc[i] \in {"exit", "cancelled"}

\* The clauses of the solvers.
ClausesInv ==
    /\ db[0] = given
    /\ initialized => \A i \in Worker : db[i] = given
    /\ mpc = "clone" => \A i \in Worker : i < mi => db[i] = given

\* Interrupts are set where the other solvers or all are stopped.
InterruptInv ==
    "signal" \notin faults =>
        /\ mpc \notin {"interrupt", "reset", "scan", "msleep", "done"} \cup Killing =>
              \A i \in Worker : ~ interrupt[i]
        /\ mpc = "reset" => \A i \in Worker : i < mi => ~ interrupt[i]

\* What thread i found is about the formula as it is, and who has an answer is
\* a winner.
Current(i)  == ret[i].val # "undef" => ret[i].clauses = given
Reported(i) == Current(i) /\ (winner[i] <=> ret[i].val # "undef")

AnswersInv ==
    "spurious" \notin faults => \A i \in Worker :
        /\ wpc[i] = "report" => Current(i)
        /\ wpc[i] = "finish" \/ (Started(i) /\ state[i] = "finished") => Reported(i)
        /\ mpc \in {"start", "startAwake"} /\ ~ Started(i) => ~ winner[i]
        /\ state[i] = "working" /\ wpc[i] # "finish" => ~ winner[i]

\* Clauses are numbered as they come.
TypeInv == TypeOK /\ IsFiniteSet(given)

IndInv == /\ TypeInv /\ MasterInv /\ SetupInv /\ (\A i \in Worker : Places(i))
          /\ RoundInv /\ ClausesInv /\ InterruptInv /\ AnswersInv
-----------------------------------------------------------------------------
(* Types *)

LEMMA NumberOfThreads == Threads \in Nat \ {0} /\ Worker = 0 .. Threads - 1 /\ 0 \in Worker
BY ThreadsAssumption DEF Worker

LEMMA NoAnswerType == NoAnswer \in Answer
BY AssumptionsAssumption DEF NoAnswer, Answer

LEMMA InitType == Init => TypeInv
<1> SUFFICES ASSUME Init PROVE TypeInv OBVIOUS
<1> USE NumberOfThreads, NoAnswerType, BoundsAssumption, AssumptionsAssumption DEF Init
<1>1. db \in [Worker -> SUBSET Clause] /\ given \subseteq Clause /\ IsFiniteSet(given)
  BY FS_EmptySet
<1>2. nVars \in [Worker -> 0 .. MaxVars] /\ ret \in [Worker -> Answer] /\ result \in Answer
  OBVIOUS
<1>3. state \in [Worker -> State] /\ winner \in [Worker -> BOOLEAN] /\ interrupt \in [Worker -> BOOLEAN]
  BY DEF State
<1>4. round \in 0 .. MaxRounds /\ created \in 1 .. Threads OBVIOUS
<1> QED BY <1>1, <1>2, <1>3, <1>4 DEF TypeInv, TypeOK

\* A nonempty set of numbers has a least element.
LEMMA LeastExists ==
    ASSUME NEW S \in SUBSET Nat, S # {}
    PROVE  \E x \in S : \A y \in S : x <= y
<1> DEFINE below == {0 .. x - 1 : x \in S}
<1>1. below \subseteq FiniteSubsetsOf(Nat)
  <2> SUFFICES ASSUME NEW x \in S PROVE 0 .. x - 1 \in FiniteSubsetsOf(Nat) OBVIOUS
  <2>1. IsFiniteSet(0 .. x - 1) BY FS_Interval
  <2> QED BY <2>1 DEF FiniteSubsetsOf
<1>2. below # {} OBVIOUS
<1>3. \E I \in below : \A J \in below : ~ (<<J, I>> \in StrictSubsetOrdering(Nat))
  BY <1>1, <1>2, FS_StrictSubsetOrderingWellFounded, WFMin
<1>4. PICK x \in S : \A y \in S : ~ (<<0 .. y - 1, 0 .. x - 1>> \in StrictSubsetOrdering(Nat))
  BY <1>3
<1>5. \A y \in S : x <= y
  <2> SUFFICES ASSUME NEW y \in S, y < x PROVE FALSE OBVIOUS
  <2>1. 0 .. y - 1 \in SUBSET Nat /\ 0 .. x - 1 \in SUBSET Nat OBVIOUS
  <2>2. 0 .. y - 1 \subseteq 0 .. x - 1 OBVIOUS
  <2>3. y \in 0 .. x - 1 /\ y \notin 0 .. y - 1 OBVIOUS
  <2> QED BY <1>4, <2>1, <2>2, <2>3 DEF StrictSubsetOrdering
<1> QED BY <1>5

\* The solver whose answer is taken: one with an answer, if there is any.
LEMMA WinnerFacts ==
    ASSUME TypeInv
    PROVE  /\ WinningSolver \in Worker
           /\ (\E i \in Worker : winner[i] /\ ret[i].val # "undef") =>
                 winner[WinningSolver] /\ ret[WinningSolver].val # "undef"
<1>1. CASE \E i \in Worker : winner[i] /\ ret[i].val # "undef"
  <2> DEFINE Has(i) == winner[i] /\ ret[i].val # "undef"
  <2>1. \E i \in Worker : Has(i) /\ \A j \in 0 .. i - 1 : ~ Has(j)
    <3> DEFINE H == {i \in Worker : Has(i)}
    <3>1. H \in SUBSET Nat /\ H # {} BY <1>1, NumberOfThreads
    <3> HIDE DEF H
    <3>2. PICK i \in H : \A j \in H : i <= j BY <3>1, LeastExists
    <3> USE DEF H
    <3>3. i \in Worker /\ Has(i) BY <3>2
    <3>4. ASSUME NEW j \in 0 .. i - 1, Has(j) PROVE FALSE
      <4>1. j \in Worker /\ j < i BY <3>3, <3>4, NumberOfThreads
      <4>2. j \in H BY <3>4, <4>1
      <4> QED BY <3>2, <3>3, <4>1, <4>2, NumberOfThreads
    <3> QED BY <3>3, <3>4
  <2> QED BY <1>1, <2>1 DEF WinningSolver
<1>2. CASE ~ \E i \in Worker : winner[i] /\ ret[i].val # "undef"
  BY <1>2, NumberOfThreads DEF WinningSolver
<1> QED BY <1>1, <1>2

LEMMA NextType == TypeInv /\ [Next]_vars => TypeInv'
<1> SUFFICES ASSUME TypeInv, [Next]_vars PROVE TypeInv' OBVIOUS
<1> USE NumberOfThreads, NoAnswerType, BoundsAssumption, AssumptionsAssumption
<1> USE DEF TypeInv, TypeOK, State, Goto, StepOr, master, solver, comm
<1>1. CASE NewVar BY <1>1 DEF NewVar
<1>2. ASSUME NEW v \in 1 .. MaxVars, AddClause(v) PROVE TypeInv'
  <2> DEFINE c == [id |-> Cardinality(given) + 1, var |-> v]
  <2>1. Cardinality(given) \in Nat BY FS_CardinalityType
  <2>2. c \in Clause BY <1>2, <2>1 DEF AddClause, Clause
  <2>3. /\ given' = given \cup {c}
        /\ db' = [i \in Worker |-> IF i \in Existing THEN db[i] \cup {c} ELSE db[i]]
    BY <1>2 DEF AddClause
  <2>4. UNCHANGED <<faults, mpc, mi, waitState, round, initialized, created, assumed, result,
                    wpc, nVars, interrupt, comm>>
    BY <1>2 DEF AddClause
  <2> HIDE DEF c
  <2>5. given' \subseteq Clause BY <2>2, <2>3
  <2>6. IsFiniteSet(given') BY <2>3, FS_AddElement
  <2>7. db' \in [Worker -> SUBSET Clause] BY <2>2, <2>3
  <2> QED BY <2>4, <2>5, <2>6, <2>7
<1>3. CASE Interrupt BY <1>3 DEF Interrupt
<1>4. ASSUME NEW as \in Assumptions, CallSolve(as) PROVE TypeInv'
  <2>1. /\ round < MaxRounds /\ round' = round + 1 /\ assumed' = as /\ result' = NoAnswer
        /\ mi' = 0 /\ mpc' \in {"prepare", "simplify"}
        /\ UNCHANGED <<faults, waitState, initialized, created, given, wpc, solver, comm>>
    BY <1>4 DEF CallSolve
  <2>2. round' \in 0 .. MaxRounds BY <2>1
  <2> QED BY <2>1, <2>2
<1>5. CASE Kill BY <1>5 DEF Kill
<1>6. CASE Simplify
  <2>1. [val |-> "unsat", clauses |-> db[0], assumed |-> {}] \in Answer BY DEF Answer
  <2>2. result' \in Answer BY <1>6, <2>1 DEF Simplify
  <2> QED BY <1>6, <2>2 DEF Simplify
<1>7. CASE Spawn
  <2>1. created' \in 1 .. Threads BY <1>7 DEF Spawn
  <2>2. wpc' \in [Worker -> {"none", "entry", "wait0", "woken0", "check", "solve", "report",
                             "finish", "tell", "look", "wait", "woken", "park", "parkTell",
                             "parkLook", "parked", "parkWoken", "exit", "cancelled"}]
    BY <1>7 DEF Spawn
  <2>3. state' \in [Worker -> State] BY <1>7 DEF Spawn
  <2>4. mi' \in Worker /\ mpc' \in {mpc, "api", "clone"} BY <1>7 DEF Spawn
  <2> QED BY <1>7, <2>1, <2>2, <2>3, <2>4 DEF Spawn
<1>8. CASE Clone BY <1>8 DEF Clone
<1>9. CASE Prepare BY <1>9 DEF Prepare
<1>10. CASE StartSet \/ AbortSet BY <1>10 DEF StartSet, AbortSet
<1>11. CASE StartAwake \/ AbortAwake
  <2>1. wpc' = [wpc EXCEPT ![mi] = Awoken(mi)] BY <1>11 DEF StartAwake, AbortAwake
  <2>2. Awoken(mi) \in {wpc[mi], "woken0", "woken", "parkWoken"} BY DEF Awoken
  <2>3. wpc' \in [Worker -> {"none", "entry", "wait0", "woken0", "check", "solve", "report",
                             "finish", "tell", "look", "wait", "woken", "park", "parkTell",
                             "parkLook", "parked", "parkWoken", "exit", "cancelled"}]
    BY <2>1, <2>2
  <2> QED BY <1>11, <2>3 DEF StartAwake, AbortAwake
<1>12. CASE Scan \/ MasterSpurious
  <2>1. mi' \in Worker BY <1>12 DEF Scan, MasterSpurious
  <2>2. mpc' \in {mpc, "scan", "msleep", "interrupt", "reset"}
    BY <1>12 DEF Scan, MasterSpurious, AfterWait
  <2>3. UNCHANGED <<faults, waitState, round, initialized, created, given, assumed, result,
                    wpc, solver, comm>>
    BY <1>12 DEF Scan, MasterSpurious
  <2> QED BY <2>1, <2>2, <2>3
<1>13. CASE InterruptOthers
  <2>1. interrupt' \in [Worker -> BOOLEAN] BY <1>13 DEF InterruptOthers
  <2> QED BY <1>13, <2>1 DEF InterruptOthers
<1>14. CASE Reset
  <2>1. interrupt' \in [Worker -> BOOLEAN] BY <1>14 DEF Reset
  <2> QED BY <1>14, <2>1 DEF Reset
<1>15. CASE Collect
  <2>1. result' \in Answer BY <1>15, WinnerFacts DEF Collect
  <2> QED BY <1>15, <2>1 DEF Collect
<1>16. CASE Join BY <1>16 DEF Join
<1>17. ASSUME NEW i \in Worker, WorkerStep(i) \/ Solving(i) \/ SpuriousFirst(i) \/ SpuriousWait(i)
       PROVE  TypeInv'
  <2> USE DEF WorkerFrame, WGoto
  <2>1. CASE Entry(i) \/ Check(i) \/ Look(i) \/ SpuriousFirst(i) \/ SpuriousWait(i)
    BY <2>1 DEF Entry, Check, Look, SpuriousFirst, SpuriousWait, Awoken
  <2>2. CASE Report(i) \/ Finish(i) \/ SetWaiting(i) BY <2>2 DEF Report, Finish, SetWaiting
  <2>3. CASE Tell(i) \/ ParkTell(i) BY <2>3 DEF Tell, ParkTell, AwakeMaster
  <2>4. CASE ParkLook(i) \/ AskState(i) BY <2>4 DEF ParkLook, AskState
  <2>5. CASE Decide(i) BY <2>5 DEF Decide, Answer, WorkerAssumptions
  <2>6. CASE GiveUp(i) BY <2>6 DEF GiveUp
  <2>7. CASE Cancelled(i) BY <2>7 DEF Cancelled
  <2> QED BY <1>17, <2>1, <2>2, <2>3, <2>4, <2>5, <2>6, <2>7 DEF WorkerStep, Solving
<1>18. CASE UNCHANGED vars BY <1>18 DEF vars
<1>19. CASE Cancel BY <1>19 DEF Cancel
<1> QED BY <1>1, <1>2, <1>3, <1>4, <1>5, <1>6, <1>7, <1>8, <1>9, <1>10, <1>11, <1>12, <1>13,
           <1>14, <1>15, <1>16, <1>17, <1>18, <1>19 DEF Next, Client, MasterStep, Done
-----------------------------------------------------------------------------
(* One step *)

LEMMA TypeFacts ==
    ASSUME TypeInv
    PROVE  /\ mi \in Worker /\ initialized \in BOOLEAN
           /\ faults \in Faults
           /\ mpc \in {"api", "simplify", "spawn", "clone", "prepare", "start", "startAwake",
                       "scan", "msleep", "interrupt", "reset", "collect",
                       "abort", "abortAwake", "cancel", "join", "done"}
           /\ DOMAIN wpc = Worker /\ DOMAIN state = Worker /\ DOMAIN db = Worker /\ DOMAIN ret = Worker
           /\ state \in [Worker -> State]
           /\ winner \in [Worker -> BOOLEAN] /\ interrupt \in [Worker -> BOOLEAN]
BY DEF TypeInv, TypeOK

\* Unless a thread was woken up by nobody, it uses its solver only when told to.
LEMMA BusyWorks ==
    ASSUME IndInv, NEW i \in Worker
    PROVE  /\ "spurious" \notin faults /\ Busy(i) => state[i] = "working" /\ Started(i)
           /\ Busy(i) => state[i] \notin {"finished", "aborted"}
BY TypeFacts DEF IndInv, Places, Busy, State

\* newVar touches solver 0 only.
LEMMA NewVarKeeps ==
    ASSUME IndInv, TypeInv', NewVar
    PROVE  IndInv'
<1> USE NumberOfThreads, TypeFacts
<1> USE DEF IndInv, Goto, StepOr, Setup, Running, Killing, master, solver, comm
<1>1. MasterInv' BY DEF MasterInv, NewVar
<1>2. SetupInv' BY DEF SetupInv, MasterInv, Fresh, Places, NewVar
<1>3. (\A j \in Worker : Places(j))'
  BY DEF Places, MasterInv, SetupInv, Fresh, RoundInv, Started, Passed, NewVar
<1>4. RoundInv' BY DEF RoundInv, Places, MasterInv, Passed, Started, Stopped, NewVar
<1>5. ClausesInv' BY DEF ClausesInv, MasterInv, Existing, NewVar
<1>6. InterruptInv' BY DEF InterruptInv, Places, MasterInv, NewVar
<1>7. AnswersInv'
  BY DEF AnswersInv, Places, Reported, Current, Started, Passed, RoundInv, MasterInv, NewVar
<1> QED BY <1>1, <1>2, <1>3, <1>4, <1>5, <1>6, <1>7

\* addClause_ reaches all solvers there are, when nobody looks.
LEMMA AddClauseKeeps ==
    ASSUME IndInv, TypeInv', NEW v \in 1 .. MaxVars, AddClause(v)
    PROVE  IndInv'
<1> USE NumberOfThreads, TypeFacts
<1> USE DEF IndInv, Goto, StepOr, Setup, Running, Killing, master, solver, comm
<1>1. MasterInv' BY DEF MasterInv, AddClause
<1>2. SetupInv' BY DEF SetupInv, MasterInv, Fresh, Places, AddClause
<1>3. (\A j \in Worker : Places(j))'
  BY DEF Places, MasterInv, SetupInv, Fresh, RoundInv, Started, Passed, AddClause
<1>4. RoundInv' BY DEF RoundInv, Places, MasterInv, Passed, Started, Stopped, AddClause
<1>5. ClausesInv'
  <2>1. /\ \E c : given' = given \cup {c} /\ db' = [i \in Worker |-> IF i \in Existing THEN db[i] \cup {c}
                                                                              ELSE db[i]]
        /\ UNCHANGED <<mpc, mi, initialized, created>> /\ mpc = "api"
    BY DEF AddClause
  <2>2. 0 \in Existing BY DEF TypeInv, TypeOK, Existing
  <2>3. db'[0] = given' BY <2>1, <2>2 DEF ClausesInv
  <2>4. initialized => Existing = Worker BY DEF MasterInv, Existing
  <2> QED BY <2>1, <2>3, <2>4 DEF ClausesInv
<1>6. InterruptInv' BY DEF InterruptInv, Places, MasterInv, AddClause
<1>7. AnswersInv'
  <2>1. /\ UNCHANGED <<faults, mpc, mi, wpc, state, ret, winner>> /\ mpc = "api"
    BY DEF AddClause, comm
  <2> SUFFICES ASSUME "spurious" \notin faults, NEW i \in Worker
               PROVE  /\ ~ Started(i)' /\ state'[i] # "working"
                      /\ wpc'[i] \notin {"report", "finish"}
    BY <2>1 DEF AnswersInv, Started
  <2>2. ~ Started(i) /\ ~ Started(i)' BY <2>1 DEF Started
  <2> QED BY <2>1, <2>2, BusyWorks DEF Busy, Places
<1> QED BY <1>1, <1>2, <1>3, <1>4, <1>5, <1>6, <1>7

LEMMA InterruptKeeps ==
    ASSUME IndInv, TypeInv', Interrupt
    PROVE  IndInv'
<1> USE NumberOfThreads, TypeFacts
<1> USE DEF IndInv, Goto, StepOr, Setup, Running, Killing, master, solver, comm
<1>1. MasterInv' BY DEF MasterInv, Interrupt
<1>2. SetupInv' BY DEF SetupInv, MasterInv, Fresh, Places, Interrupt
<1>3. (\A j \in Worker : Places(j))'
  BY DEF Places, MasterInv, SetupInv, Fresh, RoundInv, Started, Passed, Interrupt
<1>4. RoundInv' BY DEF RoundInv, Places, MasterInv, Passed, Started, Stopped, Interrupt
<1>5. ClausesInv' BY DEF ClausesInv, MasterInv, Existing, Interrupt
<1>6. InterruptInv' BY DEF InterruptInv, Places, MasterInv, Interrupt
<1>7. AnswersInv'
  BY DEF AnswersInv, Places, Reported, Current, Started, Passed, RoundInv, MasterInv, Interrupt
<1> QED BY <1>1, <1>2, <1>3, <1>4, <1>5, <1>6, <1>7

LEMMA CallSolveKeeps ==
    ASSUME IndInv, TypeInv', NEW as \in Assumptions, CallSolve(as)
    PROVE  IndInv'
<1> USE NumberOfThreads, TypeFacts
<1> USE DEF IndInv, Goto, StepOr, Setup, Running, Killing, master, solver, comm
<1>1. MasterInv' BY DEF MasterInv, CallSolve, NoAnswer
<1>2. SetupInv'
  <2>1. /\ \A i \in Worker : state[i] # "aborted"
        /\ mpc = "api" /\ mpc' = IF initialized THEN "prepare" ELSE "simplify"
        /\ UNCHANGED <<initialized, created, wpc, state>>
    BY DEF CallSolve
  <2>2. ~ initialized => Fresh BY <2>1 DEF SetupInv
  <2>3. initialized => \A i \in Worker : state[i] = "finished" BY <2>1 DEF RoundInv
  <2> QED BY <2>1, <2>2, <2>3 DEF SetupInv, Fresh
<1>3. (\A j \in Worker : Places(j))'
  BY DEF Places, MasterInv, SetupInv, Fresh, RoundInv, Started, Passed, CallSolve
<1>4. RoundInv' BY DEF RoundInv, Places, MasterInv, Passed, Started, Stopped, CallSolve
<1>5. ClausesInv' BY DEF ClausesInv, MasterInv, Existing, CallSolve
<1>6. InterruptInv' BY DEF InterruptInv, Places, MasterInv, CallSolve
<1>7. AnswersInv'
  BY DEF AnswersInv, Places, Reported, Current, Started, Passed, RoundInv, MasterInv, CallSolve
<1> QED BY <1>1, <1>2, <1>3, <1>4, <1>5, <1>6, <1>7

LEMMA KillKeeps ==
    ASSUME IndInv, TypeInv', Kill
    PROVE  IndInv'
<1> USE NumberOfThreads, TypeFacts
<1> USE DEF IndInv, Goto, StepOr, Setup, Running, Killing, master, solver, comm
<1>1. MasterInv' BY DEF MasterInv, Kill
<1>2. SetupInv' BY DEF SetupInv, MasterInv, Fresh, Places, Kill
<1>3. (\A j \in Worker : Places(j))'
  BY DEF Places, MasterInv, SetupInv, Fresh, RoundInv, Started, Passed, Kill
<1>4. RoundInv' BY DEF RoundInv, Places, MasterInv, Passed, Started, Stopped, Kill
<1>5. ClausesInv' BY DEF ClausesInv, MasterInv, Existing, Kill
<1>6. InterruptInv' BY DEF InterruptInv, Places, MasterInv, Kill
<1>7. AnswersInv'
  BY DEF AnswersInv, Places, Reported, Current, Started, Passed, RoundInv, MasterInv, Kill
<1> QED BY <1>1, <1>2, <1>3, <1>4, <1>5, <1>6, <1>7

LEMMA SimplifyKeeps ==
    ASSUME IndInv, TypeInv', Simplify
    PROVE  IndInv'
<1> USE NumberOfThreads, TypeFacts
<1> USE DEF IndInv, Goto, StepOr, Setup, Running, Killing, master, solver, comm
<1>1. MasterInv' BY DEF MasterInv, Simplify
<1>2. SetupInv' BY DEF SetupInv, MasterInv, Fresh, Places, Simplify
<1>3. (\A j \in Worker : Places(j))'
  BY DEF Places, MasterInv, SetupInv, Fresh, RoundInv, Started, Passed, Simplify
<1>4. RoundInv' BY DEF RoundInv, Places, MasterInv, Passed, Started, Stopped, Simplify
<1>5. ClausesInv' BY DEF ClausesInv, MasterInv, Existing, Simplify
<1>6. InterruptInv' BY DEF InterruptInv, Places, MasterInv, Simplify
<1>7. AnswersInv'
  BY DEF AnswersInv, Places, Reported, Current, Started, Passed, RoundInv, MasterInv, Simplify
<1> QED BY <1>1, <1>2, <1>3, <1>4, <1>5, <1>6, <1>7

\* No thread that is not created yet has done anything.
LEMMA SpawnKeeps ==
    ASSUME IndInv, TypeInv', Spawn
    PROVE  IndInv'
<1> USE NumberOfThreads, TypeFacts
<1> USE DEF IndInv, Goto, StepOr, Setup, Running, Killing, master, solver, comm
<1>1. MasterInv'
  <2>1. /\ mpc = "spawn" /\ initialized' = initialized /\ result' = result
        /\ created' = IF mi = 0 THEN created ELSE mi + 1
        /\ IF mi + 1 < Threads THEN mi' = mi + 1 /\ mpc' = mpc ELSE mpc' \in {"api", "clone"} /\ mi' = 0
    BY DEF Spawn
  <2>2. mi + 1 < Threads \/ mi + 1 = Threads OBVIOUS
  <2>3. ~ mi + 1 < Threads => created' = Threads BY <2>1, <2>2 DEF SetupInv
  <2> QED BY <2>1, <2>3 DEF MasterInv
<1>2. SetupInv'
  <2>1. mpc = "spawn" /\ ~ initialized' /\ faults' = faults BY DEF Spawn, MasterInv
  <2>2. /\ wpc' = wpc \/ wpc' = [wpc EXCEPT ![mi] = "entry"]
        /\ \/ state' = [state EXCEPT ![mi] = "waiting"]
           \/ "create" \in faults /\ state' = [state EXCEPT ![mi] = "aborted"]
        /\ created' = IF mi = 0 THEN created ELSE mi + 1
    BY DEF Spawn
  <2>3. \A i \in Worker : state'[i] = "aborted" => "create" \in faults BY <2>1, <2>2 DEF SetupInv
  <2>4. ASSUME "spurious" \notin faults, NEW i \in Worker, i <= mi PROVE state'[i] \in {"waiting", "aborted"}
    <3>1. CASE i = mi BY <2>2, <3>1
    <3>2. CASE i < mi BY <2>1, <2>2, <2>4, <3>2 DEF SetupInv
    <3> QED BY <2>4, <3>1, <3>2
  <2>5. CASE mi + 1 < Threads
    <3>1. mi' = mi + 1 /\ mpc' = "spawn" BY <2>1, <2>5 DEF Spawn
    <3>2. created' = mi + 1 BY <2>1, <2>2 DEF SetupInv
    <3>3. ASSUME NEW i \in Worker, i >= mi + 1 PROVE wpc'[i] = "none" /\ state'[i] = "waiting"
      <4>1. i # mi /\ i >= mi BY <3>3
      <4>2. wpc[i] = "none" /\ state[i] = "waiting" BY <2>1, <4>1 DEF SetupInv
      <4> QED BY <2>2, <4>1, <4>2
    <3> QED BY <2>1, <2>3, <2>4, <3>1, <3>2, <3>3 DEF SetupInv
  <2>6. CASE ~ mi + 1 < Threads
    <3>1. mpc' = IF \E i \in Worker : state'[i] = "aborted" THEN "api" ELSE "clone"
      BY <2>1, <2>6 DEF Spawn
    <3>2. \A i \in Worker : i <= mi BY <2>6
    <3> QED BY <2>1, <2>3, <2>4, <3>1, <3>2 DEF SetupInv
  <2> QED BY <2>5, <2>6
<1>3. (\A j \in Worker : Places(j))'
  <2>1. /\ mpc = "spawn" /\ mpc' \in {"spawn", "api", "clone"} /\ ~ initialized'
        /\ faults' = faults
    BY DEF Spawn, MasterInv
  <2>2. wpc[mi] = "none" /\ state[mi] = "waiting" BY <2>1 DEF SetupInv
  <2>3. \A j \in Worker : j # mi => wpc'[j] = wpc[j] /\ state'[j] = state[j] BY DEF Spawn
  <2>4. \/ wpc'[mi] = "entry" /\ state'[mi] = "waiting"
        \/ wpc'[mi] = "none" /\ state'[mi] = "aborted"
    BY <2>2 DEF Spawn
  <2>5. mpc' = "clone" => \A j \in Worker : state'[j] # "aborted" BY <2>1 DEF Spawn
  <2>6. \A j \in Worker : ~ Started(j) /\ ~ Started(j)' BY <2>1 DEF Started
  <2> SUFFICES ASSUME NEW j \in Worker PROVE Places(j)' OBVIOUS
  <2>7. CASE j = mi BY <2>1, <2>4, <2>5, <2>6, <2>7 DEF Places
  <2>8. CASE j # mi
    <3>1. Places(j) /\ wpc'[j] = wpc[j] /\ state'[j] = state[j] BY <2>3, <2>8
    <3> QED BY <2>1, <2>5, <2>6, <3>1 DEF Places
  <2> QED BY <2>7, <2>8
<1>4. RoundInv' BY DEF RoundInv, Places, MasterInv, Passed, Started, Stopped, Spawn
<1>5. ClausesInv' BY DEF ClausesInv, MasterInv, Existing, Spawn
<1>6. InterruptInv' BY DEF InterruptInv, Places, MasterInv, Spawn
<1>7. AnswersInv'
  <2>1. /\ mpc = "spawn" /\ mpc' \in {"spawn", "api", "clone"} /\ faults' = faults
    BY DEF Spawn
  <2>2. /\ \A i \in Worker : wpc'[i] \in {wpc[i], "entry"} /\ state'[i] \in {state[i], "waiting", "aborted"}
        /\ given' = given /\ ret' = ret /\ winner' = winner
    BY DEF Spawn
  <2> SUFFICES ASSUME "spurious" \notin faults, NEW i \in Worker
               PROVE  /\ ~ Started(i)' /\ state'[i] # "working"
                      /\ wpc'[i] \notin {"report", "finish"}
    BY <2>1 DEF AnswersInv
  <2>3. ~ Started(i) /\ ~ Started(i)' BY <2>1 DEF Started
  <2> QED BY <2>2, <2>3, BusyWorks DEF Busy, Places
<1> QED BY <1>1, <1>2, <1>3, <1>4, <1>5, <1>6, <1>7

LEMMA CloneKeeps ==
    ASSUME IndInv, TypeInv', Clone
    PROVE  IndInv'
<1> USE NumberOfThreads, TypeFacts
<1> USE DEF IndInv, Goto, StepOr, Setup, Running, Killing, master, solver, comm
<1>1. MasterInv'
  <2>1. /\ mpc = "clone" /\ created' = created /\ initialized' = (mi + 1 = Threads)
        /\ IF mi + 1 < Threads THEN mi' = mi + 1 /\ mpc' = mpc ELSE mpc' = "prepare" /\ mi' = 0
    BY DEF Clone
  <2>2. CASE mi + 1 < Threads
    <3>1. mi + 1 # Threads /\ mpc' = "clone" BY <2>1, <2>2
    <3>2. ~ initialized' BY <2>1, <3>1, Zenon
    <3> QED BY <2>1, <3>1, <3>2 DEF MasterInv
  <2>3. CASE mi + 1 = Threads
    <3>1. mpc' = "prepare" /\ mi' = 0 BY <2>1, <2>3
    <3>2. initialized' BY <2>1, <2>3, Zenon
    <3> QED BY <2>1, <3>1, <3>2 DEF MasterInv
  <2> QED BY <2>2, <2>3
<1>2. SetupInv' BY DEF SetupInv, MasterInv, Fresh, Places, Clone
<1>3. (\A j \in Worker : Places(j))'
  BY DEF Places, MasterInv, SetupInv, Fresh, RoundInv, Started, Passed, Clone
<1>4. RoundInv' BY DEF RoundInv, Places, MasterInv, Passed, Started, Stopped, Clone
<1>5. ClausesInv' BY DEF ClausesInv, MasterInv, Existing, Clone
<1>6. InterruptInv' BY DEF InterruptInv, Places, MasterInv, Clone
<1>7. AnswersInv'
  BY DEF AnswersInv, Places, Reported, Current, Started, Passed, RoundInv, MasterInv, Clone
<1> QED BY <1>1, <1>2, <1>3, <1>4, <1>5, <1>6, <1>7

LEMMA PrepareKeeps ==
    ASSUME IndInv, TypeInv', Prepare
    PROVE  IndInv'
<1> USE NumberOfThreads, TypeFacts
<1> USE DEF IndInv, Goto, StepOr, Setup, Running, Killing, master, solver, comm
<1>1. MasterInv' BY DEF MasterInv, Prepare
<1>2. SetupInv' BY DEF SetupInv, MasterInv, Fresh, Places, Prepare
<1>3. (\A j \in Worker : Places(j))'
  BY DEF Places, MasterInv, SetupInv, Fresh, RoundInv, Started, Passed, Prepare
<1>4. RoundInv' BY DEF RoundInv, Places, MasterInv, Passed, Started, Stopped, Prepare
<1>5. ClausesInv' BY DEF ClausesInv, MasterInv, Existing, Prepare
<1>6. InterruptInv' BY DEF InterruptInv, Places, MasterInv, Prepare
<1>7. AnswersInv'
  <2>1. /\ mpc = "prepare" /\ mpc' = "start" /\ mi' = 0
        /\ UNCHANGED <<faults, given, wpc, state, ret>> /\ \A i \in Worker : ~ winner'[i]
    BY DEF Prepare
  <2> SUFFICES ASSUME "spurious" \notin faults, NEW i \in Worker
               PROVE  ~ Started(i)' /\ wpc'[i] \notin {"report", "finish"}
    BY <2>1 DEF AnswersInv
  <2>2. ~ Started(i) BY <2>1 DEF Started
  <2>3. ~ Started(i)' BY <2>1 DEF Started, Passed
  <2> QED BY <2>1, <2>2, <2>3, BusyWorks DEF Busy
<1> QED BY <1>1, <1>2, <1>3, <1>4, <1>5, <1>6, <1>7

LEMMA StartSetKeeps ==
    ASSUME IndInv, TypeInv', StartSet
    PROVE  IndInv'
<1> USE NumberOfThreads, TypeFacts
<1> USE DEF IndInv, Goto, StepOr, Setup, Running, Killing, master, solver, comm
<1>1. MasterInv' BY DEF MasterInv, StartSet
<1>2. SetupInv' BY DEF SetupInv, MasterInv, Fresh, Places, StartSet
<1>3. (\A j \in Worker : Places(j))'
  BY DEF Places, MasterInv, SetupInv, Fresh, RoundInv, Started, Passed, StartSet
<1>4. RoundInv' BY DEF RoundInv, Places, MasterInv, Passed, Started, Stopped, StartSet
<1>5. ClausesInv' BY DEF ClausesInv, MasterInv, Existing, StartSet
<1>6. InterruptInv' BY DEF InterruptInv, Places, MasterInv, StartSet
<1>7. AnswersInv'
  BY DEF AnswersInv, Places, Reported, Current, Started, Passed, RoundInv, MasterInv, StartSet
<1> QED BY <1>1, <1>2, <1>3, <1>4, <1>5, <1>6, <1>7

LEMMA StartAwakeKeeps ==
    ASSUME IndInv, TypeInv', StartAwake
    PROVE  IndInv'
<1> USE NumberOfThreads, TypeFacts
<1> USE DEF IndInv, Goto, StepOr, Setup, Running, Killing, master, solver, comm
<1>1. MasterInv' BY DEF MasterInv, StartAwake, Awoken
<1>2. SetupInv' BY DEF SetupInv, MasterInv, Fresh, Places, StartAwake, Awoken
<1>3. (\A j \in Worker : Places(j))'
  BY DEF Places, MasterInv, SetupInv, Fresh, RoundInv, Started, Passed, StartAwake, Awoken
<1>4. RoundInv' BY DEF RoundInv, Places, MasterInv, Passed, Started, Stopped, StartAwake, Awoken
<1>5. ClausesInv' BY DEF ClausesInv, MasterInv, Existing, StartAwake, Awoken
<1>6. InterruptInv' BY DEF InterruptInv, Places, MasterInv, StartAwake, Awoken
<1>7. AnswersInv'
  BY DEF AnswersInv, Places, Reported, Current, Started, Passed, RoundInv, MasterInv,
         StartAwake, Awoken
<1> QED BY <1>1, <1>2, <1>3, <1>4, <1>5, <1>6, <1>7

\* A wait for all ends when each was seen finished, and nobody leaves that state.
LEMMA ScanKeeps ==
    ASSUME IndInv, TypeInv', Scan
    PROVE  IndInv'
<1> USE NumberOfThreads, TypeFacts
<1> USE DEF IndInv, Goto, StepOr, Setup, Running, Killing, master, solver, comm
<1>1. MasterInv' BY DEF MasterInv, Scan, AfterWait
<1>2. SetupInv' BY DEF SetupInv, MasterInv, Fresh, Places, Scan, AfterWait
<1>3. (\A j \in Worker : Places(j))'
  BY DEF Places, MasterInv, SetupInv, Fresh, RoundInv, Started, Passed, Scan, AfterWait
<1>4. RoundInv'
  <2>1. /\ mpc = "scan" /\ UNCHANGED <<waitState, initialized, wpc, state>> BY DEF Scan, comm
  <2>2. CASE waitState = "oneFinished"
    BY <2>1, <2>2 DEF Scan, AfterWait, RoundInv
  <2>3. CASE waitState = "allFinished" /\ state[mi] = "finished"
    <3>1. \A i \in Worker : i < mi + 1 => state[i] = "finished" BY <2>1, <2>3 DEF RoundInv
    <3>2. IF mi + 1 < Threads THEN mi' = mi + 1 /\ mpc' = "scan" ELSE mpc' = "reset"
      BY <2>1, <2>3 DEF Scan, AfterWait
    <3>3. ~ mi + 1 < Threads => \A i \in Worker : i < mi + 1 OBVIOUS
    <3> QED BY <2>1, <2>3, <3>1, <3>2, <3>3 DEF RoundInv
  <2>4. CASE waitState = "allFinished" /\ state[mi] # "finished"
    BY <2>1, <2>4 DEF Scan, RoundInv
  <2> QED BY <2>2, <2>3, <2>4 DEF TypeInv, TypeOK
<1>5. ClausesInv' BY DEF ClausesInv, MasterInv, Existing, Scan, AfterWait
<1>6. InterruptInv' BY DEF InterruptInv, Places, MasterInv, Scan, AfterWait
<1>7. AnswersInv'
  BY DEF AnswersInv, Places, Reported, Current, Started, Passed, RoundInv, MasterInv, Scan,
         AfterWait
<1> QED BY <1>1, <1>2, <1>3, <1>4, <1>5, <1>6, <1>7

LEMMA MasterSpuriousKeeps ==
    ASSUME IndInv, TypeInv', MasterSpurious
    PROVE  IndInv'
<1> USE NumberOfThreads, TypeFacts
<1> USE DEF IndInv, Goto, StepOr, Setup, Running, Killing, master, solver, comm
<1>1. MasterInv' BY DEF MasterInv, MasterSpurious
<1>2. SetupInv' BY DEF SetupInv, MasterInv, Fresh, Places, MasterSpurious
<1>3. (\A j \in Worker : Places(j))'
  BY DEF Places, MasterInv, SetupInv, Fresh, RoundInv, Started, Passed, MasterSpurious
<1>4. RoundInv' BY DEF RoundInv, Places, MasterInv, Passed, Started, Stopped, MasterSpurious
<1>5. ClausesInv' BY DEF ClausesInv, MasterInv, Existing, MasterSpurious
<1>6. InterruptInv' BY DEF InterruptInv, Places, MasterInv, MasterSpurious
<1>7. AnswersInv'
  BY DEF AnswersInv, Places, Reported, Current, Started, Passed, RoundInv, MasterInv,
         MasterSpurious
<1> QED BY <1>1, <1>2, <1>3, <1>4, <1>5, <1>6, <1>7

LEMMA InterruptOthersKeeps ==
    ASSUME IndInv, TypeInv', InterruptOthers
    PROVE  IndInv'
<1> USE NumberOfThreads, TypeFacts
<1> USE DEF IndInv, Goto, StepOr, Setup, Running, Killing, master, solver, comm
<1>1. MasterInv' BY DEF MasterInv, InterruptOthers
<1>2. SetupInv' BY DEF SetupInv, MasterInv, Fresh, Places, InterruptOthers
<1>3. (\A j \in Worker : Places(j))'
  BY DEF Places, MasterInv, SetupInv, Fresh, RoundInv, Started, Passed, InterruptOthers
<1>4. RoundInv' BY DEF RoundInv, Places, MasterInv, Passed, Started, Stopped, InterruptOthers
<1>5. ClausesInv' BY DEF ClausesInv, MasterInv, Existing, InterruptOthers
<1>6. InterruptInv' BY DEF InterruptInv, Places, MasterInv, InterruptOthers
<1>7. AnswersInv'
  BY DEF AnswersInv, Places, Reported, Current, Started, Passed, RoundInv, MasterInv,
         InterruptOthers
<1> QED BY <1>1, <1>2, <1>3, <1>4, <1>5, <1>6, <1>7

LEMMA ResetKeeps ==
    ASSUME IndInv, TypeInv', Reset
    PROVE  IndInv'
<1> USE NumberOfThreads, TypeFacts
<1> USE DEF IndInv, Goto, StepOr, Setup, Running, Killing, master, solver, comm
<1>1. MasterInv' BY DEF MasterInv, Reset
<1>2. SetupInv' BY DEF SetupInv, MasterInv, Fresh, Places, Reset
<1>3. (\A j \in Worker : Places(j))'
  BY DEF Places, MasterInv, SetupInv, Fresh, RoundInv, Started, Passed, Reset
<1>4. RoundInv' BY DEF RoundInv, Places, MasterInv, Passed, Started, Stopped, Reset
<1>5. ClausesInv' BY DEF ClausesInv, MasterInv, Existing, Reset
<1>6. InterruptInv' BY DEF InterruptInv, Places, MasterInv, Reset
<1>7. AnswersInv'
  BY DEF AnswersInv, Places, Reported, Current, Started, Passed, RoundInv, MasterInv, Reset
<1> QED BY <1>1, <1>2, <1>3, <1>4, <1>5, <1>6, <1>7

LEMMA CollectKeeps ==
    ASSUME IndInv, TypeInv', Collect
    PROVE  IndInv'
<1> USE NumberOfThreads, TypeFacts
<1> USE DEF IndInv, Goto, StepOr, Setup, Running, Killing, master, solver, comm
<1>1. MasterInv' BY DEF MasterInv, Collect
<1>2. SetupInv' BY DEF SetupInv, MasterInv, Fresh, Places, Collect
<1>3. (\A j \in Worker : Places(j))'
  BY DEF Places, MasterInv, SetupInv, Fresh, RoundInv, Started, Passed, Collect
<1>4. RoundInv' BY DEF RoundInv, Places, MasterInv, Passed, Started, Stopped, Collect
<1>5. ClausesInv' BY DEF ClausesInv, MasterInv, Existing, Collect
<1>6. InterruptInv' BY DEF InterruptInv, Places, MasterInv, Collect
<1>7. AnswersInv'
  BY DEF AnswersInv, Places, Reported, Current, Started, Passed, RoundInv, MasterInv, Collect
<1> QED BY <1>1, <1>2, <1>3, <1>4, <1>5, <1>6, <1>7

LEMMA AbortSetKeeps ==
    ASSUME IndInv, TypeInv', AbortSet
    PROVE  IndInv'
<1> USE NumberOfThreads, TypeFacts
<1> USE DEF IndInv, Goto, StepOr, Setup, Running, Killing, master, solver, comm
<1>1. MasterInv' BY DEF MasterInv, AbortSet
<1>2. SetupInv' BY DEF SetupInv, MasterInv, Fresh, Places, AbortSet
<1>3. (\A j \in Worker : Places(j))'
  BY DEF Places, MasterInv, SetupInv, Fresh, RoundInv, Started, Passed, AbortSet
<1>4. RoundInv' BY DEF RoundInv, Places, MasterInv, Passed, Started, Stopped, AbortSet
<1>5. ClausesInv' BY DEF ClausesInv, MasterInv, Existing, AbortSet
<1>6. InterruptInv' BY DEF InterruptInv, Places, MasterInv, AbortSet
<1>7. AnswersInv'
  BY DEF AnswersInv, Places, Reported, Current, Started, Passed, RoundInv, MasterInv, AbortSet
<1> QED BY <1>1, <1>2, <1>3, <1>4, <1>5, <1>6, <1>7

LEMMA AbortAwakeKeeps ==
    ASSUME IndInv, TypeInv', AbortAwake
    PROVE  IndInv'
<1> USE NumberOfThreads, TypeFacts
<1> USE DEF IndInv, Goto, StepOr, Setup, Running, Killing, master, solver, comm
<1>1. MasterInv' BY DEF MasterInv, AbortAwake, Awoken
<1>2. SetupInv' BY DEF SetupInv, MasterInv, Fresh, Places, AbortAwake, Awoken
<1>3. (\A j \in Worker : Places(j))'
  BY DEF Places, MasterInv, SetupInv, Fresh, RoundInv, Started, Passed, AbortAwake, Awoken
<1>4. RoundInv' BY DEF RoundInv, Places, MasterInv, Passed, Started, Stopped, AbortAwake, Awoken
<1>5. ClausesInv' BY DEF ClausesInv, MasterInv, Existing, AbortAwake, Awoken
<1>6. InterruptInv' BY DEF InterruptInv, Places, MasterInv, AbortAwake, Awoken
<1>7. AnswersInv'
  BY DEF AnswersInv, Places, Reported, Current, Started, Passed, RoundInv, MasterInv,
         AbortAwake, Awoken
<1> QED BY <1>1, <1>2, <1>3, <1>4, <1>5, <1>6, <1>7

LEMMA CancelKeeps ==
    ASSUME IndInv, TypeInv', Cancel
    PROVE  IndInv'
<1> USE NumberOfThreads, TypeFacts
<1> USE DEF IndInv, Goto, StepOr, Setup, Running, Killing, master, solver, comm
<1>1. MasterInv' BY DEF MasterInv, Cancel
<1>2. SetupInv' BY DEF SetupInv, MasterInv, Fresh, Places, Cancel
<1>3. (\A j \in Worker : Places(j))'
  BY DEF Places, MasterInv, SetupInv, Fresh, RoundInv, Started, Passed, Cancel
<1>4. RoundInv' BY DEF RoundInv, Places, MasterInv, Passed, Started, Stopped, Cancel
<1>5. ClausesInv' BY DEF ClausesInv, MasterInv, Existing, Cancel
<1>6. InterruptInv' BY DEF InterruptInv, Places, MasterInv, Cancel
<1>7. AnswersInv'
  BY DEF AnswersInv, Places, Reported, Current, Started, Passed, RoundInv, MasterInv, Cancel
<1> QED BY <1>1, <1>2, <1>3, <1>4, <1>5, <1>6, <1>7

LEMMA JoinKeeps ==
    ASSUME IndInv, TypeInv', Join
    PROVE  IndInv'
<1> USE NumberOfThreads, TypeFacts
<1> USE DEF IndInv, Goto, StepOr, Setup, Running, Killing, master, solver, comm
<1>1. MasterInv' BY DEF MasterInv, Join, Joinable
<1>2. SetupInv' BY DEF SetupInv, MasterInv, Fresh, Places, Join, Joinable
<1>3. (\A j \in Worker : Places(j))'
  BY DEF Places, MasterInv, SetupInv, Fresh, RoundInv, Started, Passed, Join, Joinable
<1>4. RoundInv' BY DEF RoundInv, Places, MasterInv, Passed, Started, Stopped, Join, Joinable
<1>5. ClausesInv' BY DEF ClausesInv, MasterInv, Existing, Join, Joinable
<1>6. InterruptInv' BY DEF InterruptInv, Places, MasterInv, Join, Joinable
<1>7. AnswersInv'
  BY DEF AnswersInv, Places, Reported, Current, Started, Passed, RoundInv, MasterInv, Join,
         Joinable
<1> QED BY <1>1, <1>2, <1>3, <1>4, <1>5, <1>6, <1>7

LEMMA EntryKeeps ==
    ASSUME IndInv, TypeInv', NEW i \in Worker, Entry(i)
    PROVE  IndInv'
<1> USE NumberOfThreads, TypeFacts
<1> USE DEF IndInv, Goto, StepOr, Setup, Running, Killing, master, solver, comm
<1>1. MasterInv' BY DEF MasterInv, Entry, FirstWait, WorkerFrame, WGoto
<1>2. SetupInv' BY DEF SetupInv, MasterInv, Fresh, Places, Entry, FirstWait, WorkerFrame, WGoto
<1>3. (\A j \in Worker : Places(j))'
  BY DEF Places, MasterInv, SetupInv, Fresh, RoundInv, Started, Passed, Entry, FirstWait,
         WorkerFrame, WGoto
<1>4. RoundInv'
  BY DEF RoundInv, Places, MasterInv, Passed, Started, Stopped, Entry, FirstWait, WorkerFrame, WGoto
<1>5. ClausesInv' BY DEF ClausesInv, MasterInv, Existing, Entry, FirstWait, WorkerFrame, WGoto
<1>6. InterruptInv' BY DEF InterruptInv, Places, MasterInv, Entry, FirstWait, WorkerFrame, WGoto
<1>7. AnswersInv'
  BY DEF AnswersInv, Places, Reported, Current, Started, Passed, RoundInv, MasterInv, Entry,
         FirstWait, WorkerFrame, WGoto
<1> QED BY <1>1, <1>2, <1>3, <1>4, <1>5, <1>6, <1>7

LEMMA SpuriousFirstKeeps ==
    ASSUME IndInv, TypeInv', NEW i \in Worker, SpuriousFirst(i)
    PROVE  IndInv'
<1> USE NumberOfThreads, TypeFacts
<1> USE DEF IndInv, Goto, StepOr, Setup, Running, Killing, master, solver, comm
<1>1. MasterInv' BY DEF MasterInv, SpuriousFirst, Awoken, WorkerFrame, WGoto
<1>2. SetupInv' BY DEF SetupInv, MasterInv, Fresh, Places, SpuriousFirst, Awoken, WorkerFrame, WGoto
<1>3. (\A j \in Worker : Places(j))'
  BY DEF Places, MasterInv, SetupInv, Fresh, RoundInv, Started, Passed, SpuriousFirst, Awoken,
         WorkerFrame, WGoto
<1>4. RoundInv'
  BY DEF RoundInv, Places, MasterInv, Passed, Started, Stopped, SpuriousFirst, Awoken, WorkerFrame, WGoto
<1>5. ClausesInv' BY DEF ClausesInv, MasterInv, Existing, SpuriousFirst, Awoken, WorkerFrame, WGoto
<1>6. InterruptInv' BY DEF InterruptInv, Places, MasterInv, SpuriousFirst, Awoken, WorkerFrame, WGoto
<1>7. AnswersInv'
  BY DEF AnswersInv, Places, Reported, Current, Started, Passed, RoundInv, MasterInv,
         SpuriousFirst, Awoken, WorkerFrame, WGoto
<1> QED BY <1>1, <1>2, <1>3, <1>4, <1>5, <1>6, <1>7

LEMMA CheckKeeps ==
    ASSUME IndInv, TypeInv', NEW i \in Worker, Check(i)
    PROVE  IndInv'
<1> USE NumberOfThreads, TypeFacts
<1> USE DEF IndInv, Goto, StepOr, Setup, Running, Killing, master, solver, comm
<1>1. MasterInv' BY DEF MasterInv, Check, WorkerFrame, WGoto
<1>2. SetupInv' BY DEF SetupInv, MasterInv, Fresh, Places, Check, WorkerFrame, WGoto
<1>3. (\A j \in Worker : Places(j))'
  BY DEF Places, MasterInv, SetupInv, Fresh, RoundInv, Started, Passed, Check, WorkerFrame,
         WGoto
<1>4. RoundInv' BY DEF RoundInv, Places, MasterInv, Passed, Started, Stopped, Check, WorkerFrame, WGoto
<1>5. ClausesInv' BY DEF ClausesInv, MasterInv, Existing, Check, WorkerFrame, WGoto
<1>6. InterruptInv' BY DEF InterruptInv, Places, MasterInv, Check, WorkerFrame, WGoto
<1>7. AnswersInv'
  BY DEF AnswersInv, Places, Reported, Current, Started, Passed, RoundInv, MasterInv, Check,
         WorkerFrame, WGoto
<1> QED BY <1>1, <1>2, <1>3, <1>4, <1>5, <1>6, <1>7

LEMMA DecideKeeps ==
    ASSUME IndInv, TypeInv', NEW i \in Worker, Decide(i)
    PROVE  IndInv'
<1> USE NumberOfThreads, TypeFacts
<1> USE DEF IndInv, Goto, StepOr, Setup, Running, Killing, master, solver, comm
<1>1. MasterInv' BY DEF MasterInv, Decide, WorkerFrame, WGoto
<1>2. SetupInv' BY DEF SetupInv, MasterInv, Fresh, Places, Decide, WorkerFrame, WGoto
<1>3. (\A j \in Worker : Places(j))'
  BY DEF Places, MasterInv, SetupInv, Fresh, RoundInv, Started, Passed, Decide, WorkerFrame,
         WGoto
<1>4. RoundInv' BY DEF RoundInv, Places, MasterInv, Passed, Started, Stopped, Decide, WorkerFrame, WGoto
<1>5. ClausesInv' BY DEF ClausesInv, MasterInv, Existing, Decide, WorkerFrame, WGoto
<1>6. InterruptInv' BY DEF InterruptInv, Places, MasterInv, Decide, WorkerFrame, WGoto
<1>7. AnswersInv'
  <2> SUFFICES ASSUME "spurious" \notin faults PROVE AnswersInv'
    BY DEF AnswersInv, Decide, WorkerFrame
  <2>1. /\ wpc[i] = "solve" /\ wpc' = [wpc EXCEPT ![i] = "report"]
        /\ \A j \in Worker : j # i => ret'[j] = ret[j]
        /\ ret'[i].clauses = db[i]
        /\ UNCHANGED <<mpc, mi, given, state, winner>>
    BY DEF Decide, WGoto, WorkerFrame
  <2>2. state[i] = "working" /\ Started(i) BY <2>1, BusyWorks DEF Busy
  <2>3. db[i] = given BY <2>2 DEF ClausesInv, MasterInv, Started
  <2>4. \A j \in Worker : Started(j)' <=> Started(j) BY <2>1 DEF Started, Passed
  <2> QED BY <2>1, <2>2, <2>3, <2>4 DEF AnswersInv, Current, Reported
<1> QED BY <1>1, <1>2, <1>3, <1>4, <1>5, <1>6, <1>7

LEMMA GiveUpKeeps ==
    ASSUME IndInv, TypeInv', NEW i \in Worker, GiveUp(i)
    PROVE  IndInv'
<1> USE NumberOfThreads, TypeFacts
<1> USE DEF IndInv, Goto, StepOr, Setup, Running, Killing, master, solver, comm
<1>1. MasterInv' BY DEF MasterInv, GiveUp, NoAnswer, WorkerFrame, WGoto
<1>2. SetupInv' BY DEF SetupInv, MasterInv, Fresh, Places, GiveUp, NoAnswer, WorkerFrame, WGoto
<1>3. (\A j \in Worker : Places(j))'
  BY DEF Places, MasterInv, SetupInv, Fresh, RoundInv, Started, Passed, GiveUp, NoAnswer,
         WorkerFrame, WGoto
<1>4. RoundInv'
  BY DEF RoundInv, Places, MasterInv, Passed, Started, Stopped, GiveUp, NoAnswer, WorkerFrame, WGoto
<1>5. ClausesInv' BY DEF ClausesInv, MasterInv, Existing, GiveUp, NoAnswer, WorkerFrame, WGoto
<1>6. InterruptInv' BY DEF InterruptInv, Places, MasterInv, GiveUp, NoAnswer, WorkerFrame, WGoto
<1>7. AnswersInv'
  BY DEF AnswersInv, Places, Reported, Current, Started, Passed, RoundInv, MasterInv, GiveUp,
         NoAnswer, WorkerFrame, WGoto
<1> QED BY <1>1, <1>2, <1>3, <1>4, <1>5, <1>6, <1>7

LEMMA ReportKeeps ==
    ASSUME IndInv, TypeInv', NEW i \in Worker, Report(i)
    PROVE  IndInv'
<1> USE NumberOfThreads, TypeFacts
<1> USE DEF IndInv, Goto, StepOr, Setup, Running, Killing, master, solver, comm
<1>1. MasterInv' BY DEF MasterInv, Report, WorkerFrame, WGoto
<1>2. SetupInv' BY DEF SetupInv, MasterInv, Fresh, Places, Report, WorkerFrame, WGoto
<1>3. (\A j \in Worker : Places(j))'
  BY DEF Places, MasterInv, SetupInv, Fresh, RoundInv, Started, Passed, Report, WorkerFrame,
         WGoto
<1>4. RoundInv' BY DEF RoundInv, Places, MasterInv, Passed, Started, Stopped, Report, WorkerFrame, WGoto
<1>5. ClausesInv' BY DEF ClausesInv, MasterInv, Existing, Report, WorkerFrame, WGoto
<1>6. InterruptInv' BY DEF InterruptInv, Places, MasterInv, Report, WorkerFrame, WGoto
<1>7. AnswersInv'
  <2> SUFFICES ASSUME "spurious" \notin faults PROVE AnswersInv'
    BY DEF AnswersInv, Report, WorkerFrame
  <2>1. /\ wpc[i] = "report" /\ wpc' = [wpc EXCEPT ![i] = "finish"]
        /\ winner' = [winner EXCEPT ![i] = winner[i] \/ ret[i].val # "undef"]
        /\ UNCHANGED <<mpc, mi, given, state, ret>>
    BY DEF Report, WGoto, WorkerFrame
  <2>2. state[i] = "working" /\ Started(i) BY <2>1, BusyWorks DEF Busy
  <2>3. ~ winner[i] /\ Current(i) BY <2>1, <2>2 DEF AnswersInv
  <2>4. winner'[i] <=> ret[i].val # "undef" BY <2>1, <2>3
  <2>5. \A j \in Worker : j # i => winner'[j] = winner[j] BY <2>1
  <2>6. \A j \in Worker : (Started(j)' <=> Started(j)) /\ (Current(j)' <=> Current(j))
    BY <2>1 DEF Started, Passed, Current
  <2>7. Reported(i)' BY <2>1, <2>3, <2>4 DEF Reported, Current
  <2>8. ASSUME NEW j \in Worker, j # i, Reported(j) PROVE Reported(j)'
    BY <2>1, <2>5, <2>6, <2>8 DEF Reported
  <2> QED BY <2>1, <2>2, <2>3, <2>5, <2>6, <2>7, <2>8 DEF AnswersInv
<1> QED BY <1>1, <1>2, <1>3, <1>4, <1>5, <1>6, <1>7

LEMMA FinishKeeps ==
    ASSUME IndInv, TypeInv', NEW i \in Worker, Finish(i)
    PROVE  IndInv'
<1> USE NumberOfThreads, TypeFacts
<1> USE DEF IndInv, Goto, StepOr, Setup, Running, Killing, master, solver, comm
<1>1. MasterInv' BY DEF MasterInv, Finish, WorkerFrame, WGoto
<1>2. SetupInv' BY DEF SetupInv, MasterInv, Fresh, Places, Finish, WorkerFrame, WGoto
<1>3. (\A j \in Worker : Places(j))'
  BY DEF Places, MasterInv, SetupInv, Fresh, RoundInv, Started, Passed, Finish, WorkerFrame,
         WGoto
<1>4. RoundInv' BY DEF RoundInv, Places, MasterInv, Passed, Started, Stopped, Finish, WorkerFrame, WGoto
<1>5. ClausesInv' BY DEF ClausesInv, MasterInv, Existing, Finish, WorkerFrame, WGoto
<1>6. InterruptInv' BY DEF InterruptInv, Places, MasterInv, Finish, WorkerFrame, WGoto
<1>7. AnswersInv'
  BY DEF AnswersInv, Places, Reported, Current, Started, Passed, RoundInv, MasterInv, Finish,
         WorkerFrame, WGoto
<1> QED BY <1>1, <1>2, <1>3, <1>4, <1>5, <1>6, <1>7

LEMMA TellKeeps ==
    ASSUME IndInv, TypeInv', NEW i \in Worker, Tell(i)
    PROVE  IndInv'
<1> USE NumberOfThreads, TypeFacts
<1> USE DEF IndInv, Goto, StepOr, Setup, Running, Killing, master, solver, comm
<1>1. MasterInv' BY DEF MasterInv, Tell, AwakeMaster, WorkerFrame, WGoto
<1>2. SetupInv' BY DEF SetupInv, MasterInv, Fresh, Places, Tell, AwakeMaster, WorkerFrame, WGoto
<1>3. (\A j \in Worker : Places(j))'
  BY DEF Places, MasterInv, SetupInv, Fresh, RoundInv, Started, Passed, Tell, AwakeMaster,
         WorkerFrame, WGoto
<1>4. RoundInv'
  BY DEF RoundInv, Places, MasterInv, Passed, Started, Stopped, Tell, AwakeMaster, WorkerFrame, WGoto
<1>5. ClausesInv' BY DEF ClausesInv, MasterInv, Existing, Tell, AwakeMaster, WorkerFrame, WGoto
<1>6. InterruptInv' BY DEF InterruptInv, Places, MasterInv, Tell, AwakeMaster, WorkerFrame, WGoto
<1>7. AnswersInv'
  BY DEF AnswersInv, Places, Reported, Current, Started, Passed, RoundInv, MasterInv, Tell,
         AwakeMaster, WorkerFrame, WGoto
<1> QED BY <1>1, <1>2, <1>3, <1>4, <1>5, <1>6, <1>7

\* Only a thread that was told to stop and woken up is inside a wait.
LEMMA CancelledKeeps ==
    ASSUME IndInv, TypeInv', NEW i \in Worker, Cancelled(i)
    PROVE  IndInv'
<1> USE NumberOfThreads, TypeFacts
<1> USE DEF IndInv, Goto, StepOr, Setup, Running, Killing, master, solver, comm
<1>1. MasterInv' BY DEF MasterInv, Cancelled, InWait, WorkerFrame, WGoto
<1>2. SetupInv' BY DEF SetupInv, MasterInv, Fresh, Places, Cancelled, InWait, WorkerFrame, WGoto
<1>3. (\A j \in Worker : Places(j))'
  <2>1. mpc = "join" /\ state[i] = "aborted" BY DEF Cancelled, RoundInv, Stopped
  <2>2. wpc' = [wpc EXCEPT ![i] = "cancelled"] /\ UNCHANGED <<faults, mpc, mi, initialized, state>>
    BY DEF Cancelled, WGoto, WorkerFrame
  <2> SUFFICES ASSUME NEW j \in Worker PROVE Places(j)' OBVIOUS
  <2>3. CASE j = i BY <2>1, <2>2, <2>3 DEF Places
  <2>4. CASE j # i
    <3>1. Places(j) /\ wpc'[j] = wpc[j] BY <2>2, <2>4
    <3> QED BY <2>1, <2>2, <3>1 DEF Places, Started, Passed
  <2> QED BY <2>3, <2>4
<1>4. RoundInv'
  BY DEF RoundInv, Places, MasterInv, Passed, Started, Stopped, Cancelled, InWait,
         WorkerFrame, WGoto
<1>5. ClausesInv' BY DEF ClausesInv, MasterInv, Existing, Cancelled, InWait, WorkerFrame, WGoto
<1>6. InterruptInv' BY DEF InterruptInv, Places, MasterInv, Cancelled, InWait, WorkerFrame, WGoto
<1>7. AnswersInv'
  BY DEF AnswersInv, Places, Reported, Current, Started, Passed, RoundInv, MasterInv,
         Cancelled, InWait, WorkerFrame, WGoto
<1> QED BY <1>1, <1>2, <1>3, <1>4, <1>5, <1>6, <1>7

LEMMA LookKeeps ==
    ASSUME IndInv, TypeInv', NEW i \in Worker, Look(i)
    PROVE  IndInv'
<1> USE NumberOfThreads, TypeFacts
<1> USE DEF IndInv, Goto, StepOr, Setup, Running, Killing, master, solver, comm
<1>1. MasterInv' BY DEF MasterInv, Look, WorkerFrame, WGoto
<1>2. SetupInv' BY DEF SetupInv, MasterInv, Fresh, Places, Look, WorkerFrame, WGoto
<1>3. (\A j \in Worker : Places(j))'
  BY DEF Places, MasterInv, SetupInv, Fresh, RoundInv, Started, Passed, Look, WorkerFrame,
         WGoto
<1>4. RoundInv' BY DEF RoundInv, Places, MasterInv, Passed, Started, Stopped, Look, WorkerFrame, WGoto
<1>5. ClausesInv' BY DEF ClausesInv, MasterInv, Existing, Look, WorkerFrame, WGoto
<1>6. InterruptInv' BY DEF InterruptInv, Places, MasterInv, Look, WorkerFrame, WGoto
<1>7. AnswersInv'
  BY DEF AnswersInv, Places, Reported, Current, Started, Passed, RoundInv, MasterInv, Look,
         WorkerFrame, WGoto
<1> QED BY <1>1, <1>2, <1>3, <1>4, <1>5, <1>6, <1>7

LEMMA SpuriousWaitKeeps ==
    ASSUME IndInv, TypeInv', NEW i \in Worker, SpuriousWait(i)
    PROVE  IndInv'
<1> USE NumberOfThreads, TypeFacts
<1> USE DEF IndInv, Goto, StepOr, Setup, Running, Killing, master, solver, comm
<1>1. MasterInv' BY DEF MasterInv, SpuriousWait, Awoken, WorkerFrame, WGoto
<1>2. SetupInv' BY DEF SetupInv, MasterInv, Fresh, Places, SpuriousWait, Awoken, WorkerFrame, WGoto
<1>3. (\A j \in Worker : Places(j))'
  BY DEF Places, MasterInv, SetupInv, Fresh, RoundInv, Started, Passed, SpuriousWait, Awoken,
         WorkerFrame, WGoto
<1>4. RoundInv'
  BY DEF RoundInv, Places, MasterInv, Passed, Started, Stopped, SpuriousWait, Awoken, WorkerFrame, WGoto
<1>5. ClausesInv' BY DEF ClausesInv, MasterInv, Existing, SpuriousWait, Awoken, WorkerFrame, WGoto
<1>6. InterruptInv' BY DEF InterruptInv, Places, MasterInv, SpuriousWait, Awoken, WorkerFrame, WGoto
<1>7. AnswersInv'
  BY DEF AnswersInv, Places, Reported, Current, Started, Passed, RoundInv, MasterInv,
         SpuriousWait, Awoken, WorkerFrame, WGoto
<1> QED BY <1>1, <1>2, <1>3, <1>4, <1>5, <1>6, <1>7

LEMMA AskStateKeeps ==
    ASSUME IndInv, TypeInv', NEW i \in Worker, AskState(i)
    PROVE  IndInv'
<1> USE NumberOfThreads, TypeFacts
<1> USE DEF IndInv, Goto, StepOr, Setup, Running, Killing, master, solver, comm
<1>1. MasterInv' BY DEF MasterInv, AskState, WorkerFrame, WGoto
<1>2. SetupInv' BY DEF SetupInv, MasterInv, Fresh, Places, AskState, WorkerFrame, WGoto
<1>3. (\A j \in Worker : Places(j))'
  <2>1. wpc[i] = "solve" /\ state[i] # "working" BY DEF AskState
  <2>2. "spurious" \in faults /\ state[i] # "aborted" BY <2>1, BusyWorks DEF Busy, Places
  <2>3. wpc' = [wpc EXCEPT ![i] = "park"] /\ UNCHANGED <<faults, mpc, state, initialized>>
    BY <2>2 DEF AskState, WGoto, WorkerFrame
  <2> QED BY <2>1, <2>2, <2>3 DEF Places, State
<1>4. RoundInv' BY DEF RoundInv, Places, MasterInv, Passed, Started, Stopped, AskState, WorkerFrame, WGoto
<1>5. ClausesInv' BY DEF ClausesInv, MasterInv, Existing, AskState, WorkerFrame, WGoto
<1>6. InterruptInv' BY DEF InterruptInv, Places, MasterInv, AskState, WorkerFrame, WGoto
<1>7. AnswersInv'
  BY DEF AnswersInv, Places, Reported, Current, Started, Passed, RoundInv, MasterInv, AskState,
         WorkerFrame, WGoto
<1> QED BY <1>1, <1>2, <1>3, <1>4, <1>5, <1>6, <1>7

LEMMA SetWaitingKeeps ==
    ASSUME IndInv, TypeInv', NEW i \in Worker, SetWaiting(i)
    PROVE  IndInv'
<1> USE NumberOfThreads, TypeFacts
<1> USE DEF IndInv, Goto, StepOr, Setup, Running, Killing, master, solver, comm
<1>1. MasterInv' BY DEF MasterInv, SetWaiting, WorkerFrame, WGoto
<1>2. SetupInv' BY DEF SetupInv, MasterInv, Fresh, Places, SetWaiting, WorkerFrame, WGoto
<1>3. (\A j \in Worker : Places(j))'
  BY DEF Places, MasterInv, SetupInv, Fresh, RoundInv, Started, Passed, SetWaiting,
         WorkerFrame, WGoto
<1>4. RoundInv'
  BY DEF RoundInv, Places, MasterInv, Passed, Started, Stopped, SetWaiting, WorkerFrame, WGoto
<1>5. ClausesInv' BY DEF ClausesInv, MasterInv, Existing, SetWaiting, WorkerFrame, WGoto
<1>6. InterruptInv' BY DEF InterruptInv, Places, MasterInv, SetWaiting, WorkerFrame, WGoto
<1>7. AnswersInv'
  BY DEF AnswersInv, Places, Reported, Current, Started, Passed, RoundInv, MasterInv,
         SetWaiting, WorkerFrame, WGoto
<1> QED BY <1>1, <1>2, <1>3, <1>4, <1>5, <1>6, <1>7

LEMMA ParkTellKeeps ==
    ASSUME IndInv, TypeInv', NEW i \in Worker, ParkTell(i)
    PROVE  IndInv'
<1> USE NumberOfThreads, TypeFacts
<1> USE DEF IndInv, Goto, StepOr, Setup, Running, Killing, master, solver, comm
<1>1. MasterInv' BY DEF MasterInv, ParkTell, AwakeMaster, WorkerFrame, WGoto
<1>2. SetupInv'
  BY DEF SetupInv, MasterInv, Fresh, Places, ParkTell, AwakeMaster, WorkerFrame, WGoto
<1>3. (\A j \in Worker : Places(j))'
  BY DEF Places, MasterInv, SetupInv, Fresh, RoundInv, Started, Passed, ParkTell, AwakeMaster,
         WorkerFrame, WGoto
<1>4. RoundInv'
  BY DEF RoundInv, Places, MasterInv, Passed, Started, Stopped, ParkTell, AwakeMaster, WorkerFrame,
         WGoto
<1>5. ClausesInv'
  BY DEF ClausesInv, MasterInv, Existing, ParkTell, AwakeMaster, WorkerFrame, WGoto
<1>6. InterruptInv'
  BY DEF InterruptInv, Places, MasterInv, ParkTell, AwakeMaster, WorkerFrame, WGoto
<1>7. AnswersInv'
  BY DEF AnswersInv, Places, Reported, Current, Started, Passed, RoundInv, MasterInv, ParkTell,
         AwakeMaster, WorkerFrame, WGoto
<1> QED BY <1>1, <1>2, <1>3, <1>4, <1>5, <1>6, <1>7

LEMMA ParkLookKeeps ==
    ASSUME IndInv, TypeInv', NEW i \in Worker, ParkLook(i)
    PROVE  IndInv'
<1> USE NumberOfThreads, TypeFacts
<1> USE DEF IndInv, Goto, StepOr, Setup, Running, Killing, master, solver, comm
<1>1. MasterInv' BY DEF MasterInv, ParkLook, WorkerFrame, WGoto
<1>2. SetupInv' BY DEF SetupInv, MasterInv, Fresh, Places, ParkLook, WorkerFrame, WGoto
<1>3. (\A j \in Worker : Places(j))'
  BY DEF Places, MasterInv, SetupInv, Fresh, RoundInv, Started, Passed, ParkLook, WorkerFrame,
         WGoto
<1>4. RoundInv' BY DEF RoundInv, Places, MasterInv, Passed, Started, Stopped, ParkLook, WorkerFrame, WGoto
<1>5. ClausesInv' BY DEF ClausesInv, MasterInv, Existing, ParkLook, WorkerFrame, WGoto
<1>6. InterruptInv' BY DEF InterruptInv, Places, MasterInv, ParkLook, WorkerFrame, WGoto
<1>7. AnswersInv'
  BY DEF AnswersInv, Places, Reported, Current, Started, Passed, RoundInv, MasterInv, ParkLook,
         WorkerFrame, WGoto
<1> QED BY <1>1, <1>2, <1>3, <1>4, <1>5, <1>6, <1>7

LEMMA InitInv == Init => IndInv
<1> SUFFICES ASSUME Init PROVE IndInv OBVIOUS
<1>1. TypeInv BY InitType
<1>2. MasterInv /\ SetupInv BY DEF Init, MasterInv, SetupInv, Fresh, Setup, Running, Killing
<1>3. \A i \in Worker : Places(i) BY DEF Init, Places, Started
<1>4. RoundInv /\ ClausesInv /\ InterruptInv BY NumberOfThreads
      DEF Init, RoundInv, ClausesInv, InterruptInv, Killing
<1>5. AnswersInv BY DEF Init, AnswersInv, Started
<1> QED BY <1>1, <1>2, <1>3, <1>4, <1>5 DEF IndInv

LEMMA NextInv == IndInv /\ [Next]_vars => IndInv'
<1> SUFFICES ASSUME IndInv, [Next]_vars PROVE IndInv' OBVIOUS
<1>1. TypeInv' BY NextType DEF IndInv
<1>2. CASE NewVar BY <1>1, <1>2, NewVarKeeps
<1>3. ASSUME NEW v \in 1 .. MaxVars, AddClause(v) PROVE IndInv' BY <1>1, <1>3, AddClauseKeeps
<1>4. CASE Interrupt BY <1>1, <1>4, InterruptKeeps
<1>5. ASSUME NEW as \in Assumptions, CallSolve(as) PROVE IndInv' BY <1>1, <1>5, CallSolveKeeps
<1>6. CASE Kill BY <1>1, <1>6, KillKeeps
<1>7. CASE Simplify BY <1>1, <1>7, SimplifyKeeps
<1>8. CASE Spawn BY <1>1, <1>8, SpawnKeeps
<1>9. CASE Clone BY <1>1, <1>9, CloneKeeps
<1>10. CASE Prepare BY <1>1, <1>10, PrepareKeeps
<1>11. CASE StartSet BY <1>1, <1>11, StartSetKeeps
<1>12. CASE StartAwake BY <1>1, <1>12, StartAwakeKeeps
<1>13. CASE Scan BY <1>1, <1>13, ScanKeeps
<1>14. CASE MasterSpurious BY <1>1, <1>14, MasterSpuriousKeeps
<1>15. CASE InterruptOthers BY <1>1, <1>15, InterruptOthersKeeps
<1>16. CASE Reset BY <1>1, <1>16, ResetKeeps
<1>17. CASE Collect BY <1>1, <1>17, CollectKeeps
<1>18. CASE AbortSet BY <1>1, <1>18, AbortSetKeeps
<1>19. CASE AbortAwake BY <1>1, <1>19, AbortAwakeKeeps
<1>20. CASE Join BY <1>1, <1>20, JoinKeeps
<1>21. ASSUME NEW i \in Worker, WorkerStep(i) \/ Solving(i) \/ SpuriousFirst(i) \/ SpuriousWait(i)
       PROVE  IndInv'
  <2> USE <1>1
  <2>1. CASE Entry(i) BY <2>1, EntryKeeps
  <2>2. CASE SpuriousFirst(i) BY <2>2, SpuriousFirstKeeps
  <2>3. CASE Check(i) BY <2>3, CheckKeeps
  <2>4. CASE Decide(i) BY <2>4, DecideKeeps
  <2>5. CASE GiveUp(i) BY <2>5, GiveUpKeeps
  <2>6. CASE Report(i) BY <2>6, ReportKeeps
  <2>7. CASE Finish(i) BY <2>7, FinishKeeps
  <2>8. CASE Tell(i) BY <2>8, TellKeeps
  <2>9. CASE Look(i) BY <2>9, LookKeeps
  <2>10. CASE SpuriousWait(i) BY <2>10, SpuriousWaitKeeps
  <2>11. CASE AskState(i) BY <2>11, AskStateKeeps
  <2>12. CASE SetWaiting(i) BY <2>12, SetWaitingKeeps
  <2>13. CASE ParkTell(i) BY <2>13, ParkTellKeeps
  <2>14. CASE ParkLook(i) BY <2>14, ParkLookKeeps
  <2>15. CASE Cancelled(i) BY <2>15, CancelledKeeps
  <2> QED BY <1>21, <2>1, <2>2, <2>3, <2>4, <2>5, <2>6, <2>7, <2>8, <2>9, <2>10, <2>11, <2>12, <2>13, <2>14, <2>15
      DEF WorkerStep, Solving
<1>22. CASE UNCHANGED vars
  <2> USE <1>22 DEF vars, master, solver, comm
  <2>1. MasterInv' /\ SetupInv' BY DEF IndInv, MasterInv, SetupInv, Fresh
  <2>2. (\A i \in Worker : Places(i))' BY DEF IndInv, Places, Started, Passed
  <2>3. RoundInv' /\ ClausesInv' /\ InterruptInv'
    BY DEF IndInv, RoundInv, ClausesInv, InterruptInv, Passed, Stopped
  <2>4. AnswersInv' BY DEF IndInv, AnswersInv, Reported, Current, Started, Passed
  <2> QED BY <1>1, <2>1, <2>2, <2>3, <2>4 DEF IndInv
<1>23. CASE Cancel BY <1>1, <1>23, CancelKeeps
<1> QED BY <1>2, <1>3, <1>4, <1>5, <1>6, <1>7, <1>8, <1>9, <1>10, <1>11, <1>12, <1>13, <1>14, <1>15,
           <1>16, <1>17, <1>18, <1>19, <1>20, <1>21, <1>22, <1>23
    DEF Next, Client, MasterStep, Done

LEMMA Invariant == Spec => []IndInv
BY InitInv, NextInv, PTL DEF Spec

-----------------------------------------------------------------------------
(* The theorems *)

\* All variables of the master, the threads and their communicators keep their
\* types, whoever wakes up, is interrupted or cannot be created.
THEOREM TypeCorrect == Spec => []TypeOK
<1>1. IndInv => TypeOK BY DEF IndInv, TypeInv
<1> QED BY <1>1, Invariant, PTL

\* When a call of solveLimited has waited for all threads, and as long as the
\* client may call, no thread uses a solver, whether a thread started too early or
\* another one could not be created.
THEOREM NobodyUsesASolverBetweenCalls == Spec => []QuietBetweenRounds
<1>1. IndInv => QuietBetweenRounds
  <2> SUFFICES ASSUME IndInv, ~ {"spurious", "create"} \subseteq faults,
                      mpc \in {"reset", "collect", "api"}, NEW i \in Worker
               PROVE  ~ Busy(i)
    BY DEF QuietBetweenRounds
  <2>1. CASE mpc \in {"reset", "collect"} \/ initialized
    <3>1. state[i] = "finished" BY <2>1 DEF IndInv, RoundInv
    <3> QED BY <3>1, BusyWorks
  <2>2. CASE mpc = "api" /\ ~ initialized
    <3>1. CASE Fresh BY <3>1 DEF Fresh, Busy
    <3>2. CASE "create" \in faults
      <4>1. "spurious" \notin faults /\ ~ Started(i) BY <2>2, <3>2 DEF Started
      <4> QED BY <4>1, BusyWorks
    <3> QED BY <2>2, <3>1, <3>2 DEF IndInv, SetupInv
  <2> QED BY <2>1, <2>2
<1> QED BY <1>1, Invariant, PTL

\* The master takes back every interrupt of a round before the next one, so that
\* no solver gives up because of an old one.
THEOREM NoOldInterrupts == Spec => []InterruptsAreOver
<1>1. IndInv => InterruptsAreOver BY DEF IndInv, InterruptInv, InterruptsAreOver, Killing
<1> QED BY <1>1, Invariant, PTL

\* A thread dies where it is cancelled and nowhere else.
LEMMA Dies ==
    ASSUME IndInv, [Next]_vars, NEW i \in Worker, wpc[i] # "cancelled", wpc'[i] = "cancelled"
    PROVE  Cancelled(i)
<1> USE TypeFacts, NumberOfThreads DEF IndInv
<1>1. CASE Client \/ Done \/ UNCHANGED vars
  BY <1>1 DEF Client, NewVar, Interrupt, Kill, AddClause, CallSolve, Done, vars
<1>2. CASE Spawn BY <1>2 DEF Spawn
<1>3. CASE StartAwake \/ AbortAwake BY <1>3 DEF StartAwake, AbortAwake, Awoken
<1>4. CASE Simplify \/ Clone \/ Prepare \/ StartSet \/ Scan \/ InterruptOthers \/ Reset \/ Collect
           \/ AbortSet \/ Cancel \/ Join \/ MasterSpurious
  BY <1>4 DEF Simplify, Clone, Prepare, StartSet, Scan, InterruptOthers, Reset, Collect, AbortSet, Cancel,
              Join, MasterSpurious
<1>5. ASSUME NEW k \in Worker, WorkerStep(k) \/ Solving(k) \/ SpuriousFirst(k) \/ SpuriousWait(k)
      PROVE  Cancelled(i)
  <2> USE DEF WGoto
  <2>1. CASE Entry(k) \/ Check(k) \/ Look(k) \/ Report(k) \/ Finish(k) \/ Tell(k)
    BY <2>1 DEF Entry, Check, Look, Report, Finish, Tell
  <2>2. CASE SpuriousFirst(k) \/ SpuriousWait(k)
    BY <2>2 DEF SpuriousFirst, SpuriousWait, Awoken
  <2>3. CASE SetWaiting(k) \/ ParkTell(k) \/ ParkLook(k) \/ AskState(k)
    BY <2>3 DEF SetWaiting, ParkTell, ParkLook, AskState
  <2>4. CASE Decide(k) \/ GiveUp(k) BY <2>4 DEF Decide, GiveUp
  <2>5. CASE Cancelled(k) BY <2>5 DEF Cancelled
  <2> QED BY <1>5, <2>1, <2>2, <2>3, <2>4, <2>5 DEF WorkerStep, Solving
<1> QED BY <1>1, <1>2, <1>3, <1>4, <1>5 DEF Next, MasterStep

\* pthread_cancel ends a thread only in its wait between two tasks, after it was
\* told to stop and was woken up.
THEOREM NoTaskIsCancelled == Spec => CancelEndsNoTask
<1>1. IndInv /\ [Next]_vars =>
         [\A i \in Worker : wpc[i] # "cancelled" /\ wpc'[i] = "cancelled" =>
             wpc[i] = "woken" /\ state[i] = "aborted"]_vars
  <2> SUFFICES ASSUME IndInv, [Next]_vars, NEW i \in Worker, wpc[i] # "cancelled", wpc'[i] = "cancelled"
               PROVE  wpc[i] = "woken" /\ state[i] = "aborted"
    OBVIOUS
  <2>1. mpc = "join" /\ InWait(i) BY Dies DEF Cancelled
  <2>2. state[i] = "aborted" /\ wpc[i] # "wait" BY <2>1 DEF IndInv, RoundInv, Killing, Stopped
  <2> QED BY <2>1, <2>2 DEF IndInv, Places, InWait
<1> QED BY <1>1, Invariant, PTL DEF Spec, CancelEndsNoTask

\* After kill() all threads have ended, where all could be created.
THEOREM AllThreadsEnd == Spec => []NoThreadLeft
<1>1. IndInv => NoThreadLeft
  <2> SUFFICES ASSUME IndInv, "create" \notin faults, mpc = "done", NEW i \in Worker
               PROVE  wpc[i] \in {"none", "exit", "cancelled"}
    BY DEF NoThreadLeft
  <2>1. CASE initialized BY <2>1 DEF IndInv, RoundInv
  <2>2. CASE ~ initialized BY <2>2 DEF IndInv, SetupInv, Fresh
  <2> QED BY <2>1, <2>2
<1> QED BY <1>1, Invariant, PTL

\* Which steps end a call, and with which answer.
LEMMA CallEnds ==
    ASSUME IndInv, [Next]_vars, mpc # "api", mpc' = "api", "spurious" \notin faults
    PROVE  \/ result'.val = "undef" /\ mpc # "collect"
           \/ result'.clauses = given /\ mpc # "collect"
           \/ /\ mpc = "collect" /\ result' = ret[WinningSolver]
              /\ \A i \in Worker : Reported(i)
<1> USE DEF Goto, StepOr
<1>1. CASE Simplify BY <1>1 DEF Simplify, IndInv, ClausesInv, MasterInv
<1>2. CASE Spawn BY <1>2 DEF Spawn, IndInv, MasterInv
<1>3. CASE Collect
  <2>1. \A i \in Worker : Started(i) /\ state[i] = "finished"
    BY <1>3 DEF Collect, Started, IndInv, RoundInv
  <2> QED BY <1>3, <2>1 DEF Collect, IndInv, AnswersInv
<1>4. CASE Client BY <1>4 DEF Client, NewVar, Interrupt, Kill, AddClause, CallSolve, master
<1>5. CASE Clone \/ Prepare \/ StartSet \/ StartAwake \/ AbortSet \/ AbortAwake
           \/ Cancel \/ Join
  BY <1>5 DEF Clone, Prepare, StartSet, StartAwake, AbortSet, AbortAwake, Cancel, Join
<1>6. CASE Scan \/ MasterSpurious \/ InterruptOthers \/ Reset
  BY <1>6 DEF Scan, AfterWait, MasterSpurious, InterruptOthers, Reset
<1>7. CASE \E i \in Worker : WorkerStep(i) \/ Solving(i) \/ SpuriousFirst(i) \/ SpuriousWait(i)
  <2>1. mpc' \in {mpc, "scan"}
    BY <1>7 DEF WorkerStep, Solving, SpuriousFirst, SpuriousWait, Entry, Check, Report, Finish, Tell,
                Look, SetWaiting, ParkTell, ParkLook, Cancelled, Decide, GiveUp, AskState, AwakeMaster
  <2> QED BY <2>1
<1>8. CASE UNCHANGED vars BY <1>8 DEF vars, master
<1> QED BY <1>1, <1>2, <1>3, <1>4, <1>5, <1>6, <1>7, <1>8 DEF Next, MasterStep, Done

\* What solveLimited returns was found for all clauses the client has added, by
\* the simplifier or by a thread in this round.
THEOREM AnswersAreCurrent == Spec => AnswersTheFormula
<1>1. IndInv /\ [Next]_vars =>
         [("spurious" \notin faults /\ mpc # "api" /\ mpc' = "api" /\ result'.val # "undef") =>
             result'.clauses = given]_vars
  <2> SUFFICES ASSUME IndInv, [Next]_vars, "spurious" \notin faults, mpc # "api", mpc' = "api", result'.val # "undef"
               PROVE  result'.clauses = given
    OBVIOUS
  <2>1. WinningSolver \in Worker BY WinnerFacts DEF IndInv
  <2> QED BY <2>1, CallEnds DEF Reported, Current
<1> QED BY <1>1, Invariant, PTL DEF Spec, AnswersTheFormula

\* If any thread has found an answer in this round, solveLimited returns one.
THEOREM AnswersAreReturned == Spec => NoAnswerLost
<1>1. IndInv /\ [Next]_vars =>
         [("spurious" \notin faults /\ mpc = "collect" /\ mpc' = "api"
             /\ \E i \in Worker : ret[i].val # "undef") => result'.val # "undef"]_vars
  <2> SUFFICES ASSUME IndInv, [Next]_vars, "spurious" \notin faults, mpc = "collect", mpc' = "api",
                      NEW i \in Worker, ret[i].val # "undef"
               PROVE  result'.val # "undef"
    OBVIOUS
  <2>1. result' = ret[WinningSolver] /\ Reported(i) BY CallEnds
  <2>2. winner[i] BY <2>1 DEF Reported
  <2> QED BY <2>1, <2>2, WinnerFacts DEF IndInv
<1> QED BY <1>1, Invariant, PTL DEF Spec, NoAnswerLost
==============================================================================
