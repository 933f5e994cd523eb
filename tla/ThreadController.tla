--------------------------- MODULE ThreadController ---------------------------
(***************************************************************************)
(* The thread pool of the simplifier (riss/utils/ThreadController.h): a    *)
(* master that creates threads, hands one job to each of them (runJobs)    *)
(* and sleeps until all are done, and threads that hold their own lock for *)
(* their whole life except while they sleep in SleepLock::sleep.           *)
(*                                                                         *)
(* The master writes the job and the state of a thread without the lock of *)
(* the thread; a broadcast to a thread needs it, and so waits until the    *)
(* thread sleeps.  The master tests the states under the master lock,      *)
(* which a thread needs to wake the master up.  One action is one such     *)
(* access; the end of a test and the wait that follows release the lock    *)
(* in one step.                                                            *)
(*                                                                         *)
(* The state "working" of a thread is set by the master only, "finished"   *)
(* by the thread only.  A job is known by the round it was handed out in.  *)
(* The sleep of a thread is taken to end with a broadcast only: the code   *)
(* does not test the state again when it wakes up.                         *)
(***************************************************************************)
EXTENDS Integers, Sequences

CONSTANTS
    Threads,    \* number of threads
    MaxRounds   \* bound: calls of runJobs

ASSUME ThreadsAssumption == Threads \in Nat \ {0}
ASSUME RoundsAssumption  == MaxRounds \in Nat

Thread == 0 .. Threads - 1
NoJob == 0

VARIABLES
    mpc,     \* where the master is
    done,    \* its loop index
    round,   \* calls of runJobs so far
    tpc,     \* where each thread is
    state,   \* ThreadData::state
    job,     \* ThreadData::job
    ran      \* rounds whose jobs each thread ran (history)

master == <<mpc, done, round>>
vars   == <<master, tpc, state, job, ran>>

Init ==
    /\ mpc = "create" /\ done = 0 /\ round = 0
    /\ tpc   = [t \in Thread |-> "none"]
    /\ state = [t \in Thread |-> "initializing"]
    /\ job   = [t \in Thread |-> NoJob]
    /\ ran   = [t \in Thread |-> << >>]

\* Mutant: the lock of a thread does not exclude the master.
AlwaysFree(t) == TRUE

\* A thread owns its lock from the first step of run() on, unless it sleeps.
OwnLockFree(t) == tpc[t] \in {"none", "entry", "asleep", "woken", "gone"}

\* The master holds its lock while it tests the states.
MasterLockFree == mpc \notin {"initScan", "scan"}

MGoto(where) == mpc' = where /\ done' = 0

\* Mutant: the loop ends one thread too late.
ContinueTooFar(again, after) ==
    IF done < Threads THEN mpc' = again /\ done' = done + 1 ELSE MGoto(after)

\* A loop of the master over all threads.
Continue(again, after) ==
    IF done + 1 < Threads THEN mpc' = again /\ done' = done + 1 ELSE MGoto(after)

TGoto(t, where) == tpc' = [tpc EXCEPT ![t] = where]

-----------------------------------------------------------------------------
(* The master *)

\* init(): pthread_create.
Create ==
    /\ mpc = "create"
    /\ TGoto(done, "entry")
    /\ Continue("create", "initScan")
    /\ UNCHANGED <<round, state, job, ran>>

\* One test of the loop that waits for the threads to be set up.
InitScan ==
    /\ mpc = "initScan"
    /\ IF state[done] = "initializing"
       THEN mpc' = "initSleep" /\ UNCHANGED done
       ELSE Continue("initScan", "idle")
    /\ UNCHANGED <<round, tpc, state, job, ran>>

\* A call of runJobs.
RunJobs ==
    /\ mpc = "idle"
    /\ round < MaxRounds
    /\ round' = round + 1
    /\ MGoto("assign")
    /\ UNCHANGED <<tpc, state, job, ran>>

\* Mutant: the thread is woken up before it is marked as working.
AssignUnmarked ==
    /\ mpc = "assign"
    /\ job' = [job EXCEPT ![done] = round]
    /\ mpc' = "rouse"
    /\ UNCHANGED <<done, round, tpc, state, ran>>

\* performTask: job and state, without the lock of the thread.
Assign ==
    /\ mpc = "assign"
    /\ job' = [job EXCEPT ![done] = round]
    /\ state' = [state EXCEPT ![done] = "working"]
    /\ mpc' = "rouse"
    /\ UNCHANGED <<done, round, tpc, ran>>

\* SleepLock::awake of a thread: only a sleeping thread notices.
Woken(t) == IF tpc[t] = "asleep" THEN "woken" ELSE tpc[t]

\* performTask: the broadcast.
Rouse ==
    /\ mpc = "rouse"
    /\ OwnLockFree(done)
    /\ TGoto(done, Woken(done))
    /\ Continue("assign", "scan")
    /\ UNCHANGED <<round, state, job, ran>>

\* Mutant: finished threads are not made ready for the next round.
NotReady(s) == s

\* setWaiting for a thread that is done.
Ready(s) == IF s = "finished" THEN "waiting" ELSE s

\* One test of the loop in waitForAllFinished.
Scan ==
    /\ mpc = "scan"
    /\ IF state[done] = "working"
       THEN mpc' = "sleep" /\ UNCHANGED <<done, state>>
       ELSE /\ state' = [state EXCEPT ![done] = Ready(@)]
            /\ Continue("scan", "idle")
    /\ UNCHANGED <<round, tpc, job, ran>>

\* Where a master goes on that is woken up, by a thread or for no reason.
AwakeMaster == CASE mpc = "initSleep" -> "initScan"
                 [] mpc = "sleep"     -> "scan"
                 [] OTHER             -> mpc

MasterSpurious ==
    /\ mpc \in {"initSleep", "sleep"}
    /\ mpc' = AwakeMaster
    /\ UNCHANGED <<done, round, tpc, state, job, ran>>

\* The destructor: sendShutdown, awake, then pthread_join of all threads.
Shutdown ==
    /\ mpc = "idle"
    /\ MGoto("abort")
    /\ UNCHANGED <<round, tpc, state, job, ran>>

SendShutdown ==
    /\ mpc = "abort"
    /\ state' = [state EXCEPT ![done] = "aborting"]
    /\ mpc' = "abortAwake"
    /\ UNCHANGED <<done, round, tpc, job, ran>>

AbortAwake ==
    /\ mpc = "abortAwake"
    /\ OwnLockFree(done)
    /\ TGoto(done, Woken(done))
    /\ Continue("abort", "join")
    /\ UNCHANGED <<round, state, job, ran>>

Join ==
    /\ mpc = "join"
    /\ tpc[done] = "gone"
    /\ Continue("join", "end")
    /\ UNCHANGED <<round, tpc, state, job, ran>>

-----------------------------------------------------------------------------
(* ThreadData::run of thread t *)

Setup(t) ==
    /\ tpc[t] = "entry"
    /\ state' = [state EXCEPT ![t] = "waiting"]
    /\ TGoto(t, "tell")
    /\ UNCHANGED <<master, job, ran>>

\* Mutant: the thread does not wake the master up.
TellNobody(t) ==
    /\ tpc[t] = "tell"
    /\ MasterLockFree
    /\ TGoto(t, "doze")
    /\ UNCHANGED <<master, state, job, ran>>

\* masterLock->awake()
Tell(t) ==
    /\ tpc[t] = "tell"
    /\ MasterLockFree
    /\ mpc' = AwakeMaster
    /\ TGoto(t, "doze")
    /\ UNCHANGED <<done, round, state, job, ran>>

\* ownLock.sleep(): from here on the lock is free.
Doze(t) ==
    /\ tpc[t] = "doze"
    /\ TGoto(t, "asleep")
    /\ UNCHANGED <<master, state, job, ran>>

\* Mutant: the order to stop is not looked at.
AwakeDeaf(t) ==
    /\ tpc[t] = "woken"
    /\ TGoto(t, "work")
    /\ UNCHANGED <<master, state, job, ran>>

\* The sleep is over and the thread has its lock again.
Awake(t) ==
    /\ tpc[t] = "woken"
    /\ TGoto(t, IF state[t] = "aborting" THEN "gone" ELSE "work")
    /\ UNCHANGED <<master, state, job, ran>>

\* The job is run.
Work(t) ==
    /\ tpc[t] = "work"
    /\ ran' = [ran EXCEPT ![t] = Append(@, job[t])]
    /\ TGoto(t, "finish")
    /\ UNCHANGED <<master, state, job>>

Finish(t) ==
    /\ tpc[t] = "finish"
    /\ state' = [state EXCEPT ![t] = "finished"]
    /\ TGoto(t, "tell")
    /\ UNCHANGED <<master, job, ran>>

-----------------------------------------------------------------------------
MasterStep == \/ Create \/ InitScan \/ Assign \/ Rouse \/ Scan
              \/ SendShutdown \/ AbortAwake \/ Join

ThreadStep(t) == Setup(t) \/ Tell(t) \/ Doze(t) \/ Awake(t) \/ Work(t) \/ Finish(t)

End == mpc = "end" /\ UNCHANGED vars

Next == \/ RunJobs \/ Shutdown \/ MasterStep \/ MasterSpurious \/ End
        \/ \E t \in Thread : ThreadStep(t)

\* Threads and master are scheduled fairly; the master's lock is free again
\* and again while it sleeps, and a thread that wants it gets it.
Fairness == /\ WF_vars(MasterStep)
            /\ \A t \in Thread : WF_vars(ThreadStep(t)) /\ SF_vars(Tell(t))

Spec     == Init /\ [][Next]_vars
LiveSpec == Spec /\ Fairness

-----------------------------------------------------------------------------
TypeOK ==
    /\ mpc \in {"create", "initScan", "initSleep", "idle", "assign", "rouse", "scan",
                "sleep", "abort", "abortAwake", "join", "end"}
    /\ done \in Thread
    /\ round \in 0 .. MaxRounds
    /\ tpc \in [Thread -> {"none", "entry", "tell", "doze", "asleep", "woken", "work",
                           "finish", "gone"}]
    /\ state \in [Thread -> {"initializing", "waiting", "working", "finished", "aborting"}]
    /\ job \in [Thread -> 0 .. MaxRounds]
    /\ ran \in [Thread -> Seq(0 .. MaxRounds)]

\* "state of the worker should be working": whoever runs a job was told to.
WorksWhenTold == \A t \in Thread : tpc[t] \in {"work", "finish"} => state[t] = "working"

\* When no call of runJobs is open, every thread has run the job of each round
\* once, in the order of the rounds, and waits for the next one, as the
\* assertions of runJobs, performTask and sendShutdown demand.
AllJobsDone ==
    mpc = "idle" =>
        \A t \in Thread : /\ ran[t] = [r \in 1 .. round |-> r]
                          /\ state[t] = "waiting"

\* runJobs implements JobRounds: it returns only after each thread has run its
\* job of this round, and no thread runs one twice or outside of a round.
Active == mpc \in {"assign", "rouse", "scan", "sleep"}
Promise == INSTANCE JobRounds WITH
    Thread <- Thread, MaxRounds <- MaxRounds, round <- round, active <- Active,
    todo   <- IF Active THEN {t \in Thread : Len(ran[t]) < round} ELSE {}

RunsEachJobOnce == Promise!JSpec

\* Every call of runJobs returns, although the master and the threads wake each
\* other up with broadcasts that nobody remembers.
EveryRoundEnds == Promise!RoundsEnd

\* The destructor ends: all threads leave their loop.
ShutdownEnds == (mpc = "abort") ~> (mpc = "end")

=============================================================================
