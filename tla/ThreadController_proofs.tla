------------------------ MODULE ThreadController_proofs ------------------------
(***************************************************************************)
(* Theorems about ThreadController, for every number of threads and calls: *)
(* only threads that were told to work run jobs, after a call every job    *)
(* was run once, and the pool implements JobRounds.                        *)
(***************************************************************************)
EXTENDS ThreadController, TLAPS

\* The rounds 1 to n, in order: what a thread has run after n of them.
Rounds(n) == [r \in 1 .. n |-> r]

\* A call of runJobs is open and thread t has got its job already.
Assigned(t) == \/ mpc = "assign" /\ t < done
               \/ mpc = "rouse"  /\ t <= done
               \/ mpc \in {"scan", "sleep"}

\* Thread t has got its job (or the order to stop) but not the broadcast.
ToRouse(t) == mpc \in {"rouse", "abortAwake"} /\ t = done

\* On its way to sleep, or asleep.
AtRest(t) == tpc[t] \in {"tell", "doze", "asleep"}

\* What holds of a thread in each state.
WhenInitializing(t) ==
    /\ mpc \in {"create", "initScan", "initSleep"}
    /\ mpc # "create" => t >= done
    /\ tpc[t] = (IF mpc = "create" /\ t >= done THEN "none" ELSE "entry")
    /\ ran[t] = Rounds(0)

WhenWaiting(t) ==
    /\ AtRest(t)
    /\ mpc \notin {"join", "end"}
    /\ mpc \in {"create", "scan", "sleep"} => t < done
    /\ mpc \in {"assign", "abort"} => t >= done
    /\ mpc \in {"rouse", "abortAwake"} => t > done
    /\ ran[t] = Rounds(IF mpc \in {"assign", "rouse"} THEN round - 1 ELSE round)

WhenWorking(t) ==
    /\ Assigned(t)
    /\ mpc \in {"scan", "sleep"} => t >= done
    /\ job[t] = round
    /\ IF ToRouse(t) THEN AtRest(t) ELSE tpc[t] \in {"woken", "work", "finish"}
    /\ ran[t] = Rounds(IF tpc[t] = "finish" THEN round ELSE round - 1)

WhenFinished(t) ==
    /\ Assigned(t) /\ ~ ToRouse(t)
    /\ mpc \in {"scan", "sleep"} => t >= done
    /\ AtRest(t)
    /\ ran[t] = Rounds(round)

WhenAborting(t) ==
    /\ mpc \in {"abort", "abortAwake", "join", "end"}
    /\ mpc = "abort" => t < done
    /\ mpc = "abortAwake" => t <= done
    /\ IF ToRouse(t) THEN AtRest(t) ELSE tpc[t] \in {"woken", "gone"}

ThreadInv(t) ==
    /\ state[t] = "initializing" => WhenInitializing(t)
    /\ state[t] = "waiting"      => WhenWaiting(t)
    /\ state[t] = "working"      => WhenWorking(t)
    /\ state[t] = "finished"     => WhenFinished(t)
    /\ state[t] = "aborting"     => WhenAborting(t)

\* No job is handed out before the first call.
RoundInv == /\ mpc \in {"create", "initScan", "initSleep"} => round = 0
            /\ Active => round >= 1

\* The inductive invariant.
IndInv == TypeOK /\ RoundInv /\ \A t \in Thread : ThreadInv(t)

-----------------------------------------------------------------------------
\* Appending the next round to the first n gives the first n + 1, and their
\* number is n.
LEMMA RoundsFacts ==
    ASSUME NEW n \in Nat
    PROVE  /\ Len(Rounds(n)) = n
           /\ Rounds(n) \in Seq(0 .. n)
           /\ Append(Rounds(n), n + 1) = Rounds(n + 1)
<1>1. Rounds(n) \in Seq(0 .. n) /\ Len(Rounds(n)) = n
  BY DEF Rounds
<1>2. Append(Rounds(n), n + 1) = Rounds(n + 1)
  BY <1>1 DEF Rounds
<1> QED BY <1>1, <1>2

\* It holds when the pool is created.
LEMMA InitInv == Init => IndInv
<1> SUFFICES ASSUME Init PROVE IndInv OBVIOUS
<1> USE DEF Init
<1>1. << >> = Rounds(0) BY DEF Rounds
<1>2. TypeOK BY ThreadsAssumption, RoundsAssumption DEF TypeOK, Thread, NoJob
<1>3. RoundInv BY DEF RoundInv, Active
<1>4. \A t \in Thread : ThreadInv(t)
  BY <1>1, ThreadsAssumption DEF ThreadInv, WhenInitializing, Thread
<1> QED BY <1>2, <1>3, <1>4 DEF IndInv

-----------------------------------------------------------------------------
(* Every action preserves the invariant. *)

LEMMA CreateInv == ASSUME IndInv, Create PROVE IndInv'
<1> USE ThreadsAssumption, RoundsAssumption
<1> USE DEF IndInv, Create, MGoto, Continue, TGoto, Thread
<1>1. TypeOK' BY DEF TypeOK
<1>2. RoundInv' BY DEF TypeOK, RoundInv, Active
<1>3. \A t \in Thread : ThreadInv(t)'
  <2> SUFFICES ASSUME NEW t \in Thread PROVE ThreadInv(t)' OBVIOUS
  <2> QED
    BY SMTT(30)
       DEF TypeOK, RoundInv, Active, ThreadInv, WhenInitializing, WhenWaiting,
           WhenWorking, WhenFinished, WhenAborting, Assigned, ToRouse, AtRest
<1> QED BY <1>1, <1>2, <1>3

LEMMA InitScanInv == ASSUME IndInv, InitScan PROVE IndInv'
<1> USE ThreadsAssumption, RoundsAssumption
<1> USE DEF IndInv, InitScan, MGoto, Continue, Thread
<1>1. TypeOK' BY DEF TypeOK
<1>2. RoundInv' BY DEF TypeOK, RoundInv, Active
<1>3. \A t \in Thread : ThreadInv(t)'
  <2> SUFFICES ASSUME NEW t \in Thread PROVE ThreadInv(t)' OBVIOUS
  <2> QED
    BY SMTT(30)
       DEF TypeOK, RoundInv, Active, ThreadInv, WhenInitializing, WhenWaiting,
           WhenWorking, WhenFinished, WhenAborting, Assigned, ToRouse, AtRest
<1> QED BY <1>1, <1>2, <1>3

LEMMA RunJobsInv == ASSUME IndInv, RunJobs PROVE IndInv'
<1> USE ThreadsAssumption, RoundsAssumption
<1> USE DEF IndInv, RunJobs, MGoto, Thread
<1>1. TypeOK' BY DEF TypeOK
<1>2. RoundInv' BY DEF TypeOK, RoundInv, Active
<1>3. \A t \in Thread : ThreadInv(t)'
  <2> SUFFICES ASSUME NEW t \in Thread PROVE ThreadInv(t)' OBVIOUS
  <2> QED
    BY SMTT(30)
       DEF TypeOK, RoundInv, Active, ThreadInv, WhenInitializing, WhenWaiting,
           WhenWorking, WhenFinished, WhenAborting, Assigned, ToRouse, AtRest
<1> QED BY <1>1, <1>2, <1>3

LEMMA AssignInv == ASSUME IndInv, Assign PROVE IndInv'
<1> USE ThreadsAssumption, RoundsAssumption
<1> USE DEF IndInv, Assign, Thread
<1>1. TypeOK' BY DEF TypeOK
<1>2. RoundInv' BY DEF TypeOK, RoundInv, Active
<1>3. \A t \in Thread : ThreadInv(t)'
  <2> SUFFICES ASSUME NEW t \in Thread PROVE ThreadInv(t)' OBVIOUS
  <2>1. CASE t = done
    <3>1. state[t] = "waiting"
      BY <2>1
         DEF TypeOK, ThreadInv, WhenInitializing, WhenWorking, WhenFinished,
             WhenAborting, Assigned
    <3>2. AtRest(t) /\ ran[t] = Rounds(round - 1)
      BY <3>1 DEF ThreadInv, WhenWaiting
    <3>3. state'[t] = "working" /\ job'[t] = round
      BY <2>1 DEF TypeOK
    <3>4. WhenWorking(t)'
      BY <2>1, <3>2, <3>3 DEF TypeOK, WhenWorking, Assigned, ToRouse, AtRest
    <3> QED BY <3>3, <3>4 DEF ThreadInv
  <2>2. CASE t # done
    BY <2>2, SMTT(30)
       DEF TypeOK, RoundInv, Active, ThreadInv, WhenInitializing, WhenWaiting,
           WhenWorking, WhenFinished, WhenAborting, Assigned, ToRouse, AtRest
  <2> QED BY <2>1, <2>2
<1> QED BY <1>1, <1>2, <1>3

LEMMA RouseInv == ASSUME IndInv, Rouse PROVE IndInv'
<1> USE ThreadsAssumption, RoundsAssumption
<1> USE DEF IndInv, Rouse, MGoto, Continue, TGoto, Thread
<1>1. TypeOK' BY DEF TypeOK, Woken, OwnLockFree
<1>2. RoundInv' BY DEF TypeOK, RoundInv, Active
<1>3. \A t \in Thread : ThreadInv(t)'
  <2> SUFFICES ASSUME NEW t \in Thread PROVE ThreadInv(t)' OBVIOUS
  <2> QED
    BY SMTT(30)
       DEF TypeOK, RoundInv, Active, ThreadInv, WhenInitializing, WhenWaiting,
           WhenWorking, WhenFinished, WhenAborting, Assigned, ToRouse, AtRest,
           Woken, OwnLockFree
<1> QED BY <1>1, <1>2, <1>3

LEMMA ScanInv == ASSUME IndInv, Scan PROVE IndInv'
<1> USE ThreadsAssumption, RoundsAssumption
<1> USE DEF IndInv, Scan, MGoto, Continue, Thread
<1>1. TypeOK'
  <2>1. mpc' \in {"sleep", "scan", "idle"} /\ done' \in Thread
    BY DEF TypeOK
  <2>2. state' \in [Thread -> {"initializing", "waiting", "working", "finished", "aborting"}]
    BY DEF TypeOK, Ready
  <2> QED BY <2>1, <2>2 DEF TypeOK
<1>2. RoundInv' BY DEF TypeOK, RoundInv, Active
<1>3. \A t \in Thread : ThreadInv(t)'
  <2> SUFFICES ASSUME NEW t \in Thread PROVE ThreadInv(t)' OBVIOUS
  <2>1. CASE t = done
    <3>1. CASE state[t] = "working"
      BY <2>1, <3>1 DEF ThreadInv, WhenWorking, Assigned, ToRouse, AtRest
    <3>2. CASE state[t] # "working"
      <4>1. state[t] = "finished"
        BY <2>1, <3>2
           DEF TypeOK, ThreadInv, WhenInitializing, WhenWaiting, WhenAborting
      <4>2. AtRest(t) /\ ran[t] = Rounds(round)
        BY <4>1 DEF ThreadInv, WhenFinished
      <4>3. state'[t] = "waiting"
        BY <2>1, <4>1 DEF TypeOK, Ready
      <4>4. WhenWaiting(t)'
        BY <2>1, <3>2, <4>2 DEF TypeOK, WhenWaiting, AtRest
      <4> QED BY <4>3, <4>4 DEF ThreadInv
    <3> QED BY <3>1, <3>2
  <2>2. CASE t # done
    BY <2>2, SMTT(30)
       DEF TypeOK, RoundInv, Active, ThreadInv, WhenInitializing, WhenWaiting,
           WhenWorking, WhenFinished, WhenAborting, Assigned, ToRouse, AtRest,
           Ready
  <2> QED BY <2>1, <2>2
<1> QED BY <1>1, <1>2, <1>3

LEMMA MasterSpuriousInv == ASSUME IndInv, MasterSpurious PROVE IndInv'
<1> USE ThreadsAssumption, RoundsAssumption
<1> USE DEF IndInv, MasterSpurious, Thread
<1>1. TypeOK' BY DEF TypeOK, AwakeMaster
<1>2. RoundInv' BY DEF TypeOK, RoundInv, Active, AwakeMaster
<1>3. \A t \in Thread : ThreadInv(t)'
  <2> SUFFICES ASSUME NEW t \in Thread PROVE ThreadInv(t)' OBVIOUS
  <2> QED
    BY SMTT(30)
       DEF TypeOK, RoundInv, Active, ThreadInv, WhenInitializing, WhenWaiting,
           WhenWorking, WhenFinished, WhenAborting, Assigned, ToRouse, AtRest,
           AwakeMaster
<1> QED BY <1>1, <1>2, <1>3

LEMMA ShutdownInv == ASSUME IndInv, Shutdown PROVE IndInv'
<1> USE ThreadsAssumption, RoundsAssumption
<1> USE DEF IndInv, Shutdown, MGoto, Thread
<1>1. TypeOK' BY DEF TypeOK
<1>2. RoundInv' BY DEF TypeOK, RoundInv, Active
<1>3. \A t \in Thread : ThreadInv(t)'
  <2> SUFFICES ASSUME NEW t \in Thread PROVE ThreadInv(t)' OBVIOUS
  <2> QED
    BY SMTT(30)
       DEF TypeOK, RoundInv, Active, ThreadInv, WhenInitializing, WhenWaiting,
           WhenWorking, WhenFinished, WhenAborting, Assigned, ToRouse, AtRest
<1> QED BY <1>1, <1>2, <1>3

LEMMA SendShutdownInv == ASSUME IndInv, SendShutdown PROVE IndInv'
<1> USE ThreadsAssumption, RoundsAssumption
<1> USE DEF IndInv, SendShutdown, Thread
<1>1. TypeOK' BY DEF TypeOK
<1>2. RoundInv' BY DEF TypeOK, RoundInv, Active
<1>3. \A t \in Thread : ThreadInv(t)'
  <2> SUFFICES ASSUME NEW t \in Thread PROVE ThreadInv(t)' OBVIOUS
  <2> QED
    BY SMTT(30)
       DEF TypeOK, RoundInv, Active, ThreadInv, WhenInitializing, WhenWaiting,
           WhenWorking, WhenFinished, WhenAborting, Assigned, ToRouse, AtRest
<1> QED BY <1>1, <1>2, <1>3

LEMMA AbortAwakeInv == ASSUME IndInv, AbortAwake PROVE IndInv'
<1> USE ThreadsAssumption, RoundsAssumption
<1> USE DEF IndInv, AbortAwake, MGoto, Continue, TGoto, Thread
<1>1. TypeOK' BY DEF TypeOK, Woken, OwnLockFree
<1>2. RoundInv' BY DEF TypeOK, RoundInv, Active
<1>3. \A t \in Thread : ThreadInv(t)'
  <2> SUFFICES ASSUME NEW t \in Thread PROVE ThreadInv(t)' OBVIOUS
  <2> QED
    BY SMTT(30)
       DEF TypeOK, RoundInv, Active, ThreadInv, WhenInitializing, WhenWaiting,
           WhenWorking, WhenFinished, WhenAborting, Assigned, ToRouse, AtRest,
           Woken, OwnLockFree
<1> QED BY <1>1, <1>2, <1>3

LEMMA JoinInv == ASSUME IndInv, Join PROVE IndInv'
<1> USE ThreadsAssumption, RoundsAssumption
<1> USE DEF IndInv, Join, MGoto, Continue, Thread
<1>1. TypeOK'
  <2>1. CASE done + 1 < Threads BY <2>1 DEF TypeOK
  <2>2. CASE ~ (done + 1 < Threads) BY <2>2 DEF TypeOK
  <2> QED BY <2>1, <2>2
<1>2. RoundInv' BY DEF TypeOK, RoundInv, Active
<1>3. \A t \in Thread : ThreadInv(t)'
  <2> SUFFICES ASSUME NEW t \in Thread PROVE ThreadInv(t)' OBVIOUS
  <2> QED
    BY SMTT(30)
       DEF TypeOK, RoundInv, Active, ThreadInv, WhenInitializing, WhenWaiting,
           WhenWorking, WhenFinished, WhenAborting, Assigned, ToRouse, AtRest
<1> QED BY <1>1, <1>2, <1>3

LEMMA SetupInv == ASSUME IndInv, NEW u \in Thread, Setup(u) PROVE IndInv'
<1> USE ThreadsAssumption, RoundsAssumption
<1> USE DEF IndInv, Setup, master, TGoto, Thread
<1>1. TypeOK' BY DEF TypeOK
<1>2. RoundInv' BY DEF TypeOK, RoundInv, Active
<1>3. \A t \in Thread : ThreadInv(t)'
  <2> SUFFICES ASSUME NEW t \in Thread PROVE ThreadInv(t)' OBVIOUS
  <2>1. CASE t = u
    <3>1. state[t] = "initializing"
      BY <2>1
         DEF TypeOK, ThreadInv, WhenWaiting, WhenWorking, WhenFinished,
             WhenAborting, AtRest
    <3>2. WhenInitializing(t)
      BY <3>1 DEF ThreadInv
    <3>3. state'[t] = "waiting" /\ tpc'[t] = "tell"
      BY <2>1 DEF TypeOK
    <3>4. WhenWaiting(t)'
      BY <2>1, <3>2, <3>3
         DEF TypeOK, WhenWaiting, WhenInitializing, AtRest, RoundInv
    <3> QED BY <3>3, <3>4 DEF ThreadInv
  <2>2. CASE t # u
    BY <2>2, SMTT(30)
       DEF TypeOK, RoundInv, Active, ThreadInv, WhenInitializing, WhenWaiting,
           WhenWorking, WhenFinished, WhenAborting, Assigned, ToRouse, AtRest
  <2> QED BY <2>1, <2>2
<1> QED BY <1>1, <1>2, <1>3

LEMMA TellInv == ASSUME IndInv, NEW u \in Thread, Tell(u) PROVE IndInv'
<1> USE ThreadsAssumption, RoundsAssumption
<1> USE DEF IndInv, Tell, TGoto, Thread
<1>1. TypeOK' BY DEF TypeOK, AwakeMaster
<1>2. RoundInv' BY DEF TypeOK, RoundInv, Active, AwakeMaster
<1>3. \A t \in Thread : ThreadInv(t)'
  <2> SUFFICES ASSUME NEW t \in Thread PROVE ThreadInv(t)' OBVIOUS
  <2> QED
    BY SMTT(30)
       DEF TypeOK, RoundInv, Active, ThreadInv, WhenInitializing, WhenWaiting,
           WhenWorking, WhenFinished, WhenAborting, Assigned, ToRouse, AtRest,
           AwakeMaster
<1> QED BY <1>1, <1>2, <1>3

LEMMA DozeInv == ASSUME IndInv, NEW u \in Thread, Doze(u) PROVE IndInv'
<1> USE ThreadsAssumption, RoundsAssumption
<1> USE DEF IndInv, Doze, master, TGoto, Thread
<1>1. TypeOK' BY DEF TypeOK
<1>2. RoundInv' BY DEF TypeOK, RoundInv, Active
<1>3. \A t \in Thread : ThreadInv(t)'
  <2> SUFFICES ASSUME NEW t \in Thread PROVE ThreadInv(t)' OBVIOUS
  <2> QED
    BY SMTT(30)
       DEF TypeOK, RoundInv, Active, ThreadInv, WhenInitializing, WhenWaiting,
           WhenWorking, WhenFinished, WhenAborting, Assigned, ToRouse, AtRest
<1> QED BY <1>1, <1>2, <1>3

LEMMA AwakeInv == ASSUME IndInv, NEW u \in Thread, Awake(u) PROVE IndInv'
<1> USE ThreadsAssumption, RoundsAssumption
<1> USE DEF IndInv, Awake, master, TGoto, Thread
<1>1. TypeOK' BY DEF TypeOK
<1>2. RoundInv' BY DEF TypeOK, RoundInv, Active
<1>3. \A t \in Thread : ThreadInv(t)'
  <2> SUFFICES ASSUME NEW t \in Thread PROVE ThreadInv(t)' OBVIOUS
  <2> QED
    BY SMTT(30)
       DEF TypeOK, RoundInv, Active, ThreadInv, WhenInitializing, WhenWaiting,
           WhenWorking, WhenFinished, WhenAborting, Assigned, ToRouse, AtRest
<1> QED BY <1>1, <1>2, <1>3

LEMMA WorkInv == ASSUME IndInv, NEW u \in Thread, Work(u) PROVE IndInv'
<1> USE ThreadsAssumption, RoundsAssumption
<1> USE DEF IndInv, Work, master, TGoto, Thread
<1>1. TypeOK' BY DEF TypeOK
<1>2. RoundInv' BY DEF TypeOK, RoundInv, Active
<1>3. \A t \in Thread : ThreadInv(t)'
  <2> SUFFICES ASSUME NEW t \in Thread PROVE ThreadInv(t)' OBVIOUS
  <2>1. CASE t = u
    <3>1. state[t] = "working"
      BY <2>1
         DEF TypeOK, ThreadInv, WhenInitializing, WhenWaiting, WhenFinished,
             WhenAborting, AtRest
    <3>2. WhenWorking(t) /\ ~ ToRouse(t)
      BY <2>1, <3>1 DEF ThreadInv, WhenWorking, AtRest
    <3>3. ran[t] = Rounds(round - 1) /\ job[t] = round /\ round - 1 \in Nat
      BY <2>1, <3>2 DEF TypeOK, WhenWorking, RoundInv, Active, Assigned
    <3>4. Append(Rounds(round - 1), (round - 1) + 1) = Rounds((round - 1) + 1)
      BY <3>3, RoundsFacts
    <3>5. ran'[t] = Rounds(round)
      BY <2>1, <3>3, <3>4 DEF TypeOK
    <3>6. state'[t] = "working" /\ tpc'[t] = "finish"
      BY <2>1, <3>1 DEF TypeOK
    <3>7. WhenWorking(t)'
      BY <3>2, <3>5, <3>6 DEF WhenWorking, Assigned, ToRouse
    <3> QED BY <3>6, <3>7 DEF ThreadInv
  <2>2. CASE t # u
    BY <2>2, SMTT(30)
       DEF TypeOK, RoundInv, Active, ThreadInv, WhenInitializing, WhenWaiting,
           WhenWorking, WhenFinished, WhenAborting, Assigned, ToRouse, AtRest
  <2> QED BY <2>1, <2>2
<1> QED BY <1>1, <1>2, <1>3

LEMMA FinishInv == ASSUME IndInv, NEW u \in Thread, Finish(u) PROVE IndInv'
<1> USE ThreadsAssumption, RoundsAssumption
<1> USE DEF IndInv, Finish, master, TGoto, Thread
<1>1. TypeOK' BY DEF TypeOK
<1>2. RoundInv' BY DEF TypeOK, RoundInv, Active
<1>3. \A t \in Thread : ThreadInv(t)'
  <2> SUFFICES ASSUME NEW t \in Thread PROVE ThreadInv(t)' OBVIOUS
  <2>1. CASE t = u
    <3>1. state[t] = "working"
      BY <2>1
         DEF TypeOK, ThreadInv, WhenInitializing, WhenWaiting, WhenFinished,
             WhenAborting, AtRest
    <3>2. WhenWorking(t) /\ ~ ToRouse(t)
      BY <2>1, <3>1 DEF ThreadInv, WhenWorking, AtRest
    <3>3. state'[t] = "finished" /\ tpc'[t] = "tell"
      BY <2>1 DEF TypeOK
    <3>4. WhenFinished(t)'
      BY <2>1, <3>2, <3>3
         DEF WhenFinished, WhenWorking, Assigned, ToRouse, AtRest
    <3> QED BY <3>3, <3>4 DEF ThreadInv
  <2>2. CASE t # u
    BY <2>2, SMTT(30)
       DEF TypeOK, RoundInv, Active, ThreadInv, WhenInitializing, WhenWaiting,
           WhenWorking, WhenFinished, WhenAborting, Assigned, ToRouse, AtRest
  <2> QED BY <2>1, <2>2
<1> QED BY <1>1, <1>2, <1>3

LEMMA StutterInv == ASSUME IndInv, UNCHANGED vars PROVE IndInv'
<1> USE DEF vars, master
<1>1. TypeOK' BY DEF IndInv, TypeOK
<1>2. RoundInv' BY DEF IndInv, RoundInv, Active
<1>3. \A t \in Thread : ThreadInv(t)'
  BY DEF IndInv, ThreadInv, WhenInitializing, WhenWaiting, WhenWorking, WhenFinished,
         WhenAborting, Assigned, ToRouse, AtRest
<1> QED BY <1>1, <1>2, <1>3 DEF IndInv

LEMMA StepInv == ASSUME IndInv, [Next]_vars PROVE IndInv'
<1>1. CASE MasterStep
  BY <1>1, CreateInv, InitScanInv, AssignInv, RouseInv, ScanInv, SendShutdownInv,
     AbortAwakeInv, JoinInv DEF MasterStep
<1>2. CASE \E t \in Thread : ThreadStep(t)
  BY <1>2, SetupInv, TellInv, DozeInv, AwakeInv, WorkInv, FinishInv DEF ThreadStep
<1>3. CASE RunJobs \/ Shutdown \/ MasterSpurious
  BY <1>3, RunJobsInv, ShutdownInv, MasterSpuriousInv
<1>4. CASE UNCHANGED vars
  BY <1>4, StutterInv
<1> QED BY <1>1, <1>2, <1>3, <1>4 DEF Next, End

LEMMA Invariance == Spec => []IndInv
<1>1. Init => IndInv
  BY InitInv
<1>2. IndInv /\ [Next]_vars => IndInv'
  BY StepInv
<1> QED BY <1>1, <1>2, PTL DEF Spec

-----------------------------------------------------------------------------
\* Every variable keeps its type.
THEOREM TypeCorrect == Spec => []TypeOK
<1>1. IndInv => TypeOK
  BY DEF IndInv
<1> QED BY <1>1, Invariance, PTL

\* A thread that runs a job was told to: the master has marked it as working,
\* and nobody but the thread itself takes that back.
THEOREM Told == Spec => []WorksWhenTold
<1>1. IndInv => WorksWhenTold
  BY DEF IndInv, TypeOK, WorksWhenTold, ThreadInv, WhenInitializing, WhenWaiting,
         WhenFinished, WhenAborting, AtRest
<1> QED BY <1>1, Invariance, PTL

\* Between two calls each thread waits, and has run all jobs it ever got.
LEMMA Idle ==
    ASSUME IndInv, mpc = "idle", NEW t \in Thread
    PROVE  state[t] = "waiting" /\ ran[t] = Rounds(round)
BY DEF IndInv, TypeOK, ThreadInv, WhenInitializing, WhenWaiting, WhenWorking,
       WhenFinished, WhenAborting, Assigned

\* When no call of runJobs is open, every thread waits and has run the job of
\* each call once, in the order of the calls.
THEOREM JobsDone == Spec => []AllJobsDone
<1>1. IndInv => AllJobsDone
  BY Idle DEF AllJobsDone, Rounds
<1> QED BY <1>1, Invariance, PTL

-----------------------------------------------------------------------------
(* The pool implements JobRounds. *)

\* Threads whose job of this round was not run yet.
ToDo == IF Active THEN {t \in Thread : Len(ran[t]) < round} ELSE {}

LEMMA RunJobsCalls == ASSUME IndInv, RunJobs PROVE Promise!Call
<1>1. \A t \in Thread : Len(ran[t]) = round
  <2>1. \A t \in Thread : ran[t] = Rounds(round)
    BY Idle DEF RunJobs
  <2>2. round \in Nat
    BY DEF IndInv, TypeOK
  <2> QED BY <2>1, <2>2, RoundsFacts
<1>2. ~ Active /\ Active' /\ round < MaxRounds /\ round' = round + 1 /\ ran' = ran
  BY DEF RunJobs, MGoto, Active
<1>3. ToDo' = Thread
  BY <1>1, <1>2 DEF ToDo, IndInv, TypeOK
<1> QED BY <1>2, <1>3 DEF Promise!Call, ToDo

LEMMA WorkRuns == ASSUME IndInv, NEW t \in Thread, Work(t) PROVE Promise!Run(t)
<1>1. state[t] = "working"
  BY DEF Work, IndInv, TypeOK, ThreadInv, WhenInitializing, WhenWaiting, WhenFinished,
         WhenAborting, AtRest
<1>2. WhenWorking(t) /\ round \in Nat
  BY <1>1 DEF IndInv, ThreadInv, TypeOK
<1>3. Active /\ round - 1 \in Nat /\ ran[t] = Rounds(round - 1)
  BY <1>2 DEF Work, WhenWorking, Assigned, Active, IndInv, RoundInv
<1>4. /\ Active' /\ round' = round
      /\ ran' = [ran EXCEPT ![t] = Append(ran[t], job[t])]
  BY <1>3 DEF Work, master, Active
<1>5. Len(ran[t]) = round - 1 /\ ran[t] \in Seq(0 .. MaxRounds)
  BY <1>3, RoundsFacts DEF IndInv, TypeOK
<1>6. job[t] \in 0 .. MaxRounds
  BY DEF IndInv, TypeOK
<1>7. Len(Append(ran[t], job[t])) = round
  BY <1>2, <1>5, <1>6
<1>8. Len(ran'[t]) = round /\ \A u \in Thread \ {t} : ran'[u] = ran[u]
  BY <1>4, <1>7 DEF IndInv, TypeOK
<1>9. t \in ToDo /\ ToDo' = ToDo \ {t}
  BY <1>2, <1>3, <1>4, <1>5, <1>8 DEF ToDo
<1> QED BY <1>3, <1>4, <1>9 DEF Promise!Run, ToDo

LEMMA ScanReturns ==
    ASSUME IndInv, Scan, IndInv', mpc' = "idle"
    PROVE  Promise!Return
<1>1. Active /\ ~ Active' /\ round' = round /\ ran' = ran
  BY DEF Scan, Active
<1>2. \A t \in Thread : ran'[t] = Rounds(round')
  BY DEF IndInv, TypeOK, ThreadInv, WhenInitializing, WhenWaiting, WhenWorking,
         WhenFinished, WhenAborting, Assigned
<1>3. \A t \in Thread : Len(ran[t]) = round
  BY <1>1, <1>2, RoundsFacts DEF IndInv, TypeOK
<1>4. ToDo = {} /\ ToDo' = {}
  BY <1>1, <1>3 DEF ToDo, IndInv, TypeOK
<1> QED BY <1>1, <1>4 DEF Promise!Return, ToDo

LEMMA OtherStutters ==
    ASSUME round' = round, ran' = ran, Active' <=> Active
    PROVE  UNCHANGED Promise!jvars
<1>1. Active' = Active
  BY DEF Active
<1> QED BY <1>1 DEF Promise!jvars

LEMMA StepImplements ==
    ASSUME IndInv, IndInv', [Next]_vars
    PROVE  [Promise!JNext]_Promise!jvars
<1>1. CASE RunJobs
  BY <1>1, RunJobsCalls DEF Promise!JNext
<1>2. ASSUME NEW t \in Thread, Work(t) PROVE Promise!JNext
  BY <1>2, WorkRuns DEF Promise!JNext
<1>3. CASE Scan
  <2>1. CASE mpc' = "idle"
    BY <1>3, <2>1, ScanReturns DEF Promise!JNext
  <2>2. CASE mpc' # "idle"
    BY <1>3, <2>2, OtherStutters DEF Scan, Continue, MGoto, Active
  <2> QED BY <2>1, <2>2
<1>4. CASE Create \/ InitScan \/ Assign \/ Rouse \/ SendShutdown \/ AbortAwake \/ Join
  BY <1>4, OtherStutters
     DEF Create, InitScan, Assign, Rouse, SendShutdown, AbortAwake, Join, Continue,
         MGoto, TGoto, Active
<1>5. CASE Shutdown \/ MasterSpurious \/ UNCHANGED vars
  BY <1>5, OtherStutters
     DEF Shutdown, MasterSpurious, AwakeMaster, MGoto, vars, master, Active
<1>6. ASSUME NEW t \in Thread, Setup(t) \/ Tell(t) \/ Doze(t) \/ Awake(t) \/ Finish(t)
      PROVE  UNCHANGED Promise!jvars
  BY <1>6, OtherStutters
     DEF Setup, Tell, Doze, Awake, Finish, AwakeMaster, TGoto, master, Active
<1> QED
  BY <1>1, <1>2, <1>3, <1>4, <1>5, <1>6 DEF Next, End, MasterStep, ThreadStep

\* runJobs does what JobRounds promises its callers: it returns only after each
\* thread has run its job of this call, and no thread runs one twice.
THEOREM Implements == Spec => RunsEachJobOnce
<1>1. Init => Promise!JInit
  BY DEF Init, Promise!JInit, Active
<1>2. IndInv /\ IndInv' /\ [Next]_vars => [Promise!JNext]_Promise!jvars
  BY StepImplements
<1> QED BY <1>1, <1>2, Invariance, PTL DEF Spec, RunsEachJobOnce, Promise!JSpec

=============================================================================
