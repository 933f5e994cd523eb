------------------------------ MODULE JobRounds ------------------------------
(***************************************************************************)
(* What runJobs of a ThreadController promises its callers (the parallel   *)
(* parts of subsumption, variable elimination and hidden tautology         *)
(* elimination): a call hands out one job to each thread, every job is run *)
(* exactly once, and the call returns when all of them are done.           *)
(***************************************************************************)
EXTENDS Naturals

CONSTANTS Thread, MaxRounds

VARIABLES
    round,   \* calls of runJobs so far
    active,  \* is a call open?
    todo     \* threads whose job of this round was not run yet

jvars == <<round, active, todo>>

JInit == round = 0 /\ active = FALSE /\ todo = {}

\* The caller hands out the jobs of the next round.
Call == /\ ~ active /\ round < MaxRounds
        /\ round' = round + 1 /\ active' = TRUE /\ todo' = Thread

\* A thread runs its job.
Run(t) == /\ active /\ t \in todo
          /\ todo' = todo \ {t} /\ UNCHANGED <<round, active>>

\* The call returns.
Return == /\ active /\ todo = {}
          /\ active' = FALSE /\ UNCHANGED <<round, todo>>

JNext == Call \/ Return \/ \E t \in Thread : Run(t)

JSpec == JInit /\ [][JNext]_jvars

\* Every call returns.
RoundsEnd == active ~> ~ active

=============================================================================
