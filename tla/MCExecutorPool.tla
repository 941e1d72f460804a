--------------------------- MODULE MCExecutorPool ---------------------------
(***************************************************************************)
(* Either a pool, with its callers and a sweep, or a program that keeps    *)
(* the LocalExecutor and calls through its handle itself, as the tests and *)
(* the examples of local_executor.rs do.                                   *)
(***************************************************************************)
EXTENDS ExecutorPool

VARIABLE pooled     \* which of the two

MCExecutors == 0 .. Workers - 1

Direct == 0         \* the executor that the program keeps

(* All the callers without a sweep, or all but one with it.                *)
MCInit ==
    \/ /\ pooled = TRUE
       /\ Started({})
       /\ \/ PoolOf(Callers, FALSE)
          \/ PoolOf(Callers \ {CHOOSE c \in Callers : TRUE}, TRUE)
    \/ /\ pooled = FALSE
       /\ Started({Direct})
       /\ PoolOf({}, FALSE)

DirectStep ==
    /\ LoopStep(Direct) \/ CallStep(Direct) \/ ClientStep(Direct) \/ OwnerStep(Direct)
    /\ UNCHANGED poolVars

MCNext ==
    /\ \/ pooled /\ PoolStep
       \/ ~pooled /\ DirectStep
    /\ UNCHANGED pooled

mcVars == <<vars, pooled>>

(* The executors that exist in the one and in the other.                   *)
Exists(e) == pooled \/ e = Direct

(* The loop and the futures are polled as long as they can make progress;  *)
(* nobody has to ask, to stop the executor or to drop anything.            *)
Fairness ==
    /\ \A e \in Executors :
          /\ WF_mcVars(Exists(e) /\ LoopStep(e) /\ UNCHANGED <<poolVars, pooled>>)
          /\ WF_mcVars(Exists(e) /\ CallStep(e) /\ UNCHANGED <<poolVars, pooled>>)
          /\ WF_mcVars(Exists(e) /\ Joined(e) /\ UNCHANGED <<poolVars, pooled>>)
    /\ \A c \in Callers : WF_mcVars(CallerStep(c) /\ UNCHANGED pooled)
    /\ WF_mcVars(SweepStep /\ UNCHANGED pooled)

MCSpec == MCInit /\ [][MCNext]_mcVars /\ Fairness
=============================================================================
