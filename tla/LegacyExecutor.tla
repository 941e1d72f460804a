--------------------------- MODULE LegacyExecutor ---------------------------
(***************************************************************************)
(* AsyncTaskExecutor::execute_graph (async_executor.rs), the executor that *)
(* the hitzeleiter binary calls: waves of all the tasks that are ready,    *)
(* without a scheduler.  Tasks is the TaskGraph of the call; the completed *)
(* set is local to the call.                                               *)
(***************************************************************************)
EXTENDS WaveRuns

VARIABLES
    deps,           \* the depends_on of every task
    specs,          \* the tasks that have an entry in task_specs
    completed,      \* the completed set
    results,        \* the keys of the results map
    pc              \* where the call is, or how it returned

vars == <<waveVars, deps, specs, completed, results, pc>>

Returned == {"ok", "deadlock", "failed"}

(* `--max-tasks` and recipes without a script leave tasks without a spec.  *)
Init ==
    /\ WaveInit
    /\ deps \in AcyclicDependencies(Tasks)
    /\ specs \in SUBSET Tasks
    /\ completed = {}
    /\ results = {}
    /\ pc = "loop"

(* The test of the loop, `completed.len() < task_graph.tasks.len()`.       *)
Incomplete == Cardinality(completed) < Cardinality(Tasks)

(* Every ready task with a specification becomes a future of the wave.     *)
TakeReady ==
    /\ pc = "loop"
    /\ Incomplete
    /\ LET batch == Unblocked(Tasks, deps, completed) IN
           IF batch = {}
           THEN pc' = "deadlock" /\ UNCHANGED waveVars
           ELSE pc' = "wave" /\ MakeFutures(batch \cap specs)
    /\ UNCHANGED <<deps, specs, completed, results>>

BeginTask(t) ==
    /\ pc = "wave"
    /\ Begin(t)
    /\ UNCHANGED <<deps, specs, completed, results, pc>>

FinishTask(t, result) ==
    /\ pc = "wave"
    /\ Finish(t, result)
    /\ UNCHANGED <<deps, specs, completed, results, pc>>

(* The order of the results is that of a HashMap iteration.                *)
NextResult(t) ==
    /\ pc = "wave"
    /\ Joined
    /\ t \in wave

(* Mutant: the output is kept, the task is not counted as completed.       *)
ProcessOkUncounted(t) ==
    /\ NextResult(t)
    /\ outcome[t] = "ok"
    /\ results' = results \cup {t}
    /\ wave' = wave \ {t}
    /\ UNCHANGED <<executing, outcome, succeeded, deps, specs, completed, pc>>

ProcessOk(t) ==
    /\ NextResult(t)
    /\ outcome[t] = "ok"
    /\ completed' = completed \cup {t}
    /\ results' = results \cup {t}
    /\ wave' = wave \ {t}
    /\ UNCHANGED <<executing, outcome, succeeded, deps, specs, pc>>

(* `result?`: the first error returns, with everything already done lost.  *)
ProcessErr(t) ==
    /\ NextResult(t)
    /\ outcome[t] = "err"
    /\ wave' = {}
    /\ pc' = "failed"
    /\ UNCHANGED <<executing, outcome, succeeded, deps, specs, completed, results>>

EndWave ==
    /\ pc = "wave"
    /\ wave = {}
    /\ pc' = "loop"
    /\ UNCHANGED <<waveVars, deps, specs, completed, results>>

ReturnOk ==
    /\ pc = "loop"
    /\ ~Incomplete
    /\ pc' = "ok"
    /\ UNCHANGED <<waveVars, deps, specs, completed, results>>

(* The call has returned.                                                  *)
Finished == pc \in Returned /\ UNCHANGED vars

Executor ==
    \/ TakeReady
    \/ \E t \in Tasks : \/ BeginTask(t)
                        \/ \E result \in {"ok", "err"} : FinishTask(t, result)
                        \/ ProcessOk(t)
                        \/ ProcessErr(t)
    \/ EndWave
    \/ ReturnOk

Next == Executor \/ Finished

Spec == Init /\ [][Next]_vars

(* The call runs until it returns; execute_task is assumed to return.      *)
FairSpec == Spec /\ WF_vars(Executor)

-----------------------------------------------------------------------------
(* Types of the call's state; the write lock has at most one holder.       *)
TypeOK ==
    /\ deps \in Dependencies(Tasks)
    /\ specs \subseteq Tasks
    /\ wave \subseteq Tasks
    /\ executing \in {{}} \cup {{t} : t \in Tasks}
    /\ outcome \in [Tasks -> Outcomes]
    /\ succeeded \subseteq Tasks
    /\ completed \subseteq Tasks
    /\ results \subseteq Tasks
    /\ pc \in {"loop", "wave"} \cup Returned

(* execute_graph, too, implements Build, with any specifications missing.  *)
B == INSTANCE Build WITH status <- [t \in Tasks |-> Status(t)]
ImplementsBuild == B!Spec

(* "Deadlock detected: no tasks ready but graph incomplete" is never the   *)
(* answer for a graph that the TaskGraphBuilder accepted.                  *)
NoDeadlockReport == pc # "deadlock"

(* Ok is returned only when every task of the graph has run successfully,  *)
(* and then with the output of every one, and no task is executing.        *)
OkMeansAll ==
    pc = "ok" => results = Tasks /\ succeeded = Tasks /\ executing = {}

(* How a call ends: never with a deadlock, and with Ok only if all has run.*)
CallSound ==
    /\ TypeOK
    /\ NoDeadlockReport
    /\ OkMeansAll

(* A call that has all its specifications returns.                         *)
ReturnsWithAllSpecs == pc = "loop" /\ specs = Tasks ~> pc \in Returned

-----------------------------------------------------------------------------
(* What every step preserves: exactly the completed tasks have an output,  *)
(* all of them have succeeded, and a task that has succeeded waits in the  *)
(* wave for its result to be processed unless the call has failed.         *)
Accounted ==
    /\ results = completed
    /\ completed \subseteq succeeded
    /\ pc # "failed" => succeeded \subseteq completed \cup wave
WaveSound ==
    /\ wave \cap completed = {}
    /\ \A t \in wave : /\ deps[t] \subseteq completed
                       /\ outcome[t] = "ok" <=> t \in succeeded
    /\ pc # "wave" => wave = {}
LockSound ==
    /\ executing \subseteq wave
    /\ \A t \in executing : outcome[t] = "none"
OkIsComplete == pc = "ok" => completed = Tasks

IInv == TypeOK /\ Acyclic(deps) /\ Accounted /\ WaveSound /\ LockSound
             /\ OkIsComplete /\ NoDeadlockReport
=============================================================================
