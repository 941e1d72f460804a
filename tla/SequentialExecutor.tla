------------------------- MODULE SequentialExecutor -------------------------
(***************************************************************************)
(* The loop of the `hitzeleiter build` command (commands/build.rs), and of *)
(* execute_graph_blocking (async_executor.rs): the tasks of the graph one  *)
(* after another in execution_order, which KahnSort shows to be a          *)
(* topological order of them.  There is no completed set: the order alone  *)
(* keeps a task behind its dependencies.                                   *)
(***************************************************************************)
EXTENDS TaskDag, Naturals, SequencesExt

VARIABLES
    depends_on,     \* of every task
    execution_order,
    specs,          \* the tasks that have an entry in task_specs
    position,       \* the iterator over execution_order
    executing,      \* the task in execute_task, if any
    succeeded,      \* tasks whose execution returned Ok
    outcome

loopVars == <<depends_on, execution_order, specs, position, executing, succeeded, outcome>>

(* Mutant: the order of the HashMap of tasks is followed.                  *)
MapOrder(d) == SetToSeqs(Tasks)

(* What topological_sort may return for the relation.                      *)
ExecutionOrders(d) ==
    {s \in SetToSeqs(Tasks) : \A i, j \in DOMAIN s : s[j] \in d[s[i]] => j < i}

LoopInit ==
    /\ depends_on \in AcyclicDependencies(Tasks)
    /\ execution_order \in ExecutionOrders(depends_on)
    /\ specs \in SUBSET Tasks
    /\ position = 1
    /\ executing = {}
    /\ succeeded = {}
    /\ outcome = "running"

AtTask ==
    /\ outcome = "running"
    /\ position <= Len(execution_order)
    /\ executing = {}

(* "No TaskSpec for {}, skipping": the tasks after it run all the same.    *)
Skip ==
    /\ AtTask
    /\ execution_order[position] \notin specs
    /\ position' = position + 1
    /\ UNCHANGED <<depends_on, execution_order, specs, executing, succeeded, outcome>>

Execute ==
    /\ AtTask
    /\ execution_order[position] \in specs
    /\ executing' = {execution_order[position]}
    /\ UNCHANGED <<depends_on, execution_order, specs, position, succeeded, outcome>>

Succeed ==
    /\ executing # {}
    /\ succeeded' = succeeded \cup executing
    /\ executing' = {}
    /\ position' = position + 1
    /\ UNCHANGED <<depends_on, execution_order, specs, outcome>>

(* The first failure breaks out of the loop, or returns through `?`.       *)
Fail ==
    /\ executing # {}
    /\ executing' = {}
    /\ outcome' = "failed"
    /\ UNCHANGED <<depends_on, execution_order, specs, position, succeeded>>

ReturnOk ==
    /\ outcome = "running"
    /\ position > Len(execution_order)
    /\ outcome' = "ok"
    /\ UNCHANGED <<depends_on, execution_order, specs, position, executing, succeeded>>

LoopFinished == outcome \in {"ok", "failed"} /\ UNCHANGED loopVars

LoopStep == Skip \/ Execute \/ Succeed \/ Fail \/ ReturnOk
LoopNext == LoopStep \/ LoopFinished

LoopSpec == LoopInit /\ [][LoopNext]_loopVars

-----------------------------------------------------------------------------
(* Success is reported only if every task with a specification succeeded.  *)
OkMeansAll == outcome = "ok" => succeeded = specs

(* Although it looks at nothing but the order, the loop implements Build   *)
(* for the tasks that have a specification; a dependency without one is    *)
(* not waited for.                                                         *)
Status(t) ==
    CASE t \in executing -> "running"
      [] t \in succeeded -> "succeeded"
      [] OTHER           -> "waiting"
B == INSTANCE Build WITH deps <- [t \in Tasks |-> depends_on[t] \cap specs],
                         status <- [t \in Tasks |-> Status(t)]
ImplementsBuild == B!Spec
=============================================================================
