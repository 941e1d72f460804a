---------------------------- MODULE WaveExecutor ----------------------------
(***************************************************************************)
(* AsyncTaskExecutor::execute_graph_with_scheduler (async_executor.rs):    *)
(* the loop that takes a batch of ready tasks from the TaskScheduler, runs *)
(* them as the futures of one wave, waits for all of them, and reports     *)
(* each result to the scheduler.  The scheduler belongs to the caller and  *)
(* outlives the call, so a caller may call again with the same scheduler,  *)
(* after an error or for another target of the same recipe graph.          *)
(***************************************************************************)
EXTENDS Scheduler, WaveRuns

CONSTANTS
    MaxParallel,    \* max_parallel of the AsyncTaskExecutor
    MaxCalls        \* bound on the number of calls with one scheduler

ASSUME MaxParallelPositive == MaxParallel \in Nat \ {0}
ASSUME MaxCallsNat == MaxCalls \in Nat

VARIABLES
    graph,          \* the tasks of the TaskGraph of the present call
    specs,          \* those of them that have an entry in task_specs
    results,        \* the keys of the results map of the present call
    pc,             \* where the call is, or how the last one returned
    calls           \* calls begun

vars == <<schedulerVars, waveVars, graph, specs, results, pc, calls>>

Returned == {"ok", "deadlock", "failed"}

Init ==
    /\ SchedulerInit
    /\ WaveInit
    /\ graph = {}
    /\ specs = {}
    /\ results = {}
    /\ pc = "idle"
    /\ calls = 0

-----------------------------------------------------------------------------
(* A call begins with a graph that holds the dependencies of its tasks     *)
(* (what TaskGraphBuilder builds) and specifications for some of them.     *)
Call(g, s) ==
    /\ pc \in {"idle"} \cup Returned
    /\ calls < MaxCalls
    /\ graph' = g
    /\ specs' = s
    /\ results' = {}
    /\ Initialize
    /\ pc' = "loop"
    /\ calls' = calls + 1
    /\ UNCHANGED waveVars

(* The test of the loop, `get_stats().completed < total_tasks`.            *)
Incomplete == Cardinality(completed) < Cardinality(graph)

(* A batch is handed out; only tasks of the graph with a specification     *)
(* become futures.                                                         *)
StartWave(batch) ==
    /\ pc = "loop"
    /\ Incomplete
    /\ batch # {}
    /\ GetReadyTasks(MaxParallel, batch)
    /\ MakeFutures(batch \cap graph \cap specs)
    /\ pc' = "wave"
    /\ UNCHANGED <<graph, specs, results, calls>>

(* Mutant: an empty batch is simply asked for again.                       *)
NothingReadyPolls ==
    /\ pc = "loop"
    /\ Incomplete
    /\ GetReadyTasks(MaxParallel, {})
    /\ UNCHANGED <<waveVars, graph, specs, results, pc, calls>>

(* No task is ready: an error if the completed and the running ones do not *)
(* add up to the graph, otherwise the loop is left with Ok.                *)
NothingReady ==
    /\ pc = "loop"
    /\ Incomplete
    /\ GetReadyTasks(MaxParallel, {})
    /\ pc' = IF Cardinality(completed) + Cardinality(running) < Cardinality(graph)
             THEN "deadlock" ELSE "ok"
    /\ UNCHANGED <<waveVars, graph, specs, results, calls>>

BeginTask(t) ==
    /\ pc = "wave"
    /\ Begin(t)
    /\ UNCHANGED <<schedulerVars, graph, specs, results, pc, calls>>

FinishTask(t, result) ==
    /\ pc = "wave"
    /\ Finish(t, result)
    /\ UNCHANGED <<schedulerVars, graph, specs, results, pc, calls>>

(* Mutant: results are processed as they come, without join_all.           *)
NextResultUnjoined(t) ==
    /\ pc = "wave"
    /\ t \in wave
    /\ outcome[t] # "none"

(* The results are processed in the order of the batch, which is the order *)
(* in which the tasks were popped.                                         *)
NextResult(t) ==
    /\ pc = "wave"
    /\ Joined
    /\ t \in wave
    /\ \A u \in wave : ~Outranks(priority[u], priority[t])

ProcessOk(t) ==
    /\ NextResult(t)
    /\ outcome[t] = "ok"
    /\ MarkCompleted(t)
    /\ results' = results \cup {t}
    /\ wave' = wave \ {t}
    /\ UNCHANGED <<executing, outcome, succeeded, graph, specs, pc, calls>>

(* The first error returns from the call: the results after it are lost.   *)
ProcessErr(t) ==
    /\ NextResult(t)
    /\ outcome[t] = "err"
    /\ MarkFailed(t)
    /\ wave' = {}
    /\ pc' = "failed"
    /\ UNCHANGED <<executing, outcome, succeeded, graph, specs, results, calls>>

EndWave ==
    /\ pc = "wave"
    /\ wave = {}
    /\ pc' = "loop"
    /\ UNCHANGED <<schedulerVars, waveVars, graph, specs, results, calls>>

ReturnOk ==
    /\ pc = "loop"
    /\ ~Incomplete
    /\ pc' = "ok"
    /\ UNCHANGED <<schedulerVars, waveVars, graph, specs, results, calls>>

(* The caller makes no further call.                                       *)
Finished ==
    /\ pc \in Returned
    /\ calls = MaxCalls
    /\ UNCHANGED vars

Executor ==
    \/ \E batch \in SUBSET Tasks : StartWave(batch)
    \/ NothingReady
    \/ \E t \in Tasks : \/ BeginTask(t)
                        \/ \E result \in {"ok", "err"} : FinishTask(t, result)
                        \/ ProcessOk(t)
                        \/ ProcessErr(t)
    \/ EndWave
    \/ ReturnOk

Next ==
    \/ \E g \in SUBSET Tasks : \E s \in SUBSET g : Closed(g, deps) /\ Call(g, s)
    \/ Executor
    \/ Finished

Spec == Init /\ [][Next]_vars

(* The executor runs on its caller's task until it returns; execute_task   *)
(* is assumed to return.                                                   *)
FairSpec == Spec /\ WF_vars(Executor)

-----------------------------------------------------------------------------
(* Types of the executor's state.                                          *)
TypeOK ==
    /\ deps \in Dependencies(Tasks)
    /\ DOMAIN priority \in {{}, Tasks}
    /\ completed \subseteq Tasks
    /\ running \subseteq Tasks
    /\ ready \subseteq Tasks
    /\ graph \subseteq Tasks
    /\ specs \subseteq graph
    /\ wave \subseteq Tasks
    /\ executing \subseteq Tasks
    /\ outcome \in [Tasks -> Outcomes]
    /\ succeeded \subseteq Tasks
    /\ results \subseteq Tasks
    /\ pc \in {"idle", "loop", "wave"} \cup Returned
    /\ calls \in 0..MaxCalls

(* The executor implements Build, over any number of calls: no task runs   *)
(* before its dependencies have run successfully, and none that succeeded  *)
(* runs again, not even one whose result a failed call threw away.         *)
B == INSTANCE Build WITH status <- [t \in Tasks |-> Status(t)]
ImplementsBuild == B!Spec

(* A call never returns while a task of its wave still executes, not even  *)
(* when it returns early on the error of another one.                      *)
NoTaskOutlivesCall == pc \in Returned => executing = {}

(* When the first call with a scheduler returns without a task error, no   *)
(* task of the graph was forgotten: each unfinished one lacks its          *)
(* specification or waits for an unfinished dependency.                    *)
NothingRunnableLeft ==
    pc \in {"ok", "deadlock"} /\ calls = 1 =>
        \A t \in graph \ completed : t \in specs => ~(deps[t] \subseteq completed)

(* "Deadlock detected" is never reported by a first call that has all its  *)
(* specifications, whatever the graph and the order of the heap.           *)
NoFalseDeadlock == calls = 1 /\ pc = "deadlock" => ~(graph \subseteq specs)

(* What the first call returns in its summary is what it ran: the results  *)
(* are those of the completed tasks, all of them in this graph.            *)
ResultsMatch == calls = 1 => results = completed /\ completed \subseteq graph

(* How a first call ends: with nothing forgotten, no deadlock reported     *)
(* where there is none, and the results of what it ran.                    *)
FirstCallSound ==
    /\ TypeOK
    /\ NothingRunnableLeft
    /\ NoFalseDeadlock
    /\ ResultsMatch

(* Every call returns.                                                     *)
Termination == pc = "loop" ~> pc \in Returned

(* A first call with all specifications ends with every task of the graph  *)
(* complete, unless a task fails.                                          *)
BuildCompletes ==
    calls = 1 /\ pc = "loop" /\ graph \subseteq specs
        ~> pc = "failed" \/ (pc = "ok" /\ graph \subseteq completed)

(* Both: a call always returns, and a first one with the graph built.      *)
EveryCallEnds == Termination /\ BuildCompletes

-----------------------------------------------------------------------------
(* What every step preserves.  A completed task has succeeded; a task that *)
(* succeeded but whose result was lost stays marked as running, so the     *)
(* queue cannot hand it out again; the tasks of a wave are marked as       *)
(* running, their dependencies are complete, and their outcomes tell       *)
(* which of them succeeded; the lock has one holder, a task of the wave.   *)
QueueSound == \A t \in ready : deps[t] \subseteq completed
SucceededAccounted ==
    /\ completed \subseteq succeeded
    /\ succeeded \subseteq completed \cup running
WaveSound ==
    /\ wave \subseteq running \ completed
    /\ \A t \in wave : /\ deps[t] \subseteq completed
                       /\ outcome[t] = "ok" <=> t \in succeeded
    /\ pc # "wave" => wave = {}
LockSound ==
    /\ executing \subseteq wave
    /\ \A t, u \in executing : t = u
    /\ \A t \in executing : outcome[t] = "none"

IInv == TypeOK /\ QueueSound /\ SucceededAccounted /\ WaveSound /\ LockSound

(* What holds besides until a second call begins.  The scheduler knows of  *)
(* every runnable task; a task of the graph with a specification that it   *)
(* counts as running is in the wave; and when it hands out nothing its     *)
(* queue is empty, as the entries it passed over are gone.                 *)
NotCalledYet ==
    calls = 0 =>
        /\ pc = "idle"
        /\ completed = {} /\ running = {} /\ ready = {}
        /\ wave = {} /\ results = {}
GraphSound == Acyclic(deps) /\ Closed(graph, deps)
ResultsSound == calls = 1 => results = completed /\ completed \cup wave \subseteq specs
RunnableKnown ==
    calls = 1 /\ pc # "failed" =>
        /\ DOMAIN priority = Tasks
        /\ \A t \in Tasks : deps[t] \subseteq completed => t \in ready \cup running \cup completed
RunningInWave == calls = 1 /\ pc # "failed" => running \cap specs \subseteq wave
QueueEmptied ==
    calls = 1 =>
        /\ pc = "ok" => ready = {} \/ graph \subseteq completed
        /\ pc = "deadlock" => ready = {} /\ ~(graph \subseteq completed)
        /\ pc # "idle"

FirstCallInv ==
    /\ NotCalledYet
    /\ GraphSound
    /\ ResultsSound
    /\ RunnableKnown
    /\ RunningInWave
    /\ QueueEmptied
=============================================================================
