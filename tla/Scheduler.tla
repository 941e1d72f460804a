----------------------------- MODULE Scheduler -----------------------------
(***************************************************************************)
(* TaskScheduler of convenient-bitbake/src/scheduler.rs: a priority queue  *)
(* of the tasks whose dependencies are complete.  The operations are       *)
(* actions on the scheduler's own variables; SchedulerClient drives        *)
(* them by an arbitrary client, WaveExecutor by the executor of the build. *)
(*                                                                         *)
(* The queue never holds a task twice (update_ready_queue looks for it     *)
(* before it pushes), so the BinaryHeap is a set, and a pop takes any of   *)
(* the members that no other member outranks.                              *)
(***************************************************************************)
EXTENDS TaskDag, Naturals, SequencesExt

-----------------------------------------------------------------------------
(* analyze_critical_paths.  The two HashMaps it fills, critical_lengths    *)
(* and dependent_counts, are functions on the tasks, 0 standing for an     *)
(* absent key (`unwrap_or(0)`).                                            *)

(* Mutant: the keys of the map are taken as they come, unsorted.           *)
KeysInAnyOrder(deps) == SetToSeqs(DOMAIN deps)

(* TaskScheduler::topological_sort: a depth-first post-order, dependencies *)
(* before the tasks that need them.  The keys of a HashMap are visited in  *)
(* any order, and visiting them in a topological order returns that order, *)
(* so on an acyclic relation the results are all the topological orders.   *)
TopologicalOrders(deps) ==
    {s \in SetToSeqs(DOMAIN deps) :
        \A i, j \in DOMAIN s : s[j] \in deps[s[i]] => j < i}

(* The pass over `sorted_tasks.iter().rev()`: the last task of the order   *)
(* is handled first.                                                       *)
CriticalLengths(sorted, deps) ==
    FoldRight(LAMBDA t, len :
                  [len EXCEPT ![t] = 1 + Max({0} \cup {len[d] : d \in deps[t]})],
              sorted,
              [t \in DOMAIN deps |-> 0])

DependentCount(t, deps) == Cardinality({u \in DOMAIN deps : t \in deps[u]})

(* The priority of every task, for the order the sort happened to return.  *)
(* The estimated time is the same constant for all, so it never decides a  *)
(* comparison and is left out.                                             *)
Priorities(sorted, deps) ==
    LET len == CriticalLengths(sorted, deps)
    IN  [t \in DOMAIN deps |-> [critical   |-> len[t],
                                dependents |-> DependentCount(t, deps)]]

(* What analyze_critical_paths may leave in the cache, one analysis for    *)
(* each order that the iteration of the HashMaps can lead to.              *)
Analyses(deps) == {Priorities(sorted, deps) : sorted \in TopologicalOrders(deps)}

(* TaskPriority::cmp, the strict order: the longer critical path first,    *)
(* then the larger number of dependents.                                   *)
Outranks(p, q) ==
    \/ p.critical > q.critical
    \/ p.critical = q.critical /\ p.dependents > q.dependents

-----------------------------------------------------------------------------

VARIABLES
    deps,           \* build_task_dependencies() of the recipe graph
    priority,       \* the priority cache, empty until the analysis has run
    completed,      \* tasks reported complete
    running,        \* tasks handed out, or reported as started
    ready           \* the ready queue

schedulerVars == <<deps, priority, completed, running, ready>>

(* A TaskScheduler just made by new(): its graph is fixed, all else empty. *)
SchedulerInit ==
    /\ deps \in AcyclicDependencies(Tasks)
    /\ priority = << >>
    /\ completed = {}
    /\ running = {}
    /\ ready = {}

-----------------------------------------------------------------------------
(* Mutant: a dependency that is merely running unblocks its dependents.     *)
NewlyReadyOnStart(prio, done, run) ==
    {t \in Tasks \ (done \cup run \cup ready) :
        t \in DOMAIN prio /\ deps[t] \subseteq done \cup run}

(* update_ready_queue: what it adds, given the sets its caller has just    *)
(* updated.  A task without a cached priority is never queued.             *)
NewlyReady(prio, done, run) ==
    {t \in Unblocked(Tasks, deps, done) \ (run \cup ready) : t \in DOMAIN prio}

(* initialize: analyse the critical paths, then fill the queue.            *)
Initialize ==
    /\ priority' \in Analyses(deps)
    /\ ready' = ready \cup NewlyReady(priority', completed, running)
    /\ UNCHANGED <<deps, completed, running>>

(* Mutant: the pop forgets the tasks that were started directly.           *)
EligibleIfRunning(t) == t \notin completed

(* A pop skips a task that completed or started while it was queued.       *)
Eligible(t) == t \notin completed /\ t \notin running

(* Mutant: entries are taken in any order.                                 *)
PoppedInAnyOrder(limit, popped) ==
    LET batch == {t \in popped : Eligible(t)} IN
    /\ Cardinality(batch) <= limit
    /\ Cardinality(batch) < limit => popped = ready

(* The entries a call of get_ready_tasks(limit) may pop: none outranked by *)
(* one it leaves, all of them if fewer than limit are eligible, and        *)
(* otherwise up to the eligible entry that reaches the limit.              *)
PoppedBy(limit, popped) ==
    LET batch == {t \in popped : Eligible(t)} IN
    /\ \A p \in popped, q \in ready \ popped : ~Outranks(priority[q], priority[p])
    /\ Cardinality(batch) <= limit
    /\ IF Cardinality(batch) < limit
       THEN popped = ready
       ELSE \/ popped = {}
            \/ \E last \in batch :
                 \A p \in popped : ~Outranks(priority[last], priority[p])

(* get_ready_tasks: the batch handed out is marked as running at once.     *)
GetReadyTasks(limit, batch) ==
    \E popped \in SUBSET ready :
        /\ PoppedBy(limit, popped)
        /\ batch = {t \in popped : Eligible(t)}
        /\ ready' = ready \ popped
        /\ running' = running \cup batch
        /\ UNCHANGED <<deps, priority, completed>>

(* mark_running: it does not look whether the task is queued.              *)
MarkRunning(t) ==
    /\ running' = running \cup {t}
    /\ UNCHANGED <<deps, priority, completed, ready>>

(* Mutant: the queue is not refilled when a task completes.                *)
MarkCompletedOnly(t) ==
    /\ running' = running \ {t}
    /\ completed' = completed \cup {t}
    /\ UNCHANGED <<deps, priority, ready>>

(* mark_completed: the running set shrinks, then the queue is refilled.    *)
MarkCompleted(t) ==
    /\ running' = running \ {t}
    /\ completed' = completed \cup {t}
    /\ ready' = ready \cup NewlyReady(priority, completed', running')
    /\ UNCHANGED <<deps, priority>>

(* mark_failed only forgets that the task runs: the queue is not updated.  *)
MarkFailed(t) ==
    /\ running' = running \ {t}
    /\ UNCHANGED <<deps, priority, completed, ready>>

(* get_stats().pending, a subtraction of usize values.                     *)
Pending == Cardinality(DOMAIN priority) - Cardinality(completed) - Cardinality(running)
=============================================================================
