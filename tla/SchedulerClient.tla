-------------------------- MODULE SchedulerClient --------------------------
(***************************************************************************)
(* The TaskScheduler under any client that respects its vocabulary: a      *)
(* client reports the end of tasks it works on, and starts by itself       *)
(* (mark_running) only tasks that nobody works on and that are not yet     *)
(* completed.  It may do so before initialize, call initialize again, take *)
(* batches of any size and report failures, all in any order.              *)
(***************************************************************************)
EXTENDS Scheduler

CONSTANTS
    MaxBatch        \* bound on the limit passed to get_ready_tasks

ASSUME MaxBatchNat == MaxBatch \in Nat

VARIABLES
    workers,        \* how many times each task is being worked on
    stalled         \* tasks failed since the queue was last refilled

vars == <<schedulerVars, workers, stalled>>

Init ==
    /\ SchedulerInit
    /\ workers = [t \in Tasks |-> 0]
    /\ stalled = {}

DoInitialize ==
    /\ Initialize
    /\ stalled' = {}
    /\ UNCHANGED workers

Take(limit, batch) ==
    /\ GetReadyTasks(limit, batch)
    /\ workers' = [t \in Tasks |-> IF t \in batch THEN workers[t] + 1 ELSE workers[t]]
    /\ UNCHANGED stalled

Start(t) ==
    /\ t \notin completed
    /\ workers[t] = 0
    /\ MarkRunning(t)
    /\ workers' = [workers EXCEPT ![t] = 1]
    /\ UNCHANGED stalled

Complete(t) ==
    /\ workers[t] > 0
    /\ MarkCompleted(t)
    /\ workers' = [workers EXCEPT ![t] = @ - 1]
    /\ stalled' = {}

Fail(t) ==
    /\ workers[t] > 0
    /\ MarkFailed(t)
    /\ workers' = [workers EXCEPT ![t] = @ - 1]
    /\ stalled' = stalled \cup {t}

Next ==
    \/ DoInitialize
    \/ \E limit \in 0..MaxBatch, batch \in SUBSET Tasks : Take(limit, batch)
    \/ \E t \in Tasks : Start(t) \/ Complete(t) \/ Fail(t)

Spec == Init /\ [][Next]_vars

-----------------------------------------------------------------------------
(* Types of the scheduler's state and of the client's bookkeeping.         *)
TypeOK ==
    /\ deps \in Dependencies(Tasks)
    /\ DOMAIN priority \in {{}, Tasks}
    /\ completed \subseteq Tasks
    /\ running \subseteq Tasks
    /\ ready \subseteq Tasks
    /\ workers \in [Tasks -> Nat]
    /\ stalled \subseteq Tasks

(* Every queued task has all its dependencies completed, so whatever       *)
(* get_ready_tasks hands out may run; in particular nothing behind a       *)
(* failed task is ever queued (the comment of mark_failed).                *)
QueueSound == \A t \in ready : deps[t] \subseteq completed

(* No task is handed out while somebody works on it or after it completed: *)
(* the entries that became stale in the queue are skipped by the pop.      *)
WorkedOnce ==
    \A t \in Tasks : /\ workers[t] <= 1
                     /\ workers[t] = 1 => t \in running \ completed

(* No lost wake-up: once initialized, a task that could run and is neither *)
(* running nor completed is in the queue, unless it failed and the queue   *)
(* has not been refilled since (only mark_completed and initialize do).    *)
NoLostTask ==
    DOMAIN priority = Tasks =>
        Unblocked(Tasks, deps, completed) \ (running \cup ready) \subseteq stalled

(* The subtraction of get_stats does not wrap once the priorities exist.   *)
StatsDoNotWrap == DOMAIN priority = Tasks => Pending >= 0

(* Whatever graph, client and interleaving, the four together.             *)
SchedulerSound ==
    /\ TypeOK
    /\ QueueSound
    /\ WorkedOnce
    /\ NoLostTask
    /\ StatsDoNotWrap

(* "Higher priority = run first": no task leaves the queue while a task    *)
(* that outranks it could run too and is not handed out, queued or not;    *)
(* only one that failed since the last refill may be passed over.          *)
HighestFirst ==
    [][\A t \in ready \ ready',
          u \in Unblocked(Tasks, deps, completed) \ (running' \cup stalled) :
              ~Outranks(priority[u], priority[t])]_vars

(* An initialize() of a scheduler that is used again never changes the     *)
(* priorities its ready queue was ordered by: they do not depend on the    *)
(* order in which the HashMaps were iterated, or the sort resolved ties.   *)
StablePriorities == [][priority # << >> => priority' = priority]_vars

(* The tasks are interchangeable.                                          *)
Symmetry == Permutations(Tasks)
=============================================================================
