------------------------------ MODULE TaskDag ------------------------------
(***************************************************************************)
(* The dependency relation between tasks that both the TaskGraphBuilder    *)
(* (task_graph.rs) and the TaskScheduler (scheduler.rs) derive from a      *)
(* RecipeGraph: a function `deps` from a task to the set of tasks that     *)
(* must complete before it.  The code keeps a Vec per task, which may list *)
(* a dependency twice; that changes no decision on readiness.  It raises   *)
(* the dependent count of a priority, which is taken here as if it were    *)
(* listed once, and it matters to the sort, which KahnSort models on lists.*)
(***************************************************************************)
EXTENDS FiniteSets

CONSTANTS
    Tasks           \* the TaskIds of the recipe graph

ASSUME TasksFinite == IsFiniteSet(Tasks)

(* Every function from tasks to dependencies among the same tasks.         *)
Dependencies(T) == [T -> SUBSET T]

(* No cycle: every nonempty set of tasks has a member that depends on no   *)
(* member.  build_full_graph rejects every other relation.                 *)
Acyclic(deps) ==
    \A S \in SUBSET DOMAIN deps :
        S # {} => \E t \in S : deps[t] \cap S = {}

(* The relations of the graphs that build_full_graph returns.              *)
AcyclicDependencies(T) == {d \in Dependencies(T) : Acyclic(d)}

(* A set of tasks that holds the dependencies of its members: what         *)
(* collect_dependencies gathers for a target.                              *)
Closed(S, deps) == \A t \in S : deps[t] \subseteq S

(* Mutant: a task with dependencies waits for one of them only.            *)
UnblockedByAny(S, deps, done) ==
    {t \in S \ done : deps[t] = {} \/ deps[t] \cap done # {}}

(* Mutant: the dependencies are not looked at.                             *)
UnblockedAlways(S, deps, done) == S \ done

(* Mutant: a task needs a completed dependency, even if it has none.       *)
UnblockedBySome(S, deps, done) == {t \in S \ done : deps[t] \cap done # {}}

(* TaskGraph::get_ready_tasks: the tasks of the graph that are not         *)
(* completed and whose dependencies all are.                               *)
Unblocked(S, deps, done) == {t \in S \ done : deps[t] \subseteq done}
=============================================================================
