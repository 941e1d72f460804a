---------------------------- MODULE TaskSelection ----------------------------
(***************************************************************************)
(* TaskGraphBuilder::build_for_task (task_graph.rs).  The tasks needed for *)
(* a target are collected from the recipe graph by collect_dependencies,   *)
(* and the full task graph, whose depends_on build_full_graph has filled by*)
(* rules of its own, is then cut down to them.  A task is its recipe and   *)
(* its name; find_task looks it up by both.                                *)
(***************************************************************************)
EXTENDS Naturals, SequencesExt, FiniteSets

CONSTANTS
    RecipeNames,
    TaskNames       \* subset of Staged \cup Staging \cup {"do_fetch"}

Staged == {"do_configure", "do_compile", "do_install"}  \* they use the sysroot
Sysroot == "do_populate_sysroot"

ASSUME RecipeNamesFinite == IsFiniteSet(RecipeNames)
ASSUME TaskNamesKnown == TaskNames \subseteq Staged \cup {Sysroot, "do_fetch"}

VARIABLES
    recipe_tasks,   \* the tasks that the recipes have
    mentions,       \* `after` and resolved task_depends, <<task, task>>
    recipe_depends, \* the depends of each recipe
    target,
    pending,        \* calls of collect_dependencies that are still to be made
    collected,
    selection,      \* the execution_order of the graph returned
    selected        \* how build_for_task returned

selectionVars ==
    <<recipe_tasks, mentions, recipe_depends, target, pending, collected, selection, selected>>

(* build_for_task(t) in a graph with these tasks and relations.            *)
BuildFor(tasks, pairs, recipes, t) ==
    /\ recipe_tasks = tasks
    /\ mentions = pairs
    /\ recipe_depends = recipes
    /\ target = t
    /\ pending = {t}
    /\ collected = {}
    /\ selection = << >>
    /\ selected = "no"

SelectionInit ==
    \E tasks \in SUBSET (RecipeNames \X TaskNames) :
        \E pairs \in SUBSET (tasks \X tasks), t \in tasks :
            \E recipes \in [RecipeNames -> SUBSET RecipeNames] : BuildFor(tasks, pairs, recipes, t)

TasksOf(r) == {t \in recipe_tasks : t[1] = r}
Mentioned(t) == {m[2] : m \in {n \in mentions : n[1] = t}}

(* The depends_on of a task, phase 2 of build_full_graph: the sysroot of   *)
(* the recipes that its recipe depends on, if it is a task that uses them. *)
DependsOnTasks(t) ==
    Mentioned(t) \cup
        (IF t[2] \in Staged
         THEN {<<r, Sysroot>> : r \in recipe_depends[t[1]]} \cap recipe_tasks ELSE {})

(* What is collected of a recipe that the recipe of a task depends on.     *)
FromRecipe(r) ==
    IF <<r, Sysroot>> \in recipe_tasks THEN {<<r, Sysroot>>}
    ELSE IF <<r, "do_install">> \in recipe_tasks THEN {<<r, "do_install">>}
    ELSE TasksOf(r)

(* Mutant: the dependencies between tasks are followed from the target only. *)
CollectShallow(t) ==
    /\ t \in pending
    /\ collected' = collected \cup {t}
    /\ pending' = (pending \cup (IF t = target THEN Mentioned(t) ELSE {}) \cup
                      UNION {FromRecipe(r) : r \in recipe_depends[t[1]]})
                  \ collected'
    /\ UNCHANGED <<recipe_tasks, mentions, recipe_depends, target, selection, selected>>

(* One call of collect_dependencies on a task not collected before; which  *)
(* of the calls comes first makes no difference to the set.                *)
Collect(t) ==
    /\ t \in pending
    /\ collected' = collected \cup {t}
    /\ pending' = (pending \cup Mentioned(t) \cup UNION {FromRecipe(r) : r \in recipe_depends[t[1]]})
                  \ collected'
    /\ UNCHANGED <<recipe_tasks, mentions, recipe_depends, target, selection, selected>>

(* What topological_sort may return for the full graph; nothing if it has  *)
(* a cycle (see KahnSort).                                                 *)
FullOrders ==
    {s \in SetToSeqs(recipe_tasks) :
        \A j \in DOMAIN s : DependsOnTasks(s[j]) \subseteq {s[i] : i \in 1 .. j - 1}}

CutDown ==
    /\ selected = "no"
    /\ pending = {}
    /\ \E full \in FullOrders :
           selection' = FoldLeft(LAMBDA s, t : IF t \in recipe_tasks \ collected THEN s ELSE Append(s, t),
                                 << >>, full)
    /\ selected' = "ok"
    /\ UNCHANGED <<recipe_tasks, mentions, recipe_depends, target, pending, collected>>

(* The full graph has a cycle, be it far from the target.                  *)
FullGraphIsCircular ==
    /\ selected = "no"
    /\ pending = {}
    /\ FullOrders = {}
    /\ selected' = "circular"
    /\ UNCHANGED <<recipe_tasks, mentions, recipe_depends, target, pending, collected, selection>>

SelectionStep == (\E t \in recipe_tasks : Collect(t)) \/ CutDown \/ FullGraphIsCircular

-----------------------------------------------------------------------------
(* The root_tasks of the graph returned: no dependency was collected.      *)
RootTasks == {t \in collected : DependsOnTasks(t) \cap collected = {}}

(* Types of the selection.                                                 *)
SelectionTypeOK ==
    /\ pending \cup collected \subseteq recipe_tasks
    /\ pending \cap collected = {}
    /\ ToSet(selection) \subseteq collected
    /\ selected \in {"no", "ok", "circular"}

(* The two sets of rules agree: a graph cut down to what was collected     *)
(* lacks no dependency of any of its tasks, so its order can be executed   *)
(* to the end, from roots that wait for nothing.                           *)
SelectionCanRun ==
    selected = "ok" =>
        /\ ToSet(selection) = collected
        /\ \A j \in DOMAIN selection :
               DependsOnTasks(selection[j]) \subseteq {selection[i] : i \in 1 .. j - 1}
        /\ \A t \in RootTasks : DependsOnTasks(t) = {}

(* For every recipe that the recipe of a selected task depends on some task*)
(* is selected; if it has a sysroot, that task comes before those that use *)
(* it.  (With the do_install that stands in for it, nothing is promised.)  *)
DependenciesStaged ==
    selected = "ok" =>
        \A j \in DOMAIN selection : \A r \in recipe_depends[selection[j][1]] :
            /\ TasksOf(r) # {} => TasksOf(r) \cap collected # {}
            /\ <<r, Sysroot>> \in recipe_tasks =>
                   /\ <<r, Sysroot>> \in collected
                   /\ selection[j][2] \in Staged =>
                          \E i \in 1 .. j - 1 : selection[i] = <<r, Sysroot>>

(* What was selected can be executed, and stages what it needs.            *)
SelectionSound ==
    /\ SelectionTypeOK
    /\ SelectionCanRun
    /\ DependenciesStaged
=============================================================================
