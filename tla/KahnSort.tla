------------------------------ MODULE KahnSort ------------------------------
(***************************************************************************)
(* TaskGraphBuilder::topological_sort (task_graph.rs) on the tasks that    *)
(* build_full_graph gathered.  The depends_on of a task is a Vec that may  *)
(* list the same dependency several times (as an `after`, as a task        *)
(* dependency and as a recipe dependency), and then the dependents of that *)
(* dependency list the task as often.  So the relation is made of          *)
(* mentions: each is one entry of one depends_on and of one dependents.    *)
(***************************************************************************)
EXTENDS TaskDag, Integers, SequencesExt

CONSTANTS
    Mentions        \* the entries of all the depends_on vectors

ASSUME MentionsFinite == IsFiniteSet(Mentions)

VARIABLES
    dependent,      \* the task whose depends_on holds the mention
    dependency,     \* the task it names
    in_degree,
    queue,
    result,
    todo,           \* mentions of the popped task not yet decremented
    pc

graphVars == <<dependent, dependency>>
vars == <<dependent, dependency, in_degree, queue, result, todo, pc>>

Init ==
    /\ dependent \in [Mentions -> Tasks]
    /\ dependency \in [Mentions -> Tasks]
    /\ in_degree = [t \in Tasks |-> 0]
    /\ queue = << >>
    /\ result = << >>
    /\ todo = {}
    /\ pc = "count"

(* The in-degree of a task counts the entries of its depends_on.           *)
Degrees == [t \in Tasks |-> Cardinality({m \in Mentions : dependent[m] = t})]

(* The queue starts with the tasks of degree 0, in the order of a HashMap. *)
Count ==
    /\ pc = "count"
    /\ in_degree' = Degrees
    /\ queue' \in SetToSeqs({t \in Tasks : in_degree'[t] = 0})
    /\ pc' = "sort"
    /\ UNCHANGED <<graphVars, result, todo>>

Pop ==
    /\ pc = "sort"
    /\ todo = {}
    /\ queue # << >>
    /\ result' = Append(result, Head(queue))
    /\ queue' = Tail(queue)
    /\ todo' = {m \in Mentions : dependency[m] = Head(queue)}
    /\ UNCHANGED <<graphVars, in_degree, pc>>

(* Mutant: a task is queued each time one of its dependencies is placed.   *)
ReleaseEager(m) ==
    /\ m \in todo
    /\ in_degree' = [in_degree EXCEPT ![dependent[m]] = @ - 1]
    /\ queue' = Append(queue, dependent[m])
    /\ todo' = todo \ {m}
    /\ UNCHANGED <<graphVars, result, pc>>

(* One dependent of the popped task: its degree is decremented, and the    *)
(* one that reaches 0 is queued.  The order of the dependents is that in   *)
(* which a HashMap yielded the tasks.                                      *)
Release(m) ==
    /\ m \in todo
    /\ in_degree' = [in_degree EXCEPT ![dependent[m]] = @ - 1]
    /\ queue' = IF in_degree'[dependent[m]] = 0 THEN Append(queue, dependent[m]) ELSE queue
    /\ todo' = todo \ {m}
    /\ UNCHANGED <<graphVars, result, pc>>

(* Mutant: the loop runs until every task is placed.                       *)
ReturnWhenAllPlaced ==
    /\ pc = "sort"
    /\ todo = {}
    /\ queue = << >>
    /\ pc' = IF Len(result) = Cardinality(Tasks) THEN "ok" ELSE "sort"
    /\ UNCHANGED <<graphVars, in_degree, queue, result, todo>>

(* "Circular dependency detected in task graph" when a task was left out.  *)
Return ==
    /\ pc = "sort"
    /\ todo = {}
    /\ queue = << >>
    /\ pc' = IF Len(result) # Cardinality(Tasks) THEN "cycle" ELSE "ok"
    /\ UNCHANGED <<graphVars, in_degree, queue, result, todo>>

Finished == pc \in {"ok", "cycle"} /\ UNCHANGED vars

Sort == Count \/ Pop \/ (\E m \in Mentions : Release(m)) \/ Return
Next == Sort \/ Finished

Spec == Init /\ [][Next]_vars

-----------------------------------------------------------------------------
(* The relation that the mentions make.                                    *)
DepsOf(t) == {dependency[m] : m \in {n \in Mentions : dependent[n] = t}}
deps == [t \in Tasks |-> DepsOf(t)]

(* Types of the sort: a degree is a usize and never drops below 0.         *)
TypeOK ==
    /\ dependent \in [Mentions -> Tasks]
    /\ dependency \in [Mentions -> Tasks]
    /\ in_degree \in [Tasks -> Nat]
    /\ queue \in Seq(Tasks)
    /\ result \in Seq(Tasks)
    /\ todo \subseteq Mentions
    /\ pc \in {"count", "sort", "ok", "cycle"}

(* Every task in the order stands behind all its dependencies, and none    *)
(* stands there twice.                                                     *)
OrderIsTopological ==
    \A j \in 1..Len(result) :
        /\ \A i \in 1..(j - 1) : result[i] # result[j]
        /\ \A m \in Mentions : dependent[m] = result[j] =>
               \E i \in 1..(j - 1) : result[i] = dependency[m]

(* The cycle error is the right answer: it is given exactly when the       *)
(* relation has a cycle, however often a dependency is listed.             *)
CycleReportIsRight ==
    /\ pc = "ok" => Acyclic(deps)
    /\ pc = "cycle" => ~Acyclic(deps)

(* The verdict of the sort is right either way, and its degrees and queue  *)
(* stay within their types.                                                *)
SortSound ==
    /\ TypeOK
    /\ OrderIsTopological
    /\ CycleReportIsRight

-----------------------------------------------------------------------------
(* What every step preserves: the degree of a task counts its mentions of  *)
(* tasks that are not yet placed, or whose release is still to come, and   *)
(* the tasks of degree 0 are exactly those queued or placed, each once.    *)
Queued == ToSet(queue)
Placed == ToSet(result)
Unplaced(t) == {m \in Mentions : dependent[m] = t /\ (dependency[m] \in Placed => m \in todo)}

Fresh == pc = "count" => queue = << >> /\ result = << >> /\ todo = {}
DegreeExact == pc # "count" => \A t \in Tasks : in_degree[t] = Cardinality(Unplaced(t))
ListedWhenFree == pc # "count" => \A t \in Tasks : in_degree[t] = 0 <=> t \in Queued \cup Placed
ListedOnce == IsInjective(queue) /\ IsInjective(result) /\ Queued \cap Placed = {}
TodoPlaced == \A m \in todo : dependency[m] \in Placed
Ended ==
    pc \in {"ok", "cycle"} =>
        /\ todo = {}
        /\ queue = << >>
        /\ pc = "ok" <=> Len(result) = Cardinality(Tasks)

IInv == /\ TypeOK
        /\ Fresh
        /\ DegreeExact
        /\ ListedWhenFree
        /\ ListedOnce
        /\ TodoPlaced
        /\ OrderIsTopological
        /\ Ended
=============================================================================
