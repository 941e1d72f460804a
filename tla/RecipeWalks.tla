----------------------------- MODULE RecipeWalks -----------------------------
(***************************************************************************)
(* The depth-first walks over the dependencies of recipes (recipe_graph.rs)*)
(* and over the includes of kas files (convenient-kas, include_graph.rs).  *)
(* All keep the set of visited nodes and the path from the root; they      *)
(* differ in what they do on entering a node, on coming upon a visited one *)
(* and on leaving.  A Vec of dependencies is walked in its order, the keys *)
(* of the HashMap of recipes in any.                                       *)
(***************************************************************************)
EXTENDS Naturals, SequencesExt, FiniteSets

CONSTANTS Recipes   \* or kas files

ASSUME RecipesFinite == IsFiniteSet(Recipes)

VARIABLES
    walk,           \* the function that was called
    start,          \* the recipe or file it was called on, if it takes one
    depends,        \* the depends of a recipe, the includes of a file
    visited,
    path,           \* the calls in progress
    left,           \* what each of them has still to look at
    sorted,         \* the Vec that is returned
    cycles,         \* the cycles found
    walked          \* how the function returned

walkVars == <<walk, start, depends, visited, path, left, sorted, cycles, walked>>

WholeGraph == {"detect_cycles", "topological_sort"}
FromStart == {"get_all_dependencies", "sorted_files"}

(* The function w is called, on s, in a graph with dependencies d.         *)
Called(w, s, d) ==
    /\ walk = w
    /\ start = s
    /\ depends = d
    /\ visited = {}
    /\ path = << >>
    /\ left = [r \in Recipes |-> << >>]
    /\ sorted = << >>
    /\ cycles = {}
    /\ walked = "no"

(* add_dependency lists a recipe once; a file may be included twice.       *)
Lists(w) == IF w = "sorted_files" THEN Seq(Recipes) ELSE {l \in Seq(Recipes) : IsInjective(l)}

WalkInit ==
    \E w \in WholeGraph \cup FromStart, s \in Recipes :
        \E d \in [Recipes -> Lists(w)] : Called(w, s, d)

Current == Last(path)
Ahead == Head(left[Current])
OnPath(r) == r \in ToSet(path)
AtDependency == walked = "no" /\ path # << >> /\ left[Current] # << >>

Visit(r) ==
    /\ visited' = visited \cup {r}
    /\ path' = Append(path, r)

(* The loop over the recipes starts at one that no walk has reached.       *)
EnterRecipe(r) ==
    /\ walked = "no"
    /\ walk \in WholeGraph
    /\ path = << >>
    /\ r \notin visited
    /\ Visit(r)
    /\ left' = [left EXCEPT ![r] = depends[r]]
    /\ UNCHANGED <<walk, start, depends, sorted, cycles, walked>>

EnterStart ==
    /\ walked = "no"
    /\ walk \in FromStart
    /\ visited = {}
    /\ Visit(start)
    /\ left' = [left EXCEPT ![start] = depends[start]]
    /\ UNCHANGED <<walk, start, depends, sorted, cycles, walked>>

(* The recursive call.  get_all_dependencies notes the recipe before it.   *)
Descend ==
    /\ AtDependency
    /\ Ahead \notin visited
    /\ Visit(Ahead)
    /\ left' = [left EXCEPT ![Current] = Tail(@), ![Ahead] = depends[Ahead]]
    /\ sorted' = IF walk = "get_all_dependencies" THEN Append(sorted, Ahead) ELSE sorted
    /\ UNCHANGED <<walk, start, depends, cycles, walked>>

(* Mutant: what was visited is on the path, or done, and is passed over.   *)
PassAny ==
    /\ AtDependency
    /\ Ahead \in visited
    /\ left' = [left EXCEPT ![Current] = Tail(@)]
    /\ UNCHANGED <<walk, start, depends, visited, path, sorted, cycles, walked>>

(* A dependency that was visited is passed over; but the walks over the    *)
(* whole graph look whether it is on the path.                             *)
Pass ==
    /\ AtDependency
    /\ Ahead \in visited
    /\ walk \in WholeGraph => ~OnPath(Ahead)
    /\ left' = [left EXCEPT ![Current] = Tail(@)]
    /\ UNCHANGED <<walk, start, depends, visited, path, sorted, cycles, walked>>

(* detect_cycles: the path from that dependency on is a cycle.             *)
FoundCycle ==
    /\ AtDependency
    /\ walk = "detect_cycles"
    /\ OnPath(Ahead)
    /\ cycles' = cycles \cup {SubSeq(path, SelectInSeq(path, LAMBDA r : r = Ahead), Len(path))}
    /\ left' = [left EXCEPT ![Current] = Tail(@)]
    /\ UNCHANGED <<walk, start, depends, visited, path, sorted, walked>>

(* topological_sort: "Circular dependency detected", through every `?`.    *)
CircularDependency ==
    /\ AtDependency
    /\ walk = "topological_sort"
    /\ OnPath(Ahead)
    /\ walked' = "circular"
    /\ UNCHANGED <<walk, start, depends, visited, path, left, sorted, cycles>>

(* Return from a call; the sorts put the node behind what it depends on.   *)
Leave ==
    /\ walked = "no"
    /\ path # << >>
    /\ left[Current] = << >>
    /\ path' = Front(path)
    /\ sorted' = IF walk \in {"topological_sort", "sorted_files"}
                 THEN Append(sorted, Current) ELSE sorted
    /\ UNCHANGED <<walk, start, depends, visited, left, cycles, walked>>

EndWalk ==
    /\ walked = "no"
    /\ path = << >>
    /\ IF walk \in WholeGraph THEN visited = Recipes ELSE visited # {}
    /\ walked' = "ok"
    /\ UNCHANGED <<walk, start, depends, visited, path, left, sorted, cycles>>

WalkStep ==
    \/ \E r \in Recipes : EnterRecipe(r)
    \/ EnterStart
    \/ Descend
    \/ Pass
    \/ FoundCycle
    \/ CircularDependency
    \/ Leave
    \/ EndWalk

-----------------------------------------------------------------------------
DependsOn(r) == ToSet(depends[r])

(* What a recipe leads to in at least one step, along dependencies.        *)
LeadsTo(r) ==
    LET reached[n \in Nat] ==
            IF n = 0 THEN DependsOn(r)
            ELSE reached[n - 1] \cup UNION {DependsOn(s) : s \in reached[n - 1]}
    IN reached[Cardinality(Recipes)]

CyclicGraph == \E r \in Recipes : r \in LeadsTo(r)

(* Types of the walks; the path holds visited nodes, each once.            *)
WalkTypeOK ==
    /\ visited \subseteq Recipes
    /\ ToSet(path) \subseteq visited
    /\ IsInjective(path)
    /\ left \in [Recipes -> Seq(Recipes)]
    /\ ToSet(sorted) \subseteq visited
    /\ IsInjective(sorted)
    /\ walked \in {"no", "ok", "circular"}

(* Dependencies first: whatever a sorted node depends on stands before it, *)
(* unless it leads back to the node, which only included files may do.     *)
DependenciesFirst ==
    walk \in {"topological_sort", "sorted_files"} =>
        \A j \in DOMAIN sorted : \A d \in DependsOn(sorted[j]) :
            \/ \E i \in 1 .. j - 1 : sorted[i] = d
            \/ walk = "sorted_files" /\ sorted[j] \in LeadsTo(d)

(* An error or a cycle is reported only on a graph that has one, every     *)
(* cycle reported is one, and a graph with cycles is never passed.         *)
CyclesAreReal ==
    /\ walked = "circular" => CyclicGraph
    /\ walked = "ok" /\ walk = "topological_sort" => ~CyclicGraph
    /\ walked = "ok" /\ walk = "detect_cycles" => (CyclicGraph => cycles # {})
    /\ \A c \in cycles :
           \A i \in DOMAIN c : c[IF i = Len(c) THEN 1 ELSE i + 1] \in DependsOn(c[i])

(* The whole of what is asked for is returned: all recipes, or all that    *)
(* the start leads to; the root file, whose settings win, comes last.      *)
WalkComplete ==
    walked = "ok" =>
        /\ walk = "topological_sort" => ToSet(sorted) = Recipes
        /\ walk = "get_all_dependencies" => ToSet(sorted) = LeadsTo(start) \ {start}
        /\ walk = "sorted_files" =>
               ToSet(sorted) = LeadsTo(start) \cup {start} /\ Last(sorted) = start

(* The three walks, on every graph and from every start.                   *)
WalksSound ==
    /\ WalkTypeOK
    /\ DependenciesFirst
    /\ CyclesAreReal
    /\ WalkComplete
=============================================================================
