---------------------------- MODULE MCPreparation ----------------------------
(***************************************************************************)
(* The algorithms on graphs that the other components rest on, each on its *)
(* own: in every behaviour one part is at work and the others stay as they *)
(* are.                                                                    *)
(***************************************************************************)
EXTENDS KahnSort, SequentialExecutor, TaskSelection, RecipeWalks, Dag, IncludeResolver

VARIABLE part       \* the one at work

-----------------------------------------------------------------------------
(* Bounds: the lists of Up to n members of S.                              *)
UpTo(n, S) == UNION {[1 .. k -> S] : k \in 0 .. n}
TotalLength(f) == FoldFunction(LAMBDA l, n : Len(l) + n, 0, f)

MCFileLists == UpTo(2, Files \cup Absent)
MCRecipeLists == UpTo(1, Files \cup {"require_absent"})

SortInit ==
    IF part = "sort" THEN Init
    ELSE LET one == CHOOSE t \in Tasks : TRUE IN
         /\ dependent = [m \in Mentions |-> one]
         /\ dependency = [m \in Mentions |-> CHOOSE t \in Tasks : t # one]
         /\ in_degree = [t \in Tasks |-> 0]
         /\ queue = << >> /\ result = << >> /\ todo = {} /\ pc = "ok"

ExecutorInit ==
    IF part = "executor" THEN LoopInit
    ELSE /\ depends_on = [t \in Tasks |-> {}]
         /\ execution_order = << >> /\ specs = {} /\ position = 1
         /\ executing = {} /\ succeeded = {} /\ outcome = "ok"

(* One recipe always has the two tasks a target is taken from; either      *)
(* recipe may depend on the other; one task at most mentions another.      *)
TargetTasks == {"p"} \X {"do_compile", "do_install"}
TasksInit ==
    IF part = "selection"
    THEN \E names \in SUBSET TaskNames :
             LET tasks == TargetTasks \cup ({"q"} \X names) IN
             \E pairs \in {{}} \cup {{m} : m \in tasks \X tasks}, t \in TargetTasks :
                 \E above \in [RecipeNames -> SUBSET RecipeNames] :
                     /\ \A r \in RecipeNames : r \notin above[r]
                     /\ BuildFor(tasks, pairs, above, t)
    ELSE BuildFor(TargetTasks, {}, [r \in RecipeNames |-> {}], <<"p", "do_install">>)

(* Four dependencies at most.                                              *)
WalksInit ==
    IF part = "walk"
    THEN \E w \in WholeGraph \cup FromStart, s \in Recipes :
             \E d \in [Recipes -> UpTo(2, Recipes)] :
                 /\ w # "sorted_files" => \A r \in Recipes : IsInjective(d[r])
                 /\ w \in WholeGraph => s = CHOOSE r \in Recipes : TRUE
                 /\ TotalLength(d) <= 4
                 /\ Called(w, s, d)
    ELSE Called("detect_cycles", CHOOSE r \in Recipes : TRUE, [r \in Recipes |-> << >>])

(* Three directives in the files at most, and one file that does not parse.*)
IncludeInit ==
    IF part = "include"
    THEN /\ ResolverInit
         /\ TotalLength(includes) <= 3
         /\ Cardinality(Files \ readable) <= 1
    ELSE /\ includes = [f \in Files |-> << >>]
         /\ readable = {} /\ cache = {} /\ merged = [f \in Files |-> {}]
         /\ parsing_stack = {} /\ calls = << >> /\ recipes = << >> /\ answers = << >>

MCInit ==
    /\ part \in {"sort", "executor", "selection", "walk", "dag", "include"}
    /\ SortInit
    /\ ExecutorInit
    /\ TasksInit
    /\ WalksInit
    /\ DagInit
    /\ IncludeInit

-----------------------------------------------------------------------------
Step ==
    \/ part = "sort" /\ Sort
       /\ UNCHANGED <<loopVars, selectionVars, walkVars, dagVars, resolverVars>>
    \/ part = "executor" /\ LoopStep
       /\ UNCHANGED <<vars, selectionVars, walkVars, dagVars, resolverVars>>
    \/ part = "selection" /\ SelectionStep
       /\ UNCHANGED <<vars, loopVars, walkVars, dagVars, resolverVars>>
    \/ part = "walk" /\ WalkStep
       /\ UNCHANGED <<vars, loopVars, selectionVars, dagVars, resolverVars>>
    \/ part = "dag" /\ DagStep
       /\ UNCHANGED <<vars, loopVars, selectionVars, walkVars, resolverVars>>
    \/ part = "include" /\ ResolverStep
       /\ UNCHANGED <<vars, loopVars, selectionVars, walkVars, dagVars>>

(* A function of the part has been called and has not returned.            *)
Working ==
    CASE part = "sort"      -> pc \notin {"ok", "cycle"}
      [] part = "executor"  -> outcome = "running"
      [] part = "selection" -> selected = "no"
      [] part = "walk"      -> walked = "no"
      [] part = "dag"       -> state = "sorting"
      [] part = "include"   -> calls # << >>

(* Nothing more is asked of the part.                                      *)
Done ==
    CASE part = "dag"     -> state \in {"sorted", "cycle"}
      [] part = "include" -> ResolverDone
      [] OTHER            -> ~Working

mcVars == <<vars, loopVars, selectionVars, walkVars, dagVars, resolverVars, part>>

MCNext == (Step \/ (Done /\ UNCHANGED mcVars)) /\ UNCHANGED part

(* A function runs on once it is called; nobody has to call one.           *)
MCSpec == MCInit /\ [][MCNext]_mcVars /\ WF_mcVars(Working /\ Step /\ UNCHANGED part)

-----------------------------------------------------------------------------
(* The walks over recipes and kas files and the graph of the DAG library.  *)
GraphsSound == WalksSound /\ DagSound

(* The loop over an order implements Build, and reports success only when  *)
(* everything with a specification has succeeded.                          *)
LoopSound == ImplementsBuild /\ []OkMeansAll

(* Every function returns, on every graph: on the cyclic ones, with a node *)
(* listed twice, with files missing.                                       *)
Returns == Working ~> ~Working
=============================================================================
