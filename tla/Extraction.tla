------------------------------ MODULE Extraction ------------------------------
(***************************************************************************)
(* From recipe files to the recipe graph and the task specifications: the  *)
(* pipeline (pipeline.rs) takes the implementations of tasks out of each   *)
(* recipe (task_extractor.rs), lets the extractor (recipe_extractor.rs,    *)
(* task_parser.rs, class_dependencies.rs) read tasks and dependencies into *)
(* the graph (recipe_graph.rs) and the orchestrator makes a specification  *)
(* for every task (build_orchestrator.rs) of the task graph (task_graph.rs).*)
(*                                                                         *)
(* A file is a sequence of lines:                                          *)
(*   <<"include", file>>             include or require                    *)
(*   <<"inherit", class>>                                                  *)
(*   <<"addtask", task, after, before>>                                    *)
(*   <<"deltask", task>>                                                   *)
(*   <<"function", task, suffix, code>>   do_task:suffix() { code }        *)
(*   <<"DEPENDS", assignment>>       an assignment as in Variables         *)
(*   <<"PACKAGECONFIG", assignment>> the options that are on               *)
(*   <<"option", name, recipe>>      PACKAGECONFIG[name] = ",,recipe"      *)
(*   <<"PROVIDES", word>>            PROVIDES += word                      *)
(*   <<"flag", task, recipe>>        do_task[depends] = "recipe:do_other"  *)
(* All files lie where each of them is looked for.  Runtime dependencies,  *)
(* which are read in the same way and order nothing, are left out.         *)
(***************************************************************************)
EXTENDS Variables, Functions

CONSTANTS
    RecipeFiles,    \* the recipe files that were discovered, sorted by path
    RecipeOf,       \* the name of the recipe: the stem up to an underscore
    BaseTasks,      \* the tasks every recipe gets
    ClassDefaults,  \* the dependencies known for a class, its file not read
    MaxFrames       \* the calls the stack has room for

VARIABLES
    text,           \* the lines of every file that can be read
    stage,          \* of the pipeline
    unparsed,       \* the recipe files not parsed yet
    parsed,         \* the task_impls of those that were
    recipes,        \* by RecipeId
    tasks,          \* by TaskId
    name_to_recipe,
    provider_map,
    extractions,    \* in the order of the files
    depends_on,     \* by TaskId, in the task graph
    task_specs      \* by recipe name and task name

extractionVars == <<text, stage, unparsed, parsed, recipes, tasks, name_to_recipe,
                    provider_map, extractions, depends_on, task_specs>>
graphVars == <<recipes, tasks, name_to_recipe, provider_map, extractions>>

-----------------------------------------------------------------------------
(* Implementations of tasks, by the name of the task and the suffix        *)

LinesOf(content, kinds) == SelectSeq(content, LAMBDA l : l[1] \in kinds)

(* find_include_directives, those that resolve_include_path finds.         *)
IncludeDirectives(f) ==
    SelectSeq(LinesOf(text[f], {"include", "inherit"}), LAMBDA l : l[2] \in DOMAIN text)

(* extract_all_from_content: the last definition of a key stays.           *)
ExtractAllFromContent(content) ==
    FoldLeft(LAMBDA impls, l : (<<l[2], l[3]>> :> [suffix |-> l[3], code |-> <<l[4]>>]) @@ impls,
             << >>, LinesOf(content, {"function"}))

(* Mutant: an addition takes the place of what it adds to.                 *)
MergeOneReplacing(overrides, merged, key) == (<<key[1], "">> :> overrides[key]) @@ merged

(* One turn of merge_implementations.                                      *)
MergeOne(overrides, merged, key) ==
    LET new == overrides[key]
        base == <<key[1], "">>
        extends == new.suffix \in {":append", ":prepend"}
    IN IF extends /\ base \in DOMAIN merged
       THEN [merged EXCEPT ![base].code =
                 IF new.suffix = ":append" THEN @ \o new.code ELSE new.code \o @]
       ELSE ((IF extends THEN base ELSE key) :> new) @@ merged

(* The overrides come in the order of a HashMap.                           *)
MergeImplementations(base, overrides) ==
    {FoldLeft(LAMBDA merged, key : MergeOne(overrides, merged, key), base, order) :
        order \in SetToSeqs(DOMAIN overrides)}

(* extract_tasks_with_includes: what may come out for a recipe file.  Each *)
(* file included or inherited by the recipe itself is a base for what is   *)
(* known so far.                                                           *)
ExtractTasksWithIncludes(f) ==
    FoldLeft(LAMBDA results, l :
                 UNION {MergeImplementations(ExtractAllFromContent(text[l[2]]), known) :
                           known \in results},
             {ExtractAllFromContent(text[f])}, IncludeDirectives(f))

(* parse_single_recipe: the files are parsed concurrently; one that cannot *)
(* be read is dropped.                                                     *)
ParseSingleRecipe(f) ==
    /\ stage = "parse"
    /\ f \in unparsed
    /\ IF f \in DOMAIN text
       THEN \E impls \in ExtractTasksWithIncludes(f) : parsed' = (f :> impls) @@ parsed
       ELSE parsed' = parsed
    /\ unparsed' = unparsed \ {f}
    /\ stage' = IF unparsed' = {} THEN "extract" ELSE stage
    /\ UNCHANGED <<text, graphVars, depends_on, task_specs>>

-----------------------------------------------------------------------------
(* The content of a recipe with what it includes and inherits              *)

Overflow == <<"overflow">>

(* resolve_includes_in_content: the files seen are those of this call, so  *)
(* that a circle is followed until the stack is full.                      *)
RECURSIVE ResolveIncludes(_, _)
ResolveIncludes(f, frame) ==
    IF frame > MaxFrames THEN <<Overflow>>
    ELSE FlattenSeq([i \in DOMAIN text[f] |->
             LET l == text[f][i] IN
             IF l[1] # "include" THEN <<l>>
             ELSE IF l[2] \notin DOMAIN text \/ \E j \in 1 .. i - 1 : text[f][j] = l THEN << >>
             ELSE ResolveIncludes(l[2], frame + 1)])

(* extract_tasks_from_class: the classes it inherits come first; only task *)
(* statements are taken.                                                   *)
RECURSIVE ExtractTasksFromClass(_, _)
ExtractTasksFromClass(so_far, c) ==
    IF c \in so_far.processed THEN so_far
    ELSE LET marked == [so_far EXCEPT !.processed = @ \cup {c}]
             inherited == LinesOf(text[c], {"inherit"})
             below == FoldLeft(LAMBDA s, l : ExtractTasksFromClass(s, l[2]), marked, inherited)
         IN IF c \notin DOMAIN text THEN marked
            ELSE [below EXCEPT !.output = @ \o LinesOf(text[c], {"addtask", "flag"})]

ResolveInherit(content) ==
    LET base == ExtractTasksFromClass([processed |-> {}, output |-> << >>], "base")
    IN content \o FoldLeft(LAMBDA s, l : ExtractTasksFromClass(s, l[2]),
                           base, LinesOf(content, {"inherit"})).output

-----------------------------------------------------------------------------
(* Tasks, dependencies and providers                                       *)

TaskNode(r, name) == [recipe |-> r, name |-> name, after |-> {}, before |-> {}]

(* The first task of the recipe with that name; 0 when there is none.      *)
FindTask(ts, r, name) == SelectInSeq(ts, LAMBDA t : t.recipe = r /\ t.name = name)

AddTask(ts, r, name) ==
    IF FindTask(ts, r, name) # 0 THEN ts ELSE Append(ts, TaskNode(r, name))

(* extract_tasks: the constraints are applied when all lines are read; one *)
(* that names no task of the recipe is dropped.                            *)
ExtractTasks(ts, r, content) ==
    LET adds == LinesOf(content, {"addtask"})
        base == FoldLeft(LAMBDA s, t : Append(s, TaskNode(r, <<t, "">>)), ts, BaseTasks)
        all == FoldLeft(LAMBDA s, l : AddTask(s, r, <<l[2], "">>), base, adds)
        ids(names) == {FindTask(all, r, <<n, "">>) : n \in names} \ {0}
        constrain(s, l) ==
            [s EXCEPT ![FindTask(all, r, <<l[2], "">>)] =
                [@ EXCEPT !.after = @ \cup ids(l[3]), !.before = @ \cup ids(l[4])]]
    IN FoldLeft(constrain, all, adds)

(* The tasks a file lists: those deleted anywhere in it are left out, the  *)
(* graph keeps them.                                                       *)
TaskList(content) ==
    (ToSet(BaseTasks) \cup {l[2] : l \in ToSet(LinesOf(content, {"addtask"}))})
        \ {l[2] : l \in ToSet(LinesOf(content, {"deltask"}))}

(* parse_class_file: every DEPENDS line counts, removals too.              *)
ParseClassFile(c) ==
    IF c \in DOMAIN text
    THEN UNION {ToSet(l[2].words) : l \in ToSet(LinesOf(text[c], {"DEPENDS"}))} ELSE {}

(* get_class_deps_dynamic: without any, what is known for the class.       *)
ClassDeps(c) ==
    IF ParseClassFile(c) # {} THEN ParseClassFile(c)
    ELSE IF c \in DOMAIN ClassDefaults THEN ClassDefaults[c] ELSE {}

ValueOf(content, variable) ==
    ToSet(FoldLeft(LAMBDA v, l : ApplyVariableOperator(v, l[2]), Unset,
                   LinesOf(content, {variable})).words)

(* The dependencies of the options that are on; the last declaration of an *)
(* option stays.                                                           *)
PackageConfigDeps(content) ==
    LET declared == FoldLeft(LAMBDA map, l : (l[2] :> l[3]) @@ map, << >>, LinesOf(content, {"option"}))
    IN {declared[o] : o \in ValueOf(content, "PACKAGECONFIG") \cap DOMAIN declared}

FlagDepends(content) == {l[3] : l \in ToSet(LinesOf(content, {"flag"}))}

ExtractDependencies(content) ==
    ValueOf(content, "DEPENDS") \cup PackageConfigDeps(content) \cup FlagDepends(content)
        \cup UNION {ClassDeps(l[2]) : l \in ToSet(LinesOf(content, {"inherit"}))}

(* register_provider                                                       *)
RegisterProvider(map, r, word) ==
    (word :> Append(IF word \in DOMAIN map THEN map[word] ELSE << >>, r)) @@ map

(* resolve_provider: the recipe of that name, or the first provider.       *)
ResolveProvider(name) ==
    IF name \in DOMAIN name_to_recipe THEN {name_to_recipe[name]}
    ELSE IF name \in DOMAIN provider_map THEN {Head(provider_map[name])} ELSE {}

(* extract_from_content; add_recipe takes a new id even for a name that is *)
(* known.                                                                  *)
ExtractFromContent(f, content) ==
    LET r == Len(recipes) + 1 IN
    /\ recipes' = Append(recipes, [name |-> RecipeOf[f], depends |-> {}])
    /\ name_to_recipe' = (RecipeOf[f] :> r) @@ name_to_recipe
    /\ provider_map' = FoldLeft(LAMBDA map, l : RegisterProvider(map, r, l[2]),
                                provider_map, LinesOf(content, {"PROVIDES"}))
    /\ tasks' = ExtractTasks(tasks, r, content)
    /\ extractions' = Append(extractions,
           [file |-> f, depends |-> ExtractDependencies(content), tasks |-> TaskList(content)])

ExtractFromFile(f) ==
    LET included == ResolveIncludes(f, 1) IN
    /\ IF Overflow \in ToSet(included)
       THEN stage' = "overflow" /\ UNCHANGED graphVars
       ELSE ExtractFromContent(f, ResolveInherit(included)) /\ UNCHANGED stage
    /\ UNCHANGED <<text, unparsed, parsed, depends_on, task_specs>>

(* The files parsed, in the order of their paths.                          *)
ParsedFiles == SelectSeq(RecipeFiles, LAMBDA f : f \in DOMAIN parsed)

ExtractNext ==
    /\ stage = "extract"
    /\ Len(extractions) < Len(ParsedFiles)
    /\ ExtractFromFile(ParsedFiles[Len(extractions) + 1])

(* build_recipe_graph: which tasks are new is decided for all files before *)
(* the first of them is added.                                             *)
AddImplementations ==
    LET known(r) == {t.name : t \in {t \in ToSet(tasks) : t.recipe = r}}
        new(f) == LET r == name_to_recipe[RecipeOf[f]]
                      names == SetToSeq(DOMAIN parsed[f] \ known(r))
                  IN [k \in DOMAIN names |-> TaskNode(r, names[k])]
    IN /\ stage = "extract"
       /\ Len(extractions) = Len(ParsedFiles)
       /\ tasks' = tasks \o FlattenSeq([k \in DOMAIN ParsedFiles |-> new(ParsedFiles[k])])
       /\ stage' = "populate"
       /\ UNCHANGED <<text, unparsed, parsed, recipes, name_to_recipe, provider_map, extractions,
                      depends_on, task_specs>>

(* populate_dependencies, when all recipes are known.                      *)
PopulateDependencies ==
    /\ stage = "populate"
    /\ recipes' = [r \in DOMAIN recipes |->
           [recipes[r] EXCEPT !.depends =
                @ \cup UNION {ResolveProvider(d) : d \in extractions[r].depends}]]
    /\ stage' = "graph"
    /\ UNCHANGED <<text, unparsed, parsed, tasks, name_to_recipe, provider_map, extractions,
                   depends_on, task_specs>>

(* build_full_graph: what a task comes after and, for those that use them, *)
(* the sysroots of the recipes its recipe depends on; they are looked up   *)
(* under a name that no task of the graph has.                             *)
Sysroot == <<"do_populate_sysroot", "">>
UsesSysroots == {"configure", "compile", "install"}
DependsOnOf(t) ==
    tasks[t].after \cup
        (IF tasks[t].name[1] \in UsesSysroots
         THEN {FindTask(tasks, r, Sysroot) : r \in recipes[tasks[t].recipe].depends} \ {0} ELSE {})

BuildFullGraph ==
    /\ stage = "graph"
    /\ depends_on' = [t \in DOMAIN tasks |-> DependsOnOf(t)]
    /\ stage' = IF \E T \in SUBSET DOMAIN tasks : T # {} /\ \A t \in T : depends_on'[t] \cap T # {}
                THEN "cycle" ELSE "specs"
    /\ UNCHANGED <<text, unparsed, parsed, graphVars, task_specs>>

(* What a task runs: of the files of one recipe name, the implementation   *)
(* by the last one that has any.                                           *)
Script(n, t) ==
    LET named == SelectSeq(ParsedFiles, LAMBDA f : RecipeOf[f] = n /\ parsed[f] # << >>)
    IN IF named # << >> /\ t \in DOMAIN parsed[Last(named)]
       THEN parsed[Last(named)][t].code ELSE <<"placeholder">>

CreateTaskSpecs ==
    /\ stage = "specs"
    /\ task_specs' = [k \in {<<recipes[t.recipe].name, t.name>> : t \in ToSet(tasks)} |->
                          Script(k[1], k[2])]
    /\ stage' = "done"
    /\ UNCHANGED <<text, unparsed, parsed, graphVars, depends_on>>

ExtractionInit(content) ==
    /\ text = content
    /\ stage = "parse"
    /\ unparsed = ToSet(RecipeFiles)
    /\ parsed = << >>
    /\ recipes = << >>
    /\ tasks = << >>
    /\ name_to_recipe = << >>
    /\ provider_map = << >>
    /\ extractions = << >>
    /\ depends_on = << >>
    /\ task_specs = << >>

ExtractionStep ==
    \/ \E f \in ToSet(RecipeFiles) : ParseSingleRecipe(f)
    \/ ExtractNext
    \/ AddImplementations
    \/ PopulateDependencies
    \/ BuildFullGraph
    \/ CreateTaskSpecs

-----------------------------------------------------------------------------
(* The files reached from the lines of the kind, the others left aside.    *)
RECURSIVE Reached(_, _)
Reached(files, kind) ==
    LET more == {l[2] : l \in UNION {ToSet(LinesOf(text[f], {kind})) : f \in files}} \cap DOMAIN text
    IN IF more \subseteq files THEN files ELSE Reached(files \cup more, kind)
LinesIn(files, kind) == UNION {ToSet(LinesOf(text[f], {kind})) : f \in files}

(* The files whose task statements are a recipe's: those it includes, on   *)
(* whichever level, and the classes inherited there, with base.            *)
TaskFiles(f) ==
    LET included == Reached({f}, "include")
        classes == {l[2] : l \in LinesIn(included, "inherit")} \cup {"base"}
    IN included \cup Reached(classes \cap DOMAIN text, "inherit")

Versions(f) == {g \in DOMAIN parsed : RecipeOf[g] = RecipeOf[f]}

(* Every ordering that a file of the recipe states between two tasks it    *)
(* has is in the graph, whichever file and line comes first; and a task is *)
(* there once, unless there are two versions of the recipe.                *)
OrderingComplete ==
    \A k \in DOMAIN extractions :
        LET f == extractions[k].file
            adds == LinesIn(TaskFiles(f), "addtask")
            names == ToSet(BaseTasks) \cup {l[2] : l \in adds}
            id(n) == FindTask(tasks, k, <<n, "">>)
        IN /\ \A l \in adds : /\ \A n \in l[3] \cap names : id(n) \in tasks[id(l[2])].after
                              /\ \A n \in l[4] \cap names : id(n) \in tasks[id(l[2])].before
           /\ Cardinality(Versions(f)) = 1 =>
                  \A t, u \in DOMAIN tasks :
                      tasks[t].recipe = k /\ tasks[u].recipe = k /\ tasks[t].name = tasks[u].name
                          => t = u

(* A dependency leads to the last file of the recipe of that name, or else *)
(* to the first file, by path, of those that provide it: wherever either   *)
(* is among the files.                                                     *)
DependenciesResolved ==
    stage \in {"graph", "cycle", "specs", "done"} =>
        \A k \in DOMAIN extractions :
            LET named(d) == {j \in DOMAIN recipes : recipes[j].name = d}
                providing(d) == {j \in DOMAIN recipes :
                    \E l \in LinesIn(Reached({extractions[j].file}, "include"), "PROVIDES") : l[2] = d}
            IN recipes[k].depends =
                   {Max(named(d)) : d \in {d \in extractions[k].depends : named(d) # {}}}
                   \cup {Min(providing(d)) : d \in {d \in extractions[k].depends :
                                                     named(d) = {} /\ providing(d) # {}}}

(* What a recipe adds to a task is in the task's code, in whichever order  *)
(* the functions are met and however many files it includes, unless the    *)
(* recipe also defines the task in full; and its full definition is there. *)
FragmentsKept ==
    \A f \in DOMAIN parsed :
        \A key \in DOMAIN ExtractAllFromContent(text[f]) :
            LET own == ExtractAllFromContent(text[f])
                kept == \E k \in DOMAIN parsed[f] : k[1] = key[1] /\ own[key].code[1] \in ToSet(parsed[f][k].code)
            IN kept \/ (key[2] \in {":append", ":prepend"} /\ <<key[1], "">> \in DOMAIN own)

(* A task that uses sysroots waits for those of the recipes that its recipe*)
(* depends on.                                                             *)
SysrootsFirst ==
    stage \in {"specs", "done"} =>
        \A t \in DOMAIN tasks : tasks[t].name[1] \in UsesSysroots =>
            \A r \in recipes[tasks[t].recipe].depends :
                FindTask(tasks, r, <<"populate_sysroot", "">>) \in depends_on[t]

(* Orderings, dependencies and code of the recipes all reach the graph.    *)
ExtractionSound ==
    /\ OrderingComplete
    /\ DependenciesResolved
    /\ FragmentsKept
===============================================================================
