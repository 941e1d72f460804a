---------------------------- MODULE Configuration ----------------------------
(***************************************************************************)
(* From kas files to the context of a build.  The kas command merges the   *)
(* files that include one another, fetches the repositories, writes        *)
(* conf/local.conf and conf/bblayers.conf and makes a context of the       *)
(* layers; a BuildEnvironment reads the two files back and makes another.  *)
(* In a context the appends of a recipe are found and merged.              *)
(* A value is a sequence of tokens, some of which refer to a variable; an  *)
(* option is a set of at most one value; a directory is a name, and what   *)
(* its path has in common with another's is a constant.                    *)
(***************************************************************************)
EXTENDS Integers, FiniteSets, SequencesExt

CONSTANTS
    Dirs,               \* layer directories, in the order a glob lists them
    LayerConf,          \* for each its conf/layer.conf
    Beginning,          \* <<d, e>>: e is d, or next to it with a name that begins like d's
    Inside,             \* <<d, e>>: e is d, or a directory below it
    LayerAppends,       \* for each the value its append of the recipe assigns, if any
    ReferenceOf,        \* for each token that refers to a variable, which one
    MaxIterations       \* rounds of expansion: 100 in the code

VARIABLES
    kas_files,          \* the kas files: name to contents; the first is "root"
    command,            \* where the command is
    kas_config,         \* the merged configuration
    layer_paths,        \* the layer directories found, as they are iterated
    local_conf,         \* the assignments in conf/local.conf
    kas_context,        \* the context of the kas command
    environment,        \* what BuildEnvironment read
    env_context,        \* the context made of it
    applied,            \* the directories whose appends were merged, in order
    recipe_value        \* the value they leave

configurationVars == <<kas_files, command, kas_config, layer_paths, local_conf, kas_context,
                       environment, env_context, applied, recipe_value>>

-----------------------------------------------------------------------------
(* The kas files: each after what it includes, and over it.                *)
RECURSIVE VisitSorted(_, _)
VisitSorted(path, sorted) ==
    IF path \in sorted.visited THEN sorted
    ELSE LET included == FoldLeft(LAMBDA s, f : VisitSorted(f, s),
                                  [sorted EXCEPT !.visited = @ \cup {path}],
                                  kas_files[path].includes)
         IN  [included EXCEPT !.result = Append(@, path)]
SortedFiles == VisitSorted("root", [visited |-> {}, result |-> << >>]).result

RECURSIVE Loaded(_)
Loaded(S) ==
    LET more == S \cup UNION {ToSet(kas_files[f].includes) : f \in S \cap DOMAIN kas_files}
    IN  IF more = S THEN S ELSE Loaded(more)

Overlay(f, g) == [x \in DOMAIN f \cup DOMAIN g |-> IF x \in DOMAIN g THEN g[x] ELSE f[x]]
Prefer(option, base) == IF option # {} THEN option ELSE base
MergeInto(base, overlay) ==
    [machine |-> Prefer(overlay.machine, base.machine),
     distro |-> Prefer(overlay.distro, base.distro),
     repos |-> Overlay(base.repos, overlay.repos),
     local_conf_header |-> Overlay(base.local_conf_header, overlay.local_conf_header)]
Empty == [machine |-> {}, distro |-> {}, repos |-> << >>, local_conf_header |-> << >>]
MergeConfig ==
    FoldLeft(LAMBDA base, f : MergeInto(base, kas_files[f]), Empty, SortedFiles)

-----------------------------------------------------------------------------
(* The generated local.conf.  Sections come in the order of a HashMap.     *)
Assign(name, op, value) == [name |-> name, op |-> op, value |-> value]
Given(name, option) ==
    IF option = {} THEN << >> ELSE <<Assign(name, "?=", CHOOSE v \in option : TRUE)>>
LocalConfs(config) ==
    LET sections == config.local_conf_header
    IN  {Given("MACHINE", config.machine) \o Given("DISTRO", config.distro)
             \o <<Assign("TMPDIR", "=", <<"$TOPDIR", "/tmp">>),
                  Assign("DL_DIR", "?=", <<"$TOPDIR", "/downloads">>)>>
             \o FlattenSeq([i \in DOMAIN order |-> sections[order[i]]])
             \o <<Assign("PACKAGE_CLASSES", "?=", <<"package_ipk">>)>>
            : order \in SetToSeqs(DOMAIN sections)}

(* Mutant: the first is kept.                                              *)
FirstWins(lines) ==
    [x \in {a.name : a \in ToSet(lines)} |->
        SelectSeq(lines, LAMBDA a : a.name = x)[1].value]
(* What BitbakeRecipe makes of assignments: a HashMap into which each one  *)
(* is inserted, whatever its operator.                                     *)
VariablesOf(lines) ==
    [x \in {a.name : a \in ToSet(lines)} |->
        Last(SelectSeq(lines, LAMBDA a : a.name = x)).value]

(* What BitBake makes of them.                                             *)
BitBakeValue(lines, x) ==
    LET own == SelectSeq(lines, LAMBDA a : a.name = x)
        firm == {i \in DOMAIN own : own[i].op = "="}
    IN  own[IF firm = {} THEN 1 ELSE CHOOSE i \in firm : \A j \in firm : j <= i].value

-----------------------------------------------------------------------------
(* VariableExpander: the first reference that is known is replaced, and    *)
(* the text looked at again.                                               *)
Known(vars, t) == t \in DOMAIN ReferenceOf /\ ReferenceOf[t] \in DOMAIN vars
Reread(vars, text) ==
    LET i == SelectInSeq(text, LAMBDA t : Known(vars, t))
    IN  IF i = 0 THEN text
        ELSE SubSeq(text, 1, i - 1) \o vars[ReferenceOf[text[i]]] \o SubSeq(text, i + 1, Len(text))
Expand(vars, text) ==
    LET round[n \in 0 .. MaxIterations] == IF n = 0 THEN text ELSE Reread(vars, round[n - 1])
    IN  round[MaxIterations]

-----------------------------------------------------------------------------
(* Layers.  The context keeps them by priority, the highest first, and in  *)
(* the order they were added among equals.                                 *)
ByPriority(seq, x, priority) ==
    SelectSeq(seq, LAMBDA y : priority[y] >= priority[x]) \o <<x>>
        \o SelectSeq(seq, LAMBDA y : priority[y] < priority[x])
AddLayer(layers, layer) ==
    ByPriority(layers, layer, [l \in ToSet(layers) \cup {layer} |-> l.priority])

(* A layer.conf that cannot be read stands for a layer of priority 5, one  *)
(* without a priority for 0; a directory without one is no layer.          *)
ParseLayerConf(d) ==
    LET conf == LayerConf[d]
    IN  IF conf.state = "unreadable"
        THEN [layer_dir |-> d, collection |-> d, priority |-> 5, depends |-> {}]
        ELSE [layer_dir |-> d, collection |-> conf.collection, depends |-> conf.depends,
              priority |-> IF conf.priority = {} THEN 0 ELSE CHOOSE p \in conf.priority : TRUE]
AddLayers(dirs) ==
    FoldLeft(LAMBDA layers, d : AddLayer(layers, ParseLayerConf(d)), << >>,
             SelectSeq(dirs, LAMBDA d : LayerConf[d].state # "missing"))
VerifyDependencies(layers) ==
    LET available == {l.collection : l \in ToSet(layers)}
    IN  \A l \in ToSet(layers) : l.depends \subseteq available

-----------------------------------------------------------------------------
(* The appends of a recipe in a context.                                   *)
(* Each layer's glob also matches the directories next to it whose names   *)
(* begin like its own.                                                     *)
FindBbappends(layers) ==
    FlattenSeq([i \in DOMAIN layers |->
        SelectSeq(Dirs, LAMBDA d : <<layers[i].layer_dir, d>> \in Beginning
                                   /\ LayerAppends[d] # {})])
(* The first layer whose directory the path is in.                         *)
LayerForPath(layers, d) == SelectInSeq(layers, LAMBDA l : <<l.layer_dir, d>> \in Inside)
(* The order is that of the layers where all are known; sort_by with a     *)
(* path of no layer, which compares equal to every other, may leave any.   *)
Sorted(layers, found) ==
    IF \A d \in ToSet(found) : LayerForPath(layers, d) # 0
    THEN LET priority == [d \in ToSet(found) |-> layers[LayerForPath(layers, d)].priority]
         IN  {FoldLeft(LAMBDA s, d : ByPriority(s, d, priority), << >>, found)}
    ELSE {[i \in DOMAIN found |-> found[order[i]]] : order \in Permutations(DOMAIN found)}

-----------------------------------------------------------------------------
(* The steps of the kas command.                                           *)
ConfigurationInit(files) ==
    /\ kas_files = files
    /\ command = "start"
    /\ kas_config = Empty /\ layer_paths = << >> /\ local_conf = << >>
    /\ kas_context = << >> /\ environment = << >> /\ env_context = << >>
    /\ applied = << >> /\ recipe_value = {}

(* A file that is not there ends the command.                              *)
LoadKas ==
    /\ command = "start"
    /\ IF Loaded({"root"}) \subseteq DOMAIN kas_files
       THEN command' = "loaded" /\ kas_config' = MergeConfig
       ELSE command' = "failed" /\ UNCHANGED kas_config
    /\ UNCHANGED <<kas_files, layer_paths, local_conf, kas_context, environment, env_context,
                   applied, recipe_value>>

(* A repository is a local path, or cloned; one that cannot be cloned, or  *)
(* is neither, is left out, and so are directories that are not there.     *)
LayersOf(r) == kas_config.repos[r].layers \cap ToSet(Dirs)
FetchRepositories ==
    /\ command = "loaded"
    /\ command' = "fetched"
    /\ LET usable == {r \in DOMAIN kas_config.repos : kas_config.repos[r].source # "none"}
           remote == {r \in usable : kas_config.repos[r].source = "url"}
       IN  \E cloned \in SUBSET remote :
               LET repos == {r \in (usable \ remote) \cup cloned : LayersOf(r) # {}}
               IN  \E order \in SetToSeqs(repos) :
                   \E inner \in {f \in [repos -> UNION {SetToSeqs(LayersOf(r)) : r \in repos}] :
                                     \A r \in repos : f[r] \in SetToSeqs(LayersOf(r))} :
                       layer_paths' = FlattenSeq([i \in DOMAIN order |-> inner[order[i]]])
    /\ UNCHANGED <<kas_files, kas_config, local_conf, kas_context, environment, env_context,
                   applied, recipe_value>>

GenerateAll ==
    /\ command = "fetched"
    /\ command' = "generated"
    /\ local_conf' \in LocalConfs(kas_config)
    /\ UNCHANGED <<kas_files, kas_config, layer_paths, kas_context, environment, env_context,
                   applied, recipe_value>>

CreateKasContext ==
    /\ command = "generated"
    /\ command' = "context"
    /\ kas_context' = [machine |-> kas_config.machine, distro |-> kas_config.distro,
                       layers |-> AddLayers(layer_paths)]
    /\ UNCHANGED <<kas_files, kas_config, layer_paths, local_conf, environment, env_context,
                   applied, recipe_value>>

(* BuildEnvironment::from_build_dir and create_build_context: bblayers.conf*)
(* lists the directories as they were iterated.                            *)
AsOption(vars, x) == IF x \in DOMAIN vars THEN {vars[x]} ELSE {}
LoadEnvironment ==
    /\ command = "context"
    /\ LET vars == VariablesOf(local_conf)
           expander == Overlay("TOPDIR" :> <<"/build">>, vars)
           layers == AddLayers(layer_paths)
       IN  /\ environment' =
                  [variables |-> vars,
                   dl_dir |-> Expand(expander, vars["DL_DIR"]),
                   global_variables |-> [x \in DOMAIN vars |-> Expand(expander, vars[x])]]
           /\ IF VerifyDependencies(layers)
              THEN /\ command' = "loaded again"
                   /\ env_context' = [machine |-> AsOption(vars, "MACHINE"),
                                      distro |-> AsOption(vars, "DISTRO"), layers |-> layers]
              ELSE command' = "refused" /\ UNCHANGED env_context
    /\ UNCHANGED <<kas_files, kas_config, layer_paths, local_conf, kas_context, applied,
                   recipe_value>>

(* parse_recipe_with_context: the appends are merged over the recipe, one  *)
(* after the other.                                                        *)
ParseRecipe ==
    /\ command = "loaded again"
    /\ command' = "parsed"
    /\ applied' \in Sorted(env_context.layers, FindBbappends(env_context.layers))
    /\ recipe_value' = IF applied' = << >> THEN {"own"} ELSE LayerAppends[Last(applied')]
    /\ UNCHANGED <<kas_files, kas_config, layer_paths, local_conf, kas_context, environment,
                   env_context>>

ConfigurationStep ==
    \/ LoadKas \/ FetchRepositories \/ GenerateAll \/ CreateKasContext \/ LoadEnvironment
    \/ ParseRecipe

-----------------------------------------------------------------------------
Commands == {"start", "loaded", "fetched", "generated", "context", "loaded again", "refused",
             "parsed", "failed"}
ConfigurationTypeOK == command \in Commands /\ ToSet(layer_paths) \subseteq ToSet(Dirs)

(* A file in no circle of includes has the last word over all that it      *)
(* includes, directly or not (merge_config).                               *)
IncludedBy(f) == Loaded(ToSet(kas_files[f].includes))
IncludingFileWins ==
    command \notin {"start", "failed"} =>
        \A f \in Loaded({"root"}) : kas_files[f].machine # {} /\ f \notin IncludedBy(f) =>
            \E g \in Loaded({"root"}) \ IncludedBy(f) : kas_config.machine = kas_files[g].machine

InASection(x) ==
    \E s \in DOMAIN kas_config.local_conf_header :
        \E a \in ToSet(kas_config.local_conf_header[s]) : a.name = x
(* The context made of the files that were written is that of the command  *)
(* which wrote them: but for a machine or distribution that a section of   *)
(* the kas file assigns.                                                   *)
ContextsAgree ==
    command \in {"loaded again", "parsed"} =>
        /\ env_context.layers = kas_context.layers
        /\ env_context.machine = kas_context.machine \/ InASection("MACHINE")
        /\ env_context.distro = kas_context.distro \/ InASection("DISTRO")

(* What is read of local.conf is what BitBake would read: but for a weak   *)
(* assignment that comes after another to the same variable, which the     *)
(* generator itself writes below the sections of the kas file.             *)
LocalConfRead ==
    environment # << >> =>
        \A x \in DOMAIN environment.variables :
            \/ environment.variables[x] = BitBakeValue(local_conf, x)
            \/ \E i, j \in DOMAIN local_conf :
                   /\ i < j /\ local_conf[i].name = x
                   /\ local_conf[j] = Assign(x, "?=", environment.variables[x])

(* Nothing known is left unexpanded, but in the circles of variables.      *)
Needs(x) == {ReferenceOf[t] : t \in ToSet(environment.variables[x]) \cap DOMAIN ReferenceOf}
                \cap DOMAIN environment.variables
RECURSIVE NeedsAll(_)
NeedsAll(S) ==
    LET more == S \cup UNION {Needs(x) : x \in S} IN IF more = S THEN S ELSE NeedsAll(more)
ExpansionComplete ==
    environment # << >> =>
        \A x \in DOMAIN environment.variables :
            \/ \A t \in ToSet(environment.global_variables[x]) :
                   ~Known(Overlay("TOPDIR" :> << >>, environment.variables), t)
            \/ \E y \in NeedsAll({x}) : y \in NeedsAll(Needs(y))

(* The appends merged are those of the layers, and of directories that     *)
(* begin like a layer's; and where all are of layers, the last word is     *)
(* with one of the lowest priority.                                        *)
AppendsPlaced ==
    command = "parsed" =>
        LET layers == env_context.layers
            Priority(d) == layers[LayerForPath(layers, d)].priority
        IN  /\ \A d \in ToSet(applied) :
                   \E l \in ToSet(layers) : <<l.layer_dir, d>> \in Beginning
            /\ \A l \in ToSet(layers) :
                   LayerAppends[l.layer_dir] # {} => l.layer_dir \in ToSet(applied)
            /\ (applied # << >> /\ \A d \in ToSet(applied) : LayerForPath(layers, d) # 0) =>
                   \E d \in ToSet(applied) :
                       /\ recipe_value = LayerAppends[d]
                       /\ \A e \in ToSet(applied) : Priority(d) <= Priority(e)

ConfigurationSound ==
    /\ ConfigurationTypeOK
    /\ IncludingFileWins
    /\ ContextsAgree
    /\ LocalConfRead
    /\ ExpansionComplete
    /\ AppendsPlaced
=============================================================================
