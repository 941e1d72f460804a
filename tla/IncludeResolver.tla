--------------------------- MODULE IncludeResolver ---------------------------
(***************************************************************************)
(* The IncludeResolver of convenient-bitbake (include_resolver.rs), which a*)
(* BuildContext (layer_context.rs) keeps from one recipe to the next, with *)
(* its cache of resolved files and its set of files being parsed.  Only    *)
(* what a file includes is modelled; each directive finds a file, or finds *)
(* none and is an `include` or a `require`.                                *)
(***************************************************************************)
EXTENDS Naturals, SequencesExt, FiniteSets

CONSTANTS
    Files,          \* that can be included
    FileLists,      \* what files may include: sets of lists of directives
    RecipeLists,    \* and what recipes may include
    MaxRecipes      \* bound on the recipes resolved with one resolver

ASSUME FilesFinite == IsFiniteSet(Files)

Absent == {"include_absent", "require_absent"}
ASSUME FilesAreFound == Files \cap Absent = {}

ASSUME ListsOfDirectives == FileLists \cup RecipeLists \subseteq Seq(Files \cup Absent)

VARIABLES
    includes,       \* of each file, in order
    readable,       \* the files that can be parsed
    cache,          \* the files in the cache
    merged,         \* the files merged into each of them
    parsing_stack,
    calls,          \* the resolve_all_includes in progress: file, directives left, files merged
    recipes,        \* history: what the recipes included
    answers         \* history: how the resolution of each ended

resolverVars == <<includes, readable, cache, merged, parsing_stack, calls, recipes, answers>>

TheRecipe == "recipe"       \* stands in the place of a file for the recipe

ResolverInit ==
    /\ includes \in [Files -> FileLists]
    /\ readable \in SUBSET Files
    /\ cache = {}
    /\ merged = [f \in Files |-> {}]
    /\ parsing_stack = {}
    /\ calls = << >>
    /\ recipes = << >>
    /\ answers = << >>

Call == Last(calls)
AtDirective == calls # << >> /\ Call.left # << >>
Directive == Head(Call.left)
Advanced(got) == [Call EXCEPT !.left = Tail(@), !.merged = @ \cup got]

(* resolve_all_includes on a recipe, with what is left in the resolver.    *)
BeginRecipe(list) ==
    /\ calls = << >>
    /\ Len(recipes) < MaxRecipes
    /\ recipes' = Append(recipes, list)
    /\ calls' = << [file |-> TheRecipe, left |-> list, merged |-> {}] >>
    /\ UNCHANGED <<includes, readable, cache, merged, parsing_stack, answers>>

(* "Include file not found (non-fatal)".                                   *)
PassAbsent ==
    /\ AtDirective
    /\ Directive = "include_absent"
    /\ calls' = Append(Front(calls), Advanced({}))
    /\ UNCHANGED <<includes, readable, cache, merged, parsing_stack, recipes, answers>>

(* An error leaves all the calls in progress through `?`; the files that   *)
(* they were parsing stay in parsing_stack.                                *)
Error(answer) ==
    /\ calls' = << >>
    /\ answers' = Append(answers, answer)
    /\ UNCHANGED <<includes, readable, cache, merged, recipes>>

RequireFails ==
    /\ AtDirective
    /\ Directive = "require_absent"
    /\ Error("absent")
    /\ UNCHANGED parsing_stack

CircularInclude ==
    /\ AtDirective
    /\ Directive \in parsing_stack
    /\ Error("circular")
    /\ UNCHANGED parsing_stack

ParseFails ==
    /\ AtDirective
    /\ Directive \in Files \ (parsing_stack \cup cache \cup readable)
    /\ Error("parse")
    /\ parsing_stack' = parsing_stack \cup {Directive}

TakeCached ==
    /\ AtDirective
    /\ Directive \in cache \ parsing_stack
    /\ calls' = Append(Front(calls), Advanced({Directive} \cup merged[Directive]))
    /\ UNCHANGED <<includes, readable, cache, merged, parsing_stack, recipes, answers>>

(* parse_include_file, down to the recursive resolution.                   *)
Parse ==
    /\ AtDirective
    /\ Directive \in readable \ (parsing_stack \cup cache)
    /\ parsing_stack' = parsing_stack \cup {Directive}
    /\ calls' = Append(calls, [file |-> Directive, left |-> includes[Directive], merged |-> {}])
    /\ UNCHANGED <<includes, readable, cache, merged, recipes, answers>>

(* Mutant: the file is not taken off the stack.                            *)
ParsedStays ==
    /\ Len(calls) > 1
    /\ Call.left = << >>
    /\ cache' = cache \cup {Call.file}
    /\ merged' = [merged EXCEPT ![Call.file] = Call.merged]
    /\ calls' = LET above == calls[Len(calls) - 1] IN
                Append(Front(Front(calls)),
                       [above EXCEPT !.left = Tail(@), !.merged = @ \cup {Call.file} \cup Call.merged])
    /\ UNCHANGED <<includes, readable, parsing_stack, recipes, answers>>

(* The rest of parse_include_file, and the merge into the includer.        *)
Parsed ==
    /\ Len(calls) > 1
    /\ Call.left = << >>
    /\ parsing_stack' = parsing_stack \ {Call.file}
    /\ cache' = cache \cup {Call.file}
    /\ merged' = [merged EXCEPT ![Call.file] = Call.merged]
    /\ calls' = LET above == calls[Len(calls) - 1] IN
                Append(Front(Front(calls)),
                       [above EXCEPT !.left = Tail(@), !.merged = @ \cup {Call.file} \cup Call.merged])
    /\ UNCHANGED <<includes, readable, recipes, answers>>

RecipeResolved ==
    /\ Len(calls) = 1
    /\ Call.left = << >>
    /\ calls' = << >>
    /\ answers' = Append(answers, "ok")
    /\ UNCHANGED <<includes, readable, cache, merged, parsing_stack, recipes>>

ResolverStep ==
    \/ \E list \in RecipeLists : BeginRecipe(list)
    \/ PassAbsent
    \/ RequireFails
    \/ CircularInclude
    \/ ParseFails
    \/ TakeCached
    \/ Parse
    \/ Parsed
    \/ RecipeResolved

ResolverDone == calls = << >> /\ Len(recipes) = MaxRecipes

-----------------------------------------------------------------------------
Included(f) == ToSet(includes[f]) \cap Files

(* The files that a file leads to in at least one step.                    *)
IncludedBy(f) ==
    LET found[n \in Nat] ==
            IF n = 0 THEN Included(f)
            ELSE found[n - 1] \cup UNION {Included(g) : g \in found[n - 1]}
    IN found[Cardinality(Files)]

LoopFree(f) == \A g \in {f} \cup IncludedBy(f) : g \notin IncludedBy(g)

(* A file resolves if it and all that it leads to can be found and parsed, *)
(* and none of them leads to itself.                                       *)
Resolves(f) ==
    /\ LoopFree(f)
    /\ \A g \in {f} \cup IncludedBy(f) :
           g \in readable /\ "require_absent" \notin ToSet(includes[g])

(* Types; as long as no recipe failed, the files on the stack are those of *)
(* the calls in progress.                                                  *)
ResolverTypeOK ==
    /\ cache \cup parsing_stack \subseteq Files
    /\ merged \in [Files -> SUBSET Files]
    /\ Len(answers) \in {Len(recipes), Len(recipes) - 1}
    /\ (\A k \in DOMAIN answers : answers[k] = "ok") =>
           parsing_stack = {calls[i].file : i \in 2 .. Len(calls)}

(* Whether a recipe is resolved does not depend on the recipes resolved    *)
(* before it, though the resolver keeps what they left in it.              *)
VerdictIsOwn ==
    \A k \in DOMAIN answers :
        answers[k] = "ok" <=>
            /\ "require_absent" \notin ToSet(recipes[k])
            /\ \A f \in ToSet(recipes[k]) \cap Files : Resolves(f)

(* "Circular include detected" is said of an include that leads in a       *)
(* circle, or else of one that an earlier failure left on the stack.       *)
CircularOrLeftOver ==
    \A k \in DOMAIN answers :
        answers[k] = "circular" =>
            \/ \E f \in ToSet(recipes[k]) \cap Files : ~LoopFree(f)
            \/ \E j \in 1 .. k - 1 : answers[j] # "ok"

(* A file in the cache resolves, with everything it leads to merged in.    *)
CacheWhole == \A f \in cache : Resolves(f) /\ merged[f] = IncludedBy(f)

(* What is said of a recipe, and what is kept for the next ones.           *)
IncludesSound ==
    /\ ResolverTypeOK
    /\ VerdictIsOwn
    /\ CircularOrLeftOver
    /\ CacheWhole
=============================================================================
