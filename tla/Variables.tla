------------------------------ MODULE Variables ------------------------------
(***************************************************************************)
(* The variables of a recipe.  A value is a sequence of words.  One        *)
(* sequence of assignments is read twice: by the extractor of dependencies *)
(* (recipe_extractor.rs), which wants those of all configurations, and by  *)
(* the resolver of overrides (override_resolver.rs), which wants those of  *)
(* one.  References are expanded by the extractor, in place and in the     *)
(* order of a HashMap, and by SimpleResolver (resolver.rs).                *)
(***************************************************************************)
EXTENDS Naturals, SequencesExt, FiniteSetsExt

CONSTANTS
    Overrides,      \* what may qualify a variable, as in DEPENDS:append:arm
    VarNames,       \* variables, and the words that stand for ${NAME}
    MaxDepth        \* levels of references: 5 in the extractor, 10 in the resolver

VARIABLES
    lines,          \* the assignments that have not been read
    read,           \* those that have
    context,        \* the active overrides
    extracted,      \* the extractor's value of the variable assigned to
    resolved,       \* the resolver's value of it
    written,        \* the value of each variable before expansion
    expanded,       \* its value in the HashMap of the extractor
    unexpanded      \* the keys still to come

variableVars == <<lines, read, context, extracted, resolved, written, expanded, unexpanded>>

-----------------------------------------------------------------------------
Plain == "none"     \* no override
Weak == {"?=", "??="}
Unset == [set |-> FALSE, words |-> << >>]
SetTo(w) == [set |-> TRUE, words |-> w]
Applies(a) == a.override = Plain \/ a.override \in context
Without(v, W) == SetTo(SelectSeq(v.words, LAMBDA w : w \notin W))

(* Only removals ask whether their configuration is the one of the build.  *)
Removes(a) == a.op = ":remove" /\ Applies(a)

(* apply_variable_operator: additions of all configurations are taken, a   *)
(* qualified assignment adds to what there is.                             *)
ApplyVariableOperator(v, a) ==
    CASE a.op = "=" /\ a.override = Plain -> SetTo(a.words)
      [] a.op = "=" /\ a.override # Plain ->
             IF v.set => Applies(a) \/ v.words = << >> THEN SetTo(v.words \o a.words) ELSE v
      [] a.op \in {"+=", ".=", ":append"} -> SetTo(v.words \o a.words)
      [] a.op \in {"=+", ":prepend"} -> SetTo(a.words \o v.words)
      [] a.op = ":remove" -> IF v.set /\ Removes(a) THEN Without(v, ToSet(a.words)) ELSE v
      [] a.op \in Weak -> IF v.set THEN v ELSE SetTo(a.words)
      [] OTHER -> SetTo(a.words)        \* "=." too

(* resolve: in the order of the text; a removal is compared with one word. *)
Resolve(v, a) ==
    CASE ~Applies(a) -> v
      [] a.op = "=" -> SetTo(a.words)
      [] a.op \in {"+=", ":append"} -> SetTo(v.words \o a.words)
      [] a.op \in {"=+", ":prepend"} -> SetTo(a.words \o v.words)
      [] a.op = ":remove" ->
             IF v.set /\ Len(a.words) = 1 THEN Without(v, ToSet(a.words)) ELSE v
      [] a.op \in Weak -> IF v.set THEN v ELSE SetTo(a.words)

ReadLine ==
    /\ lines # << >>
    /\ LET a == Head(lines) IN
       /\ extracted' = ApplyVariableOperator(extracted, a)
       /\ resolved' = Resolve(resolved, a)
       /\ read' = Append(read, a)
    /\ lines' = Tail(lines)
    /\ UNCHANGED <<context, written, expanded, unexpanded>>

-----------------------------------------------------------------------------
(* expand_simple_variables_recursive: a reference gives way to its value,  *)
(* expanded on the next level; below the last one a value stays as it is.  *)
RECURSIVE ExpandSimpleVariables(_, _, _)
ExpandSimpleVariables(value, variables, depth) ==
    IF depth >= MaxDepth THEN value
    ELSE FlattenSeq([i \in DOMAIN value |->
             IF value[i] \in DOMAIN variables
             THEN ExpandSimpleVariables(variables[value[i]], variables, depth + 1)
             ELSE <<value[i]>>])

(* Mutant: the limit is reached one level early.                           *)
ExpandVariableShallow(x) ==
    /\ x \in unexpanded
    /\ expanded' = [expanded EXCEPT ![x] = ExpandSimpleVariables(@, expanded, 1)]
    /\ unexpanded' = unexpanded \ {x}
    /\ UNCHANGED <<lines, read, context, extracted, resolved, written>>

(* extract_from_content expands one key after the other, in place.         *)
ExpandVariable(x) ==
    /\ x \in unexpanded
    /\ expanded' = [expanded EXCEPT ![x] = ExpandSimpleVariables(@, expanded, 0)]
    /\ unexpanded' = unexpanded \ {x}
    /\ UNCHANGED <<lines, read, context, extracted, resolved, written>>

(* SimpleResolver::resolve: each round replaces, one reference after the   *)
(* other and wherever it stands, all those found at its beginning.         *)
ReplaceRef(value, x) ==
    FlattenSeq([i \in DOMAIN value |-> IF value[i] = x THEN written[x] ELSE <<value[i]>>])
RECURSIVE ResolveRounds(_, _)
ResolveRounds(value, rounds) ==
    LET references == SelectSeq(value, LAMBDA w : w \in VarNames)
        next == FoldLeft(ReplaceRef, value, references)
    IN IF rounds = 0 \/ next = value THEN value ELSE ResolveRounds(next, rounds - 1)
ResolveText(value) == ResolveRounds(value, MaxDepth)

VariableStep == ReadLine \/ \E x \in VarNames : ExpandVariable(x)

-----------------------------------------------------------------------------
(* The words of a default that the resolver takes, while the extractor     *)
(* finds the variable set by an assignment for another configuration.      *)
Shadowed ==
    UNION {ToSet(read[j].words) : j \in {j \in DOMAIN read :
        /\ read[j].op \in Weak
        /\ \E i \in 1 .. j - 1 : ~Applies(read[i])}}
RemovedTogether ==
    UNION {ToSet(a.words) : a \in {a \in ToSet(read) : a.op = ":remove" /\ Len(a.words) > 1}}

(* What the variable holds in a configuration is among what is extracted   *)
(* for all of them: whatever is replaced, added or removed in whichever    *)
(* order, no word is missed, except those of a default behind an           *)
(* assignment for another configuration and those of a removal of several. *)
NothingMissed ==
    ToSet(resolved.words) \subseteq ToSet(extracted.words) \cup Shadowed \cup RemovedTogether

RefersTo(x) == ToSet(written[x]) \cap VarNames
Below(x, n) ==
    LET reached[k \in Nat] ==
            IF k = 0 THEN {x} ELSE UNION {RefersTo(y) : y \in reached[k - 1]}
    IN reached[n]

(* All references are expanded at the levels that are left.                *)
Shallow(x) == Below(x, MaxDepth + 1) = {}

(* Substitution down to the words that are no references.                  *)
RECURSIVE Substituted(_)
Substituted(value) ==
    FlattenSeq([i \in DOMAIN value |->
        IF value[i] \in VarNames THEN Substituted(written[value[i]]) ELSE <<value[i]>>])

(* Whatever the order of the HashMap, a variable whose references end      *)
(* within the limit is expanded to the end, although those it refers to    *)
(* are expanded or not when it is; and the resolver's rounds of replacing  *)
(* come to the same text.                                                  *)
ExpansionsAgree ==
    \A x \in VarNames : Shallow(x) =>
        /\ ResolveText(written[x]) = Substituted(written[x])
        /\ x \notin unexpanded => expanded[x] = Substituted(written[x])

(* No word is lost when variables are read, and expansion is one thing.    *)
VariablesSound == NothingMissed /\ ExpansionsAgree
==============================================================================
