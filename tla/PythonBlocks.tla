----------------------------- MODULE PythonBlocks -----------------------------
(***************************************************************************)
(* The anonymous Python functions of a recipe: found in its text, parsed   *)
(* line by line into an intermediate representation, which is executed on  *)
(* a copy of the variables and merged back (recipe_extractor.rs,           *)
(* python_ir_parser.rs, python_ir.rs, python_ir_executor.rs).  Beside it   *)
(* runs what they mean: the DataStore of python_executor.rs.               *)
(*                                                                         *)
(* A text is a sequence of words, and a name is a text.  A line is a       *)
(* record [kind, depth, name, item, value]; its kind is "set", "append",   *)
(* "prepend", "read" (x = d.getVar(name)), "check" (a call of              *)
(* bb.utils.contains), "if" (on such a call), "else", "comment", "loop" or *)
(* "other" (anything the parser has no pattern for).                       *)
(***************************************************************************)
EXTENDS Integers, SequencesExt, FiniteSetsExt

CONSTANTS
    RefOf,          \* the variable each word ${...} refers to
    Defaults,       \* the default variables of the configuration
    LineLimit,      \* 20 lines
    StaticLimit,    \* complexity 3
    HybridLimit,    \* complexity 50
    Expressions     \* what a value may hold as ${@...}

VARIABLES
    content,        \* the items of the recipe that have not been read
    vars,           \* the variables of the recipe
    evalVars,       \* these with the defaults
    phase,          \* "scan", "parse", "execute"
    block,          \* the block at work
    at,             \* its next line, or the next operation
    branch,         \* "none", "body", "else": where the parser is
    ops,            \* the operations of the block
    current,        \* the variables of the IRExecutor
    values,         \* its values, by the operation that made them
    store,          \* what Python makes of the variables
    conditional,    \* a branch was not taken that the parser takes
    inlined         \* an inline expression and the value it was replaced by

parseVars == <<content, vars, evalVars, phase, block, at, branch, ops, current, values, store, conditional>>
blockVars == <<parseVars, inlined>>

-----------------------------------------------------------------------------
Over(f, g) == [x \in DOMAIN f \cup DOMAIN g |-> IF x \in DOMAIN f THEN f[x] ELSE g[x]]
Put(f, x, v) == Over([y \in {x} |-> v], f)
TextOf(f, x) == IF x \in DOMAIN f THEN f[x] ELSE << >>

\* references to variables replaced by their values until none is left that can be
RECURSIVE Expanded(_, _, _)
Expanded(f, text, keep) ==
    LET refs == {i \in DOMAIN text : text[i] \in DOMAIN RefOf
                                     /\ (keep => RefOf[text[i]] \in DOMAIN f)}
    IN  IF refs = {} THEN text
        ELSE Expanded(f, SubSeq(text, 1, Min(refs) - 1) \o TextOf(f, RefOf[text[Min(refs)]])
                         \o SubSeq(text, Min(refs) + 1, Len(text)), keep)

\* a variable name keeps the references that are unknown, a value loses them
ExpandVarReferences(f, name) == Expanded(f, name, TRUE)
ExpandValue(f, text) == Expanded(f, text, FALSE)

-----------------------------------------------------------------------------
(* The meaning of a block: DataStoreInner.                                 *)
StoreLine(s, l) ==
    LET name == ExpandVarReferences(s, l.name)
    IN  CASE l.kind = "set" -> Put(s, name, l.value)
          [] l.kind = "append" -> Put(s, name, TextOf(s, name) \o l.value)
          [] l.kind = "prepend" -> Put(s, name, l.value \o TextOf(s, name))
          [] OTHER -> s

ContainsItem(s, l) == l.name \in DOMAIN s /\ l.item[1] \in Range(ExpandValue(s, s[l.name]))

\* the first line after i that is no deeper than it
BlockEnd(lines, i) ==
    LET after == {j \in i + 1 .. Len(lines) : lines[j].depth <= lines[i].depth /\ lines[j].kind # "comment"}
    IN  IF after = {} THEN Len(lines) + 1 ELSE Min(after)

RECURSIVE RunLines(_, _)
RunLines(lines, s) ==
    IF lines = << >> THEN s
    ELSE IF lines[1].kind # "if" THEN RunLines(Tail(lines), StoreLine(s, lines[1]))
    ELSE LET e == BlockEnd(lines, 1)
             has == e <= Len(lines) /\ lines[e].kind = "else" /\ lines[e].depth = lines[1].depth
             f == IF has THEN BlockEnd(lines, e) ELSE e
             taken == IF ContainsItem(s, lines[1]) THEN SubSeq(lines, 2, e - 1)
                      ELSE IF has THEN SubSeq(lines, e + 1, f - 1) ELSE << >>
         IN  RunLines(SubSeq(lines, f, Len(lines)), RunLines(taken, s))

-----------------------------------------------------------------------------
(* Scanning.                                                               *)
BlockInit(items, v) ==
    /\ content = items
    /\ vars = v /\ evalVars = Over(v, Defaults)
    /\ phase = "scan" /\ block = << >> /\ at = 1 /\ branch = "none"
    /\ ops = << >> /\ current = << >> /\ values = << >>
    /\ store = Over(v, Defaults) /\ conditional = FALSE /\ inlined = << >>

\* the word "python " anywhere starts a block, whose body is the next pair of braces
IsFunction(i) == i.kind \in {"python", "shell"}
Taken ==
    IF content[1].kind # "mention" THEN 1
    ELSE LET fs == {i \in DOMAIN content : IsFunction(content[i])} IN IF fs = {} THEN Len(content) ELSE Min(fs)

Anonymous == content[1].kind = "python" /\ content[1].name = "__anonymous"

SkipItem ==
    /\ phase = "scan" /\ content # << >> /\ ~Anonymous
    /\ content' = SubSeq(content, Taken + 1, Len(content))
    /\ UNCHANGED <<vars, evalVars, phase, block, at, branch, ops, current, values, store, conditional>>

\* one loop, or too many lines, and the whole block is too complex
TooComplex(lines) == Len(lines) > LineLimit \/ \E i \in DOMAIN lines : lines[i].kind = "loop"

StartBlock ==
    /\ phase = "scan" /\ content # << >> /\ Anonymous
    /\ content' = Tail(content)
    /\ block' = content[1]
    /\ ops' = IF TooComplex(content[1].lines) THEN <<[op |-> "complex"]>> ELSE << >>
    /\ at' = IF TooComplex(content[1].lines) THEN Len(content[1].lines) + 1 ELSE 1
    /\ phase' = "parse" /\ branch' = "none"
    /\ UNCHANGED <<vars, evalVars, current, values, store, conditional>>

-----------------------------------------------------------------------------
(* Parsing.  The operation at place p makes value p.                       *)
Literal(v) == [op |-> "literal", value |-> v]
Change(kind, name, p) == [op |-> kind, name |-> name, value |-> p]

Operations(l, p) ==
    CASE l.kind \in {"set", "append", "prepend"} -> <<Literal(l.value), Change(l.kind, l.name, p + 1)>>
      [] l.kind = "read" -> <<[op |-> "getvar", name |-> l.name]>>
      [] l.kind \in {"check", "if"} ->
             <<Literal(<<"True">>), Literal(<<"False">>), [op |-> "contains", name |-> l.name, item |-> l.item]>>

Parsable(l) == l.kind \in {"set", "append", "prepend", "read", "check", "if"}
Indented(l) == block.base + l.depth > 0

Emit(l) == ops' = ops \o Operations(l, Len(ops)) /\ at' = at + 1
GiveUp == ops' = Append(ops, [op |-> "complex"]) /\ at' = Len(block.lines) + 1

ParseLine ==
    /\ phase = "parse" /\ at <= Len(block.lines) /\ branch = "none"
    /\ LET l == block.lines[at] IN
       /\ \/ l.kind = "comment" /\ at' = at + 1 /\ UNCHANGED ops
          \/ Parsable(l) /\ Emit(l)
          \/ l.kind # "comment" /\ ~Parsable(l) /\ GiveUp
       /\ branch' = IF l.kind = "if" THEN "body" ELSE "none"
    /\ UNCHANGED <<content, vars, evalVars, phase, block, current, values, store, conditional>>

\* the body of an if is every indented line that follows, and it is always executed
ParseBody ==
    /\ phase = "parse" /\ at <= Len(block.lines) /\ branch = "body"
    /\ LET l == block.lines[at] IN
       \/ /\ Indented(l)
          /\ \/ l.kind = "comment" /\ at' = at + 1 /\ UNCHANGED ops
             \/ Parsable(l) /\ Emit(l)
             \/ l.kind # "comment" /\ ~Parsable(l) /\ GiveUp
          /\ UNCHANGED branch
       \/ /\ ~Indented(l)
          /\ at' = IF l.kind = "else" THEN at + 1 ELSE at
          /\ branch' = IF l.kind = "else" THEN "else" ELSE "none"
          /\ UNCHANGED ops
    /\ UNCHANGED <<content, vars, evalVars, phase, block, current, values, store, conditional>>

SkipElse ==
    /\ phase = "parse" /\ at <= Len(block.lines) /\ branch = "else"
    /\ at' = IF Indented(block.lines[at]) THEN at + 1 ELSE at
    /\ branch' = IF Indented(block.lines[at]) THEN "else" ELSE "none"
    /\ UNCHANGED <<content, vars, evalVars, phase, block, ops, current, values, store, conditional>>

Cost(o) == CASE o.op = "literal" -> 0
             [] o.op = "set" -> 1
             [] o.op \in {"append", "prepend"} -> 2
             [] o.op = "getvar" -> 4
             [] o.op = "contains" -> 5
             [] o.op = "complex" -> HybridLimit + 1

CalculateComplexity == FoldLeft(LAMBDA n, o : n + Cost(o), 0, ops)
ExecutionStrategy == IF CalculateComplexity <= StaticLimit THEN "static"
                     ELSE IF CalculateComplexity <= HybridLimit THEN "hybrid" ELSE "rustpython"

-----------------------------------------------------------------------------
(* Executing, on a copy.                                                   *)
StartExecution ==
    /\ phase = "parse" /\ at > Len(block.lines)
    /\ ExecutionStrategy # "rustpython"
    /\ phase' = "execute" /\ at' = 1
    /\ current' = evalVars /\ values' = << >>
    /\ UNCHANGED <<content, vars, evalVars, block, branch, ops, store, conditional>>

\* the interpreter is not part of the build: the block has no effect
NotExecuted ==
    /\ phase = "parse" /\ at > Len(block.lines)
    /\ ExecutionStrategy = "rustpython"
    /\ phase' = "scan"
    /\ UNCHANGED <<content, vars, evalVars, block, at, branch, ops, current, values, store, conditional>>

Keep(v) == values' = Put(values, at, v) /\ UNCHANGED current

(* Mutant: a prepended text goes to the end.                               *)
ChangedAtEnd(o, name) == CASE o.op = "set" -> values[o.value] [] OTHER -> TextOf(current, name) \o values[o.value]

Changed(o, name) ==
    CASE o.op = "set" -> values[o.value]
      [] o.op = "append" -> TextOf(current, name) \o values[o.value]
      [] o.op = "prepend" -> values[o.value] \o TextOf(current, name)

ExecuteOperation ==
    /\ phase = "execute" /\ at <= Len(ops)
    /\ LET o == ops[at] IN
       \/ o.op = "literal" /\ Keep(o.value)
       \/ o.op = "getvar" /\ Keep(IF ExecutionStrategy = "hybrid" THEN ExpandValue(current, TextOf(current, o.name))
                                  ELSE TextOf(current, o.name))
       \/ o.op = "contains" /\ ExecutionStrategy = "hybrid"
          /\ Keep(values[at - IF o.item[1] \in Range(TextOf(current, o.name)) THEN 2 ELSE 1])
       \/ /\ o.op \in {"set", "append", "prepend"}
          /\ LET name == ExpandVarReferences(current, o.name)
             IN  current' = Put(current, name, Changed(o, name))
          /\ UNCHANGED values
    /\ at' = at + 1
    /\ UNCHANGED <<content, vars, evalVars, phase, block, branch, ops, store, conditional>>

\* every variable of the copy, the defaults among them, becomes one of the recipe
MergeBlock ==
    /\ phase = "execute" /\ at > Len(ops)
    /\ vars' = Over(current, vars)
    /\ evalVars' = Over(current, evalVars)
    /\ phase' = "scan"
    /\ store' = RunLines(block.lines, store)
    /\ conditional' = (conditional \/ \E i \in DOMAIN block.lines :
            /\ block.lines[i].kind = "if"
            /\ ~ContainsItem(RunLines(SubSeq(block.lines, 1, i - 1), store), block.lines[i]))
    /\ UNCHANGED <<content, block, at, branch, ops, current, values>>

ProcessBlocks ==
    /\ \/ SkipItem \/ StartBlock \/ ParseLine \/ ParseBody \/ SkipElse
       \/ StartExecution \/ NotExecuted \/ ExecuteOperation \/ MergeBlock
    /\ UNCHANGED inlined

-----------------------------------------------------------------------------
(* Inline: the value of ${@...}.  When the parser knows the form of the    *)
(* expression it is executed, and the result is "the first modified value":*)
(* of the variables the executor returns, which are all there are.         *)
InlineValue(s, e) ==
    CASE e.kind = "check" -> IF ContainsItem(s, e) THEN <<"True">> ELSE <<"False">>
      [] e.kind = "read" -> ExpandValue(s, TextOf(s, e.name))
      [] e.kind = "literal" -> e.value
FirstModified(s) == {s[x] : x \in DOMAIN s}

EvaluateInline ==
    /\ inlined = << >>
    /\ \E e \in Expressions :
          \E v \in IF DOMAIN evalVars # {} THEN FirstModified(evalVars) ELSE {InlineValue(evalVars, e)} :
              inlined' = <<e, v>>
    /\ UNCHANGED parseVars

-----------------------------------------------------------------------------
(* An anonymous function changes the variables as Python would, in the     *)
(* order of its lines and of the functions, or it is beyond the parser and *)
(* changes none at all: no part of a block has an effect of its own.  Left *)
(* out are functions with an if whose condition is false, since the parser *)
(* executes every body (python_ir_parser.rs:170).                          *)
BlocksAsPython == conditional \/ evalVars = store
===============================================================================
