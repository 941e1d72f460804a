--------------------------- MODULE PythonExpressions ---------------------------
(***************************************************************************)
(* The expressions recipes write in ${@...}, as trees: how each is spelled *)
(* and what Python makes of it.  The evaluator sees only the spelling.     *)
(*                                                                         *)
(* Trees: <<"lit", text>>, <<"num", text>>, <<"var", name>>, <<"item">>,   *)
(* <<"method", e, name, texts>>, <<"part", e, from, to>>, <<"list", texts>>*)
(* <<"comp", out, source, condition>>, <<"call", function, texts>>,        *)
(* <<"ite", then, condition, else>>, <<"not", c>>, <<"or", c, d>>,         *)
(* <<"and", c, d>>, <<"cmp", op, e, f>>, <<"in", e, f>>, <<"len", e>>,     *)
(* <<"vercmp", e, f>>.  Values: <<"text", v>>, <<"list", texts>>,          *)
(* <<"int", n>>, <<"bool", b>>, <<"none">>.                                *)
(***************************************************************************)
EXTENDS PythonEval

VARIABLES
    expression,     \* the tree of the expression to evaluate
    variables,      \* the variables of the evaluator
    result,         \* what it returned: an Option of a text
    evaluated

pythonVars == <<expression, variables, result, evaluated>>

-----------------------------------------------------------------------------
(* Spelling.  Parentheses only where the precedence of Python needs them.  *)
Listed(texts) == FlattenSeq([i \in DOMAIN texts |-> IF i = 1 THEN <<Lit(texts[i])>>
                                                    ELSE <<Tok(","), Lit(texts[i])>>])
LoopName == Name(<<"i">>)
AnyTree == <<"true">>

RECURSIVE Spell(_)
Spell(e) ==
    LET Grouped(c, tags) == IF c[1] \in tags THEN Toks(<<"(">>) \o Spell(c) \o Toks(<<")">>) ELSE Spell(c)
        Infix(op) == Spell(e[3]) \o Toks(<<op>>) \o Spell(e[4])
    IN  CASE e[1] = "lit" -> <<Lit(e[2])>>
          [] e[1] = "num" -> <<Num(e[2])>>
          [] e[1] = "item" -> <<LoopName>>
          [] e[1] = "var" -> Toks(<<"d.getVar", "(">>) \o <<Lit(e[2])>> \o Toks(<<")">>)
          [] e[1] = "method" -> Spell(e[2]) \o Toks(<<".", e[3], "(">>) \o Listed(e[4]) \o Toks(<<")">>)
          [] e[1] = "part" -> Spell(e[2]) \o Toks(<<"[">>) \o
                 (IF e[4] = << >> THEN <<Num(e[3])>> ELSE <<Num(e[3]), Tok(":"), Num(e[4])>>) \o Toks(<<"]">>)
          [] e[1] = "list" -> Toks(<<"[">>) \o Listed(e[2]) \o Toks(<<"]">>)
          [] e[1] = "comp" -> Toks(<<"[">>) \o Spell(e[2]) \o <<Tok("for"), LoopName, Tok("in")>> \o Spell(e[3])
                 \o (IF e[4] = AnyTree THEN << >> ELSE <<Tok("if")>> \o Spell(e[4])) \o Toks(<<"]">>)
          [] e[1] = "call" -> Toks(<<e[2], "(">>)
                 \o (IF e[2] \in {"oe.utils.any_distro_features", "oe.utils.all_distro_features"}
                     THEN Toks(<<"d", ",">>) \o Listed(e[3]) ELSE Listed(e[3]) \o Toks(<<",", "d">>))
                 \o Toks(<<")">>)
          [] e[1] = "ite" -> Spell(e[2]) \o Toks(<<"if">>) \o Spell(e[3]) \o Toks(<<"else">>) \o Spell(e[4])
          [] e[1] = "not" -> Toks(<<"not">>) \o Grouped(e[2], {"and", "or"})
          [] e[1] = "and" -> Grouped(e[2], {"or"}) \o Toks(<<"and">>) \o Grouped(e[3], {"or"})
          [] e[1] = "or" -> Spell(e[2]) \o Toks(<<"or">>) \o Spell(e[3])
          [] e[1] = "cmp" -> Infix(e[2])
          [] e[1] = "in" -> Spell(e[2]) \o Toks(<<"in">>) \o Spell(e[3])
          [] e[1] = "len" -> Toks(<<"len", "(">>) \o Spell(e[2]) \o Toks(<<")">>)
          [] e[1] = "vercmp" -> Toks(<<"bb.utils.vercmp", "(">>) \o Spell(e[2]) \o Toks(<<",">>) \o Spell(e[3])
                 \o Toks(<<")">>)

-----------------------------------------------------------------------------
(* The value in Python: an Option, empty where Python raises an exception. *)
PText(v) == <<"text", v>>
PBool(b) == <<"bool", b>>
PInt(n) == <<"int", n>>

True(x) == CASE x[1] \in {"text", "list"} -> x[2] # << >>
             [] x[1] = "int" -> x[2] # 0
             [] x[1] = "bool" -> x[2]
             [] OTHER -> FALSE

PMethod(v, m, a) ==
    CASE m = "strip" -> PText(TrimEnd(TrimStart(v)))
      [] m = "lstrip" -> PText(TrimStart(v))
      [] m = "rstrip" -> PText(TrimEnd(v))
      [] m = "upper" -> PText(Upper(v))
      [] m = "lower" -> PText(Lower(v))
      [] m = "split" -> <<"list", Words(v)>>
      [] m = "replace" -> PText(Replaced(v, a[1], a[2]))
      [] m = "startswith" -> PBool(IsPrefix(a[1], v))
      [] m = "endswith" -> PBool(IsSuffix(a[1], v))
      [] m = "find" -> PInt(IF Places(v, a[1]) = {} THEN -1 ELSE Min(Places(v, a[1])))
      [] m = "rfind" -> PInt(IF Places(v, a[1]) = {} THEN -1 ELSE Max(Places(v, a[1])))

NumberOf(v) == CHOOSE n \in ParseInt(v) : TRUE

\* bb.utils and oe.utils; a variable that is not set has no words
PCall(vars, f, a) ==
    LET x == IF f \in {"oe.utils.any_distro_features", "oe.utils.all_distro_features"}
             THEN <<"DISTRO_FEATURES">> ELSE a[1]
        b == IF x = a[1] THEN Tail(a) ELSE a
        W == IF x \in DOMAIN vars THEN Range(Words(vars[x])) ELSE {}
        Pick(found) == PText(IF found THEN b[2] ELSE b[3])
        asked == Range(Words(b[1]))
    IN  CASE f \in {"bb.utils.contains_any", "oe.utils.any_distro_features"} -> Pick(asked \cap W # {})
          [] f \in {"bb.utils.contains", "oe.utils.all_distro_features"} -> Pick(asked \subseteq W)
          [] f = "bb.utils.filter" -> PText(Joined(SelectSeq(Words(b[1]), LAMBDA w : w \in W)))
          [] f = "oe.utils.conditional" -> Pick(x \in DOMAIN vars /\ vars[x] = b[1])
          [] f = "bb.utils.to_boolean" -> PBool(x \in TrueWords)
          [] f = "bb.utils.which" -> PText(IF \E p \in W : p = b[1] \/ IsSuffix(<<"/">> \o b[1], p) THEN b[1] ELSE << >>)

\* version components side by side, the shorter one filled up with zeros
PVercmp(v, w) ==
    LET Numbers(x) == [k \in DOMAIN SplitAt(x, ".") |-> NumberOf(SplitAt(x, ".")[k])]
        Padded(x) == Numbers(x) \o [k \in 1 .. Len(v) + Len(w) - Len(Numbers(x)) + 1 |-> 0]
        Less(x, y) == \E k \in 1 .. Min({Len(x), Len(y)}) :
                          x[k] < y[k] /\ \A j \in 1 .. k - 1 : x[j] = y[j]
    IN  PInt(IF Less(Padded(v), Padded(w)) THEN -1 ELSE IF Less(Padded(w), Padded(v)) THEN 1 ELSE 0)

RECURSIVE Python(_, _, _)
Python(vars, item, e) ==
    LET P(t) == Python(vars, item, t)
        Both(t, u) == P(t) \X P(u)
        Texts2(t) == {x[2] : x \in {x \in P(t) : x[1] = "text"}}
        Lists(t) == {x[2] : x \in {x \in P(t) : x[1] = "list"}}
    IN  CASE e[1] = "lit" -> {PText(e[2])}
          [] e[1] = "num" -> {PInt(NumberOf(e[2]))}
          [] e[1] = "item" -> {PText(item)}
          [] e[1] = "true" -> {PBool(TRUE)}
          [] e[1] = "var" -> {IF e[2] \in DOMAIN vars THEN PText(vars[e[2]]) ELSE <<"none">>}
          [] e[1] = "method" -> {PMethod(v, e[3], e[4]) : v \in Texts2(e[2])}
          [] e[1] = "part" ->
                 IF e[4] # << >> THEN {PText(SubSeq(v, NumberOf(e[3]) + 1, Min({Len(v), NumberOf(e[4])}))) :
                                           v \in Texts2(e[2])}
                 ELSE {PText(<<v[NumberOf(e[3]) + 1]>>) : v \in {v \in Texts2(e[2]) : NumberOf(e[3]) < Len(v)}}
          [] e[1] = "list" -> {<<"list", e[2]>>}
          [] e[1] = "comp" ->
                 {<<"list", FlattenSeq([k \in DOMAIN l |->
                      IF \E x \in Python(vars, l[k], e[4]) : True(x)
                      THEN <<CHOOSE v \in {x[2] : x \in Python(vars, l[k], e[2])} : TRUE>> ELSE << >>])>> :
                    l \in Lists(e[3])}
          [] e[1] = "call" -> {PCall(vars, e[2], e[3])}
          [] e[1] = "ite" -> UNION {IF True(x) THEN P(e[2]) ELSE P(e[4]) : x \in P(e[3])}
          [] e[1] = "not" -> {PBool(~True(x)) : x \in P(e[2])}
          [] e[1] = "and" -> UNION {IF True(x) THEN P(e[3]) ELSE {x} : x \in P(e[2])}
          [] e[1] = "or" -> UNION {IF True(x) THEN {x} ELSE P(e[3]) : x \in P(e[2])}
          [] e[1] = "cmp" /\ e[2] = "==" -> {PBool(x[1] = x[2]) : x \in Both(e[3], e[4])}
          [] e[1] = "cmp" /\ e[2] = "!=" -> {PBool(x[1] # x[2]) : x \in Both(e[3], e[4])}
          [] e[1] = "cmp" -> {PBool(Compares(e[2], x[1][2], x[2][2])) :
                                 x \in {x \in Both(e[3], e[4]) : x[1][1] = "int" /\ x[2][1] = "int"}}
          [] e[1] = "in" -> {PBool(x[1] \in Range(x[2])) : x \in Texts2(e[2]) \X Lists(e[3])}
          [] e[1] = "len" -> {PInt(Len(v)) : v \in Texts2(e[2]) \cup Lists(e[2])}
          [] e[1] = "vercmp" -> {PVercmp(v[1], v[2]) : v \in Texts2(e[2]) \X Texts2(e[3])}

\* what str() shows of a value; the evaluator writes a list as its words
Shown(x) == CASE x[1] = "text" -> x[2]
              [] x[1] = "int" -> Numeral(x[2])
              [] x[1] = "bool" -> Truth(x[2])
              [] x[1] = "none" -> <<"None">>
              [] x[1] = "list" -> Joined(x[2])

-----------------------------------------------------------------------------
PythonInit(e, vars) ==
    /\ expression = e
    /\ variables = vars
    /\ result = {}
    /\ evaluated = FALSE

Evaluate ==
    /\ ~evaluated
    /\ result' = Eval(variables, Spell(expression))
    /\ evaluated' = TRUE
    /\ UNCHANGED <<expression, variables>>

\* a variable whose text the evaluator takes for false and Python for true
RECURSIVE Leaves(_)
Leaves(c) == CASE c[1] = "not" -> Leaves(c[2])
               [] c[1] \in {"and", "or"} -> Leaves(c[2]) \cup Leaves(c[3])
               [] OTHER -> {c}
TakenForFalse(e) ==
    e[1] = "ite" /\ \E c \in Leaves(e[3]) :
        \E x \in Python(variables, << >>, c) : x[1] = "text" /\ x[2] \in NotTrue \ {<< >>}

\* a comprehension over a variable that is not set, taken for a list of one literal
TakenForLiteral(e) == e[1] = "comp" /\ \A x \in Python(variables, << >>, e[3]) : x[1] # "list"

(* An inline expression that is evaluated is what Python would have made   *)
(* of it, whatever operators, calls and methods it is put together from:   *)
(* what the evaluator cannot handle it leaves alone                        *)
(* (simple_python_eval.rs:20).  Two exceptions: the texts "0" and "false"  *)
(* count as false in a condition, and a comprehension whose source cannot  *)
(* be evaluated is read as a literal list.                                 *)
EvaluatedAsPython ==
    evaluated /\ ~TakenForFalse(expression) /\ ~TakenForLiteral(expression) =>
        \A text \in result :
            \E x \in Python(variables, << >>, expression) :
                text = Shown(x) \/ (x[1] = "list" /\ Joined(Words(text)) = Shown(x))
===============================================================================
