------------------------------ MODULE PythonEval ------------------------------
(***************************************************************************)
(* SimplePythonEvaluator: inline ${@...} expressions evaluated without a   *)
(* Python interpreter, by looking for the calls it knows in their text.    *)
(*                                                                         *)
(* A text is a sequence of characters; an expression is a sequence of      *)
(* tokens [t, v], where v is the text of a literal ("'"), a number ("num") *)
(* or a loop variable ("name").  An Option is a set of at most one value.  *)
(* Literals hold no keyword, and no loop variable is part of another word. *)
(***************************************************************************)
EXTENDS Integers, FiniteSets, SequencesExt

CONSTANTS
    UpperCase,      \* the capital of each letter
    Digits          \* the number each digit stands for

Space == " "
Tok(t) == [t |-> t, v |-> << >>]
Lit(v) == [t |-> "'", v |-> v]
Num(v) == [t |-> "num", v |-> v]
Name(v) == [t |-> "name", v |-> v]
Toks(ts) == [i \in DOMAIN ts |-> Tok(ts[i])]

Yes == <<"True">>
No == <<"False">>
Truth(b) == IF b THEN Yes ELSE No

\* of Options: the first of two that has a value, and the value or a default
OrElse(option, other) == IF option # {} THEN option ELSE other
Default(option, v) == CHOOSE w \in OrElse(option, {v}) : TRUE

-----------------------------------------------------------------------------
(* Texts                                                                   *)
Letters(v) == {i \in DOMAIN v : v[i] # Space}
TrimStart(v) == IF Letters(v) = {} THEN << >> ELSE SubSeq(v, Min(Letters(v)), Len(v))
TrimEnd(v) == IF Letters(v) = {} THEN << >> ELSE SubSeq(v, 1, Max(Letters(v)))

\* the pieces of a sequence between the places at which it is cut
Pieces(v, cuts) == [k \in 1 .. Len(cuts) - 1 |-> SubSeq(v, cuts[k] + 1, cuts[k + 1] - 1)]
CutAt(v, at) == Pieces(v, SetToSortSeq(at \cup {0, Len(v) + 1}, <))

\* split at a separator; split_whitespace also drops the empty parts
SplitAt(v, sep) == CutAt(v, {i \in DOMAIN v : v[i] = sep})
Words(v) == SelectSeq(SplitAt(v, Space), LAMBDA w : w # << >>)
Joined(words) ==
    FlattenSeq([k \in DOMAIN words |-> IF k = 1 THEN words[k] ELSE <<Space>> \o words[k]])

Upper(v) == [i \in DOMAIN v |-> IF v[i] \in DOMAIN UpperCase THEN UpperCase[v[i]] ELSE v[i]]
Lower(v) == [i \in DOMAIN v |-> LET small == {c \in DOMAIN UpperCase : UpperCase[c] = v[i]}
                                IN  IF small = {} THEN v[i] ELSE CHOOSE c \in small : TRUE]

\* the places, counted from 0, at which a text occurs in another
Places(v, w) == {i \in 0 .. Len(v) - Len(w) : SubSeq(v, i + 1, i + Len(w)) = w}
Numeral(n) == IF n < 0 THEN <<"-", CHOOSE d \in DOMAIN Digits : Digits[d] = -n>>
            ELSE <<CHOOSE d \in DOMAIN Digits : Digits[d] = n>>

\* parse::<i32> and parse::<usize>
ParseNat(v) == IF v # << >> /\ Range(v) \subseteq DOMAIN Digits
               THEN {FoldLeft(LAMBDA n, d : 10 * n + Digits[d], 0, v)} ELSE {}
ParseInt(v) == IF v # << >> /\ v[1] = "-" THEN {-n : n \in ParseNat(Tail(v))} ELSE ParseNat(v)

-----------------------------------------------------------------------------
(* Tokens                                                                  *)
Has(s, t) == \E i \in DOMAIN s : s[i].t = t
Starts(s, t) == s # << >> /\ s[1].t = t
Where(s, t) == SelectInSeq(s, LAMBDA k : k.t = t)
LastWhere(s, t) == SelectLastInSeq(s, LAMBDA k : k.t = t)
Before(s, i) == SubSeq(s, 1, i - 1)
After(s, i) == SubSeq(s, i + 1, Len(s))
AfterFirst(s, t) == After(s, Where(s, t))

Nesting(s, i) == Cardinality({j \in 1 .. i : s[j].t = "("}) - Cardinality({j \in 1 .. i : s[j].t = ")"})

\* the first place of an operator outside parentheses, or 0
OperatorAt(s, op) ==
    LET at == {i \in DOMAIN s : s[i].t = op /\ Nesting(s, i) = 0} IN IF at = {} THEN 0 ELSE Min(at)

\* the parenthesis that closes the one before the text: a set of at most one
MatchingParen(s) ==
    LET at == {i \in DOMAIN s : Nesting(s, i) = -1} IN IF at = {} THEN {} ELSE {Min(at)}

\* what is left of a piece of an expression taken as text
Spelled(s, bare) ==
    FlattenSeq([i \in DOMAIN s |->
        IF s[i].t # "'" THEN (IF s[i].v = << >> THEN <<s[i].t>> ELSE s[i].v)
        ELSE IF bare /\ Nesting(s, i) = 0 THEN s[i].v ELSE <<"'">> \o s[i].v \o <<"'">>])

\* one argument, its outer quotes gone: white space alone is kept
Trim(text, quoted) == IF quoted /\ Letters(text) = {} THEN text ELSE TrimEnd(text)
ArgText(arg) == Trim(Spelled(arg, TRUE), Has(arg, "'"))

\* the arguments between the commas outside parentheses, as tokens
ParseArgs(s) ==
    IF ArgText(s) = << >> THEN << >>
    ELSE CutAt(s, {i \in DOMAIN s : s[i].t = "," /\ Nesting(s, i) = 0})
Texts(args) == [k \in DOMAIN args |-> ArgText(args[k])]

\* parse_function_args: Option of the argument list of the first call of f
FunctionArgs(s, f) ==
    LET after == AfterFirst(s, f)
        inside == AfterFirst(after, "(")
    IN  IF ~Has(after, "(") THEN {} ELSE {ParseArgs(Before(inside, c)) : c \in MatchingParen(inside)}

-----------------------------------------------------------------------------
(* String operations                                                       *)
Index(v, inner) ==
    {<<v[n + 1]>> : n \in {n \in ParseNat(Spelled(inner, FALSE)) : n < Len(v)}}

\* [start:end], either of them left out; what follows a second colon is ignored
Bound(part, default) == IF part = << >> THEN {default} ELSE ParseNat(Spelled(part, FALSE))
Slice(v, parts) ==
    {SubSeq(v, b[1] + 1, b[2]) :
        b \in {b \in Bound(parts[1], 0) \X Bound(parts[2], Len(v)) : b[2] <= Len(v) /\ b[1] <= b[2]}}

RECURSIVE Replaced(_, _, _)
Replaced(v, old, new) ==
    IF old = << >> \/ Places(v, old) = {} THEN v
    ELSE LET i == Min(Places(v, old))
         IN  SubSeq(v, 1, i) \o new \o Replaced(SubSeq(v, i + Len(old) + 1, Len(v)), old, new)

\* the arguments of strip are not read
Trimmed(v, m) ==
    CASE m = "strip" -> {TrimStart(TrimEnd(v))}
      [] m = "lstrip" -> {TrimStart(v)}
      [] m = "rstrip" -> {TrimEnd(v)}
      [] m = "upper" -> {Upper(v)}
      [] m = "lower" -> {Lower(v)}

\* split leaves the text as it is
Rewritten(v, m, args) ==
    IF m = "split" THEN {v} ELSE IF Len(args) = 2 THEN {Replaced(v, args[1], args[2])} ELSE {}

Searched(v, m, args) ==
    LET at == Places(v, args[1])
    IN  CASE args = << >> -> {}
          [] m = "startswith" -> {Truth(0 \in at)}
          [] m = "endswith" -> {Truth(Len(v) - Len(args[1]) \in at)}
          [] m = "find" -> {Numeral(IF at = {} THEN -1 ELSE Min(at))}
          [] m = "rfind" -> {Numeral(IF at = {} THEN -1 ELSE Max(at))}

WithoutArguments == {"strip", "lstrip", "rstrip", "upper", "lower", "split"}
Method(v, m, args) ==
    CASE m \in WithoutArguments \ {"split"} -> Trimmed(v, m)
      [] m \in {"split", "replace"} -> Rewritten(v, m, args)
      [] m \in {"startswith", "endswith", "find", "rfind"} -> Searched(v, m, args)
      [] OTHER -> {}

\* whatever is neither an index nor a method call ends the chain, unread
RECURSIVE ApplyOperations(_, _)
ApplyOperations(v, s) ==
    IF Starts(s, "[") THEN
        UNION {LET inner == SubSeq(s, 2, close - 1)
               IN  UNION {ApplyOperations(w, After(s, close)) :
                             w \in IF Has(inner, ":")
                                   THEN Slice(v, CutAt(inner, {i \in DOMAIN inner : inner[i].t = ":"}))
                                   ELSE Index(v, inner)} :
                  close \in {Where(s, "]")} \ {0}}
    ELSE IF Starts(s, ".") THEN
        LET rest == After(s, 3)
            calls == IF Len(s) > 2 /\ s[3].t = "("
                     THEN {[args |-> Texts(ParseArgs(Before(rest, c))), rest |-> After(rest, c)] :
                              c \in MatchingParen(rest)}
                     ELSE IF Len(s) = 2 /\ s[2].t \in WithoutArguments
                     THEN {[args |-> << >>, rest |-> << >>]} ELSE {}
        IN  UNION {UNION {ApplyOperations(w, call.rest) : w \in Method(v, s[2].t, call.args)} : call \in calls}
    ELSE {v}

-----------------------------------------------------------------------------
(* Calls                                                                   *)
Lookup(vars, x) == IF x \in DOMAIN vars THEN {vars[x]} ELSE {}
WordsOf(vars, x) == {Range(Words(v)) : v \in Lookup(vars, x)}

Chain(v, inside) ==
    IF MatchingParen(inside) = {} THEN {v}
    ELSE UNION {ApplyOperations(v, After(inside, c)) : c \in MatchingParen(inside)}

GetVar(vars, s) ==
    LET after == AfterFirst(s, "d.getVar")
        inside == AfterFirst(after, "(")
    IN  IF ~Has(s, "d.getVar") \/ ~Has(after, "(") \/ ~Has(inside, "'") THEN {}
        ELSE UNION {Chain(v, inside) : v \in Lookup(vars, inside[Where(inside, "'")].v)}

\* the calls read the texts of their arguments
Chosen(found, args) == IF found THEN args[3] ELSE args[4]

ContainsWord(vars, a) ==
    IF Len(a) < 4 THEN {} ELSE {Chosen(a[2] \in W, a) : W \in WordsOf(vars, a[1])}

ContainsAny(vars, a) ==
    IF Len(a) < 4 THEN {} ELSE {Chosen(Range(Words(a[2])) \cap W # {}, a) : W \in WordsOf(vars, a[1])}

Filter(vars, a) ==
    IF Len(a) < 2 THEN {}
    ELSE {Joined(SelectSeq(Words(a[2]), LAMBDA w : w \in W)) : W \in WordsOf(vars, a[1])}

Conditional(vars, a) ==
    IF Len(a) < 4 THEN {} ELSE {Chosen(v = a[2], a) : v \in Lookup(vars, a[1])}

TrueWords == {<<"yes">>, <<"true">>, <<"1">>, <<"y">>, <<"t">>, <<"on">>, <<"enable">>, <<"enabled">>}

\* the argument names a variable or, where there is none of that name, is the value
ToBoolean(vars, a) ==
    IF a = << >> THEN {}
    ELSE {IF Lower(Default(Lookup(vars, a[1]), a[1])) \in TrueWords THEN <<"true">> ELSE <<"false">>}

Which(vars, a) ==
    LET Parts(path) == Range(IF ":" \in Range(path) THEN SplitAt(path, ":") ELSE Words(path))
    IN  IF Len(a) < 2 THEN {}
        ELSE {IF \E p \in Parts(path) : p = a[2] \/ IsSuffix(<<"/">> \o a[2], p) THEN a[2] ELSE << >> :
                 path \in Lookup(vars, a[1])}

Optional(a, k, default) == IF Len(a) >= k THEN a[k] ELSE default

AnyFeatures(vars, a) ==
    IF Len(a) < 2 THEN {}
    ELSE {IF Range(Words(a[2])) \cap W # {} THEN Optional(a, 3, <<"1">>) ELSE Optional(a, 4, << >>) :
             W \in WordsOf(vars, <<"DISTRO_FEATURES">>)}

AllFeatures(vars, a) ==
    IF Len(a) < 2 THEN {}
    ELSE {IF Range(Words(a[2])) \subseteq W THEN Optional(a, 3, <<"1">>) ELSE Optional(a, 4, << >>) :
             W \in WordsOf(vars, <<"DISTRO_FEATURES">>)}

\* in the order in which a text is searched for them
UtilCalls == <<"bb.utils.contains_any", "bb.utils.contains", "bb.utils.filter", "oe.utils.conditional",
               "bb.utils.to_boolean", "bb.utils.which", "oe.utils.any_distro_features",
               "oe.utils.all_distro_features">>

Call(vars, f, args) ==
    CASE f = "bb.utils.contains_any" -> ContainsAny(vars, args)
      [] f = "bb.utils.contains" -> ContainsWord(vars, args)
      [] f = "bb.utils.filter" -> Filter(vars, args)
      [] f = "oe.utils.conditional" -> Conditional(vars, args)
      [] f = "bb.utils.to_boolean" -> ToBoolean(vars, args)
      [] f = "bb.utils.which" -> Which(vars, args)
      [] f = "oe.utils.any_distro_features" -> AnyFeatures(vars, args)
      [] f = "oe.utils.all_distro_features" -> AllFeatures(vars, args)
UtilCall(vars, s, f) == UNION {Call(vars, f, Texts(args)) : args \in FunctionArgs(s, f)}

\* a quoted text, the value of a variable, or the text as it stands
ExtractLiteral(vars, s) ==
    IF Starts(s, "'") /\ s[Len(s)].t = "'"
    THEN {IF Len(s) = 1 THEN s[1].v
          ELSE s[1].v \o <<"'">> \o Spelled(SubSeq(s, 2, Len(s) - 1), FALSE) \o <<"'">> \o s[Len(s)].v}
    ELSE IF Has(s, "d.getVar") THEN GetVar(vars, s) ELSE {Spelled(s, FALSE)}

\* what is between the first opening and the last closing bracket
Bracketed(s) == SubSeq(s, Where(s, "[") + 1, LastWhere(s, "]") - 1)
ListLiteral(s) ==
    IF LastWhere(s, "]") <= Where(s, "[") THEN {} ELSE {Joined(Texts(ParseArgs(Bracketed(s))))}

\* component by component; what is missing or no number counts 0
Component(parts, k) == IF k > Len(parts) THEN 0 ELSE Default(ParseInt(parts[k]), 0)
Components(parts, n) == [k \in 1 .. n |-> Component(parts, k)]
Order(a, b) ==
    LET differ == {k \in DOMAIN a : a[k] # b[k]}
    IN  IF differ = {} THEN 0 ELSE IF a[Min(differ)] < b[Min(differ)] THEN -1 ELSE 1
CompareVersions(versions) ==
    LET n == Len(versions[1]) + Len(versions[2]) + 1
    IN  Order(Components(SplitAt(versions[1], "."), n), Components(SplitAt(versions[2], "."), n))

Vercmp(vars, s) ==
    {CompareVersions([k \in 1 .. 2 |-> Default(GetVar(vars, args[k]), ArgText(args[k]))]) :
        args \in {a \in FunctionArgs(s, "bb.utils.vercmp") : Len(a) >= 2}}

Length(vars, s) ==
    UNION {LET inner == Before(After(s, 2), c)
           IN  {IF Has(inner, "split") THEN Len(Words(v)) ELSE Len(v) :
                   v \in IF Has(inner, "d.getVar") THEN GetVar(vars, inner) ELSE ExtractLiteral(vars, inner)} :
              c \in MatchingParen(After(s, 2))}

-----------------------------------------------------------------------------
(* Expressions and conditions                                              *)
RECURSIVE Eval(_, _), Logical(_, _)

\* one Option after another: the pairs of their values
Pairs(options) == options[1] \X options[2]
Sides(s, i) == <<Before(s, i), After(s, i)>>

ParsedAll(texts) == UNION {ParseInt(v) : v \in texts}
Numeric(vars, s) ==
    IF Has(s, "bb.utils.vercmp") THEN Vercmp(vars, s)
    ELSE IF Starts(s, "len") THEN Length(vars, s)
    ELSE OrElse(IF Len(s) = 1 /\ s[1].t = "num" THEN ParseInt(s[1].v) ELSE ParsedAll(GetVar(vars, s)),
                IF Has(s, "find") \/ Has(s, "rfind") THEN ParsedAll(Eval(vars, s)) ELSE {})
NumericSides(vars, sides) == Pairs([k \in 1 .. 2 |-> Numeric(vars, sides[k])])
TextSides(vars, sides) == Pairs([k \in 1 .. 2 |-> ExtractLiteral(vars, sides[k])])

\* the order in which a text is searched for them
Comparisons == <<">=", "<=", ">", "<">>
Compares(op, m, n) ==
    CASE op = ">=" -> m >= n [] op = "<=" -> m <= n [] op = ">" -> m > n [] op = "<" -> m < n
Compare(vars, s, op) ==
    {Compares(op, n[1], n[2]) : n \in NumericSides(vars, Sides(s, OperatorAt(s, op)))}

\* as numbers if one side is one and both can be read as such, as texts otherwise
Equality(vars, sides) ==
    LET numeric == \/ \E k \in 1 .. 2 : Has(sides[k], "bb.utils.vercmp") \/ Starts(sides[k], "len")
                   \/ Len(sides[2]) = 1 /\ sides[2][1].t = "num"
    IN  OrElse(IF numeric THEN {n[1] = n[2] : n \in NumericSides(vars, sides)} ELSE {},
               {v[1] = v[2] : v \in TextSides(vars, sides)})

Membership(vars, s, i) ==
    LET container == After(s, i)
        texts == IF Starts(container, "[") /\ Has(container, "]") THEN ListLiteral(container)
                 ELSE GetVar(vars, container)
    IN  {(v[1] \in Range(Words(v[2]))) : v \in ExtractLiteral(vars, Before(s, i)) \X texts}

NotTrue == {<< >>, <<"0">>, <<"false">>, <<"False">>}

\* a variable, True or False, a call, or a method that returns one of them
Truthy(vars, s) ==
    LET texts == IF s \in {<<Tok(b[1])>> : b \in {Yes, No}} THEN {<<s[1].t>>}
                 ELSE IF s \in {<<Lit(b)>> : b \in {Yes, No}} THEN {s[1].v}
                 ELSE IF \E f \in Range(UtilCalls) : Has(s, f) THEN Eval(vars, s)
                 ELSE IF Has(s, "startswith") \/ Has(s, "endswith") THEN Eval(vars, s) \cap {Yes, No}
                 ELSE {}
    IN  {(v \notin NotTrue) : v \in OrElse(GetVar(vars, s), texts)}

SimpleCondition(vars, s) ==
    LET equals == SelectSeq(<<"==", "!=">>, LAMBDA op : Has(s, op))
        compared == SelectSeq(Comparisons, LAMBDA op : OperatorAt(s, op) # 0)
    IN  IF compared # << >> THEN Compare(vars, s, Head(compared))
        ELSE IF equals # << >>
        THEN {b = (Head(equals) = "==") : b \in Equality(vars, Sides(s, Where(s, Head(equals))))}
        ELSE IF OperatorAt(s, "in") # 0 THEN Membership(vars, s, OperatorAt(s, "in"))
        ELSE Truthy(vars, s)

(* Mutant: "and" taken before "or".                                        *)
AndFirst == <<"and", "or">>

(* The operators in the order in which they split an expression.           *)
SplitOrder == <<"or", "and">>

\* the right side is read only where the left one leaves the matter open
Split(vars, sides, op) ==
    UNION {IF b = (op = "or") THEN {b} ELSE Logical(vars, sides[2]) : b \in Logical(vars, sides[1])}

\* what is in parentheses stands for its value in what follows
Parenthesised(vars, s, c) ==
    UNION {IF c + 1 = Len(s) THEN {b} ELSE Logical(vars, Toks(Truth(b)) \o After(s, c + 1)) :
              b \in Logical(vars, SubSeq(s, 2, c))}

Logical(vars, s) ==
    LET close == IF Starts(s, "(") THEN MatchingParen(Tail(s)) ELSE {}
        ops == SelectSeq(SplitOrder, LAMBDA op : OperatorAt(s, op) # 0)
    IN  IF close # {} THEN UNION {Parenthesised(vars, s, c) : c \in close}
        ELSE IF ops # << >> THEN Split(vars, Sides(s, OperatorAt(s, Head(ops))), Head(ops))
        ELSE IF Starts(s, "not") THEN {~b : b \in Logical(vars, Tail(s))}
        ELSE SimpleCondition(vars, s)

Condition(vars, s) ==
    IF Starts(s, "not") \/ Starts(s, "(") \/ Has(s, "and") \/ Has(s, "or")
    THEN Logical(vars, s) ELSE SimpleCondition(vars, s)

\* from the first "if" to the last "else"
InlineConditional(vars, s) ==
    LET i == Where(s, "if")
        e == LastWhere(s, "else")
    IN  IF e <= i THEN {}
        ELSE UNION {ExtractLiteral(vars, IF b THEN Before(s, i) ELSE After(s, e)) :
                       b \in Condition(vars, SubSeq(s, i + 1, e - 1))}

\* out for name in source [if condition]
Clauses(content) ==
    LET rest == AfterFirst(content, "in")
    IN  [out |-> Before(content, Where(content, "for")),
         name |-> AfterFirst(content, "for")[1],
         source |-> IF Has(rest, "if") THEN Before(rest, Where(rest, "if")) ELSE rest,
         condition |-> IF Has(rest, "if") THEN AfterFirst(rest, "if") ELSE Toks(Yes)]

\* one item: left out if the condition or the output cannot be evaluated
Items(vars, c, w) ==
    LET bound == (c.name.v :> w) @@ vars
        With(t) == [k \in DOMAIN t |-> IF t[k] = c.name THEN Lit(w) ELSE t[k]]
    IN  IF TRUE \notin Condition(bound, With(c.condition)) THEN {}
        ELSE IF c.out = <<c.name>> THEN {w}
        ELSE OrElse(Eval(bound, With(c.out)),
                    IF c.name \in Range(c.out) THEN {} ELSE {Spelled(c.out, FALSE)})

Comprehension(vars, s) ==
    UNION {{Joined(FlattenSeq([k \in DOMAIN Words(v) |-> SetToSeq(Items(vars, c, Words(v)[k]))])) :
               v \in Eval(vars, c.source)} :
              c \in IF Where(Bracketed(s), "for") < Where(Bracketed(s), "in") THEN {Clauses(Bracketed(s))} ELSE {}}

Quoted(vars, s) ==
    IF ~Starts(s, "'") THEN {}
    ELSE IF Len(s) > 1 /\ s[2].t = "." THEN ApplyOperations(s[1].v, Tail(s)) ELSE {s[1].v}

\* what the text contains decides, in this order; the rest of it is not asked about
Eval(vars, s) ==
    LET calls == SelectSeq(UtilCalls, LAMBDA f : Has(s, f))
    IN  CASE Has(s, "if") /\ Has(s, "else") -> InlineConditional(vars, s)
          [] Starts(s, "[") /\ Has(s, "]") ->
                 OrElse(IF Has(s, "for") /\ Has(s, "in") THEN Comprehension(vars, s) ELSE {}, ListLiteral(s))
          [] calls # << >> -> UtilCall(vars, s, Head(calls))
          [] Has(s, "d.getVar") -> GetVar(vars, s)
          [] Has(s, ".") \/ \E k \in DOMAIN s : "." \in Range(s[k].v) -> Quoted(vars, s)
          [] OTHER -> {}
===============================================================================
