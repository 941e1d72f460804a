------------------------------ MODULE MCMetadata ------------------------------
(***************************************************************************)
(* How recipes are read and asked about, each part on its own: the query   *)
(* engines, the values of variables, the extraction of the graph, inline   *)
(* Python expressions, anonymous Python functions, and the configuration   *)
(* of a build.                                                             *)
(***************************************************************************)
EXTENDS Queries, Extraction, PythonExpressions, PythonBlocks, Configuration

VARIABLE part       \* the one at work

UpTo(n, S) == UNION {[1 .. k -> S] : k \in 0 .. n}

-----------------------------------------------------------------------------
(* Queries: links sorted by name, two from each target and four in all.    *)
Rank(t) == SelectInSeq(<<"w", "x", "y", "z">>, LAMBDA u : u = t)
LinkLists(t) == {l \in UpTo(2, Targets \ {t}) :
                    \A i, j \in DOMAIN l : i < j => Rank(l[i]) < Rank(l[j])}
MCGraphs ==
    {("w" :> g[1]) @@ ("x" :> g[2]) @@ ("y" :> g[3]) @@ ("z" :> g[4]) :
        g \in {g \in LinkLists("w") \X LinkLists("x") \X LinkLists("y") \X LinkLists("z") :
                  Len(g[1]) + Len(g[2]) + Len(g[3]) + Len(g[4]) <= 4}}
NoLinks == [t \in Targets |-> << >>]
ByName == <<"w", "x", "y", "z">>

GraphQueries ==
    {<<f, x, ",", "z", ")">> : f \in {"rdeps(", "somepath(", "allpaths("}, x \in {"x", "//..."}}
    \cup {<<"deps(", "x", ",", n, ")">> : n \in DOMAIN Limits}
    \cup {<<"deps(", "x", ")">>,
          <<"rdeps(", "//...", ",", "x", "union", "z", ")">>,
          <<"somepath(", "x", "union", "y", ",", "z", ")">>,
          <<"allpaths(", "x", ",", "y", "union", "z", ")">>,
          <<"script(", "deps(", "x", ")", ")">>}
SetQueries ==
    {<<"x", o, "y", p, "z", q, "w">> : o, p, q \in ToSet(Operators)}
    \cup {<<"(", "x", "union", "y", ")">>, <<"x", "y", "z">>, <<"union">>, <<"deps(", "x">>,
          <<"deps(", ")">>, <<"x", "union", "rdeps(", "y", "except", "z", ",", "w", ")">>}

QueryInit ==
    IF part = "query"
    THEN \/ \E g \in {"recipe", "task"}, graph \in MCGraphs, q \in GraphQueries :
                \E order \in IF q[1] = "somepath(" THEN {ByName, Reverse(ByName)} ELSE {ByName} :
                    AskQuery(g, graph, order, q)
         \/ \E g \in {"recipe", "task"}, q \in SetQueries : AskQuery(g, NoLinks, ByName, q)
    ELSE AskQuery("recipe", NoLinks, ByName, <<"union">>)

-----------------------------------------------------------------------------
(* Variables: two assignments to one, or three of which the first sets it  *)
(* or appends to it; or two words in each of three.                        *)
Assignments ==
    [op : {"=", ":append", ":prepend", ":remove", "?="}, override : Overrides \cup {Plain},
     words : {<<"u">>, <<"u", "v">>}]
Values == UpTo(2, VarNames \cup {"u"})

VariableInit ==
    /\ read = << >> /\ extracted = Unset /\ resolved = Unset /\ unexpanded = VarNames
    /\ \/ /\ part = "variables"
          /\ lines \in UpTo(2, Assignments) \cup {l \in [1 .. 3 -> Assignments] : l[1].op \in {"=", ":append"}}
          /\ context \in SUBSET Overrides
          /\ written = [x \in VarNames |-> << >>]
       \/ /\ part = "references"
          /\ lines = << >> /\ context = {}
          /\ written \in [VarNames -> Values]
       \/ /\ part \notin {"variables", "references"}
          /\ lines = << >> /\ context = {}
          /\ written = [x \in VarNames |-> << >>]
    /\ expanded = written

-----------------------------------------------------------------------------
(* Extraction: recipes p in two versions and q, two included files and two *)
(* classes beside base.                                                    *)
MCRecipeFiles == <<"p1", "p2", "q">>
MCBaseTasks == <<"compile", "populate_sysroot">>
MCRecipeOf == [f \in {"p1", "p2", "q"} |-> IF f = "q" THEN "q" ELSE "p"]
MCLimits == [n \in {"0", "1", "2"} |-> CASE n = "0" -> 0 [] n = "1" -> 1 [] n = "2" -> 2]
MCClassDefaults == [c \in {"c"} |-> {"v"}]

Include(f) == <<"include", f>>
Inherit(c) == <<"inherit", c>>
Add(t, after, before) == <<"addtask", t, after, before>>
Depends(op, w) == <<"DEPENDS", [op |-> op, override |-> Plain, words |-> <<w>>]>>

OrderingTexts ==
    {("p1" :> p) @@ ("i" :> i) @@ ("j" :> j) @@ ("c" :> c) @@ ("base" :> <<Add("b", {"compile"}, {"a"})>>) :
        p \in UpTo(2, {Include("i"), Inherit("c"), Add("a", {"b"}, {"x"}), <<"deltask", "b">>}),
        i \in UpTo(2, {Include("j"), Inherit("c"), Add("x", {"a"}, {})}),
        j \in UpTo(1, {Include("i"), Include("j"), Include("k"), Add("a", {"x"}, {"compile"})}),
        c \in UpTo(2, {Inherit("c"), Inherit("base"), Add("x", {"b"}, {"a"})})}

DependencyLines ==
    {Depends("=", "q"), Depends("+=", "v"), <<"PROVIDES", "v">>, Inherit("c"), <<"flag", "compile", "v">>,
     <<"option", "o", "q">>, <<"PACKAGECONFIG", [op |-> "=", override |-> Plain, words |-> <<"o">>]>>}
DependencyTexts ==
    {("p1" :> p) @@ ("p2" :> s) @@ ("q" :> q) @@ ("i" :> i) @@ more :
        p \in UpTo(2, DependencyLines \cup {Include("i")}),
        s \in UpTo(1, {<<"PROVIDES", "v">>, <<"PROVIDES", "q">>}),
        q \in UpTo(1, {<<"PROVIDES", "v">>, Depends("=", "p")}),
        i \in {<< >>, <<Depends("=", "p")>>},
        more \in {"c" :> <<Depends(":remove", "q")>>, "c" :> << >>}}
    \cup {"p1" :> <<Depends("=", "q")>>}

Functions3(code) == {<<"function", "a", s, code>> : s \in {"", ":append", ":prepend", ":arm"}}
FunctionTexts ==
    {("p1" :> (p \o inc)) @@ ("p2" :> s) @@ ("i" :> i) @@ ("j" :> j) :
        p \in UpTo(2, Functions3("1") \cup Functions3("2")),
        inc \in {<< >>, <<Include("i")>>, <<Include("i"), Inherit("j")>>},
        s \in UpTo(1, {<<"function", "a", "", "p2">>}),
        i \in UpTo(1, Functions3("i")),
        j \in UpTo(1, Functions3("j"))}

ExtractInit ==
    IF part = "extraction"
    THEN \E t \in OrderingTexts \cup DependencyTexts \cup FunctionTexts : ExtractionInit(t)
    ELSE ExtractionInit("p1" :> << >>)

-----------------------------------------------------------------------------
(* Expressions: every string method on a variable and on a literal, chains *)
(* of two, every call, and every kind of condition, three of them joined   *)
(* by each combination of operators.  A slice is taken of variables only:  *)
(* that of a literal is dropped by the evaluator.                          *)
MCUpperCase == ("a" :> "A") @@ ("b" :> "B")
MCDigits == [d \in {"0", "1", "2", "3", "4"} |-> SelectInSeq(<<"0", "1", "2", "3", "4">>, LAMBDA e : e = d) - 1]
X == <<"X">>
Y == <<"Y">>
V == <<"V">>        \* always the same version
A == <<"a">>
B == <<"b">>
AB == <<"a", " ", "b">>
Y1 == <<"y">>
Environments ==
    {[x \in S |-> CASE x = X -> v [] x = V -> <<"1", ".", "2">> [] OTHER -> AB] :
        S \in {{V}, {V, X}, {V, X, Y, <<"DISTRO_FEATURES">>}},
        v \in {<< >>, A, <<"0">>, <<"A", "b">>, AB, <<" ", "a", "a", " ">>}}

Lit1(t) == <<"lit", t>>
Var1(x) == <<"var", x>>
Meth(e, m) == <<"method", e, m[1], m[2]>>
Count(n) == <<"num", n>>
Cmp(op, e, f) == <<"cmp", op, e, f>>
Words1(x) == Meth(Var1(x), <<"split", << >>>>)

TextMethods == {<<m, << >>>> : m \in {"strip", "lstrip", "rstrip", "upper", "lower"}}
               \cup {<<"replace", <<A, <<"b", "a">>>>>>, <<"replace", <<A, << >>>>>>}
AnyMethods == TextMethods \cup {<<"split", << >>>>}
              \cup {<<m, <<t>>>> : m \in {"startswith", "endswith", "find", "rfind"}, t \in {A, B, << >>}}
Subjects == {Var1(X), Lit1(<<"a", "b", "a">>)}
Chains ==
    {Meth(e, m) : e \in Subjects, m \in AnyMethods}
    \cup {Meth(Meth(e, m), n) : e \in Subjects, m \in TextMethods, n \in AnyMethods}
    \cup {<<"part", Meth(e, m), i, j>> : e \in Subjects, m \in TextMethods, i \in {<<"0">>, <<"1">>},
                                        j \in {<< >>, <<"1">>, <<"2">>}}
    \cup {Meth(<<"part", Var1(X), <<"0">>, <<"2">>>>, m) : m \in AnyMethods}
Asked == {A, AB, <<"b", " ", "c">>}
Calls ==
    {<<"call", f, <<x, t, Y1, << >>>>>> : f \in {"bb.utils.contains", "oe.utils.conditional"}, x \in {X, Y}, t \in {A, <<"c">>}}
    \cup {<<"call", "bb.utils.contains_any", <<x, t, Y1, << >>>>>> : x \in {X, Y}, t \in Asked}
    \cup {<<"call", "bb.utils.filter", <<x, t>>>> : x \in {X, Y}, t \in Asked}
    \cup {<<"call", "bb.utils.which", <<x, t>>>> : x \in {X, Y}, t \in {B, <<"c">>}}
    \cup {<<"call", f, <<t, Y1, << >>>>>> : t \in Asked,
              f \in {"oe.utils.any_distro_features", "oe.utils.all_distro_features"}}
Lists == {<<"list", <<A>>>>, <<"list", <<A, B>>>>}

HasA == <<"call", "bb.utils.contains", <<Y, A, Y1, << >>>>>>
Simple ==
    {Var1(X), Meth(Var1(X), <<"startswith", <<A>>>>), Meth(Meth(Var1(X), <<"strip", << >>>>), <<"endswith", <<A>>>>),
     HasA, <<"call", "bb.utils.to_boolean", <<<<"yes">>>>>>, <<"call", "bb.utils.to_boolean", <<A>>>>,
     <<"in", Var1(X), <<"list", <<A, B>>>>>>}
    \cup {Cmp(op, Meth(Var1(X), <<"strip", << >>>>), Lit1(t)) : op \in {"==", "!="}, t \in {<< >>, <<"a", "a">>}}
    \cup {Cmp(op, Var1(X), Lit1(A)) : op \in {"==", "!="}}
    \cup {<<"in", Lit1(A), l>> : l \in Lists \cup {Words1(X)}}
    \cup {Cmp(op, n, Count(c)) : op \in {">=", "<=", ">", "<", "==", "!="}, c \in {<<"0">>, <<"1">>, <<"-", "1">>},
              n \in {<<"len", Var1(X)>>, <<"len", Words1(X)>>, Meth(Var1(X), <<"find", <<A>>>>),
                     <<"vercmp", Var1(V), Lit1(<<"1", ".", "2">>)>>, <<"vercmp", Lit1(<<"1">>), Lit1(<<"1", ".", "0">>)>>,
                     <<"vercmp", Lit1(<<"1">>), Var1(V)>>}}
Few == {Var1(X), Cmp("==", Var1(X), Lit1(A)), <<"in", Lit1(B), Words1(X)>>, HasA,
        Cmp(">", <<"len", Var1(X)>>, Count(<<"1">>))}
Joint == {"and", "or"}
Compound ==
    {<<"not", c>> : c \in Simple} \cup {<<op, c, d>> : op \in Joint, c, d \in Few}
    \cup {<<o, <<p, c, d>>, e>> : o, p \in Joint, c, d, e \in Few}
    \cup {<<o, c, <<p, d, e>>>> : o, p \in Joint, c, d, e \in Few}
    \cup {<<"not", <<o, c, <<"not", d>>>>>> : o \in Joint, c, d \in Few}
Inlines ==
    {<<"ite", Lit1(Y1), c, Var1(X)>> : c \in Simple \cup Compound}
    \cup {<<"ite", Var1(Y), c, Count(<<"1">>)>> : c \in Simple}
Item == <<"item">>
Comprehensions ==
    {<<"comp", o, s, c>> :
        o \in {Item, Meth(Item, <<"upper", << >>>>), Meth(Meth(Item, <<"replace", <<A, B>>>>), <<"lower", << >>>>)},
        s \in {Words1(X), Words1(Y), <<"list", <<A, B>>>>},
        c \in {AnyTree, Meth(Item, <<"startswith", <<A>>>>), Cmp("!=", Item, Lit1(A)), <<"in", Item, Words1(X)>>,
               <<"not", Meth(Item, <<"endswith", <<B>>>>)>>, Cmp(">", <<"len", Item>>, Count(<<"1">>))}}

ExpressionInit ==
    IF part = "expressions"
    THEN \E e \in Subjects \cup Chains \cup Calls \cup Lists \cup Inlines \cup Comprehensions, v \in Environments :
            PythonInit(e, v)
    ELSE PythonInit(Lit1(A), << >>)

-----------------------------------------------------------------------------
(* Functions: one of three lines, one with an if, with or without an else, *)
(* indented as a whole or not, and two in a row.                           *)
MCRefOf == ("$A" :> <<"A">>) @@ ("$B" :> <<"B">>)
MCDefaults == <<"B">> :> <<"b">>
Line(k, n, v, d) == [kind |-> k, name |-> n, value |-> v, item |-> A, depth |-> d]
Check(k) == Line(k, <<"A">>, << >>, 0)
MCExpressions == {[kind |-> "literal", value |-> <<"e">>], [kind |-> "read", name |-> <<"A">>], Check("check")}

Changes(d) == {Line(k, <<"A">>, A, d) : k \in {"set", "append", "prepend"}}
              \cup {Line("set", <<"$A">>, <<"$B">>, d), Line("append", <<"x", "$B">>, <<"c">>, d)}
PlainLines == Changes(0) \cup {Line("set", <<"B">>, A, 0)} \cup {Check(k) : k \in {"read", "check", "comment", "loop", "other"}}
IfLines ==
    {p \o <<Check("if"), b>> \o q :
        p \in UpTo(1, Changes(0)),
        b \in Changes(1) \cup {Line("comment", <<"A">>, << >>, 1), Line("if", <<"B">>, << >>, 1)},
        q \in {<< >>} \cup {<<x>> : x \in Changes(0) \cup Changes(1)}
             \cup {<<Check("else"), x>> \o y : x \in Changes(1), y \in {<< >>, <<Line("append", <<"A">>, <<"c">>, 0)>>}}}
Function(ls, base) == [kind |-> "python", name |-> "__anonymous", base |-> base, lines |-> ls]
Recipes1 ==
    {<<Function(ls, base)>> : ls \in IfLines, base \in {0, 1}}
    \cup {<<Function(ls, 0)>> : ls \in UpTo(3, PlainLines)}
    \cup {<<Function(k, 0), Function(ls, 1)>> : k, ls \in UpTo(1, PlainLines)}
    \cup {<<o, Function(ls, 1)>> : ls \in UpTo(1, PlainLines),
              o \in {[kind |-> "python", name |-> "do_x", base |-> 0, lines |-> << >>], [kind |-> "shell"], [kind |-> "mention"]}}
    \cup {<<[kind |-> "mention"]>>}

FunctionInit ==
    IF part = "functions"
    THEN \E r \in Recipes1, v \in {<< >>, <<"A">> :> <<"a", "$B">>, (<<"A">> :> <<"c">>) @@ (<<"B">> :> << >>)} : BlockInit(r, v)
    ELSE BlockInit(<< >>, IF part = "inline" THEN <<"A">> :> <<"$B">> ELSE << >>)

-----------------------------------------------------------------------------
(* Configuration: kas files that include one another, with every order of  *)
(* includes; or one file, with repositories of up to four layers and with  *)
(* sections for local.conf.                                                *)
MCDirs == <<"bare", "contrib", "meta", "meta-oe", "other">>
Conf(c, p, ds) == [state |-> "readable", collection |-> c, priority |-> p, depends |-> ds]
MCLayerConf ==
    ("contrib" :> Conf("contrib", {7}, {})) @@ ("meta" :> Conf("core", {5}, {}))
    @@ ("bare" :> [state |-> "missing"]) @@ ("meta-oe" :> Conf("oe", {}, {"core"}))
    @@ ("other" :> [state |-> "unreadable"])
MCBeginning == {<<d, d>> : d \in Range(MCDirs)} \cup {<<"meta", "meta-oe">>}
MCInside == {<<d, d>> : d \in Range(MCDirs)} \cup {<<"meta", "contrib">>}
MCLayerAppends == [d \in Range(MCDirs) |-> {d} \ {"bare", "other"}]
MCReferenceOf == [t \in {"$TOPDIR", "$TMPDIR", "$DL_DIR"} |->
                     CASE t = "$TOPDIR" -> "TOPDIR" [] t = "$TMPDIR" -> "TMPDIR" [] OTHER -> "DL_DIR"]

KasFile(includes, machine, repos, sections) ==
    [includes |-> includes, machine |-> machine, distro |-> {<<"d">>}, repos |-> repos,
     local_conf_header |-> sections]
Repo(source, layers) == [source |-> source, layers |-> layers]
Including ==
    {[f \in {"root", "a", "b"} |-> KasFile(includes[f], machines[f], f :> Repo("path", {"meta"}), << >>)] :
        includes \in {[root |-> r, a |-> i, b |-> j] : r \in UpTo(2, {"a", "b"}), i \in UpTo(1, {"root", "b", "gone"}),
                                                     j \in UpTo(1, {"a", "b"})},
        machines \in [{"root", "a", "b"} -> {{}, {<<"m">>}, {<<"n">>}}]}
SectionLines ==
    {Assign("MACHINE", "=", <<"n">>), Assign("PACKAGE_CLASSES", "?=", <<"deb">>), Assign("DL_DIR", "=", <<"$TMPDIR">>),
     Assign("TMPDIR", "=", <<"$DL_DIR", "x">>), Assign("TMPDIR", "?=", <<"$NONE", "$TOPDIR">>)}
RepoSets ==
    {("r" :> Repo(s, l)) @@ ("q" :> Repo(t, k)) :
        s, t \in {"path", "url", "none"}, l \in SUBSET {"meta", "contrib"}, k \in {{"gone"}, {"meta-oe"}, {"meta-oe", "other"}, {"bare", "other"}}}
Alone ==
    {"root" :> KasFile(<< >>, {<<"m">>}, repos, << >>) : repos \in RepoSets}
    \cup {"root" :> KasFile(<< >>, {<<"m">>}, "r" :> Repo("path", {"meta", "contrib"}), ("s" :> s) @@ ("t" :> t)) :
            s \in UpTo(2, SectionLines), t \in UpTo(1, SectionLines)}

KasInit ==
    IF part = "configuration"
    THEN \E files \in Including \cup Alone : ConfigurationInit(files)
    ELSE ConfigurationInit("root" :> KasFile(<< >>, {}, << >>, << >>))

-----------------------------------------------------------------------------
MCInit ==
    /\ part \in {"query", "variables", "references", "extraction", "expressions", "functions", "inline",
                "configuration"}
    /\ QueryInit
    /\ VariableInit
    /\ ExtractInit
    /\ ExpressionInit
    /\ FunctionInit
    /\ KasInit

Step ==
    \/ /\ part = "configuration" /\ ConfigurationStep
       /\ UNCHANGED <<queryVars, variableVars, extractionVars, pythonVars, blockVars>>
    \/ /\ UNCHANGED <<pythonVars, blockVars, configurationVars>>
       /\ \/ part = "query" /\ QueryStep /\ UNCHANGED <<variableVars, extractionVars>>
          \/ part \in {"variables", "references"} /\ VariableStep /\ UNCHANGED <<queryVars, extractionVars>>
          \/ part = "extraction" /\ ExtractionStep /\ UNCHANGED <<queryVars, variableVars>>
    \/ /\ UNCHANGED <<queryVars, variableVars, extractionVars, configurationVars>>
       /\ \/ part = "expressions" /\ Evaluate /\ UNCHANGED blockVars
          \/ part = "functions" /\ ProcessBlocks /\ UNCHANGED pythonVars
          \/ part = "inline" /\ EvaluateInline /\ UNCHANGED pythonVars

MCNext == Step /\ UNCHANGED part

mcVars == <<queryVars, variableVars, extractionVars, pythonVars, blockVars, configurationVars, part>>
MCSpec == MCInit /\ [][MCNext]_mcVars
===============================================================================
