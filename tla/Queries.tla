------------------------------- MODULE Queries -------------------------------
(***************************************************************************)
(* The query language (query/): how a query is read (parser.rs, expr.rs)   *)
(* and how the two engines answer it, that of the recipe graph             *)
(* (recipe_query.rs) and that of the task graph (task_query.rs).  A query  *)
(* is a sequence of tokens; a name stands for a target pattern with one    *)
(* colon, "//..." for the pattern that all targets match.                  *)
(***************************************************************************)
EXTENDS Integers, SequencesExt, FiniteSetsExt

CONSTANTS
    Targets,        \* the recipes or tasks, and the patterns that match one
    Limits          \* the numbers that may stand for max_depth, by their text

VARIABLES
    engine,         \* "recipe" or "task"
    links,          \* what a target depends on, a Vec
    hashed,         \* the targets in the order of the HashMap
    query,          \* the tokens
    expr,           \* the QueryExpr that was parsed
    answered        \* the answer, or "no"

queryVars == <<engine, links, hashed, query, expr, answered>>

-----------------------------------------------------------------------------
(* Reading a query                                                         *)

Operators == <<"intersect", "union", "except">>     \* in the order parse tries them
Arity ==
    [f \in {"deps(", "rdeps(", "somepath(", "allpaths(", "kind(", "filter(", "attr(",
            "script(", "inputs(", "outputs(", "env(", "critical-path("} |->
        CASE f = "deps(" -> {1, 2}
          [] f \in {"rdeps(", "somepath(", "allpaths(", "kind(", "filter("} -> {2}
          [] f = "attr(" -> {3}
          [] OTHER -> {1}]
Opening == DOMAIN Arity \cup {"("}
Failed == <<"error">>
Names == Targets \cup {"//..."}

(* How many brackets are open in front of token i.                         *)
Depth(q, i) ==
    Cardinality({j \in 1 .. i - 1 : q[j] \in Opening}) - Cardinality({j \in 1 .. i - 1 : q[j] = ")"})

(* The first occurrence of the operator at the top level, with a blank on  *)
(* either side; 0 when there is none.                                      *)
FindOperator(q, op) ==
    LET at == {i \in 2 .. Len(q) - 1 : q[i] = op /\ Depth(q, i) = 0}
    IN IF at = {} THEN 0 ELSE Min(at)

(* The text between the brackets, split at the commas of the top level; a  *)
(* last argument without any text is dropped.                              *)
ExtractFunctionArgs(q) ==
    LET text == SubSeq(q, 2, Len(q) - 1)
        commas == {i \in 1 .. Len(text) : text[i] = "," /\ Depth(text, i) = 0}
        cuts == SetToSortSeq(commas \cup {0, Len(text) + 1}, LAMBDA i, j : i < j)
        args == [k \in 1 .. Len(cuts) - 1 |-> SubSeq(text, cuts[k] + 1, cuts[k + 1] - 1)]
    IN IF Last(args) = << >> THEN Front(args) ELSE args

(* TargetPattern::from_str counts colons.  Anything else than one name is  *)
(* some pattern of two or three parts that no target matches, or an error. *)
FromStr(q) ==
    LET colons == Cardinality({i \in DOMAIN q : q[i] \in Targets}) IN
    IF q \in {<<n>> : n \in Names} THEN <<"target", q[1]>>
    ELSE IF colons \in {1, 2} THEN <<"target", "unmatched">>
    ELSE Failed

RECURSIVE Parse(_)

ParseCall(q) ==
    LET args == ExtractFunctionArgs(q)
        isPattern(k) == \/ Head(q) \in {"kind(", "filter("} /\ k = 1
                        \/ Head(q) = "attr(" /\ k < 3
                        \/ Head(q) = "deps(" /\ k = 2
        read == [k \in DOMAIN args |-> IF isPattern(k) THEN args[k] ELSE Parse(args[k])]
    IN IF \/ Last(q) # ")"
          \/ Len(args) \notin Arity[Head(q)]
          \/ \E k \in DOMAIN args : ~isPattern(k) /\ read[k] = Failed
          \/ Head(q) = "deps(" /\ Len(args) = 2 /\ args[2] \notin {<<n>> : n \in DOMAIN Limits}
       THEN Failed
       ELSE <<"call", Head(q), read>>

Parse(q) ==
    LET splits == {k \in DOMAIN Operators : FindOperator(q, Operators[k]) # 0} IN
    IF splits # {}
    THEN LET op == Operators[Min(splits)]
             pos == FindOperator(q, op)
             left == Parse(SubSeq(q, 1, pos - 1))
             right == Parse(SubSeq(q, pos + 1, Len(q)))
         IN IF left = Failed \/ right = Failed THEN Failed ELSE <<"set", op, left, right>>
    ELSE IF q # << >> /\ Head(q) \in DOMAIN Arity THEN ParseCall(q)
    ELSE FromStr(q)

(* Display of a QueryExpr.                                                 *)
RECURSIVE Display(_)
Display(e) ==
    CASE e[1] = "target" -> <<e[2]>>
      [] e[1] = "set" -> Display(e[3]) \o <<e[2]>> \o Display(e[4])
      [] e[1] = "call" ->
             LET shown(k) == IF e[2] = "deps(" /\ k = 2 THEN e[3][k] ELSE Display(e[3][k])
             IN <<e[2]>> \o shown(1)
                \o (IF Len(e[3]) = 2 THEN <<",">> \o shown(2) ELSE << >>) \o <<")">>

-----------------------------------------------------------------------------
(* Answering                                                               *)

MatchPattern(name) == IF name = "//..." THEN Targets ELSE Targets \cap {name}

(* get_dependencies: the queue holds targets with their distance.          *)
RECURSIVE DependenciesLoop(_, _, _)
DependenciesLoop(queue, found, max) ==
    IF queue = << >> THEN found
    ELSE LET at == Head(queue)
             new == SelectSeq(links[at[1]], LAMBDA d : d \notin found)
         IN IF at[2] >= max THEN DependenciesLoop(Tail(queue), found, max)
            ELSE DependenciesLoop(Tail(queue) \o [k \in DOMAIN new |-> <<new[k], at[2] + 1>>],
                                  found \cup ToSet(new), max)

(* Mutant: the depth is compared one step late.                            *)
DependenciesTooFar(S, max) ==
    DependenciesLoop(SetToSeq(S \X {0}), S, max + 1)

GetDependencies(S, max) == DependenciesLoop(SetToSeq(S \X {0}), S, max)

(* Recipes: backwards from the targets, along the universe's dependencies. *)
RECURSIVE ReverseLoop(_, _, _)
ReverseLoop(universe, queue, found) ==
    IF queue = << >> THEN found
    ELSE LET new == {u \in universe : Head(queue) \in ToSet(links[u])} \ found
         IN ReverseLoop(universe, Tail(queue) \o SetToSeq(new), found \cup new)

(* Tasks: depends_on_any, forwards from every member of the universe.      *)
RECURSIVE DependsOnAny(_, _, _)
DependsOnAny(queue, seen, S) ==
    /\ queue # << >>
    /\ LET at == Head(queue) IN
       IF at \in seen THEN DependsOnAny(Tail(queue), seen, S)
       ELSE at \in S \/ DependsOnAny(Tail(queue) \o links[at], seen \cup {at}, S)

GetReverseDependencies(universe, S) ==
    IF engine = "recipe" THEN ReverseLoop(universe, SetToSeq(S), {})
    ELSE {u \in universe : DependsOnAny(<<u>>, {}, S)}

(* From the target found back to the start, which has no parent.           *)
RECURSIVE PathTo(_, _)
PathTo(at, parent) ==
    IF at \in DOMAIN parent THEN Append(PathTo(parent[at], parent), at) ELSE <<at>>

SetParent(parent, children, at) ==
    [c \in DOMAIN parent \cup children |-> IF c \in children THEN at ELSE parent[c]]

(* Recipes are marked when they enter the queue and keep their parent.     *)
RECURSIVE RecipePath(_, _, _, _)
RecipePath(queue, seen, parent, S) ==
    IF queue = << >> THEN << >>
    ELSE LET at == Head(queue)
             new == SelectSeq(links[at], LAMBDA d : d \notin seen)
         IN IF at \in S THEN PathTo(at, parent)
            ELSE RecipePath(Tail(queue) \o new, seen \cup ToSet(new),
                            SetParent(parent, ToSet(new), at), S)

(* Tasks are marked when they leave it; until then the last parent wins.   *)
RECURSIVE TaskPath(_, _, _, _)
TaskPath(queue, seen, parent, S) ==
    IF queue = << >> THEN << >>
    ELSE LET at == Head(queue)
             new == SelectSeq(links[at], LAMBDA d : d \notin seen \cup {at})
         IN IF at \in seen THEN TaskPath(Tail(queue), seen, parent, S)
            ELSE IF at \in S THEN PathTo(at, parent)
            ELSE TaskPath(Tail(queue) \o new, seen \cup {at},
                          SetParent(parent, ToSet(new), at), S)

PathFrom(s, S) ==
    IF engine = "recipe" THEN RecipePath(<<s>>, {s}, << >>, S) ELSE TaskPath(<<s>>, {}, << >>, S)

(* The first start that has a path.                                        *)
FindSomePath(from, to) ==
    LET starts == SelectSeq(hashed, LAMBDA s : s \in from /\ PathFrom(s, to) # << >>)
    IN IF starts = << >> THEN << >> ELSE PathFrom(starts[1], to)

(* find_all_paths_dfs: the nodes on a path to one of S, not through seen;  *)
(* a target ends the path.                                                 *)
RECURSIVE AllPathsDfs(_, _, _)
AllPathsDfs(at, S, seen) ==
    IF at \in S THEN {at}
    ELSE LET below == UNION {AllPathsDfs(d, S, seen \cup {at}) :
                                d \in ToSet(links[at]) \ (seen \cup {at})}
         IN IF below = {} THEN {} ELSE below \cup {at}

FindAllPaths(from, to) == UNION {AllPathsDfs(s, to, {}) : s \in from}

TaskOnly == {"script(", "inputs(", "outputs(", "env(", "critical-path("}

(* What execute_expr cannot answer.                                        *)
RECURSIVE Unsupported(_)
Unsupported(e) ==
    CASE e[1] = "target" -> FALSE
      [] e[1] = "set" -> Unsupported(e[3]) \/ Unsupported(e[4])
      [] e[1] = "call" ->
             \/ engine = "recipe" /\ e[2] \in TaskOnly
             \/ engine = "task" /\ e[2] = "allpaths("
             \/ \E k \in DOMAIN e[3] : (e[2] = "deps(" => k = 1) /\ Unsupported(e[3][k])

(* execute_expr; the filters by kind, label and attribute are left out.    *)
(* execute sorts the answer by name, so that a path is returned as a set.  *)
RECURSIVE ExecuteExpr(_)
ExecuteExpr(e) ==
    CASE e[1] = "target" -> MatchPattern(e[2])
      [] e[1] = "set" ->
             LET A == ExecuteExpr(e[3]) B == ExecuteExpr(e[4]) IN
             (CASE e[2] = "intersect" -> A \cap B
                [] e[2] = "union" -> A \cup B
                [] e[2] = "except" -> A \ B)
      [] e[1] = "call" ->
             LET A == ExecuteExpr(e[3][1]) B == ExecuteExpr(e[3][2]) IN
             CASE e[2] = "deps(" ->
                      GetDependencies(A, IF Len(e[3]) = 1 THEN Cardinality(Targets)
                                         ELSE Limits[e[3][2][1]])
               [] e[2] = "rdeps(" -> GetReverseDependencies(A, B)
               [] e[2] = "somepath(" -> ToSet(FindSomePath(A, B))
               [] e[2] = "allpaths(" -> FindAllPaths(A, B)
               [] e[2] \in TaskOnly -> A

-----------------------------------------------------------------------------
AskQuery(g, graph, order, q) ==
    /\ engine = g
    /\ links = graph
    /\ hashed = order
    /\ query = q
    /\ expr = Failed
    /\ answered = {"no"}

ParseQuery ==
    /\ expr = Failed
    /\ Parse(query) # Failed
    /\ expr' = Parse(query)
    /\ UNCHANGED <<engine, links, hashed, query, answered>>

ExecuteQuery ==
    /\ expr # Failed
    /\ answered = {"no"}
    /\ ~Unsupported(expr)
    /\ answered' = ExecuteExpr(expr)
    /\ UNCHANGED <<engine, links, hashed, query, expr>>

QueryStep == ParseQuery \/ ExecuteQuery

-----------------------------------------------------------------------------
(* The targets within n dependencies of S.                                 *)
Within(S, n) ==
    LET reached[k \in Nat] ==
            IF k = 0 THEN S
            ELSE reached[k - 1] \cup UNION {ToSet(links[r]) : r \in reached[k - 1]}
    IN reached[n]
Everything(S) == Within(S, Cardinality(Targets))
Far == Cardinality(Targets)

(* The distance from s to the nearest member of S.                         *)
Distance(s, S) == Min({n \in 0 .. Far : Within({s}, n) \cap S # {}})

(* P is the set of nodes of a path from s to a member of S.                *)
IsPath(P, s, S) ==
    \E p \in SetToSeqs(P) : /\ p[1] = s
                            /\ Last(p) \in S
                            /\ \A i \in 1 .. Len(p) - 1 : p[i + 1] \in ToSet(links[p[i]])

(* What a call on targets A and B has to answer.                           *)
Expected(f, n, A, B, answer) ==
    CASE f = "deps(" -> answer = Within(A, n)
      [] f = "rdeps(" ->
             IF engine = "task" THEN answer = {u \in A : Everything({u}) \cap B # {}}
             ELSE A = Targets =>
                      answer = {u \in A : Everything(ToSet(links[u])) \cap B # {}}
      [] f = "somepath(" ->
             IF Everything(A) \cap B = {} THEN answer = {}
             ELSE \E s \in A : /\ IsPath(answer, s, B)
                               /\ engine = "recipe" => Cardinality(answer) = Distance(s, B) + 1
      [] f = "allpaths(" ->
             answer = UNION {P \in SUBSET Targets :
                                 Cardinality(P \cap B) = 1 /\ \E s \in A : IsPath(P, s, B)}
      [] OTHER -> answer = A

(* Both engines answer what the operator means: deps is what lies within   *)
(* the depth, whatever was met first; rdeps is its converse (a recipe is   *)
(* not its own dependent unless it is on a cycle, a task is); somepath     *)
(* is a path, the shortest one for recipes; allpaths is every node on a    *)
(* path that ends at the first target it meets.                            *)
AnswersExact ==
    answered # {"no"} /\ expr[1] = "call" =>
        LET args == expr[3]
            n == IF Len(args) = 2 /\ expr[2] = "deps(" THEN Limits[args[2][1]] ELSE Far
            A == ExecuteExpr(args[1])
            B == IF Len(args) = 2 /\ expr[2] # "deps(" THEN ExecuteExpr(args[2]) ELSE {}
        IN Expected(expr[2], n, A, B, answered)

(* No set operation stands to the left of one that binds as tightly or     *)
(* more, or to the right of one that binds more tightly.                   *)
RECURSIVE WellNested(_)
Tightness(e) == IF e[1] = "set" THEN SelectInSeq(Operators, LAMBDA op : op = e[2]) ELSE 4
WellNested(e) ==
    CASE e[1] = "target" -> TRUE
      [] e[1] = "set" -> /\ Tightness(e[3]) > Tightness(e)
                         /\ Tightness(e[4]) >= Tightness(e)
                         /\ WellNested(e[3]) /\ WellNested(e[4])
      [] e[1] = "call" -> \A k \in DOMAIN e[3] : (e[2] = "deps(" => k = 1) => WellNested(e[3][k])

(* A query without bare brackets, which the language does not have, is     *)
(* well nested when read and reads the same when it is displayed; so set   *)
(* operations group to the right and intersect binds loosest.              *)
ReadsAsDisplayed ==
    expr # Failed /\ "(" \notin ToSet(query) =>
        WellNested(expr) /\ Parse(Display(expr)) = expr

(* Both engines read an expression as it is displayed and answer it.       *)
QueriesSound == AnswersExact /\ ReadsAsDisplayed
==============================================================================
