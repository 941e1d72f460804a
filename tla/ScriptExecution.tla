-------------------------- MODULE ScriptExecution --------------------------
(***************************************************************************)
(* Scripts that are executed without a shell: the analysis of              *)
(* script_analyzer.rs, the execution of direct_executor.rs, and the choice *)
(* of the mode in TaskExecutor::execute_task (executor.rs).  The script is *)
(* executed line by line, and beside it by bash as the reference.          *)
(*                                                                         *)
(* A line is a command with its words; a word is a variable, or "" for the *)
(* working directory, and a name in the directory that it stands for.      *)
(* Files have a content and no directory but the named ones holds any.     *)
(***************************************************************************)
EXTENDS Naturals, SequencesExt

CONSTANTS
    Lines,          \* that a script is made of
    MaxLines,       \* of a script
    FileNames           \* of files

(* A line has words of a variable, or none, and a name; a command that     *)
(* acts on paths has one at least; what is exported is a directory.        *)
Commands == {"touch", "mkdir", "bbdirs", "echo_to", "cp", "cp_r", "mv", "rm", "rm_r", "rm_f",
             "rm_rf", "ln_s", "ln_sf", "chmod", "echo", "note", "export", "pipe", "other"}
Exportable == {"V", "D"}
LineTyped(l) ==
    /\ l.cmd \in Commands
    /\ l.words \in Seq(({""} \cup Exportable) \X FileNames)
    /\ l.words # << >> \/ l.cmd \in {"echo", "note", "export", "pipe", "other"}
    /\ l.cmd = "export" => l.variable \in Exportable /\ l.value \in {"work", "outputs", "image", "a", "b"}

ASSUME LinesTyped == \A l \in Lines : LineTyped(l)
ASSUME MaxLinesNat == MaxLines \in Nat

VARIABLES
    script,
    given,          \* spec.env without the paths
    mode,           \* spec.execution_mode
    position,       \* of the line that is executed
    direct,         \* the files, as execute_direct leaves them
    shell,          \* the files, as bash leaves them
    deviated,       \* history: a line is known to differ
    answer          \* of the executor: "none", "ok", "failed", "complex", ...

scriptVars == <<script, given, mode, position, direct, shell, deviated, answer>>

-----------------------------------------------------------------------------
(* Directories: the working directory, D as executor.rs sets it, the       *)
(* default of the analyzer for it, two values of a variable, the literal   *)
(* name of a variable without a value, and wherever words run together     *)
(* point to.                                                               *)
Dirs == {"work", "outputs", "image", "a", "b", "V", "joined"}
FilePaths == Dirs \X FileNames

Is(s, p, kinds) == s.kind[p] \in kinds

(* The path behind symbolic links.                                         *)
Follow(s, p) == IF Is(s, p, {"link"}) THEN s.to[p] ELSE p
Real(s, p) == Follow(s, Follow(s, Follow(s, p)))
Exists(s, p) == Is(s, Real(s, p), {"file", "dir"})
IsDir(s, p) == Is(s, Real(s, p), {"dir"})
Dangling(s, p) == ~Is(s, p, {"absent"}) /\ ~Exists(s, p)

Fail(s) == [s EXCEPT !.ok = FALSE]
Put(s, p, kind, content) == [s EXCEPT !.kind[p] = kind, !.content[p] = content]
Delete(s, p) == Put(s, p, "absent", "none")

(* create_dir_all of the parent, and writing to a file by its name.        *)
WithParent(s, p) == [s EXCEPT !.dirs = @ \cup {p[1]}]
WriteTo(s, p, content) ==
    LET q == Real(s, p) IN
    IF q[1] \in s.dirs /\ Is(s, q, {"absent", "file"}) THEN Put(s, q, "file", content) ELSE Fail(s)

-----------------------------------------------------------------------------
(* contains_complexity and the lines that parse_simple_action has no       *)
(* pattern for; echo before a redirect is echo, whatever follows.          *)
Unreadable(l) ==
    \/ l.cmd \in {"pipe", "other"}
    \/ l.cmd \in {"cp", "cp_r", "mv", "ln_s", "ln_sf"} /\ Len(l.words) # 2
    \/ l.cmd = "chmod" /\ Len(l.words) # 1

(* Mutant: a variable is left for the execution to expand.                 *)
ExpandLater(word, env) == <<IF word[1] = "" THEN "work" ELSE word[1], word[2]>>

(* expand_variables with what the script has exported so far; the rest is  *)
(* left as it is, but D gets its default.                                  *)
ExpandVariables(word, env) ==
    <<IF word[1] = "" THEN "work"
      ELSE IF word[1] \in DOMAIN env THEN env[word[1]]
      ELSE IF word[1] = "D" THEN "image"
      ELSE word[1], word[2]>>

(* A command of one path takes all its words for one.                      *)
PathOf(words, env) ==
    IF Len(words) = 1 THEN ExpandVariables(words[1], env) ELSE <<"joined", words[1][2]>>

(* parse_touch, parse_mkdir, parse_bbdirs, parse_cp, ...                   *)
ParseTouch(l, env) == [op |-> "Touch", path |-> PathOf(l.words, env)]
ParseMkdir(l, env) == [op |-> "MakeDir", path |-> PathOf(l.words, env)]
ParseChmod(l, env) == [op |-> "Chmod", path |-> PathOf(l.words, env)]
ParseRm(l, env) ==
    [op |-> "Remove", path |-> PathOf(l.words, env), recursive |-> l.cmd \in {"rm_r", "rm_rf"},
     force |-> l.cmd \in {"rm_f", "rm_rf"}]
FromTo(op, l, env) ==
    [op |-> op, src |-> ExpandVariables(l.words[1], env), path |-> ExpandVariables(l.words[2], env)]
ParseMv(l, env) == FromTo("Move", l, env)
ParseLn(l, env) == FromTo("Symlink", l, env)
ParseCp(l, env) ==
    [op |-> "Copy", src |-> ExpandVariables(l.words[1], env), path |-> ExpandVariables(l.words[2], env),
     recursive |-> l.cmd = "cp_r"]

(* parse_simple_action: the action of a line.                              *)
ActionOf(l, env) ==
    CASE l.cmd = "export"                          -> [op |-> "SetEnv"]
      [] l.cmd \in {"echo", "echo_to", "note"}     -> [op |-> "Log"]
      [] l.cmd = "touch"                           -> ParseTouch(l, env)
      [] l.cmd \in {"mkdir", "bbdirs"}             -> ParseMkdir(l, env)
      [] l.cmd \in {"cp", "cp_r"}                  -> ParseCp(l, env)
      [] l.cmd = "mv"                              -> ParseMv(l, env)
      [] l.cmd \in {"rm", "rm_r", "rm_f", "rm_rf"} -> ParseRm(l, env)
      [] l.cmd \in {"ln_s", "ln_sf"}               -> ParseLn(l, env)
      [] l.cmd = "chmod"                           -> ParseChmod(l, env)

(* The variables of both environments, the first one's values going first. *)
Over(env, other) ==
    [v \in DOMAIN env \cup DOMAIN other |-> IF v \in DOMAIN env THEN env[v] ELSE other[v]]

(* parse_export.                                                           *)
Exported(l, env) ==
    IF l.cmd = "export" THEN Over([v \in {l.variable} |-> l.value], env) ELSE env

(* analyze_script: the actions and the exported variables.                 *)
AnalyzeScript(lines) ==
    IF \E i \in DOMAIN lines : Unreadable(lines[i])
    THEN [is_simple |-> FALSE, actions |-> << >>, env_vars |-> << >>]
    ELSE FoldLeft(LAMBDA r, l : [r EXCEPT !.actions = Append(@, ActionOf(l, r.env_vars)),
                                          !.env_vars = Exported(l, @)],
                  [is_simple |-> TRUE, actions |-> << >>, env_vars |-> << >>], lines)

(* determine_execution_mode.                                               *)
DetermineExecutionMode(lines) ==
    IF AnalyzeScript(lines).is_simple THEN "DirectRust" ELSE "Shell"

-----------------------------------------------------------------------------
(* The environment of an execution: D is set by the executor; what the     *)
(* script exports gives way to it.                                         *)
Environment == Over([v \in {"D"} |-> "outputs"], given)
FullEnv == Over(Environment, AnalyzeScript(script).env_vars)

(* resolve_path: what the analysis has left is expanded now.               *)
ResolvePath(p) == IF p[1] \in DOMAIN FullEnv THEN <<FullEnv[p[1]], p[2]>> ELSE p

TouchPath(p, s) ==
    LET t == WithParent(s, p) IN IF Exists(t, p) THEN t ELSE WriteTo(t, p, "empty")

MakeDirAll(p, s) ==
    LET t == WithParent(s, p) IN
    CASE IsDir(t, p)          -> t
      [] Is(t, p, {"absent"}) -> Put(t, p, "dir", "none")
      [] OTHER                -> Fail(t)

(* fs::copy opens the source and then truncates the destination.           *)
CopyPath(src, p, recursive, s) ==
    LET t == WithParent(s, p) IN
    IF recursive /\ IsDir(t, src) THEN MakeDirAll(p, t)
    ELSE IF ~Exists(t, src) \/ IsDir(t, src) THEN Fail(t)
    ELSE WriteTo(t, p, IF Real(t, src) = Real(t, p) THEN "empty" ELSE t.content[Real(t, src)])

(* fs::rename does not follow links.                                       *)
MovePath(src, p, s) ==
    LET t == WithParent(s, p) IN
    IF \/ Is(t, src, {"absent"})
       \/ Is(t, p, {"dir"}) /\ ~Is(t, src, {"dir"})
       \/ Is(t, src, {"dir"}) /\ ~Is(t, p, {"dir", "absent"})
    THEN Fail(t)
    ELSE IF src = p THEN t
    ELSE Delete([Put(t, p, t.kind[src], t.content[src]) EXCEPT !.to[p] = t.to[src]], src)

RemovePath(p, recursive, force, s) ==
    CASE ~Exists(s, p)              -> IF force THEN s ELSE Fail(s)
      [] IsDir(s, p) /\ ~recursive  -> Fail(s)
      [] OTHER                      -> Delete(s, p)

SymlinkPath(target, p, s) ==
    LET t == WithParent(s, p) IN
    IF Is(t, p, {"absent"}) THEN [Put(t, p, "link", "none") EXCEPT !.to[p] = target] ELSE Fail(t)

ChmodPath(p, s) == IF Exists(s, p) THEN s ELSE Fail(s)

(* execute_action.                                                         *)
ExecuteAction(a, s) ==
    LET path == ResolvePath(a.path) IN
    CASE a.op = "Touch"   -> TouchPath(path, s)
      [] a.op = "MakeDir" -> MakeDirAll(path, s)
      [] a.op = "Copy"    -> CopyPath(ResolvePath(a.src), path, a.recursive, s)
      [] a.op = "Move"    -> MovePath(ResolvePath(a.src), path, s)
      [] a.op = "Remove"  -> RemovePath(path, a.recursive, a.force, s)
      [] a.op = "Symlink" -> SymlinkPath(ResolvePath(a.src), path, s)
      [] a.op = "Chmod"   -> ChmodPath(path, s)
      [] a.op \in {"Log", "SetEnv"} -> s

-----------------------------------------------------------------------------
(* The same commands in bash, with the options of the prelude.             *)
ShellEnv(n) == FoldLeft(LAMBDA env, l : Exported(l, env), Environment, SubSeq(script, 1, n - 1))
Word(w, n) == <<IF w[1] = "" THEN "work" ELSE ShellEnv(n)[w[1]], w[2]>>
Unset(l, n) == \E i \in DOMAIN l.words : l.words[i][1] \notin {""} \cup DOMAIN ShellEnv(n)

ShellOn(cmd, p, q, s) ==        \* of one word, or of two
    CASE cmd = "touch"   -> IF Exists(s, p) THEN s ELSE WriteTo(s, p, "empty")
      [] cmd \in {"mkdir", "bbdirs"} -> MakeDirAll(p, s)
      [] cmd = "echo_to" -> WriteTo(s, p, "text")
      [] cmd \in {"cp", "cp_r"} ->
             IF cmd = "cp_r" /\ IsDir(s, p) THEN IF q[1] \in s.dirs THEN MakeDirAll(q, s) ELSE Fail(s)
             ELSE IF ~Exists(s, p) \/ IsDir(s, p) THEN Fail(s)
             ELSE WriteTo(s, q, s.content[Real(s, p)])
      [] cmd = "mv"      -> IF q[1] \in s.dirs THEN MovePath(p, q, s) ELSE Fail(s)
      [] cmd \in {"rm", "rm_r", "rm_f", "rm_rf"} ->
             CASE Is(s, p, {"absent"}) -> IF cmd \in {"rm_f", "rm_rf"} THEN s ELSE Fail(s)
               [] Is(s, p, {"dir"}) /\ cmd \in {"rm", "rm_f"} -> Fail(s)
               [] OTHER -> Delete(s, p)
      [] cmd \in {"ln_s", "ln_sf"} ->
             IF q[1] \in s.dirs /\ (cmd = "ln_sf" \/ Is(s, q, {"absent"}))
             THEN [Put(s, q, "link", "none") EXCEPT !.to[q] = p]
             ELSE Fail(s)
      [] cmd = "chmod"   -> ChmodPath(p, s)
      [] OTHER           -> s

ShellLine(l, n, s) ==
    CASE l.cmd \in {"echo", "note", "export"} -> s
      [] l.cmd \in {"cp", "cp_r", "mv", "ln_s", "ln_sf"} ->
             ShellOn(l.cmd, Word(l.words[1], n), Word(l.words[2], n), s)
      [] OTHER -> FoldLeft(LAMBDA t, w : IF t.ok THEN ShellOn(l.cmd, Word(w, n), Word(w, n), t) ELSE t,
                           s, l.words)

(* The lines that are known to do something else.                          *)
Differs(l, n, s) ==
    \/ l.cmd = "echo_to"                                     \* a redirect is not seen
    \/ Len(l.words) > 1 /\ l.cmd \notin {"cp", "cp_r", "mv", "ln_s", "ln_sf"}
    \/ Unset(l, n)                                           \* set -u
    \/ \E i \in DOMAIN l.words :                             \* the default of D
           l.words[i][1] = "D" /\ \A j \in 1 .. n - 1 : script[j].cmd = "export" => script[j].variable # "D"
    \/ /\ l.cmd \in {"touch", "cp", "cp_r", "mv", "ln_s", "ln_sf"}
       /\ LET q == Word(l.words[Len(l.words)], n)
              p == Word(l.words[1], n)
          IN \/ q[1] \notin s.dirs                           \* parents are created
             \/ l.cmd # "touch" /\ IsDir(s, q)               \* into a directory
             \/ l.cmd \in {"cp", "cp_r"} /\ (Dangling(s, q) \/ Real(s, p) = Real(s, q))
             \/ l.cmd = "mv" /\ Real(s, p) = Real(s, q)
             \/ l.cmd = "ln_sf" /\ ~Is(s, q, {"absent"})     \* -f is dropped
    \/ /\ l.cmd \in {"rm", "rm_r", "rm_f", "rm_rf"}
       /\ LET p == Word(l.words[1], n) IN
          Dangling(s, p) \/ (Is(s, p, {"link"}) /\ IsDir(s, p))

-----------------------------------------------------------------------------
(* A working directory with a file in every combination of two names, and  *)
(* one of the directories that V may stand for.                            *)
Files(x, y) ==
    [ok |-> TRUE, dirs |-> {"work", "outputs", "a"},
     kind |-> [p \in FilePaths |-> CASE p[1] = "a" /\ p[2] = "x" -> x
                                 [] p[1] = "a" /\ p[2] = "y" -> y
                                 [] OTHER -> "absent"],
     content |-> [p \in FilePaths |-> IF p[1] = "a" THEN p[2] ELSE "none"],
     to |-> [p \in FilePaths |-> p]]

(* The mode is the one that fits the script, or the task asks for it.      *)
ScriptInit ==
    /\ script \in UNION {[1 .. n -> Lines] : n \in 1 .. MaxLines}
    /\ given \in {<< >>, [v \in {"V"} |-> "a"]}
    /\ mode \in {DetermineExecutionMode(script), "DirectRust", "RustShell"}
    /\ position = 1
    /\ \E x \in {"absent", "file"}, y \in {"absent", "dir"} : direct = Files(x, y)
    /\ shell = direct
    /\ deviated = FALSE
    /\ answer = "none"

(* Execution stops at the first action that fails, in both.                *)
ExecuteLine ==
    /\ answer = "none"
    /\ mode # "RustShell"
    /\ AnalyzeScript(script).is_simple
    /\ position <= Len(script)
    /\ direct.ok \/ shell.ok
    /\ LET l == script[position] IN
       /\ direct' = IF direct.ok
                    THEN ExecuteAction(AnalyzeScript(script).actions[position], direct)
                    ELSE direct
       /\ shell' = IF shell.ok /\ ~Unset(l, position) THEN ShellLine(l, position, shell)
                                                      ELSE Fail(shell)
       /\ deviated' = (deviated \/ (shell.ok /\ Differs(l, position, shell)))
    /\ position' = position + 1
    /\ UNCHANGED <<script, given, mode, answer>>

(* The files under D are the outputs, the older ones included.             *)
DirectOutputs == {p \in FilePaths : p[1] = "outputs" /\ Is(direct, p, {"file"})}

ExecutionEnds ==
    /\ answer = "none"
    /\ mode # "RustShell"
    /\ AnalyzeScript(script).is_simple
    /\ position > Len(script) \/ ~(direct.ok \/ shell.ok)
    /\ answer' = IF direct.ok THEN "ok" ELSE "failed"
    /\ UNCHANGED <<script, given, mode, position, direct, shell, deviated>>

(* A complex script is refused in the direct mode,                         *)
RefuseComplex ==
    /\ answer = "none"
    /\ mode = "DirectRust"
    /\ ~AnalyzeScript(script).is_simple
    /\ answer' = "complex"
    /\ UNCHANGED <<script, given, mode, position, direct, shell, deviated>>

(* given to bash in a sandbox in the mode Shell,                           *)
ExecuteWithBash ==
    /\ answer = "none"
    /\ mode = "Shell"
    /\ answer' = "bash"
    /\ UNCHANGED <<script, given, mode, position, direct, shell, deviated>>

(* and any script is an error of RustShell, which is not implemented.      *)
ExecuteRustShell ==
    /\ answer = "none"
    /\ mode = "RustShell"
    /\ answer' = "not_implemented"
    /\ UNCHANGED <<script, given, mode, position, direct, shell, deviated>>

ScriptStep == ExecuteLine \/ ExecutionEnds \/ RefuseComplex \/ ExecuteWithBash \/ ExecuteRustShell

-----------------------------------------------------------------------------
(* As long as no line is of a kind that is known to differ, a script that  *)
(* is executed directly goes as far as bash would take it and leaves the   *)
(* same files: whatever it exports in between, and whatever an action      *)
(* finds in its place.                                                     *)
DirectIsShell == ~deviated => direct.ok = shell.ok /\ (direct.ok => direct = shell)
=============================================================================
