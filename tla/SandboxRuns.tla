---------------------------- MODULE SandboxRuns ----------------------------
(***************************************************************************)
(* Sandboxed executions of tasks: TaskExecutor::execute_sandboxed          *)
(* (executor.rs) in a sandbox of sandbox.rs, through a backend of          *)
(* sandbox_backend.rs, on Linux the one of native_sandbox.rs.  The         *)
(* executions are those of one process: several TaskExecutors, as each     *)
(* LocalExecutor has one, execute on several threads.  They share the      *)
(* directory of sandboxes, the file /hitzeleiter/prelude.sh, and, because  *)
(* its name is made of the process id, one cgroup.                         *)
(***************************************************************************)
EXTENDS Naturals, FiniteSets

CONSTANT Runs       \* the executions

VARIABLES
    backend,        \* SandboxBackend::detect
    cgroups,        \* of the machine: "none", "partial" (no limits), "full"
    roots,          \* the executions whose sandbox directory exists
    group,          \* whether the directory of the cgroup exists
    members,        \* the children in the cgroup
    prelude,        \* /hitzeleiter/prelude.sh: "absent", "empty", "whole"
    at,             \* where an execution is
    path,           \* those that have a cgroup_path
    child,          \* their processes: "none", "alive", "killed" or an exit
    sourced,        \* what a script has read of the prelude
    written,        \* the executions whose outputs stand in their sandbox
    outcome,        \* what execute_sandboxed returned
    alone,          \* history: no other execution overlapped with it
    swept           \* history: cleanup_sandboxes was called

sandboxVars == <<backend, cgroups, roots, group, members, prelude, at, path, child,
                 sourced, written, outcome, alone, swept>>
machine == <<backend, cgroups>>
own == <<path, child, sourced, written, outcome>>   \* of an execution

SandboxesInit ==
    /\ backend \in {"native", "bubblewrap", "sandbox_exec", "basic"}
    /\ cgroups \in {"none", "partial", "full"}
    /\ backend # "native" => cgroups = "none"
    /\ roots = {} /\ members = {}
    /\ group \in IF cgroups = "full" THEN BOOLEAN ELSE {FALSE}   \* or left behind
    /\ prelude \in IF backend = "native" THEN {"absent", "whole"} ELSE {"absent"}
    /\ at = [r \in Runs |-> "idle"]
    /\ path = {}
    /\ child = [r \in Runs |-> "none"]
    /\ sourced = [r \in Runs |-> "none"]
    /\ written = {}
    /\ outcome = [r \in Runs |-> "none"]
    /\ alone = Runs
    /\ swept = FALSE

Underway == {r \in Runs : at[r] \notin {"idle", "done"}}
Go(r, where) == at' = [at EXCEPT ![r] = where]

(* execute_sandboxed returns; its sandbox is left to cleanup_sandboxes     *)
(* unless it has removed it itself.                                        *)
Answer(r, what) == Go(r, "done") /\ outcome' = [outcome EXCEPT ![r] = what]

(* prepare_sandbox and Sandbox::create, in a directory named by a UUID.    *)
CreateSandbox(r) ==
    /\ at[r] = "idle"
    /\ roots' = roots \cup {r}
    /\ Go(r, IF backend = "native" THEN "setup" ELSE "command")
    /\ alone' = IF Underway = {} THEN alone ELSE alone \ (Underway \cup {r})
    /\ UNCHANGED <<machine, group, members, prelude, own, swept>>

(* A script that succeeds has written its declared outputs or has not, and *)
(* cannot once its sandbox has been removed.                               *)
Wrote(r) == written' \in {written} \cup {written \cup {w} : w \in {r} \cap roots}

-----------------------------------------------------------------------------
(* The other backends run the command and wait for it: Err if it cannot be *)
(* started, else its exit code, -1 after a signal.                         *)
Command(r, name) ==
    /\ at[r] = "command"
    /\ backend = name
    /\ \/ Answer(r, "error") /\ UNCHANGED <<child, written>>
       \/ \E code \in {"exit_0", "exit_1"} :
             /\ child' = [child EXCEPT ![r] = code]
             /\ IF code = "exit_0" THEN Wrote(r) ELSE UNCHANGED written
             /\ Go(r, "result")
             /\ UNCHANGED outcome
    /\ UNCHANGED <<machine, roots, group, members, prelude, path, sourced, alone, swept>>

Bubblewrap(r) == Command(r, "bubblewrap")
SandboxExec(r) == Command(r, "sandbox_exec")
Basic(r) == Command(r, "basic")

-----------------------------------------------------------------------------
(* Mutant: a group that exists is not removed.                             *)
KeepOldGroup(r) ==
    /\ at[r] = "setup"
    /\ Go(r, IF cgroups = "none" THEN "fork" ELSE "mkdir")
    /\ roots' = roots \cup {r}
    /\ UNCHANGED <<machine, group, members, prelude, own, alone, swept>>

(* execute_in_namespace creates the work directory, should it be gone, and *)
(* calls setup_cgroup: without cgroup v2 it goes on without limits.  A     *)
(* group that exists is removed first, if nobody is in it.                 *)
RemoveOldGroup(r) ==
    /\ at[r] = "setup"
    /\ Go(r, IF cgroups = "none" THEN "fork" ELSE "mkdir")
    /\ group' = (group /\ (cgroups = "none" \/ members # {}))
    /\ roots' = roots \cup {r}
    /\ UNCHANGED <<machine, members, prelude, own, alone, swept>>

(* create_dir fails on a directory that exists: no limits then.            *)
CreateGroup(r) ==
    /\ at[r] = "mkdir"
    /\ Go(r, IF group THEN "fork" ELSE "limits")
    /\ group' = TRUE
    /\ UNCHANGED <<machine, roots, members, prelude, own, alone, swept>>

(* The limits are written, if the group is still there and has the         *)
(* controllers.  An Err leaves it behind.                                  *)
ApplyLimits(r) ==
    /\ at[r] = "limits"
    /\ Go(r, "fork")
    /\ path' = IF group /\ cgroups = "full" THEN path \cup {r} ELSE path
    /\ UNCHANGED <<machine, roots, group, members, prelude, child, sourced, written,
                   outcome, alone, swept>>

(* fork, whose failure returns past the cleanup of the cgroup.             *)
Fork(r) ==
    /\ at[r] = "fork"
    /\ \/ /\ child' = [child EXCEPT ![r] = "alive"]
          /\ Go(r, "move")
          /\ UNCHANGED outcome
       \/ Answer(r, "error") /\ UNCHANGED child
    /\ UNCHANGED <<machine, roots, group, members, prelude, path, sourced, written, alone, swept>>

-----------------------------------------------------------------------------
(* The child.  A step of its own is taken unless it was killed; it leaves  *)
(* the cgroup when it exits.                                               *)
Lives(r, where) == at[r] = where /\ child[r] = "alive"
Exit(r, code) ==
    /\ child' = [child EXCEPT ![r] = code]
    /\ members' = members \ {r}
    /\ Go(r, "wait")

(* move_to_cgroup, an error of which ends the child.                       *)
MoveToGroup(r) ==
    /\ Lives(r, "move")
    /\ IF r \in path /\ ~group
       THEN Exit(r, "exit_1")
       ELSE /\ members' = IF r \in path THEN members \cup {r} ELSE members
            /\ Go(r, "unshare")
            /\ UNCHANGED child
    /\ UNCHANGED <<machine, roots, group, prelude, path, sourced, written, outcome, alone, swept>>

(* The network namespace; it, or the loopback interface, may fail, and the *)
(* policy Controlled always does.                                          *)
Unshare(r) ==
    /\ Lives(r, "unshare")
    /\ \/ Go(r, "install") /\ UNCHANGED <<child, members>>
       \/ Exit(r, "exit_1")
    /\ UNCHANGED <<machine, roots, group, prelude, path, sourced, written, outcome, alone, swept>>

(* install_prelude_script: fs::write truncates the file,                   *)
TruncatePrelude(r) ==
    /\ Lives(r, "install")
    /\ prelude' = "empty"
    /\ Go(r, "write")
    /\ UNCHANGED <<machine, roots, group, members, own, alone, swept>>

(* and writes it.  Then the logs are created beside the work directory,    *)
(* which has to be there.                                                  *)
WritePrelude(r) ==
    /\ Lives(r, "write")
    /\ prelude' = "whole"
    /\ IF r \in roots
       THEN Go(r, "script") /\ UNCHANGED <<child, members>>
       ELSE Exit(r, "exit_1")
    /\ UNCHANGED <<machine, roots, group, path, sourced, written, outcome, alone, swept>>

(* A simple script is executed directly, in a work directory that is made  *)
(* again if it is gone; a complex one by bash, which reads the prelude.    *)
RunDirect(r) ==
    /\ Lives(r, "script")
    /\ \/ Exit(r, "exit_1") /\ UNCHANGED written
       \/ Exit(r, "exit_0") /\ Wrote(r)
    /\ roots' = roots \cup {r}
    /\ UNCHANGED <<machine, group, prelude, path, sourced, outcome, alone, swept>>

RunBash(r) ==
    /\ Lives(r, "script")
    /\ sourced' = [sourced EXCEPT ![r] = prelude]
    /\ Go(r, "bash")
    /\ UNCHANGED <<machine, roots, group, members, prelude, path, child, written, outcome,
                   alone, swept>>

BashEnds(r) ==
    /\ Lives(r, "bash")
    /\ \/ Exit(r, "exit_1") /\ UNCHANGED written
       \/ Exit(r, "exit_0") /\ Wrote(r)
    /\ UNCHANGED <<machine, roots, group, prelude, path, sourced, outcome, alone, swept>>

-----------------------------------------------------------------------------
(* wait_for_child, in the parent.                                          *)
WaitForChild(r) ==
    /\ backend = "native"
    /\ child[r] \notin {"none", "alive"}
    /\ at[r] \notin {"cleanup", "result", "collect", "remove", "done"}
    /\ Go(r, IF r \in path THEN "cleanup" ELSE "result")
    /\ UNCHANGED <<machine, roots, group, members, prelude, own, alone, swept>>

(* cleanup_cgroup kills whoever is in the group and removes it, which may  *)
(* fail while the killed ones still end.                                   *)
CleanupGroup(r) ==
    /\ at[r] = "cleanup"
    /\ child' = [c \in Runs |-> IF c \in members THEN "killed" ELSE child[c]]
    /\ members' = {}
    /\ group' \in IF members = {} THEN {FALSE} ELSE {FALSE, group}
    /\ Go(r, "result")
    /\ UNCHANGED <<machine, roots, prelude, path, sourced, written, outcome, alone, swept>>

(* sandbox.execute()? and the exit code.                                   *)
Result(r) ==
    /\ at[r] = "result"
    /\ CASE child[r] = "killed" -> Answer(r, "killed")
         [] child[r] = "exit_1" -> Answer(r, "failed")
         [] child[r] = "exit_0" -> Go(r, "collect") /\ UNCHANGED outcome
    /\ UNCHANGED <<machine, roots, group, members, prelude, path, child, sourced, written,
                   alone, swept>>

(* collect_outputs: every declared output is there or it is an error.      *)
CollectOutputs(r) ==
    /\ at[r] = "collect"
    /\ IF r \in written THEN Go(r, "remove") /\ UNCHANGED outcome
                        ELSE Answer(r, "missing")
    /\ UNCHANGED <<machine, roots, group, members, prelude, path, child, sourced, written,
                   alone, swept>>

(* The outputs are put, Sandbox::cleanup, and Ok is returned.              *)
RemoveSandbox(r) ==
    /\ at[r] = "remove"
    /\ roots' = roots \ {r}
    /\ written' = written \ {r}
    /\ Answer(r, "ok")
    /\ UNCHANGED <<machine, group, members, prelude, path, child, sourced, alone, swept>>

(* SandboxManager::cleanup "Clean up old sandboxes": it removes them all.  *)
Sweep ==
    /\ roots # {}
    /\ ~swept
    /\ swept' = TRUE
    /\ roots' = {}
    /\ written' = {}
    /\ UNCHANGED <<machine, group, members, prelude, at, path, child, sourced, outcome, alone>>

-----------------------------------------------------------------------------
NamespaceStep(r) ==
    \/ RemoveOldGroup(r) \/ CreateGroup(r) \/ ApplyLimits(r) \/ Fork(r)
    \/ MoveToGroup(r) \/ Unshare(r) \/ TruncatePrelude(r) \/ WritePrelude(r)
    \/ RunDirect(r) \/ RunBash(r) \/ BashEnds(r)
    \/ WaitForChild(r) \/ CleanupGroup(r)

RunStep(r) ==
    \/ CreateSandbox(r)
    \/ Bubblewrap(r) \/ SandboxExec(r) \/ Basic(r)
    \/ NamespaceStep(r)
    \/ Result(r) \/ CollectOutputs(r) \/ RemoveSandbox(r)

SandboxStep == (\E r \in Runs : RunStep(r)) \/ Sweep

SandboxesDone == \A r \in Runs : at[r] = "done"

-----------------------------------------------------------------------------
(* An execution that no other overlaps with is not killed, runs under its  *)
(* limits wherever the machine has them and with the whole prelude, and no *)
(* child of an earlier one is still in its cgroup.                         *)
AloneUndisturbed ==
    \A r \in Runs :
        r \in alone =>
            /\ child[r] # "killed"
            /\ sourced[r] # "empty"
            /\ at[r] \notin {"idle", "setup", "mkdir", "limits"} /\ cgroups = "full" => r \in path
            /\ r \in Underway => members \subseteq {r}

(* Ok means the outputs of this very execution, whoever else cleans up; a  *)
(* sandbox that is left belongs to one that did not return Ok.             *)
OkMeansOutputs ==
    \A r \in Runs :
        /\ at[r] = "remove" => r \in written \/ swept
        /\ outcome[r] = "ok" => child[r] = "exit_0" /\ r \notin roots
        /\ r \in written => child[r] = "exit_0"

(* Nothing is left of the cgroup after executions one after the other,     *)
(* unless a fork or a write of the limits has failed.                      *)
GroupRemoved ==
    alone = Runs /\ SandboxesDone /\ cgroups # "partial" /\ group
        => \E r \in path : child[r] = "none"

SandboxesSound == AloneUndisturbed /\ OkMeansOutputs /\ GroupRemoved
=============================================================================
