------------------------ MODULE InteractiveExecutor ------------------------
(***************************************************************************)
(* InteractiveExecutor::execute_graph (interactive.rs) on one thread, and  *)
(* the ExecutionControlHandles that other threads hold: they share the     *)
(* control command, behind a mutex, and the atomic flag `paused`.  A wave  *)
(* runs its tasks one after another; the person at the terminal is asked   *)
(* before a wave, in the debugger and after a failure.                     *)
(***************************************************************************)
EXTENDS Monitor

CONSTANTS
    Handles,        \* the ExecutionControlHandles, each on its own thread
    MaxCommands     \* bound: commands given through them

ASSUME MaxCommandsNat == MaxCommands \in Nat

VARIABLES
    deps,           \* the depends_on of every task
    specs,          \* the tasks that have an entry in task_specs
    options,        \* break_on_failure and interactive_mode
    control,        \* the ExecutionControl
    paused,         \* the flag
    resuming,       \* the handles between the two stores of resume()
    commands,       \* how many commands were given
    completed,      \* the completed set
    todo,           \* the tasks of the wave still to come
    executing,      \* the task in execute_task, if any
    hits,           \* whether stats().cache_hits > 0
    fromCache,      \* history: the completed tasks that were cache hits
    late,           \* history: waves begun since the control was Continue
    pc

input == <<deps, specs, options>>
shared == <<control, paused, resuming, commands>>
progress == <<completed, todo, executing, hits, fromCache>>
vars == <<input, shared, progress, late, monitorVars, pc>>

Controls == {"continue", "pause", "stop", "debug"}
Returned == pc \in {"ok", "stopped", "deadlock", "failed"}

(* Commands may have been given before the call; and the caches and their  *)
(* statistics are older than it.                                           *)
Init ==
    /\ deps \in AcyclicDependencies(Tasks)
    /\ specs \in SUBSET Tasks
    /\ options \in [break_on_failure : BOOLEAN, interactive_mode : BOOLEAN]
    /\ control \in Controls
    /\ paused = FALSE
    /\ resuming = {}
    /\ commands = 0
    /\ completed = {}
    /\ todo = {}
    /\ executing = {}
    /\ hits \in BOOLEAN
    /\ fromCache = {}
    /\ late = 0
    /\ RegisterAll
    /\ pc = "check"

-----------------------------------------------------------------------------
(* The handles.                                                            *)

SetControl(c) ==
    /\ control' = c
    /\ late' = IF c = "continue" THEN 0 ELSE late

(* pause(), stop() and debug() store the command.                          *)
Command(h, c) ==
    /\ h \notin resuming
    /\ commands < MaxCommands
    /\ commands' = commands + 1
    /\ SetControl(c)
    /\ UNCHANGED <<input, paused, resuming, progress, monitorVars, pc>>

(* resume() lowers the flag first ...                                      *)
LowerFlag(h) ==
    /\ h \notin resuming
    /\ commands < MaxCommands
    /\ commands' = commands + 1
    /\ paused' = FALSE
    /\ resuming' = resuming \cup {h}
    /\ UNCHANGED <<input, control, progress, late, monitorVars, pc>>

(* ... and then stores Continue.                                           *)
RestoreControl(h) ==
    /\ h \in resuming
    /\ resuming' = resuming \ {h}
    /\ SetControl("continue")
    /\ UNCHANGED <<input, paused, commands, progress, monitorVars, pc>>

-----------------------------------------------------------------------------
(* The executor between two waves.                                         *)

Incomplete == Cardinality(completed) < Cardinality(Tasks)

Goto(c) ==
    CASE c = "stop"  -> "stopped"
      [] c = "pause" -> "pausing"
      [] c = "debug" -> "debugging"
      [] OTHER       -> "wave"

(* Mutant: the control is only looked at before the first wave.            *)
CheckControlOnce ==
    /\ pc = "check"
    /\ Incomplete
    /\ pc' = IF completed = {} THEN Goto(control) ELSE "wave"
    /\ UNCHANGED <<input, shared, progress, late, monitorVars>>

(* The command is copied and the mutex released before it is acted upon.   *)
CheckControl ==
    /\ pc = "check"
    /\ Incomplete
    /\ pc' = Goto(control)
    /\ UNCHANGED <<input, shared, progress, late, monitorVars>>

(* handle_pause: the flag is raised, and then read until it is lowered.    *)
RaiseFlag ==
    /\ pc = "pausing"
    /\ paused' = TRUE
    /\ pc' = "paused"
    /\ UNCHANGED <<input, control, resuming, commands, progress, late, monitorVars>>

SeeResume ==
    /\ pc = "paused"
    /\ ~paused
    /\ pc' = "check"
    /\ UNCHANGED <<input, shared, progress, late, monitorVars>>

(* [q]uit and [c]ontinue end enter_debugger, which leaves to execute_graph *)
(* to store Continue.                                                      *)
LeaveDebugger ==
    /\ pc = "debugging"
    /\ \/ UNCHANGED <<control, late>>
       \/ SetControl("stop")
    /\ pc' = "leaving"
    /\ UNCHANGED <<input, paused, resuming, commands, progress, monitorVars>>

StoreContinue ==
    /\ pc = "leaving"
    /\ SetControl("continue")
    /\ pc' = "check"
    /\ UNCHANGED <<input, paused, resuming, commands, progress, monitorVars>>

(* The ready tasks are gathered; no task is ready: a break, and Ok.        *)
BeginWave ==
    /\ pc = "wave"
    /\ LET ready == Unblocked(Tasks, deps, completed) IN
           IF ready = {}
           THEN /\ pc' = "deadlock"
                /\ UNCHANGED <<todo, late>>
           ELSE /\ todo' = ready
                /\ late' = IF control = "continue" THEN 0 ELSE late + 1
                /\ pc' = IF options.interactive_mode THEN "prompt" ELSE "tasks"
    /\ UNCHANGED <<input, shared, completed, executing, hits, fromCache, monitorVars>>

(* interactive_prompt: "n" stores Stop, and the wave goes on.              *)
Prompt ==
    /\ pc = "prompt"
    /\ \/ UNCHANGED <<control, late>>
       \/ SetControl("stop")
    /\ pc' = "tasks"
    /\ UNCHANGED <<input, paused, resuming, commands, progress, monitorVars>>

-----------------------------------------------------------------------------
(* The tasks of a wave.                                                    *)

AtTask(t) ==
    /\ pc = "tasks"
    /\ executing = {}
    /\ t \in todo

Skip(t) ==
    /\ AtTask(t)
    /\ t \notin specs
    /\ todo' = todo \ {t}
    /\ UNCHANGED <<input, shared, completed, executing, hits, fromCache, late, monitorVars, pc>>

Execute(t) ==
    /\ AtTask(t)
    /\ t \in specs
    /\ executing' = {t}
    /\ TaskStarted(t)
    /\ UNCHANGED <<input, shared, completed, todo, hits, fromCache, late, pc>>

(* Mutant: the completed set is forgotten.                                 *)
SucceedUncounted(t, hit) ==
    /\ t \in executing
    /\ executing' = {}
    /\ todo' = todo \ {t}
    /\ hits' = (hits \/ hit)
    /\ fromCache' = IF hit THEN fromCache \cup {t} ELSE fromCache
    /\ TaskCompleted(t, hits')
    /\ UNCHANGED <<input, shared, completed, late, pc>>

(* It is shown as cached if any execution so far was a cache hit.          *)
Succeed(t, hit) ==
    /\ t \in executing
    /\ executing' = {}
    /\ todo' = todo \ {t}
    /\ completed' = completed \cup {t}
    /\ hits' = (hits \/ hit)
    /\ fromCache' = IF hit THEN fromCache \cup {t} ELSE fromCache
    /\ TaskCompleted(t, hits')
    /\ UNCHANGED <<input, shared, late, pc>>

(* With break_on_failure the person is asked, may store Stop, and the      *)
(* error is returned; otherwise the task is left to the next wave.         *)
Fail(t) ==
    /\ t \in executing
    /\ executing' = {}
    /\ TaskFailed(t)
    /\ IF options.break_on_failure
       THEN /\ \/ UNCHANGED <<control, late>>
               \/ SetControl("stop")
            /\ pc' = "failed"
            /\ UNCHANGED todo
       ELSE /\ todo' = todo \ {t}
            /\ UNCHANGED <<control, late, pc>>
    /\ UNCHANGED <<input, paused, resuming, commands, completed, hits, fromCache>>

EndWave ==
    /\ pc = "tasks"
    /\ todo = {}
    /\ pc' = "check"
    /\ UNCHANGED <<input, shared, progress, late, monitorVars>>

ReturnOk ==
    /\ pc = "check"
    /\ ~Incomplete
    /\ pc' = "ok"
    /\ UNCHANGED <<input, shared, progress, late, monitorVars>>

-----------------------------------------------------------------------------
TaskStep ==
    \E t \in Tasks :
        \/ Skip(t)
        \/ Execute(t)
        \/ Fail(t)
        \/ \E hit \in BOOLEAN : Succeed(t, hit)

Run == CheckControl \/ RaiseFlag \/ SeeResume \/ StoreContinue \/ BeginWave
       \/ Prompt \/ TaskStep \/ EndWave \/ ReturnOk

HandleStep(h) ==
    \/ \E c \in Controls \ {"continue"} : Command(h, c)
    \/ LowerFlag(h)
    \/ RestoreControl(h)

Next ==
    \/ Run
    \/ LeaveDebugger
    \/ \E h \in Handles : HandleStep(h)
    \/ Returned /\ UNCHANGED vars

Spec == Init /\ [][Next]_vars

(* The executor's thread goes on, a task that was begun ends, the prompt   *)
(* reads a line or the end of its input, and a resume() that was begun     *)
(* ends.  Nobody has to leave the debugger: at the end of the input it     *)
(* asks for ever.                                                          *)
FairSpec ==
    /\ Spec
    /\ WF_vars(Run)
    /\ \A h \in Handles : WF_vars(RestoreControl(h))

-----------------------------------------------------------------------------
TypeOK ==
    /\ control \in Controls
    /\ paused \in BOOLEAN
    /\ resuming \subseteq Handles
    /\ commands \in 0 .. MaxCommands
    /\ completed \subseteq Tasks
    /\ todo \subseteq Tasks \ completed
    /\ executing \subseteq todo
    /\ shown \in [Tasks -> TaskStates]
    /\ timing \in Seq(Tasks)
    /\ late \in Nat

(* The monitor agrees with the executor: exactly the task being executed   *)
(* is shown as running and is alone on the timing stack, exactly the       *)
(* completed ones as completed or cached, and no cache hit as executed.    *)
MonitorAgrees ==
    /\ \A t \in Tasks :
          /\ shown[t] = "running" <=> t \in executing
          /\ shown[t] \in {"completed", "cached"} <=> t \in completed
          /\ shown[t] = "failed" => t \in blamed
          /\ t \in fromCache => shown[t] = "cached"
    /\ Len(timing) = Cardinality(executing)
    /\ \A i \in 1 .. Len(timing) : timing[i] \in executing

(* Whatever is commanded: a wave that had read Continue before the command *)
(* may still begin, and no other does until Continue is stored again.      *)
OneLateWave == late <= 1

(* Under any commands: the monitor is right and no wave comes too late.    *)
CommandsSound ==
    /\ TypeOK
    /\ MonitorAgrees
    /\ OneLateWave

(* The executor implements Build, through pauses, retries and cache hits.  *)
Status(t) ==
    CASE t \in executing -> "running"
      [] t \in completed -> "succeeded"
      [] OTHER           -> "waiting"
B == INSTANCE Build WITH status <- [t \in Tasks |-> Status(t)]
ImplementsBuild == B!Spec

(* A stop ends the execution unless something else is commanded after it,  *)
(* or the executor is paused or in the debugger when it comes.             *)
StopEnds ==
    control = "stop" /\ pc \notin {"pausing", "paused", "debugging", "leaving"}
        ~> Returned \/ control # "stop"

(* With all its specifications and break_on_failure an execution ends,     *)
(* unless it is left paused or in the debugger.                            *)
RunEnds ==
    specs = Tasks /\ options.break_on_failure =>
        \/ <>Returned
        \/ <>[](pc = "paused" /\ paused)
        \/ <>[](pc = "debugging")

(* An execution ends, by itself or when it is stopped.                     *)
ExecutionEnds == StopEnds /\ RunEnds

(* "Resume execution": once resume() has returned, the execution does not  *)
(* stay paused, unless something else is commanded.                        *)
ResumeWakes ==
    pc = "paused" /\ control = "continue"
        ~> pc # "paused" \/ control # "continue"
=============================================================================
