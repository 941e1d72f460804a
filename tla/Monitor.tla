------------------------------ MODULE Monitor ------------------------------
(***************************************************************************)
(* TaskMonitor (monitor.rs): what it shows of every task, and the stack    *)
(* with which it times them.  Each method holds the one mutex throughout.  *)
(* Times, sizes and the texts of errors are left out.                      *)
(***************************************************************************)
EXTENDS TaskDag, Naturals, SequencesExt

VARIABLES
    shown,          \* the TaskState of each task
    blamed,         \* the tasks that have an error_message
    timing          \* timing_stack

monitorVars == <<shown, blamed, timing>>

TaskStates == {"pending", "running", "completed", "failed", "cached"}

(* register_task for every task: a TaskInfo replaces one from before.      *)
RegisterAll ==
    /\ shown = [t \in Tasks |-> "pending"]
    /\ blamed = {}
    /\ timing = <<>>

TaskStarted(t) ==
    /\ shown' = [shown EXCEPT ![t] = "running"]
    /\ timing' = Append(timing, t)
    /\ UNCHANGED blamed

(* The top of the stack is popped whatever it is; no message is cleared.   *)
TaskCompleted(t, cached) ==
    /\ shown' = [shown EXCEPT ![t] = IF cached THEN "cached" ELSE "completed"]
    /\ timing' = SubSeq(timing, 1, Len(timing) - 1)
    /\ UNCHANGED blamed

TaskFailed(t) ==
    /\ shown' = [shown EXCEPT ![t] = "failed"]
    /\ blamed' = blamed \cup {t}
    /\ timing' = FoldLeft(LAMBDA s, u : IF u \in {t} THEN s ELSE Append(s, u), << >>, timing)
=============================================================================
