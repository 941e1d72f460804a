------------------------------- MODULE Build -------------------------------
(***************************************************************************)
(* What every executor of a task graph promises, whatever its strategy:    *)
(* a task runs only after all its dependencies have run successfully, and  *)
(* a task that succeeded is never run again.  A task that failed may be    *)
(* tried again.  Nothing is promised about how many run at a time.         *)
(***************************************************************************)
CONSTANTS Tasks

VARIABLES
    deps,           \* the dependencies of each task
    status          \* what has become of each task

Init ==
    /\ deps \in [Tasks -> SUBSET Tasks]
    /\ status = [t \in Tasks |-> "waiting"]

Run(t) ==
    /\ status[t] = "waiting"
    /\ \A d \in deps[t] : status[d] = "succeeded"
    /\ status' = [status EXCEPT ![t] = "running"]
    /\ UNCHANGED deps

(* A run ends well, or fails and leaves the task to be tried again.        *)
End(t) ==
    /\ status[t] = "running"
    /\ \E s \in {"succeeded", "waiting"} : status' = [status EXCEPT ![t] = s]
    /\ UNCHANGED deps

Next == \E t \in Tasks : Run(t) \/ End(t)

Spec == Init /\ [][Next]_<<deps, status>>
=============================================================================
