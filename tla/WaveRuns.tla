------------------------------ MODULE WaveRuns ------------------------------
(***************************************************************************)
(* The futures of one wave, as both graph executors of async_executor.rs   *)
(* make them: one future per ready task that has a specification, joined   *)
(* by join_all.  A future takes the write lock on the only TaskExecutor,   *)
(* holds it while execute_task runs, and keeps the Result.                 *)
(***************************************************************************)
EXTENDS TaskDag, Naturals

VARIABLES
    wave,           \* tasks of the wave whose result is not yet processed
    executing,      \* the task that holds the write lock, if any
    outcome,        \* the Result of each future: "none" until it has run
    succeeded       \* history: tasks some execution of which returned Ok

waveVars == <<wave, executing, outcome, succeeded>>

Outcomes == {"none", "ok", "err"}
NoOutcome == [t \in Tasks |-> "none"]

WaveInit ==
    /\ wave = {}
    /\ executing = {}
    /\ outcome = NoOutcome
    /\ succeeded = {}

(* The futures of a new wave are made, none has run yet.                   *)
MakeFutures(tasks) ==
    /\ wave' = tasks
    /\ outcome' = NoOutcome
    /\ UNCHANGED <<executing, succeeded>>

(* `executor.write().await`, then execute_task begins.                     *)
Begin(t) ==
    /\ t \in wave
    /\ outcome[t] = "none"
    /\ executing = {}
    /\ executing' = {t}
    /\ UNCHANGED <<wave, outcome, succeeded>>

(* execute_task returns and the lock is released.                          *)
Finish(t, result) ==
    /\ t \in executing
    /\ executing' = {}
    /\ outcome' = [outcome EXCEPT ![t] = result]
    /\ succeeded' = IF result = "ok" THEN succeeded \cup {t} ELSE succeeded
    /\ UNCHANGED wave

(* join_all has returned: every future of the wave has its Result.         *)
Joined == \A t \in wave : outcome[t] # "none"

(* What Build sees of a task.                                              *)
Status(t) ==
    CASE t \in executing -> "running"
      [] t \in succeeded -> "succeeded"
      [] OTHER           -> "waiting"
=============================================================================
