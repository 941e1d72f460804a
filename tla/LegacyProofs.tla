---------------------------- MODULE LegacyProofs ----------------------------
(***************************************************************************)
(* execute_graph implements Build, never reports a deadlock, and returns   *)
(* Ok only with the output of every task, for every finite set of tasks,   *)
(* every acyclic dependency relation and any missing specifications.       *)
(***************************************************************************)
EXTENDS LegacyExecutor, FiniteSetTheorems, TLAPS

(* The loop's test counts; for sets of tasks it compares the sets.         *)
LEMMA IncompleteMeansMissing ==
    ASSUME completed \subseteq Tasks
    PROVE  Incomplete <=> completed # Tasks
<1>1. /\ IsFiniteSet(completed)
      /\ Cardinality(completed) <= Cardinality(Tasks)
      /\ Cardinality(completed) = Cardinality(Tasks) => completed = Tasks
  BY TasksFinite, FS_Subset
<1>2. Cardinality(completed) \in Nat /\ Cardinality(Tasks) \in Nat
  BY <1>1, TasksFinite, FS_CardinalityType
<1>3. QED
  BY <1>1, <1>2 DEF Incomplete

(* In an acyclic relation a graph that is not complete has a ready task.   *)
LEMMA SomeUnblocked ==
    ASSUME deps \in Dependencies(Tasks), Acyclic(deps),
           completed \subseteq Tasks, completed # Tasks
    PROVE  Unblocked(Tasks, deps, completed) # {}
<1>1. PICK t \in Tasks \ completed : deps[t] \cap (Tasks \ completed) = {}
  BY DEF Acyclic, Dependencies
<1>2. deps[t] \subseteq completed
  BY <1>1 DEF Dependencies
<1>3. QED
  BY <1>1, <1>2 DEF Unblocked

-----------------------------------------------------------------------------
(* Types, preserved by every step.                                         *)
THEOREM TypeCorrect == Spec => []TypeOK
<1>1. Init => TypeOK
  BY DEF Init, WaveInit, AcyclicDependencies, TypeOK, NoOutcome, Outcomes
<1>2. TypeOK /\ [Next]_vars => TypeOK'
  <2> SUFFICES ASSUME TypeOK, [Next]_vars
               PROVE  TypeOK'
    OBVIOUS
  <2> USE DEF TypeOK, Returned, Outcomes
  <2>1. CASE TakeReady
    BY <2>1 DEF TakeReady, MakeFutures, NoOutcome, Unblocked, waveVars
  <2>2. ASSUME NEW t \in Tasks, BeginTask(t)
        PROVE  TypeOK'
    BY <2>2 DEF BeginTask, Begin
  <2>3. ASSUME NEW t \in Tasks, NEW r \in {"ok", "err"}, FinishTask(t, r)
        PROVE  TypeOK'
    BY <2>3 DEF FinishTask, Finish
  <2>4. ASSUME NEW t \in Tasks, ProcessOk(t) \/ ProcessErr(t)
        PROVE  TypeOK'
    BY <2>4 DEF ProcessOk, ProcessErr
  <2>5. CASE EndWave \/ ReturnOk \/ UNCHANGED vars
    BY <2>5 DEF EndWave, ReturnOk, vars, waveVars
  <2>6. QED
    BY <2>1, <2>2, <2>3, <2>4, <2>5 DEF Next, Executor, Finished
<1>3. QED
  BY <1>1, <1>2, PTL DEF Spec

-----------------------------------------------------------------------------
(* The inductive invariant, one lemma per action that disturbs it.         *)
LEMMA InvTakeReady ==
    ASSUME IInv, TakeReady
    PROVE  Accounted' /\ WaveSound' /\ LockSound' /\ OkIsComplete' /\ NoDeadlockReport'
<1> USE DEF IInv, TakeReady
<1>1. Unblocked(Tasks, deps, completed) # {}
  BY IncompleteMeansMissing, SomeUnblocked DEF TypeOK
<1>2. /\ wave' = Unblocked(Tasks, deps, completed) \cap specs
      /\ outcome' = NoOutcome
      /\ pc' = "wave"
      /\ UNCHANGED <<executing, succeeded, deps, specs, completed, results>>
  BY <1>1 DEF MakeFutures
<1>3. wave = {} /\ executing = {}
  BY DEF WaveSound, LockSound
<1>4. Accounted'
  BY <1>2, <1>3 DEF Accounted
<1>5. WaveSound'
  BY <1>2, <1>3 DEF TypeOK, Accounted, WaveSound, Unblocked, NoOutcome
<1>6. LockSound' /\ OkIsComplete' /\ NoDeadlockReport'
  BY <1>2, <1>3 DEF LockSound, OkIsComplete, NoDeadlockReport
<1>7. QED
  BY <1>4, <1>5, <1>6

LEMMA InvFutures ==
    ASSUME IInv, NEW t \in Tasks, NEW r \in {"ok", "err"},
           BeginTask(t) \/ FinishTask(t, r)
    PROVE  Accounted' /\ WaveSound' /\ LockSound' /\ OkIsComplete' /\ NoDeadlockReport'
<1> USE DEF IInv, TypeOK, BeginTask, FinishTask, Begin, Finish
<1>1. Accounted'
  BY DEF Accounted, LockSound
<1>2. WaveSound'
  BY DEF WaveSound, LockSound
<1>3. LockSound' /\ OkIsComplete' /\ NoDeadlockReport'
  BY DEF LockSound, OkIsComplete, NoDeadlockReport
<1>4. QED
  BY <1>1, <1>2, <1>3

LEMMA InvProcess ==
    ASSUME IInv, NEW t \in Tasks, ProcessOk(t) \/ ProcessErr(t)
    PROVE  Accounted' /\ WaveSound' /\ LockSound' /\ OkIsComplete' /\ NoDeadlockReport'
<1> USE DEF IInv, TypeOK, ProcessOk, ProcessErr, NextResult, Joined
<1>1. Accounted'
  BY DEF Accounted, WaveSound
<1>2. WaveSound'
  BY DEF WaveSound
<1>3. LockSound' /\ OkIsComplete' /\ NoDeadlockReport'
  BY DEF LockSound, OkIsComplete, NoDeadlockReport
<1>4. QED
  BY <1>1, <1>2, <1>3

THEOREM Invariance == Spec => []IInv
<1>1. Init => IInv
  BY DEF Init, WaveInit, AcyclicDependencies, IInv, TypeOK, NoOutcome, Outcomes, Accounted, WaveSound,
         LockSound, OkIsComplete, NoDeadlockReport
<1>2. TypeOK' /\ IInv /\ [Next]_vars => IInv'
  <2> SUFFICES ASSUME TypeOK', IInv, [Next]_vars
               PROVE  IInv'
    OBVIOUS
  <2>1. Acyclic(deps)'
    BY DEF IInv, Next, Executor, Finished, vars, TakeReady, BeginTask, FinishTask,
           ProcessOk, ProcessErr, EndWave, ReturnOk
  <2>2. Accounted' /\ WaveSound' /\ LockSound' /\ OkIsComplete' /\ NoDeadlockReport'
    <3>1. CASE EndWave
      BY <3>1 DEF EndWave, waveVars, IInv, Accounted, WaveSound, LockSound, OkIsComplete,
                  NoDeadlockReport
    <3>2. CASE ReturnOk
      BY <3>2, IncompleteMeansMissing
         DEF ReturnOk, waveVars, IInv, TypeOK, Accounted, WaveSound, LockSound,
             OkIsComplete, NoDeadlockReport
    <3>3. CASE UNCHANGED vars
      BY <3>3 DEF vars, waveVars, IInv, Accounted, WaveSound, LockSound, OkIsComplete,
                  NoDeadlockReport
    <3>4. QED
      BY <3>1, <3>2, <3>3, InvTakeReady, InvFutures, InvProcess DEF Next, Executor, Finished
  <2>3. QED
    BY <2>1, <2>2 DEF IInv
<1>3. QED
  BY <1>1, <1>2, TypeCorrect, PTL DEF Spec

(* "Deadlock detected" is never reported for an acyclic graph.             *)
THEOREM DeadlockIsNeverReported == Spec => []NoDeadlockReport
<1>1. IInv => NoDeadlockReport
  BY DEF IInv
<1>2. QED
  BY <1>1, Invariance, PTL

(* Ok means that every task has succeeded and its output is returned.      *)
THEOREM OkIsReturnedForAll == Spec => []OkMeansAll
<1>1. IInv => OkMeansAll
  BY DEF IInv, TypeOK, OkIsComplete, Accounted, WaveSound, LockSound, OkMeansAll
<1>2. QED
  BY <1>1, Invariance, PTL

(* How a call of execute_graph can end, for every graph and specification. *)
THEOREM CallIsSound == Spec => []CallSound
<1>1. TypeOK /\ NoDeadlockReport /\ OkMeansAll => CallSound
  BY DEF CallSound
<1>2. QED
  BY <1>1, TypeCorrect, DeadlockIsNeverReported, OkIsReturnedForAll, PTL

-----------------------------------------------------------------------------
(* Every step of the call is a step of Build or a stutter.                 *)
THEOREM Refinement == Spec => ImplementsBuild
<1>1. Init => B!Init
  BY DEF Init, WaveInit, AcyclicDependencies, Dependencies, B!Init, Status
<1>2. IInv /\ [Next]_vars => [B!Next]_<<deps, [t \in Tasks |-> Status(t)]>>
  <2> SUFFICES ASSUME IInv, [Next]_vars
               PROVE  \/ B!Next
                      \/ UNCHANGED <<deps, [t \in Tasks |-> Status(t)]>>
    OBVIOUS
  <2>1. CASE UNCHANGED <<deps, executing, succeeded>>
    BY <2>1 DEF Status
  <2>2. ASSUME NEW t \in Tasks, BeginTask(t)
        PROVE  B!Run(t)
    <3>1. /\ t \in wave /\ outcome[t] = "none"
          /\ executing = {} /\ executing' = {t}
          /\ UNCHANGED <<deps, succeeded>>
      BY <2>2 DEF BeginTask, Begin
    <3>2. t \notin succeeded /\ Status(t) = "waiting"
      BY <3>1 DEF IInv, WaveSound, Status
    <3>3. \A d \in deps[t] : Status(d) = "succeeded"
      BY <3>1 DEF IInv, Accounted, WaveSound, Status
    <3>4. \A u \in Tasks : Status(u)' = IF u = t THEN "running" ELSE Status(u)
      BY <3>1, <3>2 DEF Status
    <3>5. \A d \in deps[t] : d \in Tasks
      BY DEF IInv, TypeOK, Dependencies
    <3>6. QED
      BY <3>1, <3>2, <3>3, <3>4, <3>5 DEF B!Run
  <2>3. ASSUME NEW t \in Tasks, NEW r \in {"ok", "err"}, FinishTask(t, r)
        PROVE  B!End(t)
    <3> USE <2>3 DEF FinishTask, Finish
    <3>1. executing = {t} /\ t \notin succeeded
      BY DEF IInv, TypeOK, WaveSound, LockSound
    <3>2. PICK s \in {"succeeded", "waiting"} :
              s = IF r = "ok" THEN "succeeded" ELSE "waiting"
      OBVIOUS
    <3>3. \A u \in Tasks : Status(u)' = IF u = t THEN s ELSE Status(u)
      BY <3>1, <3>2 DEF Status
    <3>4. QED
      BY <3>1, <3>2, <3>3 DEF B!End, Status
  <2>4. CASE TakeReady
    BY <2>1, <2>4 DEF TakeReady, MakeFutures, waveVars
  <2>5. ASSUME NEW t \in Tasks, ProcessOk(t) \/ ProcessErr(t)
        PROVE  UNCHANGED <<deps, executing, succeeded>>
    BY <2>5 DEF ProcessOk, ProcessErr
  <2>6. CASE EndWave \/ ReturnOk \/ UNCHANGED vars
    BY <2>1, <2>6 DEF EndWave, ReturnOk, vars, waveVars
  <2>7. QED
    BY <2>1, <2>2, <2>3, <2>4, <2>5, <2>6 DEF Next, Executor, Finished, B!Next
<1>3. QED
  BY <1>1, <1>2, Invariance, PTL DEF Spec, ImplementsBuild, B!Spec
=============================================================================
