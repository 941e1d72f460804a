----------------------------- MODULE WaveProofs -----------------------------
(***************************************************************************)
(* WaveExecutor implements Build, for every finite set of tasks, every     *)
(* acyclic dependency relation, any number of calls for any targets and    *)
(* any missing specifications.                                             *)
(***************************************************************************)
EXTENDS WaveExecutor, FiniteSetTheorems, TLAPS

LEMMA AnalysisDomain ==
    ASSUME NEW analysis \in Analyses(deps)
    PROVE  DOMAIN analysis = DOMAIN deps
BY DEF Analyses, Priorities

(* A batch is a part of the queue whose members neither run nor completed. *)
LEMMA BatchFromQueue ==
    ASSUME NEW limit, NEW batch, GetReadyTasks(limit, batch)
    PROVE  /\ batch \subseteq ready
           /\ batch \cap (completed \cup running) = {}
           /\ ready' \subseteq ready
           /\ ready \ (ready' \cup batch) \subseteq completed \cup running
           /\ running' = running \cup batch
           /\ UNCHANGED <<deps, priority, completed>>
BY DEF GetReadyTasks, Eligible

-----------------------------------------------------------------------------
THEOREM TypeCorrect == Spec => []TypeOK
<1>1. Init => TypeOK
  BY MaxCallsNat DEF Init, SchedulerInit, AcyclicDependencies, WaveInit, TypeOK, Dependencies, NoOutcome, Outcomes
<1>2. TypeOK /\ [Next]_vars => TypeOK'
  <2> SUFFICES ASSUME TypeOK, [Next]_vars
               PROVE  TypeOK'
    OBVIOUS
  <2> USE DEF TypeOK, Returned, Outcomes
  <2>1. ASSUME NEW g \in SUBSET Tasks, NEW s \in SUBSET g, Call(g, s)
        PROVE  TypeOK'
    <3>1. DOMAIN priority' = Tasks
      BY <2>1, AnalysisDomain DEF Call, Initialize, Dependencies
    <3>2. calls' \in 0..MaxCalls
      BY <2>1, MaxCallsNat DEF Call
    <3>3. QED
      BY <2>1, <3>1, <3>2 DEF Call, Initialize, NewlyReady, Unblocked, waveVars
  <2>2. ASSUME NEW batch \in SUBSET Tasks, StartWave(batch)
        PROVE  TypeOK'
    BY <2>2, BatchFromQueue DEF StartWave, MakeFutures, NoOutcome
  <2>3. CASE NothingReady
    BY <2>3, BatchFromQueue DEF NothingReady, waveVars
  <2>4. ASSUME NEW t \in Tasks, BeginTask(t)
        PROVE  TypeOK'
    BY <2>4 DEF BeginTask, Begin, schedulerVars
  <2>5. ASSUME NEW t \in Tasks, NEW r \in {"ok", "err"}, FinishTask(t, r)
        PROVE  TypeOK'
    BY <2>5 DEF FinishTask, Finish, schedulerVars
  <2>6. ASSUME NEW t \in Tasks, ProcessOk(t)
        PROVE  TypeOK'
    BY <2>6 DEF ProcessOk, MarkCompleted, NewlyReady, Unblocked
  <2>7. ASSUME NEW t \in Tasks, ProcessErr(t)
        PROVE  TypeOK'
    BY <2>7 DEF ProcessErr, MarkFailed
  <2>8. CASE EndWave \/ ReturnOk
    BY <2>8 DEF EndWave, ReturnOk, schedulerVars, waveVars
  <2>9. CASE UNCHANGED vars
    BY <2>9 DEF vars, schedulerVars, waveVars
  <2>10. QED
    BY <2>1, <2>2, <2>3, <2>4, <2>5, <2>6, <2>7, <2>8, <2>9 DEF Next, Executor, Finished
<1>3. QED
  BY <1>1, <1>2, PTL DEF Spec

-----------------------------------------------------------------------------
(* The inductive invariant, one lemma per action that disturbs it.         *)
LEMMA InvCall ==
    ASSUME IInv, NEW g \in SUBSET Tasks, NEW s \in SUBSET g, Call(g, s)
    PROVE  QueueSound' /\ SucceededAccounted' /\ WaveSound' /\ LockSound'
<1> USE DEF IInv, Call, Initialize, waveVars, Returned
<1>1. QueueSound'
  BY DEF QueueSound, NewlyReady, Unblocked
<1>2. SucceededAccounted' /\ WaveSound' /\ LockSound'
  BY DEF SucceededAccounted, WaveSound, LockSound
<1>3. QED
  BY <1>1, <1>2

LEMMA InvStartWave ==
    ASSUME IInv, NEW batch \in SUBSET Tasks, StartWave(batch)
    PROVE  QueueSound' /\ SucceededAccounted' /\ WaveSound' /\ LockSound'
<1> USE BatchFromQueue DEF IInv, StartWave, MakeFutures
<1>1. QueueSound'
  BY DEF QueueSound
<1>2. SucceededAccounted'
  BY DEF SucceededAccounted
<1>3. WaveSound'
  BY DEF QueueSound, SucceededAccounted, WaveSound, NoOutcome
<1>4. LockSound'
  BY DEF WaveSound, LockSound
<1>5. QED
  BY <1>1, <1>2, <1>3, <1>4

LEMMA InvFutures ==
    ASSUME IInv, NEW t \in Tasks, NEW r \in {"ok", "err"},
           BeginTask(t) \/ FinishTask(t, r)
    PROVE  QueueSound' /\ SucceededAccounted' /\ WaveSound' /\ LockSound'
<1> USE DEF IInv, TypeOK, BeginTask, FinishTask, Begin, Finish, schedulerVars
<1>1. QueueSound'
  BY DEF QueueSound
<1>2. SucceededAccounted'
  BY DEF SucceededAccounted, WaveSound, LockSound
<1>3. WaveSound'
  BY DEF WaveSound, LockSound
<1>4. LockSound'
  BY DEF LockSound
<1>5. QED
  BY <1>1, <1>2, <1>3, <1>4

LEMMA InvProcessOk ==
    ASSUME IInv, NEW t \in Tasks, ProcessOk(t)
    PROVE  QueueSound' /\ SucceededAccounted' /\ WaveSound' /\ LockSound'
<1> USE DEF IInv, TypeOK, ProcessOk, NextResult, Joined, MarkCompleted
<1>1. QueueSound'
  BY DEF QueueSound, NewlyReady, Unblocked
<1>2. SucceededAccounted'
  BY DEF SucceededAccounted, WaveSound
<1>3. WaveSound'
  BY DEF WaveSound
<1>4. LockSound'
  BY DEF LockSound
<1>5. QED
  BY <1>1, <1>2, <1>3, <1>4

(* The results that a failed call throws away belong to tasks that stay    *)
(* marked as running; only the failed task is unmarked.                    *)
LEMMA InvProcessErr ==
    ASSUME IInv, NEW t \in Tasks, ProcessErr(t)
    PROVE  QueueSound' /\ SucceededAccounted' /\ WaveSound' /\ LockSound'
<1> USE DEF IInv, TypeOK, ProcessErr, NextResult, Joined, MarkFailed
<1>1. QueueSound'
  BY DEF QueueSound
<1>2. SucceededAccounted'
  BY DEF SucceededAccounted, WaveSound
<1>3. WaveSound' /\ LockSound'
  BY DEF WaveSound, LockSound
<1>4. QED
  BY <1>1, <1>2, <1>3

THEOREM Invariance == Spec => []IInv
<1>1. Init => IInv
  <2>1. Init => TypeOK
    BY MaxCallsNat DEF Init, SchedulerInit, AcyclicDependencies, WaveInit, TypeOK, Dependencies, NoOutcome, Outcomes
  <2>2. QED
    BY <2>1 DEF Init, SchedulerInit, AcyclicDependencies, WaveInit, IInv, QueueSound, SucceededAccounted,
                WaveSound, LockSound
<1>2. TypeOK' /\ IInv /\ [Next]_vars => IInv'
  <2> SUFFICES ASSUME TypeOK', IInv, [Next]_vars
               PROVE  QueueSound' /\ SucceededAccounted' /\ WaveSound' /\ LockSound'
    BY DEF IInv
  <2>1. CASE NothingReady
    BY <2>1, BatchFromQueue
       DEF NothingReady, waveVars, IInv, QueueSound, SucceededAccounted, WaveSound, LockSound
  <2>2. CASE EndWave \/ ReturnOk
    BY <2>2 DEF EndWave, ReturnOk, schedulerVars, waveVars, IInv, QueueSound,
                SucceededAccounted, WaveSound, LockSound
  <2>3. CASE UNCHANGED vars
    BY <2>3 DEF vars, schedulerVars, waveVars, IInv, QueueSound, SucceededAccounted,
                WaveSound, LockSound
  <2>4. QED
    BY <2>1, <2>2, <2>3, InvCall, InvStartWave, InvFutures, InvProcessOk, InvProcessErr
       DEF Next, Executor, Finished
<1>3. QED
  BY <1>1, <1>2, TypeCorrect, PTL DEF Spec

(* A call never returns while a task executes.                             *)
THEOREM NothingOutlivesACall == Spec => []NoTaskOutlivesCall
<1>1. IInv => NoTaskOutlivesCall
  BY DEF IInv, WaveSound, LockSound, NoTaskOutlivesCall, Returned
<1>2. QED
  BY <1>1, Invariance, PTL

-----------------------------------------------------------------------------
(* Every step of the executor is a step of Build or a stutter.             *)
THEOREM Refinement == Spec => ImplementsBuild
<1>1. Init => B!Init
  BY DEF Init, SchedulerInit, AcyclicDependencies, WaveInit, Dependencies, B!Init, Status
<1>2. IInv /\ [Next]_vars => [B!Next]_<<deps, [t \in Tasks |-> Status(t)]>>
  <2> SUFFICES ASSUME IInv, [Next]_vars
               PROVE  \/ B!Next
                      \/ UNCHANGED <<deps, [t \in Tasks |-> Status(t)]>>
    OBVIOUS
  <2>1. CASE UNCHANGED <<deps, executing, succeeded>>
    BY <2>1 DEF Status
  <2>2. ASSUME NEW t \in Tasks, BeginTask(t)
        PROVE  B!Run(t)
    <3>1. /\ t \in wave /\ outcome[t] = "none"
          /\ executing = {} /\ executing' = {t}
          /\ UNCHANGED <<deps, succeeded>>
      BY <2>2 DEF BeginTask, Begin, schedulerVars
    <3>2. t \notin succeeded /\ Status(t) = "waiting"
      BY <3>1 DEF IInv, WaveSound, Status
    <3>3. \A d \in deps[t] : d \in Tasks /\ Status(d) = "succeeded"
      BY <3>1 DEF IInv, TypeOK, Dependencies, WaveSound, SucceededAccounted, Status
    <3>4. \A u \in Tasks : Status(u)' = IF u = t THEN "running" ELSE Status(u)
      BY <3>1, <3>2 DEF Status
    <3>5. QED
      BY <3>1, <3>2, <3>3, <3>4 DEF B!Run
  <2>3. ASSUME NEW t \in Tasks, NEW r \in {"ok", "err"}, FinishTask(t, r)
        PROVE  B!End(t)
    <3> USE <2>3 DEF FinishTask, Finish, schedulerVars
    <3>1. executing = {t} /\ t \notin succeeded
      BY DEF IInv, WaveSound, LockSound
    <3>2. PICK s \in {"succeeded", "waiting"} :
              s = IF r = "ok" THEN "succeeded" ELSE "waiting"
      OBVIOUS
    <3>3. \A u \in Tasks : Status(u)' = IF u = t THEN s ELSE Status(u)
      BY <3>1, <3>2 DEF Status
    <3>4. QED
      BY <3>1, <3>2, <3>3 DEF B!End, Status
  <2>4. ASSUME NEW g \in SUBSET Tasks, NEW s \in SUBSET g, Call(g, s)
        PROVE  UNCHANGED <<deps, executing, succeeded>>
    BY <2>4 DEF Call, Initialize, waveVars
  <2>5. ASSUME NEW batch \in SUBSET Tasks, StartWave(batch)
        PROVE  UNCHANGED <<deps, executing, succeeded>>
    BY <2>5, BatchFromQueue DEF StartWave, MakeFutures
  <2>6. CASE NothingReady
    BY <2>6, <2>1, BatchFromQueue DEF NothingReady, waveVars
  <2>7. ASSUME NEW t \in Tasks, ProcessOk(t) \/ ProcessErr(t)
        PROVE  UNCHANGED <<deps, executing, succeeded>>
    BY <2>7 DEF ProcessOk, ProcessErr, MarkCompleted, MarkFailed
  <2>8. CASE EndWave \/ ReturnOk \/ UNCHANGED vars
    BY <2>8, <2>1 DEF EndWave, ReturnOk, vars, schedulerVars, waveVars
  <2>9. QED
    BY <2>1, <2>2, <2>3, <2>4, <2>5, <2>6, <2>7, <2>8 DEF Next, Executor, Finished, B!Next
<1>3. QED
  BY <1>1, <1>2, Invariance, PTL DEF Spec, ImplementsBuild, B!Spec

-----------------------------------------------------------------------------
(* The first call.  A second one may begin with tasks that an earlier call *)
(* left marked as running, of which nothing of this is true.               *)
LEMMA FirstCallBegins ==
    ASSUME TypeOK, FirstCallInv, NEW g \in SUBSET Tasks, NEW s \in SUBSET g,
           Closed(g, deps), Call(g, s)
    PROVE  FirstCallInv'
<1> USE DEF TypeOK, FirstCallInv, Call, Initialize, waveVars
<1>1. DOMAIN priority' = Tasks
  BY AnalysisDomain DEF Dependencies
<1>2. NotCalledYet' /\ GraphSound'
  BY DEF NotCalledYet, GraphSound, Closed
<1>3. calls' = 1 => calls = 0
  BY MaxCallsNat
<1>4. ResultsSound' /\ RunningInWave' /\ QueueEmptied'
  BY <1>3 DEF NotCalledYet, ResultsSound, RunningInWave, QueueEmptied
<1>5. RunnableKnown'
  BY <1>1, <1>3 DEF NotCalledYet, RunnableKnown, NewlyReady, Unblocked
<1>6. QED
  BY <1>2, <1>4, <1>5

LEMMA FirstCallTakes ==
    ASSUME IInv, FirstCallInv, NEW batch \in SUBSET Tasks, StartWave(batch)
    PROVE  FirstCallInv'
<1> USE BatchFromQueue DEF IInv, TypeOK, FirstCallInv, StartWave, MakeFutures
<1>1. NotCalledYet' /\ GraphSound' /\ ResultsSound' /\ QueueEmptied'
  BY DEF NotCalledYet, GraphSound, ResultsSound, QueueEmptied
<1>2. RunnableKnown'
  <2>1. ready \cup running \cup completed \subseteq ready' \cup running' \cup completed'
    OBVIOUS
  <2>2. QED
    BY <2>1 DEF RunnableKnown
<1>3. RunningInWave'
  <2>1. running \cap specs = {} \/ calls # 1 \/ pc = "failed"
    BY DEF RunningInWave, WaveSound
  <2>2. QED
    BY <2>1 DEF RunningInWave
<1>4. QED
  BY <1>1, <1>2, <1>3

(* A batch below the limit empties the queue.                              *)
LEMMA NothingTaken ==
    ASSUME GetReadyTasks(MaxParallel, {})
    PROVE  ready' = {}
<1>1. PICK popped \in SUBSET ready :
          PoppedBy(MaxParallel, popped) /\ {} = {t \in popped : Eligible(t)} /\ ready' = ready \ popped
  BY DEF GetReadyTasks
<1>2. Cardinality({}) < MaxParallel
  BY FS_EmptySet, MaxParallelPositive
<1>3. popped = ready
  BY <1>1, <1>2 DEF PoppedBy
<1>4. QED
  BY <1>1, <1>3

LEMMA GraphNotCompleted ==
    ASSUME TypeOK
    PROVE  /\ Incomplete => ~(graph \subseteq completed)
           /\ completed \subseteq graph /\ ~Incomplete => graph \subseteq completed
<1>1. IsFiniteSet(completed) /\ IsFiniteSet(graph)
  BY TasksFinite, FS_Subset DEF TypeOK
<1>2. Cardinality(completed) \in Nat /\ Cardinality(graph) \in Nat
  BY <1>1, FS_CardinalityType
<1>3. graph \subseteq completed => Cardinality(graph) <= Cardinality(completed)
  BY <1>1, FS_Subset
<1>4. completed \subseteq graph /\ completed # graph => Cardinality(completed) < Cardinality(graph)
  BY <1>1, <1>2, FS_Subset
<1>5. QED
  BY <1>2, <1>3, <1>4 DEF Incomplete

LEMMA FirstCallStops ==
    ASSUME TypeOK, FirstCallInv, NothingReady \/ ReturnOk
    PROVE  FirstCallInv'
<1> USE DEF TypeOK, FirstCallInv
<1>1. CASE NothingReady
  <2> USE <1>1, BatchFromQueue DEF NothingReady, waveVars
  <2>1. NotCalledYet' /\ GraphSound' /\ ResultsSound'
    BY DEF NotCalledYet, GraphSound, ResultsSound
  <2>2. RunnableKnown' /\ RunningInWave'
    BY DEF RunnableKnown, RunningInWave
  <2>3. QueueEmptied'
    BY NothingTaken, GraphNotCompleted DEF QueueEmptied
  <2>4. QED
    BY <2>1, <2>2, <2>3
<1>2. CASE ReturnOk
  <2> USE <1>2 DEF ReturnOk, schedulerVars, waveVars
  <2>1. NotCalledYet' /\ GraphSound' /\ ResultsSound' /\ RunnableKnown' /\ RunningInWave'
    BY DEF NotCalledYet, GraphSound, ResultsSound, RunnableKnown, RunningInWave
  <2>2. calls = 1 => completed \subseteq graph
    BY DEF ResultsSound
  <2>3. QueueEmptied'
    BY <2>2, GraphNotCompleted DEF QueueEmptied
  <2>4. QED
    BY <2>1, <2>3
<1>3. QED
  BY <1>1, <1>2

LEMMA FirstCallProcesses ==
    ASSUME IInv, FirstCallInv, NEW t \in Tasks, ProcessOk(t) \/ ProcessErr(t)
    PROVE  FirstCallInv'
<1> USE DEF IInv, TypeOK, FirstCallInv
<1>1. CASE ProcessOk(t)
  <2> USE <1>1 DEF ProcessOk, NextResult, MarkCompleted
  <2>1. NotCalledYet' /\ GraphSound' /\ QueueEmptied'
    BY DEF NotCalledYet, GraphSound, QueueEmptied
  <2>2. ResultsSound'
    BY DEF ResultsSound
  <2>3. RunningInWave'
    BY DEF RunningInWave
  <2>4. RunnableKnown'
    BY DEF RunnableKnown, NewlyReady, Unblocked
  <2>5. QED
    BY <2>1, <2>2, <2>3, <2>4
<1>2. CASE ProcessErr(t)
  BY <1>2 DEF ProcessErr, NextResult, MarkFailed, NotCalledYet, GraphSound, ResultsSound,
              RunnableKnown, RunningInWave, QueueEmptied
<1>3. QED
  BY <1>1, <1>2

THEOREM FirstCallInvariance == Spec => []FirstCallInv
<1>1. Init => FirstCallInv
  BY DEF Init, SchedulerInit, AcyclicDependencies, WaveInit, FirstCallInv, NotCalledYet, GraphSound,
         Closed, ResultsSound, RunnableKnown, RunningInWave, QueueEmptied
<1>2. IInv /\ FirstCallInv /\ [Next]_vars => FirstCallInv'
  <2> SUFFICES ASSUME IInv, FirstCallInv, [Next]_vars
               PROVE  FirstCallInv'
    OBVIOUS
  <2>0. TypeOK
    BY DEF IInv
  <2>1. ASSUME NEW t \in Tasks, NEW r \in {"ok", "err"}, BeginTask(t) \/ FinishTask(t, r)
        PROVE  FirstCallInv'
    BY <2>1 DEF BeginTask, FinishTask, Begin, Finish, schedulerVars, FirstCallInv, NotCalledYet,
                GraphSound, ResultsSound, RunnableKnown, RunningInWave, QueueEmptied
  <2>2. CASE EndWave \/ UNCHANGED vars
    BY <2>2 DEF EndWave, vars, schedulerVars, waveVars, FirstCallInv, NotCalledYet,
                GraphSound, ResultsSound, RunnableKnown, RunningInWave, QueueEmptied
  <2>3. QED
    BY <2>0, <2>1, <2>2, FirstCallBegins, FirstCallTakes, FirstCallStops, FirstCallProcesses
       DEF Next, Executor, Finished
<1>3. QED
  BY <1>1, <1>2, Invariance, PTL DEF Spec

-----------------------------------------------------------------------------
(* The map that a first call returns holds what the scheduler completed.   *)
THEOREM ResultsAreCompleted == Spec => []ResultsMatch
<1>1. TypeOK /\ FirstCallInv => ResultsMatch
  BY DEF TypeOK, FirstCallInv, ResultsSound, ResultsMatch
<1>2. QED
  BY <1>1, TypeCorrect, FirstCallInvariance, PTL

LEMMA NoneLeft == TypeOK /\ IInv /\ FirstCallInv => NothingRunnableLeft
<1> SUFFICES ASSUME TypeOK, IInv, FirstCallInv, pc \in {"ok", "deadlock"}, calls = 1,
                    NEW t \in graph \ completed, t \in specs
             PROVE  ~(deps[t] \subseteq completed)
  BY DEF NothingRunnableLeft
<1>1. ready = {} /\ wave = {} /\ t \in Tasks
  BY DEF TypeOK, IInv, FirstCallInv, WaveSound, QueueEmptied
<1>2. t \notin running
  BY <1>1 DEF FirstCallInv, RunningInWave
<1>3. QED
  BY <1>1, <1>2 DEF FirstCallInv, RunnableKnown

(* No runnable task is forgotten when the first call returns.              *)
THEOREM NoRunnableTaskLeft == Spec => []NothingRunnableLeft
BY NoneLeft, TypeCorrect, Invariance, FirstCallInvariance, PTL

(* A graph with a task to do has one whose dependencies are complete, and  *)
(* with all specifications there that task would have been taken.          *)
THEOREM DeadlockIsNeverFalse == Spec => []NoFalseDeadlock
<1>1. TypeOK /\ IInv /\ FirstCallInv => NoFalseDeadlock
  <2> SUFFICES ASSUME TypeOK, IInv, FirstCallInv, calls = 1, pc = "deadlock", graph \subseteq specs
               PROVE  FALSE
    BY DEF NoFalseDeadlock
  <2>1. graph \ completed # {} /\ graph \ completed \in SUBSET DOMAIN deps
    BY DEF TypeOK, Dependencies, FirstCallInv, QueueEmptied
  <2>2. PICK t \in graph \ completed : deps[t] \cap (graph \ completed) = {}
    BY <2>1 DEF FirstCallInv, GraphSound, Acyclic
  <2>3. deps[t] \subseteq completed
    BY <2>2 DEF FirstCallInv, GraphSound, Closed
  <2>4. QED
    BY <2>2, <2>3, NoneLeft DEF NothingRunnableLeft
<1>2. QED
  BY <1>1, TypeCorrect, Invariance, FirstCallInvariance, PTL

(* How a first call ends, for every graph, target and parallelism.         *)
THEOREM FirstCallIsSound == Spec => []FirstCallSound
<1>1. TypeOK /\ NothingRunnableLeft /\ NoFalseDeadlock /\ ResultsMatch => FirstCallSound
  BY DEF FirstCallSound
<1>2. QED
  BY <1>1, TypeCorrect, NoRunnableTaskLeft, DeadlockIsNeverFalse, ResultsAreCompleted, PTL
=============================================================================
