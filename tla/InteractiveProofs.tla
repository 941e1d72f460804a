------------------------- MODULE InteractiveProofs --------------------------
(***************************************************************************)
(* The interactive executor, for any finite graph of tasks and any number  *)
(* of handles that pause, resume and cancel it: its answers are true, and  *)
(* it implements Build.                                                    *)
(***************************************************************************)
EXTENDS InteractiveExecutor, Induction

(* At most one task is executed at a time, during the tasks of a wave.     *)
OneByOne == executing # {} => pc = "tasks" /\ \E t \in Tasks : executing = {t} /\ timing = <<t>>

(* What a wave still has to do has its dependencies; a cache hit is done.  *)
WaveIsReady ==
    /\ deps \in [Tasks -> SUBSET Tasks]
    /\ \A t \in todo : deps[t] \subseteq completed
    /\ fromCache \subseteq completed
    /\ blamed \subseteq Tasks
    /\ hits \in BOOLEAN /\ (fromCache # {} => hits)

(* A wave begins at most once after Continue was read.                     *)
LateOnce ==
    /\ control = "continue" => late = 0
    /\ pc = "wave" => late = 0
    /\ late <= 1

IInv == TypeOK /\ MonitorAgrees /\ OneByOne /\ WaveIsReady /\ LateOnce

(* No task is executed: none is shown as running, and none is timed.       *)
LEMMA NobodyTimed == ASSUME IInv, executing = {} PROVE timing = << >>
<1>1. Cardinality({}) = 0
  BY FS_EmptySet
<1> QED BY <1>1, EmptySeq DEF IInv, MonitorAgrees, TypeOK

(* Every session starts in the invariant.                                  *)
LEMMA Initially == Init => IInv
<1> SUFFICES ASSUME Init PROVE IInv
  OBVIOUS
<1>1. Cardinality({}) = 0
  BY FS_EmptySet
<1>2. TypeOK
  <2>1. shown \in [Tasks -> TaskStates] /\ timing \in Seq(Tasks)
    BY DEF Init, RegisterAll, TaskStates
  <2>2. paused \in BOOLEAN
    BY DEF Init
  <2>3. commands \in 0 .. MaxCommands /\ late \in Nat
    BY MaxCommandsNat DEF Init
  <2>4. control \in Controls /\ resuming \subseteq Handles /\ completed \subseteq Tasks
        /\ todo \subseteq Tasks \ completed /\ executing \subseteq todo
    BY DEF Init
  <2> QED BY <2>1, <2>2, <2>3, <2>4 DEF TypeOK
<1>3. MonitorAgrees
  BY <1>1 DEF Init, MonitorAgrees, RegisterAll
<1>4. OneByOne /\ WaveIsReady /\ LateOnce
  BY DEF Init, RegisterAll, OneByOne, WaveIsReady, LateOnce, AcyclicDependencies, Dependencies
<1> QED BY <1>2, <1>3, <1>4 DEF IInv

(* A step that leaves the tasks alone.                                     *)
LEMMA TasksAlone ==
    ASSUME IInv, UNCHANGED <<input, progress, monitorVars>>, executing = {}
    PROVE  MonitorAgrees' /\ OneByOne' /\ WaveIsReady'
BY DEF IInv, input, progress, monitorVars, MonitorAgrees, OneByOne, WaveIsReady

(* A step of a handle, whatever is executed meanwhile.                     *)
LEMMA TasksAside ==
    ASSUME IInv, UNCHANGED <<input, progress, monitorVars, pc>>
    PROVE  MonitorAgrees' /\ OneByOne' /\ WaveIsReady'
BY DEF IInv, input, progress, monitorVars, MonitorAgrees, OneByOne, WaveIsReady

(* Every step of the executor and of the handles that control it keeps it. *)
LEMMA Inductive == ASSUME IInv, [Next]_vars PROVE IInv'
<1>a. TypeOK /\ MonitorAgrees /\ OneByOne /\ WaveIsReady /\ LateOnce
  BY DEF IInv
<1>b. pc # "tasks" => executing = {}
  BY <1>a DEF OneByOne
<1>1. ASSUME NEW h \in Handles, HandleStep(h) PROVE IInv'
  <2>2. UNCHANGED <<input, progress, monitorVars, pc>>
    BY <1>1 DEF HandleStep, Command, LowerFlag, RestoreControl
  <2>0. /\ control' \in Controls /\ paused' \in BOOLEAN /\ resuming' \subseteq Handles /\ late' \in Nat
        /\ commands' \in 0 .. MaxCommands
    <3>1. paused' \in BOOLEAN
      BY <1>a, <1>1 DEF HandleStep, Command, LowerFlag, RestoreControl, TypeOK
    <3>2. control' \in Controls /\ late' \in Nat
      BY <1>a, <1>1 DEF HandleStep, Command, LowerFlag, RestoreControl, SetControl, TypeOK, Controls
    <3>3. resuming' \subseteq Handles
      BY <1>a, <1>1 DEF HandleStep, Command, LowerFlag, RestoreControl, TypeOK
    <3>4. commands' \in 0 .. MaxCommands
      BY <1>a, <1>1, MaxCommandsNat DEF HandleStep, Command, LowerFlag, RestoreControl, TypeOK
    <3> QED BY <3>1, <3>2, <3>3, <3>4
  <2>1. TypeOK'
    BY <1>a, <2>0, <2>2 DEF TypeOK, progress, monitorVars
  <2>3. LateOnce'
    BY <1>a, <1>1 DEF HandleStep, Command, LowerFlag, RestoreControl, SetControl, LateOnce
  <2> QED BY <2>1, <2>2, <2>3, TasksAside DEF IInv
<1>2. CASE CheckControl \/ RaiseFlag \/ SeeResume \/ LeaveDebugger \/ StoreContinue \/ Prompt \/ ReturnOk
  <2>2. UNCHANGED <<input, progress, monitorVars>> /\ pc # "tasks"
    BY <1>2 DEF CheckControl, RaiseFlag, SeeResume, LeaveDebugger, StoreContinue, Prompt, ReturnOk
  <2>0. /\ control' \in Controls /\ paused' \in BOOLEAN /\ UNCHANGED <<resuming, commands>> /\ late' \in Nat
    <3>1. paused' \in BOOLEAN
      BY <1>a, <1>2 DEF CheckControl, RaiseFlag, SeeResume, LeaveDebugger, StoreContinue, Prompt, ReturnOk, TypeOK, shared
    <3>2. control' \in Controls /\ late' \in Nat
      BY <1>a, <1>2 DEF CheckControl, RaiseFlag, SeeResume, LeaveDebugger, StoreContinue, Prompt, ReturnOk, SetControl,
         TypeOK, Controls, shared
    <3>3. UNCHANGED <<resuming, commands>>
      BY <1>2 DEF CheckControl, RaiseFlag, SeeResume, LeaveDebugger, StoreContinue, Prompt, ReturnOk, shared
    <3> QED BY <3>1, <3>2, <3>3
  <2>1. TypeOK'
    BY <1>a, <2>0, <2>2 DEF TypeOK, progress, monitorVars
  <2>3. LateOnce'
    BY <1>a, <1>2 DEF CheckControl, RaiseFlag, SeeResume, LeaveDebugger, StoreContinue, Prompt, ReturnOk, SetControl,
       LateOnce, TypeOK, Controls, Goto, shared
  <2> QED BY <1>b, <2>1, <2>2, <2>3, TasksAlone DEF IInv
<1>3. CASE BeginWave
  <2> DEFINE ready == Unblocked(Tasks, deps, completed)
  <2>1. /\ pc = "wave" /\ UNCHANGED <<input, shared, completed, executing, hits, fromCache, monitorVars>>
        /\ \/ UNCHANGED <<todo, late>> /\ pc' = "deadlock"
           \/ todo' = ready /\ pc' # "wave" /\ late' = IF control = "continue" THEN 0 ELSE late + 1
    BY <1>3 DEF BeginWave
  <2>2. ready \subseteq Tasks \ completed /\ \A t \in ready : deps[t] \subseteq completed
    BY DEF Unblocked
  <2> HIDE DEF ready
  <2>3. executing = {}
    BY <1>b, <2>1
  <2>4. TypeOK'
    BY <1>a, <2>1, <2>2, <2>3 DEF TypeOK, shared, monitorVars
  <2>5. MonitorAgrees' /\ OneByOne'
    BY <1>a, <2>1, <2>3 DEF MonitorAgrees, OneByOne, monitorVars
  <2>6. WaveIsReady'
    BY <1>a, <2>1, <2>2 DEF WaveIsReady, input, monitorVars
  <2>7. LateOnce'
    BY <1>a, <2>1 DEF LateOnce, shared
  <2> QED BY <2>4, <2>5, <2>6, <2>7 DEF IInv
<1>4. CASE EndWave
  <2>1. pc = "tasks" /\ todo = {} /\ pc' = "check" /\ UNCHANGED <<input, shared, progress, late, monitorVars>>
    BY <1>4 DEF EndWave
  <2>2. executing = {}
    BY <1>a, <2>1 DEF TypeOK
  <2>3. TypeOK' /\ LateOnce'
    BY <1>a, <2>1 DEF TypeOK, LateOnce, input, shared, progress, monitorVars
  <2> QED BY <2>1, <2>2, <2>3, TasksAlone DEF IInv
<1>5. ASSUME NEW t \in Tasks, Skip(t) PROVE IInv'
  <2>1. /\ pc = "tasks" /\ executing = {} /\ todo' = todo \ {t}
        /\ UNCHANGED <<input, shared, completed, executing, hits, fromCache, late, monitorVars, pc>>
    BY <1>5 DEF Skip, AtTask
  <2>2. TypeOK' /\ LateOnce'
    BY <1>a, <2>1 DEF TypeOK, LateOnce, shared, monitorVars
  <2>3. MonitorAgrees' /\ OneByOne'
    BY <1>a, <2>1 DEF MonitorAgrees, OneByOne, monitorVars
  <2>4. WaveIsReady'
    BY <1>a, <2>1 DEF WaveIsReady, input, monitorVars
  <2> QED BY <2>2, <2>3, <2>4 DEF IInv
<1>6. ASSUME NEW t \in Tasks, Execute(t) PROVE IInv'
  <2>1. /\ pc = "tasks" /\ executing = {} /\ t \in todo /\ executing' = {t}
        /\ shown' = [shown EXCEPT ![t] = "running"] /\ timing' = Append(timing, t) /\ UNCHANGED blamed
        /\ UNCHANGED <<input, shared, completed, todo, hits, fromCache, late, pc>>
    BY <1>6 DEF Execute, AtTask, TaskStarted
  <2>2. timing' = <<t>> /\ Len(timing') = 1 /\ timing' \in Seq(Tasks)
    BY <2>1, NobodyTimed
  <2>3. /\ shown' \in [Tasks -> TaskStates] /\ shown'[t] = "running"
        /\ \A u \in Tasks : u # t => shown'[u] = shown[u]
    BY <1>a, <2>1 DEF TypeOK, TaskStates
  <2>4. Cardinality({t}) = 1
    BY FS_Singleton
  <2>5. t \notin completed
    BY <1>a, <2>1 DEF TypeOK
  <2>6. TypeOK'
    BY <1>a, <2>1, <2>2, <2>3 DEF TypeOK, shared
  <2>7. MonitorAgrees'
    <3>1. ASSUME NEW u \in Tasks
          PROVE  /\ shown'[u] = "running" <=> u \in executing'
                 /\ shown'[u] \in {"completed", "cached"} <=> u \in completed'
                 /\ shown'[u] = "failed" => u \in blamed'
                 /\ u \in fromCache' => shown'[u] = "cached"
      BY <1>a, <2>1, <2>3, <2>5 DEF MonitorAgrees, WaveIsReady
    <3>2. Len(timing') = Cardinality(executing') /\ \A i \in 1 .. Len(timing') : timing'[i] \in executing'
      BY <2>1, <2>2, <2>4
    <3> QED BY <3>1, <3>2 DEF MonitorAgrees
  <2>8. OneByOne' /\ WaveIsReady' /\ LateOnce'
    BY <1>a, <2>1, <2>2 DEF OneByOne, WaveIsReady, LateOnce, input, shared
  <2> QED BY <2>6, <2>7, <2>8 DEF IInv
<1>7. ASSUME NEW t \in Tasks, NEW hit \in BOOLEAN, Succeed(t, hit) PROVE IInv'
  <2>1. /\ t \in executing /\ executing' = {} /\ todo' = todo \ {t} /\ completed' = completed \cup {t}
        /\ hits' = (hits \/ hit) /\ fromCache' = IF hit THEN fromCache \cup {t} ELSE fromCache
        /\ shown' = [shown EXCEPT ![t] = IF hits' THEN "cached" ELSE "completed"]
        /\ timing' = SubSeq(timing, 1, Len(timing) - 1) /\ UNCHANGED blamed
        /\ UNCHANGED <<input, shared, late, pc>>
    BY <1>7 DEF Succeed, TaskCompleted
  <2>2. executing = {t} /\ timing = <<t>>
    BY <1>a, <2>1 DEF OneByOne
  <2>3. timing' = << >>
    BY <2>1, <2>2
  <2>4. /\ shown' \in [Tasks -> TaskStates] /\ shown'[t] = IF hits' THEN "cached" ELSE "completed"
        /\ \A u \in Tasks : u # t => shown'[u] = shown[u]
    BY <1>a, <2>1 DEF TypeOK, TaskStates
  <2>5. t \in todo
    BY <1>a, <2>1 DEF TypeOK
  <2>6. TypeOK'
    BY <1>a, <2>1, <2>2, <2>3, <2>4, <2>5 DEF TypeOK, shared
  <2>7. MonitorAgrees'
    <3>1. ASSUME NEW u \in Tasks
          PROVE  /\ shown'[u] = "running" <=> u \in executing'
                 /\ shown'[u] \in {"completed", "cached"} <=> u \in completed'
                 /\ shown'[u] = "failed" => u \in blamed'
                 /\ u \in fromCache' => shown'[u] = "cached"
      <4>1. CASE u = t
        BY <1>a, <2>1, <2>4, <4>1 DEF WaveIsReady
      <4>2. CASE u # t
        BY <1>a, <2>1, <2>2, <2>4, <4>2 DEF MonitorAgrees, WaveIsReady
      <4> QED BY <4>1, <4>2
    <3>2. Len(timing') = Cardinality(executing') /\ \A i \in 1 .. Len(timing') : timing'[i] \in executing'
      <4>1. Len(timing') = 0 /\ Cardinality(executing') = 0
        BY <2>1, <2>3, FS_EmptySet
      <4> QED BY <4>1
    <3> QED BY <3>1, <3>2 DEF MonitorAgrees
  <2>8. WaveIsReady'
    BY <1>a, <2>1 DEF WaveIsReady, input
  <2>9. OneByOne' /\ LateOnce'
    BY <1>a, <2>1 DEF OneByOne, LateOnce, shared
  <2> QED BY <2>6, <2>7, <2>8, <2>9 DEF IInv
<1>8. ASSUME NEW t \in Tasks, Fail(t) PROVE IInv'
  <2>1. /\ t \in executing /\ executing' = {} /\ todo' \subseteq todo
        /\ shown' = [shown EXCEPT ![t] = "failed"] /\ blamed' = blamed \cup {t}
        /\ timing' = FoldLeft(LAMBDA s, u : IF u \in {t} THEN s ELSE Append(s, u), << >>, timing)
        /\ \/ UNCHANGED <<control, late>>
           \/ SetControl("stop")
        /\ pc' \in {"failed", pc}
        /\ UNCHANGED <<input, paused, resuming, commands, completed, hits, fromCache>>
    BY <1>8 DEF Fail, TaskFailed
  <2>2. executing = {t} /\ timing = <<t>>
    BY <1>a, <2>1 DEF OneByOne
  <2>3. timing' = << >>
    <3>1. timing' = Kept(timing, {t}) /\ timing \in Seq({t}) /\ Len(timing) = 1 /\ timing[1] = t
      <4>1. timing' = Kept(timing, {t})
        BY <2>1 DEF Kept
      <4> QED BY <2>2, <4>1
    <3>2. PICK it : /\ it[0] = << >>
                    /\ \A k \in 1 .. Len(timing) :
                          it[k] = IF timing[k] \in {t} THEN it[k - 1] ELSE Append(it[k - 1], timing[k])
                    /\ Kept(timing, {t}) = it[Len(timing)]
      BY <3>1, KeptSteps
    <3>3. it[1] = it[1 - 1]
      BY <3>1, <3>2
    <3> QED BY <3>1, <3>2, <3>3
  <2>4. /\ shown' \in [Tasks -> TaskStates] /\ shown'[t] = "failed"
        /\ \A u \in Tasks : u # t => shown'[u] = shown[u]
    BY <1>a, <2>1 DEF TypeOK, TaskStates
  <2>5. t \in todo
    BY <1>a, <2>1 DEF TypeOK
  <2>6. TypeOK'
    <3>1. control' \in Controls /\ late' \in Nat
      BY <1>a, <2>1 DEF TypeOK, Controls, SetControl
    <3>2. timing' \in Seq(Tasks)
      BY <2>3
    <3> QED BY <1>a, <2>1, <2>4, <3>1, <3>2 DEF TypeOK
  <2>7. MonitorAgrees'
    <3>1. ASSUME NEW u \in Tasks
          PROVE  /\ shown'[u] = "running" <=> u \in executing'
                 /\ shown'[u] \in {"completed", "cached"} <=> u \in completed'
                 /\ shown'[u] = "failed" => u \in blamed'
                 /\ u \in fromCache' => shown'[u] = "cached"
      BY <1>a, <2>1, <2>2, <2>4, <2>5 DEF MonitorAgrees, TypeOK, WaveIsReady
    <3>2. Len(timing') = Cardinality(executing') /\ \A i \in 1 .. Len(timing') : timing'[i] \in executing'
      <4>1. Len(timing') = 0 /\ Cardinality(executing') = 0
        BY <2>1, <2>3, FS_EmptySet
      <4> QED BY <4>1
    <3> QED BY <3>1, <3>2 DEF MonitorAgrees
  <2>8. WaveIsReady'
    BY <1>a, <2>1 DEF WaveIsReady, input
  <2>9. OneByOne' /\ LateOnce'
    BY <1>a, <2>1 DEF OneByOne, LateOnce, SetControl
  <2> QED BY <2>6, <2>7, <2>8, <2>9 DEF IInv
<1>9. CASE UNCHANGED vars
  BY <1>a, <1>9 DEF vars, input, shared, progress, monitorVars, IInv, TypeOK, MonitorAgrees, OneByOne, WaveIsReady,
     LateOnce
<1> QED BY <1>1, <1>2, <1>3, <1>4, <1>5, <1>6, <1>7, <1>8, <1>9 DEF Next, Run, TaskStep

(* What the answers, the monitor and the outcome say of an execution that  *)
(* may be paused, resumed and cancelled at any moment is true.             *)
THEOREM Correct == Spec => []CommandsSound
<1>1. IInv => CommandsSound
  BY DEF IInv, CommandsSound, OneLateWave, LateOnce
<1>2. IInv /\ [Next]_vars => IInv'
  BY Inductive
<1> QED BY <1>1, <1>2, Initially, PTL DEF Spec

-----------------------------------------------------------------------------
(* What has become of the tasks, as Build sees them.                       *)
Statuses == [t \in Tasks |-> Status(t)]

(* Every step is one of Build or leaves what it is about alone.            *)
LEMMA StepsAreBuild == ASSUME IInv, [Next]_vars PROVE [B!Next]_<<deps, Statuses>>
<1>1. TypeOK /\ OneByOne /\ WaveIsReady
  BY DEF IInv
<1>2. ASSUME UNCHANGED <<deps, executing, completed>> PROVE UNCHANGED <<deps, Statuses>>
  BY <1>2 DEF Statuses, Status
<1>3. ASSUME NEW t \in Tasks, Execute(t) PROVE B!Run(t)
  <2>1. /\ executing = {} /\ t \in todo /\ executing' = {t} /\ UNCHANGED <<deps, completed>> /\ t \notin completed
    BY <1>1, <1>3 DEF Execute, AtTask, input, progress, TypeOK
  <2>2. Statuses[t] = "waiting" /\ \A d \in deps[t] : Statuses[d] = "succeeded"
    BY <1>1, <2>1 DEF Statuses, Status, TypeOK, WaveIsReady
  <2>3. Statuses' = [Statuses EXCEPT ![t] = "running"]
    BY <2>1 DEF Statuses, Status
  <2> QED BY <2>1, <2>2, <2>3 DEF B!Run, Statuses
<1>4. ASSUME NEW t \in Tasks, NEW hit \in BOOLEAN, Succeed(t, hit) PROVE B!End(t)
  <2>1. /\ executing = {t} /\ executing' = {} /\ completed' = completed \cup {t} /\ UNCHANGED deps
        /\ t \notin completed
    BY <1>1, <1>4 DEF Succeed, input, OneByOne, TypeOK
  <2>2. Statuses[t] = "running"
    BY <2>1 DEF Statuses, Status
  <2>3. Statuses' = [Statuses EXCEPT ![t] = "succeeded"]
    BY <2>1 DEF Statuses, Status
  <2> QED BY <2>1, <2>2, <2>3 DEF B!End, Statuses
<1>5. ASSUME NEW t \in Tasks, Fail(t) PROVE B!End(t)
  <2>1. /\ executing = {t} /\ executing' = {} /\ UNCHANGED <<completed, deps>> /\ t \notin completed
    BY <1>1, <1>5 DEF Fail, input, OneByOne, TypeOK
  <2>2. Statuses[t] = "running"
    BY <2>1 DEF Statuses, Status
  <2>3. Statuses' = [Statuses EXCEPT ![t] = "waiting"]
    BY <2>1 DEF Statuses, Status
  <2> QED BY <2>1, <2>2, <2>3 DEF B!End, Statuses
<1>6. ASSUME ~ \E t \in Tasks : Execute(t) \/ Fail(t) \/ \E hit \in BOOLEAN : Succeed(t, hit)
      PROVE  UNCHANGED <<deps, executing, completed>>
  BY <1>6 DEF Next, Run, TaskStep, HandleStep, Command, LowerFlag, RestoreControl, CheckControl, RaiseFlag,
     SeeResume, LeaveDebugger, StoreContinue, BeginWave, Prompt, Skip, EndWave, ReturnOk, vars, input, progress
<1> QED BY <1>2, <1>3, <1>4, <1>5, <1>6 DEF B!Next

(* The interactive executor implements Build: it starts a task only when   *)
(* all that it waits for has succeeded, and once.                          *)
THEOREM Refines == Spec => ImplementsBuild
<1>1. Init => B!Init
  BY DEF Init, B!Init, Statuses, Status, AcyclicDependencies, Dependencies
<1>2. IInv /\ [Next]_vars => IInv' /\ [B!Next]_<<deps, Statuses>>
  BY Inductive, StepsAreBuild
<1> QED BY <1>1, <1>2, Initially, PTL DEF Spec, ImplementsBuild, B!Spec, Statuses
=============================================================================
