-------------------------- MODULE SchedulerProofs --------------------------
(***************************************************************************)
(* The safety of the TaskScheduler under an arbitrary client, for every    *)
(* set of tasks and every acyclic dependency relation.                     *)
(***************************************************************************)
EXTENDS Induction, SchedulerClient

(* The analysis gives every task of the graph a priority.                  *)
LEMMA AnalysisDomain ==
    ASSUME NEW analysis \in Analyses(deps)
    PROVE  DOMAIN analysis = DOMAIN deps
BY DEF Analyses, Priorities

(* A batch is a part of the queue whose members neither run nor completed. *)
LEMMA BatchFromQueue ==
    ASSUME NEW limit, NEW batch, GetReadyTasks(limit, batch)
    PROVE  /\ batch \subseteq ready
           /\ batch \cap (completed \cup running) = {}
           /\ ready' \subseteq ready
           /\ ready \ (ready' \cup batch) \subseteq completed \cup running
           /\ running' = running \cup batch
           /\ UNCHANGED <<deps, priority, completed>>
BY DEF GetReadyTasks, Eligible

(* The scheduler's and the client's state keep their types.                *)
THEOREM TypeCorrect == Spec => []TypeOK
<1>1. Init => TypeOK
  BY DEF Init, SchedulerInit, AcyclicDependencies, TypeOK, Dependencies
<1>2. TypeOK /\ [Next]_vars => TypeOK'
  <2> SUFFICES ASSUME TypeOK, [Next]_vars
               PROVE  TypeOK'
    OBVIOUS
  <2> USE DEF TypeOK
  <2>1. CASE DoInitialize
    <3>1. DOMAIN priority' = Tasks
      BY <2>1, AnalysisDomain DEF DoInitialize, Initialize, Dependencies
    <3>2. QED
      BY <2>1, <3>1 DEF DoInitialize, Initialize, NewlyReady, Unblocked
  <2>2. ASSUME NEW limit \in 0..MaxBatch, NEW batch \in SUBSET Tasks, Take(limit, batch)
        PROVE  TypeOK'
    BY <2>2, BatchFromQueue DEF Take
  <2>3. ASSUME NEW t \in Tasks, Start(t)
        PROVE  TypeOK'
    BY <2>3 DEF Start, MarkRunning
  <2>4. ASSUME NEW t \in Tasks, Complete(t)
        PROVE  TypeOK'
    BY <2>4 DEF Complete, MarkCompleted, NewlyReady, Unblocked
  <2>5. ASSUME NEW t \in Tasks, Fail(t)
        PROVE  TypeOK'
    BY <2>5 DEF Fail, MarkFailed
  <2>6. CASE UNCHANGED vars
    BY <2>6 DEF vars, schedulerVars
  <2>7. QED
    BY <2>1, <2>2, <2>3, <2>4, <2>5, <2>6 DEF Next
<1>3. QED
  BY <1>1, <1>2, PTL DEF Spec

(* Whatever the client does, only tasks whose dependencies are completed   *)
(* are queued: mark_failed and mark_running never unblock a dependent.     *)
THEOREM QueueIsSound == Spec => []QueueSound
<1>1. Init => QueueSound
  BY DEF Init, SchedulerInit, QueueSound
<1>2. TypeOK /\ QueueSound /\ [Next]_vars => QueueSound'
  <2> SUFFICES ASSUME TypeOK, QueueSound, [Next]_vars
               PROVE  QueueSound'
    OBVIOUS
  <2> USE DEF QueueSound
  <2>1. CASE DoInitialize
    BY <2>1 DEF DoInitialize, Initialize, NewlyReady, Unblocked
  <2>2. ASSUME NEW limit \in 0..MaxBatch, NEW batch \in SUBSET Tasks, Take(limit, batch)
        PROVE  QueueSound'
    BY <2>2, BatchFromQueue DEF Take
  <2>3. ASSUME NEW t \in Tasks, Start(t) \/ Complete(t) \/ Fail(t)
        PROVE  QueueSound'
    BY <2>3 DEF Start, Complete, Fail, MarkRunning, MarkCompleted, MarkFailed,
                NewlyReady, Unblocked
  <2>4. CASE UNCHANGED vars
    BY <2>4 DEF vars, schedulerVars
  <2>5. QED
    BY <2>1, <2>2, <2>3, <2>4 DEF Next
<1>3. QED
  BY <1>1, <1>2, TypeCorrect, PTL DEF Spec

(* No task is worked on twice at a time or after it completed.  WorkedOnce *)
(* is inductive: the sets it relates are what Eligible compares.           *)
THEOREM TasksAreWorkedOnce == Spec => []WorkedOnce
<1>1. Init => WorkedOnce
  BY DEF Init, WorkedOnce
<1>2. TypeOK /\ WorkedOnce /\ [Next]_vars => WorkedOnce'
  <2> SUFFICES ASSUME TypeOK, WorkedOnce, [Next]_vars
               PROVE  WorkedOnce'
    OBVIOUS
  <2> USE DEF TypeOK, WorkedOnce
  <2>1. CASE DoInitialize
    BY <2>1 DEF DoInitialize, Initialize
  <2>2. ASSUME NEW limit \in 0..MaxBatch, NEW batch \in SUBSET Tasks, Take(limit, batch)
        PROVE  WorkedOnce'
    BY <2>2, BatchFromQueue DEF Take
  <2>3. ASSUME NEW t \in Tasks, Start(t)
        PROVE  WorkedOnce'
    BY <2>3 DEF Start, MarkRunning
  <2>4. ASSUME NEW t \in Tasks, Complete(t)
        PROVE  WorkedOnce'
    BY <2>4 DEF Complete, MarkCompleted
  <2>5. ASSUME NEW t \in Tasks, Fail(t)
        PROVE  WorkedOnce'
    BY <2>5 DEF Fail, MarkFailed
  <2>6. CASE UNCHANGED vars
    BY <2>6 DEF vars, schedulerVars
  <2>7. QED
    BY <2>1, <2>2, <2>3, <2>4, <2>5, <2>6 DEF Next
<1>3. QED
  BY <1>1, <1>2, TypeCorrect, PTL DEF Spec

(* No wake-up is lost.  The entries a pop discards are completed or        *)
(* running, so they need not be in the queue.                              *)
THEOREM NoTaskIsLost == Spec => []NoLostTask
<1>1. Init => NoLostTask
  BY DEF Init, SchedulerInit, NoLostTask, Unblocked
<1>2. TypeOK /\ NoLostTask /\ [Next]_vars => NoLostTask'
  <2> SUFFICES ASSUME TypeOK, NoLostTask, [Next]_vars, DOMAIN priority' = Tasks,
                      NEW u \in Tasks, u \notin completed', deps'[u] \subseteq completed',
                      u \notin running', u \notin ready'
               PROVE  u \in stalled'
    BY DEF NoLostTask, Unblocked
  <2> USE DEF TypeOK, NoLostTask, Unblocked
  <2>1. CASE DoInitialize
    BY <2>1 DEF DoInitialize, Initialize, NewlyReady
  <2>2. ASSUME NEW limit \in 0..MaxBatch, NEW batch \in SUBSET Tasks, Take(limit, batch)
        PROVE  u \in stalled'
    BY <2>2, BatchFromQueue DEF Take
  <2>3. ASSUME NEW t \in Tasks, Start(t)
        PROVE  u \in stalled'
    BY <2>3 DEF Start, MarkRunning
  <2>4. ASSUME NEW t \in Tasks, Complete(t)
        PROVE  u \in stalled'
    BY <2>4 DEF Complete, MarkCompleted, NewlyReady
  <2>5. ASSUME NEW t \in Tasks, Fail(t)
        PROVE  u \in stalled'
    BY <2>5 DEF Fail, MarkFailed
  <2>6. CASE UNCHANGED vars
    BY <2>6 DEF vars, schedulerVars
  <2>7. QED
    BY <2>1, <2>2, <2>3, <2>4, <2>5, <2>6 DEF Next
<1>3. QED
  BY <1>1, <1>2, TypeCorrect, PTL DEF Spec

(* The strengthening behind StatsDoNotWrap: no completed task is running.  *)
Disjoint == completed \cap running = {}

LEMMA CompletedNotRunning == Spec => []Disjoint
<1>1. Init => Disjoint
  BY DEF Init, SchedulerInit, Disjoint
<1>2. TypeOK /\ WorkedOnce /\ Disjoint /\ [Next]_vars => Disjoint'
  <2> SUFFICES ASSUME TypeOK, WorkedOnce, Disjoint, [Next]_vars
               PROVE  Disjoint'
    OBVIOUS
  <2> USE DEF Disjoint
  <2>1. CASE DoInitialize
    BY <2>1 DEF DoInitialize, Initialize
  <2>2. ASSUME NEW limit \in 0..MaxBatch, NEW batch \in SUBSET Tasks, Take(limit, batch)
        PROVE  Disjoint'
    BY <2>2, BatchFromQueue DEF Take
  <2>3. ASSUME NEW t \in Tasks, Start(t) \/ Complete(t) \/ Fail(t)
        PROVE  Disjoint'
    BY <2>3 DEF Start, Complete, Fail, MarkRunning, MarkCompleted, MarkFailed
  <2>4. CASE UNCHANGED vars
    BY <2>4 DEF vars, schedulerVars
  <2>5. QED
    BY <2>1, <2>2, <2>3, <2>4 DEF Next
<1>3. QED
  BY <1>1, <1>2, TypeCorrect, TasksAreWorkedOnce, PTL DEF Spec

(* get_stats subtracts at most as many tasks as have a priority.           *)
THEOREM StatsAreExact == Spec => []StatsDoNotWrap
<1>1. TypeOK /\ Disjoint => StatsDoNotWrap
  <2> SUFFICES ASSUME TypeOK, Disjoint, DOMAIN priority = Tasks
               PROVE  Pending >= 0
    BY DEF StatsDoNotWrap
  <2> DEFINE used == completed \cup running
  <2>1. /\ IsFiniteSet(completed)
        /\ IsFiniteSet(running)
        /\ IsFiniteSet(used)
        /\ Cardinality(used) <= Cardinality(Tasks)
    BY TasksFinite, FS_Subset DEF TypeOK
  <2>2. /\ Cardinality(completed) \in Nat
        /\ Cardinality(running) \in Nat
        /\ Cardinality(Tasks) \in Nat
    BY <2>1, TasksFinite, FS_CardinalityType
  <2>3. Cardinality(used) = Cardinality(completed) + Cardinality(running)
    <3>1. Cardinality(completed \cap running) = 0
      BY FS_EmptySet DEF Disjoint
    <3>2. Cardinality(used) = Cardinality(completed) + Cardinality(running)
                                - Cardinality(completed \cap running)
      BY <2>1, FS_Union
    <3>3. QED
      BY <3>1, <3>2, <2>2
  <2>4. QED
    BY <2>1, <2>2, <2>3 DEF Pending
<1>2. QED
  BY <1>1, TypeCorrect, CompletedNotRunning, PTL

(* A queue with entries was filled from the priority cache.                *)
Analyzed == ready # {} => DOMAIN priority = Tasks

LEMMA QueuedAreAnalyzed == Spec => []Analyzed
<1>1. Init => Analyzed
  BY DEF Init, SchedulerInit, Analyzed
<1>2. TypeOK /\ TypeOK' /\ Analyzed /\ [Next]_vars => Analyzed'
  <2> SUFFICES ASSUME TypeOK, TypeOK', Analyzed, [Next]_vars
               PROVE  Analyzed'
    OBVIOUS
  <2> USE DEF Analyzed
  <2>1. CASE DoInitialize
    <3>1. DOMAIN priority' = Tasks
      BY <2>1, AnalysisDomain DEF DoInitialize, Initialize, TypeOK, Dependencies
    <3>2. QED
      BY <3>1
  <2>2. ASSUME NEW limit \in 0..MaxBatch, NEW batch \in SUBSET Tasks, Take(limit, batch)
        PROVE  Analyzed'
    BY <2>2, BatchFromQueue DEF Take
  <2>3. ASSUME NEW t \in Tasks, Complete(t)
        PROVE  Analyzed'
    BY <2>3 DEF Complete, MarkCompleted, NewlyReady, TypeOK
  <2>4. ASSUME NEW t \in Tasks, Start(t) \/ Fail(t)
        PROVE  Analyzed'
    BY <2>4 DEF Start, Fail, MarkRunning, MarkFailed
  <2>5. CASE UNCHANGED vars
    BY <2>5 DEF vars, schedulerVars
  <2>6. QED
    BY <2>1, <2>2, <2>3, <2>4, <2>5 DEF Next
<1>3. QED
  BY <1>1, <1>2, TypeCorrect, PTL DEF Spec

(* What is handed out is outranked by no task that could run: the heap     *)
(* gives its highest entries, and by NoLostTask it holds all candidates.   *)
THEOREM HighestComesFirst == Spec => HighestFirst
<1> DEFINE First == \A t \in ready \ ready',
                       u \in Unblocked(Tasks, deps, completed) \ (running' \cup stalled) :
                           ~Outranks(priority[u], priority[t])
<1>1. NoLostTask /\ Analyzed /\ [Next]_vars => First
  <2> SUFFICES ASSUME NoLostTask, Analyzed, [Next]_vars PROVE First
    OBVIOUS
  <2>1. ASSUME NEW limit \in 0..MaxBatch, NEW batch \in SUBSET Tasks, Take(limit, batch)
        PROVE  First
    <3> SUFFICES ASSUME NEW t \in ready \ ready',
                        NEW u \in Unblocked(Tasks, deps, completed) \ (running' \cup stalled)
                 PROVE  ~Outranks(priority[u], priority[t])
      OBVIOUS
    <3>1. PICK popped \in SUBSET ready :
            /\ PoppedBy(limit, popped)
            /\ ready' = ready \ popped
            /\ running' = running \cup {v \in popped : Eligible(v)}
      BY <2>1 DEF Take, GetReadyTasks
    <3>2. u \in ready
      BY <3>1 DEF NoLostTask, Analyzed
    <3>3. u \notin popped
      BY <3>1 DEF Eligible, Unblocked
    <3>4. QED
      BY <3>1, <3>2, <3>3 DEF PoppedBy
  <2>2. CASE DoInitialize
    BY <2>2 DEF DoInitialize, Initialize
  <2>3. ASSUME NEW t \in Tasks, Start(t) \/ Complete(t) \/ Fail(t)
        PROVE  First
    BY <2>3 DEF Start, Complete, Fail, MarkRunning, MarkCompleted, MarkFailed
  <2>4. CASE UNCHANGED vars
    BY <2>4 DEF vars, schedulerVars
  <2>5. QED
    BY <2>1, <2>2, <2>3, <2>4 DEF Next
<1>2. QED
  BY <1>1, NoTaskIsLost, QueuedAreAnalyzed, PTL DEF Spec, HighestFirst

-----------------------------------------------------------------------------
(* The least of finitely many consecutive numbers is the first.            *)
LEMMA MinOfInterval ==
    ASSUME NEW k \in Nat, NEW n \in Nat, k <= n
    PROVE  Min(k .. n) = k
<1>1. k \in k .. n /\ \A y \in k .. n : k <= y
  OBVIOUS
<1>2. \A x \in k .. n : (\A y \in k .. n : x <= y) => x = k
  BY <1>1
<1> QED BY <1>1, <1>2 DEF Min

(* The length of the path of the i-th task, given the lengths so far.      *)
WithPathOf(sorted, d, i, len) ==
    [len EXCEPT ![sorted[i]] = 1 + Max({0} \cup {len[x] : x \in d[sorted[i]]})]

(* CriticalLengths goes through the order from its last task to its first. *)
LEMMA PathSteps ==
    ASSUME NEW d \in Dependencies(Tasks), NEW sorted \in Seq(Tasks)
    PROVE  \E it : /\ it[0] = [t \in Tasks |-> 0]
                   /\ \A j \in 1 .. Len(sorted) :
                         it[j] = WithPathOf(sorted, d, Len(sorted) - j + 1, it[j - 1])
                   /\ CriticalLengths(sorted, d) = it[Len(sorted)]
<1> DEFINE n == Len(sorted)
           T == [Tasks -> Nat]
           base == [t \in Tasks |-> 0]
           pick == [A \in SUBSET (1 .. n) |-> Min(A)]
           rule == [p \in (1 .. n) \X T |-> WithPathOf(sorted, d, p[1], p[2])]
           Eqn(f) == f = [s \in SUBSET DOMAIN sorted |->
                            IF s = {} THEN [t \in DOMAIN d |-> 0]
                            ELSE [f[s \ {Min(s)}] EXCEPT ![sorted[Min(s)]] =
                                     1 + Max({0} \cup {f[s \ {Min(s)}][x] : x \in d[sorted[Min(s)]]})]]
           iter == CHOOSE f : Eqn(f)
<1>1. /\ n \in Nat /\ DOMAIN sorted = 1 .. n /\ IsFiniteSet(1 .. n)
      /\ \A k \in 1 .. n : sorted[k] \in Tasks
      /\ DOMAIN d = Tasks /\ base \in T
  BY FS_Interval DEF Dependencies
<1>2. ASSUME NEW A \in SUBSET (1 .. n), A # {}
      PROVE  pick[A] = Min(A) /\ Min(A) \in A
  <2>1. \E x \in A : \A y \in A : x =< y
    <3>1. PICK k \in A : TRUE
      BY <1>2
    <3>2. k \in Nat
      BY <1>1, <3>1
    <3>3. PICK m \in Nat : m \in A /\ m <= k /\ \A i \in 0 .. m - 1 : i \notin A
      BY <3>1, <3>2, LeastNumber
    <3>4. ASSUME NEW y \in A PROVE m =< y
      <4>1. y \in Nat /\ y \notin 0 .. m - 1
        BY <1>1, <3>3, <3>4
      <4> QED BY <3>3, <4>1
    <3> QED BY <3>3, <3>4
  <2> QED BY <2>1 DEF Min
<1>3. ASSUME NEW i \in 1 .. n, NEW len \in T PROVE WithPathOf(sorted, d, i, len) \in T
  <2> DEFINE of == {len[x] : x \in d[sorted[i]]}
             S == {0} \cup of
  <2>1. d[sorted[i]] \subseteq Tasks
    BY <1>1 DEF Dependencies
  <2>2. of \in SUBSET Nat /\ S \in SUBSET Int /\ S # {}
    BY <2>1
  <2>3. IsFiniteSet(S)
    <3>1. IsFiniteSet(d[sorted[i]])
      BY <2>1, TasksFinite, FS_Subset
    <3>2. [x \in d[sorted[i]] |-> len[x]] \in Surjection(d[sorted[i]], of)
      BY DEF Surjection
    <3>3. IsFiniteSet(of)
      BY <3>1, <3>2, FS_Surjection
    <3> QED BY <3>3, FS_Singleton, FS_Union
  <2>4. Max(S) \in S
    <3> HIDE DEF S
    <3> QED BY <2>2, <2>3, MaxOfFinite
  <2>5. S \subseteq Nat
    BY <2>2
  <2>6. 1 + Max(S) \in Nat
    <3> DEFINE m == Max(S)
    <3>1. m \in Nat
      BY <2>4, <2>5
    <3> HIDE DEF m
    <3>2. 1 + m \in Nat
      BY <3>1
    <3> QED BY <3>2 DEF m
  <2> QED BY <2>6 DEF WithPathOf
<1>4. rule \in [(1 .. n) \X T -> T]
  <2> HIDE DEF T
  <2> QED BY <1>3
<1>5. \E f : Eqn(f)
  <2> DEFINE X == 1 .. n
  <2>1. Chooses(pick, X)
    <3> HIDE DEF pick
    <3> QED BY <1>2 DEF Chooses
  <2>2. IsFiniteSet(X) /\ rule \in [X \X T -> T] /\ base \in T
    BY <1>1, <1>4
  <2>3. PICK f \in [SUBSET X -> T] : Recurs(f, X, base, pick, rule)
    <3> HIDE DEF pick, rule, n, X, T, base
    <3> QED BY <2>1, <2>2, FiniteRecursion
  <2>4. ASSUME NEW A \in SUBSET X, A # {}
        PROVE  f[A] = WithPathOf(sorted, d, Min(A), f[A \ {Min(A)}])
    <3>1. pick[A] = Min(A) /\ Min(A) \in 1 .. n /\ f[A \ {Min(A)}] \in T
      BY <1>2, <2>3, <2>4
    <3>2. f[A] = rule[<<pick[A], f[A \ {pick[A]}]>>]
      BY <2>3, <2>4 DEF Recurs
    <3> HIDE DEF pick, T
    <3> QED BY <3>1, <3>2
  <2>5. f[{}] = base
    BY <2>3 DEF Recurs
  <2>6. Eqn(f)
    <3> HIDE DEF pick, rule
    <3> QED BY <1>1, <2>3, <2>4, <2>5 DEF WithPathOf
  <2> QED BY <2>6
<1>6. Eqn(iter)
  <2> HIDE DEF Eqn
  <2> QED BY <1>5
<1>7. CriticalLengths(sorted, d) = iter[DOMAIN sorted]
  BY DEF CriticalLengths, FoldRight, MapThenFoldSet
<1> HIDE DEF iter
<1> DEFINE it == [j \in 0 .. n |-> iter[n - j + 1 .. n]]
<1>8. it[0] = [t \in Tasks |-> 0]
  <2>1. n - 0 + 1 .. n = {}
    BY <1>1
  <2>2. it[0] = iter[{}]
    BY <1>1, <2>1
  <2> HIDE DEF it
  <2> QED BY <1>1, <1>6, <2>2
<1>9. ASSUME NEW j \in 1 .. n
      PROVE  it[j] = WithPathOf(sorted, d, n - j + 1, it[j - 1])
  <2> DEFINE k == n - j + 1
             A == k .. n
  <2>1. k \in 1 .. n /\ k \in Nat /\ k <= n /\ A \in SUBSET (1 .. n) /\ A # {}
    BY <1>1
  <2>2. Min(A) = k
    <3> HIDE DEF k
    <3> QED BY <1>1, <2>1, MinOfInterval
  <2>3. A \ {k} = k + 1 .. n
    BY <1>1
  <2>4. it[j] = iter[A] /\ it[j - 1] = iter[k + 1 .. n]
    <3>1. j \in 0 .. n /\ j - 1 \in 0 .. n /\ n - (j - 1) + 1 = k + 1
      BY <1>1
    <3> HIDE DEF k
    <3>2. it[j] = iter[n - j + 1 .. n]
      BY <3>1
    <3> QED BY <3>1, <3>2 DEF k
  <2> HIDE DEF k, A, it
  <2>5. iter[A] = WithPathOf(sorted, d, k, iter[A \ {k}])
    <3>1. iter[A] = [iter[A \ {Min(A)}] EXCEPT ![sorted[Min(A)]] =
                         1 + Max({0} \cup {iter[A \ {Min(A)}][x] : x \in d[sorted[Min(A)]]})]
      <4>1. A \in SUBSET DOMAIN sorted /\ A # {}
        BY <1>1, <2>1
      <4> QED BY <1>6, <4>1
    <3> QED BY <2>2, <3>1 DEF WithPathOf
  <2> QED BY <2>3, <2>4, <2>5 DEF k
<1>10. CriticalLengths(sorted, d) = it[n]
  <2>1. n - n + 1 .. n = 1 .. n
    BY <1>1
  <2> QED BY <1>1, <1>7, <2>1
<1> HIDE DEF it
<1> QED BY <1>8, <1>9, <1>10

(* An order of the tasks has each of them once, dependencies first.        *)
LEMMA OrderFacts ==
    ASSUME NEW d \in Dependencies(Tasks), NEW sorted \in TopologicalOrders(d)
    PROVE  /\ sorted \in Seq(Tasks) /\ ToSet(sorted) = Tasks
           /\ \A i, j \in 1 .. Len(sorted) : i # j => sorted[i] # sorted[j]
           /\ \A i, j \in 1 .. Len(sorted) : sorted[j] \in d[sorted[i]] => j < i
<1>1. sorted \in SetToSeqs(Tasks) /\ \A i, j \in DOMAIN sorted : sorted[j] \in d[sorted[i]] => j < i
  BY DEF TopologicalOrders, Dependencies
<1>2. /\ sorted \in Seq(Tasks) /\ ToSet(sorted) = Tasks
      /\ \A i, j \in DOMAIN sorted : i # j => sorted[i] # sorted[j]
  BY <1>1, TasksFinite, OrderCovers
<1>3. DOMAIN sorted = 1 .. Len(sorted)
  BY <1>2
<1> QED BY <1>1, <1>2, <1>3

(* The pass handles every task before its dependencies, so each finds      *)
(* lengths of 0 and gets 1, whatever the order and the graph.              *)
LEMMA LengthsAreOne ==
    ASSUME NEW d \in Dependencies(Tasks), NEW sorted \in TopologicalOrders(d)
    PROVE  CriticalLengths(sorted, d) = [t \in Tasks |-> 1]
<1> DEFINE n == Len(sorted)
           Done(j) == {sorted[i] : i \in n - j + 1 .. n}
<1>1. /\ n \in Nat /\ \A i \in 1 .. n : sorted[i] \in Tasks
      /\ \A t \in Tasks : \E i \in 1 .. n : sorted[i] = t
      /\ \A i, j \in 1 .. n : i # j => sorted[i] # sorted[j]
      /\ \A i, j \in 1 .. n : sorted[j] \in d[sorted[i]] => j < i
  BY OrderFacts DEF ToSet
<1>2. PICK it : /\ it[0] = [t \in Tasks |-> 0]
                /\ \A j \in 1 .. n : it[j] = WithPathOf(sorted, d, n - j + 1, it[j - 1])
                /\ CriticalLengths(sorted, d) = it[n]
  BY PathSteps, OrderFacts
<1> DEFINE Good == {j \in Nat : j <= n => it[j] = [t \in Tasks |-> IF t \in Done(j) THEN 1 ELSE 0]}
<1>3. 0 \in Good
  <2>1. Done(0) = {}
    BY <1>1
  <2> QED BY <1>2, <2>1
<1>4. ASSUME NEW j \in Nat, j \in Good PROVE j + 1 \in Good
  <2>1. SUFFICES ASSUME j + 1 <= n
                 PROVE  it[j + 1] = [t \in Tasks |-> IF t \in Done(j + 1) THEN 1 ELSE 0]
    OBVIOUS
  <2> DEFINE k == n - j
             len == it[j]
             u == sorted[k]
  <2>2. k \in 1 .. n /\ j + 1 \in 1 .. n /\ n - (j + 1) + 1 = k /\ n - j + 1 = k + 1 /\ (j + 1) - 1 = j
    BY <1>1, <2>1
  <2>3. len = [t \in Tasks |-> IF t \in Done(j) THEN 1 ELSE 0]
    BY <1>1, <1>4, <2>1
  <2>4. it[j + 1] = WithPathOf(sorted, d, k, len)
    BY <1>2, <2>2
  <2>5. Done(j) = {sorted[i] : i \in k + 1 .. n} /\ Done(j + 1) = {sorted[i] : i \in k .. n}
    BY <2>2
  <2> HIDE DEF k, len
  <2>6. Done(j + 1) = Done(j) \cup {u} /\ u \in Tasks
    BY <1>1, <2>2, <2>5
  <2>7. ASSUME NEW x \in d[u] PROVE len[x] = 0
    <3>1. x \in Tasks
      BY <1>1, <2>2, <2>7 DEF Dependencies
    <3>2. PICK m \in 1 .. n : sorted[m] = x
      BY <1>1, <3>1
    <3>3. m < k
      BY <1>1, <2>2, <2>7, <3>2
    <3>4. x \notin Done(j)
      BY <1>1, <2>2, <2>5, <3>2, <3>3
    <3> QED BY <2>3, <3>1, <3>4
  <2>8. {0} \cup {len[x] : x \in d[u]} = {0}
    BY <2>7
  <2>9. Max({0}) = 0
    BY DEF Max
  <2>10. it[j + 1] = [len EXCEPT ![u] = 1]
    <3>1. it[j + 1] = [len EXCEPT ![u] = 1 + Max({0} \cup {len[x] : x \in d[u]})]
      BY <2>4 DEF WithPathOf
    <3>2. 1 + Max({0} \cup {len[x] : x \in d[u]}) = 1
      BY <2>8, <2>9
    <3> QED BY <3>1, <3>2
  <2> QED BY <2>3, <2>6, <2>10
<1>5. Nat \subseteq Good
  <2> HIDE DEF Good
  <2> QED BY <1>3, <1>4, SetInduction
<1>6. it[n] = [t \in Tasks |-> IF t \in Done(n) THEN 1 ELSE 0]
  <2>1. n \in Nat /\ n <= n
    BY <1>1
  <2>2. n \in Good
    BY <1>5, <2>1
  <2> HIDE DEF n, Done
  <2> QED BY <2>1, <2>2
<1>7. \A t \in Tasks : t \in Done(n)
  <2>1. n - n + 1 = 1
    BY <1>1
  <2> QED BY <1>1, <2>1
<1> QED BY <1>2, <1>6, <1>7

(* The one analysis of a graph.                                            *)
TheAnalysis(d) == [t \in Tasks |-> [critical |-> 1, dependents |-> DependentCount(t, d)]]

(* Before the first initialize there are no priorities, and after it those *)
(* of the one analysis.                                                    *)
PathsAreOne == priority = << >> \/ priority = TheAnalysis(deps)

(* No critical path is longer than 1, so the number of dependents alone    *)
(* decides which task is handed out first, in every graph.                 *)
THEOREM PathsAreAlwaysOne == Spec => []PathsAreOne
<1>1. Init => PathsAreOne
  BY DEF Init, SchedulerInit, PathsAreOne
<1>2. TypeOK /\ PathsAreOne /\ [Next]_vars => PathsAreOne'
  <2> SUFFICES ASSUME TypeOK, PathsAreOne, [Next]_vars PROVE PathsAreOne'
    OBVIOUS
  <2>1. CASE DoInitialize
    <3>1. priority' \in Analyses(deps) /\ deps' = deps /\ deps \in Dependencies(Tasks)
      BY <2>1 DEF DoInitialize, Initialize, TypeOK
    <3>2. PICK sorted \in TopologicalOrders(deps) : priority' = Priorities(sorted, deps)
      BY <3>1 DEF Analyses
    <3>3. CriticalLengths(sorted, deps) = [t \in Tasks |-> 1] /\ DOMAIN deps = Tasks
      BY <3>1, LengthsAreOne DEF Dependencies
    <3>4. priority' = TheAnalysis(deps)
      BY <3>2, <3>3 DEF Priorities, TheAnalysis
    <3> QED BY <3>1, <3>4 DEF PathsAreOne
  <2>2. CASE UNCHANGED <<deps, priority>>
    BY <2>2 DEF PathsAreOne
  <2>3. ASSUME NEW limit \in 0..MaxBatch, NEW batch \in SUBSET Tasks, Take(limit, batch)
        PROVE  UNCHANGED <<deps, priority>>
    BY <2>3, BatchFromQueue DEF Take
  <2>4. ASSUME NEW t \in Tasks, Start(t) \/ Complete(t) \/ Fail(t)
        PROVE  UNCHANGED <<deps, priority>>
    BY <2>4 DEF Start, Complete, Fail, MarkRunning, MarkCompleted, MarkFailed
  <2>5. CASE UNCHANGED vars
    BY <2>2, <2>5 DEF vars, schedulerVars
  <2> QED BY <2>1, <2>2, <2>3, <2>4, <2>5 DEF Next
<1>3. QED
  BY <1>1, <1>2, TypeCorrect, PTL DEF Spec

(* A second initialize finds the priorities that the first one found,      *)
(* whatever order the HashMaps are iterated in.                            *)
THEOREM PrioritiesAreStable == Spec => StablePriorities
<1>1. PathsAreOne /\ PathsAreOne' /\ TypeOK' /\ [Next]_vars => (priority # << >> => priority' = priority)
  <2> SUFFICES ASSUME PathsAreOne, PathsAreOne', TypeOK', [Next]_vars, priority # << >>
               PROVE  priority' = priority
    OBVIOUS
  <2>1. CASE DoInitialize
    <3>1. priority' \in Analyses(deps) /\ deps' = deps
      BY <2>1 DEF DoInitialize, Initialize
    <3>2. DOMAIN priority' = Tasks
      BY <3>1, AnalysisDomain DEF TypeOK, Dependencies
    <3>3. priority = TheAnalysis(deps) /\ DOMAIN priority = Tasks
      BY DEF PathsAreOne, TheAnalysis
    <3>4. Tasks # {}
      BY <3>3 DEF TheAnalysis
    <3>5. priority' # << >>
      BY <3>2, <3>4
    <3> QED BY <3>1, <3>3, <3>5 DEF PathsAreOne
  <2>2. ASSUME NEW limit \in 0..MaxBatch, NEW batch \in SUBSET Tasks, Take(limit, batch)
        PROVE  priority' = priority
    BY <2>2, BatchFromQueue DEF Take
  <2>3. ASSUME NEW t \in Tasks, Start(t) \/ Complete(t) \/ Fail(t)
        PROVE  priority' = priority
    BY <2>3 DEF Start, Complete, Fail, MarkRunning, MarkCompleted, MarkFailed
  <2>4. CASE UNCHANGED vars
    BY <2>4 DEF vars, schedulerVars
  <2> QED BY <2>1, <2>2, <2>3, <2>4 DEF Next
<1>2. QED
  BY <1>1, PathsAreAlwaysOne, TypeCorrect, PTL DEF Spec, StablePriorities

(* The invariants together, for every graph and every client.              *)
THEOREM SchedulerIsSound == Spec => []SchedulerSound
<1>1. TypeOK /\ QueueSound /\ WorkedOnce /\ NoLostTask /\ StatsDoNotWrap => SchedulerSound
  BY DEF SchedulerSound
<1>2. QED
  BY <1>1, TypeCorrect, QueueIsSound, TasksAreWorkedOnce, NoTaskIsLost, StatsAreExact, PTL
=============================================================================
