------------------------- MODULE PreparationProofs --------------------------
(***************************************************************************)
(* What goes before the execution of a build, for every finite set of      *)
(* tasks, recipes, files and nodes. The sort of build_full_graph returns a *)
(* topological order or reports a cycle, which there then is; the loop     *)
(* over an order implements Build; what is selected for a target can be    *)
(* executed; the walks over recipes and kas files return what they are     *)
(* asked for, dependencies first; the sort of the DAG library fails for    *)
(* parallel edges only; and the resolver of includes answers every recipe  *)
(* as if it were its first.                                                *)
(***************************************************************************)
EXTENDS Induction, MCPreparation

(* The first queue holds each task of degree 0 once.                       *)
LEMMA Enumerating ==
    ASSUME NEW S \in SUBSET Tasks, NEW s \in SetToSeqs(S)
    PROVE  s \in Seq(Tasks) /\ ToSet(s) = S /\ IsInjective(s)
<1>1. IsFiniteSet(S) /\ Cardinality(S) \in Nat
  BY TasksFinite, FS_Subset, FS_CardinalityType
<1> DEFINE D == 1..Cardinality(S)
<1>2. s \in [D -> S] /\ \A i, j \in D : i # j => s[i] # s[j]
  BY DEF SetToSeqs
<1>3. s \in Injection(D, S)
  BY <1>2 DEF Injection, IsInjective
<1>4. IsFiniteSet(D) /\ Cardinality(D) = Cardinality(S)
  BY <1>1, FS_Interval
<1>5. s \in Surjection(D, S)
  BY <1>1, <1>3, <1>4, FS_Injection
<1>6. ToSet(s) = S /\ IsInjective(s)
  BY <1>2, <1>3, <1>5 DEF Surjection, Injection, ToSet
<1>7. s \in Seq(Tasks)
  BY <1>1, <1>2, SeqDef
<1>8. QED
  BY <1>6, <1>7

-----------------------------------------------------------------------------
(* Counting gives every task the number of its mentions, and queues those  *)
(* that have none.                                                         *)
LEMMA InvCount ==
    ASSUME IInv, Count
    PROVE  IInv'
<1> USE DEF IInv, Count
<1>1. pc = "count" /\ result = << >> /\ todo = {} /\ Placed = {}
  BY DEF Fresh, Placed, ToSet
<1>2. \A t \in Tasks : in_degree'[t] \in Nat
  BY MentionsFinite, FS_Subset, FS_CardinalityType DEF Degrees
<1>3. /\ queue' \in Seq(Tasks) /\ IsInjective(queue')
      /\ Queued' = {t \in Tasks : in_degree'[t] = 0}
  BY Enumerating DEF Queued
<1>4. TypeOK'
  BY <1>2, <1>3 DEF TypeOK, graphVars, Degrees
<1>5. Placed' = {} /\ todo' = {} /\ result' = << >> /\ pc' = "sort"
  BY <1>1 DEF Placed
<1>6. DegreeExact'
  <2>1. \A t \in Tasks : Unplaced(t)' = {m \in Mentions : dependent[m] = t}
    BY <1>5 DEF Unplaced, graphVars
  <2>2. QED
    BY <1>5, <2>1 DEF DegreeExact, Degrees
<1>7. ListedWhenFree' /\ ListedOnce' /\ TodoPlaced'
  BY <1>1, <1>3, <1>5 DEF ListedWhenFree, ListedOnce, TodoPlaced, IsInjective
<1>8. Fresh' /\ OrderIsTopological' /\ Ended'
  BY <1>5, EmptySeq DEF Fresh, OrderIsTopological, Ended
<1>9. QED
  BY <1>4, <1>6, <1>7, <1>8

(* A task that is popped has no mention left that is not placed, so it may *)
(* stand behind all that stand in the order already.                       *)
LEMMA InvPop ==
    ASSUME IInv, Pop
    PROVE  IInv'
<1> USE DEF IInv, Pop
<1> DEFINE t == Head(queue)
<1>1. /\ t \in Tasks /\ queue' \in Seq(Tasks)
      /\ Queued = Queued' \cup {t} /\ t \notin Queued' /\ IsInjective(queue')
  BY Popping DEF TypeOK, ListedOnce, Queued
<1>2. t \notin Placed
  BY <1>1 DEF ListedOnce
<1>3. /\ result' \in Seq(Tasks)
      /\ Len(result') = Len(result) + 1
      /\ \A i \in 1..Len(result) : result'[i] = result[i]
      /\ result'[Len(result) + 1] = t
      /\ Placed' = Placed \cup {t} /\ IsInjective(result')
  BY <1>1, <1>2, Appending DEF TypeOK, ListedOnce, Placed
<1>4. TypeOK'
  BY <1>1, <1>3 DEF TypeOK, graphVars
<1>5. \A u \in Tasks : Unplaced(u)' = Unplaced(u)
  BY <1>2, <1>3 DEF Unplaced, graphVars
<1>6. DegreeExact'
  BY <1>5 DEF DegreeExact
<1>7. ListedWhenFree' /\ ListedOnce' /\ TodoPlaced' /\ Fresh' /\ Ended'
  BY <1>1, <1>2, <1>3 DEF ListedWhenFree, ListedOnce, TodoPlaced, Fresh, Ended, graphVars
<1>8. \A m \in Mentions : dependent[m] = t => dependency[m] \in Placed
  <2>1. in_degree[t] = 0 /\ in_degree[t] = Cardinality(Unplaced(t))
    BY <1>1 DEF ListedWhenFree, DegreeExact
  <2>2. IsFiniteSet(Unplaced(t))
    BY MentionsFinite, FS_Subset DEF Unplaced
  <2>3. Unplaced(t) = {}
    BY <2>1, <2>2, FS_EmptySet
  <2>4. QED
    BY <2>3 DEF Unplaced
<1>9. OrderIsTopological'
  <2>1. Len(result) \in Nat /\ DOMAIN result = 1..Len(result)
    BY LenProperties DEF TypeOK
  <2>2. ASSUME NEW j \in 1..Len(result')
        PROVE  /\ \A i \in 1..(j - 1) : result'[i] # result'[j]
               /\ \A m \in Mentions : dependent'[m] = result'[j] =>
                      \E i \in 1..(j - 1) : result'[i] = dependency'[m]
    <3>1. CASE j \in 1..Len(result)
      <4>1. \A i \in 1..(j - 1) : i \in 1..Len(result)
        BY <2>1, <3>1
      <4>2. /\ result'[j] = result[j] /\ \A i \in 1..(j - 1) : result'[i] = result[i]
            /\ dependent' = dependent /\ dependency' = dependency
        BY <1>3, <3>1, <4>1 DEF graphVars
      <4>3. /\ \A i \in 1..(j - 1) : result[i] # result[j]
            /\ \A m \in Mentions : dependent[m] = result[j] =>
                   \E i \in 1..(j - 1) : result[i] = dependency[m]
        BY <3>1 DEF OrderIsTopological
      <4>4. QED
        BY <4>2, <4>3
    <3>2. CASE j = Len(result) + 1
      <4>1. \A i \in 1..(j - 1) : result'[i] \in Placed
        BY <1>3, <2>1, <3>2 DEF Placed, ToSet
      <4>2. \A u \in Placed : \E i \in 1..(j - 1) : result'[i] = u
        BY <1>3, <2>1, <3>2 DEF Placed, ToSet
      <4>3. result'[j] = t /\ dependent' = dependent /\ dependency' = dependency
        BY <1>3, <3>2 DEF graphVars
      <4>4. \A i \in 1..(j - 1) : result'[i] # result'[j]
        BY <1>2, <4>1, <4>3
      <4>5. ASSUME NEW m \in Mentions, dependent'[m] = result'[j]
            PROVE  \E i \in 1..(j - 1) : result'[i] = dependency'[m]
        <5>1. dependency[m] \in Placed
          BY <1>8, <4>3, <4>5
        <5>2. QED
          BY <4>2, <4>3, <5>1
      <4>6. QED
        BY <4>4, <4>5
    <3>3. QED
      BY <1>3, <2>1, <3>1, <3>2
  <2>3. QED
    BY <2>2 DEF OrderIsTopological
<1>10. QED
  BY <1>4, <1>6, <1>7, <1>9

(* One mention less, and with the last one the task joins the queue.       *)
LEMMA InvRelease ==
    ASSUME IInv, NEW m \in Mentions, Release(m)
    PROVE  IInv'
<1> USE DEF IInv, Release
<1> DEFINE t == dependent[m]
<1>1. /\ t \in Tasks /\ m \in todo /\ dependency[m] \in Placed
      /\ pc # "count" /\ pc' = pc /\ UNCHANGED <<dependent, dependency, result>>
      /\ Placed' = Placed
  BY DEF TypeOK, TodoPlaced, Fresh, graphVars, Placed
<1>2. /\ Unplaced(t)' = Unplaced(t) \ {m} /\ m \in Unplaced(t)
      /\ \A u \in Tasks : u # t => Unplaced(u)' = Unplaced(u)
  BY <1>1 DEF Unplaced
<1>3. \A u \in Tasks : IsFiniteSet(Unplaced(u)) /\ Cardinality(Unplaced(u)) \in Nat
  BY MentionsFinite, FS_Subset, FS_CardinalityType DEF Unplaced
<1>4. /\ Cardinality(Unplaced(t)') = Cardinality(Unplaced(t)) - 1
      /\ Cardinality(Unplaced(t)') \in Nat
  <2>1. Cardinality(Unplaced(t) \ {m}) = Cardinality(Unplaced(t)) - 1
    BY <1>1, <1>2, <1>3, FS_RemoveElement
  <2>2. Cardinality(Unplaced(t) \ {m}) \in Nat
    BY <1>1, <1>3, FS_RemoveElement, FS_CardinalityType
  <2>3. QED
    BY <1>2, <2>1, <2>2
<1>5. /\ \A u \in Tasks : in_degree[u] = Cardinality(Unplaced(u))
      /\ in_degree' = [in_degree EXCEPT ![t] = in_degree[t] - 1]
      /\ in_degree \in [Tasks -> Nat]
  BY <1>1 DEF DegreeExact, TypeOK
<1>6. in_degree'[t] = in_degree[t] - 1 /\ in_degree'[t] \in Nat
  BY <1>1, <1>4, <1>5
<1>7. DegreeExact'
  BY <1>1, <1>2, <1>4, <1>5, <1>6 DEF DegreeExact
<1>8. t \notin Queued \cup Placed
  BY <1>1, <1>5, <1>6 DEF ListedWhenFree
<1>9. /\ queue' \in Seq(Tasks)
      /\ Queued' = IF in_degree'[t] = 0 THEN Queued \cup {t} ELSE Queued
      /\ IsInjective(queue')
  <2>1. queue \in Seq(Tasks) /\ IsInjective(queue) /\ t \notin ToSet(queue)
    BY <1>8 DEF TypeOK, ListedOnce, Queued
  <2>2. /\ Append(queue, t) \in Seq(Tasks) /\ IsInjective(Append(queue, t))
        /\ ToSet(Append(queue, t)) = ToSet(queue) \cup {t}
    BY <1>1, <2>1, Appending
  <2>3. QED
    BY <2>1, <2>2 DEF Queued
<1>10. TypeOK'
  BY <1>1, <1>5, <1>6, <1>9 DEF TypeOK
<1>11. ListedWhenFree'
  BY <1>1, <1>5, <1>6, <1>8, <1>9 DEF ListedWhenFree
<1>12. ListedOnce' /\ TodoPlaced'
  BY <1>1, <1>8, <1>9 DEF ListedOnce, TodoPlaced
<1>13. OrderIsTopological'
  BY <1>1 DEF OrderIsTopological
<1>14. Fresh' /\ Ended'
  BY <1>1 DEF Fresh, Ended
<1>15. QED
  BY <1>7, <1>10, <1>11, <1>12, <1>13, <1>14

(* The invariant of the sort holds throughout.                             *)
THEOREM Invariance == Spec => []IInv
<1>1. Init => IInv
  BY EmptySeq DEF Init, IInv, TypeOK, Fresh, DegreeExact, ListedWhenFree, ListedOnce,
         TodoPlaced, OrderIsTopological, Ended, Queued, Placed, ToSet, IsInjective
<1>2. IInv /\ [Next]_vars => IInv'
  <2> SUFFICES ASSUME IInv, [Next]_vars
               PROVE  IInv'
    OBVIOUS
  <2>1. CASE Return
    <3>1. /\ pc = "sort" /\ todo = {} /\ queue = << >>
          /\ UNCHANGED <<dependent, dependency, in_degree, queue, result, todo>>
          /\ pc' = IF Len(result) # Cardinality(Tasks) THEN "cycle" ELSE "ok"
      BY <2>1 DEF Return, graphVars
    <3>2. TypeOK' /\ Fresh' /\ Ended'
      BY <3>1 DEF IInv, TypeOK, Fresh, Ended
    <3>3. DegreeExact' /\ ListedWhenFree'
      BY <3>1 DEF IInv, DegreeExact, ListedWhenFree, Unplaced, Queued, Placed
    <3>4. ListedOnce' /\ TodoPlaced' /\ OrderIsTopological'
      BY <3>1 DEF IInv, ListedOnce, TodoPlaced, OrderIsTopological, Queued, Placed
    <3>5. QED
      BY <3>2, <3>3, <3>4 DEF IInv
  <2>2. CASE UNCHANGED vars
    BY <2>2 DEF vars, IInv, TypeOK, Fresh, DegreeExact, ListedWhenFree, ListedOnce,
                TodoPlaced, OrderIsTopological, Ended, Unplaced, Queued, Placed
  <2>3. QED
    BY <2>1, <2>2, InvCount, InvPop, InvRelease DEF Next, Sort, Finished
<1>3. QED
  BY <1>1, <1>2, PTL DEF Spec

(* Types; no degree ever drops below 0.                                    *)
THEOREM TypeCorrect == Spec => []TypeOK
<1>1. IInv => TypeOK
  BY DEF IInv
<1>2. QED
  BY <1>1, Invariance, PTL

(* Every task stands behind its dependencies, and once.                    *)
THEOREM OrderCorrect == Spec => []OrderIsTopological
<1>1. IInv => OrderIsTopological
  BY DEF IInv
<1>2. QED
  BY <1>1, Invariance, PTL

-----------------------------------------------------------------------------
(* Of the tasks of a set, the first one in a topological order has no      *)
(* dependency in the set.                                                  *)
LEMMA OrderedIsAcyclic ==
    ASSUME IInv, Placed = Tasks
    PROVE  Acyclic(deps)
<1> SUFFICES ASSUME NEW S \in SUBSET Tasks, S # {}
             PROVE  \E t \in S : deps[t] \cap S = {}
  BY DEF Acyclic, deps
<1>1. Len(result) \in Nat /\ DOMAIN result = 1..Len(result)
  BY LenProperties DEF IInv, TypeOK
<1> DEFINE At == {i \in 1..Len(result) : result[i] \in S}
<1>2. At # {} /\ At \subseteq Nat
  BY <1>1 DEF Placed, ToSet
<1>3. PICK j \in At : \A i \in At : ~(<<i, j>> \in OpToRel(<, Nat))
  BY <1>2, NatLessThanWellFounded, WFMin
<1>4. \A i \in At : ~(i < j)
  BY <1>2, <1>3 DEF OpToRel
<1>5. deps[result[j]] \cap S = {}
  <2> SUFFICES ASSUME NEW m \in Mentions, dependent[m] = result[j], dependency[m] \in S
               PROVE  FALSE
    BY DEF deps, DepsOf
  <2>1. PICK i \in 1..(j - 1) : result[i] = dependency[m]
    BY <1>1 DEF IInv, OrderIsTopological
  <2>2. i \in At /\ i < j
    BY <1>1, <2>1
  <2>3. QED
    BY <1>4, <2>2
<1>6. QED
  BY <1>5

(* When nothing is queued, every task that was left out depends on one.    *)
LEMMA LeftOutIsCyclic ==
    ASSUME IInv, pc # "count", todo = {}, queue = << >>, Placed # Tasks
    PROVE  ~Acyclic(deps)
<1> DEFINE S == Tasks \ Placed
<1>1. S # {} /\ S \subseteq DOMAIN deps
  <2>1. Placed \subseteq Tasks
    BY LenProperties DEF IInv, TypeOK, Placed, ToSet
  <2>2. QED
    BY <2>1 DEF deps
<1>2. ASSUME NEW t \in S
      PROVE  deps[t] \cap S # {}
  <2>1. in_degree[t] # 0 /\ in_degree[t] = Cardinality(Unplaced(t))
    BY DEF IInv, ListedWhenFree, DegreeExact, Queued, ToSet
  <2>2. Unplaced(t) # {}
    BY <2>1, FS_EmptySet
  <2>3. PICK m \in Mentions : dependent[m] = t /\ dependency[m] \notin Placed
    BY <2>2 DEF Unplaced
  <2>4. dependency[m] \in deps[t] \cap S
    BY <2>3 DEF deps, DepsOf, IInv, TypeOK
  <2>5. QED
    BY <2>4
<1>3. QED
  BY <1>1, <1>2 DEF Acyclic

(* The cycle error is given exactly for the relations that have a cycle.   *)
THEOREM CycleReportCorrect == Spec => []CycleReportIsRight
<1>1. IInv => CycleReportIsRight
  <2> SUFFICES ASSUME IInv
               PROVE  CycleReportIsRight
    OBVIOUS
  <2>1. Len(result) = Cardinality(Tasks) <=> Placed = Tasks
    BY TasksFinite, LengthCounts DEF IInv, TypeOK, ListedOnce, Placed
  <2>2. ASSUME pc = "ok"
        PROVE  Acyclic(deps)
    BY <2>1, <2>2, OrderedIsAcyclic DEF IInv, Ended
  <2>3. ASSUME pc = "cycle"
        PROVE  ~Acyclic(deps)
    BY <2>1, <2>3, LeftOutIsCyclic DEF IInv, Ended
  <2>4. QED
    BY <2>2, <2>3 DEF CycleReportIsRight
<1>2. QED
  BY <1>1, Invariance, PTL

(* The sort is right on every relation, listed in whatever order.          *)
THEOREM SortIsSound == Spec => []SortSound
<1>1. TypeOK /\ OrderIsTopological /\ CycleReportIsRight => SortSound
  BY DEF SortSound
<1>2. QED
  BY <1>1, TypeCorrect, OrderCorrect, CycleReportCorrect, PTL

-----------------------------------------------------------------------------
(* The loop has dealt with the tasks before its position, and a task in    *)
(* execution is the one at the position.                                   *)
LoopInv ==
    /\ depends_on \in [Tasks -> SUBSET Tasks] /\ specs \subseteq Tasks
    /\ execution_order \in Seq(Tasks) /\ ToSet(execution_order) = Tasks
    /\ \A i, j \in DOMAIN execution_order : i # j => execution_order[i] # execution_order[j]
    /\ \A i, j \in DOMAIN execution_order :
           execution_order[j] \in depends_on[execution_order[i]] => j < i
    /\ position \in Nat \ {0}
    /\ succeeded \subseteq specs
    /\ \A i \in DOMAIN execution_order :
           execution_order[i] \in specs => (execution_order[i] \in succeeded <=> i < position)
    /\ executing # {} =>
           /\ outcome = "running" /\ position \in DOMAIN execution_order
           /\ executing = {execution_order[position]} /\ execution_order[position] \in specs
    /\ outcome = "ok" => position > Len(execution_order)

(* The loop starts in its invariant.                                       *)
LEMMA LoopInitially == LoopInit => LoopInv
<1> SUFFICES ASSUME LoopInit PROVE LoopInv
  OBVIOUS
<1>1. /\ execution_order \in SetToSeqs(Tasks)
      /\ \A i, j \in DOMAIN execution_order : execution_order[j] \in depends_on[execution_order[i]] => j < i
  BY DEF LoopInit, ExecutionOrders
<1>2. /\ execution_order \in Seq(Tasks) /\ ToSet(execution_order) = Tasks
      /\ \A i, j \in DOMAIN execution_order : i # j => execution_order[i] # execution_order[j]
  BY <1>1, TasksFinite, OrderCovers
<1>3. \A i \in DOMAIN execution_order : i >= 1
  BY <1>2
<1> QED BY <1>1, <1>2, <1>3 DEF LoopInit, LoopInv, AcyclicDependencies, Dependencies

(* Skipping, executing, succeeding and failing keep it.                    *)
LEMMA LoopInductive == ASSUME LoopInv, [LoopNext]_loopVars PROVE LoopInv'
<1>0. \A i \in DOMAIN execution_order : i \in Nat
  BY DEF LoopInv
<1>1. CASE Skip
  BY <1>0, <1>1 DEF Skip, AtTask, LoopInv
<1>2. CASE Execute
  BY <1>0, <1>2 DEF Execute, AtTask, LoopInv
<1>3. CASE Succeed
  <2>1. /\ position \in DOMAIN execution_order /\ executing = {execution_order[position]}
        /\ execution_order[position] \in specs /\ outcome = "running"
        /\ succeeded' = succeeded \cup {execution_order[position]} /\ executing' = {} /\ position' = position + 1
        /\ UNCHANGED <<depends_on, execution_order, specs, outcome>>
    BY <1>3 DEF Succeed, LoopInv
  <2>2. ASSUME NEW i \in DOMAIN execution_order, execution_order[i] \in specs
        PROVE  execution_order[i] \in succeeded' <=> i < position'
    <3>1. i \in Nat /\ position \in Nat
      BY <1>0 DEF LoopInv
    <3>2. CASE i = position
      BY <2>1, <3>1, <3>2
    <3>3. CASE i # position
      <4>1. execution_order[i] # execution_order[position]
        BY <2>1, <3>3 DEF LoopInv
      <4> QED BY <2>1, <2>2, <3>1, <3>3, <4>1 DEF LoopInv
    <3> QED BY <3>2, <3>3
  <2> QED BY <2>1, <2>2 DEF LoopInv
<1>4. CASE Fail
  BY <1>4 DEF Fail, LoopInv
<1>5. CASE ReturnOk
  BY <1>5 DEF ReturnOk, LoopInv
<1>6. CASE UNCHANGED loopVars
  BY <1>6 DEF loopVars, LoopInv
<1> QED BY <1>1, <1>2, <1>3, <1>4, <1>5, <1>6 DEF LoopNext, LoopStep, LoopFinished

(* What has become of the tasks, as Build sees it.                         *)
Statuses == [t \in Tasks |-> Status(t)]
Waited == [t \in Tasks |-> depends_on[t] \cap specs]

(* Every step of the loop is one of Build or leaves it alone.              *)
LEMMA LoopIsBuild == ASSUME LoopInv, [LoopNext]_loopVars PROVE [B!Next]_<<Waited, Statuses>>
<1>0. executing \cap succeeded = {}
  BY DEF LoopInv
<1>1. ASSUME UNCHANGED <<depends_on, specs, executing, succeeded>> PROVE UNCHANGED <<Waited, Statuses>>
  BY <1>1 DEF Waited, Statuses, Status
<1>2. CASE Execute
  <2> DEFINE t == execution_order[position]
  <2>1. /\ position \in DOMAIN execution_order /\ t \in specs /\ t \in Tasks /\ executing = {} /\ executing' = {t}
        /\ UNCHANGED <<depends_on, specs, succeeded>>
    BY <1>2 DEF Execute, AtTask, LoopInv
  <2>2. t \notin succeeded
    BY <2>1 DEF LoopInv
  <2>3. \A d \in Waited[t] : d \in succeeded
    <3>1. SUFFICES ASSUME NEW d \in depends_on[t], d \in specs PROVE d \in succeeded
      BY <2>1 DEF Waited
    <3>2. PICK j \in DOMAIN execution_order : execution_order[j] = d
      BY <3>1 DEF LoopInv, ToSet
    <3>3. j < position
      BY <2>1, <3>1, <3>2 DEF LoopInv
    <3> QED BY <3>1, <3>2, <3>3 DEF LoopInv
  <2> HIDE DEF t
  <2>4. Statuses[t] = "waiting" /\ \A d \in Waited[t] : Statuses[d] = "succeeded"
    BY <2>1, <2>2, <2>3 DEF Statuses, Status, LoopInv
  <2>5. Statuses' = [Statuses EXCEPT ![t] = "running"] /\ Waited' = Waited
    BY <2>1, <2>2 DEF Statuses, Status, Waited
  <2>6. B!Run(t)
    BY <2>4, <2>5 DEF B!Run, Statuses, Waited
  <2> QED BY <2>1, <2>6 DEF B!Next
<1>3. ASSUME executing # {}, Succeed \/ Fail PROVE B!Next
  <2>1. PICK t \in Tasks : executing = {t}
    BY <1>3 DEF LoopInv
  <2>2. /\ executing' = {} /\ succeeded' \in {succeeded, succeeded \cup {t}} /\ UNCHANGED <<depends_on, specs>>
    BY <1>3, <2>1 DEF Succeed, Fail
  <2>3. Statuses[t] = "running" /\ t \notin succeeded
    BY <1>0, <2>1 DEF Statuses, Status
  <2>4. \E s \in {"succeeded", "waiting"} : Statuses' = [Statuses EXCEPT ![t] = s]
    <3>1. CASE succeeded' = succeeded
      <4>1. Statuses' = [Statuses EXCEPT ![t] = "waiting"]
        BY <2>1, <2>2, <2>3, <3>1 DEF Statuses, Status
      <4> QED BY <4>1
    <3>2. CASE succeeded' = succeeded \cup {t}
      <4>1. Statuses' = [Statuses EXCEPT ![t] = "succeeded"]
        BY <2>1, <2>2, <2>3, <3>2 DEF Statuses, Status
      <4> QED BY <4>1
    <3> QED BY <2>2, <3>1, <3>2
  <2>5. Waited' = Waited
    BY <2>2 DEF Waited
  <2>6. B!End(t)
    BY <2>3, <2>4, <2>5 DEF B!End, Statuses, Waited
  <2> QED BY <2>6 DEF B!Next
<1> QED
  BY <1>1, <1>2, <1>3 DEF LoopNext, LoopStep, LoopFinished, Skip, Succeed, Fail, ReturnOk, loopVars

(* The loop over an order implements Build, and reports success only when  *)
(* everything with a specification has succeeded.                          *)
THEOREM LoopIsSound == LoopSpec => LoopSound
<1>1. LoopInv => OkMeansAll
  <2> SUFFICES ASSUME LoopInv, outcome = "ok" PROVE succeeded = specs
    BY DEF OkMeansAll
  <2>1. ASSUME NEW t \in specs PROVE t \in succeeded
    <3>1. PICK i \in DOMAIN execution_order : execution_order[i] = t
      BY DEF LoopInv, ToSet
    <3>2. i < position
      BY DEF LoopInv
    <3> QED BY <3>1, <3>2 DEF LoopInv
  <2> QED BY <2>1 DEF LoopInv
<1>2. LoopInit => B!Init
  <2> SUFFICES ASSUME LoopInit PROVE B!Init
    OBVIOUS
  <2>1. Waited \in [Tasks -> SUBSET Tasks]
    BY DEF LoopInit, Waited
  <2>2. Statuses = [t \in Tasks |-> "waiting"]
    BY DEF LoopInit, Statuses, Status
  <2> QED BY <2>1, <2>2 DEF B!Init, Waited, Statuses
<1>3. LoopInv /\ [LoopNext]_loopVars => LoopInv' /\ [B!Next]_<<Waited, Statuses>>
  BY LoopInductive, LoopIsBuild
<1> QED
  BY <1>1, <1>2, <1>3, LoopInitially, PTL DEF LoopSpec, LoopSound, ImplementsBuild, B!Spec, Waited, Statuses

-----------------------------------------------------------------------------
(* What collecting a task adds to the calls to be made.                    *)
Needed(t) == Mentioned(t) \cup UNION {FromRecipe(r) : r \in recipe_depends[t[1]]}

(* The members of a sequence that are needed by one come before it.        *)
InOrder(seq) == \A j \in DOMAIN seq : DependsOnTasks(seq[j]) \subseteq {seq[i] : i \in 1 .. j - 1}

(* What a collected task needs is collected or about to be.                *)
SelectionInv ==
    /\ recipe_tasks \subseteq RecipeNames \X TaskNames
    /\ mentions \subseteq recipe_tasks \X recipe_tasks
    /\ recipe_depends \in [RecipeNames -> SUBSET RecipeNames]
    /\ pending \cup collected \subseteq recipe_tasks
    /\ pending \cap collected = {}
    /\ \A t \in collected : Needed(t) \subseteq pending \cup collected
    /\ selected \in {"no", "ok", "circular"}
    /\ selected # "no" => pending = {}
    /\ selected # "ok" => selection = << >>
    /\ selected = "ok" => /\ selection \in Seq(recipe_tasks)
                          /\ ToSet(selection) = collected
                          /\ InOrder(selection)

(* What a task depends on is collected with it.                            *)
LEMMA DependenciesNeeded == ASSUME SelectionInv, NEW t \in recipe_tasks PROVE DependsOnTasks(t) \subseteq Needed(t)
<1>1. t[1] \in RecipeNames /\ recipe_depends[t[1]] \subseteq RecipeNames
  BY DEF SelectionInv
<1>2. ASSUME NEW r \in recipe_depends[t[1]], <<r, Sysroot>> \in recipe_tasks
      PROVE  <<r, Sysroot>> \in Needed(t)
  BY <1>2 DEF Needed, FromRecipe
<1> QED BY <1>2 DEF DependsOnTasks, Needed

(* Only tasks that there are, are collected.                               *)
LEMMA NeededAreTasks == ASSUME SelectionInv, NEW t \in recipe_tasks PROVE Needed(t) \subseteq recipe_tasks
<1>1. Mentioned(t) \subseteq recipe_tasks
  BY DEF SelectionInv, Mentioned
<1>2. \A r : FromRecipe(r) \subseteq recipe_tasks
  BY DEF FromRecipe, TasksOf
<1> QED BY <1>1, <1>2 DEF Needed

(* A call for any task, on any recipes, starts in the invariant.           *)
LEMMA SelectionInitially == SelectionInit => SelectionInv
<1> SUFFICES ASSUME NEW tasks \in SUBSET (RecipeNames \X TaskNames),
                    NEW pairs \in SUBSET (tasks \X tasks), NEW t \in tasks,
                    NEW above \in [RecipeNames -> SUBSET RecipeNames], BuildFor(tasks, pairs, above, t)
             PROVE  SelectionInv
  BY DEF SelectionInit
<1> QED BY DEF BuildFor, SelectionInv

(* An order of all the tasks, cut down to what was collected, is one of    *)
(* that.                                                                   *)
LEMMA CutDownKeepsOrder ==
    ASSUME SelectionInv, pending = {}, NEW full \in FullOrders
    PROVE  /\ Kept(full, recipe_tasks \ collected) \in Seq(recipe_tasks)
           /\ ToSet(Kept(full, recipe_tasks \ collected)) = collected
           /\ InOrder(Kept(full, recipe_tasks \ collected))
<1> DEFINE gone == recipe_tasks \ collected
           out == Kept(full, gone)
<1>1. IsFiniteSet(recipe_tasks)
  <2>1. IsFiniteSet(Staged \cup {Sysroot, "do_fetch"})
    <3>1. IsFiniteSet(Staged)
      <4>1. IsFiniteSet({"do_configure"} \cup {"do_compile"} \cup {"do_install"})
        BY FS_Singleton, FS_Union
      <4> QED BY <4>1 DEF Staged
    <3>2. IsFiniteSet({Sysroot} \cup {"do_fetch"})
      BY FS_Singleton, FS_Union
    <3>3. {Sysroot, "do_fetch"} = {Sysroot} \cup {"do_fetch"}
      OBVIOUS
    <3> QED BY <3>1, <3>2, <3>3, FS_Union
  <2>2. IsFiniteSet(TaskNames)
    BY <2>1, TaskNamesKnown, FS_Subset
  <2>3. IsFiniteSet(RecipeNames \X TaskNames)
    BY <2>2, RecipeNamesFinite, FS_Product
  <2> QED BY <2>3, FS_Subset DEF SelectionInv
<1>2. full \in SetToSeqs(recipe_tasks) /\ InOrder(full)
  BY DEF FullOrders, InOrder
<1>3. full \in Seq(recipe_tasks) /\ ToSet(full) = recipe_tasks
  BY <1>1, <1>2, OrderCovers
<1>4. out \in Seq(recipe_tasks) /\ ToSet(out) = ToSet(full) \ gone
  BY <1>3, KeptInOrder, KeptRange
<1>5. ToSet(out) = collected
  BY <1>3, <1>4 DEF SelectionInv
<1>6. PICK f : Places(f, out, full, Len(full), gone)
  BY <1>3, KeptInOrder
<1> HIDE DEF out
<1>7. ASSUME NEW j \in DOMAIN out, NEW d \in DependsOnTasks(out[j])
      PROVE  d \in {out[i] : i \in 1 .. j - 1}
  <2>1. DOMAIN out = 1 .. Len(out) /\ Len(out) \in Nat /\ DOMAIN full = 1 .. Len(full) /\ Len(full) \in Nat
    BY <1>3, <1>4
  <2>2. f[j] \in DOMAIN full /\ out[j] = full[f[j]] /\ out[j] \in collected
    BY <1>5, <1>6, <2>1 DEF Places, ToSet
  <2>3. d \in collected
    <3>1. out[j] \in recipe_tasks
      BY <2>2 DEF SelectionInv
    <3>2. d \in Needed(out[j])
      BY <3>1, <1>7, DependenciesNeeded
    <3> QED BY <2>2, <3>2 DEF SelectionInv
  <2>4. PICK k \in 1 .. f[j] - 1 : d = full[k]
    BY <1>2, <2>2 DEF InOrder
  <2>5. k \in 1 .. Len(full) /\ k < f[j]
    BY <2>1, <2>2, <2>4
  <2>6. PICK i \in 1 .. Len(out) : f[i] = k
    BY <1>6, <2>3, <2>4, <2>5 DEF Places
  <2>7. out[i] = d
    BY <1>6, <2>4, <2>6 DEF Places
  <2>8. i < j
    <3>1. ~ (i = j) /\ ~ (j < i)
      BY <1>6, <2>1, <2>2, <2>5, <2>6 DEF Places
    <3> QED BY <2>1, <2>6, <3>1
  <2> QED BY <2>1, <2>6, <2>7, <2>8
<1>8. InOrder(out)
  BY <1>7 DEF InOrder
<1> QED BY <1>4, <1>5, <1>8 DEF out

(* Collecting a task, cutting the graph down and finding it circular keep  *)
(* it.                                                                     *)
LEMMA SelectionInductive ==
    ASSUME SelectionInv, [SelectionStep]_selectionVars
    PROVE  SelectionInv'
<1>1. ASSUME NEW t \in recipe_tasks, Collect(t) PROVE SelectionInv'
  <2>1. /\ t \in pending /\ collected' = collected \cup {t}
        /\ pending' = (pending \cup Needed(t)) \ collected'
        /\ UNCHANGED <<recipe_tasks, mentions, recipe_depends, target, selection, selected>>
    BY <1>1 DEF Collect, Needed
  <2>2. Needed(t) \subseteq recipe_tasks
    BY NeededAreTasks
  <2>3. \A s : Needed(s)' = Needed(s)
    BY <2>1 DEF Needed, Mentioned, FromRecipe, TasksOf
  <2>4. selected = "no"
    BY <2>1 DEF SelectionInv
  <2>5. \A s \in collected' : Needed(s) \subseteq pending' \cup collected'
    BY <2>1 DEF SelectionInv
  <2> QED BY <2>1, <2>2, <2>3, <2>4, <2>5 DEF SelectionInv
<1>2. CASE CutDown
  <2>1. PICK full \in FullOrders : selection' = Kept(full, recipe_tasks \ collected)
    BY <1>2 DEF CutDown, Kept
  <2>2. /\ selection' \in Seq(recipe_tasks) /\ ToSet(selection') = collected
        /\ InOrder(selection')
    BY <1>2, <2>1, CutDownKeepsOrder DEF CutDown
  <2>3. /\ selected = "no" /\ selected' = "ok" /\ pending = {}
        /\ UNCHANGED <<recipe_tasks, mentions, recipe_depends, target, pending, collected>>
    BY <1>2 DEF CutDown
  <2>4. InOrder(selection)'
    BY <2>2, <2>3 DEF InOrder, DependsOnTasks, Mentioned
  <2>5. \A s : Needed(s)' = Needed(s)
    BY <2>3 DEF Needed, Mentioned, FromRecipe, TasksOf
  <2> QED BY <2>2, <2>3, <2>4, <2>5 DEF SelectionInv
<1>3. CASE FullGraphIsCircular \/ UNCHANGED selectionVars
  <2>1. UNCHANGED <<recipe_tasks, mentions, recipe_depends, target, pending, collected, selection>>
    BY <1>3 DEF FullGraphIsCircular, selectionVars
  <2>2. (\A s : Needed(s)' = Needed(s)) /\ InOrder(selection)' = InOrder(selection)
    BY <2>1 DEF Needed, Mentioned, FromRecipe, TasksOf, InOrder, DependsOnTasks
  <2> QED BY <1>3, <2>1, <2>2 DEF SelectionInv, FullGraphIsCircular, selectionVars
<1> QED BY <1>1, <1>2, <1>3 DEF SelectionStep

(* The graph cut down to a target can be executed, and stages what its     *)
(* tasks use, whatever the recipes and their tasks.                        *)
THEOREM SelectionIsSound == SelectionInit /\ [][SelectionStep]_selectionVars => []SelectionSound
<1>1. ASSUME SelectionInv PROVE SelectionSound
  <2>1. SelectionTypeOK
    BY <1>1 DEF SelectionInv, SelectionTypeOK, ToSet
  <2>2. ASSUME selected = "ok", NEW t \in collected
        PROVE  /\ t \in recipe_tasks /\ Needed(t) \subseteq collected
               /\ DependsOnTasks(t) \subseteq collected
    <3>1. t \in recipe_tasks /\ Needed(t) \subseteq collected
      BY <1>1, <2>2 DEF SelectionInv
    <3>2. DependsOnTasks(t) \subseteq Needed(t)
      BY <1>1, <3>1, DependenciesNeeded
    <3> QED BY <3>1, <3>2
  <2>3. SelectionCanRun
    <3>1. SUFFICES ASSUME selected = "ok"
                   PROVE  /\ ToSet(selection) = collected
                          /\ InOrder(selection)
                          /\ \A t \in RootTasks : DependsOnTasks(t) = {}
      BY DEF SelectionCanRun, InOrder
    <3>2. \A t \in RootTasks : DependsOnTasks(t) = {}
      BY <2>2, <3>1 DEF RootTasks
    <3> QED BY <1>1, <3>1, <3>2 DEF SelectionInv
  <2>4. DependenciesStaged
    <3>1. SUFFICES ASSUME selected = "ok", NEW j \in DOMAIN selection, NEW r \in recipe_depends[selection[j][1]]
                   PROVE  /\ TasksOf(r) # {} => TasksOf(r) \cap collected # {}
                          /\ <<r, Sysroot>> \in recipe_tasks =>
                               /\ <<r, Sysroot>> \in collected
                               /\ selection[j][2] \in Staged =>
                                      \E i \in 1 .. j - 1 : selection[i] = <<r, Sysroot>>
      BY DEF DependenciesStaged
    <3> DEFINE t == selection[j]
    <3>2. t \in collected /\ InOrder(selection)
      BY <1>1, <3>1 DEF SelectionInv, ToSet
    <3>3. FromRecipe(r) \subseteq collected
      BY <2>2, <3>1, <3>2 DEF Needed
    <3>4. TasksOf(r) # {} => TasksOf(r) \cap FromRecipe(r) # {}
      BY DEF TasksOf, FromRecipe
    <3>5. ASSUME <<r, Sysroot>> \in recipe_tasks
          PROVE  /\ <<r, Sysroot>> \in collected
                 /\ t[2] \in Staged => <<r, Sysroot>> \in DependsOnTasks(t)
      BY <3>1, <3>3, <3>5 DEF FromRecipe, DependsOnTasks
    <3>6. DependsOnTasks(t) \subseteq {selection[i] : i \in 1 .. j - 1}
      BY <3>1, <3>2 DEF InOrder
    <3> HIDE DEF t
    <3>7. ASSUME <<r, Sysroot>> \in recipe_tasks, t[2] \in Staged
          PROVE  \E i \in 1 .. j - 1 : selection[i] = <<r, Sysroot>>
      BY <3>5, <3>6, <3>7
    <3> QED BY <3>3, <3>4, <3>5, <3>7 DEF t
  <2> QED BY <2>1, <2>3, <2>4 DEF SelectionSound
<1> QED BY <1>1, SelectionInitially, SelectionInductive, PTL

-----------------------------------------------------------------------------
(* What a recipe depends on, as a function.                                *)
DependsMap == [r \in Recipes |-> DependsOn(r)]

(* LeadsTo(r) is the least set that has what the recipe depends on, and    *)
(* what its members depend on.                                             *)
LEMMA LeadsIsReach ==
    ASSUME depends \in [Recipes -> Seq(Recipes)], NEW r \in Recipes
    PROVE  IsReach(LeadsTo(r), DependsOn(r), DependsMap, Recipes)
<1> DEFINE Eqn(f) == f = [n \in Nat |->
                            IF n = 0 THEN DependsOn(r)
                            ELSE f[n - 1] \cup UNION {DependsOn(s) : s \in f[n - 1]}]
           found == CHOOSE f : Eqn(f)
           Within == {n \in Nat : found[n] \subseteq Recipes}
<1>1. \A s \in Recipes : DependsOn(s) \subseteq Recipes /\ DependsMap[s] = DependsOn(s)
  BY DEF DependsOn, DependsMap, ToSet
<1>2. DependsMap \in [Recipes -> SUBSET Recipes] /\ DependsOn(r) \in SUBSET Recipes
  BY <1>1 DEF DependsMap
<1>3. \E f : Eqn(f)
  <2>1. PICK f \in [Nat -> SUBSET Recipes] : Grows(f, DependsOn(r), DependsMap)
    BY <1>2, GrowthExists
  <2>2. \A n \in Nat \ {0} : n - 1 \in Nat /\ n = (n - 1) + 1
    OBVIOUS
  <2>3. ASSUME NEW n \in Nat \ {0}
        PROVE  f[n] = f[n - 1] \cup UNION {DependsOn(s) : s \in f[n - 1]}
    <3>1. f[n] = f[n - 1] \cup UNION {DependsMap[s] : s \in f[n - 1]} /\ f[n - 1] \subseteq Recipes
      BY <2>1, <2>2 DEF Grows
    <3> QED BY <1>1, <3>1
  <2>4. f[0] = DependsOn(r)
    BY <2>1 DEF Grows
  <2>5. Eqn(f)
    BY <2>1, <2>3, <2>4
  <2> QED BY <2>5
<1>4. Eqn(found)
  <2> HIDE DEF Eqn
  <2> QED BY <1>3
<1>5. LeadsTo(r) = found[Cardinality(Recipes)]
  BY DEF LeadsTo
<1> HIDE DEF found
<1>6. found[0] = DependsOn(r)
  BY <1>4
<1>7. ASSUME NEW n \in Nat PROVE found[n + 1] = found[n] \cup UNION {DependsOn(s) : s \in found[n]}
  <2>1. n + 1 \in Nat /\ n + 1 # 0 /\ (n + 1) - 1 = n
    OBVIOUS
  <2> QED BY <1>4, <2>1
<1> HIDE DEF Eqn
<1>8. Nat \subseteq Within
  <2>1. 0 \in Within
    BY <1>2, <1>6
  <2>2. ASSUME NEW n \in Nat, n \in Within PROVE n + 1 \in Within
    <3>1. found[n + 1] = found[n] \cup UNION {DependsOn(s) : s \in found[n]}
      BY <1>7
    <3>2. found[n] \subseteq Recipes /\ n + 1 \in Nat
      BY <2>2
    <3>3. \A s \in found[n] : DependsOn(s) \subseteq Recipes
      BY <1>1, <3>2
    <3> QED BY <3>1, <3>2, <3>3
  <2> HIDE DEF Within
  <2> QED BY <2>1, <2>2, SetInduction
<1>9. Grows(found, DependsOn(r), DependsMap)
  <2>1. ASSUME NEW n \in Nat PROVE found[n + 1] = found[n] \cup UNION {DependsMap[s] : s \in found[n]}
    <3>1. found[n + 1] = found[n] \cup UNION {DependsOn(s) : s \in found[n]}
      BY <1>7
    <3>2. \A s \in found[n] : DependsMap[s] = DependsOn(s)
      BY <1>1, <1>8
    <3> QED BY <3>1, <3>2
  <2> QED BY <1>6, <2>1 DEF Grows
<1> QED BY <1>2, <1>5, <1>9, RecipesFinite, GrowthEnds

(* What a recipe leads to is closed, and is the least such set.            *)
LEMMA LeadsFacts ==
    ASSUME depends \in [Recipes -> Seq(Recipes)], NEW r \in Recipes
    PROVE  /\ DependsOn(r) \subseteq LeadsTo(r) /\ LeadsTo(r) \subseteq Recipes
           /\ \A s \in LeadsTo(r) : DependsOn(s) \subseteq LeadsTo(r)
           /\ \A C \in SUBSET Recipes :
                 DependsOn(r) \subseteq C /\ (\A s \in C : DependsOn(s) \subseteq C) => LeadsTo(r) \subseteq C
<1>1. IsReach(LeadsTo(r), DependsOn(r), DependsMap, Recipes)
  BY LeadsIsReach
<1> QED BY <1>1 DEF IsReach, ClosedUnder, DependsMap

-----------------------------------------------------------------------------
(* The nodes whose walk is over.                                           *)
Over == visited \ ToSet(path)

(* The walks that no cycle was found in, and that look for one.            *)
Strict == walk = "topological_sort" \/ (walk = "detect_cycles" /\ cycles = {})

WalkCall ==
    /\ walk \in WholeGraph \cup FromStart /\ start \in Recipes
    /\ depends \in [Recipes -> Seq(Recipes)]
    /\ path \in Seq(Recipes) /\ sorted \in Seq(Recipes)

(* Each node on the path depends on the next, and so leads to all later    *)
(* ones.                                                                   *)
Chain ==
    /\ \A i \in 1 .. Len(path) - 1 : path[i + 1] \in DependsOn(path[i])
    /\ \A i, j \in 1 .. Len(path) : i < j => path[j] \in LeadsTo(path[i])

(* What a node on the path depends on was visited or is still to be looked *)
(* at; of a node whose walk is over everything was visited.                *)
Looked ==
    /\ \A r \in ToSet(path) : /\ ToSet(left[r]) \subseteq DependsOn(r)
                              /\ DependsOn(r) \subseteq visited \cup ToSet(left[r])
    /\ \A r \in Over : DependsOn(r) \subseteq visited

(* Without a cycle nothing that was visited is still on the path, but the  *)
(* next node; and what is over leads to nothing that is not.               *)
NoWayUp ==
    Strict =>
        /\ \A i \in 1 .. Len(path) : \A d \in DependsOn(path[i]) :
              d \in Over \/ d \in ToSet(left[path[i]]) \/ (i < Len(path) /\ d = path[i + 1])
        /\ \A r \in Over : DependsOn(r) \subseteq Over /\ r \notin LeadsTo(r)

(* What is in the Vec.                                                     *)
SortedAre ==
    /\ walk \in {"topological_sort", "sorted_files"} => ToSet(sorted) = Over
    /\ walk = "get_all_dependencies" => ToSet(sorted) = visited \ {start}

(* A walk from a start stays with what the start leads to.                 *)
FromTheStart ==
    walk \in FromStart =>
        /\ visited \subseteq LeadsTo(start) \cup {start}
        /\ visited # {} => start \in visited
        /\ path # << >> => path[1] = start
        /\ walk = "sorted_files" /\ visited # {} /\ path = << >> => sorted # << >> /\ Last(sorted) = start

CyclesLoop ==
    \A c \in cycles : \A i \in DOMAIN c : c[IF i = Len(c) THEN 1 ELSE i + 1] \in DependsOn(c[i])

WalkEnded ==
    /\ walked = "ok" => /\ path = << >>
                        /\ walk \in WholeGraph => visited = Recipes
                        /\ walk \in FromStart => visited # {}
    /\ walked = "circular" => CyclicGraph

WalkInv ==
    /\ WalkTypeOK
    /\ WalkCall
    /\ Chain
    /\ Looked
    /\ NoWayUp
    /\ SortedAre
    /\ DependenciesFirst
    /\ FromTheStart
    /\ CyclesLoop
    /\ WalkEnded

(* A walk that was called satisfies the invariant.                         *)
LEMMA WalkInitially == WalkInit => WalkInv
<1> SUFFICES ASSUME NEW w \in WholeGraph \cup FromStart, NEW s \in Recipes,
                    NEW d \in [Recipes -> Lists(w)], Called(w, s, d)
             PROVE  WalkInv
  BY DEF WalkInit
<1>1. depends \in [Recipes -> Seq(Recipes)]
  BY DEF Called, Lists
<1>2. ToSet(<< >>) = {} /\ Len(<< >>) = 0 /\ << >> \in Seq(Recipes)
  BY DEF ToSet
<1>3. Over = {} /\ path = << >> /\ sorted = << >> /\ visited = {} /\ cycles = {} /\ walked = "no" /\ Len(path) = 0
  BY <1>2 DEF Called, Over
<1>4. WalkTypeOK
  BY <1>2, <1>3 DEF Called, WalkTypeOK, IsInjective
<1>5. Chain /\ Looked /\ NoWayUp /\ SortedAre
  BY <1>2, <1>3 DEF Chain, Looked, NoWayUp, SortedAre
<1>6. DependenciesFirst /\ FromTheStart /\ CyclesLoop /\ WalkEnded
  BY <1>2, <1>3 DEF DependenciesFirst, FromTheStart, CyclesLoop, WalkEnded
<1> QED BY <1>1, <1>2, <1>3, <1>4, <1>5, <1>6 DEF WalkInv, WalkCall, Called

(* The dependencies stay as they are during a walk.                        *)
LEMMA SameDepends ==
    ASSUME depends' = depends
    PROVE  \A r : DependsOn(r)' = DependsOn(r) /\ LeadsTo(r)' = LeadsTo(r)
BY DEF DependsOn, LeadsTo

(* What DependenciesFirst says of one sorted node, the ones before it given*)
(* by a sequence.                                                          *)
FirstIn(s) ==
    \A j \in 1 .. Len(s) : \A d \in DependsOn(s[j]) :
        \/ \E i \in 1 .. j - 1 : s[i] = d
        \/ walk = "sorted_files" /\ s[j] \in LeadsTo(d)

(* DependenciesFirst is FirstIn of the whole result.                       *)
LEMMA FirstInSorted ==
    ASSUME sorted \in Seq(Recipes)
    PROVE  DependenciesFirst <=> (walk \in {"topological_sort", "sorted_files"} => FirstIn(sorted))
<1>1. DOMAIN sorted = 1 .. Len(sorted)
  OBVIOUS
<1> QED BY <1>1 DEF DependenciesFirst, FirstIn

(* A recipe that was not visited is entered while the path is empty, and   *)
(* begins one.                                                             *)
LEMMA WalkEnters ==
    ASSUME WalkInv, NEW r \in Recipes,
           walked = "no", path = << >>, r \notin visited, Visit(r),
           walk \in FromStart => r = start /\ visited = {},
           left' = [left EXCEPT ![r] = depends[r]],
           UNCHANGED <<walk, start, depends, sorted, cycles, walked>>
    PROVE  WalkInv'
<1>1. \A s : DependsOn(s)' = DependsOn(s) /\ LeadsTo(s)' = LeadsTo(s)
  BY SameDepends
<1>2. ToSet(<< >>) = {} /\ << >> \in Seq(Recipes) /\ Len(<< >>) = 0 /\ IsInjective(<< >>)
  BY DEF ToSet, IsInjective
<1>3. /\ path' \in Seq(Recipes) /\ Len(path') = 1 /\ path'[1] = r /\ ToSet(path') = {r} /\ IsInjective(path')
      /\ path' # << >>
  <2> DEFINE one == Append(path, r)
  <2>1. path \in Seq(Recipes) /\ ToSet(path) = {} /\ Len(path) = 0 /\ IsInjective(path)
    BY <1>2
  <2>2. /\ one \in Seq(Recipes) /\ Len(one) = Len(path) + 1 /\ one[Len(path) + 1] = r
        /\ ToSet(one) = ToSet(path) \cup {r} /\ IsInjective(one)
    <3>1. path \in Seq(Recipes) /\ IsInjective(path) /\ r \notin ToSet(path)
      BY <2>1
    <3> QED BY ONLY <3>1, r \in Recipes, Appending
  <2>3. Len(one) = 1 /\ one[1] = r /\ ToSet(one) = {r}
    BY <2>1, <2>2
  <2>4. one # << >>
    <3> HIDE DEF one
    <3> QED BY <1>2, <2>3
  <2>5. path' = one
    BY DEF Visit
  <2> HIDE DEF one
  <2> QED BY <2>2, <2>3, <2>4, <2>5
<1>4. Over = visited /\ Over' = visited /\ visited' = visited \cup {r}
  BY <1>2, <1>3 DEF Over, Visit
<1>5. left' \in [Recipes -> Seq(Recipes)] /\ left'[r] = depends[r] /\ ToSet(left'[r]) = DependsOn(r)
  BY DEF WalkInv, WalkTypeOK, WalkCall, DependsOn
<1>6. WalkTypeOK'
  BY <1>3, <1>4, <1>5 DEF WalkInv, WalkTypeOK
<1>7. WalkCall'
  BY <1>3 DEF WalkInv, WalkCall
<1>8. Chain'
  BY <1>3 DEF Chain
<1>9. Looked'
  BY <1>1, <1>3, <1>4, <1>5 DEF WalkInv, Looked
<1>10. NoWayUp'
  BY <1>1, <1>3, <1>4, <1>5 DEF WalkInv, NoWayUp, Strict
<1>11. SortedAre'
  BY <1>3, <1>4 DEF WalkInv, SortedAre, FromStart
<1>12. DependenciesFirst'
  BY <1>1 DEF WalkInv, DependenciesFirst
<1>13. FromTheStart'
  BY <1>1, <1>3, <1>4 DEF WalkInv, FromTheStart
<1>14. CyclesLoop' /\ WalkEnded'
  BY <1>1 DEF WalkInv, CyclesLoop, WalkEnded
<1> QED BY <1>6, <1>7, <1>8, <1>9, <1>10, <1>11, <1>12, <1>13, <1>14 DEF WalkInv

(* Going down to a dependency that was not visited makes the path longer.  *)
LEMMA WalkDescends == WalkInv /\ Descend => WalkInv'
<1> SUFFICES ASSUME WalkInv, Descend PROVE WalkInv'
  OBVIOUS
<1> DEFINE c == Current
           a == Ahead
           n == Len(path)
<1>1. \A s : DependsOn(s)' = DependsOn(s) /\ LeadsTo(s)' = LeadsTo(s)
  BY SameDepends DEF Descend
<1>2. path \in Seq(Recipes) /\ path # << >> /\ left \in [Recipes -> Seq(Recipes)] /\ sorted \in Seq(Recipes)
  BY DEF WalkInv, WalkCall, WalkTypeOK, Descend, AtDependency
<1>3. n \in Nat \ {0} /\ DOMAIN path = 1 .. n /\ c = path[n] /\ c \in Recipes /\ c \in ToSet(path)
  BY <1>2, EndOfPath DEF Current
<1>4. /\ left[c] # << >> /\ a \in Recipes /\ Tail(left[c]) \in Seq(Recipes)
      /\ ToSet(left[c]) = ToSet(Tail(left[c])) \cup {a}
  <2>1. left[c] \in Seq(Recipes) /\ left[c] # << >> /\ a = Head(left[c])
    BY <1>2, <1>3 DEF Descend, AtDependency, Ahead
  <2> HIDE DEF a, c
  <2> QED BY <2>1, Popping
<1>5. a \notin visited /\ visited' = visited \cup {a} /\ path' = Append(path, a)
  BY DEF Descend, Visit
<1>6. ToSet(path) \subseteq visited /\ IsInjective(path) /\ visited \subseteq Recipes
  BY DEF WalkInv, WalkTypeOK
<1>7. a # c /\ a \notin ToSet(path)
  BY <1>3, <1>5, <1>6
<1>8. /\ left' = [left EXCEPT ![c] = Tail(left[c]), ![a] = depends[a]]
      /\ left' \in [Recipes -> Seq(Recipes)]
      /\ left'[c] = Tail(left[c]) /\ left'[a] = depends[a]
      /\ \A r \in Recipes : r # a /\ r # c => left'[r] = left[r]
  <2>1. left' = [left EXCEPT ![c] = Tail(left[c]), ![a] = depends[a]]
    BY DEF Descend
  <2>2. depends \in [Recipes -> Seq(Recipes)]
    BY DEF WalkInv, WalkCall
  <2> HIDE DEF a, c
  <2> QED BY <1>2, <1>3, <1>4, <1>7, <2>1, <2>2
<1>9. ToSet(left'[a]) = DependsOn(a)
  BY <1>8 DEF DependsOn
<1>10. a \in DependsOn(c)
  BY <1>3, <1>4 DEF WalkInv, Looked
<1> HIDE DEF a, c
<1>11. /\ path' \in Seq(Recipes) /\ Len(path') = n + 1 /\ path'[n + 1] = a
       /\ \A i \in 1 .. n : path'[i] = path[i]
       /\ ToSet(path') = ToSet(path) \cup {a} /\ IsInjective(path') /\ path' # << >>
  <2> DEFINE p == Append(path, a)
  <2>1. /\ p \in Seq(Recipes) /\ Len(p) = n + 1 /\ p[n + 1] = a /\ \A i \in 1 .. n : p[i] = path[i]
        /\ ToSet(p) = ToSet(path) \cup {a} /\ IsInjective(p)
    BY <1>2, <1>4, <1>6, <1>7, Appending
  <2>2. p # << >>
    <3>1. ToSet(<< >>) = {}
      BY DEF ToSet
    <3> HIDE DEF p
    <3> QED BY <2>1, <3>1
  <2> HIDE DEF p
  <2>3. path' = p
    BY <1>5 DEF p
  <2> QED BY <2>1, <2>2, <2>3
<1>12. Over' = Over
  BY <1>5, <1>7, <1>11 DEF Over
<1>13. walk' = walk /\ start' = start /\ depends' = depends /\ cycles' = cycles /\ walked' = walked /\ walked = "no"
  BY DEF Descend, AtDependency
<1>14. /\ walk = "get_all_dependencies" => /\ sorted' \in Seq(Recipes) /\ ToSet(sorted') = ToSet(sorted) \cup {a}
                                           /\ IsInjective(sorted')
       /\ walk # "get_all_dependencies" => sorted' = sorted
  <2>1. CASE walk = "get_all_dependencies"
    <3>1. sorted' = Append(sorted, a)
      BY <2>1 DEF Descend, a
    <3>2. IsInjective(sorted) /\ a \notin ToSet(sorted)
      BY <1>5 DEF WalkInv, WalkTypeOK
    <3> DEFINE s == Append(sorted, a)
    <3>3. s \in Seq(Recipes) /\ ToSet(s) = ToSet(sorted) \cup {a} /\ IsInjective(s)
      BY <1>2, <1>4, <3>2, Appending
    <3>4. sorted' = s
      BY <3>1
    <3> HIDE DEF s
    <3> QED BY <2>1, <3>3, <3>4
  <2>2. CASE walk # "get_all_dependencies"
    BY <2>2 DEF Descend
  <2> QED BY <2>1, <2>2
<1> HIDE DEF n
<1>15. WalkTypeOK'
  <2>1. ToSet(sorted') \subseteq visited' /\ IsInjective(sorted')
    BY <1>5, <1>14 DEF WalkInv, WalkTypeOK
  <2>2. visited' \subseteq Recipes /\ ToSet(path') \subseteq visited' /\ walked' \in {"no", "ok", "circular"}
    BY <1>4, <1>5, <1>6, <1>11, <1>13
  <2> QED BY <1>8, <1>11, <2>1, <2>2 DEF WalkTypeOK
<1>16. WalkCall'
  BY <1>2, <1>11, <1>13, <1>14 DEF WalkInv, WalkCall, WholeGraph, FromStart
<1>17. Chain'
  <2>1. DependsOn(c) \subseteq LeadsTo(c)
    BY <1>3, LeadsFacts DEF WalkInv, WalkCall
  <2>2. \A i \in 1 .. n : a \in LeadsTo(path[i])
    <3>1. ASSUME NEW i \in 1 .. n, i # n PROVE a \in LeadsTo(path[i])
      <4>1. c \in LeadsTo(path[i]) /\ path[i] \in Recipes
        <5>1. i < n /\ n \in 1 .. n
          BY <1>3, <3>1
        <5>2. path[n] \in LeadsTo(path[i])
          BY <5>1 DEF WalkInv, Chain, n
        <5>3. path[i] \in Recipes
          BY <1>2 DEF n
        <5> QED BY <1>3, <5>2, <5>3
      <4>2. DependsOn(c) \subseteq LeadsTo(path[i])
        BY <4>1, LeadsFacts DEF WalkInv, WalkCall
      <4> QED BY <1>10, <4>2
    <3> QED BY <1>3, <1>10, <2>1, <3>1
  <2>3. ASSUME NEW i \in 1 .. n PROVE path'[i + 1] \in DependsOn(path'[i])
    <3>1. CASE i = n
      BY <1>3, <1>10, <1>11, <3>1
    <3>2. CASE i # n
      <4>1. i \in 1 .. n - 1 /\ i + 1 \in 1 .. n
        BY <1>3, <3>2
      <4>2. path[i + 1] \in DependsOn(path[i])
        BY <4>1 DEF WalkInv, Chain, n
      <4> QED BY <1>11, <4>1, <4>2
    <3> QED BY <3>1, <3>2
  <2>4. ASSUME NEW i \in 1 .. n + 1, NEW j \in 1 .. n + 1, i < j PROVE path'[j] \in LeadsTo(path'[i])
    <3>1. i \in 1 .. n /\ (j = n + 1 \/ j \in 1 .. n)
      BY <1>3, <2>4
    <3>2. CASE j = n + 1
      BY <1>11, <2>2, <3>1, <3>2
    <3>3. CASE j \in 1 .. n
      <4>1. path[j] \in LeadsTo(path[i])
        BY <2>4, <3>1, <3>3 DEF WalkInv, Chain, n
      <4> QED BY <1>11, <3>1, <3>3, <4>1
    <3> QED BY <3>1, <3>2, <3>3
  <2>5. (n + 1) - 1 = n
    BY <1>3
  <2> QED BY <1>1, <1>11, <2>3, <2>4, <2>5 DEF Chain
<1>18. Looked'
  <2>1. ASSUME NEW r \in ToSet(path')
        PROVE  ToSet(left'[r]) \subseteq DependsOn(r) /\ DependsOn(r) \subseteq visited' \cup ToSet(left'[r])
    <3>1. CASE r = a
      BY <1>9, <3>1
    <3>2. CASE r = c
      BY <1>3, <1>4, <1>5, <1>8, <3>2 DEF WalkInv, Looked
    <3>3. CASE r # a /\ r # c
      BY <1>5, <1>6, <1>8, <1>11, <3>3 DEF WalkInv, Looked
    <3> QED BY <3>1, <3>2, <3>3
  <2>2. \A r \in Over : DependsOn(r) \subseteq visited'
    BY <1>5 DEF WalkInv, Looked
  <2> QED BY <1>1, <1>12, <2>1, <2>2 DEF Looked
<1>19. NoWayUp'
  <2>1. SUFFICES ASSUME Strict' PROVE NoWayUp'
    BY DEF NoWayUp
  <2>2. Strict
    BY <1>13, <2>1 DEF Strict
  <2>3. ASSUME NEW i \in 1 .. n + 1, NEW d \in DependsOn(path'[i])
        PROVE  d \in Over \/ d \in ToSet(left'[path'[i]]) \/ (i < n + 1 /\ d = path'[i + 1])
    <3>1. CASE i = n + 1
      BY <1>9, <1>11, <2>3, <3>1
    <3>2. CASE i = n
      <4>1. path'[i] = c /\ path'[i + 1] = a /\ i < n + 1
        BY <1>3, <1>11, <3>2
      <4>2. d \in Over \/ d \in ToSet(left[c])
        BY <1>3, <2>2, <2>3, <3>2, <4>1 DEF WalkInv, NoWayUp, n
      <4> QED BY <1>4, <1>8, <4>1, <4>2
    <3>3. CASE i # n + 1 /\ i # n
      <4>1. i \in 1 .. n - 1 /\ i + 1 \in 1 .. n /\ i \in 1 .. n /\ n \in 1 .. n /\ i < n + 1
        BY <1>3, <3>3
      <4>2. path'[i] = path[i] /\ path'[i + 1] = path[i + 1]
        BY <1>11, <4>1
      <4>3. path[i] # c /\ path[i] # a /\ path[i] \in Recipes
        BY <1>3, <1>6, <1>7, <3>3, <4>1 DEF IsInjective, ToSet
      <4>4. d \in Over \/ d \in ToSet(left[path[i]]) \/ d = path[i + 1]
        BY <2>2, <2>3, <4>1, <4>2 DEF WalkInv, NoWayUp, n
      <4> QED BY <1>8, <4>1, <4>2, <4>3, <4>4
    <3> QED BY <3>1, <3>2, <3>3
  <2>4. \A r \in Over : DependsOn(r) \subseteq Over /\ r \notin LeadsTo(r)
    BY <2>2 DEF WalkInv, NoWayUp
  <2> QED BY <1>1, <1>11, <1>12, <2>3, <2>4 DEF NoWayUp
<1>20. SortedAre'
  <2>1. walk = "get_all_dependencies" => start \in visited
    BY <1>3, <1>6 DEF WalkInv, FromTheStart, FromStart
  <2> QED BY <1>5, <1>12, <1>13, <1>14, <2>1 DEF WalkInv, SortedAre
<1>21. DependenciesFirst'
  BY <1>1, <1>13, <1>14 DEF WalkInv, DependenciesFirst
<1>22. FromTheStart'
  <2>1. SUFFICES ASSUME walk \in FromStart PROVE FromTheStart'
    BY <1>13 DEF FromTheStart, FromStart
  <2>2. start \in Recipes /\ depends \in [Recipes -> Seq(Recipes)]
    BY DEF WalkInv, WalkCall
  <2>3. start \in visited /\ path[1] = start /\ visited \subseteq LeadsTo(start) \cup {start}
    BY <1>2, <1>3, <1>6, <2>1 DEF WalkInv, FromTheStart
  <2>4. a \in LeadsTo(start)
    BY <1>3, <1>6, <1>10, <2>2, <2>3, LeadsFacts
  <2>5. path'[1] = start
    <3>1. 1 \in 1 .. n
      BY <1>3
    <3> QED BY <1>11, <2>3, <3>1
  <2> QED BY <1>1, <1>5, <1>11, <1>13, <2>3, <2>4, <2>5 DEF FromTheStart
<1>23. CyclesLoop'
  BY <1>1, <1>13 DEF WalkInv, CyclesLoop
<1>24. WalkEnded'
  BY <1>13 DEF WalkEnded
<1> QED BY <1>15, <1>16, <1>17, <1>18, <1>19, <1>20, <1>21, <1>22, <1>23, <1>24 DEF WalkInv

(* What a node that is passed over or closes a cycle has in common.        *)
LEMMA WalkLooks ==
    ASSUME WalkInv, AtDependency, Ahead \in visited, left' = [left EXCEPT ![Current] = Tail(@)],
           UNCHANGED <<walk, start, depends, visited, path, sorted, walked>>
    PROVE  /\ WalkTypeOK' /\ WalkCall' /\ Chain' /\ Looked' /\ SortedAre' /\ DependenciesFirst'
           /\ FromTheStart' /\ WalkEnded'
           /\ \A r \in Recipes : ToSet(left[r]) \subseteq ToSet(left'[r]) \cup {Ahead}
<1> DEFINE c == Current
           a == Ahead
<1>1. \A s : DependsOn(s)' = DependsOn(s) /\ LeadsTo(s)' = LeadsTo(s)
  BY SameDepends
<1>2. path \in Seq(Recipes) /\ path # << >> /\ left \in [Recipes -> Seq(Recipes)]
  BY DEF WalkInv, WalkCall, WalkTypeOK, AtDependency
<1>3. c \in Recipes /\ c \in ToSet(path)
  BY <1>2, EndOfPath DEF Current
<1>4. /\ Tail(left[c]) \in Seq(Recipes) /\ ToSet(left[c]) = ToSet(Tail(left[c])) \cup {a}
  <2>1. left[c] \in Seq(Recipes) /\ left[c] # << >> /\ a = Head(left[c])
    BY <1>2, <1>3 DEF AtDependency, Ahead
  <2> HIDE DEF a, c
  <2> QED BY <2>1, Popping
<1>5. /\ left' \in [Recipes -> Seq(Recipes)] /\ left'[c] = Tail(left[c])
      /\ \A r \in Recipes : r # c => left'[r] = left[r]
  <2>1. left' = [left EXCEPT ![c] = Tail(left[c])]
    OBVIOUS
  <2> HIDE DEF a, c
  <2> QED BY <1>2, <1>3, <1>4, <2>1
<1>6. a \in visited
  OBVIOUS
<1> HIDE DEF a, c
<1>7. WalkTypeOK' /\ WalkCall'
  BY <1>5 DEF WalkInv, WalkTypeOK, WalkCall, WholeGraph, FromStart
<1>8. Chain'
  BY <1>1 DEF WalkInv, Chain
<1>9. Over' = Over
  BY DEF Over
<1>10. Looked'
  <2>1. ASSUME NEW r \in ToSet(path)
        PROVE  ToSet(left'[r]) \subseteq DependsOn(r) /\ DependsOn(r) \subseteq visited \cup ToSet(left'[r])
    <3>1. r \in Recipes
      BY DEF WalkInv, WalkTypeOK
    <3>2. CASE r = c
      BY <1>3, <1>4, <1>5, <1>6, <3>2 DEF WalkInv, Looked
    <3>3. CASE r # c
      BY <1>5, <3>1, <3>3 DEF WalkInv, Looked
    <3> QED BY <3>2, <3>3
  <2> QED BY <1>1, <1>9, <2>1 DEF WalkInv, Looked
<1>11. SortedAre' /\ DependenciesFirst' /\ FromTheStart' /\ WalkEnded'
  BY <1>1, <1>9 DEF WalkInv, SortedAre, DependenciesFirst, FromTheStart, FromStart, WholeGraph, WalkEnded, AtDependency
<1>12. \A r \in Recipes : ToSet(left[r]) \subseteq ToSet(left'[r]) \cup {Ahead}
  BY <1>4, <1>5 DEF a
<1> QED BY <1>7, <1>8, <1>10, <1>11, <1>12

(* A dependency that was visited and is not on the path is passed over.    *)
LEMMA WalkPasses == WalkInv /\ Pass => WalkInv'
<1> SUFFICES ASSUME WalkInv, Pass PROVE WalkInv'
  OBVIOUS
<1>1. /\ AtDependency /\ Ahead \in visited /\ left' = [left EXCEPT ![Current] = Tail(@)]
      /\ walk \in WholeGraph => Ahead \notin ToSet(path)
      /\ UNCHANGED <<walk, start, depends, visited, path, sorted, cycles, walked>>
  BY DEF Pass, OnPath
<1>2. /\ WalkTypeOK' /\ WalkCall' /\ Chain' /\ Looked' /\ SortedAre' /\ DependenciesFirst'
      /\ FromTheStart' /\ WalkEnded'
      /\ \A r \in Recipes : ToSet(left[r]) \subseteq ToSet(left'[r]) \cup {Ahead}
  BY <1>1, WalkLooks
<1>3. \A s : DependsOn(s)' = DependsOn(s) /\ LeadsTo(s)' = LeadsTo(s)
  BY <1>1, SameDepends
<1>4. Over' = Over
  BY <1>1 DEF Over
<1>5. NoWayUp'
  <2>1. SUFFICES ASSUME Strict' PROVE NoWayUp'
    BY DEF NoWayUp
  <2>2. Strict
    BY <1>1, <2>1 DEF Strict
  <2>3. Ahead \in Over
    BY <1>1, <2>2 DEF Over, Strict, WholeGraph
  <2>4. ASSUME NEW i \in 1 .. Len(path), NEW d \in DependsOn(path[i])
        PROVE  d \in Over \/ d \in ToSet(left'[path[i]]) \/ (i < Len(path) /\ d = path[i + 1])
    <3>1. path[i] \in Recipes
      BY DEF WalkInv, WalkCall
    <3>2. d \in Over \/ d \in ToSet(left[path[i]]) \/ (i < Len(path) /\ d = path[i + 1])
      BY <2>2 DEF WalkInv, NoWayUp
    <3> QED BY <1>2, <2>3, <3>1, <3>2
  <2>5. \A r \in Over : DependsOn(r) \subseteq Over /\ r \notin LeadsTo(r)
    BY <2>2 DEF WalkInv, NoWayUp
  <2> QED BY <1>1, <1>3, <1>4, <2>4, <2>5 DEF NoWayUp
<1>6. CyclesLoop'
  BY <1>1, <1>3 DEF WalkInv, CyclesLoop
<1> QED BY <1>2, <1>5, <1>6 DEF WalkInv

(* The first place of a node on the path.                                  *)
LEMMA PlaceOnPath ==
    ASSUME path \in Seq(Recipes), NEW a \in ToSet(path)
    PROVE  LET k == SelectInSeq(path, LAMBDA r : r = a) IN k \in 1 .. Len(path) /\ path[k] = a
<1> DEFINE I == {i \in 1 .. Len(path) : path[i] = a}
<1>1. I # {}
  BY DEF ToSet
<1>2. PICK k \in Nat : k \in I /\ \A j \in 0 .. k - 1 : j \notin I
  <2>1. PICK i \in I : i \in Nat
    BY <1>1
  <2> HIDE DEF I
  <2> QED BY <2>1, LeastNumber
<1>3. \A j \in I : k <= j
  BY <1>2
<1>4. Min(I) \in I
  BY <1>2, <1>3 DEF Min
<1>5. SelectInSeq(path, LAMBDA r : r = a) = Min(I)
  BY <1>1 DEF SelectInSeq
<1> HIDE DEF I
<1>6. Min(I) \in 1 .. Len(path) /\ path[Min(I)] = a
  BY <1>4 DEF I
<1> QED BY <1>5, <1>6

(* A dependency on the path closes a loop, and the walk of detect_cycles   *)
(* goes on.                                                                *)
LEMMA WalkFindsCycle == WalkInv /\ FoundCycle => WalkInv'
<1> SUFFICES ASSUME WalkInv, FoundCycle PROVE WalkInv'
  OBVIOUS
<1> DEFINE k == SelectInSeq(path, LAMBDA r : r = Ahead)
           n == Len(path)
           loop == SubSeq(path, k, n)
<1>1. /\ AtDependency /\ Ahead \in ToSet(path) /\ left' = [left EXCEPT ![Current] = Tail(@)]
      /\ walk = "detect_cycles" /\ cycles' = cycles \cup {loop}
      /\ UNCHANGED <<walk, start, depends, visited, path, sorted, walked>>
  BY DEF FoundCycle, OnPath
<1>2. Ahead \in visited
  BY <1>1 DEF WalkInv, WalkTypeOK
<1>3. /\ WalkTypeOK' /\ WalkCall' /\ Chain' /\ Looked' /\ SortedAre' /\ DependenciesFirst'
      /\ FromTheStart' /\ WalkEnded'
  BY <1>1, <1>2, WalkLooks
<1>4. NoWayUp'
  BY <1>1 DEF NoWayUp, Strict
<1>5. path \in Seq(Recipes) /\ path # << >> /\ n \in Nat \ {0}
  BY <1>1, EndOfPath DEF WalkInv, WalkCall, AtDependency
<1>6. k \in 1 .. n /\ path[k] = Ahead
  BY <1>1, <1>5, PlaceOnPath
<1>7. path[n] = Current /\ Ahead \in DependsOn(path[n])
  <2>1. path[n] = Current /\ Current \in ToSet(path) /\ Current \in Recipes
    BY <1>5, EndOfPath DEF Current
  <2>2. left[Current] \in Seq(Recipes) /\ left[Current] # << >> /\ Ahead = Head(left[Current])
    BY <1>1, <2>1 DEF AtDependency, Ahead, WalkInv, WalkTypeOK
  <2>3. Ahead \in ToSet(left[Current])
    BY <2>2, Popping
  <2> QED BY <2>1, <2>3 DEF WalkInv, Looked
<1> HIDE DEF k
<1>8. /\ DOMAIN loop = 1 .. n - k + 1 /\ Len(loop) = n - k + 1
      /\ \A i \in 1 .. n - k + 1 : loop[i] = path[k + i - 1]
  BY <1>5, <1>6
<1> HIDE DEF loop
<1>9. ASSUME NEW i \in DOMAIN loop PROVE loop[IF i = Len(loop) THEN 1 ELSE i + 1] \in DependsOn(loop[i])
  <2>1. i \in 1 .. n - k + 1 /\ loop[i] = path[k + i - 1]
    BY <1>8
  <2>2. CASE i = Len(loop)
    <3>1. k + i - 1 = n /\ 1 \in 1 .. n - k + 1 /\ k + 1 - 1 = k
      BY <1>5, <1>6, <1>8, <2>2
    <3>2. loop[1] = path[k]
      BY <1>8, <3>1
    <3> QED BY <1>6, <1>7, <2>1, <2>2, <3>1, <3>2
  <2>3. CASE i # Len(loop)
    <3>1. i + 1 \in 1 .. n - k + 1 /\ k + (i + 1) - 1 = (k + i - 1) + 1 /\ k + i - 1 \in 1 .. n - 1
      <4>1. n \in Nat /\ k \in 1 .. n /\ i \in 1 .. n - k + 1 /\ i # n - k + 1
        BY <1>5, <1>6, <1>8, <2>1, <2>3
      <4> HIDE DEF n
      <4> QED BY <4>1
    <3>2. loop[i + 1] = path[(k + i - 1) + 1]
      BY <1>8, <3>1
    <3>3. path[(k + i - 1) + 1] \in DependsOn(path[k + i - 1])
      BY <3>1 DEF WalkInv, Chain
    <3> QED BY <2>1, <2>3, <3>2, <3>3
  <2> QED BY <2>2, <2>3
<1>10. \A s : DependsOn(s)' = DependsOn(s)
  BY <1>1, SameDepends
<1>11. CyclesLoop'
  BY <1>1, <1>9, <1>10 DEF WalkInv, CyclesLoop
<1> QED BY <1>3, <1>4, <1>11 DEF WalkInv

(* A dependency on the path ends the walk of the sorts: the graph has a    *)
(* cycle.                                                                  *)
LEMMA WalkFails == WalkInv /\ CircularDependency => WalkInv'
<1> SUFFICES ASSUME WalkInv, CircularDependency PROVE WalkInv'
  OBVIOUS
<1>1. /\ AtDependency /\ Ahead \in ToSet(path) /\ walked' = "circular" /\ walked = "no"
      /\ UNCHANGED <<walk, start, depends, visited, path, left, sorted, cycles>>
  BY DEF CircularDependency, OnPath, AtDependency
<1>2. \A s : DependsOn(s)' = DependsOn(s) /\ LeadsTo(s)' = LeadsTo(s)
  BY <1>1, SameDepends
<1>3. Over' = Over
  BY <1>1 DEF Over
<1>4. WalkTypeOK' /\ WalkCall' /\ Chain' /\ Looked' /\ NoWayUp' /\ SortedAre'
  BY <1>1, <1>2, <1>3 DEF WalkInv, WalkTypeOK, WalkCall, Chain, Looked, NoWayUp, Strict, SortedAre, WholeGraph, FromStart
<1>5. DependenciesFirst' /\ FromTheStart' /\ CyclesLoop'
  BY <1>1, <1>2 DEF WalkInv, DependenciesFirst, FromTheStart, CyclesLoop, FromStart
<1>6. Ahead \in LeadsTo(Ahead) /\ Ahead \in Recipes
  <2> DEFINE n == Len(path)
  <2>1. path \in Seq(Recipes) /\ path # << >>
    BY <1>1 DEF WalkInv, WalkCall, AtDependency
  <2>2. n \in Nat \ {0} /\ path[n] = Current /\ Current \in ToSet(path) /\ Current \in Recipes
    BY <2>1, EndOfPath DEF Current
  <2>3. left[Current] \in Seq(Recipes) /\ left[Current] # << >> /\ Ahead = Head(left[Current])
    BY <1>1, <2>2 DEF AtDependency, Ahead, WalkInv, WalkTypeOK
  <2>4. Ahead \in ToSet(left[Current]) /\ Ahead \in Recipes
    BY <2>3, Popping
  <2>5. Ahead \in DependsOn(Current)
    BY <2>2, <2>4 DEF WalkInv, Looked
  <2>6. PICK i \in 1 .. n : path[i] = Ahead
    BY <1>1, <2>1 DEF ToSet
  <2>7. Current = Ahead \/ Current \in LeadsTo(Ahead)
    <3>1. CASE i = n
      BY <2>2, <2>6, <3>1
    <3>2. CASE i # n
      <4>1. i < n /\ n \in 1 .. n
        BY <2>2, <2>6, <3>2
      <4>2. path[n] \in LeadsTo(path[i])
        BY <4>1 DEF WalkInv, Chain
      <4> QED BY <2>2, <2>6, <4>2
    <3> QED BY <3>1, <3>2
  <2> HIDE DEF n
  <2>8. DependsOn(Ahead) \subseteq LeadsTo(Ahead) /\ \A s \in LeadsTo(Ahead) : DependsOn(s) \subseteq LeadsTo(Ahead)
    BY <2>4, LeadsFacts DEF WalkInv, WalkCall
  <2> QED BY <2>4, <2>5, <2>7, <2>8
<1>7. WalkEnded'
  BY <1>1, <1>2, <1>6 DEF WalkEnded, CyclicGraph
<1> QED BY <1>4, <1>5, <1>7 DEF WalkInv

(* A recipe is sorted when everything it depends on was, and leaves the    *)
(* path.                                                                   *)
LEMMA WalkLeaves == WalkInv /\ Leave => WalkInv'
<1> SUFFICES ASSUME WalkInv, Leave PROVE WalkInv'
  OBVIOUS
<1> DEFINE c == Current
           n == Len(path)
<1>1. /\ walked = "no" /\ path # << >> /\ left[c] = << >> /\ path' = Front(path)
      /\ UNCHANGED <<walk, start, depends, visited, left, cycles, walked>>
  BY DEF Leave
<1>2. \A s : DependsOn(s)' = DependsOn(s) /\ LeadsTo(s)' = LeadsTo(s)
  BY <1>1, SameDepends
<1>3. /\ path \in Seq(Recipes) /\ sorted \in Seq(Recipes) /\ depends \in [Recipes -> Seq(Recipes)] /\ start \in Recipes
      /\ IsInjective(path) /\ ToSet(path) \subseteq visited /\ visited \subseteq Recipes /\ IsInjective(sorted)
      /\ ToSet(sorted) \subseteq visited
  BY DEF WalkInv, WalkCall, WalkTypeOK
<1>4. /\ n \in Nat \ {0} /\ DOMAIN path = 1 .. n /\ c = path[n] /\ c \in Recipes /\ c \in ToSet(path)
      /\ path' \in Seq(Recipes) /\ Len(path') = n - 1 /\ \A i \in 1 .. n - 1 : path'[i] = path[i]
      /\ IsInjective(path') /\ ToSet(path') = ToSet(path) \ {c}
  BY <1>1, <1>3, EndOfPath DEF Current
<1>5. Over' = Over \cup {c} /\ c \notin Over
  BY <1>1, <1>3, <1>4 DEF Over
<1>6. ToSet(left[c]) = {}
  BY <1>1 DEF ToSet
<1>7. DependsOn(c) \subseteq visited
  BY <1>4, <1>6 DEF WalkInv, Looked
<1> HIDE DEF c
<1>8. /\ walk \in {"topological_sort", "sorted_files"} =>
            /\ sorted' = Append(sorted, c) /\ sorted' \in Seq(Recipes) /\ Len(sorted') = Len(sorted) + 1
            /\ \A i \in 1 .. Len(sorted) : sorted'[i] = sorted[i]
            /\ sorted'[Len(sorted) + 1] = c /\ ToSet(sorted') = ToSet(sorted) \cup {c}
            /\ IsInjective(sorted')
      /\ walk \notin {"topological_sort", "sorted_files"} => sorted' = sorted
  <2>1. CASE walk \in {"topological_sort", "sorted_files"}
    <3>1. sorted' = Append(sorted, c)
      BY <2>1 DEF Leave, c
    <3>2. c \notin ToSet(sorted)
      BY <1>5, <2>1 DEF WalkInv, SortedAre
    <3> DEFINE s == Append(sorted, c)
    <3>3. /\ s \in Seq(Recipes) /\ Len(s) = Len(sorted) + 1 /\ \A i \in 1 .. Len(sorted) : s[i] = sorted[i]
          /\ s[Len(sorted) + 1] = c /\ ToSet(s) = ToSet(sorted) \cup {c} /\ IsInjective(s)
      BY <1>3, <1>4, <3>2, Appending
    <3>4. sorted' = s
      BY <3>1
    <3> HIDE DEF s
    <3> QED BY <2>1, <3>1, <3>3, <3>4
  <2>2. CASE walk \notin {"topological_sort", "sorted_files"}
    BY <2>2 DEF Leave
  <2> QED BY <2>1, <2>2
<1>9. WalkTypeOK'
  <2>1. ToSet(sorted') \subseteq visited /\ IsInjective(sorted')
    BY <1>3, <1>4, <1>8
  <2> QED BY <1>1, <1>3, <1>4, <2>1 DEF WalkInv, WalkTypeOK
<1>10. WalkCall'
  BY <1>1, <1>3, <1>4, <1>8 DEF WalkInv, WalkCall, WholeGraph, FromStart
<1>11. \A i \in 1 .. n - 1 : i \in 1 .. n /\ i < n /\ i + 1 \in 1 .. n
  BY <1>4
<1>12. Chain'
  <2>1. ASSUME NEW i \in 1 .. (n - 1) - 1 PROVE path'[i + 1] \in DependsOn(path'[i])
    <3>1. i \in 1 .. n - 1 /\ i + 1 \in 1 .. n - 1
      BY <1>4
    <3>2. path[i + 1] \in DependsOn(path[i])
      BY <3>1 DEF WalkInv, Chain
    <3> QED BY <1>4, <3>1, <3>2
  <2>2. ASSUME NEW i \in 1 .. n - 1, NEW j \in 1 .. n - 1, i < j PROVE path'[j] \in LeadsTo(path'[i])
    <3>1. path[j] \in LeadsTo(path[i])
      BY <1>11, <2>2 DEF WalkInv, Chain
    <3> QED BY <1>4, <3>1
  <2> HIDE DEF n
  <2> QED BY <1>2, <1>4, <2>1, <2>2 DEF Chain
<1>13. Looked'
  <2>1. \A r \in ToSet(path') : /\ ToSet(left[r]) \subseteq DependsOn(r)
                                /\ DependsOn(r) \subseteq visited \cup ToSet(left[r])
    BY <1>4 DEF WalkInv, Looked
  <2>2. \A r \in Over' : DependsOn(r) \subseteq visited
    BY <1>5, <1>7 DEF WalkInv, Looked
  <2> QED BY <1>1, <1>2, <2>1, <2>2 DEF Looked
<1>14. ASSUME Strict PROVE DependsOn(c) \subseteq Over /\ \A r \in Over : DependsOn(r) \subseteq Over /\ r \notin LeadsTo(r)
  <2>1. n \in 1 .. n /\ ~ (n < n)
    BY <1>4
  <2> QED BY <1>4, <1>6, <1>14, <2>1 DEF WalkInv, NoWayUp
<1>15. NoWayUp'
  <2>1. SUFFICES ASSUME Strict' PROVE NoWayUp'
    BY DEF NoWayUp
  <2>2. Strict
    BY <1>1, <2>1 DEF Strict
  <2>3. ASSUME NEW i \in 1 .. n - 1, NEW d \in DependsOn(path'[i])
        PROVE  d \in Over' \/ d \in ToSet(left[path'[i]]) \/ (i < n - 1 /\ d = path'[i + 1])
    <3>1. path'[i] = path[i] /\ i \in 1 .. n
      BY <1>4, <1>11
    <3>2. d \in Over \/ d \in ToSet(left[path[i]]) \/ (i < n /\ d = path[i + 1])
      BY <2>2, <2>3, <3>1 DEF WalkInv, NoWayUp
    <3>3. CASE d = path[i + 1] /\ i = n - 1
      <4>1. i + 1 = n
        BY <1>4, <3>3
      <4> QED BY <1>4, <1>5, <3>3, <4>1
    <3>4. CASE d = path[i + 1] /\ i # n - 1
      <4>1. i < n - 1 /\ i + 1 \in 1 .. n - 1
        <5>1. n \in Nat \ {0} /\ i \in 1 .. n - 1 /\ i # n - 1
          BY <1>4, <3>4
        <5> HIDE DEF n
        <5> QED BY <5>1
      <4> QED BY <1>4, <3>4, <4>1
    <3> QED BY <1>5, <3>1, <3>2, <3>3, <3>4
  <2>4. c \notin LeadsTo(c)
    <3>1. Over \in SUBSET Recipes
      BY <1>3 DEF Over
    <3>2. LeadsTo(c) \subseteq Over
      BY <1>3, <1>4, <1>14, <2>2, <3>1, LeadsFacts
    <3> QED BY <1>5, <3>2
  <2>5. \A r \in Over' : DependsOn(r) \subseteq Over' /\ r \notin LeadsTo(r)
    BY <1>5, <1>14, <2>2, <2>4
  <2> HIDE DEF n
  <2> QED BY <1>1, <1>2, <1>4, <2>3, <2>5 DEF NoWayUp
<1>16. SortedAre'
  BY <1>1, <1>5, <1>8 DEF WalkInv, SortedAre
<1>17. DependenciesFirst'
  <2>1. SUFFICES ASSUME walk \in {"topological_sort", "sorted_files"} PROVE DependenciesFirst'
    BY <1>1 DEF DependenciesFirst
  <2> DEFINE m == Len(sorted)
  <2>2. m \in Nat /\ DOMAIN sorted' = 1 .. m + 1 /\ DOMAIN sorted = 1 .. m
    BY <1>3, <1>8, <2>1
  <2>3. ASSUME NEW j \in 1 .. m + 1, NEW d \in DependsOn(sorted'[j])
        PROVE  (\E i \in 1 .. j - 1 : sorted'[i] = d) \/ (walk = "sorted_files" /\ sorted'[j] \in LeadsTo(d))
    <3>1. CASE j # m + 1
      <4>1. j \in 1 .. m /\ \A i \in 1 .. j - 1 : i \in 1 .. m
        BY <2>2, <3>1
      <4>2. sorted'[j] = sorted[j]
        BY <1>8, <2>1, <4>1
      <4>3. (\E i \in 1 .. j - 1 : sorted[i] = d) \/ (walk = "sorted_files" /\ sorted[j] \in LeadsTo(d))
        BY <2>1, <2>2, <2>3, <4>1, <4>2 DEF WalkInv, DependenciesFirst
      <4> QED BY <1>8, <2>1, <4>1, <4>2, <4>3
    <3>2. CASE j = m + 1
      <4>1. sorted'[j] = c /\ d \in visited /\ j - 1 = m
        BY <1>7, <1>8, <2>1, <2>2, <2>3, <3>2
      <4>2. CASE d \in Over
        <5>1. d \in ToSet(sorted)
          BY <2>1, <4>2 DEF WalkInv, SortedAre
        <5>2. PICK i \in 1 .. m : sorted[i] = d
          BY <2>2, <5>1 DEF ToSet
        <5>3. sorted'[i] = d
          BY <1>8, <2>1, <5>2
        <5> QED BY <4>1, <5>3
      <4>3. CASE d \notin Over
        <5>1. d \in ToSet(path)
          BY <4>1, <4>3 DEF Over
        <5>2. walk = "sorted_files"
          <6>1. ~ Strict
            BY <1>14, <2>3, <4>1, <4>3
          <6> QED BY <2>1, <6>1 DEF Strict
        <5>3. PICK i \in 1 .. n : path[i] = d
          BY <1>4, <5>1 DEF ToSet
        <5>4. c \in LeadsTo(d)
          <6>1. CASE i = n
            <7>1. DependsOn(c) \subseteq LeadsTo(c) /\ d = c
              BY <1>3, <1>4, <5>3, <6>1, LeadsFacts
            <7> QED BY <2>3, <4>1, <7>1
          <6>2. CASE i # n
            <7>1. i < n /\ n \in 1 .. n
              <8>1. n \in Nat \ {0} /\ i \in 1 .. n /\ i # n
                BY <1>4, <6>2
              <8> HIDE DEF n
              <8> QED BY <8>1
            <7>2. path[n] \in LeadsTo(path[i])
              BY <7>1 DEF WalkInv, Chain
            <7> QED BY <1>4, <5>3, <7>2
          <6> QED BY <6>1, <6>2
        <5> QED BY <4>1, <5>2, <5>4
      <4> QED BY <4>2, <4>3
    <3> QED BY <3>1, <3>2
  <2> HIDE DEF m
  <2> QED BY <1>1, <1>2, <2>2, <2>3 DEF DependenciesFirst
<1>18. FromTheStart'
  <2>1. SUFFICES ASSUME walk \in FromStart PROVE FromTheStart'
    BY <1>1 DEF FromTheStart, FromStart
  <2>2. path[1] = start /\ visited \subseteq LeadsTo(start) \cup {start} /\ start \in visited
    BY <1>1, <1>3, <1>4, <2>1 DEF WalkInv, FromTheStart
  <2>3. ASSUME path' # << >> PROVE path'[1] = start
    <3>1. 1 \in 1 .. n - 1
      <4>1. Len(path') # 0
        BY <1>4, <2>3, EmptySeq
      <4> HIDE DEF n
      <4> QED BY <1>4, <4>1
    <3> QED BY <1>4, <2>2, <3>1
  <2>4. ASSUME path' = << >>, walk = "sorted_files" PROVE sorted' # << >> /\ Last(sorted') = start
    <3>1. Len(path') = 0
      BY <2>4
    <3>2. n = 1
      <4> HIDE DEF n
      <4> QED BY <1>4, <3>1
    <3>3. c = start
      BY <1>4, <2>2, <3>2
    <3>4. Len(sorted) \in Nat /\ Len(sorted') = Len(sorted) + 1 /\ sorted'[Len(sorted) + 1] = c
      BY <1>3, <1>8, <2>4
    <3>5. Last(sorted') = c /\ Len(sorted') # 0
      BY <3>4 DEF Last
    <3>6. Len(<< >>) = 0
      OBVIOUS
    <3> QED BY <3>3, <3>5, <3>6
  <2> QED BY <1>1, <1>2, <2>2, <2>3, <2>4 DEF FromTheStart
<1>19. CyclesLoop' /\ WalkEnded'
  BY <1>1, <1>2 DEF WalkInv, CyclesLoop, WalkEnded
<1> QED BY <1>9, <1>10, <1>12, <1>13, <1>15, <1>16, <1>17, <1>18, <1>19 DEF WalkInv

(* Every step of a walk keeps the invariant.                               *)
LEMMA WalkInductive == ASSUME WalkInv, [WalkStep]_walkVars PROVE WalkInv'
<1>1. ASSUME NEW r \in Recipes, EnterRecipe(r) PROVE WalkInv'
  <2>1. walk \notin FromStart
    BY <1>1 DEF EnterRecipe, WholeGraph, FromStart
  <2> QED BY <1>1, <2>1, WalkEnters DEF EnterRecipe
<1>2. CASE EnterStart
  <2>1. start \in Recipes /\ ToSet(path) = {}
    BY <1>2 DEF WalkInv, WalkTypeOK, WalkCall, EnterStart
  <2>2. path = << >>
    BY <2>1, EndOfPath DEF WalkInv, WalkCall
  <2> QED BY <1>2, <2>1, <2>2, WalkEnters DEF EnterStart
<1>3. CASE EndWalk
  <2>1. \A s : DependsOn(s)' = DependsOn(s) /\ LeadsTo(s)' = LeadsTo(s)
    BY <1>3, SameDepends DEF EndWalk
  <2>2. Over' = Over
    BY <1>3 DEF EndWalk, Over
  <2>3. WalkTypeOK' /\ WalkCall' /\ Chain' /\ Looked' /\ NoWayUp' /\ SortedAre'
    BY <1>3, <2>1, <2>2 DEF EndWalk, WalkInv, WalkTypeOK, WalkCall, Chain, Looked, NoWayUp, Strict, SortedAre, WholeGraph, FromStart
  <2>4. DependenciesFirst' /\ FromTheStart' /\ CyclesLoop'
    BY <1>3, <2>1 DEF EndWalk, WalkInv, DependenciesFirst, FromTheStart, CyclesLoop, FromStart
  <2>5. WalkEnded'
    BY <1>3 DEF EndWalk, WalkEnded, WholeGraph, FromStart
  <2> QED BY <2>3, <2>4, <2>5 DEF WalkInv
<1>4. CASE UNCHANGED walkVars
  <2>1. \A s : DependsOn(s)' = DependsOn(s) /\ LeadsTo(s)' = LeadsTo(s)
    BY <1>4, SameDepends DEF walkVars
  <2>2. Over' = Over
    BY <1>4 DEF walkVars, Over
  <2>3. WalkTypeOK' /\ WalkCall' /\ Chain' /\ Looked' /\ NoWayUp' /\ SortedAre'
    BY <1>4, <2>1, <2>2 DEF walkVars, WalkInv, WalkTypeOK, WalkCall, Chain, Looked, NoWayUp, Strict, SortedAre, WholeGraph, FromStart
  <2>4. DependenciesFirst' /\ FromTheStart' /\ CyclesLoop' /\ WalkEnded'
    BY <1>4, <2>1 DEF walkVars, WalkInv, DependenciesFirst, FromTheStart, CyclesLoop, WalkEnded, CyclicGraph, FromStart, WholeGraph
  <2> QED BY <2>3, <2>4 DEF WalkInv
<1> QED BY <1>1, <1>2, <1>3, <1>4, WalkDescends, WalkPasses, WalkFindsCycle, WalkFails, WalkLeaves DEF WalkStep

(* The invariant contains what the run checks of the walks.                *)
LEMMA WalkInvSound == WalkInv => WalksSound
<1> SUFFICES ASSUME WalkInv PROVE WalksSound
  OBVIOUS
<1>1. ASSUME path = << >> PROVE Over = visited
  BY <1>1 DEF Over, ToSet
<1>2. ASSUME walked = "ok", Strict PROVE ~ CyclicGraph
  <2>1. Over = Recipes
    BY <1>1, <1>2 DEF WalkInv, WalkEnded, Strict, WholeGraph
  <2> QED BY <1>2, <2>1 DEF WalkInv, NoWayUp, CyclicGraph
<1>3. CyclesAreReal
  BY <1>2 DEF WalkInv, WalkEnded, CyclesLoop, CyclesAreReal, Strict
<1>4. ASSUME walked = "ok", walk \in FromStart PROVE visited = LeadsTo(start) \cup {start}
  <2>1. Over = visited /\ visited \in SUBSET Recipes /\ start \in visited
    BY <1>1, <1>4 DEF WalkInv, WalkEnded, WalkTypeOK, FromTheStart
  <2>2. \A r \in visited : DependsOn(r) \subseteq visited
    BY <2>1 DEF WalkInv, Looked
  <2>3. LeadsTo(start) \subseteq visited
    BY <2>1, <2>2, LeadsFacts DEF WalkInv, WalkCall
  <2> QED BY <1>4, <2>1, <2>3 DEF WalkInv, FromTheStart
<1>5. WalkComplete
  <2>1. ASSUME walked = "ok", walk = "topological_sort" PROVE ToSet(sorted) = Recipes
    BY <1>1, <2>1 DEF WalkInv, WalkEnded, SortedAre, WholeGraph
  <2>2. ASSUME walked = "ok", walk = "get_all_dependencies" PROVE ToSet(sorted) = LeadsTo(start) \ {start}
    <3>1. ToSet(sorted) = visited \ {start}
      BY <2>2 DEF WalkInv, SortedAre
    <3> QED BY <1>4, <2>2, <3>1 DEF FromStart
  <2>3. ASSUME walked = "ok", walk = "sorted_files"
        PROVE  ToSet(sorted) = LeadsTo(start) \cup {start} /\ Last(sorted) = start
    <3>1. path = << >> /\ visited # {} /\ walk \in FromStart
      BY <2>3 DEF WalkInv, WalkEnded, FromStart
    <3> QED BY <1>1, <1>4, <2>3, <3>1 DEF WalkInv, SortedAre, FromTheStart
  <2> QED BY <2>1, <2>2, <2>3 DEF WalkComplete
<1> QED BY <1>3, <1>5 DEF WalkInv, WalksSound

(* The walks over the recipes and the kas files return all of what they    *)
(* are asked for, dependencies first, and find a cycle exactly where there *)
(* is one, on every finite graph.                                          *)
THEOREM WalksAreSound == WalkInit /\ [][WalkStep]_walkVars => []WalksSound
<1>1. WalkInit => WalkInv
  BY WalkInitially
<1>2. WalkInv /\ [WalkStep]_walkVars => WalkInv'
  BY WalkInductive
<1>3. WalkInv => WalksSound
  BY WalkInvSound
<1> QED BY <1>1, <1>2, <1>3, PTL

-----------------------------------------------------------------------------
(* The neighbours as a function; the edges, each once; those to a node.    *)
OutgoingMap == [n \in Nodes |-> Outgoing(n)]
Edges == BagToSet(edges)
EdgesTo(n) == {e \in Edges : e[2] = n}
InGraph == Edges \subseteq Nodes \X Nodes

(* ReachableFrom(n) is the least set that has the node, and with a node    *)
(* its neighbours.                                                         *)
LEMMA ReachableIsReach ==
    ASSUME InGraph, NEW r \in Nodes
    PROVE  IsReach(ReachableFrom(r), {r}, OutgoingMap, Nodes)
<1> DEFINE Eqn(f) == f = [k \in Nat |->
                            IF k = 0 THEN {r}
                            ELSE f[k - 1] \cup UNION {Outgoing(m) : m \in f[k - 1]}]
           found == CHOOSE f : Eqn(f)
           Within == {n \in Nat : found[n] \subseteq Nodes}
<1>1. \A s \in Nodes : Outgoing(s) \subseteq Nodes /\ OutgoingMap[s] = Outgoing(s)
  BY DEF Outgoing, OutgoingMap, InGraph, Edges
<1>2. OutgoingMap \in [Nodes -> SUBSET Nodes] /\ {r} \in SUBSET Nodes
  BY <1>1 DEF OutgoingMap
<1>3. \E f : Eqn(f)
  <2>1. PICK f \in [Nat -> SUBSET Nodes] : Grows(f, {r}, OutgoingMap)
    BY <1>2, GrowthExists
  <2>2. \A n \in Nat \ {0} : n - 1 \in Nat /\ n = (n - 1) + 1
    OBVIOUS
  <2>3. ASSUME NEW n \in Nat \ {0}
        PROVE  f[n] = f[n - 1] \cup UNION {Outgoing(s) : s \in f[n - 1]}
    <3>1. f[n] = f[n - 1] \cup UNION {OutgoingMap[s] : s \in f[n - 1]} /\ f[n - 1] \subseteq Nodes
      BY <2>1, <2>2 DEF Grows
    <3> QED BY <1>1, <3>1
  <2>4. f[0] = {r}
    BY <2>1 DEF Grows
  <2>5. Eqn(f)
    BY <2>1, <2>3, <2>4
  <2> QED BY <2>5
<1>4. Eqn(found)
  <2> HIDE DEF Eqn
  <2> QED BY <1>3
<1>5. ReachableFrom(r) = found[Cardinality(Nodes)]
  BY DEF ReachableFrom
<1> HIDE DEF found
<1>6. found[0] = {r}
  BY <1>4
<1>7. ASSUME NEW n \in Nat PROVE found[n + 1] = found[n] \cup UNION {Outgoing(s) : s \in found[n]}
  <2>1. n + 1 \in Nat /\ n + 1 # 0 /\ (n + 1) - 1 = n
    OBVIOUS
  <2> QED BY <1>4, <2>1
<1> HIDE DEF Eqn
<1>8. Nat \subseteq Within
  <2>1. 0 \in Within
    BY <1>2, <1>6
  <2>2. ASSUME NEW n \in Nat, n \in Within PROVE n + 1 \in Within
    <3>1. found[n + 1] = found[n] \cup UNION {Outgoing(s) : s \in found[n]}
      BY <1>7
    <3>2. found[n] \subseteq Nodes /\ n + 1 \in Nat
      BY <2>2
    <3>3. \A s \in found[n] : Outgoing(s) \subseteq Nodes
      BY <1>1, <3>2
    <3> QED BY <3>1, <3>2, <3>3
  <2> HIDE DEF Within
  <2> QED BY <2>1, <2>2, SetInduction
<1>9. Grows(found, {r}, OutgoingMap)
  <2>1. ASSUME NEW n \in Nat PROVE found[n + 1] = found[n] \cup UNION {OutgoingMap[s] : s \in found[n]}
    <3>1. found[n + 1] = found[n] \cup UNION {Outgoing(s) : s \in found[n]}
      BY <1>7
    <3>2. \A s \in found[n] : OutgoingMap[s] = Outgoing(s)
      BY <1>1, <1>8
    <3> QED BY <3>1, <3>2
  <2> QED BY <1>6, <2>1 DEF Grows
<1> QED BY <1>2, <1>5, <1>9, NodesFinite, GrowthEnds

(* Before a step, of every node at once.                                   *)
LEMMA ReachableNow == InGraph => \A r \in Nodes : IsReach(ReachableFrom(r), {r}, OutgoingMap, Nodes)
BY ReachableIsReach

(* The same after a step.                                                  *)
LEMMA ReachableNext == InGraph' => (\A r \in Nodes : IsReach(ReachableFrom(r), {r}, OutgoingMap, Nodes))'
BY ReachableNow, PTL

(* What a node reaches is closed, has the node, and is the least such set. *)
LEMMA ReachableFacts ==
    ASSUME InGraph, NEW r \in Nodes
    PROVE  /\ r \in ReachableFrom(r) /\ ReachableFrom(r) \subseteq Nodes
           /\ \A s \in ReachableFrom(r) : Outgoing(s) \subseteq ReachableFrom(r)
           /\ \A C \in SUBSET Nodes :
                 r \in C /\ (\A s \in C : Outgoing(s) \subseteq C) => ReachableFrom(r) \subseteq C
<1>1. IsReach(ReachableFrom(r), {r}, OutgoingMap, Nodes)
  BY ReachableIsReach
<1> QED BY <1>1 DEF IsReach, ClosedUnder, OutgoingMap

-----------------------------------------------------------------------------
(* How often an edge is still to be discounted.                            *)
Rest == [e \in Edges |-> IF e[1] \in ToSet(order) THEN edges[e] - 1 ELSE edges[e]]

(* The types of the graph and of its sort.                                 *)
Graph ==
    /\ nodes \subseteq Nodes
    /\ Edges \subseteq nodes \X nodes
    /\ edges \in [Edges -> Nat \ {0}]
    /\ degrees \in [Nodes -> Int]
    /\ ready \in Seq(nodes) /\ order \in Seq(nodes)
    /\ IsInjective(ready) /\ IsInjective(order)
    /\ state \in {"building", "sorting", "sorted", "cycle"}

(* A degree counts what was not discounted yet; the nodes of degree 0 have *)
(* been placed or are in the queue, and each of them once.                 *)
DegreesCount ==
    IF state = "building" THEN order = << >> /\ ready = << >> /\ degrees = [n \in Nodes |-> 0]
    ELSE /\ \A n \in Nodes : degrees[n] = Sum(Rest, EdgesTo(n))
         /\ {n \in nodes : degrees[n] = 0} = ToSet(ready) \cup ToSet(order)
         /\ ToSet(ready) \cap ToSet(order) = {}

(* A placed node has its predecessors before it.                           *)
PlacedInOrder ==
    \A e \in Edges : \A j \in 1 .. Len(order) :
        order[j] = e[2] => \E i \in 1 .. j - 1 : order[i] = e[1]

(* How the sort ends.                                                      *)
SortEnded ==
    /\ state = "sorted" => ToSet(order) = nodes
    /\ state = "cycle" => ToSet(order) # nodes /\ ready = << >>

DagInv == Graph /\ DegreesCount /\ PlacedInOrder /\ SortEnded /\ NoWayBack

(* A graph without nodes satisfies the invariant.                          *)
LEMMA DagInitially == DagInit => DagInv
<1> SUFFICES ASSUME DagInit PROVE DagInv
  OBVIOUS
<1>1. Edges = {}
  BY DEF DagInit, Edges, BagToSet, EmptyBag, SetToBag
<1>2. edges \in [Edges -> Nat \ {0}]
  BY <1>1 DEF DagInit, EmptyBag, SetToBag
<1>3. IsInjective(<< >>) /\ << >> \in Seq(nodes)
  BY DEF IsInjective
<1>4. Graph
  BY <1>1, <1>2, <1>3 DEF Graph, DagInit
<1>5. NoWayBack
  BY <1>1 DEF NoWayBack, Edges
<1> QED BY <1>1, <1>4, <1>5 DEF DagInv, DegreesCount, PlacedInOrder, SortEnded, DagInit

(* The edges of a graph are between its nodes.                             *)
LEMMA InGraphHolds == Graph => InGraph
BY DEF Graph, InGraph

(* There are finitely many edges, and a sum over some of them is a number. *)
LEMMA EdgesFinite ==
    ASSUME Graph
    PROVE  IsFiniteSet(Edges) /\ Rest \in [Edges -> Nat] /\ \A n : EdgesTo(n) \in SUBSET Edges
<1>1. IsFiniteSet(Nodes \X Nodes)
  BY NodesFinite, FS_Product
<1>2. IsFiniteSet(Edges)
  BY <1>1, FS_Subset, InGraphHolds DEF InGraph
<1>3. \A e \in Edges : edges[e] \in Nat \ {0}
  BY DEF Graph
<1> QED BY <1>2, <1>3 DEF Rest, EdgesTo

(* Adding a node leaves the edges alone.                                   *)
LEMMA DagAddsNode == ASSUME DagInv, NEW n \in Nodes, AddNode(n) PROVE DagInv'
<1>1. Edges' = Edges /\ \A r : Outgoing(r)' = Outgoing(r) /\ ReachableFrom(r)' = ReachableFrom(r)
  BY DEF AddNode, Edges, Outgoing, ReachableFrom
<1>2. nodes \subseteq nodes' /\ nodes' \subseteq Nodes /\ nodes' = nodes \cup {n}
  BY DEF AddNode, DagInv, Graph
<1>3. Graph'
  BY <1>1, <1>2 DEF AddNode, DagInv, Graph
<1>4. DegreesCount' /\ PlacedInOrder' /\ SortEnded'
  BY <1>1 DEF AddNode, DagInv, DegreesCount, PlacedInOrder, SortEnded
<1>5. NoWayBack'
  BY <1>1 DEF AddNode, DagInv, NoWayBack, Edges
<1> QED BY <1>3, <1>4, <1>5 DEF DagInv

(* An edge is added only where no way leads back, and so closes no cycle.  *)
LEMMA DagAddsEdge == ASSUME DagInv, NEW from \in Nodes, NEW to \in Nodes, AddEdge(from, to) PROVE DagInv'
<1> DEFINE new == <<from, to>>
<1>1. Edges' = Edges \cup {new} /\ edges' \in [Edges' -> Nat \ {0}]
  <2>1. Edges' = Edges \cup {new}
    BY DEF AddEdge, Edges, BagToSet, SetToBag, (+)
  <2>2. \A e \in Edges : edges[e] \in Nat \ {0}
    BY DEF DagInv, Graph
  <2> QED BY <2>1, <2>2 DEF AddEdge, Edges, BagToSet, SetToBag, (+)
<1>2. /\ state = "building" /\ from \in nodes /\ to \in nodes /\ from \notin ReachableFrom(to)
      /\ UNCHANGED <<nodes, degrees, ready, order, state>>
  BY DEF AddEdge
<1>3. Graph'
  <2>1. Edges' \subseteq nodes \X nodes
    BY <1>1, <1>2 DEF DagInv, Graph
  <2> QED BY <1>1, <1>2, <2>1 DEF DagInv, Graph
<1>4. DegreesCount' /\ PlacedInOrder' /\ SortEnded'
  <2>1. order = << >> /\ Len(order) = 0
    BY <1>2 DEF DagInv, DegreesCount
  <2> QED BY <1>2, <2>1 DEF DagInv, DegreesCount, PlacedInOrder, SortEnded
<1>5. NoWayBack'
  <2>1. InGraph /\ InGraph'
    BY <1>3, InGraphHolds DEF DagInv, InGraph, Graph
  <2>2. \A s : Outgoing(s)' = IF s = from THEN Outgoing(s) \cup {to} ELSE Outgoing(s)
    <3>1. new[1] = from /\ new[2] = to
      OBVIOUS
    <3>2. ASSUME NEW s
          PROVE  \A m : m \in Outgoing(s)' <=> m \in Outgoing(s) \/ (s = from /\ m = to)
      <4>1. \A m : m \in Outgoing(s)' <=> \E e \in Edges' : e[1] = s /\ m = e[2]
        BY DEF Outgoing, Edges
      <4>2. \A m : m \in Outgoing(s) <=> \E e \in Edges : e[1] = s /\ m = e[2]
        BY DEF Outgoing, Edges
      <4> HIDE DEF new
      <4> QED BY <1>1, <3>1, <4>1, <4>2
    <3> QED BY <3>2
  <2> DEFINE R(x) == ReachableFrom(x)
  <2>3. ASSUME NEW x \in Nodes
        PROVE  /\ x \in R(x) /\ R(x) \subseteq Nodes
               /\ \A s \in R(x) : Outgoing(s) \subseteq R(x)
               /\ \A C \in SUBSET Nodes :
                     x \in C /\ (\A s \in C : Outgoing(s) \subseteq C) => R(x) \subseteq C
    BY <2>1, ReachableFacts
  <2>4. ASSUME NEW x \in Nodes, NEW C \in SUBSET Nodes, x \in C, \A s \in C : Outgoing(s)' \subseteq C
        PROVE  R(x)' \subseteq C
    <3>1. IsReach(ReachableFrom(x)', {x}, OutgoingMap', Nodes)
      BY <2>1, ReachableNext
    <3> QED BY <2>4, <3>1 DEF IsReach, ClosedUnder, OutgoingMap
  <2> HIDE DEF R
  <2>5. ASSUME NEW x \in Nodes, from \notin R(x) PROVE R(x)' \subseteq R(x)
    BY <2>2, <2>3, <2>4, <2>5
  <2>6. ASSUME NEW x \in Nodes PROVE R(x)' \subseteq R(x) \cup R(to)
    <3>1. \A s \in R(x) \cup R(to) : Outgoing(s)' \subseteq R(x) \cup R(to)
      BY <2>2, <2>3
    <3> QED BY <2>3, <2>4, <3>1
  <2>7. ASSUME NEW e \in Edges' PROVE e[1] \notin R(e[2])'
    <3>1. CASE e = new
      BY <1>2, <2>5, <3>1 DEF R
    <3>2. CASE e \in Edges
      <4>1. e[1] \in Nodes /\ e[2] \in Nodes /\ e[1] \notin R(e[2]) /\ e[2] \in Outgoing(e[1])
        BY <2>1, <3>2 DEF DagInv, NoWayBack, InGraph, Edges, Outgoing, R
      <4>2. CASE from \notin R(e[2])
        BY <2>5, <4>1, <4>2
      <4>3. CASE from \in R(e[2])
        <5>1. SUFFICES ASSUME e[1] \in R(to) PROVE FALSE
          BY <2>6, <4>1
        <5>2. e[2] \in R(to)
          BY <2>3, <4>1, <5>1
        <5>3. R(e[2]) \subseteq R(to)
          BY <2>3, <4>1, <5>2
        <5> QED BY <1>2, <4>3, <5>3 DEF R
      <4> QED BY <4>2, <4>3
    <3> QED BY <1>1, <3>1, <3>2
  <2> QED BY <2>7 DEF NoWayBack, Edges, R
<1> QED BY <1>3, <1>4, <1>5 DEF DagInv

(* The sort begins with the degrees of all edges and the nodes of degree   *)
(* 0.                                                                      *)
LEMMA DagStartsSort == DagInv /\ StartSort => DagInv'
<1> SUFFICES ASSUME DagInv, StartSort PROVE DagInv'
  OBVIOUS
<1>1. /\ state = "building" /\ state' = "sorting" /\ UNCHANGED <<nodes, edges, order>>
      /\ degrees' = DegreesOfEdges /\ ready' \in SetToSeqs({n \in nodes : degrees'[n] = 0})
  BY DEF StartSort
<1>2. order = << >> /\ ToSet(order) = {} /\ Len(order) = 0
  BY <1>1 DEF DagInv, DegreesCount, ToSet
<1>3. /\ Edges' = Edges /\ Rest' = Rest /\ (\A r : EdgesTo(r)' = EdgesTo(r))
      /\ \A r : Outgoing(r)' = Outgoing(r) /\ ReachableFrom(r)' = ReachableFrom(r)
  BY <1>1 DEF Edges, Rest, EdgesTo, Outgoing, ReachableFrom
<1>4. Rest = edges
  <2>1. edges \in [Edges -> Nat \ {0}]
    BY DEF DagInv, Graph
  <2>2. Rest = [e \in Edges |-> edges[e]]
    BY <1>2 DEF Rest
  <2> QED BY <2>1, <2>2
<1>5. /\ IsFiniteSet(Edges) /\ Rest \in [Edges -> Nat] /\ \A n : EdgesTo(n) \in SUBSET Edges
  BY EdgesFinite DEF DagInv
<1>6. ASSUME NEW n \in Nodes PROVE degrees'[n] = Sum(Rest, EdgesTo(n)) /\ degrees'[n] \in Nat
  <2>1. degrees'[n] = EdgeCount(EdgesTo(n))
    BY <1>1 DEF DegreesOfEdges, EdgesTo, Edges
  <2>2. EdgeCount(EdgesTo(n)) = Sum(edges, EdgesTo(n))
    BY DEF EdgeCount, Sum
  <2>3. Sum(Rest, EdgesTo(n)) \in Nat
    BY <1>5, SumSteps
  <2> QED BY <1>4, <2>1, <2>2, <2>3
<1>7. degrees' \in [Nodes -> Int]
  <2>1. degrees' = [n \in Nodes |-> degrees'[n]]
    BY <1>1 DEF DegreesOfEdges
  <2> QED BY <1>6, <2>1
<1> DEFINE S == {n \in nodes : degrees'[n] = 0}
<1>8. ready' \in Seq(S) /\ ToSet(ready') = S /\ IsInjective(ready')
  <2>1. IsFiniteSet(S)
    BY NodesFinite, FS_Subset DEF DagInv, Graph
  <2>2. ready' \in SetToSeqs(S)
    BY <1>1
  <2> HIDE DEF S
  <2> QED BY <2>1, <2>2, OrderCovers DEF IsInjective
<1>9. Graph'
  <2>1. ready' \in Seq(nodes)
    BY <1>8
  <2> QED BY <1>1, <1>3, <1>7, <1>8, <2>1 DEF DagInv, Graph
<1>10. DegreesCount'
  BY <1>1, <1>2, <1>3, <1>6, <1>8 DEF DegreesCount
<1>11. PlacedInOrder' /\ SortEnded' /\ NoWayBack'
  BY <1>1, <1>3 DEF DagInv, PlacedInOrder, SortEnded, NoWayBack, Edges
<1> QED BY <1>9, <1>10, <1>11 DEF DagInv

(* Placing a node discounts each neighbour once, however many edges lead   *)
(* to it.                                                                  *)
LEMMA DagPlaces == DagInv /\ Place => DagInv'
<1> SUFFICES ASSUME DagInv, Place PROVE DagInv'
  OBVIOUS
<1> DEFINE n == Head(ready)
           S == {m \in Outgoing(n) : degrees'[m] = 0}
<1>1. /\ state = "sorting" /\ ready # << >> /\ UNCHANGED <<nodes, edges, state>>
      /\ degrees' = [m \in Nodes |-> IF m \in Outgoing(n) THEN degrees[m] - 1 ELSE degrees[m]]
      /\ order' = Append(order, n)
  BY DEF Place
<1>2. PICK released \in SetToSeqs(S) : ready' = Tail(ready) \o released
  BY DEF Place
<1>3. /\ ready \in Seq(nodes) /\ order \in Seq(nodes) /\ IsInjective(ready) /\ IsInjective(order)
      /\ ToSet(ready) \cap ToSet(order) = {} /\ nodes \subseteq Nodes /\ Edges \subseteq nodes \X nodes
      /\ degrees \in [Nodes -> Int]
      /\ \A m \in Nodes : degrees[m] = Sum(Rest, EdgesTo(m))
      /\ {m \in nodes : degrees[m] = 0} = ToSet(ready) \cup ToSet(order)
  BY <1>1 DEF DagInv, Graph, DegreesCount
<1>4. /\ n \in nodes /\ Tail(ready) \in Seq(nodes) /\ ToSet(ready) = ToSet(Tail(ready)) \cup {n}
      /\ IsInjective(Tail(ready)) /\ n \notin ToSet(Tail(ready)) /\ n \notin ToSet(order)
  <2>1. /\ n \in nodes /\ Tail(ready) \in Seq(nodes) /\ ToSet(ready) = ToSet(Tail(ready)) \cup {n}
        /\ IsInjective(Tail(ready)) /\ n \notin ToSet(Tail(ready))
    BY <1>1, <1>3, Popping
  <2> HIDE DEF n
  <2> QED BY <1>3, <2>1
<1> HIDE DEF n
<1>5. /\ order' \in Seq(nodes) /\ Len(order') = Len(order) + 1 /\ \A i \in 1 .. Len(order) : order'[i] = order[i]
      /\ order'[Len(order) + 1] = n /\ ToSet(order') = ToSet(order) \cup {n} /\ IsInjective(order')
  <2> DEFINE s == Append(order, n)
  <2>1. /\ s \in Seq(nodes) /\ Len(s) = Len(order) + 1 /\ \A i \in 1 .. Len(order) : s[i] = order[i]
        /\ s[Len(order) + 1] = n /\ ToSet(s) = ToSet(order) \cup {n} /\ IsInjective(s)
    BY <1>3, <1>4, Appending
  <2>2. order' = s
    BY <1>1
  <2> HIDE DEF s
  <2> QED BY <2>1, <2>2
<1>6. /\ Edges' = Edges /\ (\A r : EdgesTo(r)' = EdgesTo(r))
      /\ \A r : Outgoing(r)' = Outgoing(r) /\ ReachableFrom(r)' = ReachableFrom(r)
  BY <1>1 DEF Edges, EdgesTo, Outgoing, ReachableFrom
<1>7. Outgoing(n) \subseteq nodes /\ \A m : m \in Outgoing(n) <=> <<n, m>> \in Edges
  <2>1. \A m : m \in Outgoing(n) <=> \E e \in Edges : e[1] = n /\ m = e[2]
    BY DEF Outgoing, Edges
  <2>2. \A e \in Edges : e = <<e[1], e[2]>> /\ e[2] \in nodes
    BY <1>3
  <2> QED BY <2>1, <2>2
<1>8. /\ IsFiniteSet(Edges) /\ Rest \in [Edges -> Nat] /\ (\A r : EdgesTo(r) \in SUBSET Edges)
      /\ \A e \in Edges : edges[e] \in Nat \ {0}
  BY EdgesFinite DEF DagInv, Graph
<1>9. \A e \in Edges : Rest[e] = (IF e[1] \in ToSet(order) THEN edges[e] - 1 ELSE edges[e])
  BY DEF Rest
<1>10. Rest' \in [Edges -> Nat] /\ \A e \in Edges : Rest'[e] = (IF e[1] = n THEN Rest[e] - 1 ELSE Rest[e])
  <2>1. Rest' = [e \in Edges |-> IF e[1] \in ToSet(order') THEN edges[e] - 1 ELSE edges[e]]
    BY <1>1, <1>6 DEF Rest
  <2>2. ASSUME NEW e \in Edges PROVE Rest'[e] \in Nat /\ Rest'[e] = (IF e[1] = n THEN Rest[e] - 1 ELSE Rest[e])
    BY <1>4, <1>5, <1>8, <1>9, <2>1
  <2> QED BY <2>1, <2>2
<1>11. ASSUME NEW m \in Nodes PROVE degrees'[m] = Sum(Rest', EdgesTo(m)) /\ degrees'[m] \in Nat
  <2>1. CASE m \in Outgoing(n)
    <3> DEFINE e == <<n, m>>
               A == EdgesTo(m) \ {e}
    <3>1. e \in EdgesTo(m) /\ e[1] = n /\ e \in Edges
      BY <1>7, <2>1 DEF EdgesTo
    <3>2. \A d \in A : d[1] # n
      <4>1. \A d \in EdgesTo(m) : d = <<d[1], d[2]>> /\ d[2] = m
        BY <1>3 DEF EdgesTo
      <4> QED BY <4>1
    <3>3. A \in SUBSET Edges /\ EdgesTo(m) \in SUBSET Edges
      BY <1>8
    <3>4. Rest'[e] = Rest[e] - 1
      BY <1>10, <3>1
    <3> HIDE DEF e
    <3>5. \A d \in A : Rest[d] = Rest'[d]
      <4> HIDE DEF A
      <4> QED BY <1>10, <3>2, <3>3
    <3>6. Sum(Rest, A) = Sum(Rest', A)
      <4> HIDE DEF A
      <4> QED BY <1>8, <1>10, <3>3, <3>5, SumSame
    <3>7. Sum(Rest, EdgesTo(m)) = Rest[e] + Sum(Rest, A) /\ Sum(Rest, A) \in Nat
      BY <1>8, <3>1, <3>3, SumSteps
    <3>8. Sum(Rest', EdgesTo(m)) = Rest'[e] + Sum(Rest', A)
      BY <1>8, <1>10, <3>1, <3>3, SumSteps
    <3>9. Rest'[e] \in Nat /\ Rest[e] \in Nat
      BY <1>8, <1>10, <3>1
    <3>10. degrees'[m] = degrees[m] - 1 /\ degrees[m] = Sum(Rest, EdgesTo(m))
      BY <1>1, <1>3, <2>1
    <3> HIDE DEF A
    <3> QED BY <3>4, <3>6, <3>7, <3>8, <3>9, <3>10
  <2>2. CASE m \notin Outgoing(n)
    <3>1. \A d \in EdgesTo(m) : d[1] # n
      <4>1. \A d \in EdgesTo(m) : d = <<d[1], d[2]>> /\ d[2] = m /\ d \in Edges
        BY <1>3 DEF EdgesTo
      <4> QED BY <1>7, <2>2, <4>1
    <3>2. \A d \in EdgesTo(m) : Rest[d] = Rest'[d]
      BY <1>8, <1>10, <3>1
    <3>3. Sum(Rest, EdgesTo(m)) = Sum(Rest', EdgesTo(m))
      BY <1>8, <1>10, <3>2, SumSame
    <3>4. Sum(Rest, EdgesTo(m)) \in Nat
      BY <1>8, SumSteps
    <3>5. degrees'[m] = degrees[m]
      BY <1>1, <2>2
    <3> QED BY <1>3, <3>3, <3>4, <3>5
  <2> QED BY <2>1, <2>2
<1>12. ASSUME NEW m \in Nodes, degrees[m] = 0 PROVE \A e \in EdgesTo(m) : e[1] \in ToSet(order) /\ edges[e] = 1
  <2>1. Sum(Rest, EdgesTo(m)) = 0
    BY <1>3, <1>12
  <2>2. \A e \in EdgesTo(m) : Rest[e] = 0
    BY <1>8, <2>1, SumZero
  <2>3. ASSUME NEW e \in EdgesTo(m) PROVE e[1] \in ToSet(order) /\ edges[e] = 1
    <3>1. e \in Edges /\ Rest[e] = 0 /\ edges[e] \in Nat \ {0}
      BY <1>8, <2>2
    <3> QED BY <1>9, <3>1
  <2> QED BY <2>3
<1>13. ASSUME NEW m \in nodes, degrees[m] = 0 PROVE m \notin Outgoing(n) /\ degrees'[m] = 0
  <2>1. m \notin Outgoing(n)
    <3>1. SUFFICES ASSUME <<n, m>> \in Edges PROVE FALSE
      BY <1>7
    <3>2. <<n, m>> \in EdgesTo(m)
      BY <3>1 DEF EdgesTo
    <3> QED BY <1>3, <1>4, <1>12, <1>13, <3>2
  <2> QED BY <1>1, <1>3, <1>13, <2>1
<1>14. released \in Seq(S) /\ ToSet(released) = S /\ IsInjective(released)
  <2>1. IsFiniteSet(S)
    BY <1>3, <1>7, NodesFinite, FS_Subset
  <2> HIDE DEF S
  <2> QED BY <1>2, <2>1, OrderCovers DEF IsInjective
<1>15. S \subseteq nodes /\ S \cap (ToSet(ready) \cup ToSet(order)) = {}
  BY <1>3, <1>7, <1>13
<1>16. {m \in nodes : degrees'[m] = 0} = {m \in nodes : degrees[m] = 0} \cup S
  <2>1. ASSUME NEW m \in nodes, degrees'[m] = 0, m \notin S PROVE degrees[m] = 0
    BY <1>1, <1>3, <2>1
  <2> QED BY <1>13, <1>15, <2>1
<1> HIDE DEF S
<1>17. ready' \in Seq(nodes) /\ ToSet(ready') = ToSet(Tail(ready)) \cup S /\ IsInjective(ready')
  <2> DEFINE s == Tail(ready)
  <2>1. /\ s \in Seq(nodes) /\ released \in Seq(nodes) /\ ready' = s \o released
        /\ IsInjective(s) /\ IsInjective(released) /\ ToSet(s) \cap ToSet(released) = {}
    BY <1>2, <1>4, <1>14, <1>15
  <2> HIDE DEF s
  <2>2. s \o released \in Seq(nodes) /\ ToSet(s \o released) = ToSet(s) \cup ToSet(released) /\ IsInjective(s \o released)
    BY <2>1, Joining
  <2>3. ToSet(ready') = ToSet(s) \cup S
    BY <1>14, <2>1, <2>2
  <2> QED BY <2>1, <2>2, <2>3 DEF s
<1>18. Graph'
  <2>1. degrees' \in [Nodes -> Int]
    <3>1. degrees' = [m \in Nodes |-> degrees'[m]]
      BY <1>1
    <3> QED BY <1>11, <3>1
  <2>2. edges' \in [Edges' -> Nat \ {0}]
    BY <1>1, <1>6 DEF DagInv, Graph
  <2> QED BY <1>1, <1>3, <1>5, <1>6, <1>17, <2>1, <2>2 DEF Graph
<1>19. DegreesCount'
  <2>1. {m \in nodes : degrees'[m] = 0} = ToSet(ready') \cup ToSet(order') /\ ToSet(ready') \cap ToSet(order') = {}
    BY <1>3, <1>4, <1>5, <1>15, <1>16, <1>17
  <2> QED BY <1>1, <1>6, <1>11, <2>1 DEF DegreesCount
<1>20. PlacedInOrder'
  <2> DEFINE k == Len(order)
  <2>1. k \in Nat /\ DOMAIN order = 1 .. k
    BY <1>3
  <2> HIDE DEF k
  <2>2. ASSUME NEW e \in Edges, NEW j \in 1 .. k + 1, order'[j] = e[2]
        PROVE  \E i \in 1 .. j - 1 : order'[i] = e[1]
    <3>1. CASE j \in 1 .. k
      <4>1. order[j] = e[2]
        BY <1>5, <2>2, <3>1 DEF k
      <4>2. PICK i \in 1 .. j - 1 : order[i] = e[1]
        BY <3>1, <4>1 DEF DagInv, PlacedInOrder, k
      <4>3. i \in 1 .. k
        BY <2>1, <3>1
      <4> QED BY <1>5, <4>2, <4>3 DEF k
    <3>2. CASE j = k + 1
      <4>1. e \in EdgesTo(n)
        BY <1>5, <2>2, <3>2 DEF EdgesTo, k
      <4>2. degrees[n] = 0 /\ n \in Nodes
        BY <1>3, <1>4
      <4>3. e[1] \in ToSet(order)
        BY <1>12, <4>1, <4>2
      <4>4. PICK i \in 1 .. k : order[i] = e[1]
        BY <2>1, <4>3 DEF ToSet
      <4>5. order'[i] = e[1] /\ j - 1 = k
        BY <1>5, <2>1, <3>2, <4>4 DEF k
      <4> QED BY <4>4, <4>5
    <3> QED BY <2>1, <3>1, <3>2
  <2>3. Len(order') = k + 1
    BY <1>5 DEF k
  <2> QED BY <1>6, <2>2, <2>3 DEF PlacedInOrder
<1>21. SortEnded' /\ NoWayBack'
  BY <1>1, <1>6 DEF DagInv, SortEnded, NoWayBack, Edges
<1> QED BY <1>18, <1>19, <1>20, <1>21 DEF DagInv

(* Nodes are left over only when an edge is there more than once: the node *)
(* that everything else left over is behind waits for none of them.        *)
LEMMA LeftOverIsParallel ==
    ASSUME DagInv, state # "building", ready = << >>, ToSet(order) # nodes
    PROVE  \E e \in Edges : edges[e] > 1
<1>1. SUFFICES ASSUME \A e \in Edges : edges[e] = 1 PROVE FALSE
  BY DEF DagInv, Graph
<1> DEFINE U == nodes \ ToSet(order)
           behind == [u \in nodes |-> {x \in nodes : u \in ReachableFrom(x)}]
<1>2. /\ nodes \subseteq Nodes /\ Edges \subseteq nodes \X nodes /\ order \in Seq(nodes)
      /\ \A m \in Nodes : degrees[m] = Sum(Rest, EdgesTo(m))
      /\ {m \in nodes : degrees[m] = 0} = ToSet(order)
      /\ NoWayBack /\ InGraph
  BY InGraphHolds DEF DagInv, Graph, DegreesCount, ToSet
<1>3. /\ IsFiniteSet(Edges) /\ Rest \in [Edges -> Nat] /\ (\A r : EdgesTo(r) \in SUBSET Edges)
  BY EdgesFinite DEF DagInv
<1>4. ASSUME NEW u \in U PROVE \E p \in U : behind[p] \subseteq behind[u] /\ behind[p] # behind[u]
  <2>1. Sum(Rest, EdgesTo(u)) # 0 /\ u \in nodes
    BY <1>2
  <2>2. PICK e \in EdgesTo(u) : Rest[e] # 0
    BY <1>3, <2>1, SumZero
  <2>3. e \in Edges /\ e[2] = u /\ e[1] \in nodes /\ e[1] \notin ToSet(order)
    <3>1. e \in Edges /\ e[2] = u
      BY DEF EdgesTo
    <3>2. edges[e] = 1
      BY <1>1, <3>1
    <3>3. e[1] \notin ToSet(order)
      BY <2>2, <3>1, <3>2 DEF Rest
    <3> QED BY <1>2, <3>1, <3>3
  <2> DEFINE p == e[1]
  <2>4. p \in U /\ u \in Outgoing(p) /\ p \notin ReachableFrom(u)
    BY <1>2, <2>3 DEF Outgoing, Edges, NoWayBack
  <2> HIDE DEF p
  <2>5. ASSUME NEW x \in nodes PROVE x \in ReachableFrom(x) /\ \A s \in ReachableFrom(x) : Outgoing(s) \subseteq ReachableFrom(x)
    BY <1>2, ReachableFacts
  <2>6. behind[p] \subseteq behind[u]
    BY <2>4, <2>5
  <2>7. u \in behind[u] /\ u \notin behind[p]
    BY <2>1, <2>4, <2>5
  <2> HIDE DEF behind
  <2> QED BY <2>4, <2>6, <2>7
<1>5. U = {}
  <2>1. IsFiniteSet(nodes)
    BY <1>2, NodesFinite, FS_Subset
  <2>2. behind \in [nodes -> SUBSET nodes] /\ U \in SUBSET nodes
    OBVIOUS
  <2> HIDE DEF U, behind
  <2> QED BY <1>4, <2>1, <2>2, SomethingFirst
<1>6. ToSet(order) \subseteq nodes
  BY <1>2
<1> QED BY <1>5, <1>6

(* The sort ends with all nodes placed, or reports a cycle.                *)
LEMMA DagEndsSort == DagInv /\ EndSort => DagInv'
<1> SUFFICES ASSUME DagInv, EndSort PROVE DagInv'
  OBVIOUS
<1>1. /\ state = "sorting" /\ ready = << >> /\ UNCHANGED <<nodes, edges, degrees, ready, order>>
      /\ state' = IF Len(order) = Cardinality(nodes) THEN "sorted" ELSE "cycle"
  BY DEF EndSort
<1>2. /\ Edges' = Edges /\ Rest' = Rest /\ (\A r : EdgesTo(r)' = EdgesTo(r))
      /\ \A r : Outgoing(r)' = Outgoing(r) /\ ReachableFrom(r)' = ReachableFrom(r)
  BY <1>1 DEF Edges, Rest, EdgesTo, Outgoing, ReachableFrom
<1>3. Len(order) = Cardinality(nodes) <=> ToSet(order) = nodes
  <2>1. order \in Seq(nodes) /\ IsInjective(order) /\ IsFiniteSet(nodes)
    BY NodesFinite, FS_Subset DEF DagInv, Graph
  <2> QED BY <2>1, LengthCounts
<1>4. Graph' /\ DegreesCount'
  BY <1>1, <1>2 DEF DagInv, Graph, DegreesCount
<1>5. PlacedInOrder' /\ SortEnded' /\ NoWayBack'
  BY <1>1, <1>2, <1>3 DEF DagInv, PlacedInOrder, SortEnded, NoWayBack, Edges
<1> QED BY <1>4, <1>5 DEF DagInv

(* Every operation of the graph keeps the invariant.                       *)
LEMMA DagInductive == ASSUME DagInv, [DagStep]_dagVars PROVE DagInv'
<1>1. CASE UNCHANGED dagVars
  <2>1. /\ Edges' = Edges /\ Rest' = Rest /\ (\A r : EdgesTo(r)' = EdgesTo(r))
        /\ \A r : Outgoing(r)' = Outgoing(r) /\ ReachableFrom(r)' = ReachableFrom(r)
    BY <1>1 DEF dagVars, Edges, Rest, EdgesTo, Outgoing, ReachableFrom
  <2>2. Graph' /\ DegreesCount'
    BY <1>1, <2>1 DEF dagVars, DagInv, Graph, DegreesCount
  <2>3. PlacedInOrder' /\ SortEnded' /\ NoWayBack'
    BY <1>1, <2>1 DEF dagVars, DagInv, PlacedInOrder, SortEnded, NoWayBack, Edges
  <2> QED BY <2>2, <2>3 DEF DagInv
<1> QED BY <1>1, DagAddsNode, DagAddsEdge, DagStartsSort, DagPlaces, DagEndsSort DEF DagStep

(* The invariant contains what the run checks of the graph.                *)
LEMMA DagInvSound == DagInv => DagSound
<1> SUFFICES ASSUME DagInv PROVE DagSound
  OBVIOUS
<1>1. IsFiniteSet(Edges) /\ Rest \in [Edges -> Nat] /\ \A r : EdgesTo(r) \in SUBSET Edges
  BY EdgesFinite DEF DagInv
<1>2. degrees \in [Nodes -> Nat]
  <2>1. CASE state = "building"
    BY <2>1 DEF DagInv, DegreesCount
  <2>2. CASE state # "building"
    <3>1. \A n \in Nodes : Sum(Rest, EdgesTo(n)) \in Nat
      BY <1>1, SumSteps
    <3> QED BY <2>2, <3>1 DEF DagInv, DegreesCount, Graph
  <2> QED BY <2>1, <2>2
<1>3. DagTypeOK
  <2>1. ToSet(ready) \subseteq nodes /\ ToSet(order) \subseteq nodes
    BY DEF DagInv, Graph, ToSet
  <2> QED BY <1>2, <2>1 DEF DagInv, Graph, DagTypeOK, Edges
<1>4. SortFailsOnParallelEdges
  <2>1. DOMAIN order = 1 .. Len(order)
    BY DEF DagInv, Graph
  <2>2. ASSUME state = "sorted", NEW e \in Edges PROVE edges[e] = 1
    <3>1. e[2] \in nodes /\ nodes = ToSet(order) /\ nodes \subseteq Nodes /\ e \in EdgesTo(e[2])
      BY <2>2 DEF DagInv, Graph, SortEnded, EdgesTo
    <3>2. Sum(Rest, EdgesTo(e[2])) = 0
      BY <2>2, <3>1 DEF DagInv, DegreesCount
    <3>3. Rest[e] = 0
      BY <1>1, <3>1, <3>2, SumZero
    <3>4. edges[e] \in Nat \ {0}
      BY DEF DagInv, Graph
    <3> QED BY <3>3, <3>4 DEF Rest
  <2>3. ASSUME state = "cycle" PROVE \E e \in Edges : edges[e] > 1
    <3>1. state # "building" /\ ready = << >> /\ ToSet(order) # nodes
      BY <2>3 DEF DagInv, SortEnded
    <3> QED BY <3>1, LeftOverIsParallel
  <2> QED BY <2>1, <2>2, <2>3 DEF SortFailsOnParallelEdges, DagInv, PlacedInOrder, Edges
<1> QED BY <1>3, <1>4 DEF DagInv, DagSound

(* The graph of the DAG library stays acyclic, its sort puts every node    *)
(* behind its predecessors, and it reports a cycle exactly when an edge was*)
(* added twice, for every set of nodes.                                    *)
THEOREM DagIsSound == DagInit /\ [][DagStep]_dagVars => []DagSound
<1>1. DagInit => DagInv
  BY DagInitially
<1>2. DagInv /\ [DagStep]_dagVars => DagInv'
  BY DagInductive
<1>3. DagInv => DagSound
  BY DagInvSound
<1> QED BY <1>1, <1>2, <1>3, PTL

(* The walks and the graph of the DAG library, for every finite set of     *)
(* recipes, kas files and nodes.                                           *)
THEOREM GraphsAreSound ==
    WalkInit /\ [][WalkStep]_walkVars /\ DagInit /\ [][DagStep]_dagVars => []GraphsSound
<1>1. WalksSound /\ DagSound => GraphsSound
  BY DEF GraphsSound
<1> QED BY <1>1, WalksAreSound, DagIsSound, PTL

-----------------------------------------------------------------------------
Items == Files \cup Absent

(* What a file includes, as a function.                                    *)
IncludesMap == [f \in Files |-> Included(f)]

(* IncludedBy(f) is the least set that has what the file includes, and what*)
(* its members include.                                                    *)
LEMMA IncludedIsReach ==
    ASSUME includes \in [Files -> Seq(Items)], NEW r \in Files
    PROVE  IsReach(IncludedBy(r), Included(r), IncludesMap, Files)
<1> DEFINE Eqn(f) == f = [n \in Nat |->
                            IF n = 0 THEN Included(r)
                            ELSE f[n - 1] \cup UNION {Included(s) : s \in f[n - 1]}]
           found == CHOOSE f : Eqn(f)
           Within == {n \in Nat : found[n] \subseteq Files}
<1>1. \A s \in Files : Included(s) \subseteq Files /\ IncludesMap[s] = Included(s)
  BY DEF Included, IncludesMap
<1>2. IncludesMap \in [Files -> SUBSET Files] /\ Included(r) \in SUBSET Files
  BY <1>1 DEF IncludesMap
<1>3. \E f : Eqn(f)
  <2>1. PICK f \in [Nat -> SUBSET Files] : Grows(f, Included(r), IncludesMap)
    BY <1>2, GrowthExists
  <2>2. \A n \in Nat \ {0} : n - 1 \in Nat /\ n = (n - 1) + 1
    OBVIOUS
  <2>3. ASSUME NEW n \in Nat \ {0}
        PROVE  f[n] = f[n - 1] \cup UNION {Included(s) : s \in f[n - 1]}
    <3>1. f[n] = f[n - 1] \cup UNION {IncludesMap[s] : s \in f[n - 1]} /\ f[n - 1] \subseteq Files
      BY <2>1, <2>2 DEF Grows
    <3> QED BY <1>1, <3>1
  <2>4. f[0] = Included(r)
    BY <2>1 DEF Grows
  <2>5. Eqn(f)
    BY <2>1, <2>3, <2>4
  <2> QED BY <2>5
<1>4. Eqn(found)
  <2> HIDE DEF Eqn
  <2> QED BY <1>3
<1>5. IncludedBy(r) = found[Cardinality(Files)]
  BY DEF IncludedBy
<1> HIDE DEF found
<1>6. found[0] = Included(r)
  BY <1>4
<1>7. ASSUME NEW n \in Nat PROVE found[n + 1] = found[n] \cup UNION {Included(s) : s \in found[n]}
  <2>1. n + 1 \in Nat /\ n + 1 # 0 /\ (n + 1) - 1 = n
    OBVIOUS
  <2> QED BY <1>4, <2>1
<1> HIDE DEF Eqn
<1>8. Nat \subseteq Within
  <2>1. 0 \in Within
    BY <1>2, <1>6
  <2>2. ASSUME NEW n \in Nat, n \in Within PROVE n + 1 \in Within
    <3>1. found[n + 1] = found[n] \cup UNION {Included(s) : s \in found[n]}
      BY <1>7
    <3>2. found[n] \subseteq Files /\ n + 1 \in Nat
      BY <2>2
    <3>3. \A s \in found[n] : Included(s) \subseteq Files
      BY <1>1, <3>2
    <3> QED BY <3>1, <3>2, <3>3
  <2> HIDE DEF Within
  <2> QED BY <2>1, <2>2, SetInduction
<1>9. Grows(found, Included(r), IncludesMap)
  <2>1. ASSUME NEW n \in Nat PROVE found[n + 1] = found[n] \cup UNION {IncludesMap[s] : s \in found[n]}
    <3>1. found[n + 1] = found[n] \cup UNION {Included(s) : s \in found[n]}
      BY <1>7
    <3>2. \A s \in found[n] : IncludesMap[s] = Included(s)
      BY <1>1, <1>8
    <3> QED BY <3>1, <3>2
  <2> QED BY <1>6, <2>1 DEF Grows
<1> QED BY <1>2, <1>5, <1>9, FilesFinite, GrowthEnds

(* What a file includes directly or not is closed, and is the least such   *)
(* set.                                                                    *)
LEMMA IncludedFacts ==
    ASSUME includes \in [Files -> Seq(Items)], NEW r \in Files
    PROVE  /\ Included(r) \subseteq IncludedBy(r) /\ IncludedBy(r) \subseteq Files
           /\ \A s \in IncludedBy(r) : Included(s) \subseteq IncludedBy(r)
           /\ \A C \in SUBSET Files :
                 Included(r) \subseteq C /\ (\A s \in C : Included(s) \subseteq C) => IncludedBy(r) \subseteq C
<1>1. IsReach(IncludedBy(r), Included(r), IncludesMap, Files)
  BY IncludedIsReach
<1> QED BY <1>1 DEF IsReach, ClosedUnder, IncludesMap

(* Files do not change while recipes are resolved.                         *)
LEMMA SameIncludes ==
    ASSUME includes' = includes, readable' = readable
    PROVE  \A f : /\ Included(f)' = Included(f) /\ IncludedBy(f)' = IncludedBy(f)
                  /\ LoopFree(f)' = LoopFree(f) /\ Resolves(f)' = Resolves(f)
BY DEF Included, IncludedBy, LoopFree, Resolves

(* Everything that a file leads to it leads to through a file it includes. *)
LEMMA IncludedSplits ==
    ASSUME includes \in [Files -> Seq(Items)], NEW f \in Files, NEW C \in SUBSET Files,
           \A g \in Included(f) : g \in C /\ IncludedBy(g) \subseteq C
    PROVE  IncludedBy(f) \subseteq C
<1> DEFINE D == Included(f) \cup UNION {IncludedBy(g) : g \in Included(f)}
<1>1. Included(f) \subseteq Files /\ D \subseteq C
  BY DEF Included
<1>2. ASSUME NEW s \in D PROVE Included(s) \subseteq D
  <2>1. CASE s \in Included(f)
    <3>1. Included(s) \subseteq IncludedBy(s)
      BY <1>1, <2>1, IncludedFacts
    <3>2. IncludedBy(s) \subseteq D
      BY <2>1
    <3> QED BY <3>1, <3>2
  <2>2. CASE \E g \in Included(f) : s \in IncludedBy(g)
    <3>1. PICK g \in Included(f) : s \in IncludedBy(g)
      BY <2>2
    <3>2. Included(s) \subseteq IncludedBy(g)
      BY <1>1, <3>1, IncludedFacts
    <3>3. IncludedBy(g) \subseteq D
      OBVIOUS
    <3> QED BY <3>2, <3>3
  <2> QED BY <2>1, <2>2
<1>3. Included(f) \subseteq D /\ D \in SUBSET Files
  BY <1>1
<1> HIDE DEF D
<1>4. IncludedBy(f) \subseteq D
  BY <1>2, <1>3, IncludedFacts
<1> QED BY <1>1, <1>4

(* What a file leads to leads no farther than the file does.               *)
LEMMA IncludedPasses ==
    ASSUME includes \in [Files -> Seq(Items)], NEW f \in Files, NEW g \in Included(f) \cup IncludedBy(f)
    PROVE  g \in Files /\ g \in IncludedBy(f) /\ IncludedBy(g) \subseteq IncludedBy(f)
<1>1. /\ Included(f) \subseteq IncludedBy(f) /\ IncludedBy(f) \subseteq Files
      /\ \A s \in IncludedBy(f) : Included(s) \subseteq IncludedBy(f)
  BY IncludedFacts
<1>2. g \in Files /\ g \in IncludedBy(f)
  BY <1>1
<1>3. IncludedBy(g) \subseteq IncludedBy(f)
  BY <1>1, <1>2, IncludedFacts
<1> QED BY <1>2, <1>3

(* A file does not resolve if something it leads to does not.              *)
LEMMA ResolvesAll ==
    ASSUME includes \in [Files -> Seq(Items)], NEW f \in Files, NEW g \in IncludedBy(f), Resolves(f)
    PROVE  Resolves(g)
<1>1. g \in Files /\ IncludedBy(g) \subseteq IncludedBy(f)
  BY IncludedPasses
<1> QED BY <1>1 DEF Resolves, LoopFree

(* A directive that makes the file that has it fail.                       *)
Bad(d) == d = "require_absent" \/ (d \in Files /\ ~ Resolves(d))

(* A file with a bad directive does not resolve.                           *)
LEMMA BadFails ==
    ASSUME includes \in [Files -> Seq(Items)], NEW f \in Files, NEW d \in ToSet(includes[f]), Bad(d)
    PROVE  ~ Resolves(f)
<1>1. CASE d = "require_absent"
  BY <1>1 DEF Resolves
<1>2. CASE d \in Files /\ ~ Resolves(d)
  <2>1. d \in IncludedBy(f)
    BY <1>2, IncludedPasses DEF Included
  <2> QED BY <1>2, <2>1, ResolvesAll
<1> QED BY <1>1, <1>2 DEF Bad

-----------------------------------------------------------------------------
Calls == [file : Files \cup {TheRecipe}, left : Seq(Items), merged : SUBSET Files]
Answers == {"ok", "absent", "circular", "parse"}

(* The list of directives that a call goes through.                        *)
ListOf(i) == IF i = 1 THEN recipes[Len(recipes)] ELSE includes[calls[i].file]

(* The files being parsed.                                                 *)
Parsing == {calls[i].file : i \in 2 .. Len(calls)}

(* What was in the list is still left, or absent, or kept and merged.      *)
Seen(list, left_, got, kept) ==
    /\ ToSet(left_) \subseteq ToSet(list)
    /\ \A d \in ToSet(list) : \/ d \in ToSet(left_)
                              \/ d = "include_absent"
                              \/ d \in kept /\ {d} \cup IncludedBy(d) \subseteq got

ResolverTyped ==
    /\ includes \in [Files -> Seq(Items)] /\ readable \subseteq Files
    /\ cache \subseteq Files /\ parsing_stack \subseteq Files /\ merged \in [Files -> SUBSET Files]
    /\ calls \in Seq(Calls) /\ recipes \in Seq(Seq(Items)) /\ answers \in Seq(Answers)

(* Every recipe is answered, but for the one at work.                      *)
Counted ==
    /\ calls = << >> => Len(answers) = Len(recipes)
    /\ calls # << >> => Len(recipes) = Len(answers) + 1

(* The files being parsed are on the stack, each once, and not in the      *)
(* cache; each is the next directive of the call before, and so included   *)
(* by all of them.                                                         *)
Nested ==
    /\ \A i \in 2 .. Len(calls) : calls[i].file \in (readable \cap parsing_stack) \ cache
    /\ \A i, j \in 2 .. Len(calls) : calls[i].file = calls[j].file => i = j
    /\ \A i, j \in 2 .. Len(calls) : i < j => calls[j].file \in IncludedBy(calls[i].file)
    /\ \A i \in 1 .. Len(calls) - 1 : calls[i].left # << >> /\ Head(calls[i].left) = calls[i + 1].file

(* What the calls have done so far.                                        *)
Progress ==
    \A i \in 1 .. Len(calls) :
        /\ Seen(ListOf(i), calls[i].left, calls[i].merged, cache)
        /\ i # 1 => calls[i].merged \subseteq IncludedBy(calls[i].file)

(* The cache is closed, and has no loop.                                   *)
CacheGood ==
    \A f \in cache :
        /\ f \in readable /\ f \notin IncludedBy(f) /\ merged[f] = IncludedBy(f)
        /\ ToSet(includes[f]) \subseteq cache \cup {"include_absent"}

(* What an earlier failure left on the stack does not resolve.             *)
LeftOver ==
    /\ \A f \in parsing_stack : f \in Parsing \/ ~ Resolves(f)
    /\ (\A k \in DOMAIN answers : answers[k] = "ok") => parsing_stack = Parsing

ResolverInv ==
    /\ ResolverTyped
    /\ Counted
    /\ Nested
    /\ Progress
    /\ CacheGood
    /\ LeftOver
    /\ VerdictIsOwn
    /\ CircularOrLeftOver

(* A new resolver satisfies the invariant.                                 *)
LEMMA ResolverInitially == ResolverInit => ResolverInv
<1> SUFFICES ASSUME ResolverInit PROVE ResolverInv
  OBVIOUS
<1>1. includes \in [Files -> Seq(Items)] /\ merged \in [Files -> SUBSET Files]
  BY ListsOfDirectives DEF ResolverInit, Items
<1>2. Len(<< >>) = 0 /\ DOMAIN << >> = {} /\ 2 .. 0 = {} /\ 1 .. 0 = {}
  OBVIOUS
<1>3. ResolverTyped
  BY <1>1 DEF ResolverInit, ResolverTyped
<1>4. Counted /\ Nested /\ Progress /\ CacheGood /\ LeftOver
  BY <1>2 DEF ResolverInit, Counted, Nested, Progress, CacheGood, LeftOver, Parsing
<1>5. VerdictIsOwn /\ CircularOrLeftOver
  BY <1>2 DEF ResolverInit, VerdictIsOwn, CircularOrLeftOver
<1> QED BY <1>3, <1>4, <1>5 DEF ResolverInv

(* A directive is done with.                                               *)
LEMMA SeenMore ==
    ASSUME NEW list, NEW left_ \in Seq(Items), left_ # << >>, NEW got, NEW more, NEW kept, NEW now,
           Seen(list, left_, got, kept), kept \subseteq now,
           Head(left_) = "include_absent" \/ (Head(left_) \in now /\ {Head(left_)} \cup IncludedBy(Head(left_)) \subseteq more)
    PROVE  Seen(list, Tail(left_), got \cup more, now)
<1>1. ToSet(left_) = ToSet(Tail(left_)) \cup {Head(left_)}
  BY Popping
<1> QED BY <1>1 DEF Seen

(* What is in the cache resolves.                                          *)
LEMMA CachedResolves ==
    ASSUME ResolverTyped, CacheGood, NEW f \in cache
    PROVE  IncludedBy(f) \subseteq cache /\ Resolves(f)
<1>1. \A g \in cache : Included(g) \subseteq cache
  BY FilesAreFound DEF CacheGood, Included, Absent
<1>2. IncludedBy(f) \subseteq cache
  BY <1>1, IncludedFacts DEF ResolverTyped
<1>3. \A g \in cache : "require_absent" \notin ToSet(includes[g])
  BY FilesAreFound DEF CacheGood, Absent, ResolverTyped
<1> QED BY <1>2, <1>3 DEF CacheGood, Resolves, LoopFree

-----------------------------------------------------------------------------
(* The call at work.                                                       *)
LEMMA LastCall ==
    ASSUME ResolverInv, calls # << >>
    PROVE  /\ Len(calls) \in Nat \ {0} /\ Call = calls[Len(calls)] /\ Call \in Calls
           /\ Call.left \in Seq(Items) /\ Call.merged \in SUBSET Files
           /\ Len(calls) # 1 => Call.file \in Files /\ ListOf(Len(calls)) = includes[Call.file]
           /\ \A i \in 2 .. Len(calls) : calls[i].file \in Files
<1>1. Len(calls) \in Nat \ {0} /\ Call = calls[Len(calls)] /\ Call \in Calls
  BY EndOfPath DEF ResolverInv, ResolverTyped, Call
<1>2. \A i \in 2 .. Len(calls) : calls[i].file \in Files
  BY DEF ResolverInv, ResolverTyped, Nested
<1>3. Len(calls) # 1 => Len(calls) \in 2 .. Len(calls)
  <2> DEFINE n == Len(calls)
  <2>1. n \in Nat \ {0}
    BY <1>1
  <2> HIDE DEF n
  <2>2. n # 1 => n \in 2 .. n
    BY <2>1
  <2> QED BY <2>2 DEF n
<1> QED BY <1>1, <1>2, <1>3 DEF Calls, ListOf

(* The directive at hand is one of the list of the call at work.           *)
LEMMA AtWork ==
    ASSUME ResolverInv, AtDirective
    PROVE  /\ calls # << >> /\ Call.left # << >> /\ Directive = Head(Call.left)
           /\ Directive \in Items /\ Tail(Call.left) \in Seq(Items)
           /\ Directive \in ToSet(ListOf(Len(calls)))
           /\ Len(calls) # 1 => Directive \in ToSet(includes[Call.file])
<1>1. calls # << >> /\ Call.left # << >> /\ Directive = Head(Call.left)
  BY DEF AtDirective, Directive
<1>2. Call.left \in Seq(Items) /\ Len(calls) \in 1 .. Len(calls) /\ Call = calls[Len(calls)]
  BY <1>1, LastCall
<1>3. Directive \in Items /\ Tail(Call.left) \in Seq(Items) /\ Directive \in ToSet(Call.left)
  BY <1>1, <1>2, Popping
<1>4. ToSet(Call.left) \subseteq ToSet(ListOf(Len(calls)))
  BY <1>2 DEF ResolverInv, Progress, Seen
<1> QED BY <1>1, <1>3, <1>4, LastCall

(* A directive that was come by on the way to it closes a loop.            *)
LEMMA OnStackLoops ==
    ASSUME ResolverInv, AtDirective, Directive \in Parsing
    PROVE  /\ Directive \in Files /\ ~ Resolves(Directive)
           /\ 2 \in 2 .. Len(calls) /\ ~ LoopFree(calls[2].file)
<1> DEFINE n == Len(calls)
           d == Directive
<1>1. PICK i \in 2 .. n : d = calls[i].file
  BY DEF Parsing
<1>2. /\ calls # << >> /\ n \in Nat \ {0} /\ Call = calls[n] /\ includes \in [Files -> Seq(Items)]
      /\ \A k \in 2 .. n : calls[k].file \in Files
  BY AtWork, LastCall DEF ResolverInv, ResolverTyped
<1> HIDE DEF n
<1>3. n # 1 /\ n \in 2 .. n /\ 2 \in 2 .. n
  BY <1>2
<1>4. d \in Files /\ d \in Included(calls[n].file)
  <2>1. d \in ToSet(includes[calls[n].file])
    BY <1>2, <1>3, AtWork DEF n
  <2> QED BY <1>1, <1>2, <2>1 DEF Included
<1>5. d \in IncludedBy(d)
  <2>1. CASE i = n
    BY <1>1, <1>2, <1>4, <2>1, IncludedPasses
  <2>2. CASE i # n
    <3>1. i < n
      BY <1>2, <2>2
    <3>2. calls[n].file \in IncludedBy(d)
      BY <1>1, <1>3, <3>1 DEF ResolverInv, Nested, n
    <3> QED BY <1>2, <1>4, <3>2, IncludedFacts
  <2> QED BY <2>1, <2>2
<1>6. d \in {calls[2].file} \cup IncludedBy(calls[2].file)
  <2>1. CASE i = 2
    BY <1>1, <2>1
  <2>2. CASE i # 2
    <3>1. 2 < i
      BY <1>1, <2>2
    <3> QED BY <1>1, <1>3, <3>1 DEF ResolverInv, Nested, n
  <2> QED BY <2>1, <2>2
<1>7. ~ Resolves(d)
  BY <1>5 DEF Resolves, LoopFree
<1>8. ~ LoopFree(calls[2].file)
  BY <1>5, <1>6 DEF LoopFree
<1> QED BY <1>3, <1>4, <1>7, <1>8 DEF n

(* An error is one of the recipe, and of every file that was being parsed. *)
LEMMA AllFail ==
    ASSUME ResolverInv, AtDirective, Bad(Directive)
    PROVE  /\ \A f \in Parsing : ~ Resolves(f)
           /\ \E d \in ToSet(recipes[Len(recipes)]) : Bad(d)
           /\ 2 \in 2 .. Len(calls) => calls[2].file \in ToSet(recipes[Len(recipes)])
<1> DEFINE n == Len(calls)
<1>1. /\ calls # << >> /\ n \in Nat \ {0} /\ Call = calls[n] /\ includes \in [Files -> Seq(Items)]
      /\ \A k \in 2 .. n : calls[k].file \in Files
      /\ n # 1 => Directive \in ToSet(includes[calls[n].file])
      /\ n = 1 => Directive \in ToSet(recipes[Len(recipes)])
  BY AtWork, LastCall DEF ResolverInv, ResolverTyped, ListOf
<1> HIDE DEF n
<1>2. n # 1 => n \in 2 .. n /\ ~ Resolves(calls[n].file)
  <2>1. n # 1 => n \in 2 .. n
    BY <1>1
  <2> QED BY <1>1, <2>1, BadFails
<1>3. ASSUME NEW i \in 2 .. n PROVE ~ Resolves(calls[i].file)
  <2>1. CASE i = n
    BY <1>2, <2>1
  <2>2. CASE i # n
    <3>1. i < n /\ n # 1
      BY <1>1, <2>2
    <3>2. calls[n].file \in IncludedBy(calls[i].file)
      BY <1>2, <3>1 DEF ResolverInv, Nested, n
    <3> QED BY <1>1, <1>2, <3>1, <3>2, ResolvesAll
  <2> QED BY <2>1, <2>2
<1>4. ASSUME 2 \in 2 .. n PROVE calls[2].file \in ToSet(recipes[Len(recipes)])
  <2>1. 1 \in 1 .. n /\ 1 \in 1 .. n - 1 /\ 1 + 1 = 2
    BY <1>1, <1>4
  <2>2. calls[1].left # << >> /\ Head(calls[1].left) = calls[2].file /\ calls[1].left \in Seq(Items)
    <3>1. calls[1].left # << >> /\ Head(calls[1].left) = calls[1 + 1].file
      BY <2>1 DEF ResolverInv, Nested, n
    <3>2. calls[1] \in Calls
      BY <2>1 DEF ResolverInv, ResolverTyped, n
    <3> QED BY <2>1, <3>1, <3>2 DEF Calls
  <2>3. Head(calls[1].left) \in ToSet(calls[1].left)
    BY <2>2, Popping
  <2>4. ToSet(calls[1].left) \subseteq ToSet(recipes[Len(recipes)])
    BY <2>1 DEF ResolverInv, Progress, Seen, ListOf, n
  <2> QED BY <2>2, <2>3, <2>4
<1>5. \E d \in ToSet(recipes[Len(recipes)]) : Bad(d)
  <2>1. CASE n = 1
    BY <1>1, <2>1
  <2>2. CASE n # 1
    <3>1. 2 \in 2 .. n
      BY <1>1, <2>2
    <3>2. calls[2].file \in Files /\ ~ Resolves(calls[2].file)
      BY <1>1, <1>3, <3>1
    <3> QED BY <1>4, <3>1, <3>2 DEF Bad
  <2> QED BY <2>1, <2>2
<1> QED BY <1>3, <1>4, <1>5 DEF Parsing, n

(* An error ends all calls of the recipe: none of the files resolves, and  *)
(* they stay on the stack.                                                 *)
LEMMA ResolverFails ==
    ASSUME ResolverInv, AtDirective, Bad(Directive), NEW answer \in Answers \ {"ok"}, Error(answer),
           NEW extra \in SUBSET (Files \cap {Directive}), parsing_stack' = parsing_stack \cup extra,
           answer = "circular" => Directive \in parsing_stack
    PROVE  ResolverInv'
<1> DEFINE m == Len(recipes)
<1>1. /\ calls' = << >> /\ answers' = Append(answers, answer)
      /\ UNCHANGED <<includes, readable, cache, merged, recipes>>
  BY DEF Error
<1>2. \A f : /\ Included(f)' = Included(f) /\ IncludedBy(f)' = IncludedBy(f)
             /\ LoopFree(f)' = LoopFree(f) /\ Resolves(f)' = Resolves(f)
  BY <1>1, SameIncludes
<1>3. calls # << >> /\ m = Len(answers) + 1 /\ answers \in Seq(Answers) /\ m \in Nat
  BY AtWork DEF ResolverInv, ResolverTyped, Counted
<1>4. /\ answers' \in Seq(Answers) /\ Len(answers') = m /\ answers'[m] = answer
      /\ DOMAIN answers' = 1 .. m /\ DOMAIN answers = 1 .. m - 1
      /\ \A k \in 1 .. m - 1 : answers'[k] = answers[k]
  <2> DEFINE s == Append(answers, answer)
  <2>1. /\ s \in Seq(Answers) /\ Len(s) = Len(answers) + 1 /\ s[Len(answers) + 1] = answer
        /\ \A k \in 1 .. Len(answers) : s[k] = answers[k]
    BY <1>3, Appending
  <2>2. Len(answers) = m - 1 /\ Len(answers) \in Nat
    BY <1>3
  <2> HIDE DEF s, m
  <2> QED BY <1>1, <1>3, <2>1, <2>2 DEF s
<1> HIDE DEF m
<1>5. m \in 1 .. m
  BY <1>3, <1>4 DEF m
<1>6. ResolverTyped'
  BY <1>1, <1>4 DEF ResolverInv, ResolverTyped
<1>7. Counted'
  BY <1>1, <1>4 DEF Counted, m
<1>8. Len(<< >>) = 0 /\ 2 .. 0 = {} /\ 1 .. 0 = {} /\ 1 .. 0 - 1 = {}
  OBVIOUS
<1>9. Nested' /\ Progress' /\ Parsing' = {}
  BY <1>1, <1>8 DEF Nested, Progress, Parsing
<1>10. CacheGood'
  BY <1>1, <1>2 DEF ResolverInv, CacheGood
<1>11. LeftOver'
  <2>1. \A f \in Parsing : ~ Resolves(f)
    BY AllFail
  <2>2. \A f \in extra : ~ Resolves(f)
    BY FilesAreFound DEF Bad, Absent
  <2>3. \A f \in parsing_stack' : ~ Resolves(f)
    BY <2>1, <2>2 DEF ResolverInv, LeftOver
  <2>4. m \in DOMAIN answers' /\ answers'[m] # "ok"
    BY <1>4, <1>5
  <2> QED BY <1>2, <2>3, <2>4 DEF LeftOver
<1>12. VerdictIsOwn'
  <2>1. ASSUME NEW k \in 1 .. m - 1
        PROVE  answers'[k] = "ok" <=>
                  /\ "require_absent" \notin ToSet(recipes[k])
                  /\ \A f \in ToSet(recipes[k]) \cap Files : Resolves(f)
    BY <1>4 DEF ResolverInv, VerdictIsOwn
  <2>2. ~ ("require_absent" \notin ToSet(recipes[m]) /\ \A f \in ToSet(recipes[m]) \cap Files : Resolves(f))
    BY AllFail DEF Bad, m
  <2>3. \A k \in 1 .. m : k = m \/ k \in 1 .. m - 1
    BY <1>3
  <2> QED BY <1>1, <1>2, <1>4, <2>1, <2>2, <2>3 DEF VerdictIsOwn
<1>13. CircularOrLeftOver'
  <2>1. ASSUME NEW k \in 1 .. m - 1, answers'[k] = "circular"
        PROVE  (\E f \in ToSet(recipes[k]) \cap Files : ~ LoopFree(f)) \/ \E j \in 1 .. k - 1 : answers'[j] # "ok"
    <3>1. (\E f \in ToSet(recipes[k]) \cap Files : ~ LoopFree(f)) \/ \E j \in 1 .. k - 1 : answers[j] # "ok"
      BY <1>4, <2>1 DEF ResolverInv, CircularOrLeftOver
    <3>2. \A j \in 1 .. k - 1 : j \in 1 .. m - 1
      BY <1>3
    <3> QED BY <1>4, <3>1, <3>2
  <2>2. ASSUME answer = "circular"
        PROVE  (\E f \in ToSet(recipes[m]) \cap Files : ~ LoopFree(f)) \/ \E j \in 1 .. m - 1 : answers'[j] # "ok"
    <3>1. SUFFICES ASSUME \A j \in 1 .. m - 1 : answers[j] = "ok"
                   PROVE  \E f \in ToSet(recipes[m]) \cap Files : ~ LoopFree(f)
      BY <1>4
    <3>2. Directive \in Parsing
      BY <1>4, <2>2, <3>1 DEF ResolverInv, LeftOver
    <3>3. 2 \in 2 .. Len(calls) /\ ~ LoopFree(calls[2].file)
      BY <3>2, OnStackLoops
    <3>4. calls[2].file \in ToSet(recipes[m]) /\ calls[2].file \in Files
      BY <1>3, <3>3, AllFail, LastCall DEF m
    <3> QED BY <3>3, <3>4
  <2>3. \A k \in 1 .. m : k = m \/ k \in 1 .. m - 1
    BY <1>3
  <2> QED BY <1>1, <1>2, <1>4, <2>1, <2>2, <2>3 DEF CircularOrLeftOver
<1> QED BY <1>6, <1>7, <1>9, <1>10, <1>11, <1>12, <1>13 DEF ResolverInv

(* The directive at hand is done with, and what it brings is merged.       *)
LEMMA ResolverAdvances ==
    ASSUME ResolverInv, AtDirective, NEW got \in SUBSET Files, calls' = Append(Front(calls), Advanced(got)),
           Directive = "include_absent" \/ (Directive \in cache /\ {Directive} \cup IncludedBy(Directive) \subseteq got),
           Len(calls) # 1 => got \subseteq IncludedBy(Call.file),
           UNCHANGED <<includes, readable, cache, merged, parsing_stack, recipes, answers>>
    PROVE  ResolverInv'
<1> DEFINE n == Len(calls)
           e == Advanced(got)
<1>1. \A f : /\ Included(f)' = Included(f) /\ IncludedBy(f)' = IncludedBy(f)
             /\ LoopFree(f)' = LoopFree(f) /\ Resolves(f)' = Resolves(f)
  BY SameIncludes
<1>2. /\ calls # << >> /\ n \in Nat \ {0} /\ Call = calls[n] /\ Call \in Calls /\ calls \in Seq(Calls)
      /\ Call.left \in Seq(Items) /\ Call.left # << >> /\ Call.merged \in SUBSET Files
      /\ Tail(Call.left) \in Seq(Items) /\ Directive = Head(Call.left)
  BY AtWork, LastCall DEF ResolverInv, ResolverTyped
<1>3. e \in Calls /\ e.file = Call.file /\ e.left = Tail(Call.left) /\ e.merged = Call.merged \cup got
  BY <1>2 DEF Advanced, Calls
<1> HIDE DEF e
<1>4. /\ calls' \in Seq(Calls) /\ Len(calls') = n /\ calls'[n] = e
      /\ \A i \in 1 .. n - 1 : calls'[i] = calls[i]
  <2> DEFINE r == Append(Front(calls), e)
  <2>1. /\ r \in Seq(Calls) /\ Len(r) = n /\ r[n] = e /\ \A i \in 1 .. n - 1 : r[i] = calls[i]
    BY <1>2, <1>3, Replacing
  <2>2. calls' = r
    BY DEF e
  <2> HIDE DEF r
  <2> QED BY <2>1, <2>2
<1> HIDE DEF n
<1>5. \A i \in 1 .. n : calls'[i].file = calls[i].file
  <2>1. \A i \in 1 .. n : i = n \/ i \in 1 .. n - 1
    BY <1>2
  <2> QED BY <1>2, <1>3, <1>4, <2>1
<1>6. /\ \A i \in 2 .. n : i \in 1 .. n
      /\ \A i \in 1 .. n - 1 : i \in 1 .. n /\ i + 1 \in 1 .. n
  BY <1>2
<1>7. \A i \in 1 .. n : ListOf(i)' = ListOf(i)
  BY <1>5 DEF ListOf
<1>8. Parsing' = Parsing
  BY <1>4, <1>5, <1>6 DEF Parsing, n
<1>9. ResolverTyped' /\ Counted'
  <2>1. calls' # << >>
    <3>1. Len(<< >>) = 0
      OBVIOUS
    <3> QED BY <1>2, <1>4, <3>1
  <2> QED BY <1>2, <1>4, <2>1 DEF ResolverInv, ResolverTyped, Counted
<1>10. Nested'
  <2>1. \A i \in 2 .. n : calls'[i].file \in (readable \cap parsing_stack) \ cache
    BY <1>5, <1>6 DEF ResolverInv, Nested, n
  <2>2. \A i, j \in 2 .. n : calls'[i].file = calls'[j].file => i = j
    BY <1>5, <1>6 DEF ResolverInv, Nested, n
  <2>3. \A i, j \in 2 .. n : i < j => calls'[j].file \in IncludedBy(calls'[i].file)
    BY <1>5, <1>6 DEF ResolverInv, Nested, n
  <2>4. \A i \in 1 .. n - 1 : calls'[i].left # << >> /\ Head(calls'[i].left) = calls'[i + 1].file
    BY <1>4, <1>5, <1>6 DEF ResolverInv, Nested, n
  <2> QED BY <1>1, <1>4, <2>1, <2>2, <2>3, <2>4 DEF Nested
<1>11. Progress'
  <2>1. ASSUME NEW i \in 1 .. n
        PROVE  /\ Seen(ListOf(i), calls'[i].left, calls'[i].merged, cache)
               /\ i # 1 => calls'[i].merged \subseteq IncludedBy(calls'[i].file)
    <3>1. /\ Seen(ListOf(i), calls[i].left, calls[i].merged, cache)
          /\ i # 1 => calls[i].merged \subseteq IncludedBy(calls[i].file)
      BY DEF ResolverInv, Progress, n
    <3>2. CASE i = n
      <4>1. Seen(ListOf(n), Tail(Call.left), Call.merged \cup got, cache)
        BY <1>2, <3>1, <3>2, SeenMore
      <4> QED BY <1>2, <1>3, <1>4, <3>1, <3>2, <4>1 DEF n
    <3>3. CASE i # n
      <4>1. i \in 1 .. n - 1
        BY <1>2, <3>3
      <4> QED BY <1>4, <3>1, <4>1
    <3> QED BY <3>2, <3>3
  <2>2. ASSUME NEW i \in 1 .. n
        PROVE  Seen(ListOf(i), calls[i].left, calls[i].merged, cache)'
    BY <1>1, <1>7, <2>1 DEF Seen
  <2> QED BY <1>1, <1>4, <2>1, <2>2 DEF Progress
<1>12. CacheGood' /\ LeftOver'
  BY <1>1, <1>8 DEF ResolverInv, CacheGood, LeftOver
<1>13. VerdictIsOwn' /\ CircularOrLeftOver'
  BY <1>1 DEF ResolverInv, VerdictIsOwn, CircularOrLeftOver
<1> QED BY <1>9, <1>10, <1>11, <1>12, <1>13 DEF ResolverInv

(* The next recipe begins with the cache and the stack that were left.     *)
LEMMA ResolverBegins == ASSUME ResolverInv, NEW list \in RecipeLists, BeginRecipe(list) PROVE ResolverInv'
<1> DEFINE one == [file |-> TheRecipe, left |-> list, merged |-> {}]
           m == Len(recipes)
<1>1. /\ calls = << >> /\ calls' = <<one>> /\ recipes' = Append(recipes, list)
      /\ UNCHANGED <<includes, readable, cache, merged, parsing_stack, answers>>
  BY DEF BeginRecipe
<1>2. \A f : /\ Included(f)' = Included(f) /\ IncludedBy(f)' = IncludedBy(f)
             /\ LoopFree(f)' = LoopFree(f) /\ Resolves(f)' = Resolves(f)
  BY <1>1, SameIncludes
<1>3. list \in Seq(Items) /\ one \in Calls
  BY ListsOfDirectives DEF Items, Calls
<1>4. recipes \in Seq(Seq(Items)) /\ m \in Nat /\ Len(answers) = m /\ answers \in Seq(Answers) /\ DOMAIN answers = 1 .. m
  BY <1>1 DEF ResolverInv, ResolverTyped, Counted
<1>5. recipes' \in Seq(Seq(Items)) /\ Len(recipes') = m + 1 /\ recipes'[m + 1] = list /\ \A k \in 1 .. m : recipes'[k] = recipes[k]
  <2> DEFINE s == Append(recipes, list)
             T == Seq(Items)
  <2>1. s \in Seq(T) /\ Len(s) = m + 1 /\ s[m + 1] = list /\ \A k \in 1 .. m : s[k] = recipes[k]
    <3>1. recipes \in Seq(T) /\ list \in T
      BY <1>3, <1>4
    <3> HIDE DEF T
    <3> QED BY <3>1, Appending
  <2> HIDE DEF s
  <2> QED BY <1>1, <2>1 DEF s
<1> HIDE DEF m, one
<1>6. calls' \in Seq(Calls) /\ Len(calls') = 1 /\ calls'[1] = one /\ calls' # << >>
  BY <1>1, <1>3
<1>7. 2 .. 1 = {} /\ 1 .. 1 - 1 = {} /\ 1 .. 1 = {1} /\ Len(<< >>) = 0 /\ 2 .. 0 = {}
  OBVIOUS
<1>8. ListOf(1)' = list
  BY <1>5 DEF ListOf
<1>9. ResolverTyped'
  BY <1>1, <1>5, <1>6 DEF ResolverInv, ResolverTyped
<1>10. Counted'
  BY <1>1, <1>4, <1>5, <1>6 DEF Counted
<1>11. Nested'
  BY <1>6, <1>7 DEF Nested
<1>12. Progress'
  <2>1. Seen(list, list, {}, cache)
    BY DEF Seen
  <2>2. Seen(ListOf(1), calls[1].left, calls[1].merged, cache)'
    BY <1>1, <1>2, <1>6, <1>8, <2>1 DEF Seen, one
  <2> QED BY <1>6, <1>7, <2>2 DEF Progress
<1>13. Parsing' = {} /\ Parsing = {}
  BY <1>1, <1>6, <1>7 DEF Parsing
<1>14. CacheGood' /\ LeftOver'
  BY <1>1, <1>2, <1>13 DEF ResolverInv, CacheGood, LeftOver
<1>15. VerdictIsOwn'
  BY <1>1, <1>2, <1>4, <1>5 DEF ResolverInv, VerdictIsOwn
<1>16. CircularOrLeftOver'
  BY <1>1, <1>2, <1>4, <1>5 DEF ResolverInv, CircularOrLeftOver
<1> QED BY <1>9, <1>10, <1>11, <1>12, <1>14, <1>15, <1>16 DEF ResolverInv

(* A recipe whose directives are all done with resolves.                   *)
LEMMA ResolverResolves == ResolverInv /\ RecipeResolved => ResolverInv'
<1> SUFFICES ASSUME ResolverInv, RecipeResolved PROVE ResolverInv'
  OBVIOUS
<1> DEFINE m == Len(recipes)
<1>1. /\ Len(calls) = 1 /\ Call.left = << >> /\ calls' = << >> /\ answers' = Append(answers, "ok")
      /\ UNCHANGED <<includes, readable, cache, merged, parsing_stack, recipes>>
  BY DEF RecipeResolved
<1>2. \A f : /\ Included(f)' = Included(f) /\ IncludedBy(f)' = IncludedBy(f)
             /\ LoopFree(f)' = LoopFree(f) /\ Resolves(f)' = Resolves(f)
  BY <1>1, SameIncludes
<1>3. calls # << >> /\ m = Len(answers) + 1 /\ answers \in Seq(Answers) /\ m \in Nat
  <2>1. Len(<< >>) = 0
    OBVIOUS
  <2>2. calls # << >>
    BY <1>1, <2>1
  <2> QED BY <2>2 DEF ResolverInv, ResolverTyped, Counted
<1>4. /\ answers' \in Seq(Answers) /\ Len(answers') = m /\ answers'[m] = "ok"
      /\ DOMAIN answers' = 1 .. m /\ DOMAIN answers = 1 .. m - 1
      /\ \A k \in 1 .. m - 1 : answers'[k] = answers[k]
  <2> DEFINE s == Append(answers, "ok")
  <2>1. /\ s \in Seq(Answers) /\ Len(s) = Len(answers) + 1 /\ s[Len(answers) + 1] = "ok"
        /\ \A k \in 1 .. Len(answers) : s[k] = answers[k]
    <3>1. "ok" \in Answers
      BY DEF Answers
    <3> QED BY <1>3, <3>1, Appending
  <2>2. Len(answers) = m - 1 /\ Len(answers) \in Nat
    BY <1>3
  <2> HIDE DEF s, m
  <2> QED BY <1>1, <1>3, <2>1, <2>2 DEF s
<1> HIDE DEF m
<1>5. m \in 1 .. m /\ \A k \in 1 .. m : k = m \/ k \in 1 .. m - 1
  <2>1. m # 0 /\ m \in Nat
    <3>1. Len(answers) \in Nat
      BY <1>3
    <3> QED BY <1>3, <3>1
  <2> QED BY <2>1
<1>6. ResolverTyped' /\ Counted'
  BY <1>1, <1>4 DEF ResolverInv, ResolverTyped, Counted, m
<1>7. Len(<< >>) = 0 /\ 2 .. 0 = {} /\ 1 .. 0 = {} /\ 1 .. 0 - 1 = {} /\ 2 .. 1 = {}
  OBVIOUS
<1>8. Nested' /\ Progress' /\ Parsing' = {} /\ Parsing = {}
  BY <1>1, <1>7 DEF Nested, Progress, Parsing
<1>9. CacheGood'
  BY <1>1, <1>2 DEF ResolverInv, CacheGood
<1>10. LeftOver'
  <2>1. ASSUME \A k \in 1 .. m : answers'[k] = "ok" PROVE \A k \in 1 .. m - 1 : answers[k] = "ok"
    <3>1. \A k \in 1 .. m - 1 : k \in 1 .. m
      BY <1>3
    <3> QED BY <1>4, <2>1, <3>1
  <2> QED BY <1>1, <1>2, <1>4, <1>8, <2>1 DEF ResolverInv, LeftOver
<1>11. \A d \in ToSet(recipes[m]) : d = "include_absent" \/ d \in cache
  <2>1. 1 \in 1 .. Len(calls) /\ Call = calls[1]
    BY <1>1, <1>3, LastCall
  <2>2. Seen(recipes[m], Call.left, Call.merged, cache)
    BY <2>1 DEF ResolverInv, Progress, ListOf, m
  <2>3. ToSet(Call.left) = {}
    BY <1>1 DEF ToSet
  <2> QED BY <2>2, <2>3 DEF Seen
<1>12. VerdictIsOwn'
  <2>1. ASSUME NEW k \in 1 .. m - 1
        PROVE  answers'[k] = "ok" <=>
                  /\ "require_absent" \notin ToSet(recipes[k])
                  /\ \A f \in ToSet(recipes[k]) \cap Files : Resolves(f)
    BY <1>4 DEF ResolverInv, VerdictIsOwn
  <2>2. cache \subseteq Files
    BY DEF ResolverInv, ResolverTyped
  <2>3. "require_absent" \notin ToSet(recipes[m]) /\ "include_absent" \notin Files
    BY <1>11, <2>2, FilesAreFound DEF Absent
  <2>4. \A f \in ToSet(recipes[m]) \cap Files : Resolves(f)
    BY <1>11, <2>3, CachedResolves DEF ResolverInv
  <2> QED BY <1>1, <1>2, <1>4, <1>5, <2>1, <2>3, <2>4 DEF VerdictIsOwn
<1>13. CircularOrLeftOver'
  <2>1. ASSUME NEW k \in 1 .. m - 1, answers'[k] = "circular"
        PROVE  (\E f \in ToSet(recipes[k]) \cap Files : ~ LoopFree(f)) \/ \E j \in 1 .. k - 1 : answers'[j] # "ok"
    <3>1. (\E f \in ToSet(recipes[k]) \cap Files : ~ LoopFree(f)) \/ \E j \in 1 .. k - 1 : answers[j] # "ok"
      BY <1>4, <2>1 DEF ResolverInv, CircularOrLeftOver
    <3>2. \A j \in 1 .. k - 1 : j \in 1 .. m - 1
      BY <1>3
    <3> QED BY <1>4, <3>1, <3>2
  <2>2. ASSUME NEW k \in 1 .. m, answers'[k] = "circular" PROVE k \in 1 .. m - 1
    BY <1>4, <1>5, <2>2
  <2> QED BY <1>1, <1>2, <1>4, <2>1, <2>2 DEF CircularOrLeftOver
<1> QED BY <1>6, <1>8, <1>9, <1>10, <1>12, <1>13 DEF ResolverInv

(* A file that is not cached and not on the stack is parsed in a call of   *)
(* its own.                                                                *)
LEMMA ResolverParses == ResolverInv /\ Parse => ResolverInv'
<1> SUFFICES ASSUME ResolverInv, Parse PROVE ResolverInv'
  OBVIOUS
<1> DEFINE n == Len(calls)
           d == Directive
           new == [file |-> d, left |-> includes[d], merged |-> {}]
<1>1. /\ AtDirective /\ d \in readable /\ d \notin parsing_stack /\ d \notin cache
      /\ parsing_stack' = parsing_stack \cup {d} /\ calls' = Append(calls, new)
      /\ UNCHANGED <<includes, readable, cache, merged, recipes, answers>>
  BY DEF Parse
<1>2. \A f : /\ Included(f)' = Included(f) /\ IncludedBy(f)' = IncludedBy(f)
             /\ LoopFree(f)' = LoopFree(f) /\ Resolves(f)' = Resolves(f)
  BY <1>1, SameIncludes
<1>3. /\ calls # << >> /\ n \in Nat \ {0} /\ Call = calls[n] /\ calls \in Seq(Calls)
      /\ Call.left # << >> /\ d = Head(Call.left) /\ includes \in [Files -> Seq(Items)] /\ readable \subseteq Files
      /\ n # 1 => d \in ToSet(includes[calls[n].file]) /\ calls[n].file \in Files
  BY <1>1, AtWork, LastCall DEF ResolverInv, ResolverTyped
<1>4. d \in Files /\ new \in Calls
  BY <1>1, <1>3 DEF Calls
<1> HIDE DEF n, d
<1>5. new.file = d /\ new.left = includes[d] /\ new.merged = {}
  OBVIOUS
<1> HIDE DEF new
<1>6. /\ calls' \in Seq(Calls) /\ Len(calls') = n + 1 /\ calls'[n + 1] = new /\ \A i \in 1 .. n : calls'[i] = calls[i]
  <2> DEFINE r == Append(calls, new)
  <2>1. r \in Seq(Calls) /\ Len(r) = n + 1 /\ r[n + 1] = new /\ \A i \in 1 .. n : r[i] = calls[i]
    BY <1>3, <1>4, Appending DEF n
  <2>2. calls' = r
    BY <1>1
  <2> HIDE DEF r
  <2> QED BY <2>1, <2>2
<1>7. /\ \A i \in 2 .. n + 1 : i = n + 1 \/ i \in 2 .. n
      /\ \A i \in 2 .. n : i \in 1 .. n /\ i \in 2 .. n + 1
      /\ \A i \in 1 .. n + 1 : i = n + 1 \/ i \in 1 .. n
      /\ \A i \in 1 .. n : i = n \/ (i \in 1 .. n - 1 /\ i + 1 \in 1 .. n)
      /\ n \in 1 .. n /\ n + 1 # 1 /\ (n + 1) - 1 = n /\ n + 1 \in 2 .. n + 1
  BY <1>3
<1>8. \A i \in 2 .. n : calls[i].file \in parsing_stack /\ calls[i].file # d /\ calls[i].file \in Files
  BY <1>1 DEF ResolverInv, Nested, ResolverTyped, n
<1>9. ResolverTyped' /\ Counted'
  <2>1. calls' # << >>
    <3>1. Len(<< >>) = 0
      OBVIOUS
    <3> QED BY <1>3, <1>6, <3>1
  <2> QED BY <1>1, <1>3, <1>4, <1>6, <2>1 DEF ResolverInv, ResolverTyped, Counted
<1>10. Nested'
  <2>1. \A i \in 2 .. n + 1 : calls'[i].file \in (readable \cap parsing_stack') \ cache
    BY <1>1, <1>5, <1>6, <1>7 DEF ResolverInv, Nested, n
  <2>2. ASSUME NEW i \in 2 .. n + 1, NEW j \in 2 .. n + 1, calls'[i].file = calls'[j].file PROVE i = j
    <3>1. CASE i \in 2 .. n /\ j \in 2 .. n
      BY <1>6, <1>7, <2>2, <3>1 DEF ResolverInv, Nested, n
    <3>2. CASE i = n + 1 /\ j = n + 1
      BY <3>2
    <3>3. CASE i = n + 1 /\ j \in 2 .. n
      BY <1>5, <1>6, <1>7, <1>8, <2>2, <3>3
    <3>4. CASE i \in 2 .. n /\ j = n + 1
      BY <1>5, <1>6, <1>7, <1>8, <2>2, <3>4
    <3> QED BY <1>7, <3>1, <3>2, <3>3, <3>4
  <2>3. ASSUME NEW i \in 2 .. n + 1, NEW j \in 2 .. n + 1, i < j PROVE calls'[j].file \in IncludedBy(calls'[i].file)
    <3>1. i \in 2 .. n
      BY <1>3, <2>3
    <3>2. CASE j \in 2 .. n
      BY <1>6, <1>7, <2>3, <3>1, <3>2 DEF ResolverInv, Nested, n
    <3>3. CASE j = n + 1
      <4>1. d \in Included(calls[n].file) /\ n \in 2 .. n
        BY <1>3, <1>4, <3>1 DEF Included
      <4>2. d \in IncludedBy(calls[i].file)
        <5>1. CASE i = n
          BY <1>3, <1>8, <4>1, <5>1, IncludedPasses
        <5>2. CASE i # n
          <6>1. i < n
            BY <1>3, <3>1, <5>2
          <6>2. calls[n].file \in IncludedBy(calls[i].file)
            BY <3>1, <4>1, <6>1 DEF ResolverInv, Nested, n
          <6> QED BY <1>3, <1>8, <3>1, <4>1, <6>2, IncludedFacts
        <5> QED BY <5>1, <5>2
      <4> QED BY <1>5, <1>6, <1>7, <3>1, <3>3, <4>2
    <3> QED BY <1>7, <3>2, <3>3
  <2>4. ASSUME NEW i \in 1 .. n PROVE calls'[i].left # << >> /\ Head(calls'[i].left) = calls'[i + 1].file
    <3>1. CASE i = n
      BY <1>3, <1>5, <1>6, <1>7, <3>1
    <3>2. CASE i # n
      <4>1. i \in 1 .. n - 1 /\ i + 1 \in 1 .. n
        BY <1>7, <3>2
      <4> QED BY <1>6, <4>1 DEF ResolverInv, Nested, n
    <3> QED BY <3>1, <3>2
  <2>5. Len(calls') = n + 1 /\ 1 .. (n + 1) - 1 = 1 .. n
    BY <1>6, <1>7
  <2> QED BY <1>1, <1>2, <2>1, <2>2, <2>3, <2>4, <2>5 DEF Nested
<1>11. Progress'
  <2>1. ASSUME NEW i \in 1 .. n + 1
        PROVE  /\ Seen(ListOf(i), calls[i].left, calls[i].merged, cache)'
               /\ i # 1 => calls'[i].merged \subseteq IncludedBy(calls'[i].file)
    <3>1. CASE i = n + 1
      <4>1. ListOf(i)' = includes[d]
        BY <1>1, <1>5, <1>6, <1>7, <3>1 DEF ListOf
      <4>2. Seen(includes[d], includes[d], {}, cache)
        BY DEF Seen
      <4> QED BY <1>1, <1>2, <1>5, <1>6, <3>1, <4>1, <4>2 DEF Seen
    <3>2. CASE i # n + 1
      <4>1. i \in 1 .. n /\ calls'[i] = calls[i]
        BY <1>6, <1>7, <3>2
      <4>2. ListOf(i)' = ListOf(i)
        BY <1>1, <4>1 DEF ListOf
      <4>3. /\ Seen(ListOf(i), calls[i].left, calls[i].merged, cache)
            /\ i # 1 => calls[i].merged \subseteq IncludedBy(calls[i].file)
        BY <4>1 DEF ResolverInv, Progress, n
      <4> QED BY <1>1, <1>2, <4>1, <4>2, <4>3 DEF Seen
    <3> QED BY <3>1, <3>2
  <2> QED BY <1>2, <1>6, <2>1 DEF Progress
<1>12. Parsing' = Parsing \cup {d}
  <2>1. Parsing' = {calls'[i].file : i \in 2 .. n + 1}
    BY <1>6 DEF Parsing
  <2>2. Parsing = {calls[i].file : i \in 2 .. n}
    BY DEF Parsing, n
  <2>3. \A i \in 2 .. n : calls'[i].file = calls[i].file
    BY <1>6, <1>7
  <2>4. calls'[n + 1].file = d
    BY <1>5, <1>6
  <2> QED BY <1>7, <2>1, <2>2, <2>3, <2>4
<1>13. CacheGood' /\ LeftOver'
  BY <1>1, <1>2, <1>12 DEF ResolverInv, CacheGood, LeftOver
<1>14. VerdictIsOwn' /\ CircularOrLeftOver'
  BY <1>1, <1>2 DEF ResolverInv, VerdictIsOwn, CircularOrLeftOver
<1> QED BY <1>9, <1>10, <1>11, <1>13, <1>14 DEF ResolverInv

(* A file that was parsed goes into the cache, and leaves the stack.       *)
LEMMA ResolverReturns == ResolverInv /\ Parsed => ResolverInv'
<1> SUFFICES ASSUME ResolverInv, Parsed PROVE ResolverInv'
  OBVIOUS
<1> DEFINE n == Len(calls)
           f == Call.file
           above == calls[n - 1]
           e == [above EXCEPT !.left = Tail(@), !.merged = @ \cup {f} \cup Call.merged]
<1>1. /\ n > 1 /\ Call.left = << >> /\ parsing_stack' = parsing_stack \ {f} /\ cache' = cache \cup {f}
      /\ merged' = [merged EXCEPT ![f] = Call.merged] /\ calls' = Append(Front(Front(calls)), e)
      /\ UNCHANGED <<includes, readable, recipes, answers>>
  BY DEF Parsed
<1>2. \A g : /\ Included(g)' = Included(g) /\ IncludedBy(g)' = IncludedBy(g)
             /\ LoopFree(g)' = LoopFree(g) /\ Resolves(g)' = Resolves(g)
  BY <1>1, SameIncludes
<1>3. calls # << >>
  <2>1. Len(<< >>) = 0
    OBVIOUS
  <2> QED BY <1>1, <2>1
<1>4. /\ n \in Nat \ {0, 1} /\ Call = calls[n] /\ Call.merged \in SUBSET Files /\ f \in Files /\ ListOf(n) = includes[f]
      /\ calls \in Seq(Calls) /\ includes \in [Files -> Seq(Items)] /\ cache \subseteq Files
      /\ merged \in [Files -> SUBSET Files]
  BY <1>1, <1>3, LastCall DEF ResolverInv, ResolverTyped
<1> HIDE DEF n, f
<1>5. /\ n \in 1 .. n /\ n \in 2 .. n /\ n - 1 \in 1 .. n - 1 /\ n - 1 \in 1 .. n /\ (n - 1) + 1 = n
      /\ \A i \in 2 .. n - 1 : i \in 2 .. n /\ i # n /\ i \in 1 .. n - 1 /\ i < n
      /\ \A i \in 1 .. n - 1 : i \in 1 .. n /\ (i = n - 1 \/ i \in 1 .. (n - 1) - 1)
      /\ \A i \in 1 .. (n - 1) - 1 : i \in 1 .. n - 1 /\ i + 1 \in 1 .. n - 1
      /\ \A i \in 2 .. n : i = n \/ i \in 2 .. n - 1
  BY <1>4
<1>6. above \in Calls /\ above.left \in Seq(Items) /\ above.left # << >> /\ Head(above.left) = f
  <2>1. above \in Calls
    <3>1. \A i \in 1 .. n : calls[i] \in Calls
      BY <1>4 DEF n
    <3> QED BY <1>5, <3>1
  <2>2. calls[n - 1].left # << >> /\ Head(calls[n - 1].left) = calls[(n - 1) + 1].file
    BY <1>5 DEF ResolverInv, Nested, n
  <2> QED BY <1>4, <1>5, <2>1, <2>2 DEF Calls, f
<1> HIDE DEF above
<1>7. /\ e \in Calls /\ e.file = above.file /\ e.left = Tail(above.left)
      /\ e.merged = above.merged \cup ({f} \cup Call.merged)
  <2>1. Tail(above.left) \in Seq(Items)
    BY <1>6, Popping
  <2>2. e.file = above.file /\ e.left = Tail(above.left) /\ e.merged = above.merged \cup {f} \cup Call.merged
    BY <1>6 DEF Calls
  <2>3. e \in Calls
    BY <1>4, <1>6, <2>1 DEF Calls
  <2> HIDE DEF e
  <2> QED BY <2>2, <2>3
<1> HIDE DEF e
<1>8. /\ calls' \in Seq(Calls) /\ Len(calls') = n - 1 /\ calls'[n - 1] = e
      /\ \A i \in 1 .. (n - 1) - 1 : calls'[i] = calls[i]
  <2> DEFINE c == Front(calls)
             r == Append(Front(c), e)
  <2>1. c \in Seq(Calls) /\ Len(c) = n - 1 /\ \A i \in 1 .. n - 1 : c[i] = calls[i]
    BY <1>3, <1>4, EndOfPath DEF n
  <2>2. c # << >>
    <3>1. Len(<< >>) = 0
      OBVIOUS
    <3> HIDE DEF c
    <3> QED BY <1>4, <2>1, <3>1
  <2> HIDE DEF c
  <2>3. r \in Seq(Calls) /\ Len(r) = Len(c) /\ r[Len(c)] = e /\ \A i \in 1 .. Len(c) - 1 : r[i] = c[i]
    BY <1>7, <2>1, <2>2, Replacing
  <2>4. calls' = r
    BY <1>1 DEF c, n, f
  <2> HIDE DEF r
  <2> QED BY <1>5, <2>1, <2>3, <2>4
<1>9. \A i \in 1 .. n - 1 : calls'[i].file = calls[i].file
  BY <1>5, <1>7, <1>8 DEF above
<1>10. /\ f \in readable /\ f \in parsing_stack /\ f \notin cache /\ calls[n].file = f
       /\ \A i \in 2 .. n - 1 : /\ calls[i].file \in (readable \cap parsing_stack) \ cache
                                /\ calls[i].file # f /\ f \in IncludedBy(calls[i].file)
  <2>1. calls[n].file = f
    BY <1>4 DEF f
  <2>2. f \in readable /\ f \in parsing_stack /\ f \notin cache
    BY <1>5, <2>1 DEF ResolverInv, Nested, n
  <2>3. ASSUME NEW i \in 2 .. n - 1
        PROVE  /\ calls[i].file \in (readable \cap parsing_stack) \ cache
               /\ calls[i].file # f /\ f \in IncludedBy(calls[i].file)
    <3>1. i \in 2 .. n /\ n \in 2 .. n /\ i < n /\ i # n
      BY <1>5
    <3> QED BY <2>1, <3>1 DEF ResolverInv, Nested, n
  <2> QED BY <2>1, <2>2, <2>3
<1>11. /\ ToSet(includes[f]) \subseteq cache \cup {"include_absent"} /\ IncludedBy(f) = Call.merged
       /\ IncludedBy(f) \subseteq cache
  <2>1. Seen(includes[f], << >>, Call.merged, cache)
    BY <1>1, <1>4, <1>5 DEF ResolverInv, Progress, n
  <2>2. ToSet(<< >>) = {}
    BY DEF ToSet
  <2>3. \A d \in ToSet(includes[f]) : d = "include_absent" \/ (d \in cache /\ {d} \cup IncludedBy(d) \subseteq Call.merged)
    BY <2>1, <2>2 DEF Seen
  <2>4. \A d \in Included(f) : d \in cache /\ d \in Call.merged /\ IncludedBy(d) \subseteq Call.merged
    BY <2>3, FilesAreFound DEF Included, Absent
  <2>5. IncludedBy(f) \subseteq Call.merged
    BY <1>4, <2>4, IncludedSplits
  <2>6. Call.merged \subseteq IncludedBy(f)
    <3>1. n # 1
      BY <1>4
    <3> QED BY <1>4, <1>5, <1>10, <3>1 DEF ResolverInv, Progress, n
  <2>7. \A d \in Included(f) : IncludedBy(d) \subseteq cache
    BY <2>4, CachedResolves DEF ResolverInv
  <2>8. IncludedBy(f) \subseteq cache
    BY <1>4, <2>4, <2>7, IncludedSplits
  <2> QED BY <2>3, <2>5, <2>6, <2>8
<1>12. ResolverTyped' /\ Counted'
  <2>1. calls' # << >>
    <3>1. Len(<< >>) = 0
      OBVIOUS
    <3> QED BY <1>4, <1>8, <3>1
  <2> QED BY <1>1, <1>3, <1>4, <1>8, <2>1 DEF ResolverInv, ResolverTyped, Counted
<1>13. Nested'
  <2>1. \A i \in 2 .. n - 1 : calls'[i].file \in (readable \cap parsing_stack') \ cache'
    BY <1>1, <1>5, <1>9, <1>10
  <2>2. \A i, j \in 2 .. n - 1 : calls'[i].file = calls'[j].file => i = j
    BY <1>5, <1>9 DEF ResolverInv, Nested, n
  <2>3. \A i, j \in 2 .. n - 1 : i < j => calls'[j].file \in IncludedBy(calls'[i].file)
    BY <1>5, <1>9 DEF ResolverInv, Nested, n
  <2>4. \A i \in 1 .. (n - 1) - 1 : calls'[i].left # << >> /\ Head(calls'[i].left) = calls'[i + 1].file
    <3>1. ASSUME NEW i \in 1 .. (n - 1) - 1 PROVE calls'[i].left # << >> /\ Head(calls'[i].left) = calls'[i + 1].file
      <4>1. i \in 1 .. n - 1 /\ i + 1 \in 1 .. n - 1
        BY <1>5
      <4>2. calls[i].left # << >> /\ Head(calls[i].left) = calls[i + 1].file
        BY <4>1 DEF ResolverInv, Nested, n
      <4> QED BY <1>8, <1>9, <4>1, <4>2
    <3> QED BY <3>1
  <2> QED BY <1>1, <1>2, <1>8, <2>1, <2>2, <2>3, <2>4 DEF Nested
<1>14. Progress'
  <2>1. ASSUME NEW i \in 1 .. n - 1
        PROVE  /\ Seen(ListOf(i), calls'[i].left, calls'[i].merged, cache')
               /\ i # 1 => calls'[i].merged \subseteq IncludedBy(calls'[i].file)
    <3>1. /\ Seen(ListOf(i), calls[i].left, calls[i].merged, cache)
          /\ i # 1 => calls[i].merged \subseteq IncludedBy(calls[i].file)
      BY <1>5 DEF ResolverInv, Progress, n
    <3>2. CASE i = n - 1
      <4>1. Seen(ListOf(i), above.left, above.merged, cache)
        BY <3>1, <3>2 DEF above
      <4>2. cache \subseteq cache' /\ f \in cache' /\ {f} \cup IncludedBy(f) \subseteq {f} \cup Call.merged
        BY <1>1, <1>11
      <4>3. Seen(ListOf(i), Tail(above.left), above.merged \cup ({f} \cup Call.merged), cache')
        BY <1>6, <4>1, <4>2, SeenMore
      <4>4. ASSUME i # 1 PROVE e.merged \subseteq IncludedBy(above.file)
        <5>1. i \in 2 .. n - 1
          BY <1>4, <4>4
        <5>2. f \in IncludedBy(calls[i].file) /\ calls[i].file \in Files
          BY <1>10, <5>1 DEF ResolverInv, ResolverTyped
        <5>3. IncludedBy(f) \subseteq IncludedBy(calls[i].file)
          BY <1>4, <5>2, IncludedPasses
        <5> QED BY <1>7, <1>11, <3>1, <3>2, <4>4, <5>2, <5>3 DEF above
      <4> QED BY <1>7, <1>8, <3>2, <4>3, <4>4
    <3>3. CASE i # n - 1
      <4>1. calls'[i] = calls[i]
        BY <1>5, <1>8, <3>3
      <4> QED BY <1>1, <3>1, <4>1 DEF Seen
    <3> QED BY <3>2, <3>3
  <2>2. ASSUME NEW i \in 1 .. n - 1 PROVE Seen(ListOf(i), calls[i].left, calls[i].merged, cache)'
    <3>1. ListOf(i)' = ListOf(i)
      BY <1>1, <1>9 DEF ListOf
    <3> QED BY <1>2, <2>1, <3>1 DEF Seen
  <2> QED BY <1>2, <1>8, <2>1, <2>2 DEF Progress
<1>15. Parsing' = Parsing \ {f}
  <2>1. Parsing' = {calls'[i].file : i \in 2 .. n - 1}
    BY <1>8 DEF Parsing
  <2>2. Parsing = {calls[i].file : i \in 2 .. n}
    BY DEF Parsing, n
  <2>3. \A i \in 2 .. n - 1 : calls'[i].file = calls[i].file /\ calls[i].file # f /\ i \in 2 .. n
    BY <1>5, <1>9, <1>10
  <2>4. \A i \in 2 .. n : calls[i].file # f => i \in 2 .. n - 1
    BY <1>5, <1>10
  <2> QED BY <2>1, <2>2, <2>3, <2>4
<1>16. CacheGood'
  <2>1. ASSUME NEW g \in cache'
        PROVE  /\ g \in readable /\ g \notin IncludedBy(g) /\ merged'[g] = IncludedBy(g)
               /\ ToSet(includes[g]) \subseteq cache' \cup {"include_absent"}
    <3>1. CASE g = f
      BY <1>1, <1>4, <1>10, <1>11, <3>1
    <3>2. CASE g # f
      <4>1. g \in cache
        BY <1>1, <3>2
      <4> QED BY <1>1, <1>4, <3>2, <4>1 DEF ResolverInv, CacheGood
    <3> QED BY <3>1, <3>2
  <2> QED BY <1>1, <1>2, <2>1 DEF CacheGood
<1>17. LeftOver'
  BY <1>1, <1>2, <1>15 DEF ResolverInv, LeftOver
<1>18. VerdictIsOwn' /\ CircularOrLeftOver'
  BY <1>1, <1>2 DEF ResolverInv, VerdictIsOwn, CircularOrLeftOver
<1> QED BY <1>12, <1>13, <1>14, <1>16, <1>17, <1>18 DEF ResolverInv

(* Every step of the resolver keeps the invariant.                         *)
LEMMA ResolverInductive == ASSUME ResolverInv, [ResolverStep]_resolverVars PROVE ResolverInv'
<1>1. CASE PassAbsent
  <2>1. /\ AtDirective /\ Directive = "include_absent" /\ calls' = Append(Front(calls), Advanced({}))
        /\ UNCHANGED <<includes, readable, cache, merged, parsing_stack, recipes, answers>>
    BY <1>1 DEF PassAbsent
  <2>2. {} \in SUBSET Files
    OBVIOUS
  <2> QED BY <2>1, <2>2, ResolverAdvances
<1>2. CASE TakeCached
  <2> DEFINE got == {Directive} \cup merged[Directive]
  <2>1. /\ AtDirective /\ Directive \in cache /\ calls' = Append(Front(calls), Advanced(got))
        /\ UNCHANGED <<includes, readable, cache, merged, parsing_stack, recipes, answers>>
    BY <1>2 DEF TakeCached
  <2>2. got = {Directive} \cup IncludedBy(Directive) /\ got \in SUBSET Files /\ Directive \in Files
    BY <2>1 DEF ResolverInv, ResolverTyped, CacheGood
  <2>3. ASSUME Len(calls) # 1 PROVE got \subseteq IncludedBy(Call.file)
    <3>1. Directive \in Included(Call.file) /\ Call.file \in Files
      BY <2>1, <2>2, <2>3, AtWork, LastCall DEF Included
    <3>2. includes \in [Files -> Seq(Items)]
      BY DEF ResolverInv, ResolverTyped
    <3> QED BY <2>2, <3>1, <3>2, IncludedPasses
  <2> HIDE DEF got
  <2> QED BY <2>1, <2>2, <2>3, ResolverAdvances
<1>3. CASE RequireFails
  <2>1. /\ AtDirective /\ Bad(Directive) /\ Error("absent") /\ parsing_stack' = parsing_stack \cup {}
        /\ "absent" \in Answers \ {"ok"}
    BY <1>3 DEF RequireFails, Bad, Answers
  <2> QED BY <2>1, ResolverFails
<1>4. CASE CircularInclude
  <2>1. /\ AtDirective /\ Directive \in parsing_stack /\ Error("circular") /\ parsing_stack' = parsing_stack \cup {}
        /\ "circular" \in Answers \ {"ok"}
    BY <1>4 DEF CircularInclude, Answers
  <2>2. Bad(Directive)
    BY <2>1, OnStackLoops DEF ResolverInv, ResolverTyped, LeftOver, Bad
  <2> QED BY <2>1, <2>2, ResolverFails
<1>5. CASE ParseFails
  <2>1. /\ AtDirective /\ Error("parse") /\ parsing_stack' = parsing_stack \cup {Directive}
        /\ "parse" \in Answers \ {"ok"} /\ Directive \in Files /\ Directive \notin readable
    BY <1>5 DEF ParseFails, Answers
  <2>2. Bad(Directive) /\ {Directive} \in SUBSET (Files \cap {Directive})
    BY <2>1 DEF Bad, Resolves
  <2> QED BY <2>1, <2>2, ResolverFails
<1>6. CASE UNCHANGED resolverVars
  <2>1. \A f : /\ Included(f)' = Included(f) /\ IncludedBy(f)' = IncludedBy(f)
               /\ LoopFree(f)' = LoopFree(f) /\ Resolves(f)' = Resolves(f)
    BY <1>6, SameIncludes DEF resolverVars
  <2>2. Parsing' = Parsing /\ \A i : ListOf(i)' = ListOf(i)
    BY <1>6 DEF resolverVars, Parsing, ListOf
  <2>3. ResolverTyped' /\ Counted' /\ Nested' /\ CacheGood' /\ LeftOver'
    BY <1>6, <2>1, <2>2 DEF resolverVars, ResolverInv, ResolverTyped, Counted, Nested, CacheGood, LeftOver
  <2>4. Progress'
    BY <1>6, <2>1, <2>2 DEF resolverVars, ResolverInv, Progress, Seen
  <2>5. VerdictIsOwn' /\ CircularOrLeftOver'
    BY <1>6, <2>1 DEF resolverVars, ResolverInv, VerdictIsOwn, CircularOrLeftOver
  <2> QED BY <2>3, <2>4, <2>5 DEF ResolverInv
<1> QED BY <1>1, <1>2, <1>3, <1>4, <1>5, <1>6, ResolverBegins, ResolverParses, ResolverReturns, ResolverResolves
        DEF ResolverStep

(* The invariant contains what the run checks of the resolver.             *)
LEMMA ResolverInvSound == ResolverInv => IncludesSound
<1> SUFFICES ASSUME ResolverInv PROVE IncludesSound
  OBVIOUS
<1>1. Len(answers) \in {Len(recipes), Len(recipes) - 1}
  <2>1. Len(answers) \in Nat
    BY DEF ResolverInv, ResolverTyped
  <2> QED BY <2>1 DEF ResolverInv, Counted
<1>2. ResolverTypeOK
  BY <1>1 DEF ResolverInv, ResolverTyped, LeftOver, Parsing, ResolverTypeOK
<1>3. CacheWhole
  BY CachedResolves DEF ResolverInv, CacheGood, CacheWhole
<1> QED BY <1>2, <1>3 DEF ResolverInv, IncludesSound

(* Whether a recipe resolves is decided by its includes alone, whatever was*)
(* resolved before it with the same resolver, and the cache holds whole    *)
(* and loop-free files, for every finite set of files.                     *)
THEOREM IncludesAreSound == ResolverInit /\ [][ResolverStep]_resolverVars => []IncludesSound
<1>1. ResolverInit => ResolverInv
  BY ResolverInitially
<1>2. ResolverInv /\ [ResolverStep]_resolverVars => ResolverInv'
  BY ResolverInductive
<1>3. ResolverInv => IncludesSound
  BY ResolverInvSound
<1> QED BY <1>1, <1>2, <1>3, PTL
=============================================================================
