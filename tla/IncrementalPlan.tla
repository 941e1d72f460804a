--------------------------- MODULE IncrementalPlan ---------------------------
(***************************************************************************)
(* The signatures that BuildOrchestrator::build_plan computes, compares    *)
(* with those of the last plan and saves (build_orchestrator.rs,           *)
(* signature_cache.rs).  A signature is a hash, taken here to be the value *)
(* it hashes: the task, its own inputs (recipe text, code, MACHINE and     *)
(* DISTRO), and the signatures of its dependencies.  Between two plans the *)
(* recipes are edited; the process may be killed anywhere, also between the*)
(* truncation of signatures.json and the write, which are not atomic.      *)
(***************************************************************************)
EXTENDS Naturals, FiniteSets, Functions, SequencesExt

CONSTANTS
    TaskKeys,       \* "recipe:task"
    Inputs,         \* of a task
    Relations,      \* the depends_on of the tasks of a graph: acyclic functions
    MaxEdits        \* bound on the edits

ASSUME RelationsOnKeys ==
    \A r \in Relations : DOMAIN r \subseteq TaskKeys /\ \A k \in DOMAIN r : r[k] \subseteq DOMAIN r

ASSUME KeysFinite == IsFiniteSet(TaskKeys)

VARIABLES
    relation,       \* the task graph that the recipes give now
    inputs,         \* and the inputs of its tasks
    edits,
    plan,           \* where build_plan is
    todo_order,     \* what is left of execution_order
    signatures,     \* of the SignatureCache
    previous,       \* previous_signatures
    saved,          \* signatures.json
    basis,          \* history: the relation and the inputs that it was computed from
    verdict         \* of the last analysis, on each task

planVars == <<relation, inputs, edits, plan, todo_order, signatures, previous, saved, basis, verdict>>

NoSignatures == << >>       \* the empty map

PlanInit ==
    /\ relation \in Relations
    /\ inputs \in [TaskKeys -> Inputs]
    /\ edits = 0
    /\ plan = "none"
    /\ todo_order = << >>
    /\ signatures = NoSignatures
    /\ previous = NoSignatures
    /\ saved = [file |-> "none", signatures |-> NoSignatures]
    /\ basis = [relation |-> NoSignatures, inputs |-> inputs]
    /\ verdict = NoSignatures

(* A recipe is changed between two plans.                                  *)
Edit ==
    /\ plan = "none"
    /\ edits < MaxEdits
    /\ edits' = edits + 1
    /\ \/ relation' \in Relations /\ UNCHANGED inputs
       \/ \E k \in TaskKeys, i \in Inputs : inputs' = [inputs EXCEPT ![k] = i] /\ UNCHANGED relation
    /\ UNCHANGED <<plan, todo_order, signatures, previous, saved, basis, verdict>>

(* Mutant: the tasks are processed in the order of the HashMap.            *)
ExecutionOrdersOfMap(r) == SetToSeqs(DOMAIN r)

(* The orders that topological_sort may return (see KahnSort).             *)
PlanOrders(r) ==
    {s \in SetToSeqs(DOMAIN r) : \A i, j \in DOMAIN s : s[j] \in r[s[i]] => j < i}

(* A file that cannot be parsed counts as an empty one.                    *)
Load ==
    /\ plan = "none"
    /\ plan' = "computing"
    /\ todo_order' \in PlanOrders(relation)
    /\ previous' = IF saved.file = "whole" THEN saved.signatures ELSE NoSignatures
    /\ UNCHANGED <<relation, inputs, edits, signatures, saved, basis, verdict>>

(* The signatures known by now of the dependencies, sorted.                *)
SignatureOf(k, known) ==
    [key |-> k, own |-> inputs[k], below |-> {known[d] : d \in relation[k] \cap DOMAIN known}]

(* compute_signatures, one task.                                           *)
ComputeSignature ==
    /\ plan = "computing"
    /\ todo_order # << >>
    /\ LET k == Head(todo_order) IN
           signatures' = [j \in DOMAIN signatures \cup {k} |->
                             IF j = k THEN SignatureOf(k, signatures) ELSE signatures[j]]
    /\ todo_order' = Tail(todo_order)
    /\ UNCHANGED <<relation, inputs, edits, plan, previous, saved, basis, verdict>>

(* analyze_incremental_build                                               *)
Verdict(k) ==
    IF k \notin DOMAIN previous THEN "new"
    ELSE IF signatures[k] = previous[k] THEN "unchanged" ELSE "need_rebuild"

Analyze ==
    /\ plan = "computing"
    /\ todo_order = << >>
    /\ verdict' = [k \in DOMAIN relation |-> Verdict(k)]
    /\ plan' = "saving"
    /\ UNCHANGED <<relation, inputs, edits, todo_order, signatures, previous, saved, basis>>

(* SignatureCache::save: the file is truncated, and then written.          *)
SaveTruncate ==
    /\ plan = "saving"
    /\ saved.file # "torn"
    /\ saved' = [file |-> "torn", signatures |-> NoSignatures]
    /\ UNCHANGED <<relation, inputs, edits, plan, todo_order, signatures, previous, basis, verdict>>

EndOfPlan == plan' = "none" /\ todo_order' = << >> /\ signatures' = NoSignatures /\ previous' = NoSignatures

SaveWrite ==
    /\ plan = "saving"
    /\ saved.file = "torn"
    /\ saved' = [file |-> "whole", signatures |-> signatures]
    /\ basis' = [relation |-> relation, inputs |-> inputs]
    /\ EndOfPlan
    /\ UNCHANGED <<relation, inputs, edits, verdict>>

(* The process is killed, or an error leaves build_plan.                   *)
PlanKilled ==
    /\ plan # "none"
    /\ EndOfPlan
    /\ verdict' = NoSignatures
    /\ UNCHANGED <<relation, inputs, edits, saved, basis>>

PlanStep ==
    \/ Edit
    \/ Load
    \/ ComputeSignature
    \/ Analyze
    \/ SaveTruncate
    \/ SaveWrite
    \/ PlanKilled

-----------------------------------------------------------------------------
(* The task and all that it depends on, directly or not, in relation r.    *)
Closed(r, S) == \A j \in S : r[j] \subseteq S
Closure(r, k) ==
    {j \in DOMAIN r : \A S \in SUBSET DOMAIN r : k \in S /\ Closed(r, S) => j \in S}

(* Nothing that the task is made from differs from what was last saved.    *)
SameAsSaved(k) ==
    \A j \in Closure(relation, k) :
        /\ j \in DOMAIN basis.relation
        /\ relation[j] = basis.relation[j]
        /\ inputs[j] = basis.inputs[j]

(* Types of the plan.                                                      *)
PlanTypeOK ==
    /\ relation \in Relations
    /\ inputs \in [TaskKeys -> Inputs]
    /\ plan \in {"none", "computing", "saving"}
    /\ plan = "computing" =>
           DOMAIN signatures = DOMAIN relation \ ToSet(todo_order)
    /\ saved.file \in {"none", "torn", "whole"}
    /\ DOMAIN verdict \in {{}} \cup {DOMAIN r : r \in Relations}

(* Whatever order the tasks are taken in and wherever an earlier plan was  *)
(* killed, a task is called unchanged if and only if nothing it is made    *)
(* from, at any distance, has changed since the signatures on disk were    *)
(* computed; it is called new only if they had no such task, or were lost. *)
UnchangedIsUnchanged ==
    plan = "saving" =>
        \A k \in DOMAIN verdict :
            /\ verdict[k] = "new" => k \notin DOMAIN basis.relation \/ previous = NoSignatures
            /\ verdict[k] = "unchanged" <=> k \in DOMAIN previous /\ SameAsSaved(k)

(* The plan is made of tasks of the graph and tells changed ones apart.    *)
PlanSound == PlanTypeOK /\ UnchangedIsUnchanged
=============================================================================
