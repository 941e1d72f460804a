-------------------------- MODULE CacheCollection --------------------------
(***************************************************************************)
(* The objects of the content store, the action cache that refers to them, *)
(* and the TaskExecutors (executor.rs) that share both on disk, each with  *)
(* an index of the objects and a copy of the action cache in memory, made  *)
(* when it was created (cache.rs).  ContentStore shows that an object and  *)
(* an action appear at once.  The signature of a task stands for the task  *)
(* with its inputs; the same ones give the same outputs.                   *)
(***************************************************************************)
EXTENDS Naturals, FiniteSetsExt, SequencesExt

CONSTANTS
    Executors,      \* the TaskExecutors
    Signatures,     \* of tasks
    Hashes,         \* of contents
    Outputs,        \* the contents that the task with a signature puts out
    Size,           \* of contents
    Threshold,      \* gc_threshold_bytes
    Target          \* gc_target_bytes

ASSUME HashesFinite == IsFiniteSet(Hashes)
ASSUME OutputsAreHashes == Outputs \in [Signatures -> SUBSET Hashes]
NoSignature == "none"

ASSUME SignaturesNamed == NoSignature \notin Signatures
ASSUME SizesPositive == Size \in [Hashes -> Nat \ {0}]
ASSUME TargetBelowThreshold == Threshold \in Nat /\ Target \in 0 .. Threshold

VARIABLES
    objects,        \* on disk: the contents of the store
    actions,        \* on disk: the signatures that have an entry
    up,             \* the executors that exist
    index,          \* of each executor, in the order of last_access_time
    memory,         \* the entries of its ActionCache
    job,            \* the task it executes: signature, outputs not yet put
    stored,         \* history: the executors that have written an object
    shared,         \* history: two have used the directory at once
    evicted         \* history: else, an object was evicted for its age

cacheVars == <<objects, actions, up, index, memory, job, stored, shared, evicted>>
disk == <<objects, actions>>

Idle == [signature |-> NoSignature, todo |-> {}]

CacheInit ==
    /\ objects = {}
    /\ actions = {}
    /\ up = {}
    /\ index = [e \in Executors |-> <<>>]
    /\ memory = [e \in Executors |-> {}]
    /\ job = [e \in Executors |-> Idle]
    /\ stored = {}
    /\ evicted = FALSE
    /\ shared = FALSE

Beside == shared \/ up # {}
Aged(gone) == ~shared /\ (evicted \/ gone # {})

TotalSize(S) == MapThenSumSet(LAMBDA h : Size[h], S)

Without(idx, gone) == FoldLeft(LAMBDA s, h : IF h \in gone THEN s ELSE Append(s, h), << >>, idx)

(* The content becomes the one used last.                                  *)
Touched(idx, h) == Append(Without(idx, {h}), h)

(* TaskExecutor::new: both indices are read from disk.                     *)
Create(e) ==
    /\ e \notin up
    /\ up' = up \cup {e}
    /\ index' \in {[index EXCEPT ![e] = s] : s \in SetToSeqs(objects)}
    /\ memory' = [memory EXCEPT ![e] = actions]
    /\ shared' = Beside
    /\ evicted' = (evicted /\ ~Beside)
    /\ UNCHANGED <<disk, job, stored>>

(* The process ends or is killed, whatever it was doing.                   *)
Drop(e) ==
    /\ e \in up
    /\ up' = up \ {e}
    /\ index' = [index EXCEPT ![e] = <<>>]
    /\ memory' = [memory EXCEPT ![e] = {}]
    /\ job' = [job EXCEPT ![e] = Idle]
    /\ stored' = stored \ {e}
    /\ UNCHANGED <<disk, evicted, shared>>

-----------------------------------------------------------------------------
(* evict_lru: the least recently used entries go until enough was freed;   *)
(* a file that is gone already frees nothing.                              *)
Eviction(idx, files, enough) ==
    LET oldest(k) == {idx[i] : i \in 1 .. k}
        freed(k)  == TotalSize(oldest(k) \cap files)
        last      == CHOOSE k \in 0 .. Len(idx) :
                        /\ k = Len(idx) \/ freed(k) >= enough
                        /\ \A j \in 0 .. k - 1 : freed(j) < enough
    IN oldest(last)

(* gc_if_needed after a put.                                               *)
CollectedIfNeeded(idx, files) ==
    LET total == TotalSize(ToSet(idx)) IN
    IF total > Threshold THEN Eviction(idx, files, total - Target) ELSE {}

-----------------------------------------------------------------------------
(* execute_task on a signature without an entry in memory; with one, the   *)
(* entry is returned and nothing changes.                                  *)
BeginTask(e, s) ==
    /\ e \in up
    /\ job[e] = Idle
    /\ s \notin memory[e]
    /\ job' = [job EXCEPT ![e] = [signature |-> s, todo |-> Outputs[s]]]
    /\ UNCHANGED <<disk, up, index, memory, stored, evicted, shared>>

(* put of an object that exists: its access time is updated if it is in    *)
(* the index, and it is not put there if it is not.                        *)
PutExisting(e, h) ==
    /\ h \in job[e].todo
    /\ h \in objects
    /\ index' = [index EXCEPT ![e] = IF h \in ToSet(@) THEN Touched(@, h) ELSE @]
    /\ job' = [job EXCEPT ![e].todo = @ \ {h}]
    /\ UNCHANGED <<disk, up, memory, stored, evicted, shared>>

(* put of a new object, and the collection that follows it.                *)
PutNew(e, h) ==
    LET idx  == Touched(index[e], h)
        gone == CollectedIfNeeded(idx, objects \cup {h})
    IN
    /\ h \in job[e].todo
    /\ h \notin objects
    /\ objects' = (objects \cup {h}) \ gone
    /\ index' = [index EXCEPT ![e] = Without(idx, gone)]
    /\ job' = [job EXCEPT ![e].todo = @ \ {h}]
    /\ stored' = stored \cup {e}
    /\ evicted' = Aged(gone)
    /\ UNCHANGED <<actions, up, memory, shared>>

(* All outputs have been put: ActionCache::put, on disk and in memory.     *)
Publish(e) ==
    /\ job[e] # Idle
    /\ job[e].todo = {}
    /\ actions' = actions \cup {job[e].signature}
    /\ memory' = [memory EXCEPT ![e] = @ \cup {job[e].signature}]
    /\ job' = [job EXCEPT ![e] = Idle]
    /\ UNCHANGED <<objects, up, index, stored, evicted, shared>>

(* The script, a put or the sandbox fails: what was put stays.             *)
FailTask(e) ==
    /\ job[e] # Idle
    /\ job' = [job EXCEPT ![e] = Idle]
    /\ UNCHANGED <<disk, up, index, memory, stored, evicted, shared>>

(* get of an object for its bytes.                                         *)
Get(e, h) ==
    /\ e \in up
    /\ job[e] = Idle
    /\ h \in ToSet(index[e])
    /\ index' = [index EXCEPT ![e] = Touched(@, h)]
    /\ UNCHANGED <<disk, up, memory, job, stored, evicted, shared>>

-----------------------------------------------------------------------------
(* get_referenced_content_hashes: the actions in memory are the roots.     *)
Reachable(e) == UNION {Outputs[s] : s \in memory[e]}

(* gc_with_action_cache: a sweep of the index, which keeps the entries of  *)
(* files it could not delete, and then, above the target, an eviction.     *)
Collect(e) ==
    LET swept == (ToSet(index[e]) \ Reachable(e)) \cap objects
        idx   == Without(index[e], swept)
        total == TotalSize(ToSet(idx))
        gone  == IF total > Target
                 THEN Eviction(idx, objects \ swept, total - Target)
                 ELSE {}
    IN
    /\ e \in up
    /\ job[e] = Idle
    /\ objects' = objects \ (swept \cup gone)
    /\ index' = [index EXCEPT ![e] = Without(idx, gone)]
    /\ evicted' = Aged(gone)
    /\ UNCHANGED <<actions, up, memory, job, stored, shared>>

(* CacheManager::clean: the entries on disk go, those in memory stay.      *)
Clean ==
    /\ actions # {}
    /\ actions' = {}
    /\ UNCHANGED <<objects, up, index, memory, job, stored, evicted, shared>>

(* CacheManager::expunge, for which it is another user of the directory.   *)
Expunge ==
    /\ objects # {} \/ actions # {}
    /\ objects' = {}
    /\ actions' = {}
    /\ shared' = Beside
    /\ evicted' = (evicted /\ ~Beside)
    /\ UNCHANGED <<up, index, memory, job, stored>>

-----------------------------------------------------------------------------
ExecutorStep(e) ==
    \/ \E s \in Signatures : BeginTask(e, s)
    \/ \E h \in Hashes : PutExisting(e, h) \/ PutNew(e, h) \/ Get(e, h)
    \/ Publish(e)
    \/ FailTask(e)
    \/ Collect(e)

CacheNext ==
    \/ \E e \in Executors : Create(e) \/ Drop(e) \/ ExecutorStep(e)
    \/ Clean
    \/ Expunge

CacheSpec == CacheInit /\ [][CacheNext]_cacheVars

-----------------------------------------------------------------------------
(* Types; no content stands in an index twice.                             *)
CacheTypeOK ==
    /\ objects \subseteq Hashes
    /\ actions \subseteq Signatures
    /\ up \subseteq Executors
    /\ \A e \in Executors : ToSet(index[e]) \subseteq Hashes /\ IsInjective(index[e])
    /\ memory \in [Executors -> SUBSET Signatures]
    /\ job \in [Executors -> [signature : Signatures \cup {NoSignature}, todo : SUBSET Hashes]]
    /\ stored \subseteq up

(* The index of an executor that has written something is within the limit,*)
(* whatever the others have put or deleted behind its back.                *)
WithinLimit == \A e \in stored : TotalSize(ToSet(index[e])) <= Threshold

(* As long as no two have used the directory at once, the index is the     *)
(* store, across crashes, failures and collections.                        *)
IndexIsStore == ~shared => \A e \in up : ToSet(index[e]) = objects

(* An eviction takes none of the objects that the running task has put, if *)
(* they fit the target together: what is published can be restored.        *)
PublishedWhole ==
    [][\A s \in actions' \ actions :
           ~shared' /\ TotalSize(Outputs[s]) <= Target => Outputs[s] \subseteq objects']_cacheVars

(* "hash1 should still exist (referenced)": without an eviction for age    *)
(* no collection takes an object that an action refers to.                 *)
ActionsRestorable ==
    ~shared /\ ~evicted =>
        /\ \A s \in actions : Outputs[s] \subseteq objects
        /\ \A e \in up : \A s \in memory[e] : Outputs[s] \subseteq objects

(* The index, the limit and the references agree.                          *)
CacheSound ==
    /\ CacheTypeOK
    /\ WithinLimit
    /\ IndexIsStore
    /\ ActionsRestorable
=============================================================================
