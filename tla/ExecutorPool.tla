---------------------------- MODULE ExecutorPool ----------------------------
(***************************************************************************)
(* ExecutorPool (executor_pool.rs): callers of execute_task take a permit, *)
(* are given the next handle in turn, lock it and call through it; ping_   *)
(* all, get_all_status and shutdown go through all handles without a       *)
(* permit.  create_executor lets go of each LocalExecutor it has started.  *)
(***************************************************************************)
EXTENDS ExecutorProtocol, FiniteSets

CONSTANTS
    Workers,        \* max_parallel
    Callers         \* the futures of execute_task, each for one task

ASSUME WorkersPositive == Workers \in Nat \ {0}
ASSUME CallersFinite == IsFiniteSet(Callers)
ASSUME ExecutorsNumbered == Executors = 0 .. Workers - 1

VARIABLES
    permits,        \* of the semaphore
    next,           \* next_executor
    at,             \* where the future of each caller is
    picked,         \* the handle each caller was given
    lock,           \* who holds the mutex of each handle
    sweep           \* the call that goes through all handles

poolVars == <<permits, next, at, picked, lock, sweep>>
vars == <<protocolVars, poolVars>>

Free == "free"
Sweeper == "sweeper"

Waiting == {"arrived", "locking", "calling"}
Holding == {"locking", "calling"}       \* with a permit

(* A pool that some callers use, while its handles are gone through or not.*)
PoolOf(callers, swept) ==
    /\ permits = Workers
    /\ next = 0
    /\ at = [c \in Callers |-> IF c \in callers THEN "arrived" ELSE "gone"]
    /\ picked = [c \in Callers |-> 0]
    /\ lock = [e \in Executors |-> Free]
    /\ sweep = [at |-> IF swept THEN "idle" ELSE "done", on |-> 0, failed |-> FALSE]

PoolInit ==
    /\ Started({})
    /\ \E callers \in SUBSET Callers, swept \in BOOLEAN : PoolOf(callers, swept)

(* A permit, and then get_next_executor.                                   *)
Acquire(c) ==
    /\ at[c] = "arrived"
    /\ permits > 0
    /\ permits' = permits - 1
    /\ picked' = [picked EXCEPT ![c] = next]
    /\ next' = (next + 1) % Workers
    /\ at' = [at EXCEPT ![c] = "locking"]
    /\ UNCHANGED <<protocolVars, lock, sweep>>

LockAndAsk(c) ==
    /\ at[c] = "locking"
    /\ lock[picked[c]] = Free
    /\ lock' = [lock EXCEPT ![picked[c]] = c]
    /\ Ask(picked[c])
    /\ at' = [at EXCEPT ![c] = "calling"]
    /\ UNCHANGED <<permits, next, picked, sweep>>

(* Mutant: the permit is forgotten when the call has failed.               *)
ReturnKeepsPermit(c) ==
    /\ at[c] = "calling"
    /\ call[picked[c]] = "idle"
    /\ lock' = [lock EXCEPT ![picked[c]] = Free]
    /\ permits' = IF answer[picked[c]].outcome = "answered" THEN permits + 1 ELSE permits
    /\ at' = [at EXCEPT ![c] = "returned"]
    /\ UNCHANGED <<protocolVars, next, picked, sweep>>

(* The call has ended; guard and permit are dropped with the future.       *)
Return(c) ==
    /\ at[c] = "calling"
    /\ call[picked[c]] = "idle"
    /\ lock' = [lock EXCEPT ![picked[c]] = Free]
    /\ permits' = permits + 1
    /\ at' = [at EXCEPT ![c] = "returned"]
    /\ UNCHANGED <<protocolVars, next, picked, sweep>>

(* The future of a caller is dropped, with the permit and guard it has.    *)
DropCaller(c) ==
    /\ at[c] \in Waiting
    /\ IF at[c] = "calling"
       THEN /\ lock' = [lock EXCEPT ![picked[c]] = Free]
            /\ Abandon(picked[c])
       ELSE UNCHANGED <<lock, protocolVars>>
    /\ permits' = IF at[c] = "arrived" THEN permits ELSE permits + 1
    /\ at' = [at EXCEPT ![c] = "gone"]
    /\ UNCHANGED <<next, picked, sweep>>

-----------------------------------------------------------------------------
StartSweep ==
    /\ sweep.at = "idle"
    /\ sweep' = [sweep EXCEPT !.at = "locking"]
    /\ UNCHANGED <<protocolVars, permits, next, at, picked, lock>>

SweepAsk ==
    /\ sweep.at = "locking"
    /\ lock[sweep.on] = Free
    /\ lock' = [lock EXCEPT ![sweep.on] = Sweeper]
    /\ Ask(sweep.on)
    /\ sweep' = [sweep EXCEPT !.at = "calling"]
    /\ UNCHANGED <<permits, next, at, picked>>

(* ping_all and shutdown go on after an error, get_all_status is ended.    *)
SweepGoesOn ==
    LET failed == answer[sweep.on].outcome = "closed" IN
    /\ sweep.at = "calling"
    /\ call[sweep.on] = "idle"
    /\ lock' = [lock EXCEPT ![sweep.on] = Free]
    /\ \E ended \in BOOLEAN :
          /\ ended => failed
          /\ sweep' = IF ended \/ sweep.on = Workers - 1
                      THEN [sweep EXCEPT !.at = "done",
                                         !.failed = @ \/ failed]
                      ELSE [sweep EXCEPT !.at = "locking", !.on = @ + 1,
                                         !.failed = @ \/ failed]
    /\ UNCHANGED <<protocolVars, permits, next, at, picked>>

-----------------------------------------------------------------------------
CallerStep(c) == Acquire(c) \/ LockAndAsk(c) \/ Return(c)
SweepStep == SweepAsk \/ SweepGoesOn

PoolStep ==
    \/ \E c \in Callers : CallerStep(c) \/ DropCaller(c)
    \/ StartSweep
    \/ SweepStep
    \/ \E e \in Executors : (LoopStep(e) \/ CallStep(e)) /\ UNCHANGED poolVars

PoolSpec == PoolInit /\ [][PoolStep]_vars

-----------------------------------------------------------------------------
(* Types of the pool's state; the next executor is one of the pool's.      *)
PoolTypeOK ==
    /\ ProtocolTypeOK
    /\ permits \in 0 .. Workers
    /\ next \in Executors
    /\ at \in [Callers -> Waiting \cup {"returned", "gone"}]
    /\ picked \in [Callers -> Executors]
    /\ lock \in [Executors -> Callers \cup {Free, Sweeper}]
    /\ sweep \in [at : {"idle", "locking", "calling", "done"}, on : Executors,
                  failed : BOOLEAN]

(* No permit is lost and none is given back twice, however the callers go: *)
(* what the semaphore does not have is in the hands of a caller.           *)
PermitsAccounted ==
    permits + Cardinality({c \in Callers : at[c] \in Holding}) = Workers

(* The pool and its channels keep to their types, and no permit is lost.   *)
PoolSound == PoolTypeOK /\ PermitsAccounted

(* Every execute_task of the pool returns, whoever else has gone away and  *)
(* whatever executors have ended.                                          *)
PoolCallsEnd ==
    \A c \in Callers :
        at[c] = "arrived" ~>
            \/ at[c] \notin Waiting
            \/ \E e \in Executors : abandoned[e] > 2 * Capacity

(* Nobody waits for ever: not a call, not stop(), not a caller of the pool.*)
EverybodyReturns == CallsEnd /\ StopReturns /\ PoolCallsEnd

(* "assert!(results.iter().all(|&x| x))": a ping of all the executors of a *)
(* pool that has just been made finds all of them alive.                   *)
PingAllAnswers == sweep.at = "done" => ~sweep.failed
=============================================================================
