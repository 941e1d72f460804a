------------------------------- MODULE Retry -------------------------------
(***************************************************************************)
(* execute_with_retry and execute_with_retry_sync (retry.rs): one call     *)
(* under any policy, of a function that fails as it likes.  A backoff is   *)
(* counted in units of initial_backoff, and the multiplier is a whole one. *)
(***************************************************************************)
EXTENDS Naturals, Sequences

CONSTANTS
    MaxAttempts,    \* bound: max_attempts of the policies
    MaxMultiplier,  \* bound: backoff_multiplier
    MaxCap          \* bound: max_backoff

ASSUME RetryBounds == MaxAttempts \in Nat /\ MaxMultiplier \in Nat /\ MaxCap \in Nat

(* The ExecutionErrors, as should_retry tells them apart.                  *)
Errors == {"timeout", "io", "sandbox", "failed", "cache", "other"}

VARIABLES
    policy,
    attempts,       \* how each attempt so far has ended: "ok" or the error
    slept,          \* how long was slept before each of them
    retried         \* how the call has returned: "no" if it has not

retryVars == <<policy, attempts, slept, retried>>

(* A flag of the policy decides; a cache error is one of io.               *)
ShouldRetry(error) ==
    CASE error = "timeout"       -> policy.retry_on_timeout
      [] error \in {"io", "cache"} -> policy.retry_on_io_error
      [] error = "sandbox"       -> policy.retry_on_sandbox_error
      [] error = "failed"        -> policy.retry_on_task_failure
      [] error = "other"         -> FALSE

(* backoff_duration: multiplier^(attempt - 1), cut off at max_backoff.     *)
BackoffDuration(attempt) ==
    LET power[k \in Nat] == IF k = 0 THEN 1 ELSE policy.multiplier * power[k - 1]
        backoff == power[attempt - 1]
    IN IF attempt = 0 THEN 0
       ELSE IF backoff > policy.max_backoff THEN policy.max_backoff ELSE backoff

RetryInit ==
    /\ policy \in [max_attempts : 0 .. MaxAttempts, multiplier : 1 .. MaxMultiplier,
                   max_backoff : 1 .. MaxCap,
                   retry_on_timeout : BOOLEAN, retry_on_io_error : BOOLEAN,
                   retry_on_sandbox_error : BOOLEAN, retry_on_task_failure : BOOLEAN]
    /\ attempts = << >>
    /\ slept = << >>
    /\ retried = "no"

(* Mutant: the attempts are counted from one.                              *)
AttemptsUpTo(n) == n <= policy.max_attempts

(* for attempt in 0..max_attempts                                          *)
AttemptsLeft(n) == n < policy.max_attempts

(* Sleep, execute_fn, and the decision on its result.                      *)
Attempt(result) ==
    /\ retried = "no"
    /\ AttemptsLeft(Len(attempts))
    /\ attempts' = Append(attempts, result)
    /\ slept' = Append(slept, BackoffDuration(Len(attempts)))
    /\ retried' = IF result = "ok" THEN "ok"
                  ELSE IF ~ShouldRetry(result) THEN result ELSE "no"
    /\ UNCHANGED policy

(* All attempts exhausted: last_error.unwrap(), which panics without one.  *)
Exhausted ==
    /\ retried = "no"
    /\ ~AttemptsLeft(Len(attempts))
    /\ retried' = IF attempts = << >> THEN "panic" ELSE attempts[Len(attempts)]
    /\ UNCHANGED <<policy, attempts, slept>>

RetryStep == (\E result \in Errors \cup {"ok"} : Attempt(result)) \/ Exhausted

-----------------------------------------------------------------------------
(* The call returns what its last attempt did, after no more of them than  *)
(* max_attempts; every earlier one has failed in a way that the policy has *)
(* tried again, and the last one could not be.  A policy of no attempts is *)
(* a panic.  Each sleep is no shorter than the one before it.              *)
RetryVerdict ==
    retried # "no" =>
        LET last == Len(attempts) IN
        IF policy.max_attempts = 0 THEN retried = "panic"
        ELSE /\ last \in 1 .. policy.max_attempts
             /\ retried = attempts[last]
             /\ \A i \in 1 .. last - 1 : attempts[i] # "ok" /\ ShouldRetry(attempts[i])
             /\ retried # "ok" /\ ShouldRetry(retried) => last = policy.max_attempts
             /\ \A i \in 1 .. last - 1 : slept[i] <= slept[i + 1]
             /\ \A i \in 1 .. last : slept[i] <= policy.max_backoff
=============================================================================
