-------------------------- MODULE ExecutorProtocol --------------------------
(***************************************************************************)
(* The channels between an ExecutorHandle (external.rs) and the message    *)
(* loop of a LocalExecutor (local_executor.rs).  A handle has at most one  *)
(* call in progress, since its methods take &mut self; it numbers its      *)
(* requests and skips responses with another number, which are left behind *)
(* by calls whose future was dropped.  A message is its number: Execute-   *)
(* Task, Ping, GetStatus, GetCapabilities and even Shutdown are handled    *)
(* and answered alike, and a result, an error or a panic is an answer.     *)
(***************************************************************************)
EXTENDS Naturals, Sequences

CONSTANTS
    Executors,      \* the LocalExecutors that were started
    Capacity,       \* channel_buffer_size, of either channel
    MaxRequests,    \* bound: requests made through one handle
    MaxAbandoned    \* bound: calls of one handle dropped while they wait

ASSUME CapacityPositive == Capacity \in Nat \ {0}
ASSUME BoundsNat == MaxRequests \in Nat /\ MaxAbandoned \in Nat

VARIABLES
    nextId,         \* next_request_id of each handle
    call,           \* where the call in progress is, if there is one
    requests,       \* the ExecutorMessages in the channel
    loop,           \* where run_message_loop is
    held,           \* the message it is handling, then the response to it
    responses,      \* the ExecutorResponses in the channel
    handle,         \* whether the ExecutorHandle still exists
    owner,          \* what has become of the LocalExecutor itself
    handled,        \* history: what the loop has answered
    answer,         \* history: what the last call of the handle returned
    abandoned       \* history: calls dropped while waiting for a response

channels == <<requests, responses>>
executor == <<loop, held, handled>>
client   == <<nextId, call, answer, abandoned, handle>>
protocolVars == <<channels, executor, client, owner>>

Ids == 0 .. MaxRequests - 1
Nothing == MaxRequests      \* no message

(* start() for every executor; owned are those whose LocalExecutor value   *)
(* is kept.  Dropping it drops the only sender of the shutdown channel.    *)
Started(owned) ==
    /\ nextId    = [e \in Executors |-> 0]
    /\ call      = [e \in Executors |-> "idle"]
    /\ requests  = [e \in Executors |-> <<>>]
    /\ loop      = [e \in Executors |-> "select"]
    /\ held      = [e \in Executors |-> Nothing]
    /\ responses = [e \in Executors |-> <<>>]
    /\ handle    = [e \in Executors |-> TRUE]
    /\ owner     = [e \in Executors |-> IF e \in owned THEN "running" ELSE "dropped"]
    /\ handled   = [e \in Executors |-> {}]
    /\ answer    = [e \in Executors |-> [id |-> Nothing, outcome |-> "none"]]
    /\ abandoned = [e \in Executors |-> 0]

(* The number of the call in progress, the last one that next_id gave.     *)
CurrentId(e) == nextId[e] - 1

-----------------------------------------------------------------------------
(* The handle.                                                             *)

Ask(e) ==
    /\ handle[e]
    /\ call[e] = "idle"
    /\ nextId[e] < MaxRequests
    /\ call' = [call EXCEPT ![e] = "sending"]
    /\ nextId' = [nextId EXCEPT ![e] = @ + 1]
    /\ UNCHANGED <<channels, executor, answer, abandoned, handle, owner>>

Send(e) ==
    /\ call[e] = "sending"
    /\ loop[e] # "exited"
    /\ Len(requests[e]) < Capacity
    /\ requests' = [requests EXCEPT ![e] = Append(@, CurrentId(e))]
    /\ call' = [call EXCEPT ![e] = "receiving"]
    /\ UNCHANGED <<responses, executor, nextId, answer, abandoned, handle, owner>>

EndCall(e, outcome) ==
    /\ call' = [call EXCEPT ![e] = "idle"]
    /\ answer' = [answer EXCEPT ![e] = [id |-> CurrentId(e), outcome |-> outcome]]
    /\ UNCHANGED <<nextId, abandoned, handle, owner>>

(* ChannelClosed: the receiver of the requests is gone with the loop.      *)
SendFails(e) ==
    /\ call[e] = "sending"
    /\ loop[e] = "exited"
    /\ EndCall(e, "closed")
    /\ UNCHANGED <<channels, executor>>

(* Mutant: the first response is taken for the answer, whatever its number.*)
ReceiveFirst(e) ==
    /\ call[e] = "receiving"
    /\ responses[e] # <<>>
    /\ EndCall(e, "answered")
    /\ responses' = [responses EXCEPT ![e] = Tail(@)]
    /\ UNCHANGED <<requests, executor>>

(* The response to another request is dropped, and the call keeps waiting. *)
Receive(e) ==
    /\ call[e] = "receiving"
    /\ responses[e] # <<>>
    /\ IF Head(responses[e]) = CurrentId(e)
       THEN EndCall(e, "answered")
       ELSE UNCHANGED <<client, owner>>
    /\ responses' = [responses EXCEPT ![e] = Tail(@)]
    /\ UNCHANGED <<requests, executor>>

(* ChannelClosed: the loop is gone and the channel has been read empty.    *)
ReceiveFails(e) ==
    /\ call[e] = "receiving"
    /\ responses[e] = <<>>
    /\ loop[e] = "exited"
    /\ EndCall(e, "closed")
    /\ UNCHANGED <<channels, executor>>

(* The future of the call is dropped; what was sent stays sent.            *)
Abandon(e) ==
    /\ call[e] # "idle"
    /\ abandoned[e] < MaxAbandoned
    /\ abandoned' = [abandoned EXCEPT ![e] =
                        IF call[e] = "receiving" THEN @ + 1 ELSE @]
    /\ call' = [call EXCEPT ![e] = "idle"]
    /\ UNCHANGED <<channels, executor, nextId, answer, handle, owner>>

(* Both ends that the handle has are dropped, the responses with theirs.   *)
DropHandle(e) ==
    /\ handle[e]
    /\ call[e] = "idle"
    /\ handle' = [handle EXCEPT ![e] = FALSE]
    /\ responses' = [responses EXCEPT ![e] = <<>>]
    /\ UNCHANGED <<requests, executor, nextId, call, answer, abandoned, owner>>

-----------------------------------------------------------------------------
(* The message loop.                                                       *)

Take(e) ==
    /\ loop[e] = "select"
    /\ requests[e] # <<>>
    /\ held' = [held EXCEPT ![e] = Head(requests[e])]
    /\ requests' = [requests EXCEPT ![e] = Tail(@)]
    /\ loop' = [loop EXCEPT ![e] = "handling"]
    /\ UNCHANGED <<responses, handled, client, owner>>

(* handle_message up to the response; a task that panics is answered, too. *)
Handle(e) ==
    /\ loop[e] = "handling"
    /\ handled' = [handled EXCEPT ![e] = @ \cup {held[e]}]
    /\ loop' = [loop EXCEPT ![e] = "replying"]
    /\ UNCHANGED <<channels, held, client, owner>>

(* The send waits for room; without a receiver it fails, which is logged.  *)
Reply(e) ==
    /\ loop[e] = "replying"
    /\ IF handle[e]
       THEN /\ Len(responses[e]) < Capacity
            /\ responses' = [responses EXCEPT ![e] = Append(@, held[e])]
       ELSE UNCHANGED responses
    /\ held' = [held EXCEPT ![e] = Nothing]
    /\ loop' = [loop EXCEPT ![e] = "select"]
    /\ UNCHANGED <<requests, handled, client, owner>>

(* Mutant: the end of the shutdown channel does not end the loop.          *)
MayExitWithoutHandle(e) == ~handle[e] /\ requests[e] = <<>>

(* recv on the shutdown channel is ready for ever once its sender is gone; *)
(* on the request channel it returns None when that is empty and closed.   *)
MayExit(e) == owner[e] # "running" \/ (~handle[e] /\ requests[e] = <<>>)

(* select! takes any ready branch, so the loop may leave requests unread.  *)
Exit(e) ==
    /\ loop[e] = "select"
    /\ MayExit(e)
    /\ loop' = [loop EXCEPT ![e] = "exited"]
    /\ requests' = [requests EXCEPT ![e] = <<>>]
    /\ UNCHANGED <<responses, held, handled, client, owner>>

-----------------------------------------------------------------------------
(* The owner of the LocalExecutor.                                         *)

(* stop() sends the signal and drops the sender, then joins the task.      *)
Stop(e) ==
    /\ owner[e] = "running"
    /\ owner' = [owner EXCEPT ![e] = "joining"]
    /\ UNCHANGED <<channels, executor, client>>

Joined(e) ==
    /\ owner[e] = "joining"
    /\ loop[e] = "exited"
    /\ owner' = [owner EXCEPT ![e] = "stopped"]
    /\ UNCHANGED <<channels, executor, client>>

DropOwner(e) ==
    /\ owner[e] = "running"
    /\ owner' = [owner EXCEPT ![e] = "dropped"]
    /\ UNCHANGED <<channels, executor, client>>

-----------------------------------------------------------------------------
LoopStep(e) == Take(e) \/ Handle(e) \/ Reply(e) \/ Exit(e)
CallStep(e) == Send(e) \/ SendFails(e) \/ Receive(e) \/ ReceiveFails(e)
ClientStep(e) ==
    \/ Ask(e)
    \/ Abandon(e)
    \/ DropHandle(e)
OwnerStep(e) == Stop(e) \/ DropOwner(e) \/ Joined(e)

Next ==
    \E e \in Executors : LoopStep(e) \/ CallStep(e) \/ ClientStep(e) \/ OwnerStep(e)

Init == \E owned \in SUBSET Executors : Started(owned)

Spec == Init /\ [][Next]_protocolVars

-----------------------------------------------------------------------------
(* Types of the channels and of what the two sides hold of them.           *)
ProtocolTypeOK ==
    /\ nextId \in [Executors -> 0 .. MaxRequests]
    /\ call \in [Executors -> {"idle", "sending", "receiving"}]
    /\ loop \in [Executors -> {"select", "handling", "replying", "exited"}]
    /\ held \in [Executors -> Ids \cup {Nothing}]
    /\ requests \in [Executors -> Seq(Ids)]
    /\ responses \in [Executors -> Seq(Ids)]
    /\ handle \in [Executors -> BOOLEAN]
    /\ owner \in [Executors -> {"running", "joining", "stopped", "dropped"}]
    /\ handled \in [Executors -> SUBSET Ids]
    /\ answer \in [Executors -> [id : Ids \cup {Nothing}, outcome : {"answered", "closed", "none"}]]
    /\ abandoned \in [Executors -> 0 .. MaxAbandoned]

(* What a call returns was answered to that very request: the responses to *)
(* calls that were dropped before it are not taken for the answer.         *)
AnswersAreOwn ==
    \A e \in Executors :
        answer[e].outcome = "answered" => answer[e].id \in handled[e]

(* A call that returns ChannelClosed was not executed, so that it may be   *)
(* made again elsewhere: the loop ends before a request or after the       *)
(* response to it, and responses are read out before the channel is closed.*)
ClosedMeansNotRun ==
    \A e \in Executors :
        answer[e].outcome = "closed" => answer[e].id \notin handled[e]

(* What a call returns is the truth about that very call.                  *)
CallsSound == AnswersAreOwn /\ ClosedMeansNotRun

(* Every call ends, as long as no more calls have been dropped than the    *)
(* two channels and the loop have room for.  One more, and the loop waits  *)
(* for room among the responses, the next call for room among the requests.*)
CallsEnd ==
    \A e \in Executors :
        call[e] # "idle" ~> call[e] = "idle" \/ abandoned[e] > 2 * Capacity

(* stop() returns, unless more calls have been dropped than the responses  *)
(* have room for: then the loop may wait for room and miss the signal.     *)
StopReturns ==
    \A e \in Executors :
        owner[e] = "joining" ~> owner[e] = "stopped" \/ abandoned[e] > Capacity
=============================================================================
