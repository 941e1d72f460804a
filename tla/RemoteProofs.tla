--------------------------- MODULE RemoteProofs ------------------------------
(***************************************************************************)
(* The programs that work with another party.  Of the executors: what a    *)
(* handle is told, for any number of executors, any capacity of the        *)
(* channels and any number of dropped calls; and that the pool, whatever   *)
(* its callers do, uses the handles in no other way.  Of the git graph:    *)
(* that a crawl enters what it should, and what the graph holds then, for  *)
(* any repositories that move on in any way, any manifests and any depth.  *)
(***************************************************************************)
EXTENDS ExecutorPool, GitGraph, Induction

Members(s) == {s[i] : i \in 1 .. Len(s)}

LEMMA MembersOfAppend ==
    ASSUME NEW s \in Seq(Ids), NEW n \in Ids
    PROVE  /\ Append(s, n) \in Seq(Ids)
           /\ Members(Append(s, n)) = Members(s) \cup {n}
<1>1. /\ Append(s, n) \in Seq(Ids)
      /\ Len(Append(s, n)) = Len(s) + 1
      /\ \A i \in 1 .. Len(s) : Append(s, n)[i] = s[i]
      /\ Append(s, n)[Len(s) + 1] = n
  BY AppendProperties
<1>2. Len(s) \in Nat
  BY LenProperties
<1>3. QED
  BY <1>1, <1>2 DEF Members

LEMMA MembersOfTail ==
    ASSUME NEW s \in Seq(Ids), s # <<>>
    PROVE  /\ Head(s) \in Ids
           /\ Tail(s) \in Seq(Ids)
           /\ Members(s) = Members(Tail(s)) \cup {Head(s)}
<1>1. /\ Head(s) \in Ids /\ Head(s) = s[1]
      /\ Tail(s) \in Seq(Ids)
      /\ Len(Tail(s)) = Len(s) - 1
      /\ \A i \in 1 .. Len(Tail(s)) : Tail(s)[i] = s[i + 1]
  BY HeadTailProperties
<1>2. Len(s) \in Nat \ {0}
  BY LenProperties, EmptySeq
<1>3. ASSUME NEW i \in 1 .. Len(s), i # 1
      PROVE  s[i] \in Members(Tail(s))
  <2>1. i - 1 \in 1 .. (Len(s) - 1) /\ Tail(s)[i - 1] = s[i]
    BY <1>1, <1>2, <1>3
  <2>2. QED
    BY <1>1, <2>1 DEF Members
<1>4. Members(s) \subseteq Members(Tail(s)) \cup {Head(s)}
  BY <1>1, <1>2, <1>3 DEF Members
<1>5. Members(Tail(s)) \cup {Head(s)} \subseteq Members(s)
  BY <1>1, <1>2 DEF Members
<1>6. QED
  BY <1>1, <1>4, <1>5

LEMMA MembersOfNothing == <<>> \in Seq(Ids) /\ Members(<<>>) = {}
  BY EmptySeq DEF Members

-----------------------------------------------------------------------------
(* Only numbers that were given out are on their way, and none of them is  *)
(* that of a call that is still being sent.                                *)
Issued(e, n) == n < nextId[e] /\ (call[e] = "sending" => n < CurrentId(e))

NumbersIssued(e) ==
    /\ \A n \in Members(requests[e]) \cup Members(responses[e]) \cup handled[e] : Issued(e, n)
    /\ call[e] # "idle" => nextId[e] > 0 /\ handle[e]
    /\ loop[e] \in {"handling", "replying"} => held[e] \in Ids /\ Issued(e, held[e])

(* A response is to a request that was handled, and the response that the  *)
(* call is waiting for is still there once the request has been handled.   *)
ResponsesKept(e) ==
    /\ Members(responses[e]) \subseteq handled[e]
    /\ loop[e] = "replying" => held[e] \in handled[e]
    /\ call[e] = "receiving" /\ CurrentId(e) \in handled[e] =>
          \/ CurrentId(e) \in Members(responses[e])
          \/ loop[e] = "replying" /\ held[e] = CurrentId(e)

AnswersRight(e) ==
    /\ answer[e].outcome = "answered" => answer[e].id \in handled[e]
    /\ answer[e].outcome = "closed" =>
          loop[e] = "exited" /\ answer[e].id \notin handled[e]

ProtocolInv ==
    /\ ProtocolTypeOK
    /\ \A e \in Executors : NumbersIssued(e) /\ ResponsesKept(e) /\ AnswersRight(e)

LEMMA StartedHolds ==
    ASSUME NEW owned \in SUBSET Executors, Started(owned)
    PROVE  ProtocolInv
<1>1. Ids \subseteq Nat /\ Nothing \in Nat /\ 0 \in 0 .. MaxRequests /\ 0 \in 0 .. MaxAbandoned
  BY BoundsNat DEF Ids, Nothing
<1>2. ProtocolTypeOK
  BY <1>1, MembersOfNothing DEF Started, ProtocolTypeOK
<1>3. ASSUME NEW e \in Executors
      PROVE  NumbersIssued(e) /\ ResponsesKept(e) /\ AnswersRight(e)
  BY <1>1, MembersOfNothing DEF Started, NumbersIssued, ResponsesKept, AnswersRight
<1>4. QED
  BY <1>2, <1>3 DEF ProtocolInv

(* A step on one executor leaves the state of the others as it was.        *)
LEMMA OthersKeep ==
    ASSUME ProtocolInv, NEW e \in Executors, NEW f \in Executors, f # e,
           LoopStep(e) \/ CallStep(e) \/ ClientStep(e) \/ OwnerStep(e)
    PROVE  (NumbersIssued(f) /\ ResponsesKept(f) /\ AnswersRight(f))'
<1>1. /\ nextId'[f] = nextId[f] /\ call'[f] = call[f] /\ handle'[f] = handle[f]
      /\ requests'[f] = requests[f] /\ responses'[f] = responses[f]
      /\ loop'[f] = loop[f] /\ held'[f] = held[f] /\ handled'[f] = handled[f]
      /\ answer'[f] = answer[f]
  <2>1. CASE LoopStep(e)
    BY <2>1 DEF ProtocolInv, ProtocolTypeOK, LoopStep, Take, Handle, Reply, Exit,
                channels, executor, client
  <2>2. CASE CallStep(e)
    BY <2>2 DEF ProtocolInv, ProtocolTypeOK, CallStep, Send, SendFails, Receive,
                ReceiveFails, EndCall, channels, executor, client
  <2>3. CASE ClientStep(e)
    BY <2>3 DEF ProtocolInv, ProtocolTypeOK, ClientStep, Ask, Abandon, DropHandle,
                channels, executor, client
  <2>4. CASE OwnerStep(e)
    BY <2>4 DEF OwnerStep, Stop, DropOwner, Joined, channels, executor, client
  <2>5. QED
    BY <2>1, <2>2, <2>3, <2>4
<1>2. NumbersIssued(f) /\ ResponsesKept(f) /\ AnswersRight(f)
  BY DEF ProtocolInv
<1>3. NumbersIssued(f)'
  BY <1>1, <1>2 DEF NumbersIssued, Issued, CurrentId
<1>4. ResponsesKept(f)'
  BY <1>1, <1>2 DEF ResponsesKept, CurrentId
<1>5. AnswersRight(f)'
  BY <1>1, <1>2 DEF AnswersRight
<1>6. QED
  BY <1>3, <1>4, <1>5

(* The number of a call in progress is one that was given out.             *)
LEMMA CurrentIssued ==
    ASSUME ProtocolInv, NEW e \in Executors, call[e] # "idle"
    PROVE  CurrentId(e) \in Ids /\ CurrentId(e) < nextId[e]
<1>1. nextId[e] \in 0 .. MaxRequests /\ nextId[e] > 0 /\ MaxRequests \in Nat
  BY BoundsNat DEF ProtocolInv, ProtocolTypeOK, NumbersIssued
<1>2. QED
  BY <1>1 DEF CurrentId, Ids

LEMMA TypesKept ==
    ASSUME ProtocolInv, NEW e \in Executors,
           LoopStep(e) \/ CallStep(e) \/ ClientStep(e) \/ OwnerStep(e)
    PROVE  ProtocolTypeOK'
<1> USE DEF ProtocolTypeOK, channels, executor, client
<1>0. /\ ProtocolTypeOK
      /\ requests[e] \in Seq(Ids) /\ responses[e] \in Seq(Ids)
      /\ Nothing \in Ids \cup {Nothing}
  BY DEF ProtocolInv
<1>1. CASE Ask(e)
  <2>1. nextId[e] + 1 \in 0 .. MaxRequests
    BY <1>0, <1>1, BoundsNat DEF Ask
  <2>2. QED
    BY <1>0, <1>1, <2>1 DEF Ask
<1>2. CASE Send(e)
  <2>1. Append(requests[e], CurrentId(e)) \in Seq(Ids)
    BY <1>0, <1>2, CurrentIssued, MembersOfAppend DEF Send
  <2>2. QED
    BY <1>0, <1>2, <2>1 DEF Send
<1>3. CASE SendFails(e)
  BY <1>0, <1>3, CurrentIssued DEF SendFails, EndCall
<1>4. CASE Receive(e)
  <2>1. Tail(responses[e]) \in Seq(Ids) /\ CurrentId(e) \in Ids
    BY <1>0, <1>4, MembersOfTail, CurrentIssued DEF Receive
  <2>2. responses' \in [Executors -> Seq(Ids)]
    BY <1>0, <1>4, <2>1 DEF Receive
  <2>3. CASE Head(responses[e]) = CurrentId(e)
    <3>1. EndCall(e, "answered") /\ UNCHANGED <<requests, executor>>
      BY <1>4, <2>3 DEF Receive
    <3>2. /\ call' \in [Executors -> {"idle", "sending", "receiving"}]
          /\ answer' \in [Executors -> [id : Ids \cup {Nothing},
                                        outcome : {"answered", "closed", "none"}]]
      BY <1>0, <2>1, <3>1 DEF EndCall
    <3>3. QED
      BY <1>0, <2>2, <3>1, <3>2 DEF EndCall
  <2>4. CASE Head(responses[e]) # CurrentId(e)
    BY <1>0, <1>4, <2>2, <2>4 DEF Receive
  <2>5. QED
    BY <2>3, <2>4
<1>5. CASE ReceiveFails(e)
  BY <1>0, <1>5, CurrentIssued DEF ReceiveFails, EndCall
<1>6. CASE Abandon(e)
  <2>1. abandoned[e] + 1 \in 0 .. MaxAbandoned
    BY <1>0, <1>6, BoundsNat DEF Abandon
  <2>2. abandoned' \in [Executors -> 0 .. MaxAbandoned]
    BY <1>0, <1>6, <2>1 DEF Abandon
  <2>3. QED
    BY <1>0, <1>6, <2>2 DEF Abandon
<1>7. CASE DropHandle(e)
  BY <1>0, <1>7, MembersOfNothing DEF DropHandle
<1>8. CASE Take(e)
  <2>1. Head(requests[e]) \in Ids /\ Tail(requests[e]) \in Seq(Ids)
    BY <1>0, <1>8, MembersOfTail DEF Take
  <2>2. QED
    BY <1>0, <1>8, <2>1 DEF Take
<1>9. CASE Handle(e)
  <2>1. held[e] \in Ids
    BY <1>9 DEF Handle, ProtocolInv, NumbersIssued
  <2>2. QED
    BY <1>0, <1>9, <2>1 DEF Handle
<1>10. CASE Reply(e)
  <2>1. Append(responses[e], held[e]) \in Seq(Ids)
    BY <1>0, <1>10, MembersOfAppend DEF Reply, ProtocolInv, NumbersIssued
  <2>2. responses' \in [Executors -> Seq(Ids)]
    <3>1. CASE handle[e]
      <4>1. responses' = [responses EXCEPT ![e] = Append(responses[e], held[e])]
        BY <1>10, <3>1 DEF Reply
      <4>2. QED
        BY <1>0, <2>1, <4>1
    <3>2. CASE ~handle[e]
      BY <1>0, <1>10, <3>2 DEF Reply
    <3>3. QED
      BY <3>1, <3>2
  <2>3. QED
    BY <1>0, <1>10, <2>2 DEF Reply
<1>11. CASE Exit(e)
  BY <1>0, <1>11, MembersOfNothing DEF Exit
<1>12. CASE OwnerStep(e)
  BY <1>0, <1>12 DEF OwnerStep, Stop, DropOwner, Joined
<1>13. QED
  BY <1>1, <1>2, <1>3, <1>4, <1>5, <1>6, <1>7, <1>8, <1>9, <1>10, <1>11, <1>12
     DEF LoopStep, CallStep, ClientStep

(* What a step does to the state of the executor it is about.              *)
LEMMA StepKeeps ==
    ASSUME ProtocolInv, NEW e \in Executors,
           LoopStep(e) \/ CallStep(e) \/ ClientStep(e) \/ OwnerStep(e)
    PROVE  (NumbersIssued(e) /\ ResponsesKept(e) /\ AnswersRight(e))'
<1> USE DEF channels, executor, client
<1> DEFINE Here == NumbersIssued(e) /\ ResponsesKept(e) /\ AnswersRight(e)
<1>0. ProtocolTypeOK /\ Here /\ Ids \subseteq Nat
  BY BoundsNat DEF ProtocolInv, Ids
<1>t. /\ nextId[e] \in Nat
      /\ requests[e] \in Seq(Ids) /\ responses[e] \in Seq(Ids)
      /\ handled[e] \in SUBSET Ids
      /\ Members(requests[e]) \subseteq Ids /\ Members(responses[e]) \subseteq Ids
  BY <1>0, BoundsNat, ElementOfSeq DEF ProtocolTypeOK, Members
<1>1. CASE Ask(e)
  <2>1. /\ nextId'[e] = nextId[e] + 1 /\ call'[e] = "sending" /\ handle[e] /\ call[e] = "idle"
        /\ UNCHANGED <<requests, responses, loop, held, handled, answer, handle>>
    BY <1>0, <1>1 DEF Ask, ProtocolTypeOK
  <2>2. QED
    <3>1. NumbersIssued(e)'
      <4>1. ASSUME NEW n \in Ids, Issued(e, n)
            PROVE  n < nextId'[e] /\ n < nextId'[e] - 1
        BY <1>0, <1>t, <2>1, <4>1 DEF Issued
      <4>2. /\ \A n \in Members(requests[e]) \cup Members(responses[e]) \cup handled[e] :
                  n \in Ids /\ Issued(e, n)
            /\ loop[e] \in {"handling", "replying"} => held[e] \in Ids /\ Issued(e, held[e])
        BY <1>0, <1>t DEF NumbersIssued
      <4>3. /\ \A n \in Members(requests[e]) \cup Members(responses[e]) \cup handled[e] :
                  n < nextId'[e] /\ n < nextId'[e] - 1
            /\ loop[e] \in {"handling", "replying"} =>
                  held[e] \in Ids /\ held[e] < nextId'[e] /\ held[e] < nextId'[e] - 1
        BY <4>1, <4>2
      <4>4. nextId'[e] > 0
        BY <1>t, <2>1
      <4>5. QED
        BY <2>1, <4>3, <4>4 DEF NumbersIssued, Issued, CurrentId
    <3>2. ResponsesKept(e)' /\ AnswersRight(e)'
      BY <1>0, <2>1 DEF ResponsesKept, AnswersRight
    <3>3. QED
      BY <3>1, <3>2
<1>2. CASE Send(e)
  <2>1. /\ requests'[e] = Append(requests[e], CurrentId(e))
        /\ call[e] = "sending" /\ call'[e] = "receiving"
        /\ UNCHANGED <<nextId, responses, loop, held, handled, answer, handle>>
    BY <1>0, <1>2 DEF Send, ProtocolTypeOK
  <2>2. /\ Members(requests'[e]) = Members(requests[e]) \cup {CurrentId(e)}
        /\ CurrentId(e) \in Ids /\ CurrentId(e) < nextId[e]
    BY <1>t, <2>1, CurrentIssued, MembersOfAppend
  <2>3. QED
    BY <1>0, <1>t, <2>1, <2>2 DEF NumbersIssued, Issued, CurrentId, ResponsesKept, AnswersRight
<1>3. CASE SendFails(e)
  <2>1. /\ call[e] = "sending" /\ call'[e] = "idle" /\ loop[e] = "exited"
        /\ answer'[e] = [id |-> CurrentId(e), outcome |-> "closed"]
        /\ UNCHANGED <<nextId, requests, responses, loop, held, handled, handle>>
    BY <1>0, <1>3 DEF SendFails, EndCall, ProtocolTypeOK
  <2>2. CurrentId(e) \notin handled[e]
    BY <1>0, <1>t, <2>1 DEF NumbersIssued, Issued, CurrentId
  <2>3. QED
    BY <1>0, <1>t, <2>1, <2>2 DEF NumbersIssued, Issued, CurrentId, ResponsesKept, AnswersRight
<1>4. CASE Receive(e)
  <2>1. /\ call[e] = "receiving" /\ responses'[e] = Tail(responses[e])
        /\ Members(responses[e]) = Members(Tail(responses[e])) \cup {Head(responses[e])}
        /\ UNCHANGED <<requests, loop, held, handled>>
    BY <1>0, <1>4, <1>t, MembersOfTail DEF Receive, ProtocolTypeOK
  <2>2. CASE Head(responses[e]) = CurrentId(e)
    <3>1. /\ call'[e] = "idle"
          /\ answer'[e] = [id |-> CurrentId(e), outcome |-> "answered"]
          /\ UNCHANGED <<nextId, handle>>
      BY <1>0, <1>4, <2>2 DEF Receive, EndCall, ProtocolTypeOK
    <3>2. CurrentId(e) \in handled[e]
      BY <1>0, <2>1, <2>2 DEF ResponsesKept
    <3>3. QED
      BY <1>0, <1>t, <2>1, <2>2, <3>1, <3>2
         DEF NumbersIssued, Issued, CurrentId, ResponsesKept, AnswersRight
  <2>3. CASE Head(responses[e]) # CurrentId(e)
    <3>1. UNCHANGED <<nextId, call, answer, handle>>
      BY <1>4, <2>3 DEF Receive
    <3>2. QED
      BY <1>0, <1>t, <2>1, <2>3, <3>1
         DEF NumbersIssued, Issued, CurrentId, ResponsesKept, AnswersRight
  <2>4. QED
    BY <2>2, <2>3
<1>5. CASE ReceiveFails(e)
  <2>1. /\ call[e] = "receiving" /\ call'[e] = "idle" /\ loop[e] = "exited"
        /\ responses[e] = <<>>
        /\ answer'[e] = [id |-> CurrentId(e), outcome |-> "closed"]
        /\ UNCHANGED <<nextId, requests, responses, loop, held, handled, handle>>
    BY <1>0, <1>5 DEF ReceiveFails, EndCall, ProtocolTypeOK
  <2>2. CurrentId(e) \notin handled[e]
    BY <1>0, <2>1, MembersOfNothing DEF ResponsesKept
  <2>3. QED
    BY <1>0, <1>t, <2>1, <2>2 DEF NumbersIssued, Issued, CurrentId, ResponsesKept, AnswersRight
<1>6. CASE Abandon(e)
  <2>1. /\ call'[e] = "idle"
        /\ UNCHANGED <<nextId, requests, responses, loop, held, handled, answer, handle>>
    BY <1>0, <1>6 DEF Abandon, ProtocolTypeOK
  <2>2. QED
    BY <1>0, <1>t, <2>1 DEF NumbersIssued, Issued, CurrentId, ResponsesKept, AnswersRight
<1>7. CASE DropHandle(e)
  <2>1. /\ call[e] = "idle" /\ call'[e] = "idle" /\ responses'[e] = <<>>
        /\ UNCHANGED <<nextId, requests, loop, held, handled, answer>>
    BY <1>0, <1>7 DEF DropHandle, ProtocolTypeOK
  <2>2. QED
    BY <1>0, <1>t, <2>1, MembersOfNothing
       DEF NumbersIssued, Issued, CurrentId, ResponsesKept, AnswersRight
<1>8. CASE Take(e)
  <2>1. /\ loop[e] = "select" /\ loop'[e] = "handling" /\ held'[e] = Head(requests[e])
        /\ requests'[e] = Tail(requests[e]) /\ held'[e] \in Ids
        /\ Members(requests[e]) = Members(Tail(requests[e])) \cup {Head(requests[e])}
        /\ UNCHANGED <<nextId, call, responses, handled, answer, handle>>
    BY <1>0, <1>8, <1>t, MembersOfTail DEF Take, ProtocolTypeOK
  <2>2. QED
    BY <1>0, <1>t, <2>1 DEF NumbersIssued, Issued, CurrentId, ResponsesKept, AnswersRight
<1>9. CASE Handle(e)
  <2>1. /\ loop[e] = "handling" /\ loop'[e] = "replying"
        /\ handled'[e] = handled[e] \cup {held[e]}
        /\ UNCHANGED <<nextId, call, requests, responses, held, answer, handle>>
    BY <1>0, <1>9 DEF Handle, ProtocolTypeOK
  <2>2. QED
    BY <1>0, <1>t, <2>1 DEF NumbersIssued, Issued, CurrentId, ResponsesKept, AnswersRight
<1>10. CASE Reply(e)
  <2>1. /\ loop[e] = "replying" /\ loop'[e] = "select"
        /\ held[e] \in Ids /\ held[e] \in handled[e] /\ Issued(e, held[e])
        /\ UNCHANGED <<nextId, call, requests, handled, answer, handle>>
    BY <1>0, <1>10 DEF Reply, ProtocolTypeOK, NumbersIssued, ResponsesKept
  <2>2. /\ handle[e] => Members(responses'[e]) = Members(responses[e]) \cup {held[e]}
        /\ ~handle[e] => responses'[e] = responses[e]
    <3>1. CASE handle[e]
      <4>1. responses'[e] = Append(responses[e], held[e])
        BY <1>0, <1>10, <3>1 DEF Reply, ProtocolTypeOK
      <4>2. QED
        BY <1>t, <2>1, <3>1, <4>1, MembersOfAppend
    <3>2. CASE ~handle[e]
      BY <1>10, <3>2 DEF Reply
    <3>3. QED
      BY <3>1, <3>2
  <2>3. QED
    BY <1>0, <1>t, <2>1, <2>2 DEF NumbersIssued, Issued, CurrentId, ResponsesKept, AnswersRight
<1>11. CASE Exit(e)
  <2>1. /\ loop[e] = "select" /\ loop'[e] = "exited" /\ requests'[e] = <<>>
        /\ UNCHANGED <<nextId, call, responses, handled, answer, handle>>
    BY <1>0, <1>11 DEF Exit, ProtocolTypeOK
  <2>2. QED
    BY <1>0, <1>t, <2>1, MembersOfNothing
       DEF NumbersIssued, Issued, CurrentId, ResponsesKept, AnswersRight
<1>12. CASE OwnerStep(e)
  <2>1. UNCHANGED <<nextId, call, requests, responses, loop, held, handled, answer, handle>>
    BY <1>12 DEF OwnerStep, Stop, DropOwner, Joined
  <2>2. QED
    BY <1>0, <2>1 DEF NumbersIssued, Issued, CurrentId, ResponsesKept, AnswersRight
<1>13. QED
  BY <1>1, <1>2, <1>3, <1>4, <1>5, <1>6, <1>7, <1>8, <1>9, <1>10, <1>11, <1>12
     DEF LoopStep, CallStep, ClientStep

LEMMA NextKeeps ==
    ASSUME ProtocolInv, [Next]_protocolVars
    PROVE  ProtocolInv'
<1>1. CASE Next
  <2>1. PICK e \in Executors : LoopStep(e) \/ CallStep(e) \/ ClientStep(e) \/ OwnerStep(e)
    BY <1>1 DEF Next
  <2>2. ProtocolTypeOK'
    BY <2>1, TypesKept
  <2>3. ASSUME NEW f \in Executors
        PROVE  (NumbersIssued(f) /\ ResponsesKept(f) /\ AnswersRight(f))'
    BY <2>1, StepKeeps, OthersKeep
  <2>4. QED
    BY <2>2, <2>3 DEF ProtocolInv
<1>2. CASE UNCHANGED protocolVars
  BY <1>2 DEF protocolVars, channels, executor, client, ProtocolInv, ProtocolTypeOK,
              NumbersIssued, Issued, CurrentId, ResponsesKept, AnswersRight
<1>3. QED
  BY <1>1, <1>2

THEOREM ProtocolInvariance == Spec => []ProtocolInv
<1>1. Init => ProtocolInv
  BY StartedHolds DEF Init
<1>2. ProtocolInv /\ [Next]_protocolVars => ProtocolInv'
  BY NextKeeps
<1>3. QED
  BY <1>1, <1>2, PTL DEF Spec

(* The channels hold request numbers, the two sides states of theirs.      *)
THEOREM ProtocolTypes == Spec => []ProtocolTypeOK
<1>1. ProtocolInv => ProtocolTypeOK
  BY DEF ProtocolInv
<1>2. QED
  BY <1>1, ProtocolInvariance, PTL

(* No call returns the response to another, however many were dropped      *)
(* before it: execute_task, ping and the others skip what is left of them. *)
THEOREM OwnAnswers == Spec => []AnswersAreOwn
<1>1. ProtocolInv => AnswersAreOwn
  BY DEF ProtocolInv, AnswersRight, AnswersAreOwn
<1>2. QED
  BY <1>1, ProtocolInvariance, PTL

(* ChannelClosed is only returned for a request that nobody executed: the  *)
(* loop sends the response to what it has handled before it looks at the   *)
(* shutdown channel again.                                                 *)
THEOREM ClosedCallsNotRun == Spec => []ClosedMeansNotRun
<1>1. ProtocolInv => ClosedMeansNotRun
  BY DEF ProtocolInv, AnswersRight, ClosedMeansNotRun
<1>2. QED
  BY <1>1, ProtocolInvariance, PTL

(* What calls return is the truth about them.                              *)
THEOREM CallsAreSound == Spec => []CallsSound
<1>1. AnswersAreOwn /\ ClosedMeansNotRun => CallsSound
  BY DEF CallsSound
<1>2. QED
  BY <1>1, OwnAnswers, ClosedCallsNotRun, PTL

-----------------------------------------------------------------------------
(* The pool is a client of the protocol: its callers and its sweeps do to  *)
(* the handles only what a handle allows.                                  *)
LEMMA PoolStepIsProtocolStep ==
    ASSUME PoolTypeOK, [PoolStep]_vars
    PROVE  [Next]_protocolVars
<1>1. ASSUME NEW c \in Callers, CallerStep(c) \/ DropCaller(c)
      PROVE  [Next]_protocolVars
  <2>1. picked[c] \in Executors
    BY DEF PoolTypeOK
  <2>2. QED
    BY <1>1, <2>1 DEF CallerStep, DropCaller, Acquire, LockAndAsk, Return, Next, ClientStep
<1>2. CASE StartSweep
  BY <1>2 DEF StartSweep
<1>3. CASE SweepStep
  <2>1. sweep.on \in Executors
    BY DEF PoolTypeOK
  <2>2. QED
    BY <1>3, <2>1 DEF SweepStep, SweepAsk, SweepGoesOn, Next, ClientStep
<1>4. ASSUME NEW e \in Executors, LoopStep(e) \/ CallStep(e)
      PROVE  [Next]_protocolVars
  BY <1>4 DEF Next
<1>5. CASE UNCHANGED vars
  BY <1>5 DEF vars
<1>6. QED
  BY <1>1, <1>2, <1>3, <1>4, <1>5 DEF PoolStep

LEMMA PermitTaken ==
    ASSUME PoolTypeOK, PermitsAccounted, NEW c \in Callers, at[c] = "arrived", permits > 0,
           permits' = permits - 1, at' = [at EXCEPT ![c] = "locking"]
    PROVE  PermitsAccounted' /\ permits' \in 0 .. Workers
<1> DEFINE before == {d \in Callers : at[d] \in Holding}
           after  == {d \in Callers : at'[d] \in Holding}
<1>1. at \in [Callers -> Waiting \cup {"returned", "gone"}] /\ permits \in 0 .. Workers
  BY DEF PoolTypeOK
<1>2. IsFiniteSet(before) /\ Cardinality(before) \in Nat
  BY CallersFinite, FS_Subset, FS_CardinalityType
<1>3. after = before \cup {c}
  BY <1>1 DEF Holding
<1>4. c \notin before
  BY DEF Holding
<1>5. Cardinality(after) = Cardinality(before) + 1
  BY <1>2, <1>3, <1>4, FS_AddElement
<1>6. QED
  BY <1>1, <1>2, <1>5, WorkersPositive DEF PermitsAccounted

LEMMA PermitReturned ==
    ASSUME PoolTypeOK, PermitsAccounted, NEW c \in Callers, at[c] \in Holding,
           NEW to \in {"returned", "gone"},
           permits' = permits + 1, at' = [at EXCEPT ![c] = to]
    PROVE  PermitsAccounted' /\ permits' \in 0 .. Workers
<1> DEFINE before == {d \in Callers : at[d] \in Holding}
           after  == {d \in Callers : at'[d] \in Holding}
<1>1. at \in [Callers -> Waiting \cup {"returned", "gone"}] /\ permits \in 0 .. Workers
  BY DEF PoolTypeOK
<1>2. IsFiniteSet(before) /\ Cardinality(before) \in Nat /\ IsFiniteSet(after)
  BY CallersFinite, FS_Subset, FS_CardinalityType
<1>3. after = before \ {c}
  BY <1>1 DEF Holding
<1>4. c \in before
  OBVIOUS
<1>5. Cardinality(after) = Cardinality(before) - 1 /\ Cardinality(after) \in Nat
  <2>1. Cardinality(before \ {c}) = Cardinality(before) - 1
    BY <1>2, <1>4, FS_RemoveElement
  <2>2. Cardinality(after) \in Nat
    BY <1>2, FS_CardinalityType
  <2>3. QED
    BY <1>3, <2>1, <2>2
<1>6. QED
  BY <1>1, <1>2, <1>5, WorkersPositive DEF PermitsAccounted

LEMMA HoldersKept ==
    ASSUME PermitsAccounted, UNCHANGED permits,
           \A d \in Callers : at'[d] \in Holding <=> at[d] \in Holding
    PROVE  PermitsAccounted'
<1>1. {d \in Callers : at'[d] \in Holding} = {d \in Callers : at[d] \in Holding}
  OBVIOUS
<1>2. QED
  BY <1>1 DEF PermitsAccounted

PoolInv == ProtocolInv /\ PoolTypeOK /\ PermitsAccounted

LEMMA PoolStepKeeps ==
    ASSUME PoolInv, [PoolStep]_vars
    PROVE  PoolInv'
<1> USE DEF PoolTypeOK
<1>1. ProtocolInv'
  BY PoolStepIsProtocolStep, NextKeeps DEF PoolInv
<1>2. PoolTypeOK /\ PermitsAccounted /\ ProtocolTypeOK'
  BY <1>1 DEF PoolInv, ProtocolInv
<1>3. ASSUME NEW c \in Callers, Acquire(c)
      PROVE  PoolTypeOK' /\ PermitsAccounted'
  <2>1. PermitsAccounted' /\ permits' \in 0 .. Workers
    BY <1>2, <1>3, PermitTaken DEF Acquire
  <2>2. (next + 1) % Workers \in 0 .. Workers - 1
    BY <1>2, ExecutorsNumbered, WorkersPositive
  <2>3. QED
    BY <1>2, <1>3, <2>1, <2>2, ExecutorsNumbered DEF Acquire, Waiting
<1>4. ASSUME NEW c \in Callers, LockAndAsk(c)
      PROVE  PoolTypeOK' /\ PermitsAccounted'
  <2>1. \A d \in Callers : at'[d] \in Holding <=> at[d] \in Holding
    BY <1>2, <1>4 DEF LockAndAsk, Holding
  <2>2. PermitsAccounted'
    BY <1>2, <1>4, <2>1, HoldersKept DEF LockAndAsk
  <2>3. QED
    BY <1>2, <1>4, <2>2 DEF LockAndAsk, Waiting
<1>5. ASSUME NEW c \in Callers, Return(c)
      PROVE  PoolTypeOK' /\ PermitsAccounted'
  <2>1. PermitsAccounted' /\ permits' \in 0 .. Workers
    BY <1>2, <1>5, PermitReturned DEF Return, Holding
  <2>2. QED
    BY <1>2, <1>5, <2>1 DEF Return
<1>6. ASSUME NEW c \in Callers, DropCaller(c)
      PROVE  PoolTypeOK' /\ PermitsAccounted'
  <2>1. lock' \in [Executors -> Callers \cup {Free, Sweeper}]
    BY <1>2, <1>6 DEF DropCaller
  <2>2. PermitsAccounted' /\ permits' \in 0 .. Workers
    <3>1. CASE at[c] = "arrived"
      <4>1. \A d \in Callers : at'[d] \in Holding <=> at[d] \in Holding
        BY <1>2, <1>6, <3>1 DEF DropCaller, Holding
      <4>2. QED
        BY <1>2, <1>6, <3>1, <4>1, HoldersKept DEF DropCaller
    <3>2. CASE at[c] # "arrived"
      BY <1>2, <1>6, <3>2, PermitReturned DEF DropCaller, Holding, Waiting
    <3>3. QED
      BY <3>1, <3>2
  <2>3. QED
    BY <1>2, <1>6, <2>1, <2>2 DEF DropCaller
<1>7. CASE StartSweep
  <2>1. PermitsAccounted'
    BY <1>2, <1>7, HoldersKept DEF StartSweep
  <2>2. PoolTypeOK'
    BY <1>2, <1>7 DEF StartSweep
  <2>3. QED
    BY <1>1, <2>1, <2>2 DEF PoolInv
<1>8. CASE SweepAsk
  <2>1. PermitsAccounted'
    BY <1>2, <1>8, HoldersKept DEF SweepAsk
  <2>2. PoolTypeOK'
    BY <1>2, <1>8 DEF SweepAsk
  <2>3. QED
    BY <1>1, <2>1, <2>2 DEF PoolInv
<1>9. CASE SweepGoesOn
  <2>1. sweep.on \in 0 .. Workers - 1 /\ (sweep.on # Workers - 1 => sweep.on + 1 \in Executors)
    BY <1>2, ExecutorsNumbered, WorkersPositive
  <2>2. sweep' \in [at : {"idle", "locking", "calling", "done"}, on : Executors,
                    failed : BOOLEAN]
    BY <1>2, <1>9, <2>1 DEF SweepGoesOn
  <2>3. PermitsAccounted'
    BY <1>2, <1>9, HoldersKept DEF SweepGoesOn
  <2>4. PoolTypeOK'
    BY <1>2, <1>9, <2>2 DEF SweepGoesOn
  <2>5. QED
    BY <1>1, <2>3, <2>4 DEF PoolInv
<1>10. CASE UNCHANGED poolVars
  <2>1. PermitsAccounted'
    BY <1>2, <1>10, HoldersKept DEF poolVars
  <2>2. PoolTypeOK'
    BY <1>2, <1>10 DEF poolVars
  <2>3. QED
    BY <1>1, <2>1, <2>2 DEF PoolInv
<1>11. QED
  BY <1>1, <1>3, <1>4, <1>5, <1>6, <1>7, <1>8, <1>9, <1>10
     DEF PoolInv, PoolStep, CallerStep, SweepStep, vars

THEOREM PoolInvariance == PoolSpec => []PoolInv
<1>1. PoolInit => PoolInv
  <2> SUFFICES ASSUME PoolInit PROVE PoolInv
    OBVIOUS
  <2>1. ProtocolInv
    BY StartedHolds DEF PoolInit
  <2>2. PICK callers \in SUBSET Callers, swept \in BOOLEAN : PoolOf(callers, swept)
    BY DEF PoolInit
  <2>3. PoolTypeOK
    BY <2>1, <2>2, ExecutorsNumbered, WorkersPositive
       DEF PoolOf, PoolTypeOK, ProtocolInv, Waiting
  <2>4. {c \in Callers : at[c] \in Holding} = {}
    BY <2>2 DEF PoolOf, Holding
  <2>5. PermitsAccounted
    <3>1. Cardinality({c \in Callers : at[c] \in Holding}) = 0
      BY <2>4, FS_EmptySet
    <3>2. QED
      BY <2>2, <3>1, WorkersPositive DEF PoolOf, PermitsAccounted
  <2>6. QED
    BY <2>1, <2>3, <2>5 DEF PoolInv
<1>2. PoolInv /\ [PoolStep]_vars => PoolInv'
  BY PoolStepKeeps
<1>3. QED
  BY <1>1, <1>2, PTL DEF PoolSpec

(* The permits of the semaphore and its holders add up to the executors,   *)
(* and the round robin stays among them.                                   *)
THEOREM PoolTypes == PoolSpec => []PoolTypeOK
<1>1. PoolInv => PoolTypeOK
  BY DEF PoolInv
<1>2. QED
  BY <1>1, PoolInvariance, PTL

(* No permit is lost, whether a caller returns, fails or is dropped.       *)
THEOREM PermitsKept == PoolSpec => []PermitsAccounted
<1>1. PoolInv => PermitsAccounted
  BY DEF PoolInv
<1>2. QED
  BY <1>1, PoolInvariance, PTL

(* Types and permits of the pool.                                          *)
THEOREM PoolIsSound == PoolSpec => []PoolSound
<1>1. PoolTypeOK /\ PermitsAccounted => PoolSound
  BY DEF PoolSound
<1>2. QED
  BY <1>1, PoolTypes, PermitsKept, PTL

(* A pool is executors whose owner is gone, used through their handles: so *)
(* what holds of every use of the handles holds in the pool.               *)
THEOREM PoolUsesProtocol == PoolSpec => Spec
<1>1. PoolInit => Init
  BY DEF PoolInit, Init
<1>2. PoolTypeOK /\ [PoolStep]_vars => [Next]_protocolVars
  BY PoolStepIsProtocolStep
<1>3. QED
  BY <1>1, <1>2, PoolTypes, PTL DEF PoolSpec, Spec

-----------------------------------------------------------------------------
(* The crawler of the git graph.  The repository that is being crawled,    *)
(* those that wait for it, those it is done with.                          *)
AtHand == IF phase \in {"opened", "updated", "mapped", "branches", "tags"} THEN {url} ELSE {}
Queued == ToSet(queue.items)
Entered == ToSet(visited)

Queues == [items : Seq(Urls), dict : SUBSET Urls]
QueueOk(q) ==
    /\ q \in Queues /\ IsInjective(q.items)
    /\ ToSet(q.items) \subseteq q.dict

(* The repositories and the clone; reported are branches of each one.      *)
RefsInv ==
    /\ heads \in [Urls -> Refs] /\ tags \in [Urls -> Refs]
    /\ url \in Urls /\ objects \subseteq Commits
    /\ phase \in {"take", "opened", "updated", "mapped", "branches", "tags", "done", "crashed"}
    /\ AtHand # {} => tracking \in Refs
    /\ phase \in {"branches", "tags"} => reporting \in Refs
    /\ DOMAIN reported \subseteq Urls /\ \A u \in DOMAIN reported : reported[u] \in Refs

(* The queues; none holds a repository twice.                              *)
QueuesInv ==
    /\ max_depth \in Int /\ current_depth \in Nat
    /\ QueueOk(queue) /\ QueueOk(iteration_queue)
    /\ ToSet(iteration_queue.items) = iteration_queue.dict
    /\ visited \in Seq(Urls) /\ IsInjective(visited)
    /\ found \subseteq Urls \X Urls

(* Each repository that was ever in the queue of a crawl is in one place.  *)
PlacesInv ==
    /\ Entered \cap AtHand = {} /\ (Entered \cup AtHand) \cap Queued = {}
    /\ AtHand # {} => WithinDepth
    /\ phase = "done" => queue.items = << >>
    /\ phase \in {"take", "done"} /\ queue.items = << >> => iteration_queue.dict = {}
    /\ \A e \in found : e[1] \in Entered \cup AtHand

(* Within the depth: what was ever queued is what the manifests lead to in *)
(* current_depth levels, the level before is done, and what is found now   *)
(* is the next one's.  Beyond it: what was entered is what they lead to in *)
(* max_depth levels, and nothing comes after it.                           *)
LevelInv ==
    /\ queue.dict = Entered \cup AtHand \cup Queued
    /\ queue.dict = Reached(found, current_depth)
    /\ current_depth > 0 => Reached(found, current_depth - 1) \subseteq Entered
    /\ \A e \in found : e[2] \in queue.dict \cup iteration_queue.dict
    /\ \A u \in iteration_queue.dict : \E e \in found : e[2] = u
BeyondInv ==
    /\ Entered = Reached(found, max_depth)
    /\ iteration_queue.dict = {}

SearchInv ==
    /\ QueuesInv
    /\ phase # "crashed" =>
           PlacesInv /\ (WithinDepth => LevelInv) /\ (~ WithinDepth => BeyondInv)

(* A commit is linked to no branch but one that its repository has, and    *)
(* that was reported: so the next transaction finds it, should it move.    *)
LinkedTo(l, n, u) == l[2] = "links_to" /\ l[3] = Reference(n, u)
HasLink(n, u) == <<Repository(u), "has", Reference(n, u)>>
DatabaseInv ==
    /\ \A l \in database.links : {l[1], l[3]} \subseteq database.nodes
    /\ \A l \in database.links : \A n \in ToSet(Names), u \in Urls :
           LinkedTo(l, n, u) => HasLink(n, u) \in database.links /\ u \in DOMAIN reported

(* What the transaction at hand cuts off.                                  *)
Left == {c \in Commits : \E n \in DOMAIN reporting : c \in MovedAway(n, reporting[n])}
Vanished == BranchesInDb(url) \ DOMAIN reporting

(* The links a step merges: their ends, the manifests of a commit, and     *)
(* what is linked to a reference; u is the repository, r its branches, rc  *)
(* the commits whose tree may be another's.                                *)
EndsMerged(l, m, u) == {l[1], l[3]} \subseteq m.nodes \cup {Repository(u)}
OwnContent(l, rc) ==
    \A c \in Commits : l[1] = Commit(c) /\ l[2] = "contains" =>
        c \in rc \/ \E m \in Manifests[c] : l[3] = Manifest(m, c)
OwnReference(l, m, u, r) ==
    \A n \in ToSet(Names), v \in Urls : LinkedTo(l, n, v) =>
        v = u /\ n \in DOMAIN r /\ l[1] = Commit(r[n]) /\ HasLink(n, v) \in m.links
MergeOk(m, u, r, rc) ==
    \A l \in m.links : EndsMerged(l, m, u) /\ OwnContent(l, rc) /\ OwnReference(l, m, u, r)

(* The queries collected: each cuts off no more, all together no less.     *)
CutCommits == {Commit(c) : c \in Left}
CutReferences == {Reference(n, url) : n \in Vanished}
StepOk(q) ==
    /\ q.cut \subseteq CutCommits \cup CutReferences /\ q.gone \subseteq CutReferences
    /\ MergeOk(q.merged, url, reporting, raced)
StepsInv ==
    phase \in {"branches", "tags"} =>
        /\ collector \in Seq(ToSet(collector))
        /\ \A q \in ToSet(collector) : StepOk(q)
        /\ \E q \in ToSet(collector) : Repository(url) \in q.merged.nodes
        /\ \A x \in CutCommits \cup CutReferences : \E q \in ToSet(collector) : x \in q.cut

(* What got lost of what the crawl wrote.                                  *)
Lost(l) ==
    \/ \E c \in left : Touches(l, Commit(c))
    \/ \E u \in Entered : \E n \in ToSet(Names) \ DOMAIN reported[u] : Touches(l, Reference(n, u))
LossInv ==
    phase # "crashed" =>
        /\ Entered \subseteq DOMAIN reported
        /\ \A l \in written \ database.links : Lost(l)

(* All of it.                                                              *)
CrawlInv ==
    /\ RefsInv /\ SearchInv /\ DatabaseInv /\ StepsInv /\ LossInv
    /\ ReferencesCurrent /\ ManifestsOfCommit

-----------------------------------------------------------------------------
(* The queue.                                                              *)
LEMMA AddSteps ==
    ASSUME NEW q \in Queues, NEW us \in Seq(Urls)
    PROVE  \E it : /\ it[0] = q
                   /\ \A k \in 1 .. Len(us) : it[k] = AddOne(it[k - 1], us[k])
                   /\ Add(q, us) = it[Len(us)]
<1> DEFINE n == Len(us)
           rule == [p \in Queues \X Urls |-> AddOne(p[1], p[2])]
           Eqn(f) == f = [s \in SUBSET DOMAIN us |->
                            IF s = {} THEN q ELSE AddOne(f[s \ {Max(s)}], us[Max(s)])]
           iter == CHOOSE f : Eqn(f)
<1>1. n \in Nat /\ DOMAIN us = 1 .. n /\ \A k \in 1 .. n : us[k] \in Urls
  OBVIOUS
<1>2. \E f : Eqn(f)
  <2>1. rule \in [Queues \X Urls -> Queues]
    <3>1. ASSUME NEW r \in Queues, NEW u \in Urls PROVE AddOne(r, u) \in Queues
      <4>1. Append(r.items, u) \in Seq(Urls) /\ r.dict \cup {u} \in SUBSET Urls
        BY DEF Queues
      <4> QED BY <4>1 DEF AddOne, Queues
    <3> QED BY <3>1
  <2>2. PICK f \in [SUBSET (1 .. n) -> Queues] : Folds(f, us, q, rule)
    <3> HIDE DEF rule
    <3> QED BY <2>1, FoldExists
  <2>3. ASSUME NEW A \in SUBSET (1 .. n), A # {}
        PROVE  f[A] = AddOne(f[A \ {Max(A)}], us[Max(A)])
    <3>1. Max(A) \in 1 .. n /\ f[A] = rule[<<f[A \ {Max(A)}], us[Max(A)]>>]
      BY <2>2, <2>3 DEF Folds
    <3>2. f[A \ {Max(A)}] \in Queues /\ us[Max(A)] \in Urls
      BY <1>1, <2>2, <3>1
    <3> QED BY <3>1, <3>2
  <2>4. f[{}] = q
    BY <2>2 DEF Folds
  <2>5. Eqn(f)
    BY <1>1, <2>2, <2>3, <2>4
  <2> QED BY <2>5
<1>3. Eqn(iter)
  <2> HIDE DEF Eqn
  <2> QED BY <1>2
<1>4. Add(q, us) = iter[DOMAIN us]
  BY <1>1 DEF Add, FoldLeft, MapThenFoldSet
<1> HIDE DEF iter
<1> DEFINE it == [k \in 0 .. n |-> iter[1 .. k]]
<1>5. it[0] = q
  <2>1. 1 .. 0 = {} /\ {} \in SUBSET DOMAIN us
    OBVIOUS
  <2>2. iter[{}] = q
    BY <1>3, <2>1
  <2>3. it[0] = iter[1 .. 0]
    BY <1>1
  <2> QED BY <2>1, <2>2, <2>3
<1>6. ASSUME NEW k \in 1 .. n PROVE it[k] = AddOne(it[k - 1], us[k])
  <2>1. (1 .. k) \in SUBSET DOMAIN us /\ k \in Nat \ {0}
    BY <1>1
  <2>2. Max(1 .. k) = k /\ (1 .. k) \ {k} = 1 .. (k - 1) /\ 1 .. k # {}
    BY <2>1, MaxOfPrefix
  <2>3. iter[1 .. k] = AddOne(iter[1 .. (k - 1)], us[k])
    BY <1>3, <2>1, <2>2
  <2>4. it[k] = iter[1 .. k] /\ it[k - 1] = iter[1 .. (k - 1)]
    BY <1>1
  <2> HIDE DEF it
  <2> QED BY <2>3, <2>4
<1>7. Add(q, us) = it[n]
  BY <1>1, <1>4
<1> HIDE DEF it
<1> QED BY <1>5, <1>6, <1>7

(* What was not in the queue before is behind it, once.                    *)
LEMMA AddResult ==
    ASSUME NEW q, QueueOk(q), NEW us \in Seq(Urls)
    PROVE  /\ QueueOk(Add(q, us))
           /\ Add(q, us).dict = q.dict \cup ToSet(us)
           /\ ToSet(Add(q, us).items) = ToSet(q.items) \cup (ToSet(us) \ q.dict)
<1>1. PICK it : /\ it[0] = q
                /\ \A k \in 1 .. Len(us) : it[k] = AddOne(it[k - 1], us[k])
                /\ Add(q, us) = it[Len(us)]
  BY AddSteps DEF QueueOk
<1> DEFINE n == Len(us)
           first(k) == {us[i] : i \in 1 .. k}
           After(r, S) == /\ QueueOk(r) /\ r.dict = q.dict \cup S
                          /\ ToSet(r.items) = ToSet(q.items) \cup (S \ q.dict)
           Good == {k \in Nat : k <= n => After(it[k], first(k))}
<1>2. n \in Nat /\ (\A k \in 1 .. n : us[k] \in Urls) /\ ToSet(us) = first(n)
  BY DEF ToSet
<1>3. 0 \in Good
  <2>1. first(0) = {}
    OBVIOUS
  <2> HIDE DEF first
  <2> QED BY <1>1, <2>1
<1>4. ASSUME NEW k \in Nat, k \in Good PROVE k + 1 \in Good
  <2>1. SUFFICES ASSUME k + 1 <= n PROVE After(it[k + 1], first(k + 1))
    OBVIOUS
  <2>2. k + 1 \in 1 .. n /\ (k + 1) - 1 = k /\ k <= n
    BY <1>2, <2>1
  <2>3. first(k + 1) = first(k) \cup {us[k + 1]} /\ us[k + 1] \in Urls
    BY <1>2, <2>2
  <2>4. After(it[k], first(k)) /\ it[k + 1] = AddOne(it[k], us[k + 1])
    BY <1>1, <1>4, <2>2
  <2> DEFINE r == it[k]
             u == us[k + 1]
             S == first(k)
  <2>5. After(AddOne(r, u), S \cup {u})
    <3>1. After(r, S) /\ u \in Urls
      BY <2>3, <2>4
    <3> HIDE DEF r, u, S, first
    <3>2. CASE u \in r.dict
      BY <3>1, <3>2 DEF AddOne
    <3>3. CASE u \notin r.dict
      <4> DEFINE a == Append(r.items, u)
      <4>1. r.items \in Seq(Urls) /\ r.dict \in SUBSET Urls /\ ToSet(r.items) \subseteq r.dict /\ IsInjective(r.items)
        BY <3>1 DEF QueueOk, Queues
      <4>2. a \in Seq(Urls) /\ ToSet(a) = ToSet(r.items) \cup {u} /\ IsInjective(a)
        BY <3>1, <3>3, <4>1, Appending
      <4> HIDE DEF a
      <4>3. AddOne(r, u) = [items |-> a, dict |-> r.dict \cup {u}]
        BY <3>3 DEF AddOne, a
      <4>4. QueueOk(AddOne(r, u))
        BY <3>1, <4>1, <4>2, <4>3 DEF QueueOk, Queues
      <4>5. u \notin q.dict /\ r.dict = q.dict \cup S
        BY <3>1, <3>3
      <4> QED BY <3>1, <4>2, <4>3, <4>4, <4>5
    <3> QED BY <3>2, <3>3
  <2> HIDE DEF After, first
  <2> QED BY <2>3, <2>4, <2>5
<1>5. Nat \subseteq Good
  <2> HIDE DEF Good
  <2> QED BY <1>3, <1>4, SetInduction
<1>6. After(it[n], first(n))
  <2> HIDE DEF n, After, first
  <2> QED BY <1>2, <1>5
<1> QED BY <1>1, <1>2, <1>6

(* A queue at first.                                                       *)
LEMMA NewQueueOk == QueueOk(NewQueue) /\ NewQueue.dict = {} /\ ToSet(NewQueue.items) = {}
  BY DEF NewQueue, QueueOk, Queues, IsInjective, ToSet

(* The first one is taken out of a queue.                                  *)
LEMMA TailOk ==
    ASSUME NEW q, QueueOk(q), q.items # << >>
    PROVE  /\ QueueOk([q EXCEPT !.items = Tail(@)])
           /\ [q EXCEPT !.items = Tail(@)].dict = q.dict
           /\ [q EXCEPT !.items = Tail(@)].items = Tail(q.items)
           /\ Head(q.items) \in q.dict /\ Head(q.items) \notin ToSet(Tail(q.items))
           /\ ToSet(q.items) = ToSet(Tail(q.items)) \cup {Head(q.items)}
<1> DEFINE s == q.items
           r == [q EXCEPT !.items = Tail(@)]
<1>1. s \in Seq(Urls) /\ s # << >> /\ IsInjective(s) /\ ToSet(s) \subseteq q.dict /\ q \in Queues
  BY DEF QueueOk, Queues
<1>2. Tail(s) \in Seq(Urls) /\ ToSet(s) = ToSet(Tail(s)) \cup {Head(s)}
        /\ IsInjective(Tail(s)) /\ Head(s) \notin ToSet(Tail(s))
  <2> HIDE DEF s
  <2> QED BY <1>1, Popping
<1>3. r \in Queues /\ r.dict = q.dict /\ r.items = Tail(s)
  <2>1. r = [items |-> Tail(s), dict |-> q.dict]
    BY <1>1 DEF Queues
  <2> QED BY <1>1, <1>2, <2>1 DEF Queues
<1> QED BY <1>1, <1>2, <1>3 DEF QueueOk

-----------------------------------------------------------------------------
(* The levels.                                                             *)
Leading(edges) == [u \in Urls |-> {e[2] : e \in {x \in edges : x[1] = u}}]
Targets(edges) == {e[2] : e \in edges}

(* What the repositories of a set lead to.                                 *)
LEMMA LeadingTyped ==
    ASSUME NEW edges \in SUBSET (Urls \X Urls)
    PROVE  /\ Leading(edges) \in [Urls -> SUBSET Urls]
           /\ \A S \in SUBSET Urls :
                 UNION {Leading(edges)[x] : x \in S} = {e[2] : e \in {x \in edges : x[1] \in S}}
<1>1. \A e \in edges : e[1] \in Urls /\ e[2] \in Urls
  OBVIOUS
<1>2. Leading(edges) \in [Urls -> SUBSET Urls]
  BY <1>1 DEF Leading
<1>3. ASSUME NEW S \in SUBSET Urls
      PROVE  UNION {Leading(edges)[x] : x \in S} = {e[2] : e \in {x \in edges : x[1] \in S}}
  <2>1. \A x \in S : Leading(edges)[x] = {e[2] : e \in {y \in edges : y[1] = x}}
    BY DEF Leading
  <2> QED BY <2>1
<1> QED BY <1>2, <1>3

(* The levels grow like the sets of the library of lemmas.                 *)
LEMMA ReachedIs ==
    ASSUME NEW edges \in SUBSET (Urls \X Urls)
    PROVE  \E f \in [Nat -> SUBSET Urls] :
               Grows(f, {Root}, Leading(edges)) /\ \A k \in Nat : Reached(edges, k) = f[k]
<1> DEFINE onward == Leading(edges)
<1>1. onward \in [Urls -> SUBSET Urls] /\ {Root} \in SUBSET Urls
  BY LeadingTyped, UrlsFinite
<1>2. PICK f \in [Nat -> SUBSET Urls] : Grows(f, {Root}, onward)
  <2> HIDE DEF onward
  <2> QED BY <1>1, GrowthExists
<1>3. \A n \in Nat : f[n + 1] = f[n] \cup {e[2] : e \in {x \in edges : x[1] \in f[n]}}
  BY <1>2, LeadingTyped DEF Grows
<1>4. f[0] = {Root}
  BY <1>2 DEF Grows
<1>5. ASSUME NEW k \in Nat PROVE Reached(edges, k) = f[k]
  <2> DEFINE Eqn(g) == g = [i \in 0 .. k |->
                              IF i = 0 THEN {Root}
                              ELSE g[i - 1] \cup {e[2] : e \in {x \in edges : x[1] \in g[i - 1]}}]
             h == [i \in 0 .. k |-> f[i]]
             w == CHOOSE g : Eqn(g)
  <2>1. Eqn(h)
    <3>1. ASSUME NEW i \in 0 .. k, i # 0
          PROVE  h[i] = h[i - 1] \cup {e[2] : e \in {x \in edges : x[1] \in h[i - 1]}}
      <4>1. i - 1 \in Nat /\ i - 1 \in 0 .. k /\ i = (i - 1) + 1
        BY <3>1
      <4>2. h[i] = f[i] /\ h[i - 1] = f[i - 1]
        BY <4>1
      <4>3. f[(i - 1) + 1] = f[i - 1] \cup {e[2] : e \in {x \in edges : x[1] \in f[i - 1]}}
        BY <1>3, <4>1
      <4> QED BY <4>1, <4>2, <4>3
    <3>2. h[0] = {Root}
      BY <1>4
    <3> DEFINE r == [i \in 0 .. k |->
                       IF i = 0 THEN {Root}
                       ELSE h[i - 1] \cup {e[2] : e \in {x \in edges : x[1] \in h[i - 1]}}]
    <3>3. \A i \in 0 .. k : h[i] = r[i]
      <4> HIDE DEF h
      <4> QED BY <3>1, <3>2
    <3>4. h = r
      <4> HIDE DEF r
      <4>1. DOMAIN r = 0 .. k /\ r = [i \in DOMAIN r |-> r[i]]
        BY DEF r
      <4> QED BY <3>3, <4>1
    <3> QED BY <3>4
  <2>2. Eqn(w)
    <3> HIDE DEF Eqn, h
    <3> QED BY <2>1
  <2>3. Reached(edges, k) = w[k]
    BY DEF Reached
  <2> HIDE DEF w
  <2> DEFINE Same == {i \in Nat : i <= k => w[i] = f[i]}
  <2>4. 0 \in Same
    BY <1>4, <2>2
  <2>5. ASSUME NEW i \in Nat, i \in Same PROVE i + 1 \in Same
    <3>1. SUFFICES ASSUME i + 1 <= k PROVE w[i + 1] = f[i + 1]
      OBVIOUS
    <3>2. i + 1 \in 0 .. k /\ i + 1 # 0 /\ (i + 1) - 1 = i /\ w[i] = f[i]
      BY <2>5, <3>1
    <3>3. w[i + 1] = w[i] \cup {e[2] : e \in {x \in edges : x[1] \in w[i]}}
      BY <2>2, <3>2
    <3> QED BY <1>3, <3>2, <3>3
  <2>6. Nat \subseteq Same
    <3> HIDE DEF Same
    <3> QED BY <2>4, <2>5, SetInduction
  <2> QED BY <2>3, <2>6
<1> QED BY <1>2, <1>5

(* A level, and the next one.                                              *)
LEMMA ReachedSteps ==
    ASSUME NEW edges \in SUBSET (Urls \X Urls)
    PROVE  /\ Reached(edges, 0) = {Root}
           /\ \A k \in Nat : /\ Reached(edges, k) \in SUBSET Urls
                             /\ Reached(edges, k + 1) =
                                   Reached(edges, k) \cup
                                       {e[2] : e \in {x \in edges : x[1] \in Reached(edges, k)}}
<1>1. PICK f \in [Nat -> SUBSET Urls] :
          Grows(f, {Root}, Leading(edges)) /\ \A k \in Nat : Reached(edges, k) = f[k]
  BY ReachedIs
<1>2. \A n \in Nat : f[n + 1] = f[n] \cup {e[2] : e \in {x \in edges : x[1] \in f[n]}}
  BY <1>1, LeadingTyped DEF Grows
<1>3. f[0] = {Root}
  BY <1>1 DEF Grows
<1>4. ASSUME NEW k \in Nat PROVE Reached(edges, k + 1) =
                                   Reached(edges, k) \cup
                                       {e[2] : e \in {x \in edges : x[1] \in Reached(edges, k)}}
  <2>1. Reached(edges, k + 1) = f[k + 1] /\ Reached(edges, k) = f[k]
    BY <1>1
  <2> QED BY <1>2, <2>1
<1> QED BY <1>1, <1>3, <1>4

(* A level is within each later one.                                       *)
LEMMA ReachedWithin ==
    ASSUME NEW edges \in SUBSET (Urls \X Urls), NEW i \in Nat, NEW j \in Nat, i <= j
    PROVE  Reached(edges, i) \subseteq Reached(edges, j)
<1> DEFINE Up == {k \in Nat : Reached(edges, i) \subseteq Reached(edges, i + k)}
<1>1. 0 \in Up
  <2>1. i + 0 = i
    OBVIOUS
  <2> QED BY <2>1
<1>2. ASSUME NEW k \in Nat, k \in Up PROVE k + 1 \in Up
  <2>1. i + (k + 1) = (i + k) + 1 /\ i + k \in Nat
    OBVIOUS
  <2>2. Reached(edges, i + k) \subseteq Reached(edges, (i + k) + 1)
    BY <2>1, ReachedSteps
  <2> QED BY <1>2, <2>1, <2>2
<1>3. Nat \subseteq Up
  <2> HIDE DEF Up
  <2> QED BY <1>1, <1>2, SetInduction
<1>4. j - i \in Nat /\ i + (j - i) = j
  OBVIOUS
<1>5. j - i \in Up
  <2> HIDE DEF Up
  <2> QED BY <1>3, <1>4
<1> QED BY <1>4, <1>5

(* What is found later, and not from a level before d, changes no level    *)
(* up to d.                                                                *)
LEMMA ReachedKept ==
    ASSUME NEW edges \in SUBSET (Urls \X Urls), NEW more \in SUBSET (Urls \X Urls), NEW d \in Nat,
           d > 0 => \A e \in more : e[1] \notin Reached(edges, d - 1)
    PROVE  \A i \in 0 .. d : Reached(edges \cup more, i) = Reached(edges, i)
<1> DEFINE all == edges \cup more
           Same == {i \in Nat : i <= d => Reached(all, i) = Reached(edges, i)}
<1>1. all \in SUBSET (Urls \X Urls)
  OBVIOUS
<1>2. 0 \in Same
  <2>1. Reached(all, 0) = {Root} /\ Reached(edges, 0) = {Root}
    <3> HIDE DEF all
    <3> QED BY <1>1, ReachedSteps
  <2> HIDE DEF all
  <2> QED BY <2>1
<1>3. ASSUME NEW i \in Nat, i \in Same PROVE i + 1 \in Same
  <2>1. SUFFICES ASSUME i + 1 <= d PROVE Reached(all, i + 1) = Reached(edges, i + 1)
    OBVIOUS
  <2>2. d > 0 /\ i <= d - 1 /\ d - 1 \in Nat /\ i <= d
    BY <2>1
  <2> DEFINE S == Reached(edges, i)
  <2>3. Reached(all, i) = S
    BY <1>3, <2>2
  <2>4. Reached(edges, i + 1) = S \cup {e[2] : e \in {x \in edges : x[1] \in S}}
    BY ReachedSteps
  <2>5. Reached(all, i + 1) = S \cup {e[2] : e \in {x \in all : x[1] \in S}}
    <3> HIDE DEF all
    <3>1. Reached(all, i + 1)
             = Reached(all, i) \cup {e[2] : e \in {x \in all : x[1] \in Reached(all, i)}}
      BY <1>1, ReachedSteps
    <3> QED BY <2>3, <3>1
  <2>6. S \subseteq Reached(edges, d - 1)
    BY <2>2, ReachedWithin
  <2>7. {x \in all : x[1] \in S} = {x \in edges : x[1] \in S}
    <3>1. \A e \in more : e[1] \notin S
      BY <2>2, <2>6
    <3> HIDE DEF S
    <3> QED BY <3>1
  <2> HIDE DEF S, all
  <2> QED BY <2>4, <2>5, <2>7
<1>4. Nat \subseteq Same
  <2> HIDE DEF Same
  <2> QED BY <1>2, <1>3, SetInduction
<1> HIDE DEF all
<1> QED BY <1>4 DEF all

(* A level out of which nothing leads is the last one, and the one after   *)
(* as many steps as there are repositories.                                *)
LEMMA ReachedClosed ==
    ASSUME NEW edges \in SUBSET (Urls \X Urls), NEW d \in Nat,
           \A e \in edges : e[1] \in Reached(edges, d) => e[2] \in Reached(edges, d)
    PROVE  /\ \A k \in Nat : k >= d => Reached(edges, k) = Reached(edges, d)
           /\ Cardinality(Urls) \in Nat /\ Reached(edges, Cardinality(Urls)) = Reached(edges, d)
<1> DEFINE R == Reached(edges, d)
           In == {k \in Nat : Reached(edges, k) \subseteq R}
<1>1. 0 \in In
  <2>1. 0 <= d
    OBVIOUS
  <2> QED BY <2>1, ReachedWithin
<1>2. ASSUME NEW k \in Nat, k \in In PROVE k + 1 \in In
  <2>1. Reached(edges, k + 1)
          = Reached(edges, k) \cup {e[2] : e \in {x \in edges : x[1] \in Reached(edges, k)}}
    BY ReachedSteps
  <2>2. \A e \in edges : e[1] \in R => e[2] \in R
    OBVIOUS
  <2> HIDE DEF R
  <2> QED BY <1>2, <2>1, <2>2
<1>3. Nat \subseteq In
  <2> HIDE DEF In
  <2> QED BY <1>1, <1>2, SetInduction
<1>4. \A k \in Nat : Reached(edges, k) \subseteq R
  BY <1>3
<1>5. \A k \in Nat : k >= d => Reached(edges, k) = R
  BY <1>4, ReachedWithin
<1> DEFINE c == Cardinality(Urls)
<1>6. c \in Nat /\ IsFiniteSet(Urls)
  BY UrlsFinite, FS_CardinalityType
<1>7. Reached(edges, c) = R
  <2>1. PICK f \in [Nat -> SUBSET Urls] :
          Grows(f, {Root}, Leading(edges)) /\ \A k \in Nat : Reached(edges, k) = f[k]
    BY ReachedIs
  <2>2. Leading(edges) \in [Urls -> SUBSET Urls] /\ {Root} \in SUBSET Urls
    BY LeadingTyped, UrlsFinite
  <2>3. IsReach(f[c], {Root}, Leading(edges), Urls)
    BY <1>6, <2>1, <2>2, GrowthEnds
  <2>4. Reached(edges, c) = f[c]
    BY <1>6, <2>1
  <2>5. \A e \in edges : e[1] \in f[c] => e[2] \in f[c]
    <3>1. \A x \in f[c] : Leading(edges)[x] \subseteq f[c] /\ x \in Urls
      BY <2>3 DEF IsReach, ClosedUnder
    <3>2. \A e \in edges : e[2] \in Leading(edges)[e[1]]
      BY DEF Leading
    <3> QED BY <3>1, <3>2
  <2> DEFINE C == Reached(edges, c)
             Below == {k \in Nat : Reached(edges, k) \subseteq C}
  <2>6. 0 \in Below
    <3>1. 0 <= c
      BY <1>6
    <3> HIDE DEF c
    <3> QED BY <1>6, <3>1, ReachedWithin
  <2>7. ASSUME NEW k \in Nat, k \in Below PROVE k + 1 \in Below
    <3>1. Reached(edges, k + 1)
            = Reached(edges, k) \cup {e[2] : e \in {x \in edges : x[1] \in Reached(edges, k)}}
      BY ReachedSteps
    <3>2. \A e \in edges : e[1] \in C => e[2] \in C
      BY <2>4, <2>5
    <3> HIDE DEF C
    <3> QED BY <2>7, <3>1, <3>2
  <2>8. Nat \subseteq Below
    <3> HIDE DEF Below
    <3> QED BY <2>6, <2>7, SetInduction
  <2>9. R \subseteq C
    BY <2>8
  <2>10. C \subseteq R
    BY <1>4, <1>6
  <2> HIDE DEF C
  <2> QED BY <2>9, <2>10 DEF C
<1> HIDE DEF c, R
<1> QED BY <1>5, <1>6, <1>7 DEF c, R

-----------------------------------------------------------------------------
(* What is collected for a remote's list.                                  *)
LEMMA RefsAre ==
    ASSUME NEW refs \in Refs
    PROVE  DOMAIN refs \subseteq ToSet(Names) /\ \A n \in DOMAIN refs : refs[n] \in Commits
  BY DEF Refs

(* What is collected for a list is what is collected for its names.        *)
LEMMA ListMembers ==
    ASSUME NEW kind, NEW refs
    PROVE  /\ ListQueries(kind, refs) \in Seq(ToSet(ListQueries(kind, refs)))
           /\ ToSet(ListQueries(kind, refs)) = UNION {ToSet(QueriesFor(kind, refs, n)) : n \in ToSet(Names)}
<1> DEFINE H == UNION {ToSet(QueriesFor(kind, refs, n)) : n \in ToSet(Names)}
           parts == [i \in DOMAIN Names |-> QueriesFor(kind, refs, Names[i])]
<1>1. ASSUME NEW n \in ToSet(Names) PROVE QueriesFor(kind, refs, n) \in Seq(H)
  <2>1. ToSet(QueriesFor(kind, refs, n)) \subseteq H
    BY <1>1
  <2>2. \A a, b : <<a, b>> \in Seq(ToSet(<<a, b>>)) /\ <<a>> \in Seq(ToSet(<<a>>))
    BY DEF ToSet
  <2>3. << >> \in Seq(ToSet(<< >>))
    OBVIOUS
  <2>4. QueriesFor(kind, refs, n) \in Seq(ToSet(QueriesFor(kind, refs, n)))
    BY <2>2, <2>3 DEF QueriesFor, BranchQueries, TagQueries
  <2> HIDE DEF H
  <2> QED BY <2>1, <2>4, WiderSeq
<1>2. Len(Names) \in Nat /\ DOMAIN Names = 1 .. Len(Names) /\ \A i \in DOMAIN Names : Names[i] \in ToSet(Names)
  BY NamesListed DEF ToSet
<1>3. parts \in Seq(Seq(H)) /\ DOMAIN parts = DOMAIN Names
  <2>1. \A i \in DOMAIN Names : QueriesFor(kind, refs, Names[i]) \in Seq(H)
    BY <1>1, <1>2
  <2> HIDE DEF H
  <2> QED BY <1>2, <2>1
<1>4. FlattenSeq(parts) \in Seq(H) /\ ToSet(FlattenSeq(parts)) = UNION {ToSet(parts[i]) : i \in DOMAIN parts}
  <2> HIDE DEF H, parts
  <2> QED BY <1>3, FlattenMembers
<1>5. UNION {ToSet(parts[i]) : i \in DOMAIN parts} = H
  <2>1. \A i \in DOMAIN Names : parts[i] = QueriesFor(kind, refs, Names[i])
    OBVIOUS
  <2>2. ToSet(Names) = {Names[i] : i \in DOMAIN Names}
    BY DEF ToSet
  <2> HIDE DEF parts
  <2> QED BY <1>3, <2>1, <2>2
<1>6. FlattenSeq(parts) = ListQueries(kind, refs)
  BY DEF ListQueries
<1> HIDE DEF H, parts
<1> QED BY <1>4, <1>5, <1>6 DEF H

(* For a branch: one step that cuts off, one that merges.                  *)
LEMMA BranchSteps ==
    ASSUME NEW refs \in Refs
    PROVE  /\ ListQueries("branch", refs) \in Seq(ToSet(ListQueries("branch", refs)))
           /\ \A q : q \in ToSet(ListQueries("branch", refs)) <=>
                 \E n \in DOMAIN refs :
                    \/ q = DeleteReferences({Commit(c) : c \in MovedAway(n, refs[n])})
                    \/ q = NodeQueries(Reference(n, url), n, refs[n])
<1> DEFINE cutting(n) == DeleteReferences({Commit(c) : c \in MovedAway(n, refs[n])})
           merging(n) == NodeQueries(Reference(n, url), n, refs[n])
<1>1. \A a, b : ToSet(<<a, b>>) = {a, b}
  BY DEF ToSet
<1>2. ToSet(<< >>) = {}
  BY DEF ToSet
<1>3. ASSUME NEW n
      PROVE  ToSet(QueriesFor("branch", refs, n)) =
                IF n \notin DOMAIN refs THEN {}
                ELSE {cutting(n), merging(n)}
  BY <1>1, <1>2 DEF QueriesFor, BranchQueries
<1>4. DOMAIN refs \subseteq ToSet(Names)
  BY RefsAre
<1> HIDE DEF cutting, merging
<1>5. \A q : q \in ToSet(ListQueries("branch", refs)) <=>
               \E n \in DOMAIN refs : q = cutting(n) \/ q = merging(n)
  BY <1>3, <1>4, ListMembers
<1> QED BY <1>5, ListMembers DEF cutting, merging

(* For a tag: one step that merges.                                        *)
LEMMA TagSteps ==
    ASSUME NEW refs \in Refs
    PROVE  /\ ListQueries("tag", refs) \in Seq(ToSet(ListQueries("tag", refs)))
           /\ \A q : q \in ToSet(ListQueries("tag", refs)) <=>
                 \E n \in DOMAIN refs : q = NodeQueries(Tag(n, url), n, refs[n])
<1>1. \A a : ToSet(<<a>>) = {a}
  BY DEF ToSet
<1>2. ToSet(<< >>) = {}
  BY DEF ToSet
<1>3. ASSUME NEW n
      PROVE  ToSet(QueriesFor("tag", refs, n)) =
                IF n \notin DOMAIN refs THEN {} ELSE {NodeQueries(Tag(n, url), n, refs[n])}
  BY <1>1, <1>2 DEF QueriesFor, TagQueries
<1>4. DOMAIN refs \subseteq ToSet(Names)
  BY RefsAre
<1> QED BY <1>3, <1>4, ListMembers

(* What arrives are URLs.                                                  *)
LEMMA ArrivingTyped ==
    ASSUME NEW refs, NEW n, url \in Urls, tracking \in Refs
    PROVE  Arriving(refs, n) \subseteq Seq(Urls)
<1> DEFINE S == IF n \in DOMAIN refs THEN UNION {NamedIn(c, url) : c \in Tree(n)} ELSE {}
<1>1. Tree(n) \subseteq Commits
  BY RefsAre DEF Tree
<1>2. S \subseteq Urls
  BY <1>1, NamedAreUrls
<1>3. Cardinality(S) \in Nat
  <2> HIDE DEF S
  <2> QED BY <1>2, UrlsFinite, FS_Subset, FS_CardinalityType
<1>4. SetToSeqs(S) \subseteq Seq(Urls)
  <2> DEFINE c == Cardinality(S)
  <2>1. c \in Nat
    BY <1>3
  <2> HIDE DEF c, S
  <2>2. \A f \in [1 .. c -> S] : f \in Seq(Urls)
    BY <1>2, <2>1
  <2> QED BY <2>2 DEF SetToSeqs, c
<1> QED BY <1>4 DEF Arriving

(* Whatever the order, what arrives are repositories.                      *)
LEMMA ArrivalsTyped ==
    ASSUME NEW refs, url \in Urls, tracking \in Refs
    PROVE  Arrivals(refs) \subseteq Seq(Urls)
<1> DEFINE N == ToSet(Names)
           T == SUBSET Seq(Urls)
           n == Len(Names)
           longer(S, x) == {s \o t : s \in S, t \in Arriving(refs, x)}
           rule == [p \in T \X N |-> longer(p[1], p[2])]
           Eqn(f) == f = [s \in SUBSET DOMAIN Names |->
                            IF s = {} THEN {<< >>} ELSE longer(f[s \ {Max(s)}], Names[Max(s)])]
           iter == CHOOSE f : Eqn(f)
<1>1. Names \in Seq(N) /\ n \in Nat /\ DOMAIN Names = 1 .. n /\ \A k \in 1 .. n : Names[k] \in N
  <2> HIDE DEF N
  <2> QED BY NamesListed DEF N
<1>2. ASSUME NEW S \in T, NEW x \in N PROVE longer(S, x) \in T
  <2>1. \A s \in S, t \in Arriving(refs, x) : s \o t \in Seq(Urls)
    <3>1. \A s \in S, t \in Arriving(refs, x) : s \in Seq(Urls) /\ t \in Seq(Urls)
      BY <1>2, ArrivingTyped
    <3> QED BY <3>1, ConcatProperties
  <2>2. ASSUME NEW z \in longer(S, x) PROVE z \in Seq(Urls)
    <3>1. \E s \in S, t \in Arriving(refs, x) : z = s \o t
      BY <2>2
    <3> HIDE DEF longer
    <3> QED BY <2>1, <3>1
  <2> HIDE DEF longer
  <2> QED BY <2>2
<1> HIDE DEF longer
<1>3. {<< >>} \in T
  OBVIOUS
<1>4. rule \in [T \X N -> T]
  <2> HIDE DEF T, N
  <2> QED BY <1>2
<1>5. \E f : Eqn(f)
  <2>1. PICK f \in [SUBSET (1 .. n) -> T] : Folds(f, Names, {<< >>}, rule)
    <3> HIDE DEF rule, T, N
    <3> QED BY <1>1, <1>3, <1>4, FoldExists
  <2>2. ASSUME NEW A \in SUBSET (1 .. n), A # {}
        PROVE  f[A] = longer(f[A \ {Max(A)}], Names[Max(A)])
    <3>1. Max(A) \in 1 .. n /\ f[A] = rule[<<f[A \ {Max(A)}], Names[Max(A)]>>]
      BY <2>1, <2>2 DEF Folds
    <3>2. f[A \ {Max(A)}] \in T /\ Names[Max(A)] \in N
      BY <1>1, <2>1, <3>1
    <3> HIDE DEF T, N
    <3> QED BY <3>1, <3>2
  <2>3. f[{}] = {<< >>}
    BY <2>1 DEF Folds
  <2>4. Eqn(f)
    <3> HIDE DEF T, N, rule
    <3> QED BY <1>1, <2>1, <2>2, <2>3
  <2> QED BY <2>4
<1>6. Eqn(iter)
  <2> HIDE DEF Eqn
  <2> QED BY <1>5
<1>7. Arrivals(refs) = iter[DOMAIN Names]
  BY DEF Arrivals, FoldLeft, MapThenFoldSet, longer
<1> HIDE DEF iter
<1> DEFINE Good == {k \in Nat : k <= n => iter[1 .. k] \in T}
<1>8. 0 \in Good
  <2>1. 1 .. 0 = {} /\ {} \in SUBSET DOMAIN Names
    OBVIOUS
  <2>2. iter[{}] = {<< >>}
    BY <1>6, <2>1
  <2>3. iter[1 .. 0] \in T
    BY <1>3, <2>1, <2>2
  <2> HIDE DEF T
  <2> QED BY <2>3
<1>9. ASSUME NEW k \in Nat, k \in Good PROVE k + 1 \in Good
  <2>1. SUFFICES ASSUME k + 1 <= n PROVE iter[1 .. k + 1] \in T
    OBVIOUS
  <2>2. k + 1 \in Nat \ {0} /\ (k + 1) - 1 = k /\ k + 1 \in 1 .. n /\ k <= n
    BY <1>1, <2>1
  <2>3. Max(1 .. k + 1) = k + 1 /\ (1 .. k + 1) \ {k + 1} = 1 .. k /\ 1 .. k + 1 # {}
    BY <2>2, MaxOfPrefix
  <2>4. \A j \in 1 .. k + 1 : j \in DOMAIN Names
    BY <1>1, <2>2
  <2>5. iter[1 .. k + 1] = longer(iter[1 .. k], Names[k + 1])
    BY <1>6, <2>3, <2>4
  <2>6. iter[1 .. k] \in T /\ Names[k + 1] \in N
    BY <1>1, <1>9, <2>2
  <2> HIDE DEF T, N
  <2> QED BY <1>2, <2>5, <2>6
<1>10. Nat \subseteq Good
  <2> HIDE DEF Good
  <2> QED BY <1>8, <1>9, SetInduction
<1>11. iter[1 .. n] \in T
  <2> HIDE DEF n, T
  <2> QED BY <1>1, <1>10
<1> QED BY <1>1, <1>7, <1>11

-----------------------------------------------------------------------------
(* A transaction.                                                          *)
Untouched(l, Q) == \A q \in Q : \A n \in q.cut : ~ Touches(l, n)
Spared(n, Q) == \A q \in Q : n \notin q.gone
NodeMerged(n, Q) == \E q \in Q : n \in q.merged.nodes
LinkMerged(l, Q) == \E q \in Q : l \in q.merged.links
EndsIn(l, S) == {l[1], l[3]} \subseteq S

(* The graph after it: what was there or is merged, and is not cut off.    *)
LEMMA Transaction ==
    ASSUME NEW g, NEW qs, qs \in Seq(ToSet(qs))
    PROVE  LET r == RunQueries(g, qs)
               Q == ToSet(qs)
           IN  /\ \A l \in r.links : EndsIn(l, r.nodes)
               /\ \A l \in r.links : (l \in g.links /\ Untouched(l, Q)) \/ LinkMerged(l, Q)
               /\ \A n : (n \in g.nodes \/ NodeMerged(n, Q)) /\ Spared(n, Q) => n \in r.nodes
               /\ \A l : (l \in g.links \/ LinkMerged(l, Q)) /\ Untouched(l, Q) /\ EndsIn(l, r.nodes)
                            => l \in r.links
<1> DEFINE Q == ToSet(qs)
           Steps(i) == {qs[j] : j \in {k \in DOMAIN qs : k > i}}
           NodesFrom(S, i) == {n \in S : \A q \in Steps(i) : n \notin q.gone}
           LinksFrom(S, i) == {l \in S : \A q \in Steps(i) : \A n \in q.cut : ~Touches(l, n)}
           nodes == NodesFrom(g.nodes, 0) \cup UNION {NodesFrom(qs[i].merged.nodes, i) : i \in DOMAIN qs}
           links == LinksFrom(g.links, 0) \cup UNION {LinksFrom(qs[i].merged.links, i) : i \in DOMAIN qs}
           r == RunQueries(g, qs)
<1>1. r.nodes = nodes /\ r.links = {l \in links : {l[1], l[3]} \subseteq nodes}
  BY DEF RunQueries, Merge
<1>2. Steps(0) = Q /\ \A i \in DOMAIN qs : Steps(i) \subseteq Q /\ qs[i] \in Q
  <2>1. \A i \in DOMAIN qs : i > 0
    OBVIOUS
  <2> QED BY <2>1 DEF ToSet
<1>3. \A q \in Q : \E i \in DOMAIN qs : qs[i] = q
  BY DEF ToSet
<1>4. \A l : l \in LinksFrom(g.links, 0) <=> l \in g.links /\ Untouched(l, Q)
  BY <1>2 DEF Untouched
<1>5. ASSUME NEW i \in DOMAIN qs PROVE \A l \in LinksFrom(qs[i].merged.links, i) : LinkMerged(l, Q)
  <2>1. qs[i] \in Q
    BY <1>2
  <2> QED BY <2>1 DEF LinkMerged
<1>6. \A n : n \in g.nodes /\ Spared(n, Q) => n \in nodes
  <2>1. \A n : n \in g.nodes /\ Spared(n, Q) => n \in NodesFrom(g.nodes, 0)
    BY <1>2 DEF Spared
  <2> HIDE DEF NodesFrom
  <2> QED BY <2>1
<1>7. ASSUME NEW n, NodeMerged(n, Q), Spared(n, Q) PROVE n \in nodes
  <2>1. PICK i \in DOMAIN qs : n \in qs[i].merged.nodes
    BY <1>3, <1>7 DEF NodeMerged
  <2>2. n \in NodesFrom(qs[i].merged.nodes, i)
    BY <1>2, <1>7, <2>1 DEF Spared
  <2> HIDE DEF NodesFrom
  <2> QED BY <2>2
<1>8. ASSUME NEW l, LinkMerged(l, Q), Untouched(l, Q) PROVE l \in links
  <2>1. PICK i \in DOMAIN qs : l \in qs[i].merged.links
    BY <1>3, <1>8 DEF LinkMerged
  <2>2. l \in LinksFrom(qs[i].merged.links, i)
    BY <1>2, <1>8, <2>1 DEF Untouched
  <2> HIDE DEF LinksFrom
  <2> QED BY <2>2
<1>9. \A l \in links : (l \in g.links /\ Untouched(l, Q)) \/ LinkMerged(l, Q)
  <2> HIDE DEF LinksFrom
  <2> QED BY <1>4, <1>5
<1>10. \A l : l \in g.links /\ Untouched(l, Q) => l \in links
  <2> HIDE DEF LinksFrom
  <2> QED BY <1>4
<1> HIDE DEF links, nodes, r, Q
<1>11. \A l \in r.links : EndsIn(l, r.nodes)
  BY <1>1 DEF EndsIn
<1>12. \A l \in r.links : (l \in g.links /\ Untouched(l, Q)) \/ LinkMerged(l, Q)
  BY <1>1, <1>9
<1>13. \A n : (n \in g.nodes \/ NodeMerged(n, Q)) /\ Spared(n, Q) => n \in r.nodes
  BY <1>1, <1>6, <1>7
<1>14. \A l : (l \in g.links \/ LinkMerged(l, Q)) /\ Untouched(l, Q) /\ EndsIn(l, r.nodes) => l \in r.links
  BY <1>1, <1>8, <1>10 DEF EndsIn
<1> QED BY <1>11, <1>12, <1>13, <1>14 DEF r, Q

-----------------------------------------------------------------------------
(* What is merged for a manifest: no link but to what contains it, to what *)
(* it refers to and between repositories and what they have, each with     *)
(* both its ends.                                                          *)
NodesOf(P) == UNION {s.nodes : s \in P}
PartOk(P, m, o, u) ==
    \A s \in P : \A l \in s.links :
        /\ EndsIn(l, NodesOf(P) \cup {Repository(u), Commit(o)})
        /\ l[2] \in {"contains", "has", "refers"}
        /\ l[2] = "contains" => l[1] = Commit(o) /\ l[3] = Manifest(m, o)

(* The nodes and links of each kind of query.                              *)
LEMMA Links ==
    /\ \A m, o : LET s == Contained(m, o) IN
          s.nodes = {Manifest(m, o)} /\ s.links = {<<Commit(o), "contains", Manifest(m, o)>>}
    /\ \A m, o, x : LET s == Refers(m, o, x) IN
          s.nodes = {x} /\ s.links = {<<Manifest(m, o), "refers", x>>}
    /\ \A u, x : LET s == Has(u, x) IN
          s.nodes = {x} /\ s.links = {<<Repository(u), "has", x>>}
    /\ \A v : LET s == Merge({Repository(v)}, {}) IN s.nodes = {Repository(v)} /\ s.links = {}
  BY DEF Contained, Refers, Has, Merge

(* Its members are of four kinds.                                          *)
MemberOk(s, P, m, o, u) ==
    \/ s = Contained(m, o)
    \/ \E v : s = Merge({Repository(v)}, {})
    \/ \E x : s = Refers(m, o, x)
    \/ \E v, x : s = Has(v, x) /\ Repository(v) \in NodesOf(P) \cup {Repository(u)}

(* Queries of these four kinds are as they should be.                      *)
LEMMA PartIs ==
    ASSUME NEW P, NEW m, NEW o, NEW u, Contained(m, o) \in P, \A s \in P : MemberOk(s, P, m, o, u)
    PROVE  PartOk(P, m, o, u)
<1> SUFFICES ASSUME NEW s \in P, NEW l \in s.links
             PROVE  /\ EndsIn(l, NodesOf(P) \cup {Repository(u), Commit(o)})
                    /\ l[2] \in {"contains", "has", "refers"}
                    /\ l[2] = "contains" => l[1] = Commit(o) /\ l[3] = Manifest(m, o)
  BY DEF PartOk
<1>1. s.nodes \subseteq NodesOf(P) /\ Manifest(m, o) \in NodesOf(P)
  BY Links DEF NodesOf
<1>2. CASE s = Contained(m, o)
  <2>1. l = <<Commit(o), "contains", Manifest(m, o)>>
    BY <1>2, Links
  <2>2. l[1] = Commit(o) /\ l[2] = "contains" /\ l[3] = Manifest(m, o)
    BY <2>1
  <2> QED BY <1>1, <2>2 DEF EndsIn
<1>3. ASSUME NEW v, s = Merge({Repository(v)}, {}) PROVE FALSE
  BY <1>3, Links
<1>4. ASSUME NEW x, s = Refers(m, o, x) PROVE EndsIn(l, NodesOf(P) \cup {Repository(u), Commit(o)}) /\ l[2] = "refers"
  <2>1. l = <<Manifest(m, o), "refers", x>> /\ x \in s.nodes
    BY <1>4, Links
  <2>2. l[1] = Manifest(m, o) /\ l[2] = "refers" /\ l[3] = x
    BY <2>1
  <2> QED BY <1>1, <2>1, <2>2 DEF EndsIn
<1>5. ASSUME NEW v, NEW x, s = Has(v, x), Repository(v) \in NodesOf(P) \cup {Repository(u)}
      PROVE  EndsIn(l, NodesOf(P) \cup {Repository(u), Commit(o)}) /\ l[2] = "has"
  <2>1. l = <<Repository(v), "has", x>> /\ x \in s.nodes
    BY <1>5, Links
  <2>2. l[1] = Repository(v) /\ l[2] = "has" /\ l[3] = x
    BY <2>1
  <2> QED BY <1>1, <1>5, <2>1, <2>2 DEF EndsIn
<1>6. CASE \E v : s = Merge({Repository(v)}, {})
  BY <1>3, <1>6
<1>7. CASE \E x : s = Refers(m, o, x)
  BY <1>4, <1>7
<1>8. CASE \E v, x : s = Has(v, x) /\ Repository(v) \in NodesOf(P) \cup {Repository(u)}
  BY <1>5, <1>8
<1> QED BY <1>2, <1>6, <1>7, <1>8 DEF MemberOk

(* So are those of a kas file,                                             *)
LEMMA KasPart ==
    ASSUME NEW m, NEW o, NEW u PROVE PartOk(KasQueries(m, o, u), m, o, u)
<1> DEFINE P == KasQueries(m, o, u)
           Named(r) == {Merge({Repository(v)}, {}) : v \in r.url}
           At(r, n) == Reference(n, KasUrl(r, u))
           Point(r, n) == {Has(KasUrl(r, u), At(r, n)), Refers(m, o, At(r, n))}
<1>1. P = {Contained(m, o)} \cup UNION {Named(r) \cup UNION {Point(r, n) : n \in r.refspec} : r \in m.repos}
  BY DEF KasQueries
<1>2. ASSUME NEW r \in m.repos PROVE Repository(KasUrl(r, u)) \in NodesOf(P) \cup {Repository(u)}
  <2>1. CASE r.url = {}
    BY <2>1 DEF KasUrl, Chosen
  <2>2. CASE r.url # {}
    <3>1. KasUrl(r, u) \in r.url
      BY <2>2 DEF KasUrl, Chosen
    <3>2. Merge({Repository(KasUrl(r, u))}, {}) \in P
      <4>1. Merge({Repository(KasUrl(r, u))}, {}) \in Named(r)
        BY <3>1
      <4> HIDE DEF P, Named, Point
      <4> QED BY <1>1, <4>1
    <3> HIDE DEF P
    <3> QED BY <3>2, Links DEF NodesOf
  <2> QED BY <2>1, <2>2
<1> HIDE DEF P
<1>3. ASSUME NEW s \in P PROVE MemberOk(s, P, m, o, u)
  <2>1. CASE s = Contained(m, o)
    BY <2>1 DEF MemberOk
  <2>2. ASSUME NEW r \in m.repos, s \in Named(r) PROVE MemberOk(s, P, m, o, u)
    BY <2>2 DEF MemberOk
  <2>3. ASSUME NEW r \in m.repos, NEW n \in r.refspec, s \in Point(r, n)
        PROVE  MemberOk(s, P, m, o, u)
    BY <1>2, <2>3 DEF MemberOk
  <2> HIDE DEF Named, Point
  <2> QED BY <1>1, <2>1, <2>2, <2>3
<1>4. Contained(m, o) \in P
  BY <1>1
<1>5. PartOk(P, m, o, u)
  BY <1>3, <1>4, PartIs
<1> QED BY <1>5 DEF P

(* of a recipe                                                             *)
LEMMA BitbakePart ==
    ASSUME NEW m, NEW o, NEW u PROVE PartOk(BitbakeQueries(m, o), m, o, u)
<1> DEFINE P == BitbakeQueries(m, o)
<1>1. P = {Contained(m, o)} \cup {Refers(m, o, Repository(s.url)) : s \in ToSet(SrcUris(m))}
  BY DEF BitbakeQueries
<1> HIDE DEF P
<1>2. Contained(m, o) \in P /\ \A s \in P : MemberOk(s, P, m, o, u)
  BY <1>1 DEF MemberOk
<1>3. PartOk(P, m, o, u)
  BY <1>2, PartIs
<1> QED BY <1>3 DEF P

(* and of a manifest of repo.                                              *)
LEMMA RepoPart ==
    ASSUME NEW m, NEW o, NEW u PROVE PartOk(RepoQueries(m, o, u), m, o, u)
<1> DEFINE P == RepoQueries(m, o, u)
<1>1. P = {Contained(m, o)} \cup UNION {ProjectQueries(m, p, o, u) : p \in ToSet(m.projects)}
  BY DEF RepoQueries
<1> HIDE DEF P
<1>2. ASSUME NEW p \in ToSet(m.projects), NEW s \in ProjectQueries(m, p, o, u)
      PROVE  MemberOk(s, P, m, o, u)
  <2> DEFINE v == GitUrl(m, p, u)
             dest == DestBranch(m, p)
             node == CASE IsCommit(dest) -> Commit(dest.name)
                       [] IsTag(dest) -> Tag(dest.name, v)
                       [] OTHER -> Reference(dest.name, v)
  <2>1. \/ s = Merge({Repository(v)}, {}) \/ s = Refers(m, o, node) \/ s = Has(v, node)
    BY <1>2 DEF ProjectQueries
  <2>2. Merge({Repository(v)}, {}) \in ProjectQueries(m, p, o, u)
    BY DEF ProjectQueries
  <2> HIDE DEF v, node
  <2>3. Merge({Repository(v)}, {}) \in P
    BY <1>1, <2>2
  <2>4. Repository(v) \in NodesOf(P)
    BY <2>3, Links DEF NodesOf
  <2> QED BY <2>1, <2>4 DEF MemberOk
<1>3. Contained(m, o) \in P
  BY <1>1
<1>4. \A s \in P : MemberOk(s, P, m, o, u)
  <2>1. MemberOk(Contained(m, o), P, m, o, u)
    BY DEF MemberOk
  <2> QED BY <1>1, <1>2, <2>1
<1>5. PartOk(P, m, o, u)
  BY <1>3, <1>4, PartIs
<1> QED BY <1>5 DEF P

(* What is found in a tree: a part for each manifest.                      *)
LEMMA TreeParts ==
    ASSUME NEW o, NEW c, NEW s \in TreeQueries(o, c)
    PROVE  \E m \in Manifests[c] : \E P \in SUBSET TreeQueries(o, c) : s \in P /\ PartOk(P, m, o, url)
<1> DEFINE T == TreeQueries(o, c)
           A == UNION {KasQueries(m, o, url) : m \in Found(c, "kas")}
           B == UNION {BitbakeQueries(m, o) : m \in Found(c, "bitbake")}
           C == UNION {RepoQueries(m, o, url) : m \in Found(c, "repo")}
<1>1. /\ \A x \in T : x \in A \/ x \in B \/ x \in C
      /\ \A x : (x \in A \/ x \in B \/ x \in C) => x \in T
  <2>1. \A x \in T : x \in A \/ x \in B \/ x \in C
    BY DEF TreeQueries
  <2>2. \A x \in A : x \in T
    BY DEF TreeQueries
  <2>3. \A x \in B : x \in T
    BY DEF TreeQueries
  <2>4. \A x \in C : x \in T
    BY DEF TreeQueries
  <2> HIDE DEF T, A, B, C
  <2> QED BY <2>1, <2>2, <2>3, <2>4
<1>2. \A k : Found(c, k) \subseteq Manifests[c]
  BY DEF Found
<1>3. CASE s \in A
  <2>1. PICK m \in Found(c, "kas") : s \in KasQueries(m, o, url)
    BY <1>3
  <2>2. KasQueries(m, o, url) \subseteq A
    OBVIOUS
  <2> HIDE DEF T, A
  <2> QED BY <1>1, <1>2, <2>1, <2>2, KasPart DEF T
<1>4. CASE s \in B
  <2>1. PICK m \in Found(c, "bitbake") : s \in BitbakeQueries(m, o)
    BY <1>4
  <2>2. BitbakeQueries(m, o) \subseteq B
    OBVIOUS
  <2> HIDE DEF T, B
  <2> QED BY <1>1, <1>2, <2>1, <2>2, BitbakePart DEF T
<1>5. CASE s \in C
  <2>1. PICK m \in Found(c, "repo") : s \in RepoQueries(m, o, url)
    BY <1>5
  <2>2. RepoQueries(m, o, url) \subseteq C
    OBVIOUS
  <2> HIDE DEF T, C
  <2> QED BY <1>1, <1>2, <2>1, <2>2, RepoPart DEF T
<1> HIDE DEF T, A, B, C
<1> QED BY <1>1, <1>3, <1>4, <1>5 DEF T

(* Nodes are the same only when they are of one kind and name.             *)
LEMMA Tuples ==
    /\ \A c, d : Commit(c) = Commit(d) => c = d
    /\ \A n, u, b, v : Reference(n, u) = Reference(b, v) => n = b /\ u = v
    /\ \A n, u, b, v : Reference(n, u) # Tag(b, v)
    /\ \A n, u, c : Reference(n, u) # Commit(c)
    /\ \A n, u, v : Reference(n, u) # Repository(v)
    /\ \A c, v : Commit(c) # Repository(v)
<1>1. \A c : Commit(c)[1] = "Commit" /\ Commit(c)[2] = c
  BY DEF Commit
<1>2. \A n, u : Reference(n, u)[1] = "Reference" /\ Reference(n, u)[2] = n /\ Reference(n, u)[3] = u
  BY DEF Reference
<1>3. \A b, v : Tag(b, v)[1] = "Tag"
  BY DEF Tag
<1>4. \A v : Repository(v)[1] = "Repository"
  BY DEF Repository
<1>5. \A c, d : Commit(c) = Commit(d) => c = d
  BY <1>1
<1>6. \A n, u, b, v : Reference(n, u) = Reference(b, v) => n = b /\ u = v
  BY <1>2
<1>7. \A n, u, b, v : Reference(n, u) # Tag(b, v)
  BY <1>2, <1>3
<1>8. \A n, u, c : Reference(n, u) # Commit(c)
  BY <1>1, <1>2
<1>9. (\A n, u, v : Reference(n, u) # Repository(v)) /\ (\A c, v : Commit(c) # Repository(v))
  BY <1>1, <1>2, <1>4
<1> QED BY <1>5, <1>6, <1>7, <1>8, <1>9

(* What is collected for a branch or a tag of a list is as it should be,   *)
(* when its commit is among those whose tree may be another's if it is.    *)
IsNode(node, n, refs, r) == (node = Reference(n, url) /\ r = refs) \/ node = Tag(n, url)
RacesIn(refs, rc) ==
    \A n \in DOMAIN refs \cap DOMAIN tracking : refs[n] # tracking[n] => refs[n] \in rc

(* So is the step for a name of the list.                                  *)
LEMMA NodeStep ==
    ASSUME NEW refs \in Refs, NEW n \in DOMAIN refs, NEW node, NEW r, NEW rc,
           IsNode(node, n, refs, r), RacesIn(refs, rc)
    PROVE  LET q == NodeQueries(node, n, refs[n]) IN
               q.cut = {} /\ q.gone = {} /\ MergeOk(q.merged, url, r, rc)
<1> DEFINE o == refs[n]
           q == NodeQueries(node, n, o)
           link == <<Commit(o), "links_to", node>>
           Lk == Merge({Commit(o)}, {link})
           Trees == UNION {{HeadQueries(o, c)} \cup TreeQueries(o, c) : c \in Tree(n)}
           G == {Has(url, node), Lk} \cup Trees
           m == q.merged
<1>1. q.cut = {} /\ q.gone = {} /\ m.nodes = NodesOf(G) /\ m.links = UNION {s.links : s \in G}
  BY DEF NodeQueries, MergeAll, Together, Merge, NodesOf
<1>2. Lk.nodes = {Commit(o)} /\ Lk.links = {link}
  BY DEF Merge
<1>3. \A s \in G : s.nodes \subseteq NodesOf(G)
  <2> HIDE DEF G
  <2> QED BY DEF NodesOf
<1>4. Commit(o) \in NodesOf(G) /\ node \in NodesOf(G)
  <2>1. Lk \in G /\ Has(url, node) \in G
    OBVIOUS
  <2> HIDE DEF G, Lk
  <2> QED BY <1>2, <1>3, <2>1, Links
<1>5. <<Repository(url), "has", node>> \in m.links
  <2>1. Has(url, node) \in G
    OBVIOUS
  <2> HIDE DEF G, m
  <2> QED BY <1>1, <2>1, Links
<1> DEFINE Fine(l) == EndsMerged(l, m, url) /\ OwnContent(l, rc) /\ OwnReference(l, m, url, r)
<1>6. ASSUME NEW l \in Has(url, node).links PROVE Fine(l)
  <2>1. l = <<Repository(url), "has", node>>
    BY <1>6, Links
  <2>2. l[1] = Repository(url) /\ l[2] = "has" /\ l[3] = node
    BY <2>1
  <2> HIDE DEF m, G
  <2> QED BY <1>1, <1>4, <2>2 DEF EndsMerged, OwnContent, OwnReference, LinkedTo
<1>7. ASSUME NEW l \in Lk.links PROVE Fine(l)
  <2>1. l[1] = Commit(o) /\ l[2] = "links_to" /\ l[3] = node
    BY <1>2, <1>7
  <2> HIDE DEF m, G
  <2>2. EndsMerged(l, m, url)
    BY <1>1, <1>4, <2>1 DEF EndsMerged
  <2>3. OwnContent(l, rc)
    BY <2>1 DEF OwnContent
  <2>4. ASSUME NEW b \in ToSet(Names), NEW v \in Urls, LinkedTo(l, b, v)
        PROVE  v = url /\ b \in DOMAIN r /\ l[1] = Commit(r[b]) /\ HasLink(b, v) \in m.links
    <3>1. node = Reference(b, v)
      BY <2>1, <2>4 DEF LinkedTo
    <3>2. node = Reference(n, url) /\ r = refs
      BY <3>1, Tuples DEF IsNode
    <3>3. b = n /\ v = url
      BY <3>1, <3>2, Tuples
    <3> QED BY <1>5, <2>1, <3>2, <3>3 DEF HasLink
  <2> QED BY <2>2, <2>3, <2>4 DEF OwnReference
<1>8. ASSUME NEW c \in Tree(n), NEW l \in HeadQueries(o, c).links PROVE Fine(l)
  <2> DEFINE hd == HeadQueries(o, c)
  <2>1. hd.nodes = {Person(c), Message(c)}
          /\ hd.links = {<<Commit(o), "authored_by", Person(c)>>, <<Commit(o), "has_message", Message(c)>>}
    BY DEF HeadQueries, Merge
  <2>2. l[1] = Commit(o) /\ l[2] \in {"authored_by", "has_message"} /\ l[3] \in hd.nodes
    BY <1>8, <2>1
  <2>3. hd \in G
    OBVIOUS
  <2> HIDE DEF m, G, hd
  <2>4. EndsMerged(l, m, url)
    BY <1>1, <1>3, <1>4, <2>2, <2>3 DEF EndsMerged
  <2> QED BY <2>2, <2>4 DEF OwnContent, OwnReference, LinkedTo
<1>9. ASSUME NEW c \in Tree(n), NEW s \in TreeQueries(o, c), NEW l \in s.links PROVE Fine(l)
  <2>1. PICK mf \in Manifests[c], P \in SUBSET TreeQueries(o, c) : s \in P /\ PartOk(P, mf, o, url)
    BY <1>9, TreeParts
  <2>2. P \subseteq G
    BY <2>1
  <2>3. NodesOf(P) \subseteq NodesOf(G)
    <3> HIDE DEF G
    <3> QED BY <2>2 DEF NodesOf
  <2>4. /\ EndsIn(l, NodesOf(P) \cup {Repository(url), Commit(o)})
        /\ l[2] \in {"contains", "has", "refers"}
        /\ l[2] = "contains" => l[1] = Commit(o) /\ l[3] = Manifest(mf, o)
    BY <1>9, <2>1 DEF PartOk
  <2> HIDE DEF m, G
  <2>5. EndsMerged(l, m, url)
    BY <1>1, <1>4, <2>3, <2>4 DEF EndsMerged, EndsIn
  <2>6. OwnContent(l, rc)
    <3>1. SUFFICES ASSUME NEW d \in Commits, l[1] = Commit(d), l[2] = "contains", d \notin rc
                   PROVE  \E mm \in Manifests[d] : l[3] = Manifest(mm, d)
      BY DEF OwnContent
    <3>2. d = o /\ l[3] = Manifest(mf, d)
      BY <2>4, <3>1, Tuples
    <3>3. n \in DOMAIN tracking /\ c = tracking[n]
      BY DEF Tree
    <3>4. c = d
      BY <3>1, <3>2, <3>3 DEF RacesIn
    <3> QED BY <2>1, <3>2, <3>4
  <2>7. OwnReference(l, m, url, r)
    BY <2>4 DEF OwnReference, LinkedTo
  <2> QED BY <2>5, <2>6, <2>7
<1>10. ASSUME NEW s \in G, NEW l \in s.links PROVE Fine(l)
  <2>1. CASE s \in Trees
    <3>1. PICK c \in Tree(n) : s \in {HeadQueries(o, c)} \cup TreeQueries(o, c)
      BY <2>1
    <3> HIDE DEF Fine
    <3> QED BY <1>8, <1>9, <1>10, <3>1
  <2> HIDE DEF Fine
  <2> QED BY <1>6, <1>7, <1>10, <2>1
<1>11. MergeOk(m, url, r, rc)
  <2> HIDE DEF G, m, Fine
  <2>1. \A l \in m.links : Fine(l)
    BY <1>1, <1>10
  <2> QED BY <2>1 DEF Fine, MergeOk
<1> HIDE DEF m, G
<1> QED BY <1>1, <1>11 DEF m

-----------------------------------------------------------------------------
(* What is collected is as it should be.                                   *)
LEMMA NothingMerged ==
    ASSUME NEW u, NEW r, NEW rc, NEW S PROVE MergeOk(Merge(S, {}), u, r, rc)
  BY DEF MergeOk, Merge

(* A commit whose tree may be another's is remembered as one.              *)
LEMMA Racing ==
    ASSUME NEW refs, Discover(refs)
    PROVE  raced \subseteq raced' /\ RacesIn(refs, raced')
<1>1. raced' = raced \cup {refs[n] : n \in {x \in DOMAIN refs \cap DOMAIN tracking : refs[x] # tracking[x]}}
  BY DEF Discover
<1> QED BY <1>1 DEF RacesIn

(* The graph as it was listed: what of it the transaction will cut off.    *)
LEMMA SameGraph ==
    ASSUME database' = database, url' = url
    PROVE  /\ Left' = {c \in Commits : \E n \in DOMAIN reporting' : c \in MovedAway(n, reporting'[n])}
           /\ Vanished' = BranchesInDb(url) \ DOMAIN reporting'
<1>1. /\ \A n : CommitsInDb(n, url)' = CommitsInDb(n, url)
      /\ BranchesInDb(url)' = BranchesInDb(url)
  BY DEF CommitsInDb, BranchesInDb
<1>2. Left' = {c \in Commits : \E n \in DOMAIN reporting' :
                                   c \in CommitsInDb(n, url)' /\ c # reporting'[n]}
  BY DEF Left, MovedAway
<1>3. Vanished' = BranchesInDb(url)' \ DOMAIN reporting'
  BY DEF Vanished
<1>4. \A n, o, c : c \in MovedAway(n, o) <=> c \in CommitsInDb(n, url) /\ c # o
  BY DEF MovedAway
<1> QED BY <1>1, <1>2, <1>3, <1>4

(* The queries for the branches are as the invariant has them,             *)
LEMMA BranchesCollected ==
    ASSUME RefsInv, IterateThroughBranches
    PROVE  StepsInv'
<1> DEFINE h == heads[url]
           moved(n) == {Commit(c) : c \in MovedAway(n, h[n])}
           first == MergeAll(Merge({Repository(url)}, {}))
           L == ListQueries("branch", h)
           last == DeleteNodes({Reference(n, url) : n \in BranchesInDb(url) \ DOMAIN h})
           all == {first} \cup ToSet(L) \cup {last}
<1>1. h \in Refs /\ url \in Urls /\ database' = database /\ url' = url /\ reporting' = h
        /\ collector' = <<first>> \o L \o <<last>> /\ Discover(h)
  BY DEF RefsInv, IterateThroughBranches, clone
<1>2. /\ Left' = {c \in Commits : \E n \in DOMAIN h : c \in MovedAway(n, h[n])}
      /\ Vanished' = BranchesInDb(url) \ DOMAIN h
  <2> HIDE DEF h
  <2> QED BY <1>1, SameGraph
<1>3. CutCommits' = {Commit(c) : c \in Left'} /\ CutReferences' = {Reference(n, url) : n \in Vanished'}
  BY <1>1 DEF CutCommits, CutReferences
<1>4. \A n \in DOMAIN h : moved(n) \subseteq CutCommits'
  <2>1. \A n, o : MovedAway(n, o) \subseteq Commits
    BY DEF MovedAway, CommitsInDb
  <2>2. \A n \in DOMAIN h : \A c \in MovedAway(n, h[n]) : c \in Left'
    BY <1>2, <2>1
  <2> HIDE DEF h
  <2> QED BY <1>3, <2>2
<1>5. \A x \in CutCommits' : \E n \in DOMAIN h : x \in moved(n)
  <2> HIDE DEF h
  <2> QED BY <1>2, <1>3
<1>6. first.cut = {} /\ first.gone = {} /\ first.merged = Merge({Repository(url)}, {})
  BY DEF MergeAll
<1>7. last.cut = CutReferences' /\ last.gone = CutReferences' /\ last.merged = Merge({}, {})
  BY <1>2, <1>3 DEF DeleteNodes
<1>8. \A S : LET q == DeleteReferences(S) IN q.cut = S /\ q.gone = {} /\ q.merged = Merge({}, {})
  BY DEF DeleteReferences
<1>9. /\ L \in Seq(ToSet(L))
      /\ \A q : q \in ToSet(L) <=>
            \E n \in DOMAIN h : q = DeleteReferences(moved(n)) \/ q = NodeQueries(Reference(n, url), n, h[n])
  BY <1>1, BranchSteps
<1> HIDE DEF h, moved, first, last, L
<1>10. collector' \in Seq(all) /\ ToSet(collector') = all
  <2> DEFINE s == <<first>>
             e == <<last>>
             b == s \o L
  <2>1. s \in Seq(all) /\ L \in Seq(all) /\ e \in Seq(all)
    <3>1. L \in Seq(all)
      BY <1>9, WiderSeq
    <3> QED BY <3>1
  <2>2. ToSet(s) = {first} /\ ToSet(e) = {last}
    BY DEF ToSet
  <2> HIDE DEF all, s, e
  <2>3. b \in Seq(all) /\ ToSet(b) = ToSet(s) \cup ToSet(L)
    BY <2>1, ConcatMembers
  <2> HIDE DEF b
  <2>4. b \o e \in Seq(all) /\ ToSet(b \o e) = ToSet(b) \cup ToSet(e)
    BY <2>1, <2>3, ConcatMembers
  <2>5. collector' = b \o e
    BY <1>1 DEF b, s, e
  <2> QED BY <2>2, <2>3, <2>4, <2>5 DEF all
<1> HIDE DEF all
<1> DEFINE Fine(q) == /\ q.cut \subseteq CutCommits' \cup CutReferences' /\ q.gone \subseteq CutReferences'
                      /\ MergeOk(q.merged, url', reporting', raced')
<1>11. Fine(first) /\ Fine(last)
  BY <1>6, <1>7, NothingMerged
<1>12. ASSUME NEW n \in DOMAIN h PROVE Fine(DeleteReferences(moved(n)))
  BY <1>4, <1>8, <1>12, NothingMerged
<1>13. ASSUME NEW n \in DOMAIN h PROVE Fine(NodeQueries(Reference(n, url), n, h[n]))
  <2>1. IsNode(Reference(n, url), n, h, h) /\ RacesIn(h, raced')
    BY <1>1, Racing DEF IsNode
  <2> DEFINE q == NodeQueries(Reference(n, url), n, h[n])
  <2>2. q.cut = {} /\ q.gone = {} /\ MergeOk(q.merged, url, h, raced')
    BY <1>1, <1>13, <2>1, NodeStep
  <2> HIDE DEF q
  <2>3. Fine(q)
    BY <1>1, <2>2
  <2> QED BY <2>3 DEF q
<1>14. \A q \in all : Fine(q)
  <2>1. \A q \in ToSet(L) : Fine(q)
    <3> HIDE DEF Fine
    <3> QED BY <1>9, <1>12, <1>13
  <2> HIDE DEF Fine
  <2> QED BY <1>11, <2>1 DEF all
<1>15. \A q \in ToSet(collector') : StepOk(q)'
  <2>1. \A q : StepOk(q)' <=> Fine(q)
    BY DEF StepOk
  <2> HIDE DEF Fine
  <2> QED BY <1>10, <1>14, <2>1
<1>16. \E q \in all : Repository(url) \in q.merged.nodes
  <2>1. first \in all /\ Repository(url) \in first.merged.nodes
    BY <1>6 DEF all, Merge
  <2> QED BY <2>1
<1>17. ASSUME NEW x \in CutCommits' \cup CutReferences' PROVE \E q \in all : x \in q.cut
  <2>1. CASE x \in CutReferences'
    <3>1. last \in all
      BY DEF all
    <3> QED BY <1>7, <2>1, <3>1
  <2>2. CASE x \in CutCommits'
    <3>1. PICK n \in DOMAIN h : x \in moved(n)
      BY <1>5, <2>2
    <3>2. DeleteReferences(moved(n)) \in all
      BY <1>9 DEF all
    <3> QED BY <1>8, <3>1, <3>2
  <2> QED BY <1>17, <2>1, <2>2
<1>18. \E q \in ToSet(collector') : Repository(url') \in q.merged.nodes
  BY <1>1, <1>10, <1>16
<1>19. \A x \in CutCommits' \cup CutReferences' : \E q \in ToSet(collector') : x \in q.cut
  BY <1>10, <1>17
<1>20. collector' \in Seq(ToSet(collector'))
  BY <1>10
<1>21. ToSet(collector)' = ToSet(collector')
  BY DEF ToSet
<1> QED BY <1>15, <1>18, <1>19, <1>20, <1>21 DEF StepsInv

(* and those for the tags after them.                                      *)
LEMMA TagsCollected ==
    ASSUME RefsInv, StepsInv, IterateThroughTags
    PROVE  StepsInv'
<1> DEFINE t == tags[url]
           L == ListQueries("tag", t)
           C == ToSet(collector)
           all == C \cup ToSet(L)
<1>1. t \in Refs /\ url \in Urls /\ database' = database /\ url' = url /\ reporting' = reporting
        /\ collector' = collector \o L /\ Discover(t) /\ phase = "branches"
  BY DEF RefsInv, IterateThroughTags, clone
<1>2. /\ collector \in Seq(C) /\ (\A q \in C : StepOk(q))
      /\ (\E q \in C : Repository(url) \in q.merged.nodes)
      /\ \A x \in CutCommits \cup CutReferences : \E q \in C : x \in q.cut
  BY <1>1 DEF StepsInv
<1>3. CutCommits' = CutCommits /\ CutReferences' = CutReferences
  <2>1. Left' = Left /\ Vanished' = Vanished
    BY <1>1, SameGraph DEF Left, Vanished
  <2> QED BY <1>1, <2>1 DEF CutCommits, CutReferences
<1>4. /\ L \in Seq(ToSet(L))
      /\ \A q : q \in ToSet(L) <=> \E n \in DOMAIN t : q = NodeQueries(Tag(n, url), n, t[n])
  BY <1>1, TagSteps
<1>5. raced \subseteq raced' /\ RacesIn(t, raced')
  BY <1>1, Racing
<1> HIDE DEF t, L, C
<1>6. collector' \in Seq(all) /\ ToSet(collector') = all
  <2>1. collector \in Seq(all) /\ L \in Seq(all)
    BY <1>2, <1>4, WiderSeq
  <2> HIDE DEF all
  <2> QED BY <1>1, <2>1, ConcatMembers DEF all, C
<1> DEFINE Fine(q) == /\ q.cut \subseteq CutCommits \cup CutReferences /\ q.gone \subseteq CutReferences
                      /\ MergeOk(q.merged, url, reporting, raced')
<1>7. ASSUME NEW q \in C PROVE Fine(q)
  <2>1. StepOk(q)
    BY <1>2
  <2>2. MergeOk(q.merged, url, reporting, raced')
    <3>1. \A l \in q.merged.links : OwnContent(l, raced) => OwnContent(l, raced')
      BY <1>5 DEF OwnContent
    <3> QED BY <2>1, <3>1 DEF StepOk, MergeOk
  <2> QED BY <2>1, <2>2 DEF StepOk
<1>8. ASSUME NEW n \in DOMAIN t PROVE Fine(NodeQueries(Tag(n, url), n, t[n]))
  <2>1. IsNode(Tag(n, url), n, t, reporting)
    BY DEF IsNode
  <2> DEFINE q == NodeQueries(Tag(n, url), n, t[n])
  <2>2. q.cut = {} /\ q.gone = {} /\ MergeOk(q.merged, url, reporting, raced')
    BY <1>1, <1>5, <1>8, <2>1, NodeStep
  <2> HIDE DEF q
  <2>3. Fine(q)
    BY <2>2
  <2> QED BY <2>3 DEF q
<1>9. \A q \in all : Fine(q)
  <2> HIDE DEF Fine
  <2> QED BY <1>4, <1>7, <1>8
<1>10. \A q \in ToSet(collector') : StepOk(q)'
  <2>1. \A q : Fine(q) => StepOk(q)'
    BY <1>1, <1>3 DEF StepOk
  <2> HIDE DEF Fine, all
  <2> QED BY <1>6, <1>9, <2>1
<1>11. \E q \in ToSet(collector') : Repository(url') \in q.merged.nodes
  BY <1>1, <1>2, <1>6
<1>12. \A x \in CutCommits' \cup CutReferences' : \E q \in ToSet(collector') : x \in q.cut
  BY <1>2, <1>3, <1>6
<1>13. collector' \in Seq(ToSet(collector'))
  BY <1>6
<1>14. ToSet(collector)' = ToSet(collector')
  BY DEF ToSet
<1> QED BY <1>10, <1>11, <1>12, <1>13, <1>14 DEF StepsInv

-----------------------------------------------------------------------------
(* What a transaction makes of the graph: each link that it cuts off is    *)
(* one of a commit that a branch was at or of a branch that is no more.    *)
CutOff(l) == \E x \in CutCommits \cup CutReferences : Touches(l, x)

(* With the queries as they are, nothing else gets lost.                   *)
LEMMA TransactionIs ==
    ASSUME DatabaseInv, StepsInv, phase = "tags"
    PROVE  LET r == RunQueries(database, collector)
               Q == ToSet(collector)
           IN  /\ \A l \in r.links : EndsIn(l, r.nodes)
               /\ \A l \in r.links : (l \in database.links /\ ~ CutOff(l)) \/ LinkMerged(l, Q)
               /\ \A l : (l \in database.links \/ LinkMerged(l, Q)) /\ ~ CutOff(l) => l \in r.links
<1> DEFINE r == RunQueries(database, collector)
           Q == ToSet(collector)
<1>1. /\ collector \in Seq(Q) /\ (\A q \in Q : StepOk(q))
      /\ (\E q \in Q : Repository(url) \in q.merged.nodes)
      /\ \A x \in CutCommits \cup CutReferences : \E q \in Q : x \in q.cut
  BY DEF StepsInv
<1>2. /\ \A l \in r.links : EndsIn(l, r.nodes)
      /\ \A l \in r.links : (l \in database.links /\ Untouched(l, Q)) \/ LinkMerged(l, Q)
      /\ \A n : (n \in database.nodes \/ NodeMerged(n, Q)) /\ Spared(n, Q) => n \in r.nodes
      /\ \A l : (l \in database.links \/ LinkMerged(l, Q)) /\ Untouched(l, Q) /\ EndsIn(l, r.nodes)
                   => l \in r.links
  BY <1>1, Transaction
<1> HIDE DEF r, Q
<1>3. \A l : Untouched(l, Q) => ~ CutOff(l)
  BY <1>1 DEF Untouched, CutOff
<1>4. \A l : ~ CutOff(l) => Untouched(l, Q)
  <2>1. \A q \in Q : q.cut \subseteq CutCommits \cup CutReferences
    BY <1>1 DEF StepOk
  <2> QED BY <2>1 DEF Untouched, CutOff
<1>5. \A n : n \notin CutReferences => Spared(n, Q)
  BY <1>1 DEF StepOk, Spared
<1>6. NodeMerged(Repository(url), Q)
  BY <1>1 DEF NodeMerged
<1>7. ASSUME NEW l, ~ CutOff(l), l \in database.links \/ LinkMerged(l, Q) PROVE l \in r.links
  <2>1. l[1] \notin CutReferences /\ l[3] \notin CutReferences
    BY <1>7 DEF CutOff, Touches
  <2>2. CASE l \in database.links
    <3>1. l[1] \in database.nodes /\ l[3] \in database.nodes
      BY <2>2 DEF DatabaseInv
    <3>2. EndsIn(l, r.nodes)
      BY <1>2, <1>5, <2>1, <3>1 DEF EndsIn
    <3> QED BY <1>2, <1>4, <1>7, <2>2, <3>2
  <2>3. CASE LinkMerged(l, Q)
    <3>1. PICK q \in Q : l \in q.merged.links
      BY <2>3 DEF LinkMerged
    <3>2. EndsMerged(l, q.merged, url)
      BY <1>1, <3>1 DEF StepOk, MergeOk
    <3>3. NodeMerged(l[1], Q) /\ NodeMerged(l[3], Q)
      BY <1>6, <3>1, <3>2 DEF EndsMerged, NodeMerged
    <3>4. EndsIn(l, r.nodes)
      BY <1>2, <1>5, <2>1, <3>3 DEF EndsIn
    <3> QED BY <1>2, <1>4, <1>7, <2>3, <3>4
  <2> QED BY <1>7, <2>2, <2>3
<1>8. \A l \in r.links : (l \in database.links /\ ~ CutOff(l)) \/ LinkMerged(l, Q)
  BY <1>2, <1>3
<1> QED BY <1>2, <1>7, <1>8 DEF r, Q

(* What a transaction merges, and what survives it with what.              *)
LEMMA MergedIs ==
    ASSUME StepsInv, phase = "tags", NEW l, LinkMerged(l, ToSet(collector))
    PROVE  /\ OwnContent(l, raced)
           /\ \A n \in ToSet(Names), u \in Urls : LinkedTo(l, n, u) =>
                 /\ u = url /\ n \in DOMAIN reporting /\ l[1] = Commit(reporting[n])
                 /\ LinkMerged(HasLink(n, u), ToSet(collector))
<1>1. PICK q \in ToSet(collector) : l \in q.merged.links
  BY DEF LinkMerged
<1>2. OwnContent(l, raced) /\ OwnReference(l, q.merged, url, reporting)
  BY <1>1 DEF StepsInv, StepOk, MergeOk
<1> QED BY <1>1, <1>2 DEF OwnReference, LinkMerged

(* A repository loses none but the branches that are no more.              *)
LEMMA HasLinkCut ==
    ASSUME NEW n, NEW u, CutOff(HasLink(n, u))
    PROVE  u = url /\ n \in Vanished /\ Reference(n, u) \in CutReferences
<1>1. HasLink(n, u)[1] = Repository(u) /\ HasLink(n, u)[3] = Reference(n, u)
  BY DEF HasLink
<1>2. PICK x \in CutCommits \cup CutReferences : x = Repository(u) \/ x = Reference(n, u)
  BY <1>1 DEF CutOff, Touches
<1>3. x \notin CutCommits
  BY <1>2, Tuples DEF CutCommits
<1>4. PICK b \in Vanished : x = Reference(b, url)
  BY <1>2, <1>3 DEF CutReferences
<1> QED BY <1>2, <1>3, <1>4, Tuples

(* The link of a branch.                                                   *)
LEMMA LinkOf ==
    ASSUME NEW n, NEW u, NEW c
    PROVE  LET l == <<Commit(c), "links_to", Reference(n, u)>> IN
           LinkedTo(l, n, u) /\ l[1] = Commit(c) /\ l[3] = Reference(n, u)
  BY DEF LinkedTo

(* Commits are cut off from a branch that they are linked to, and that was *)
(* at them.                                                                *)
LEMMA LeftIs ==
    ASSUME RefsInv, DatabaseInv, ReferencesCurrent, phase = "tags", NEW c \in Left
    PROVE  \E n \in DOMAIN reported[url] \cap DOMAIN reporting :
               url \in DOMAIN reported /\ c = reported[url][n] /\ c # reporting[n]
<1>1. url \in Urls /\ reporting \in Refs
  BY DEF RefsInv
<1>2. PICK n \in DOMAIN reporting : c \in MovedAway(n, reporting[n])
  BY DEF Left
<1> DEFINE l == <<Commit(c), "links_to", Reference(n, url)>>
<1>3. l \in database.links /\ c \in CommitsInDb(n, url) /\ c # reporting[n]
  BY <1>2 DEF MovedAway, CommitsInDb
<1>4. LinkedTo(l, n, url)
  BY LinkOf
<1>5. n \in ToSet(Names)
  BY <1>1, RefsAre
<1> HIDE DEF l
<1>6. url \in DOMAIN reported
  BY <1>1, <1>3, <1>4, <1>5 DEF DatabaseInv
<1>7. CommitsInDb(n, url) \subseteq (IF n \in DOMAIN reported[url] THEN {reported[url][n]} ELSE {})
  BY <1>5, <1>6 DEF ReferencesCurrent
<1> QED BY <1>3, <1>6, <1>7

(* What holds of the graph holds after the transaction.                    *)
LEMMA TransactionKeeps ==
    ASSUME RefsInv, QueuesInv, PlacesInv, DatabaseInv, StepsInv, LossInv, ReferencesCurrent, ManifestsOfCommit,
           TxnRunQueries
    PROVE  DatabaseInv' /\ LossInv' /\ ReferencesCurrent' /\ ManifestsOfCommit'
<1> DEFINE r == RunQueries(database, collector)
           Q == ToSet(collector)
<1>1. /\ phase = "tags" /\ phase' = "take" /\ url \in Urls /\ url' = url /\ raced' = raced
      /\ reporting \in Refs /\ reporting' = reporting /\ DOMAIN reported \subseteq Urls
      /\ database' = r
  BY DEF RefsInv, TxnRunQueries, clone
<1>2. /\ DOMAIN reported' = DOMAIN reported \cup {url}
      /\ reported'[url] = reporting
      /\ \A u \in DOMAIN reported : u # url => reported'[u] = reported[u]
  BY DEF TxnRunQueries
<1>3. /\ \A l \in r.links : EndsIn(l, r.nodes)
      /\ \A l \in r.links : (l \in database.links /\ ~ CutOff(l)) \/ LinkMerged(l, Q)
      /\ \A l : (l \in database.links \/ LinkMerged(l, Q)) /\ ~ CutOff(l) => l \in r.links
  BY <1>1, TransactionIs
<1>4. \A l : LinkMerged(l, Q) => OwnContent(l, raced)
  BY <1>1, MergedIs
<1>5. ASSUME NEW l, LinkMerged(l, Q), NEW n \in ToSet(Names), NEW u \in Urls, LinkedTo(l, n, u)
      PROVE  /\ u = url /\ n \in DOMAIN reporting /\ l[1] = Commit(reporting[n])
             /\ LinkMerged(HasLink(n, u), Q)
  BY <1>1, <1>5, MergedIs
<1> HIDE DEF r, Q
<1>6. DatabaseInv'
  <2>1. \A l \in r.links : {l[1], l[3]} \subseteq r.nodes
    BY <1>3 DEF EndsIn
  <2>2. ASSUME NEW l \in r.links, NEW n \in ToSet(Names), NEW u \in Urls, LinkedTo(l, n, u)
        PROVE  HasLink(n, u) \in r.links /\ u \in DOMAIN reported'
    <3>1. CASE LinkMerged(l, Q)
      <4>1. u = url /\ n \in DOMAIN reporting /\ LinkMerged(HasLink(n, u), Q)
        BY <1>5, <2>2, <3>1
      <4>2. ~ CutOff(HasLink(n, u))
        BY <4>1, HasLinkCut DEF Vanished
      <4> QED BY <1>2, <1>3, <4>1, <4>2
    <3>2. CASE l \in database.links /\ ~ CutOff(l)
      <4>1. HasLink(n, u) \in database.links /\ u \in DOMAIN reported
        BY <2>2, <3>2 DEF DatabaseInv
      <4>2. ~ CutOff(HasLink(n, u))
        <5>1. Touches(l, Reference(n, u))
          BY <2>2 DEF LinkedTo, Touches
        <5> QED BY <3>2, <5>1, HasLinkCut DEF CutOff
      <4> QED BY <1>2, <1>3, <4>1, <4>2
    <3> QED BY <1>3, <3>1, <3>2
  <2>3. DatabaseInv' <=>
          /\ \A l \in r.links : {l[1], l[3]} \subseteq r.nodes
          /\ \A l \in r.links : \A n \in ToSet(Names), u \in Urls :
                LinkedTo(l, n, u) => HasLink(n, u) \in r.links /\ u \in DOMAIN reported'
    BY <1>1 DEF DatabaseInv
  <2> QED BY <2>1, <2>2, <2>3
<1>7. ReferencesCurrent'
  <2>1. ASSUME NEW u \in DOMAIN reported', NEW n \in ToSet(Names), NEW c \in Commits,
               <<Commit(c), "links_to", Reference(n, u)>> \in r.links
        PROVE  n \in DOMAIN reported'[u] /\ c = reported'[u][n]
    <3> DEFINE l == <<Commit(c), "links_to", Reference(n, u)>>
    <3>1. LinkedTo(l, n, u) /\ l[1] = Commit(c) /\ l[3] = Reference(n, u) /\ l \in r.links /\ u \in Urls
      BY <1>1, <1>2, <2>1, LinkOf
    <3>2. CASE LinkMerged(l, Q)
      <4> HIDE DEF l
      <4>1. u = url /\ n \in DOMAIN reporting /\ l[1] = Commit(reporting[n])
        BY <1>5, <2>1, <3>1, <3>2
      <4>2. c = reporting[n]
        BY <3>1, <4>1, Tuples
      <4> QED BY <1>2, <4>1, <4>2
    <3>3. CASE l \in database.links /\ ~ CutOff(l)
      <4>1. c \in CommitsInDb(n, u)
        BY <3>3 DEF CommitsInDb
      <4> HIDE DEF l
      <4>2. CASE u # url
        <5>1. u \in DOMAIN reported /\ reported'[u] = reported[u]
          BY <1>2, <4>2
        <5>2. CommitsInDb(n, u) \subseteq (IF n \in DOMAIN reported[u] THEN {reported[u][n]} ELSE {})
          BY <5>1 DEF ReferencesCurrent
        <5> QED BY <4>1, <5>1, <5>2
      <4>3. CASE u = url
        <5>1. HasLink(n, u) \in database.links
          BY <2>1, <3>1, <3>3 DEF DatabaseInv
        <5>2. n \in BranchesInDb(url)
          BY <4>3, <5>1 DEF BranchesInDb, HasLink
        <5>3. n \in DOMAIN reporting
          <6>1. n \notin DOMAIN reporting => Reference(n, url) \in CutReferences
            BY <5>2 DEF CutReferences, Vanished
          <6> QED BY <3>1, <3>3, <4>3, <6>1 DEF CutOff, Touches
        <5>4. c = reporting[n]
          <6>1. c # reporting[n] => c \in Left
            BY <4>1, <4>3, <5>3 DEF Left, MovedAway
          <6>2. c \in Left => Commit(c) \in CutCommits
            BY DEF CutCommits
          <6> QED BY <3>1, <3>3, <6>1, <6>2 DEF CutOff, Touches
        <5> QED BY <1>2, <4>3, <5>3, <5>4
      <4> QED BY <4>2, <4>3
    <3> QED BY <1>3, <3>1, <3>2, <3>3
  <2>2. \A u, n : CommitsInDb(n, u)' = {c \in Commits : <<Commit(c), "links_to", Reference(n, u)>> \in r.links}
    BY <1>1 DEF CommitsInDb
  <2>3. ASSUME NEW u \in DOMAIN reported', NEW n \in ToSet(Names), NEW c \in CommitsInDb(n, u)'
        PROVE  n \in DOMAIN reported'[u] /\ c = reported'[u][n]
    <3>1. c \in Commits /\ <<Commit(c), "links_to", Reference(n, u)>> \in r.links
      BY <2>2, <2>3
    <3> QED BY <2>1, <3>1
  <2>4. \A u \in DOMAIN reported' : \A n \in ToSet(Names) :
            CommitsInDb(n, u)' \subseteq (IF n \in DOMAIN reported'[u] THEN {reported'[u][n]} ELSE {})
    BY <2>3
  <2> QED BY <2>4 DEF ReferencesCurrent
<1>8. ManifestsOfCommit'
  <2>1. ASSUME NEW c \in Commits, c \notin raced, NEW l \in r.links, l[1] = Commit(c), l[2] = "contains"
        PROVE  \E m \in Manifests[c] : l[3] = Manifest(m, c)
    <3>1. CASE LinkMerged(l, Q)
      BY <1>4, <2>1, <3>1 DEF OwnContent
    <3>2. CASE l \in database.links
      BY <2>1, <3>2 DEF ManifestsOfCommit
    <3> QED BY <1>3, <3>1, <3>2
  <2> QED BY <1>1, <2>1 DEF ManifestsOfCommit
<1>9. LossInv'
  <2>1. Entered' = Entered \cup {url} /\ url \notin Entered /\ Entered \subseteq DOMAIN reported
          /\ \A l \in written \ database.links : Lost(l)
    <3>1. visited' = Append(visited, url)
      BY DEF TxnRunQueries
    <3>2. ToSet(visited') = ToSet(visited) \cup {url}
      BY <1>1, <3>1, Appending DEF QueuesInv
    <3>3. AtHand = {url}
      BY <1>1 DEF AtHand
    <3> QED BY <1>1, <3>2, <3>3 DEF Entered, PlacesInv, LossInv
  <2>2. \A u \in Entered : u \in DOMAIN reported /\ reported'[u] = reported[u]
    BY <1>2, <2>1
  <2>3. left \subseteq left'
          /\ \A n \in DOMAIN reported[url] \cap DOMAIN reporting :
                url \in DOMAIN reported /\ reported[url][n] # reporting[n] => reported[url][n] \in left'
    <3>1. left' = left \cup {Before(url)[n] : n \in
                      {x \in DOMAIN Before(url) \cap DOMAIN reporting : Before(url)[x] # reporting[x]}}
      BY DEF TxnRunQueries
    <3>2. url \in DOMAIN reported => Before(url) = reported[url]
      BY DEF Before
    <3> QED BY <3>1, <3>2
  <2> DEFINE LostNow(l) ==
                 \/ \E c \in left' : Touches(l, Commit(c))
                 \/ \E u \in Entered' : \E n \in ToSet(Names) \ DOMAIN reported'[u] : Touches(l, Reference(n, u))
  <2>4. ASSUME NEW l, Lost(l) PROVE LostNow(l)
    <3>1. CASE \E c \in left : Touches(l, Commit(c))
      BY <2>3, <3>1
    <3>2. CASE \E u \in Entered : \E n \in ToSet(Names) \ DOMAIN reported[u] : Touches(l, Reference(n, u))
      BY <2>1, <2>2, <3>2
    <3> QED BY <2>4, <3>1, <3>2 DEF Lost
  <2>5. ASSUME NEW l, CutOff(l) PROVE LostNow(l)
    <3>1. PICK x \in CutCommits \cup CutReferences : Touches(l, x)
      BY <2>5 DEF CutOff
    <3>2. CASE x \in CutCommits
      <4>1. PICK c \in Left : x = Commit(c)
        BY <3>2 DEF CutCommits
      <4>2. c \in left'
        BY <1>1, <2>3, LeftIs
      <4> QED BY <3>1, <4>1, <4>2
    <3>3. CASE x \in CutReferences
      <4>1. PICK n \in Vanished : x = Reference(n, url)
        BY <3>3 DEF CutReferences
      <4>2. n \in ToSet(Names) \ DOMAIN reported'[url]
        BY <1>2 DEF Vanished, BranchesInDb
      <4> QED BY <2>1, <3>1, <4>1, <4>2
    <3> QED BY <3>1, <3>2, <3>3
  <2>6. ASSUME NEW l \in written', l \notin r.links PROVE Lost(l) \/ CutOff(l)
    <3>1. written' = written \cup UNION {q.merged.links : q \in Q}
      BY DEF TxnRunQueries, Q
    <3>2. l \in written \/ LinkMerged(l, Q)
      BY <3>1 DEF LinkMerged
    <3> QED BY <1>3, <2>1, <2>6, <3>2
  <2>7. \A l \in written' \ r.links : LostNow(l)
    <3> HIDE DEF LostNow
    <3> QED BY <2>4, <2>5, <2>6
  <2>8. LossInv' <=> (phase' # "crashed" =>
                          Entered' \subseteq DOMAIN reported' /\ \A l \in written' \ database'.links : LostNow(l))
    BY DEF LossInv, Lost
  <2> HIDE DEF LostNow
  <2> QED BY <1>1, <1>2, <2>1, <2>7, <2>8
<1> QED BY <1>6, <1>7, <1>8, <1>9

-----------------------------------------------------------------------------
(* The repositories, and the clone of the one at hand.                     *)
LEMMA MovedTyped ==
    ASSUME NEW refs \in [Urls -> Refs], NEW m \in Moves
    PROVE  Moved(refs, m) \in [Urls -> Refs]
<1> DEFINE old == refs[m.url]
           D == (DOMAIN old \ {m.name}) \cup (IF m.to = {} THEN {} ELSE {m.name})
           new == [n \in D |-> IF n = m.name THEN CHOOSE c \in m.to : TRUE ELSE old[n]]
<1>1. m.url \in Urls /\ m.name \in ToSet(Names) /\ m.to \subseteq Commits
  BY MovesTyped
<1>2. DOMAIN old \subseteq ToSet(Names) /\ \A n \in DOMAIN old : old[n] \in Commits
  <2>1. old \in Refs
    BY <1>1
  <2> HIDE DEF old
  <2> QED BY <2>1, RefsAre
<1>3. D \in SUBSET ToSet(Names)
  BY <1>1, <1>2
<1>4. \A n \in D : (IF n = m.name THEN CHOOSE c \in m.to : TRUE ELSE old[n]) \in Commits
  BY <1>1, <1>2
<1>5. new \in Refs
  <2>1. new \in [D -> Commits]
    BY <1>4
  <2> HIDE DEF new, D
  <2> QED BY <1>3, <2>1 DEF Refs
<1>6. Moved(refs, m) = [refs EXCEPT ![m.url] = new]
  BY DEF Moved
<1> HIDE DEF new
<1> QED BY <1>1, <1>5, <1>6

(* An object store holds commits.                                          *)
LEMMA StoredTyped ==
    ASSUME NEW u \in Urls, heads \in [Urls -> Refs], tags \in [Urls -> Refs]
    PROVE  Stored(u) \subseteq Commits
<1>1. heads[u] \in Refs /\ tags[u] \in Refs
  OBVIOUS
<1>2. \A c \in {heads[u][n] : n \in DOMAIN heads[u]} \cup {tags[u][n] : n \in DOMAIN tags[u]} : c \in Commits
  BY <1>1, RefsAre
<1>3. \A c \in Commits : Ancestry[c] \subseteq Commits
  BY AncestryTyped
<1> QED BY <1>2, <1>3 DEF Stored

HandPhases == {"opened", "updated", "mapped", "branches", "tags"}

(* The types of the repositories and of the clone are kept.                *)
LEMMA RefsStep ==
    ASSUME RefsInv, QueuesInv, [GitGraphNext]_crawlVars
    PROVE  RefsInv'
<1>1. /\ heads \in [Urls -> Refs] /\ tags \in [Urls -> Refs]
      /\ url \in Urls /\ objects \subseteq Commits
      /\ phase \in {"take", "opened", "updated", "mapped", "branches", "tags", "done", "crashed"}
      /\ phase \in HandPhases => tracking \in Refs
      /\ phase \in {"branches", "tags"} => reporting \in Refs
      /\ DOMAIN reported \subseteq Urls /\ \A u \in DOMAIN reported : reported[u] \in Refs
  BY DEF RefsInv, AtHand, HandPhases
<1> DEFINE Goal ==
      /\ heads' \in [Urls -> Refs] /\ tags' \in [Urls -> Refs]
      /\ url' \in Urls /\ objects' \subseteq Commits
      /\ phase' \in {"take", "opened", "updated", "mapped", "branches", "tags", "done", "crashed"}
      /\ phase' \in HandPhases => tracking' \in Refs
      /\ phase' \in {"branches", "tags"} => reporting' \in Refs
      /\ DOMAIN reported' \subseteq Urls /\ \A u \in DOMAIN reported' : reported'[u] \in Refs
<1>2. ASSUME Goal PROVE RefsInv'
  BY <1>2 DEF RefsInv, AtHand, HandPhases
<1>3. CASE Open
  <2>1. url' \in Urls
    <3>1. queue.items # << >> /\ queue.items \in Seq(Urls) /\ url' = Head(queue.items)
      BY <1>3 DEF Open, QueuesInv, QueueOk, Queues
    <3> QED BY <3>1
  <2>2. objects' \subseteq Commits /\ tracking' \in Refs
    BY <1>1, <1>3, <2>1, StoredTyped DEF Open
  <2>3. Goal
    BY <1>1, <1>3, <2>1, <2>2 DEF Open, world, memory
  <2> QED BY <1>2, <2>3
<1>4. CASE UpdateFromRemote
  <2>1. Goal
    BY <1>1, <1>4, StoredTyped DEF UpdateFromRemote, world, memory, HandPhases
  <2> QED BY <1>2, <2>1
<1>5. CASE IterateThroughBranches
  <2>1. Goal
    BY <1>1, <1>5 DEF IterateThroughBranches, world, clone, memory, HandPhases
  <2> QED BY <1>2, <2>1
<1>6. CASE IterateThroughTags
  <2>1. Goal
    BY <1>1, <1>6 DEF IterateThroughTags, world, clone, memory, HandPhases
  <2> QED BY <1>2, <2>1
<1>7. CASE TxnRunQueries
  <2>1. /\ DOMAIN reported' = DOMAIN reported \cup {url}
        /\ \A u \in DOMAIN reported' : reported'[u] = IF u = url THEN reporting ELSE reported[u]
    BY <1>7 DEF TxnRunQueries
  <2>2. UNCHANGED <<heads, tags, url, objects>> /\ phase' = "take" /\ phase = "tags"
    BY <1>7 DEF TxnRunQueries, world, clone
  <2>3. Goal
    BY <1>1, <2>1, <2>2 DEF HandPhases
  <2> QED BY <1>2, <2>3
<1>8. CASE Push
  <2>1. UNCHANGED <<url, tracking, objects, phase, reporting, reported>>
    BY <1>8 DEF Push, clone, memory
  <2>2. heads' \in [Urls -> Refs] /\ tags' \in [Urls -> Refs]
    BY <1>1, <1>8, MovedTyped DEF Push
  <2>3. Goal
    BY <1>1, <2>1, <2>2
  <2> QED BY <1>2, <2>3
<1>9. CASE Forget \/ MapRemoteBranchesLocal \/ Finish \/ Fail \/ RunAgain
  <2>1. UNCHANGED <<heads, tags, url, tracking, objects, reporting, reported>>
    BY <1>9 DEF Forget, MapRemoteBranchesLocal, Finish, Fail, RunAgain, world, clone, memory
  <2>2. phase' \in {phase, "take", "mapped", "crashed", "done"}
    BY <1>9 DEF Forget, MapRemoteBranchesLocal, Finish, Fail, RunAgain
  <2>3. phase' = "mapped" => phase \in HandPhases
    BY <1>9 DEF Forget, MapRemoteBranchesLocal, Finish, Fail, RunAgain, HandPhases
  <2>4. Goal
    BY <1>1, <2>1, <2>2, <2>3 DEF HandPhases
  <2> QED BY <1>2, <2>4
<1>10. CASE UNCHANGED crawlVars
  <2>1. Goal
    BY <1>1, <1>10 DEF crawlVars, world, clone, memory
  <2> QED BY <1>2, <2>1
<1> HIDE DEF Goal
<1> QED BY <1>3, <1>4, <1>5, <1>6, <1>7, <1>8, <1>9, <1>10 DEF GitGraphNext, Crawl

(* What none but the transaction changes.                                  *)
LEMMA GraphKept ==
    ASSUME DatabaseInv, LossInv, ReferencesCurrent, ManifestsOfCommit,
           UNCHANGED <<database, memory>>, raced \subseteq raced', phase = "crashed" => phase' = "crashed"
    PROVE  DatabaseInv' /\ LossInv' /\ ReferencesCurrent' /\ ManifestsOfCommit'
<1>1. UNCHANGED <<database, reported, visited, written, left>>
  BY DEF memory
<1>2. DatabaseInv'
  BY <1>1 DEF DatabaseInv
<1>3. LossInv'
  <2>1. Entered' = Entered /\ \A l : Lost(l)' <=> Lost(l)
    BY <1>1 DEF Entered, Lost
  <2> QED BY <1>1, <2>1 DEF LossInv
<1>4. ReferencesCurrent'
  <2>1. \A n, u : CommitsInDb(n, u)' = CommitsInDb(n, u)
    BY <1>1 DEF CommitsInDb
  <2> QED BY <1>1, <2>1 DEF ReferencesCurrent
<1>5. ManifestsOfCommit'
  BY <1>1 DEF ManifestsOfCommit
<1> QED BY <1>2, <1>3, <1>4, <1>5

-----------------------------------------------------------------------------
(* The search through the levels.                                          *)
LEMMA Starting ==
    ASSUME NEW q, q = Add(NewQueue, <<Root>>)
    PROVE  QueueOk(q) /\ q.dict = {Root} /\ ToSet(q.items) = {Root} /\ q.items # << >>
<1> DEFINE us == <<Root>>
<1>1. us \in Seq(Urls) /\ ToSet(us) = {Root}
  BY UrlsFinite DEF ToSet
<1> DEFINE new == NewQueue
<1>2. QueueOk(new) /\ new.dict = {} /\ ToSet(new.items) = {}
  BY NewQueueOk
<1> HIDE DEF new, us
<1>4. /\ QueueOk(Add(new, us)) /\ Add(new, us).dict = new.dict \cup ToSet(us)
      /\ ToSet(Add(new, us).items) = ToSet(new.items) \cup (ToSet(us) \ new.dict)
  BY <1>1, <1>2, AddResult
<1>3. ToSet(<< >>) = {}
  BY DEF ToSet
<1>5. q = Add(new, us)
  BY DEF us, new
<1> HIDE DEF us
<1>6. q.dict = {Root} /\ ToSet(q.items) = {Root}
  BY <1>1, <1>2, <1>4, <1>5
<1> QED BY <1>3, <1>4, <1>5, <1>6

(* An empty queue.                                                         *)
LEMMA NoneWaiting ==
    ASSUME NEW q, QueueOk(q)
    PROVE  q.items = << >> <=> ToSet(q.items) = {}
<1>1. q.items \in Seq(Urls)
  BY DEF QueueOk, Queues
<1>2. q.items # << >> => q.items[1] \in ToSet(q.items)
  BY <1>1 DEF ToSet
<1>3. q.items = << >> => ToSet(q.items) = {}
  BY DEF ToSet
<1> QED BY <1>2, <1>3

(* The part of the invariant that holds while a crawl lasts, and the one   *)
(* step to it from what the variables are in the next state.               *)
CrawlOk == PlacesInv /\ (WithinDepth => LevelInv) /\ (~ WithinDepth => BeyondInv)

(* A step that does not touch the queues keeps the search.                 *)
LEMMA SearchKept ==
    ASSUME SearchInv, UNCHANGED <<levels, max_depth, visited, found>>,
           phase = "crashed" => phase' = "crashed",
           phase' # "crashed" => (AtHand' = AtHand
                                  /\ (phase' = "done" => queue.items = << >>)
                                  /\ (phase' \in {"take", "done"} => phase \in {"take", "done"}))
    PROVE  SearchInv'
<1>1. UNCHANGED <<queue, iteration_queue, current_depth, max_depth, visited, found>>
  BY DEF levels
<1>2. QueuesInv'
  BY <1>1 DEF SearchInv, QueuesInv
<1>3. ASSUME phase' # "crashed" PROVE CrawlOk'
  <2>1. CrawlOk /\ AtHand' = AtHand
    BY <1>3 DEF SearchInv, CrawlOk
  <2>2. UNCHANGED <<WithinDepth, Entered, Queued>>
    BY <1>1 DEF WithinDepth, Entered, Queued
  <2>3. PlacesInv'
    BY <1>1, <1>3, <2>1, <2>2 DEF PlacesInv, CrawlOk
  <2>4. LevelInv' <=> LevelInv
    BY <1>1, <2>1, <2>2 DEF LevelInv
  <2>5. BeyondInv' <=> BeyondInv
    BY <1>1, <2>2 DEF BeyondInv
  <2> QED BY <2>1, <2>2, <2>3, <2>4, <2>5 DEF CrawlOk
<1> QED BY <1>2, <1>3 DEF SearchInv, CrawlOk

(* A crawl that starts, at first or again.                                 *)
LEMMA StartOk ==
    ASSUME Start, phase' = "take", visited' = << >>, found' = {}, max_depth' \in Int
    PROVE  SearchInv'
<1>1. QueueOk(queue') /\ queue'.dict = {Root} /\ ToSet(queue'.items) = {Root} /\ queue'.items # << >>
  BY Starting DEF Start
<1>2. /\ iteration_queue' = NewQueue /\ current_depth' = 0 /\ QueueOk(iteration_queue')
      /\ iteration_queue'.dict = {} /\ ToSet(iteration_queue'.items) = {}
  BY NewQueueOk DEF Start
<1>3. << >> \in Seq(Urls) /\ IsInjective(<< >>) /\ ToSet(<< >>) = {}
  BY DEF IsInjective, ToSet
<1>4. QueuesInv'
  BY <1>1, <1>2, <1>3 DEF QueuesInv
<1>5. AtHand' = {} /\ Entered' = {} /\ Queued' = {Root} /\ WithinDepth'
  <2>1. max_depth' < 0 \/ 0 <= max_depth'
    OBVIOUS
  <2> QED BY <1>1, <1>2, <1>3, <2>1 DEF AtHand, Entered, Queued, WithinDepth
<1>6. PlacesInv'
  BY <1>1, <1>5 DEF PlacesInv
<1>7. LevelInv'
  <2>1. Reached(found', 0) = {Root}
    BY ReachedSteps
  <2> QED BY <1>1, <1>2, <1>5, <2>1 DEF LevelInv
<1> QED BY <1>4, <1>5, <1>6, <1>7 DEF SearchInv

(* The next repository is taken.                                           *)
LEMMA OpenSearch ==
    ASSUME SearchInv, Open
    PROVE  SearchInv'
<1> DEFINE q == [queue EXCEPT !.items = Tail(@)]
<1>1. /\ phase = "take" /\ phase' = "opened" /\ url' = Head(queue.items) /\ queue.items # << >> /\ queue' = q
      /\ UNCHANGED <<iteration_queue, current_depth, visited, max_depth, found>> /\ WithinDepth
  BY DEF Open, memory
<1>2. QueuesInv /\ PlacesInv /\ LevelInv
  BY <1>1 DEF SearchInv
<1>3. /\ QueueOk(q) /\ q.dict = queue.dict
      /\ url' \in queue.dict /\ url' \notin ToSet(q.items)
      /\ ToSet(queue.items) = ToSet(q.items) \cup {url'}
  <2>1. QueueOk(queue)
    BY <1>2 DEF QueuesInv
  <2>2. /\ QueueOk(q) /\ q.dict = queue.dict /\ q.items = Tail(queue.items)
        /\ Head(queue.items) \in queue.dict /\ Head(queue.items) \notin ToSet(Tail(queue.items))
        /\ ToSet(queue.items) = ToSet(Tail(queue.items)) \cup {Head(queue.items)}
    BY <1>1, <2>1, TailOk
  <2> HIDE DEF q
  <2> QED BY <1>1, <2>2
<1> HIDE DEF q
<1>4. QueuesInv'
  BY <1>1, <1>2, <1>3 DEF QueuesInv
<1>5. /\ AtHand = {} /\ AtHand' = {url'} /\ Entered' = Entered /\ WithinDepth'
      /\ Queued = Queued' \cup {url'} /\ url' \notin Queued'
  BY <1>1, <1>3 DEF AtHand, Entered, Queued, WithinDepth
<1>6. PlacesInv'
  BY <1>1, <1>2, <1>5 DEF PlacesInv
<1>7. LevelInv'
  BY <1>1, <1>2, <1>3, <1>5 DEF LevelInv
<1> QED BY <1>4, <1>5, <1>6, <1>7 DEF SearchInv

(* Beyond the depth nothing is entered any more.                           *)
LEMMA ForgetSearch ==
    ASSUME SearchInv, Forget
    PROVE  SearchInv'
<1> DEFINE q == [queue EXCEPT !.items = Tail(@)]
<1>1. /\ phase = "take" /\ phase' = phase /\ queue.items # << >> /\ NextLevel(q, iteration_queue)
      /\ UNCHANGED <<visited, max_depth, found>> /\ ~ WithinDepth
  BY DEF Forget, memory
<1>2. QueuesInv /\ PlacesInv /\ BeyondInv
  BY <1>1 DEF SearchInv
<1>3. QueueOk(q) /\ ToSet(q.items) \subseteq ToSet(queue.items)
  <2>1. QueueOk(queue)
    BY <1>2 DEF QueuesInv
  <2>2. /\ QueueOk(q) /\ q.items = Tail(queue.items)
        /\ ToSet(queue.items) = ToSet(Tail(queue.items)) \cup {Head(queue.items)}
    BY <1>1, <2>1, TailOk
  <2> HIDE DEF q
  <2> QED BY <2>2
<1> HIDE DEF q
<1>4. /\ QueueOk(queue') /\ ToSet(queue'.items) \subseteq ToSet(queue.items)
      /\ QueueOk(iteration_queue') /\ iteration_queue'.dict = {} /\ ToSet(iteration_queue'.items) = {}
      /\ current_depth' \in Nat /\ current_depth' >= current_depth
  <2>1. /\ QueueOk(iteration_queue) /\ iteration_queue.dict = {} /\ ToSet(iteration_queue.items) = {}
        /\ current_depth \in Nat /\ iteration_queue.items \in Seq(Urls)
    BY <1>2 DEF QueuesInv, BeyondInv, QueueOk, Queues
  <2>2. CASE q.items = << >>
    <3> DEFINE us == iteration_queue.items
    <3>4. QueueOk(Add(q, us)) /\ ToSet(Add(q, us).items) = ToSet(q.items) \cup (ToSet(us) \ q.dict)
      <4>1. us \in Seq(Urls)
        BY <2>1
      <4> HIDE DEF us
      <4> QED BY <1>3, <4>1, AddResult
    <3>1. QueueOk(Add(q, us)) /\ ToSet(Add(q, us).items) = ToSet(q.items)
      BY <2>1, <3>4
    <3>2. /\ queue' = Add(q, iteration_queue.items) /\ iteration_queue' = NewQueue
          /\ current_depth' = current_depth + 1
      BY <1>1, <2>2 DEF NextLevel
    <3>3. current_depth' \in Nat /\ current_depth' >= current_depth
      BY <2>1, <3>2
    <3> QED BY <1>3, <3>1, <3>2, <3>3, NewQueueOk
  <2>3. CASE q.items # << >>
    <3>1. queue' = q /\ iteration_queue' = iteration_queue /\ current_depth' = current_depth
      BY <1>1, <2>3 DEF NextLevel
    <3>2. current_depth' \in Nat /\ current_depth' >= current_depth
      BY <2>1, <3>1
    <3> QED BY <1>3, <2>1, <3>1, <3>2
  <2> QED BY <2>2, <2>3
<1>5. QueuesInv'
  BY <1>1, <1>2, <1>4 DEF QueuesInv
<1>6. AtHand = {} /\ AtHand' = {} /\ Entered' = Entered /\ Queued' \subseteq Queued
  BY <1>1, <1>4 DEF AtHand, Entered, Queued
<1>7. ~ WithinDepth'
  BY <1>1, <1>2, <1>4 DEF WithinDepth, QueuesInv
<1>8. PlacesInv'
  BY <1>1, <1>2, <1>4, <1>6 DEF PlacesInv
<1>9. BeyondInv'
  BY <1>1, <1>2, <1>4, <1>6 DEF BeyondInv
<1> QED BY <1>5, <1>7, <1>8, <1>9 DEF SearchInv

(* A level is done: the next one is what the manifests of all before name. *)
LEMMA TransactionSearch ==
    ASSUME SearchInv, url \in Urls, TxnRunQueries
    PROVE  SearchInv'
<1> DEFINE R(k) == Reached(found, k)
           us == iteration_queue.items
           q == Add(queue, us)
<1>1. /\ phase = "tags" /\ phase' = "take" /\ NextLevel(queue, iteration_queue)
      /\ visited' = Append(visited, url) /\ UNCHANGED <<max_depth, found, url>>
  BY DEF TxnRunQueries, clone
<1>2. AtHand = {url} /\ AtHand' = {}
  BY <1>1 DEF AtHand
<1>3. QueuesInv /\ PlacesInv /\ LevelInv /\ WithinDepth
  <2>1. PlacesInv /\ WithinDepth
    BY <1>1, <1>2 DEF SearchInv, PlacesInv
  <2> QED BY <1>1, <2>1 DEF SearchInv
<1>4. /\ max_depth \in Int /\ current_depth \in Nat /\ visited \in Seq(Urls) /\ IsInjective(visited)
      /\ found \in SUBSET (Urls \X Urls) /\ QueueOk(queue) /\ QueueOk(iteration_queue)
      /\ ToSet(us) = iteration_queue.dict /\ us \in Seq(Urls)
  BY <1>3 DEF QueuesInv, QueueOk, Queues
<1>5. url \notin Entered /\ url \notin Queued /\ Entered \cap Queued = {}
  BY <1>2, <1>3 DEF PlacesInv
<1>6. visited' \in Seq(Urls) /\ IsInjective(visited') /\ Entered' = Entered \cup {url}
  <2>1. url \notin ToSet(visited)
    BY <1>5 DEF Entered
  <2>2. /\ Append(visited, url) \in Seq(Urls) /\ IsInjective(Append(visited, url))
        /\ ToSet(Append(visited, url)) = ToSet(visited) \cup {url}
    BY <1>4, <2>1, Appending
  <2> QED BY <1>1, <2>2 DEF Entered
<1>7. /\ queue.dict = Entered' \cup Queued /\ queue.dict = R(current_depth)
      /\ current_depth > 0 => R(current_depth - 1) \subseteq Entered
      /\ \A e \in found : e[1] \in Entered' /\ e[2] \in queue.dict \cup iteration_queue.dict
      /\ \A u \in iteration_queue.dict : \E e \in found : e[2] = u
  <2>1. LevelInv /\ \A e \in found : e[1] \in Entered'
    BY <1>2, <1>3, <1>6 DEF PlacesInv
  <2> QED BY <1>2, <1>6, <2>1 DEF LevelInv
<1>8. CASE queue.items # << >>
  <2>1. queue' = queue /\ iteration_queue' = iteration_queue /\ current_depth' = current_depth
    BY <1>1, <1>8 DEF NextLevel
  <2>2. QueuesInv'
    BY <1>1, <1>3, <1>4, <1>6, <2>1 DEF QueuesInv
  <2>3. WithinDepth' /\ Queued' = Queued
    BY <1>1, <1>3, <2>1 DEF WithinDepth, Queued
  <2>4. PlacesInv'
    BY <1>1, <1>2, <1>5, <1>6, <1>7, <1>8, <2>1, <2>3 DEF PlacesInv
  <2>5. LevelInv'
    BY <1>1, <1>2, <1>6, <1>7, <2>1, <2>3 DEF LevelInv
  <2> QED BY <2>2, <2>3, <2>4, <2>5 DEF SearchInv
<1>9. CASE queue.items = << >>
  <2>1. queue' = q /\ iteration_queue' = NewQueue /\ current_depth' = current_depth + 1
    BY <1>1, <1>9 DEF NextLevel
  <2>2. Queued = {}
    BY <1>9 DEF Queued, ToSet
  <2>3. /\ QueueOk(q) /\ q.dict = queue.dict \cup iteration_queue.dict
        /\ ToSet(q.items) = iteration_queue.dict \ queue.dict
    <3>1. /\ QueueOk(Add(queue, us)) /\ Add(queue, us).dict = queue.dict \cup ToSet(us)
          /\ ToSet(Add(queue, us).items) = ToSet(queue.items) \cup (ToSet(us) \ queue.dict)
      <4>1. us \in Seq(Urls)
        BY <1>4
      <4> HIDE DEF us
      <4> QED BY <1>4, <4>1, AddResult
    <3> QED BY <1>4, <2>2, <3>1 DEF Queued
  <2> HIDE DEF q, us
  <2>4. QueuesInv'
    <3>1. current_depth' \in Nat /\ max_depth' \in Int
      BY <1>1, <1>4, <2>1
    <3> QED BY <1>1, <1>4, <1>6, <2>1, <2>3, <3>1, NewQueueOk DEF QueuesInv
  <2>5. Entered' = queue.dict /\ Queued' = iteration_queue.dict \ queue.dict /\ iteration_queue'.dict = {}
    BY <1>7, <2>1, <2>2, <2>3, NewQueueOk DEF Queued
  <2>6. PlacesInv'
    BY <1>1, <1>2, <1>7, <2>5 DEF PlacesInv
  <2>7. R(current_depth + 1) = queue.dict \cup iteration_queue.dict
    <3>1. R(current_depth + 1) = R(current_depth) \cup {e[2] : e \in {x \in found : x[1] \in R(current_depth)}}
      BY <1>4, ReachedSteps
    <3>2. {x \in found : x[1] \in R(current_depth)} = found
      BY <1>7, <2>5
    <3> QED BY <1>7, <3>1, <3>2
  <2>8. current_depth' - 1 = current_depth /\ current_depth' \in Int
    BY <1>4, <2>1
  <2>9. ASSUME WithinDepth' PROVE LevelInv'
    <3>1. queue'.dict = Entered' \cup AtHand' \cup Queued'
      BY <1>2, <2>1, <2>3, <2>5
    <3>2. queue'.dict = Reached(found', current_depth')
      BY <1>1, <2>1, <2>3, <2>7
    <3>3. Reached(found', current_depth' - 1) \subseteq Entered'
      BY <1>1, <1>7, <2>5, <2>8
    <3>4. \A e \in found' : e[2] \in queue'.dict \cup iteration_queue'.dict
      BY <1>1, <1>7, <2>1, <2>3
    <3> QED BY <2>5, <3>1, <3>2, <3>3, <3>4 DEF LevelInv
  <2>10. ASSUME ~ WithinDepth' PROVE BeyondInv'
    <3>1. max_depth = current_depth
      BY <1>1, <1>3, <1>4, <2>1, <2>10 DEF WithinDepth
    <3>2. Entered' = Reached(found', max_depth')
      BY <1>1, <1>7, <2>5, <3>1
    <3> QED BY <2>5, <3>2 DEF BeyondInv
  <2> QED BY <2>4, <2>6, <2>9, <2>10 DEF SearchInv
<1> QED BY <1>8, <1>9

(* What is found lies one level further.                                   *)
LEMMA DiscoverSearch ==
    ASSUME RefsInv, SearchInv, NEW refs, Discover(refs),
           phase \in HandPhases, phase' \in HandPhases,
           UNCHANGED <<queue, current_depth, visited, max_depth, url>>
    PROVE  SearchInv'
<1>1. AtHand = {url} /\ AtHand' = {url} /\ url \in Urls /\ tracking \in Refs
  BY DEF AtHand, RefsInv, HandPhases
<1>2. QueuesInv /\ PlacesInv /\ LevelInv /\ WithinDepth
  <2>1. phase # "crashed"
    BY DEF HandPhases
  <2>2. PlacesInv /\ WithinDepth
    BY <1>1, <2>1 DEF SearchInv, PlacesInv
  <2> QED BY <2>1, <2>2 DEF SearchInv
<1>3. PICK us \in Arrivals(refs) :
          /\ iteration_queue' = Add(iteration_queue, us)
          /\ found' = found \cup {<<url, u>> : u \in ToSet(us)}
  BY DEF Discover
<1>4. us \in Seq(Urls) /\ ToSet(us) \subseteq Urls
  <2>1. us \in Seq(Urls)
    BY <1>1, <1>3, ArrivalsTyped
  <2> QED BY <2>1 DEF ToSet
<1> DEFINE more == {<<url, u>> : u \in ToSet(us)}
<1>5. /\ QueueOk(iteration_queue') /\ iteration_queue'.dict = iteration_queue.dict \cup ToSet(us)
      /\ ToSet(iteration_queue'.items) = iteration_queue'.dict
  <2>1. QueueOk(iteration_queue) /\ ToSet(iteration_queue.items) = iteration_queue.dict
    BY <1>2 DEF QueuesInv
  <2>2. /\ QueueOk(Add(iteration_queue, us)) /\ Add(iteration_queue, us).dict = iteration_queue.dict \cup ToSet(us)
        /\ ToSet(Add(iteration_queue, us).items) =
               ToSet(iteration_queue.items) \cup (ToSet(us) \ iteration_queue.dict)
    BY <1>4, <2>1, AddResult
  <2> QED BY <1>3, <2>1, <2>2
<1>6. more \in SUBSET (Urls \X Urls) /\ \A e \in more : e[1] = url /\ e[2] \in ToSet(us)
  BY <1>1, <1>4
<1>7. \A u \in ToSet(us) : \E e \in more : e[2] = u
  <2>1. \A u \in ToSet(us) : <<url, u>> \in more /\ <<url, u>>[2] = u
    OBVIOUS
  <2> HIDE DEF more
  <2> QED BY <2>1
<1>8. found' = found \cup more
  BY <1>3
<1> HIDE DEF more
<1>9. QueuesInv'
  BY <1>2, <1>5, <1>6, <1>8 DEF QueuesInv
<1>10. UNCHANGED <<Entered, Queued, WithinDepth>>
  BY DEF Entered, Queued, WithinDepth
<1>11. phase' # "take" /\ phase' # "done"
  BY DEF HandPhases
<1>12. PlacesInv'
  BY <1>1, <1>2, <1>6, <1>8, <1>10, <1>11 DEF PlacesInv
<1>13. \A i \in 0 .. current_depth : Reached(found', i) = Reached(found, i)
  <2>1. found \in SUBSET (Urls \X Urls) /\ current_depth \in Nat
    BY <1>2 DEF QueuesInv
  <2>2. url \notin Entered
    BY <1>1, <1>2 DEF PlacesInv
  <2>3. current_depth > 0 => \A e \in more : e[1] \notin Reached(found, current_depth - 1)
    BY <1>2, <1>6, <2>2 DEF LevelInv
  <2> QED BY <1>6, <1>8, <2>1, <2>3, ReachedKept
<1>14. LevelInv'
  <2>1. current_depth \in Nat
    BY <1>2 DEF QueuesInv
  <2>2. current_depth \in 0 .. current_depth /\ (current_depth > 0 => current_depth - 1 \in 0 .. current_depth)
    BY <2>1
  <2>3. /\ Reached(found', current_depth) = Reached(found, current_depth)
        /\ current_depth > 0 => Reached(found', current_depth - 1) = Reached(found, current_depth - 1)
    BY <1>13, <2>2
  <2>4. \A e \in found' : e[2] \in queue'.dict \cup iteration_queue'.dict
    BY <1>2, <1>5, <1>6, <1>8 DEF LevelInv
  <2>5. \A u \in iteration_queue'.dict : \E e \in found' : e[2] = u
    BY <1>2, <1>5, <1>7, <1>8 DEF LevelInv
  <2> QED BY <1>1, <1>2, <1>10, <2>3, <2>4, <2>5 DEF LevelInv
<1> QED BY <1>9, <1>10, <1>12, <1>14, <1>2 DEF SearchInv

-----------------------------------------------------------------------------
(* The invariant holds at first and is kept by every step.                 *)
LEMMA CrawlStarts ==
    ASSUME GitGraphInit
    PROVE  CrawlInv
<1>1. /\ heads = Heads /\ tags = Tags /\ database = [nodes |-> {}, links |-> {}]
      /\ max_depth \in Int /\ queue = Add(NewQueue, <<Root>>) /\ iteration_queue = NewQueue
      /\ current_depth = 0 /\ phase = "take" /\ url = Root /\ objects = {} /\ reported = << >>
      /\ visited = << >> /\ found = {} /\ written = {}
  BY DepthsInt DEF GitGraphInit
<1>2. DOMAIN reported = {} /\ ToSet(visited) = {}
  BY <1>1 DEF ToSet
<1>3. AtHand = {} /\ Entered = {}
  BY <1>1, <1>2 DEF AtHand, Entered
<1>4. RefsInv
  BY <1>1, <1>2, <1>3, RefsTyped, UrlsFinite DEF RefsInv
<1>5. SearchInv
  <2>1. QueueOk(queue) /\ queue.dict = {Root} /\ ToSet(queue.items) = {Root} /\ queue.items # << >>
    BY <1>1, Starting
  <2>2. QueueOk(iteration_queue) /\ iteration_queue.dict = {} /\ ToSet(iteration_queue.items) = {}
    BY <1>1, NewQueueOk
  <2>3. << >> \in Seq(Urls) /\ IsInjective(<< >>)
    BY DEF IsInjective
  <2>4. QueuesInv
    BY <1>1, <2>1, <2>2, <2>3 DEF QueuesInv
  <2>5. Queued = {Root} /\ WithinDepth
    <3>1. max_depth < 0 \/ 0 <= max_depth
      BY <1>1
    <3> QED BY <1>1, <2>1, <3>1 DEF Queued, WithinDepth
  <2>6. PlacesInv
    BY <1>1, <1>3, <2>1, <2>5 DEF PlacesInv
  <2>7. LevelInv
    <3>1. Reached({}, 0) = {Root}
      BY ReachedSteps
    <3>2. queue.dict = Entered \cup AtHand \cup Queued /\ ~ current_depth > 0
      BY <1>1, <1>3, <2>1, <2>5
    <3>3. queue.dict = Reached(found, current_depth)
      BY <1>1, <2>1, <3>1
    <3> QED BY <1>1, <2>2, <3>2, <3>3 DEF LevelInv
  <2> QED BY <2>4, <2>5, <2>6, <2>7 DEF SearchInv
<1>6. DatabaseInv /\ ManifestsOfCommit /\ LossInv
  BY <1>1, <1>3 DEF DatabaseInv, ManifestsOfCommit, LossInv
<1>7. ReferencesCurrent
  BY <1>2 DEF ReferencesCurrent
<1>8. StepsInv
  BY <1>1 DEF StepsInv
<1> QED BY <1>4, <1>5, <1>6, <1>7, <1>8 DEF CrawlInv

(* Every step keeps the invariant.                                         *)
LEMMA CrawlStep ==
    ASSUME CrawlInv, [GitGraphNext]_crawlVars
    PROVE  CrawlInv'
<1>1. /\ RefsInv /\ SearchInv /\ QueuesInv /\ DatabaseInv /\ StepsInv /\ LossInv
      /\ ReferencesCurrent /\ ManifestsOfCommit
  BY DEF CrawlInv, SearchInv
<1>2. RefsInv'
  BY <1>1, RefsStep
<1> DEFINE GraphInv == DatabaseInv /\ LossInv /\ ReferencesCurrent /\ ManifestsOfCommit
           StillSo == SearchInv' /\ StepsInv' /\ GraphInv'
<1> SUFFICES StillSo
  BY <1>2 DEF CrawlInv
<1>3. phase' \notin {"branches", "tags"} => StepsInv'
  BY DEF StepsInv
<1>4. ASSUME UNCHANGED <<database, memory>>, raced \subseteq raced', phase = "crashed" => phase' = "crashed"
      PROVE  GraphInv'
  BY <1>1, <1>4, GraphKept
<1>5. url \in Urls
  BY <1>1 DEF RefsInv
<1>6. CASE Open
  <2>1. SearchInv'
    BY <1>1, <1>6, OpenSearch
  <2>2. phase' = "opened" /\ phase = "take" /\ UNCHANGED <<database, memory>> /\ raced' = raced
    BY <1>6 DEF Open
  <2>3. GraphInv'
    BY <1>4, <2>2
  <2> QED BY <1>3, <2>1, <2>2, <2>3
<1>7. CASE Forget
  <2>1. SearchInv'
    BY <1>1, <1>7, ForgetSearch
  <2>2. phase' = "take" /\ phase = "take" /\ UNCHANGED <<database, memory>> /\ raced' = raced
    BY <1>7 DEF Forget
  <2>3. GraphInv'
    BY <1>4, <2>2
  <2> QED BY <1>3, <2>1, <2>2, <2>3
<1>8. CASE UpdateFromRemote \/ MapRemoteBranchesLocal \/ Finish \/ Fail
  <2>1. /\ UNCHANGED <<database, memory, levels, max_depth, found, url>> /\ raced' = raced
        /\ phase # "crashed" /\ phase' \notin {"branches", "tags"}
    BY <1>8 DEF UpdateFromRemote, MapRemoteBranchesLocal, Finish, Fail, clone
  <2>2. GraphInv'
    BY <1>4, <2>1
  <2>3. /\ phase' \in {"updated", "mapped", "done", "crashed"}
        /\ phase' \in {"updated", "mapped"} => phase \in {"opened", "updated"}
        /\ phase' = "done" => phase = "take" /\ queue.items = << >>
    BY <1>8 DEF UpdateFromRemote, MapRemoteBranchesLocal, Finish, Fail
  <2>4. phase' # "crashed" => AtHand' = AtHand
    BY <2>1, <2>3 DEF AtHand
  <2>5. UNCHANGED <<levels, max_depth, visited, found>>
    BY <2>1 DEF memory
  <2>6. SearchInv'
    BY <1>1, <2>1, <2>3, <2>4, <2>5, SearchKept
  <2> QED BY <1>3, <2>1, <2>2, <2>6
<1>9. CASE IterateThroughBranches
  <2>1. StepsInv'
    BY <1>1, <1>9, BranchesCollected
  <2>2. /\ phase = "mapped" /\ phase' = "branches" /\ Discover(heads[url])
        /\ UNCHANGED <<clone, queue, current_depth, memory, database, max_depth>>
    BY <1>9 DEF IterateThroughBranches
  <2>3. SearchInv'
    BY <1>1, <2>2, DiscoverSearch DEF HandPhases, clone, memory
  <2>4. GraphInv'
    BY <1>4, <2>2, Racing
  <2> QED BY <2>1, <2>3, <2>4
<1>10. CASE IterateThroughTags
  <2>1. StepsInv'
    BY <1>1, <1>10, TagsCollected
  <2>2. /\ phase = "branches" /\ phase' = "tags" /\ Discover(tags[url])
        /\ UNCHANGED <<clone, queue, current_depth, memory, database, max_depth>>
    BY <1>10 DEF IterateThroughTags
  <2>3. SearchInv'
    BY <1>1, <2>2, DiscoverSearch DEF HandPhases, clone, memory
  <2>4. GraphInv'
    BY <1>4, <2>2, Racing
  <2> QED BY <2>1, <2>3, <2>4
<1>11. CASE TxnRunQueries
  <2>1. SearchInv'
    BY <1>1, <1>5, <1>11, TransactionSearch
  <2>2. phase = "tags" /\ phase' = "take"
    BY <1>11 DEF TxnRunQueries
  <2>3. PlacesInv
    BY <1>1, <2>2 DEF SearchInv
  <2>4. GraphInv'
    BY <1>1, <1>11, <2>3, TransactionKeeps
  <2> QED BY <1>3, <2>1, <2>2, <2>4
<1>12. CASE RunAgain
  <2>1. /\ phase' = "take" /\ Start /\ visited' = << >> /\ found' = {} /\ written' = {} /\ left' = {}
        /\ UNCHANGED <<database, max_depth, reported, raced>>
    BY <1>12 DEF RunAgain
  <2>2. max_depth' \in Int
    BY <1>1, <2>1 DEF QueuesInv
  <2>3. SearchInv'
    BY <2>1, <2>2, StartOk
  <2>4. LossInv'
    BY <2>1 DEF LossInv, Entered, ToSet
  <2>5. DatabaseInv' /\ ManifestsOfCommit'
    BY <1>1, <2>1 DEF DatabaseInv, ManifestsOfCommit
  <2>6. ReferencesCurrent'
    <3>1. \A n, u : CommitsInDb(n, u)' = CommitsInDb(n, u)
      BY <2>1 DEF CommitsInDb
    <3> QED BY <1>1, <2>1, <3>1 DEF ReferencesCurrent
  <2> QED BY <1>3, <2>1, <2>3, <2>4, <2>5, <2>6
<1>13. CASE Push \/ UNCHANGED crawlVars
  <2>1. UNCHANGED <<clone, levels, memory, database, max_depth, phase, collector, reporting, found, raced>>
    BY <1>13 DEF Push, crawlVars
  <2>2. GraphInv'
    BY <1>4, <2>1
  <2>3. AtHand' = AtHand /\ UNCHANGED <<levels, max_depth, visited, found>>
    BY <2>1 DEF AtHand, clone, memory
  <2>4. phase' = "done" /\ phase # "crashed" => queue.items = << >>
    BY <1>1, <2>1 DEF SearchInv, PlacesInv
  <2>5. SearchInv'
    BY <1>1, <2>1, <2>3, <2>4, SearchKept
  <2>6. StepsInv'
    <3>1. UNCHANGED <<database, url, phase, collector, reporting, raced>>
      BY <2>1 DEF clone
    <3>2. Left' = Left /\ Vanished' = Vanished
      BY <3>1, SameGraph DEF Left, Vanished
    <3>3. CutCommits' = CutCommits /\ CutReferences' = CutReferences
      BY <3>1, <3>2 DEF CutCommits, CutReferences
    <3>4. \A q : StepOk(q)' <=> StepOk(q)
      BY <3>1, <3>3 DEF StepOk
    <3> QED BY <1>1, <3>1, <3>3, <3>4 DEF StepsInv
  <2> QED BY <2>2, <2>5, <2>6
<1> HIDE DEF StillSo
<1> QED BY <1>6, <1>7, <1>8, <1>9, <1>10, <1>11, <1>12, <1>13 DEF GitGraphNext, Crawl

(* The inductive invariant of the crawler: what the queue, the levels and  *)
(* the repositories entered have to do with each other, what the queries   *)
(* collected will do to the graph, and what is in it (application() of     *)
(* main.rs).                                                               *)
THEOREM CrawlInvariance == GitGraphSpec => []CrawlInv
<1>1. GitGraphInit => CrawlInv
  BY CrawlStarts
<1>2. CrawlInv /\ [GitGraphNext]_crawlVars => CrawlInv'
  BY CrawlStep
<1> QED BY <1>1, <1>2, PTL DEF GitGraphSpec

(* However the repositories move on, and whatever fails between: a branch  *)
(* in the graph is linked to the commit that it was at when its repository *)
(* was last entered, and the manifests of a commit are those of its tree,  *)
(* but for a commit that was listed while another one was cloned.          *)
THEOREM GraphStaysSound == GitGraphSpec => []GraphSound
<1>1. CrawlInv => GraphSound
  <2>1. SUFFICES ASSUME CrawlInv PROVE GraphSound
    OBVIOUS
  <2>2. RefsInv /\ QueuesInv /\ DatabaseInv /\ ReferencesCurrent /\ ManifestsOfCommit
    BY <2>1 DEF CrawlInv, SearchInv
  <2>3. queue.dict \subseteq Urls /\ iteration_queue.dict \subseteq Urls
    BY <2>2 DEF QueuesInv, QueueOk, Queues
  <2>4. \A l \in database.links : {l[1], l[3]} \subseteq database.nodes
    BY <2>2 DEF DatabaseInv
  <2>5. GraphTypeOK
    BY <2>2, <2>3, <2>4 DEF GraphTypeOK, RefsInv
  <2> QED BY <2>2, <2>5 DEF GraphSound
<1> QED BY <1>1, CrawlInvariance, PTL

(* A crawl that ends has entered what the manifests lead to within the     *)
(* depth asked for, each repository once: whatever circles they name, in   *)
(* whatever order they are found.                                          *)
THEOREM CrawlIsComplete == GitGraphSpec => []CrawlComplete
<1>1. CrawlInv => CrawlComplete
  <2>1. SUFFICES ASSUME CrawlInv, phase = "done"
                 PROVE  /\ Cardinality(ToSet(visited)) = Len(visited)
                        /\ ToSet(visited) =
                               Reached(found, IF max_depth < 0 THEN Cardinality(Urls) ELSE max_depth)
    BY DEF CrawlComplete
  <2>2. QueuesInv /\ PlacesInv /\ (WithinDepth => LevelInv) /\ (~ WithinDepth => BeyondInv)
    BY <2>1 DEF CrawlInv, SearchInv
  <2>3. /\ max_depth \in Int /\ current_depth \in Nat /\ visited \in Seq(Urls) /\ IsInjective(visited)
        /\ found \in SUBSET (Urls \X Urls)
    BY <2>2 DEF QueuesInv
  <2>4. Cardinality(ToSet(visited)) = Len(visited)
    <3> DEFINE S == ToSet(visited)
    <3>1. S \subseteq Urls /\ visited \in Seq(S)
      BY <2>3 DEF ToSet
    <3>2. IsFiniteSet(S)
      BY <3>1, UrlsFinite, FS_Subset
    <3>3. ToSet(visited) = S
      OBVIOUS
    <3> HIDE DEF S
    <3>4. Len(visited) = Cardinality(S)
      BY <2>3, <3>1, <3>2, <3>3, LengthCounts
    <3> QED BY <3>3, <3>4
  <2>5. AtHand = {} /\ Queued = {} /\ iteration_queue.dict = {} /\ Entered = ToSet(visited)
    BY <2>1, <2>2 DEF AtHand, Queued, PlacesInv, ToSet, Entered
  <2>6. CASE WithinDepth
    <3> DEFINE R(k) == Reached(found, k)
               d == current_depth
    <3>1. Entered = R(d) /\ \A e \in found : e[2] \in R(d)
      BY <2>2, <2>5, <2>6 DEF LevelInv
    <3>2. /\ \A k \in Nat : k >= d => R(k) = R(d)
          /\ R(Cardinality(Urls)) = R(d)
      BY <2>3, <3>1, ReachedClosed
    <3>3. max_depth < 0 \/ (max_depth \in Nat /\ max_depth >= d)
      BY <2>3, <2>6 DEF WithinDepth
    <3> HIDE DEF R
    <3>4. Entered = R(IF max_depth < 0 THEN Cardinality(Urls) ELSE max_depth)
      BY <2>3, <3>1, <3>2, <3>3
    <3> QED BY <2>4, <2>5, <3>4 DEF R
  <2>7. CASE ~ WithinDepth
    <3>1. Entered = Reached(found, max_depth) /\ ~ (max_depth < 0)
      BY <2>2, <2>7 DEF BeyondInv, WithinDepth
    <3> QED BY <2>4, <2>5, <3>1
  <2> QED BY <2>6, <2>7
<1> QED BY <1>1, CrawlInvariance, PTL

(* At the end of a crawl no link that it wrote is missing, but those of a  *)
(* commit that a branch left and of a reference that is no branch of a     *)
(* repository entered.                                                     *)
THEOREM LinksAreKept == GitGraphSpec => []LinksKept
<1>1. CrawlInv => LinksKept
  <2>1. SUFFICES ASSUME CrawlInv, phase = "done", NEW l \in written \ database.links
                 PROVE  \/ \E c \in left : Touches(l, Commit(c))
                        \/ \E u \in ToSet(visited) : \E n \in ToSet(Names) \ DOMAIN reported[u] :
                               Touches(l, Reference(n, u))
    BY DEF LinksKept
  <2>2. Lost(l)
    BY <2>1 DEF CrawlInv, LossInv
  <2> QED BY <2>2 DEF Lost, Entered
<1> QED BY <1>1, CrawlInvariance, PTL
=============================================================================
