--------------------------- MODULE ActPhase_proofs ---------------------------
(***************************************************************************)
(* Proofs about ActPhase and the two components it is built of, LLMService *)
(* and ToolCall: for any number of models, attempts, repairs, retries and  *)
(* steps, and for any length of a turn.  First the loops of the services,  *)
(* then the steps of the phase and what they report.                       *)
(***************************************************************************)
EXTENDS ActPhase, TLAPS

-----------------------------------------------------------------------------
(* What the phase does to the request and to the tool call in progress.    *)

LLMNext == Serve \/ \E kind \in Kind, deadline, check \in BOOLEAN : Request(kind, deadline, check)
ToolNext == Execute \/ Dispatch

LEMMA AskIsRequest ==
  ASSUME NEW kind \in Kind, NEW pc, Ask(kind, pc)
  PROVE  LLMNext
  BY Zenon DEF Ask, LLMNext

\* Every step of the phase is a step of each component, or leaves it alone.
LEMMA ComponentSteps == Next => [LLMNext]_llm /\ [ToolNext]_tool
<1> SUFFICES ASSUME Next PROVE [LLMNext]_llm /\ [ToolNext]_tool
  OBVIOUS
<1>1. ASSUME \/ AskPlain \/ AskTools \/ TurnEmpty \/ TurnFails \/ AnswerInstead
             \/ SelectedNone \/ ToolError \/ AskSynthesis
      PROVE  LLMNext /\ UNCHANGED tool
  BY <1>1, AskIsRequest DEF AskPlain, AskTools, TurnEmpty, TurnFails, AnswerInstead,
     SelectedNone, ToolError, AskSynthesis, Kind
<1>2. ASSUME RunPlanned \/ CallTool \/ Selected
      PROVE  ToolNext /\ UNCHANGED llm
  BY <1>2 DEF RunPlanned, CallTool, Selected, Run, ToolNext
<1>3. ASSUME \/ ConsultPlanned \/ TurnText \/ TurnCalls \/ TurnRefused \/ CallPeer
             \/ CallUnknown \/ CallReturns \/ CallRaises \/ CallsOver \/ PlannedReturns
             \/ TextAnswers \/ TextFails \/ Fallback \/ Return \/ Synthesis
      PROVE  UNCHANGED <<llm, tool>>
  BY <1>3 DEF ConsultPlanned, TurnText, TurnCalls, TurnRefused, CallPeer, CallUnknown,
     CallReturns, CallRaises, CallsOver, PlannedReturns, TextAnswers, TextFails, Fallback,
     Return, Synthesis
<1>4. CASE Serving
  BY <1>4 DEF Serving, LLMNext
<1>5. CASE Executing
  BY <1>5 DEF Executing, ToolNext
<1> QED
  BY <1>1, <1>2, <1>3, <1>4, <1>5 DEF Next

-----------------------------------------------------------------------------
(* The three loops of the LLM service.                                     *)

\* The attempts of one model: its repairs, and the first request, times tenacity's.
Repairs(kind) == IF kind = "tools" THEN MaxRepairs ELSE 0
PerModel(kind) == Repairs(kind) * MaxAttempts + MaxAttempts

(* The requests so far are those of the models that failed, of this        *)
(* model's rejected turns, and of this turn.                               *)
SpentInOrder ==
  /\ llm.repair <= Repairs(llm.kind)
  /\ llm.spent <= (llm.model - 1) * PerModel(llm.kind) + llm.repair * MaxAttempts + llm.attempt

\* tenacity sleeps only when an attempt is left.
Pausing == llm.pc = "asleep" => llm.attempt < MaxAttempts

LLMInv == LLMTypeOK /\ SpentInOrder /\ Pausing

LEMMA Distribute ==
  ASSUME NEW a \in Int, NEW b \in Int
  PROVE  (a + 1) * b = a * b + b
  BY SMT

LEMMA Monotone ==
  ASSUME NEW a \in Nat, NEW b \in Nat, NEW c \in Nat, a <= b
  PROVE  a * c <= b * c
  BY SMT

LEMMA NoRequestTyped == NoRequest \in Requests
  BY LLMAssumption DEF NoRequest, Requests, Kind

LEMMA LLMInvInit == LLMInit => LLMInv
  BY LLMAssumption, NoRequestTyped DEF LLMInit, NoRequest, LLMInv, LLMTypeOK, SpentInOrder,
     Repairs, PerModel, Pausing

LEMMA SentFields ==
  ASSUME NEW next \in Requests, Sent(next)
  PROVE  /\ LLMTypeOK'
         /\ llm'.pc = "sent" /\ llm'.spent = next.spent + 1
         /\ llm'.kind = next.kind /\ llm'.model = next.model
         /\ llm'.attempt = next.attempt /\ llm'.repair = next.repair
<1> DEFINE n == next.spent + 1
<1>1. n \in Nat
  BY DEF Requests
<1>2. llm' = [next EXCEPT !.pc = "sent", !.spent = n]
  BY DEF Sent
<1> HIDE DEF n
<1>3. llm' \in Requests
  BY <1>1, <1>2 DEF Requests
<1>4. /\ llm'.pc = "sent" /\ llm'.spent = n
      /\ llm'.kind = next.kind /\ llm'.model = next.model
      /\ llm'.attempt = next.attempt /\ llm'.repair = next.repair
  BY <1>2 DEF Requests
<1> QED
  BY <1>3, <1>4 DEF n, LLMTypeOK

\* One more request of the same model, or the first one of the next.
LEMMA SentCounted ==
  ASSUME LLMInv, llm.pc \in {"sent", "asleep"}
  PROVE  /\ llm.spent + 1 <= (llm.model - 1) * PerModel(llm.kind) + llm.repair * MaxAttempts
                                + (llm.attempt + 1)
         /\ llm.spent + 1 <= (llm.model - 1) * PerModel(llm.kind)
                                + (llm.repair + 1) * MaxAttempts + 1
         /\ llm.spent + 1 <= ((llm.model + 1) - 1) * PerModel(llm.kind) + 0 * MaxAttempts + 1
<1>1. /\ llm.model \in Nat /\ llm.repair \in Nat /\ llm.attempt \in Nat /\ llm.spent \in Nat
      /\ llm.attempt <= MaxAttempts /\ llm.repair <= Repairs(llm.kind)
      /\ MaxAttempts \in Nat /\ Repairs(llm.kind) \in Nat
  BY LLMAssumption DEF LLMInv, LLMTypeOK, Requests, SpentInOrder, Repairs
<1> DEFINE R == Repairs(llm.kind)
           P == PerModel(llm.kind)
<1>2. llm.spent <= (llm.model - 1) * P + llm.repair * MaxAttempts + llm.attempt
  BY DEF LLMInv, SpentInOrder
<1>3. P = R * MaxAttempts + MaxAttempts /\ P \in Nat
  BY <1>1 DEF PerModel
<1>4. llm.repair * MaxAttempts <= R * MaxAttempts
  BY <1>1, Monotone
<1>5. (llm.repair + 1) * MaxAttempts = llm.repair * MaxAttempts + MaxAttempts
  BY <1>1, Distribute
<1>6. llm.model * P = (llm.model - 1) * P + P
  BY <1>1, <1>3, Distribute
<1>7. ((llm.model + 1) - 1) * P = llm.model * P /\ 0 * MaxAttempts = 0
  BY <1>1, <1>3
<1>8. (llm.model - 1) * P \in Int /\ llm.repair * MaxAttempts \in Int /\ R * MaxAttempts \in Int
  BY <1>1, <1>3
<1> HIDE DEF R, P
<1>9. llm.spent + 1 <= llm.model * P + 0 + 1
  BY <1>1, <1>2, <1>3, <1>4, <1>6, <1>8
<1>10. llm.spent + 1 <= (llm.model - 1) * P + (llm.repair + 1) * MaxAttempts + 1
  BY <1>1, <1>2, <1>5, <1>8
<1> QED
  BY <1>1, <1>2, <1>7, <1>8, <1>9, <1>10 DEF R, P

LEMMA LLMInvStep == LLMInv /\ [LLMNext]_llm => LLMInv'
<1> SUFFICES ASSUME LLMInv, [LLMNext]_llm PROVE LLMInv'
  OBVIOUS
<1> USE LLMAssumption
<1>1. ASSUME NEW kind \in Kind, NEW deadline \in BOOLEAN, NEW check \in BOOLEAN,
             Request(kind, deadline, check)
      PROVE  LLMInv'
  <2>1. LLMTypeOK'
    BY <1>1, NoRequestTyped DEF Request, LLMTypeOK, Requests
  <2>2. llm'.model = 1 /\ llm'.attempt = 1 /\ llm'.repair = 0 /\ llm'.spent = 1 /\ llm'.pc = "sent"
    BY <1>1, NoRequestTyped DEF Request, Requests, NoRequest
  <2> QED
    BY <2>1, <2>2 DEF LLMInv, LLMTypeOK, Requests, SpentInOrder, Repairs, PerModel, Pausing
<1>2. ASSUME NEW answer \in {"text", "empty", "calls", "use", "skip"}, Done(answer)
      PROVE  LLMInv'
  <2>1. LLMTypeOK'
    BY <1>2, NoRequestTyped DEF Done, LLMTypeOK, Requests
  <2>2. SpentInOrder'
    BY <1>2 DEF Done, NoRequest, SpentInOrder, Repairs, PerModel
  <2> QED
    BY <1>2, <2>1, <2>2 DEF LLMInv, Pausing, Done, NoRequest
<1>3. ASSUME NEW why \in {"budget", "rejected", "failed", "timeout"}, Raised(why)
      PROVE  LLMInv'
  <2>1. LLMTypeOK'
    BY <1>3, NoRequestTyped DEF Raised, LLMTypeOK, Requests
  <2>2. SpentInOrder'
    BY <1>3 DEF Raised, NoRequest, SpentInOrder, Repairs, PerModel
  <2> QED
    BY <1>3, <2>1, <2>2 DEF LLMInv, Pausing, Raised, NoRequest
<1>4. ASSUME Transient, llm.attempt < MaxAttempts
      PROVE  LLMInv'
  <2>1. LLMTypeOK'
    BY <1>4 DEF Transient, LLMInv, LLMTypeOK, Requests
  <2>2. SpentInOrder'
    BY <1>4 DEF Transient, LLMInv, LLMTypeOK, Requests, SpentInOrder
  <2> QED
    BY <1>4, <2>1, <2>2 DEF LLMInv, Pausing, Transient, LLMTypeOK, Requests
<1>5. CASE Retry
  <2> DEFINE n == llm.attempt + 1
             next == [llm EXCEPT !.attempt = n]
  <2>1. n \in 1..MaxAttempts /\ llm \in Requests /\ llm.pc = "asleep"
    BY <1>5 DEF Retry, LLMInv, LLMTypeOK, Requests, Pausing
  <2>2. Sent(next)
    BY <1>5 DEF Retry
  <2> HIDE DEF n
  <2>3. next \in Requests
    BY <2>1 DEF Requests
  <2>4. /\ next.kind = llm.kind /\ next.model = llm.model /\ next.repair = llm.repair
        /\ next.attempt = llm.attempt + 1 /\ next.spent = llm.spent
    BY <2>1 DEF Requests, n
  <2> HIDE DEF next
  <2>5. SpentInOrder' /\ Pausing'
    BY <2>1, <2>2, <2>3, <2>4, SentFields, SentCounted DEF LLMInv, SpentInOrder, Pausing
  <2> QED
    BY <2>2, <2>3, <2>5, SentFields DEF LLMInv
<1>6. ASSUME BadArguments, llm.repair < MaxRepairs
      PROVE  LLMInv'
  <2> DEFINE n == llm.repair + 1
             next == [llm EXCEPT !.repair = n, !.attempt = 1]
  <2>1. n \in 0..MaxRepairs /\ 1 \in 1..MaxAttempts /\ llm \in Requests /\ llm.pc = "sent"
    BY <1>6 DEF BadArguments, LLMInv, LLMTypeOK, Requests
  <2>2. Sent(next) /\ llm.kind = "tools"
    BY <1>6 DEF BadArguments
  <2> HIDE DEF n
  <2>3. next \in Requests
    BY <2>1 DEF Requests
  <2>4. /\ next.kind = llm.kind /\ next.model = llm.model /\ next.attempt = 1
        /\ next.repair = llm.repair + 1 /\ next.spent = llm.spent
    BY <2>1 DEF Requests, n
  <2> HIDE DEF next
  <2>5. SpentInOrder' /\ Pausing'
    BY <1>6, <2>1, <2>2, <2>3, <2>4, SentFields, SentCounted
       DEF SpentInOrder, Repairs, Pausing, Requests
  <2> QED
    BY <2>2, <2>3, <2>5, SentFields DEF LLMInv
<1>7. ASSUME llm.pc = "sent", NextModel
      PROVE  LLMInv'
  <2>1. CASE llm.model < Models
    <3> DEFINE n == llm.model + 1
               next == [llm EXCEPT !.model = n, !.attempt = 1, !.repair = 0]
    <3>1. n \in 1..Models /\ 1 \in 1..MaxAttempts /\ 0 \in 0..MaxRepairs /\ llm \in Requests
      BY <2>1 DEF LLMInv, LLMTypeOK, Requests
    <3>2. Sent(next)
      BY <1>7, <2>1 DEF NextModel
    <3> HIDE DEF n
    <3>3. next \in Requests
      BY <3>1 DEF Requests
    <3>4. /\ next.kind = llm.kind /\ next.model = llm.model + 1 /\ next.attempt = 1
          /\ next.repair = 0 /\ next.spent = llm.spent
      BY <3>1 DEF Requests, n
    <3> HIDE DEF next
    <3>5. SpentInOrder' /\ Pausing'
      BY <1>7, <3>1, <3>2, <3>3, <3>4, SentFields, SentCounted
         DEF SpentInOrder, Repairs, Pausing, Requests
    <3> QED
      BY <3>2, <3>3, <3>5, SentFields DEF LLMInv
  <2>2. CASE ~(llm.model < Models)
    BY <1>3, <1>7, <2>2 DEF NextModel
  <2> QED
    BY <2>1, <2>2
<1>8. CASE UNCHANGED llm
  BY <1>8 DEF LLMInv, LLMTypeOK, Requests, SpentInOrder, Pausing
<1>9. CASE Serve
  <2>1. ASSUME NEW a \in Answers(llm.kind), Answered(a)
        PROVE  LLMInv'
    <3>1. a \in {"text", "empty", "calls", "use", "skip"}
      BY DEF Answers, LLMInv, LLMTypeOK, Requests, Kind
    <3> QED
      BY <1>2, <2>1, <3>1 DEF Answered
  <2>2. CASE BadArguments
    BY <1>2, <1>6, <2>2 DEF BadArguments
  <2>3. CASE Hard
    BY <1>7, <2>3 DEF Hard
  <2>4. CASE Transient
    BY <1>4, <1>7, <2>4 DEF Transient
  <2>5. CASE Refuse \/ Reject \/ Deadline
    BY <1>3, <2>5 DEF Refuse, Reject, Deadline
  <2> QED
    BY <1>5, <1>9, <2>1, <2>2, <2>3, <2>4, <2>5 DEF Serve
<1> QED
  BY <1>1, <1>8, <1>9 DEF LLMNext

-----------------------------------------------------------------------------
(* The sends of a tool call.                                               *)

Failures == Broken \cup Retryable

\* Nothing but failures of the transport; and that, before the last send.
AllFailed(sends) == sends \in Seq(Ends) /\ \A i \in 1..Len(sends) : sends[i] \in Failures
EarlierFailed(sends) ==
  /\ sends \in Seq(Ends) /\ Len(sends) > 0
  /\ \A i \in 1..Len(sends) - 1 : sends[i] \in Failures

(* Each round of the executor sends at most twice, and no send follows one *)
(* that did not end in a failure of the transport.                         *)
SendsInOrder ==
  /\ tool.pc \in {"idle", "done", "raised"} => tool.sends = <<>>
  /\ tool.pc \in {"sent", "resent"} => EarlierFailed(tool.sends)
  /\ tool.pc \in {"reconnecting", "backoff"} => AllFailed(tool.sends)
  /\ Len(tool.sends) <= 2 * tool.round + (IF tool.pc \in {"sent", "reconnecting"} THEN 1 ELSE 2)
  /\ tool.pc = "backoff" => tool.round < MaxRetries

ToolInv == ToolTypeOK /\ SendsInOrder

LEMMA AppendOpen ==
  ASSUME NEW sends, AllFailed(sends)
  PROVE  /\ EarlierFailed(Append(sends, "open"))
         /\ Len(Append(sends, "open")) = Len(sends) + 1
  BY DEF AllFailed, EarlierFailed, Ends

LEMMA EndedFailed ==
  ASSUME NEW sends, EarlierFailed(sends), NEW e \in Failures
  PROVE  AllFailed(Ended(sends, e)) /\ Len(Ended(sends, e)) = Len(sends)
  BY DEF AllFailed, EarlierFailed, Ended, Ends, Failures

LEMMA NoCallTyped ==
  ASSUME NEW pc \in {"idle", "done", "raised"},
         NEW end \in {"none", "refused", "timeout", "connection", "server_error"} \cup Results,
         tool' = Over(pc, end)
  PROVE  ToolInv'
<1>1. tool' = [pc |-> pc, round |-> 0, end |-> end, sends |-> <<>>]
  BY DEF Over, NoCall
<1>2. ToolTypeOK'
  BY <1>1, ToolAssumption DEF ToolTypeOK, ToolCalls
<1> QED
  BY <1>1, <1>2 DEF ToolInv, SendsInOrder

LEMMA ToolInvInit == ToolInit => ToolInv
  BY ToolAssumption DEF ToolInit, NoCall, ToolInv, ToolTypeOK, ToolCalls, SendsInOrder

LEMMA CaughtInv ==
  ASSUME NEW e, NEW round \in 0..MaxRetries, NEW sends, AllFailed(sends),
         Len(sends) <= 2 * round + 2, Caught(e, round, sends)
  PROVE  ToolInv'
<1>1. CASE e \in Retryable /\ round < MaxRetries
  <2>1. tool' = [pc |-> "backoff", round |-> round, end |-> "none", sends |-> sends]
    BY <1>1 DEF Caught
  <2> QED
    BY <2>1, <1>1 DEF ToolInv, ToolTypeOK, ToolCalls, SendsInOrder, AllFailed
<1>2. CASE ~(e \in Retryable /\ round < MaxRetries)
  BY <1>2, NoCallTyped DEF Caught
<1> QED
  BY <1>1, <1>2

LEMMA CallingInv ==
  ASSUME NEW round \in 0..MaxRetries, NEW sends, AllFailed(sends),
         Len(sends) <= 2 * round, Calling(round, sends)
  PROVE  ToolInv'
<1> DEFINE next == Append(sends, "open")
<1>1. CASE tool' = [pc |-> "sent", round |-> round, end |-> "none", sends |-> next]
  <2>1. EarlierFailed(next) /\ Len(next) <= 2 * round + 1
    BY AppendOpen DEF AllFailed
  <2> HIDE DEF next
  <2> QED
    BY <1>1, <2>1 DEF ToolInv, ToolTypeOK, ToolCalls, SendsInOrder, EarlierFailed
<1>2. ASSUME NEW e \in {"error", "oserror"}, Caught(e, round, sends)
      PROVE  ToolInv'
  <2>1. Len(sends) <= 2 * round + 2
    BY DEF AllFailed
  <2> QED
    BY <1>2, <2>1, CaughtInv
<1> QED
  BY <1>1, <1>2 DEF Calling

LEMMA ToolInvStep == ToolInv /\ [ToolNext]_tool => ToolInv'
<1> SUFFICES ASSUME ToolInv, [ToolNext]_tool PROVE ToolInv'
  OBVIOUS
<1> USE ToolAssumption
<1>1. /\ tool \in ToolCalls
      /\ tool.round \in 0..MaxRetries /\ tool.sends \in Seq(Ends) /\ Len(tool.sends) \in Nat
  BY DEF ToolInv, ToolTypeOK, ToolCalls
<1>2. CASE Dispatch
  <2>1. AllFailed(<<>>) /\ Len(<<>>) <= 2 * 0 /\ 0 \in 0..MaxRetries
    BY DEF AllFailed
  <2>2. CASE tool' = Refused
    BY <2>2, NoCallTyped DEF Refused
  <2>3. CASE Calling(0, <<>>)
    BY <2>1, <2>3, CallingInv
  <2> QED
    BY <1>2, <2>2, <2>3 DEF Dispatch
<1>3. CASE Returns
  BY <1>3, NoCallTyped DEF Returns
<1>4. ASSUME NEW e \in Broken \cup Retryable \cup {"error"}, Fails(e)
      PROVE  ToolInv'
  <2> DEFINE sends == Ended(tool.sends, e)
  <2>1. EarlierFailed(tool.sends) /\ tool.pc \in {"sent", "resent"}
    BY <1>4 DEF Fails, ToolInv, SendsInOrder
  <2>2. CASE tool.pc = "sent" /\ e \in Broken
    <3>1. AllFailed(sends) /\ Len(sends) <= 2 * tool.round + 1
      BY <1>1, <2>1, <2>2, EndedFailed DEF Failures, ToolInv, SendsInOrder
    <3>2. tool' = [tool EXCEPT !.pc = "reconnecting", !.sends = sends]
      BY <1>4, <2>2 DEF Fails
    <3> HIDE DEF sends
    <3>3. tool' \in ToolCalls
      BY <1>1, <3>1, <3>2 DEF ToolCalls, AllFailed
    <3>4. tool'.pc = "reconnecting" /\ tool'.round = tool.round /\ tool'.sends = sends
      BY <1>1, <3>2 DEF ToolCalls
    <3> QED
      BY <3>1, <3>3, <3>4 DEF ToolInv, ToolTypeOK, SendsInOrder
  <2>3. CASE ~(tool.pc = "sent" /\ e \in Broken)
    <3>1. Caught(e, tool.round, sends)
      BY <1>4, <2>3 DEF Fails
    <3>2. CASE e \in Failures
      <4>1. AllFailed(sends) /\ Len(sends) <= 2 * tool.round + 2
        BY <1>1, <2>1, <3>2, EndedFailed DEF ToolInv, SendsInOrder
      <4> HIDE DEF sends
      <4> QED
        BY <1>1, <3>1, <4>1, CaughtInv
    <3>3. CASE e \notin Failures
      BY <3>1, <3>3, NoCallTyped DEF Caught, Failures
    <3> QED
      BY <3>2, <3>3
  <2> QED
    BY <2>2, <2>3
<1>5. CASE Reconnected
  <2> DEFINE sends == Append(tool.sends, "open")
  <2>1. EarlierFailed(sends) /\ Len(sends) <= 2 * tool.round + 2
    BY <1>1, <1>5, AppendOpen DEF Reconnected, ToolInv, SendsInOrder
  <2>2. tool' = [tool EXCEPT !.pc = "resent", !.sends = sends]
    BY <1>5 DEF Reconnected
  <2> HIDE DEF sends
  <2>3. tool' \in ToolCalls
    BY <1>1, <2>1, <2>2 DEF ToolCalls, EarlierFailed
  <2>4. tool'.pc = "resent" /\ tool'.round = tool.round /\ tool'.sends = sends
    BY <1>1, <2>2 DEF ToolCalls
  <2> QED
    BY <2>1, <2>3, <2>4 DEF ToolInv, ToolTypeOK, SendsInOrder
<1>6. CASE ReconnectFails
  <2>1. AllFailed(tool.sends) /\ Len(tool.sends) <= 2 * tool.round + 2
    BY <1>1, <1>6 DEF ReconnectFails, ToolInv, SendsInOrder
  <2> QED
    BY <1>1, <1>6, <2>1, CaughtInv DEF ReconnectFails
<1>7. CASE Again
  <2>1. /\ AllFailed(tool.sends) /\ tool.round + 1 \in 0..MaxRetries
        /\ Len(tool.sends) <= 2 * (tool.round + 1)
    BY <1>1, <1>7 DEF Again, ToolInv, SendsInOrder
  <2> QED
    BY <1>7, <2>1, CallingInv DEF Again
<1>8. CASE TimesOut
  BY <1>8, NoCallTyped DEF TimesOut
<1>9. CASE UNCHANGED tool
  BY <1>9 DEF ToolInv, ToolTypeOK, SendsInOrder
<1> QED
  BY <1>2, <1>3, <1>4, <1>5, <1>6, <1>7, <1>8, <1>9 DEF ToolNext, Execute

-----------------------------------------------------------------------------
(* The theorems.                                                           *)

LEMMA Product ==
  ASSUME NEW m \in Nat, NEW a \in Nat, NEW r \in Nat
  PROVE  m * a * (r + 1) = m * (r * a + a)
<1>1. (r + 1) * a = r * a + a
  BY Distribute
<1>2. m * a * (r + 1) = m * ((r + 1) * a)
  BY SMT
<1> QED
  BY <1>1, <1>2

LEMMA LLMInvBound == LLMInv => RequestsBounded
<1> SUFFICES ASSUME LLMInv PROVE RequestsBounded
  OBVIOUS
<1> DEFINE R == Repairs(llm.kind)
           P == PerModel(llm.kind)
<1>1. /\ llm.model \in Nat /\ llm.repair \in Nat /\ llm.attempt \in Nat /\ llm.spent \in Nat
      /\ llm.attempt <= MaxAttempts /\ llm.repair <= R /\ llm.model <= Models
      /\ MaxAttempts \in Nat /\ R \in Nat /\ Models \in Nat
  BY LLMAssumption DEF LLMInv, LLMTypeOK, Requests, SpentInOrder, Repairs
<1>2. llm.spent <= (llm.model - 1) * P + llm.repair * MaxAttempts + llm.attempt
  BY DEF LLMInv, SpentInOrder
<1>3. P = R * MaxAttempts + MaxAttempts /\ P \in Nat
  BY <1>1 DEF PerModel
<1>4. llm.repair * MaxAttempts <= R * MaxAttempts
  BY <1>1, Monotone
<1>5. llm.model * P = (llm.model - 1) * P + P /\ llm.model * P <= Models * P
  BY <1>1, <1>3, Distribute, Monotone
<1>6. /\ (llm.model - 1) * P \in Int /\ llm.repair * MaxAttempts \in Int
      /\ R * MaxAttempts \in Int /\ llm.model * P \in Int /\ Models * P \in Int
  BY <1>1, <1>3
<1>7. Models * MaxAttempts * (R + 1) = Models * P
  BY <1>1, <1>3, Product
<1>8. R + 1 = IF llm.kind = "tools" THEN MaxRepairs + 1 ELSE 1
  BY LLMAssumption DEF Repairs
<1> HIDE DEF R, P
<1>9. llm.spent <= Models * P
  BY <1>1, <1>2, <1>3, <1>4, <1>5, <1>6
<1> QED
  BY <1>7, <1>8, <1>9 DEF RequestsBounded

LEMMA ToolInvBound == ToolInv => ResendsOnlyBroken
<1> SUFFICES ASSUME ToolInv PROVE ResendsOnlyBroken
  OBVIOUS
<1>1. tool.round \in 0..MaxRetries /\ tool.sends \in Seq(Ends) /\ Len(tool.sends) \in Nat
  BY DEF ToolInv, ToolTypeOK, ToolCalls
<1>2. Len(tool.sends) <= 2 * (MaxRetries + 1)
  BY <1>1, ToolAssumption DEF ToolInv, SendsInOrder
<1>3. \A i \in 1..Len(tool.sends) - 1 : tool.sends[i] \in Failures
  BY <1>1 DEF ToolInv, ToolTypeOK, ToolCalls, SendsInOrder, AllFailed, EarlierFailed
<1> QED
  BY <1>2, <1>3 DEF ResendsOnlyBroken, Failures

(* A logical request to the LLM service costs at most models x attempts x  *)
(* (repairs + 1) requests to the providers, whatever limits the            *)
(* configuration sets: no loop of complete, complete_with_tools and        *)
(* tenacity starts another one over, in any request the phase makes.       *)
THEOREM RequestsCorrect == Spec => []RequestsBounded
<1>1. Init => LLMInv
  BY LLMInvInit DEF Init
<1>2. LLMInv /\ [Next]_vars => LLMInv'
  <2>1. [Next]_vars => [LLMNext]_llm
    BY ComponentSteps DEF vars
  <2> QED
    BY <2>1, LLMInvStep
<1>3. LLMInv => RequestsBounded
  BY LLMInvBound
<1> QED
  BY <1>1, <1>2, <1>3, PTL DEF Spec

(* Whatever the executor's number of retries, a tool call is sent at most  *)
(* twice in each round of the executor, and never again after an answer,   *)
(* an error of the server or a timeout: the resend of MCPClient.call_tool  *)
(* and retry_with_backoff do not combine into another one.                 *)
THEOREM ResendsCorrect == Spec => []ResendsOnlyBroken
<1>1. Init => ToolInv
  BY ToolInvInit DEF Init
<1>2. ToolInv /\ [Next]_vars => ToolInv'
  <2>1. [Next]_vars => [ToolNext]_tool
    BY ComponentSteps DEF vars
  <2> QED
    BY <2>1, ToolInvStep
<1>3. ToolInv => ResendsOnlyBroken
  BY ToolInvBound
<1> QED
  BY <1>1, <1>2, <1>3, PTL DEF Spec

-----------------------------------------------------------------------------
(* The steps of the phase and what they report.                            *)

Part == {"prose", "blank", "dump", "reply"}

Records == [step : Nat, call : 0..MaxCalls, of : {"text", "tool", "peer", "error"}, ok : BOOLEAN]

Places == [pc : {"step", "turn", "calls", "calling", "select", "planned", "text",
                 "fallback", "close", "synthesis", "returned"},
           step : 1..MaxSteps + 1, queue : Seq(Call), single : BOOLEAN, prose : BOOLEAN,
           tools : Seq(Records), peers : Seq(Records)]

Typed ==
  /\ plan \in Seq({"none", "tool", "peer"}) /\ Len(plan) <= MaxSteps
  /\ run \in [tools : BOOLEAN, peers : BOOLEAN, suppress : BOOLEAN]
  /\ act \in Places
  /\ out \in [results : Seq(Records), parts : Seq(Part)]
  /\ made \in Seq(Nat \X Nat)

Batch == act.pc \in {"calls", "calling"}

\* The calls of the turn, those that are over included.
TurnLength == Len(act.queue) + Len(act.tools) + Len(act.peers)

\* The steps are those of the plan, one after the other.
InPlan ==
  /\ act.pc = "step" => act.step = 1 \/ act.step <= Len(plan)
  /\ act.pc \notin {"step", "close", "synthesis", "returned"} => act.step <= Len(plan)
  /\ act.pc \in {"close", "synthesis"} => act.step = Len(plan) + 1 /\ plan # <<>>
  /\ act.pc \in {"step", "turn"} => act.tools = <<>> /\ act.peers = <<>>
  /\ Batch => TurnLength \in 1..MaxCalls /\ (act.single => TurnLength = 1)
  /\ act.pc = "calling" => act.queue # <<>>

\* No result, or one result, of call n of step s.
NoneIn(results, s, n) ==
  \A i \in 1..Len(results) : ~(results[i].step = s /\ results[i].call = n)
OneIn(results, s, n) ==
  \E i \in 1..Len(results) :
     /\ results[i].step = s /\ results[i].call = n /\ results[i].of \in {"tool", "peer"}
     /\ \A j \in 1..Len(results) : results[j].step = s /\ results[j].call = n => j = i

IsMade(s, n) == \E k \in 1..Len(made) : made[k] = <<s, n>>

\* The calls of this step that may have been dispatched.
Due == CASE act.pc = "calls" -> 1..Number - 1
         [] act.pc = "calling" -> 1..Number
         [] act.pc \in {"planned", "fallback"} -> {1}
         [] OTHER -> {}

\* No call is dispatched twice.
Dispatched ==
  /\ \A k, l \in 1..Len(made) : made[k] = made[l] => k = l
  /\ \A s, n \in Nat : IsMade(s, n) => s \in 1..act.step /\ n > 0
  /\ \A n \in Nat : IsMade(act.step, n) => n \in Due

\* The first m calls of step s have a result in one of the two lists.
HeldIn(tools, peers, s, m) ==
  /\ \A i \in 1..Len(tools) : tools[i].step = s /\ tools[i].of = "tool" /\ tools[i].call \in 1..m
  /\ \A i \in 1..Len(peers) : peers[i].step = s /\ peers[i].of = "peer" /\ peers[i].call \in 1..m
  /\ \A n \in 1..m : \/ OneIn(tools, s, n) /\ NoneIn(peers, s, n)
                     \/ NoneIn(tools, s, n) /\ OneIn(peers, s, n)

Held == Batch => HeldIn(act.tools, act.peers, act.step, Number - 1)

\* The steps that are over have left results, in order.
Reported ==
  /\ \A i, j \in 1..Len(out.results) : i < j => out.results[i].step <= out.results[j].step
  /\ act.pc # "returned" => \A i \in 1..Len(out.results) : out.results[i].step < act.step
  /\ \A s \in 1..act.step - 1 : \E i \in 1..Len(out.results) : out.results[i].step = s
  /\ act.step - 1 <= Len(out.results)
  /\ \A s, n \in Nat : IsMade(s, n) /\ s < act.step => OneIn(out.results, s, n)

\* A dump at the end of the response is known to the closing turn, or it could not be avoided.
Spoken ==
  /\ act.pc \in {"turn", "text", "select", "fallback", "synthesis"} => llm.pc # "idle"
  /\ act.step = 1 => out.parts = <<>>
  /\ act.pc = "close" /\ EndsInDump(out.parts) => EndsOnTool \/ NoText
  /\ EndsInProse

StepInv == Typed /\ InPlan /\ Dispatched /\ Held /\ Reported /\ Spoken


-----------------------------------------------------------------------------
(* Sequences of results and of calls.                                      *)

LEMMA Concatenated ==
  ASSUME NEW S, NEW a \in Seq(S), NEW b \in Seq(S)
  PROVE  /\ a \o b \in Seq(S) /\ Len(a \o b) = Len(a) + Len(b)
         /\ \A i \in 1..Len(a) : (a \o b)[i] = a[i]
         /\ \A i \in 1..Len(b) : (a \o b)[Len(a) + i] = b[i]
         /\ \A i \in 1..Len(a) + Len(b) :
               i \in 1..Len(a) \/ (i - Len(a) \in 1..Len(b) /\ (a \o b)[i] = b[i - Len(a)])
  OBVIOUS

LEMMA ConcatOne ==
  ASSUME NEW a \in Seq(Records), NEW b \in Seq(Records), NEW s, NEW n
  PROVE  /\ OneIn(a, s, n) /\ NoneIn(b, s, n) => OneIn(a \o b, s, n)
         /\ NoneIn(a, s, n) /\ OneIn(b, s, n) => OneIn(a \o b, s, n)
         /\ NoneIn(a, s, n) /\ NoneIn(b, s, n) => NoneIn(a \o b, s, n)
<1> DEFINE c == a \o b
<1>1. /\ c \in Seq(Records) /\ Len(c) = Len(a) + Len(b) /\ Len(a) \in Nat /\ Len(b) \in Nat
      /\ \A i \in 1..Len(a) : c[i] = a[i]
      /\ \A i \in 1..Len(b) : c[Len(a) + i] = b[i]
      /\ \A i \in 1..Len(a) + Len(b) :
            i \in 1..Len(a) \/ (i - Len(a) \in 1..Len(b) /\ c[i] = b[i - Len(a)])
  BY Concatenated
<1> HIDE DEF c
<1>2. ASSUME OneIn(a, s, n), NoneIn(b, s, n) PROVE OneIn(c, s, n)
  <2>1. PICK i \in 1..Len(a) :
           /\ a[i].step = s /\ a[i].call = n /\ a[i].of \in {"tool", "peer"}
           /\ \A j \in 1..Len(a) : a[j].step = s /\ a[j].call = n => j = i
    BY <1>2 DEF OneIn
  <2>2. \A j \in 1..Len(c) : c[j].step = s /\ c[j].call = n => j = i
    BY <1>1, <1>2, <2>1 DEF NoneIn
  <2>3. i \in 1..Len(c) /\ c[i] = a[i]
    BY <1>1, <2>1
  <2> QED
    BY <2>1, <2>2, <2>3 DEF OneIn
<1>3. ASSUME NoneIn(a, s, n), OneIn(b, s, n) PROVE OneIn(c, s, n)
  <2>1. PICK i \in 1..Len(b) :
           /\ b[i].step = s /\ b[i].call = n /\ b[i].of \in {"tool", "peer"}
           /\ \A j \in 1..Len(b) : b[j].step = s /\ b[j].call = n => j = i
    BY <1>3 DEF OneIn
  <2>2. ASSUME NEW j \in 1..Len(c), c[j].step = s, c[j].call = n PROVE j = Len(a) + i
    <3>1. CASE j \in 1..Len(a)
      BY <1>1, <1>3, <2>2, <3>1 DEF NoneIn
    <3>2. CASE j - Len(a) \in 1..Len(b) /\ c[j] = b[j - Len(a)]
      <4>1. j - Len(a) = i
        BY <2>1, <2>2, <3>2
      <4> QED
        BY <1>1, <4>1
    <3> QED
      BY <1>1, <3>1, <3>2
  <2>3. Len(a) + i \in 1..Len(c) /\ c[Len(a) + i] = b[i]
    BY <1>1, <2>1
  <2> QED
    BY <2>1, <2>2, <2>3 DEF OneIn
<1>4. ASSUME NoneIn(a, s, n), NoneIn(b, s, n) PROVE NoneIn(c, s, n)
  BY <1>1, <1>4 DEF NoneIn
<1> QED
  BY <1>2, <1>3, <1>4 DEF c

LEMMA SingleOne ==
  ASSUME NEW r \in Records
  PROVE  /\ <<r>> \in Seq(Records) /\ <<r>> # <<>> /\ Len(<<r>>) = 1 /\ <<r>>[1] = r
         /\ r.of \in {"tool", "peer"} => OneIn(<<r>>, r.step, r.call)
         /\ \A s, n : ~(r.step = s /\ r.call = n) => NoneIn(<<r>>, s, n)
  BY DEF OneIn, NoneIn

LEMMA AppendOne ==
  ASSUME NEW a \in Seq(Records), NEW r \in Records
  PROVE  /\ Append(a, r) \in Seq(Records) /\ Len(Append(a, r)) = Len(a) + 1
         /\ Append(a, r)[Len(a) + 1] = r
         /\ \A i \in 1..Len(a) : Append(a, r)[i] = a[i]
         /\ \A s, n : OneIn(a, s, n) /\ ~(r.step = s /\ r.call = n) => OneIn(Append(a, r), s, n)
         /\ \A s, n : NoneIn(a, s, n) /\ ~(r.step = s /\ r.call = n) => NoneIn(Append(a, r), s, n)
         /\ r.of \in {"tool", "peer"} /\ NoneIn(a, r.step, r.call) => OneIn(Append(a, r), r.step, r.call)
<1> DEFINE c == Append(a, r)
<1>1. /\ c \in Seq(Records) /\ Len(c) = Len(a) + 1 /\ c[Len(a) + 1] = r /\ Len(a) \in Nat
      /\ \A i \in 1..Len(a) : c[i] = a[i]
  OBVIOUS
<1> HIDE DEF c
<1>2. ASSUME NEW s, NEW n, OneIn(a, s, n), ~(r.step = s /\ r.call = n) PROVE OneIn(c, s, n)
  <2>1. PICK i \in 1..Len(a) :
           /\ a[i].step = s /\ a[i].call = n /\ a[i].of \in {"tool", "peer"}
           /\ \A j \in 1..Len(a) : a[j].step = s /\ a[j].call = n => j = i
    BY <1>2 DEF OneIn
  <2>2. \A j \in 1..Len(c) : c[j].step = s /\ c[j].call = n => j = i
    BY <1>1, <1>2, <2>1
  <2>3. i \in 1..Len(c) /\ c[i] = a[i]
    BY <1>1
  <2> QED
    BY <2>1, <2>2, <2>3 DEF OneIn
<1>3. ASSUME NEW s, NEW n, NoneIn(a, s, n), ~(r.step = s /\ r.call = n) PROVE NoneIn(c, s, n)
  BY <1>1, <1>3 DEF NoneIn
<1>4. ASSUME r.of \in {"tool", "peer"}, NoneIn(a, r.step, r.call) PROVE OneIn(c, r.step, r.call)
  BY <1>1, <1>4 DEF NoneIn, OneIn
<1> QED
  BY <1>1, <1>2, <1>3, <1>4 DEF c

\* A call that was not dispatched before is.
LEMMA MadeOnce ==
  ASSUME Typed, Dispatched, NEW s \in Nat, NEW n \in Nat, ~IsMade(s, n),
         made' = Append(made, <<s, n>>)
  PROVE  /\ made' \in Seq(Nat \X Nat)
         /\ \A k, l \in 1..Len(made') : made'[k] = made'[l] => k = l
         /\ \A t, m \in Nat : IsMade(t, m)' <=> IsMade(t, m) \/ (t = s /\ m = n)
<1> DEFINE c == <<s, n>>
<1>1. made \in Seq(Nat \X Nat) /\ Len(made) \in Nat /\ c \in Nat \X Nat
  BY DEF Typed
<1>2. \A k \in 1..Len(made) : made[k] # c
  BY DEF IsMade
<1>3. made' = Append(made, c)
  OBVIOUS
<1>4. \A t, m \in Nat : <<t, m>> = c <=> t = s /\ m = n
  OBVIOUS
<1> HIDE DEF c
<1>5. /\ made' \in Seq(Nat \X Nat) /\ Len(made') = Len(made) + 1 /\ made'[Len(made) + 1] = c
      /\ \A k \in 1..Len(made) : made'[k] = made[k]
  BY <1>1, <1>3
<1>6. \A k, l \in 1..Len(made') : made'[k] = made'[l] => k = l
  <2> TAKE k, l \in 1..Len(made')
  <2> HAVE made'[k] = made'[l]
  <2>1. CASE k \in 1..Len(made) /\ l \in 1..Len(made)
    BY <1>5, <2>1 DEF Dispatched
  <2>2. CASE k = Len(made) + 1 \/ l = Len(made) + 1
    <3>1. k \in 1..Len(made) \/ (k = Len(made) + 1 /\ made'[k] = c)
      <4>1. k \in 1..Len(made) \/ k = Len(made) + 1
        BY <1>1, <1>5
      <4> QED
        BY <1>5, <4>1
    <3>2. l \in 1..Len(made) \/ (l = Len(made) + 1 /\ made'[l] = c)
      BY <1>1, <1>5
    <3>3. k \in 1..Len(made) => made'[k] # c
      BY <1>2, <1>5
    <3>4. l \in 1..Len(made) => made'[l] # c
      BY <1>2, <1>5
    <3> QED
      BY <2>2, <3>1, <3>2, <3>3, <3>4
  <2> QED
    BY <1>1, <1>5, <2>1, <2>2
<1>7. ASSUME NEW t \in Nat, NEW m \in Nat PROVE IsMade(t, m)' <=> IsMade(t, m) \/ <<t, m>> = c
  <2> DEFINE d == <<t, m>>
  <2>1. /\ IsMade(t, m) <=> \E k \in 1..Len(made) : made[k] = d
        /\ IsMade(t, m)' <=> \E k \in 1..Len(made') : made'[k] = d
    BY DEF IsMade
  <2> HIDE DEF d
  <2>2. ASSUME NEW k \in 1..Len(made), made[k] = d PROVE \E i \in 1..Len(made') : made'[i] = d
    <3>1. k \in 1..Len(made') /\ made'[k] = d
      BY <1>1, <1>5, <2>2
    <3> QED
      BY <3>1
  <2>3. ASSUME d = c PROVE \E i \in 1..Len(made') : made'[i] = d
    <3>1. Len(made) + 1 \in 1..Len(made')
      BY <1>1, <1>5
    <3> QED
      BY <1>5, <2>3, <3>1
  <2>4. ASSUME NEW i \in 1..Len(made'), made'[i] = d
        PROVE  d = c \/ \E k \in 1..Len(made) : made[k] = d
    <3>1. CASE i \in 1..Len(made)
      BY <1>5, <2>4, <3>1
    <3>2. CASE i = Len(made) + 1
      BY <1>5, <2>4, <3>2
    <3>3. Len(made) \in Nat /\ i \in 1..Len(made) + 1
      BY <1>1, <1>5
    <3>4. i \in 1..Len(made) \/ i = Len(made) + 1
      BY <3>3
    <3> QED
      BY <3>1, <3>2, <3>4, Zenon
  <2>5. IsMade(t, m)' <=> IsMade(t, m) \/ d = c
    BY <2>1, <2>2, <2>3, <2>4
  <2> QED
    BY <2>5 DEF d
<1> QED
  BY <1>4, <1>5, <1>6, <1>7


-----------------------------------------------------------------------------
(* What a step of the phase does to where it is.                           *)

LEMMA Moved ==
  ASSUME Typed, NEW pc \in {"step", "turn", "calls", "calling", "select", "planned", "text",
                            "fallback", "close", "synthesis", "returned"},
         act' = [act EXCEPT !.pc = pc]
  PROVE  /\ act' \in Places /\ act'.pc = pc
         /\ act'.step = act.step /\ act'.queue = act.queue /\ act'.single = act.single
         /\ act'.tools = act.tools /\ act'.peers = act.peers
  BY DEF Typed, Places

LEMMA NextStep ==
  ASSUME Typed, act.step \in 1..Len(plan), NEW results, NEW parts, StepDone(results, parts)
  PROVE  /\ act' \in Places
         /\ act'.pc = (IF act.step = Len(plan) THEN "close" ELSE "step")
         /\ act'.step = act.step + 1 /\ act'.tools = <<>> /\ act'.peers = <<>>
         /\ out'.results = out.results \o results
         /\ out'.parts = out.parts \o parts
         /\ out' = [results |-> out.results \o results, parts |-> out.parts \o parts]
<1> DEFINE n == act.step + 1
<1>1. n \in 1..MaxSteps + 1
  BY ActAssumption DEF Typed, Places
<1>2. act' = [pc |-> IF act.step = Len(plan) THEN "close" ELSE "step", step |-> n, queue |-> <<>>,
              single |-> FALSE, prose |-> FALSE, tools |-> <<>>, peers |-> <<>>]
  BY DEF StepDone, Start
<1> HIDE DEF n
<1>3. act' \in Places
  BY <1>1, <1>2 DEF Places
<1>4. out' = [results |-> out.results \o results, parts |-> out.parts \o parts]
  BY DEF StepDone
<1>5. /\ act'.pc = (IF act.step = Len(plan) THEN "close" ELSE "step")
      /\ act'.step = n /\ act'.tools = <<>> /\ act'.peers = <<>>
  BY <1>2
<1> QED
  BY <1>3, <1>4, <1>5 DEF n

\* A text or a reply that is not empty is what the reader sees last.
LEMMA SpokenLast ==
  ASSUME NEW parts \in Seq(Part), parts # <<>>, Last(parts) \in {"prose", "reply"}
  PROVE  ~EndsInDump(parts)
<1>1. SUFFICES ASSUME NEW i \in DOMAIN parts, parts[i] = "dump",
                      \A j \in DOMAIN parts : i < j => parts[j] = "blank"
               PROVE  FALSE
  BY DEF EndsInDump
<1>2. Len(parts) \in DOMAIN parts /\ DOMAIN parts = 1..Len(parts) /\ Len(parts) \in Nat
  OBVIOUS
<1>3. parts[Len(parts)] \in {"prose", "reply"}
  BY DEF Last
<1> QED
  BY <1>1, <1>2, <1>3

\* A step is over: it leaves its results, at least one, and what it dispatched is among them.
LEMMA StepDoneInv ==
  ASSUME StepInv, act.step \in 1..Len(plan), act.pc # "returned",
         NEW results \in Seq(Records), results # <<>>, NEW parts \in Seq(Part),
         \A i \in 1..Len(results) : results[i].step = act.step,
         StepDone(results, parts), UNCHANGED <<plan, run, llm>>,
         made' \in Seq(Nat \X Nat),
         \A k, l \in 1..Len(made') : made'[k] = made'[l] => k = l,
         \A s, n \in Nat : IsMade(s, n)' => (IsMade(s, n) \/ s = act.step) /\ n > 0,
         \A s, n \in Nat : IsMade(s, n)' /\ s = act.step => OneIn(results, s, n),
         \/ Last(results).of = "tool" \/ NoText
         \/ parts # <<>> /\ Last(parts) \in {"prose", "reply"}
  PROVE  StepInv'
<1> USE DEF StepInv
<1>1. /\ act' \in Places
      /\ act'.pc = (IF act.step = Len(plan) THEN "close" ELSE "step")
      /\ act'.step = act.step + 1 /\ act'.tools = <<>> /\ act'.peers = <<>>
      /\ out'.results = out.results \o results
      /\ out'.parts = out.parts \o parts
      /\ out' = [results |-> out.results \o results, parts |-> out.parts \o parts]
  BY NextStep
<1>2. out.results \in Seq(Records) /\ out.parts \in Seq(Part)
  BY DEF Typed
<1>3. /\ out'.results \in Seq(Records) /\ Len(out'.results) = Len(out.results) + Len(results)
      /\ \A i \in 1..Len(out.results) : out'.results[i] = out.results[i]
      /\ \A i \in 1..Len(results) : out'.results[Len(out.results) + i] = results[i]
      /\ \A i \in 1..Len(out.results) + Len(results) :
            i \in 1..Len(out.results) \/ (i - Len(out.results) \in 1..Len(results)
                                            /\ out'.results[i] = results[i - Len(out.results)])
  BY <1>1, <1>2, Concatenated
<1>4. Typed'
  BY <1>1, <1>2, <1>3 DEF Typed
<1>5. InPlan' /\ Held'
  <2>1. act.step \in Nat /\ Len(plan) \in Nat /\ Len(plan') = Len(plan) /\ plan' # <<>>
    BY DEF Typed, Places
  <2>2. act'.pc \in {"step", "close"} /\ ~Batch'
    BY <1>1 DEF Batch
  <2>3. InPlan'
    BY <1>1, <2>1, <2>2 DEF InPlan
  <2> QED
    BY <2>2, <2>3 DEF Held
<1>6. Dispatched'
  <2>1. \A s, n \in Nat : IsMade(s, n)' => s \in 1..act.step /\ n > 0
    BY DEF Dispatched
  <2>2. act.step \in Nat /\ act'.step = act.step + 1
    BY <1>1 DEF Typed, Places
  <2>3. \A s, n \in Nat : IsMade(s, n)' => s \in 1..act'.step /\ s # act'.step /\ n > 0
    BY <2>1, <2>2
  <2>4. \A n \in Nat : ~IsMade(act.step, n)'
    BY <2>2, <2>3 DEF IsMade
  <2> QED
    BY <2>3, <2>4 DEF Dispatched
<1>7. Reported'
  <2>1. /\ act.step \in Nat /\ Len(out.results) \in Nat /\ Len(results) \in Nat /\ Len(results) > 0
        /\ act.step - 1 <= Len(out.results)
    BY <1>2 DEF Typed, Places, Reported
  <2>2. \A i \in 1..Len(out.results) : out.results[i].step < act.step
    BY DEF Reported
  <2>3. ASSUME NEW i \in 1..Len(out'.results)
        PROVE  out'.results[i].step < act.step + 1 /\ out'.results[i].step \in Nat
    <3>1. out'.results[i].step \in Nat
      <4>1. out'.results[i] \in Records
        BY <1>3
      <4> QED
        BY <4>1 DEF Records
    <3>2. CASE i \in 1..Len(out.results)
      <4>1. out'.results[i].step < act.step
        BY <1>3, <2>2, <3>2
      <4> QED
        BY <2>1, <3>1, <4>1
    <3>3. CASE i - Len(out.results) \in 1..Len(results) /\ out'.results[i] = results[i - Len(out.results)]
      <4>1. out'.results[i].step = act.step
        BY <3>3
      <4> QED
        BY <2>1, <3>1, <4>1
    <3> QED
      BY <1>3, <3>1, <3>2, <3>3
  <2>4. ASSUME NEW i \in 1..Len(out'.results), NEW j \in 1..Len(out'.results), i < j
        PROVE  out'.results[i].step <= out'.results[j].step
    <3>1. CASE j \in 1..Len(out.results)
      <4>1. i \in 1..Len(out.results)
        BY <2>1, <2>4, <3>1
      <4> QED
        BY <1>3, <2>4, <3>1, <4>1 DEF Reported
    <3>2. CASE j - Len(out.results) \in 1..Len(results) /\ out'.results[j] = results[j - Len(out.results)]
      <4>1. out'.results[j].step = act.step
        BY <3>2
      <4>2. out'.results[i].step < act.step + 1 /\ out'.results[i].step \in Nat
        BY <2>3
      <4> QED
        BY <2>1, <4>1, <4>2
    <3> QED
      BY <1>3, <3>1, <3>2
  <2>5. ASSUME NEW s \in 1..act.step PROVE \E i \in 1..Len(out'.results) : out'.results[i].step = s
    <3>1. CASE s \in 1..act.step - 1
      <4>1. PICK i \in 1..Len(out.results) : out.results[i].step = s
        BY <3>1 DEF Reported
      <4>2. i \in 1..Len(out'.results)
        BY <1>3, <2>1
      <4>3. out'.results[i] = out.results[i]
        BY <1>3
      <4> QED
        BY <4>1, <4>2, <4>3
    <3>2. CASE s = act.step
      <4>1. out'.results[Len(out.results) + 1] = results[1] /\ results[1].step = act.step
        BY <1>3, <2>1
      <4>2. Len(out.results) + 1 \in 1..Len(out'.results)
        BY <1>3, <2>1
      <4> QED
        BY <3>2, <4>1, <4>2
    <3> QED
      BY <2>1, <3>1, <3>2
  <2>6. ASSUME NEW s \in Nat, NEW n \in Nat, IsMade(s, n)', s < act.step + 1
        PROVE  OneIn(out'.results, s, n)
    <3>1. CASE s = act.step
      <4>1. OneIn(results, s, n)
        BY <2>6, <3>1
      <4>2. NoneIn(out.results, s, n)
        BY <2>1, <2>2, <3>1 DEF NoneIn
      <4> QED
        BY <1>1, <1>2, <4>1, <4>2, ConcatOne
    <3>2. CASE s < act.step
      <4>1. OneIn(out.results, s, n)
        BY <2>6, <3>2 DEF Reported
      <4>2. NoneIn(results, s, n)
        BY <2>1, <3>2 DEF NoneIn
      <4> QED
        BY <1>1, <1>2, <4>1, <4>2, ConcatOne
    <3> QED
      BY <2>1, <2>6, <3>1, <3>2
  <2>7. act.step <= Len(out'.results)
    BY <1>3, <2>1
  <2>8. /\ act'.step = act.step + 1 /\ (act'.step - 1) = act.step
        /\ \A s \in Nat : s < act'.step <=> s < act.step + 1
    BY <1>1, <2>1
  <2>9. /\ \A i, j \in 1..Len(out'.results) : i < j => out'.results[i].step <= out'.results[j].step
        /\ \A i \in 1..Len(out'.results) : out'.results[i].step < act'.step
        /\ \A s \in 1..act'.step - 1 : \E i \in 1..Len(out'.results) : out'.results[i].step = s
        /\ act'.step - 1 <= Len(out'.results)
    BY <2>3, <2>4, <2>5, <2>7, <2>8
  <2>10. \A s, n \in Nat : IsMade(s, n)' /\ s < act'.step => OneIn(out'.results, s, n)
    BY <2>6, <2>8
  <2> QED
    BY <2>9, <2>10 DEF Reported
<1>8. Spoken'
  <2>1. act'.step # 1
    BY <1>1 DEF Typed, Places
  <2>2. ASSUME EndsInDump(out'.parts)
        PROVE  Last(out'.results).of = "tool" \/ NoText
    <3>1. Last(out'.results) = Last(results)
      BY <1>1, <1>2 DEF Last
    <3>2. CASE parts # <<>> /\ Last(parts) \in {"prose", "reply"}
      <4>1. /\ out'.parts \in Seq(Part) /\ out'.parts # <<>> /\ Last(out'.parts) = Last(parts)
        BY <1>1, <1>2, <3>2 DEF Last
      <4> QED
        BY <2>2, <3>2, <4>1, SpokenLast
    <3> QED
      BY <3>1, <3>2
  <2>3. out'.results # <<>>
    BY <1>1, <1>2
  <2> QED
    BY <1>1, <2>1, <2>2, <2>3 DEF Spoken, EndsOnTool, EndsInProse, NoText
<1> QED
  BY <1>4, <1>5, <1>6, <1>7, <1>8


LEMMA MadeSame ==
  ASSUME StepInv, UNCHANGED made
  PROVE  /\ made' \in Seq(Nat \X Nat)
         /\ \A k, l \in 1..Len(made') : made'[k] = made'[l] => k = l
         /\ \A s, n \in Nat : IsMade(s, n)' => IsMade(s, n) /\ n > 0
         /\ \A s, n \in Nat : IsMade(s, n)' /\ s = act.step => n \in Due
<1>1. \A s, n \in Nat : IsMade(s, n)' => IsMade(s, n)
  BY DEF IsMade
<1>2. \A s, n \in Nat : IsMade(s, n) /\ s = act.step => n \in Due
  BY DEF StepInv, Dispatched
<1> QED
  BY <1>1, <1>2 DEF StepInv, Typed, Dispatched

LEMMA OneResult ==
  ASSUME StepInv, act.step \in 1..Len(plan), act.pc # "returned",
         NEW r \in Records, r.step = act.step, NEW parts \in Seq(Part),
         StepDone(<<r>>, parts), UNCHANGED <<plan, run, llm>>,
         made' \in Seq(Nat \X Nat),
         \A k, l \in 1..Len(made') : made'[k] = made'[l] => k = l,
         \A s, n \in Nat : IsMade(s, n)' => (IsMade(s, n) \/ s = act.step) /\ n > 0,
         \A s, n \in Nat : IsMade(s, n)' /\ s = act.step => n = r.call /\ r.of \in {"tool", "peer"},
         r.of = "tool" \/ NoText \/ parts \in {<<"prose">>, <<"reply">>}
  PROVE  StepInv'
<1> DEFINE results == <<r>>
<1>1. results \in Seq(Records) /\ results # <<>> /\ Len(results) = 1 /\ results[1] = r
  BY SingleOne
<1>2. Last(results) = r
  BY <1>1 DEF Last
<1>3. \A s, n \in Nat : IsMade(s, n)' /\ s = act.step => OneIn(results, s, n)
  <2> SUFFICES ASSUME NEW s \in Nat, NEW n \in Nat, IsMade(s, n)', s = act.step
               PROVE  OneIn(results, s, n)
    OBVIOUS
  <2>1. r.step = s /\ r.call = n /\ r.of \in {"tool", "peer"}
    OBVIOUS
  <2> QED
    BY <2>1, SingleOne
<1>4. \A i \in 1..Len(results) : results[i].step = act.step
  BY <1>1
<1>5. r.of = "tool" \/ NoText \/ (parts # <<>> /\ Last(parts) \in {"prose", "reply"})
  <2>1. Last(<<"prose">>) = "prose" /\ Last(<<"reply">>) = "reply"
    BY DEF Last
  <2>2. <<"prose">> # <<>> /\ <<"reply">> # <<>>
    OBVIOUS
  <2> QED
    BY <2>1, <2>2, Zenon
<1>6. StepDone(results, parts)
  OBVIOUS
<1> HIDE DEF results
<1>7. \/ Last(results).of = "tool" \/ NoText
      \/ parts # <<>> /\ Last(parts) \in {"prose", "reply"}
  BY <1>2, <1>5
<1> QED
  BY <1>1, <1>3, <1>4, <1>6, <1>7, StepDoneInv

LEMMA ResultTyped ==
  ASSUME StepInv, act.step \in 1..Len(plan), NEW n \in 0..MaxCalls,
         NEW of \in {"text", "tool", "peer", "error"}, NEW ok \in BOOLEAN
  PROVE  /\ Result(n, of, ok) \in Records /\ Result(n, of, ok).step = act.step
         /\ Result(n, of, ok).call = n /\ Result(n, of, ok).of = of
  BY DEF Result, Records, StepInv, Typed

LEMMA PartsTyped == \A p \in Part : <<p>> \in Seq(Part) /\ <<>> \in Seq(Part)
  OBVIOUS

\* Prose, or an error, in a step that dispatched nothing.
LEMMA ProseInv ==
  ASSUME StepInv, act.pc \in {"turn", "text", "select"},
         (Prose /\ llm.pc = "done") \/ (StepError /\ llm.pc = "raised"), UNCHANGED <<plan, run, made, llm>>
  PROVE  StepInv'
<1>1. act.step \in 1..Len(plan) /\ 0 \in 0..MaxCalls
  BY ActAssumption DEF StepInv, Typed, Places, InPlan
<1>2. Due = {}
  BY DEF Due
<1>3. CASE Prose /\ llm.pc = "done"
  <2>1. PICK r : r = Result(0, "text", TRUE)
    OBVIOUS
  <2>2. Text \in Part /\ (Text = "prose" \/ NoText)
    BY <1>3 DEF Text, Part, NoText
  <2>3. r \in Records /\ r.step = act.step /\ StepDone(<<r>>, <<Text>>) /\ <<Text>> \in Seq(Part)
    BY <1>1, <1>3, <2>1, <2>2, ResultTyped, PartsTyped DEF Prose
  <2>4. r.of = "tool" \/ NoText \/ <<Text>> \in {<<"prose">>, <<"reply">>}
    BY <2>2
  <2> HIDE DEF Text
  <2> QED
    BY <1>1, <1>2, <2>3, <2>4, MadeSame, OneResult
<1>4. CASE StepError /\ llm.pc = "raised"
  <2>1. PICK r : r = Result(0, "error", FALSE)
    OBVIOUS
  <2>2. r \in Records /\ r.step = act.step /\ StepDone(<<r>>, <<>>) /\ <<>> \in Seq(Part)
    BY <1>1, <1>4, <2>1, ResultTyped, PartsTyped DEF StepError, Part
  <2> QED
    BY <1>1, <1>2, <1>4, <2>2, MadeSame, OneResult DEF NoText
<1> QED
  BY <1>3, <1>4

\* A planned tool is over, with its result or with prose instead of it.
LEMMA PlannedInv ==
  ASSUME StepInv, PlannedReturns \/ Fallback PROVE StepInv'
<1>1. /\ act.step \in 1..Len(plan) /\ 1 \in 0..MaxCalls /\ act.pc \in {"planned", "fallback"}
      /\ UNCHANGED <<plan, run, made, llm>>
  BY ActAssumption DEF StepInv, Typed, Places, InPlan, PlannedReturns, Fallback
<1>2. Due = {1}
  BY <1>1 DEF Due
<1>3. PICK ok \in BOOLEAN, parts \in {<<"dump">>, <<"blank">>, <<"prose">>, <<>>} :
        StepDone(<<Result(1, "tool", ok)>>, parts)
  <2>1. CASE PlannedReturns
    <3>1. StepDone(<<Result(1, "tool", tool.end = "ok")>>, <<"dump">>) /\ (tool.end = "ok") \in BOOLEAN
      BY <2>1 DEF PlannedReturns
    <3> QED
      BY <3>1
  <2>2. CASE Fallback
    BY <2>2 DEF Fallback, Text
  <2> QED
    BY <2>1, <2>2
<1>4. PICK r : r = Result(1, "tool", ok)
  OBVIOUS
<1>5. r \in Records /\ r.step = act.step /\ r.call = 1 /\ r.of = "tool"
  BY <1>1, <1>4, ResultTyped
<1>6. StepDone(<<r>>, parts) /\ parts \in Seq(Part)
  BY <1>3, <1>4, PartsTyped DEF Part
<1> QED
  BY <1>1, <1>2, <1>3, <1>5, <1>6, MadeSame, OneResult

LEMMA ConsultInv == ASSUME StepInv, ConsultPlanned PROVE StepInv'
<1>1. /\ act.step \in 1..Len(plan) /\ 1 \in 0..MaxCalls /\ act.pc = "step"
      /\ UNCHANGED <<plan, run, llm>> /\ made' = Append(made, <<act.step, 1>>)
  BY ActAssumption DEF StepInv, Typed, Places, ConsultPlanned, HasStep
<1>2. PICK ok \in BOOLEAN : StepDone(<<Result(1, "peer", ok)>>, <<"reply">>)
  BY DEF ConsultPlanned
<1>3. PICK r : r = Result(1, "peer", ok)
  OBVIOUS
<1>4. /\ r \in Records /\ r.step = act.step /\ r.call = 1 /\ r.of = "peer"
      /\ StepDone(<<r>>, <<"reply">>) /\ <<"reply">> \in Seq(Part)
  BY <1>1, <1>2, <1>3, ResultTyped, PartsTyped DEF Part
<1>5. \A n \in Nat : ~IsMade(act.step, n)
  BY <1>1 DEF StepInv, Dispatched, Due
<1>6. /\ made' \in Seq(Nat \X Nat)
      /\ \A k, l \in 1..Len(made') : made'[k] = made'[l] => k = l
      /\ \A t, m \in Nat : IsMade(t, m)' <=> IsMade(t, m) \/ (t = act.step /\ m = 1)
  <2>1. act.step \in Nat /\ 1 \in Nat /\ Typed /\ Dispatched
    BY DEF StepInv, Typed, Places
  <2>2. ~IsMade(act.step, 1)
    BY <1>5
  <2> QED
    BY <1>1, <2>1, <2>2, MadeOnce
<1>7. \A s, n \in Nat : IsMade(s, n)' /\ s = act.step => n = 1
  BY <1>5, <1>6
<1>8. \A s, n \in Nat : IsMade(s, n)' => (IsMade(s, n) \/ s = act.step) /\ n > 0
  BY <1>6 DEF StepInv, Dispatched
<1> QED
  BY <1>1, <1>4, <1>6, <1>7, <1>8, OneResult


\* The calls of a turn are over.
LEMMA BatchDone == ASSUME StepInv, CallsOver PROVE StepInv'
<1>1. /\ act.step \in 1..Len(plan) /\ act.pc = "calls" /\ Batch /\ act.queue = <<>>
      /\ UNCHANGED <<plan, run, made, llm>>
  BY DEF StepInv, Typed, Places, InPlan, CallsOver, Batch
<1>2. PICK p : p = IF act.prose THEN <<Result(0, "text", TRUE)>> ELSE <<>>
  OBVIOUS
<1>3. PICK w : w = IF act.prose THEN <<"prose">> ELSE <<>>
  OBVIOUS
<1>4. PICK d : d = [i \in DOMAIN act.tools |-> "dump"]
  OBVIOUS
<1>5. PICK e : e = [i \in DOMAIN act.peers |-> "reply"]
  OBVIOUS
<1>6. PICK a : a = act.tools
  OBVIOUS
<1>7. PICK b : b = act.peers
  OBVIOUS
<1>8. StepDone(p \o a \o b, w \o d \o e)
  BY <1>2, <1>3, <1>4, <1>5, <1>6, <1>7 DEF CallsOver
<1>9. /\ a \in Seq(Records) /\ b \in Seq(Records) /\ Len(a) \in Nat /\ Len(b) \in Nat
      /\ Number = Len(a) + Len(b) + 1 /\ Len(a) + Len(b) > 0 /\ act.step \in Nat
  <2>1. a \in Seq(Records) /\ b \in Seq(Records) /\ act.step \in Nat
    BY <1>6, <1>7 DEF StepInv, Typed, Places
  <2>2. Len(a) \in Nat /\ Len(b) \in Nat /\ Len(act.queue) = 0
    BY <1>1, <2>1
  <2>3. TurnLength \in 1..MaxCalls
    BY <1>1 DEF StepInv, InPlan
  <2>4. TurnLength = Len(act.queue) + Len(a) + Len(b)
    BY <1>6, <1>7 DEF TurnLength
  <2>5. Len(a) + Len(b) > 0
    BY <2>2, <2>3, <2>4, ActAssumption
  <2>6. Number = Len(a) + Len(b) + 1
    BY <1>6, <1>7 DEF Number
  <2> QED
    BY <2>1, <2>2, <2>5, <2>6
<1>10. /\ p \in Seq(Records)
       /\ \A i \in 1..Len(p) : p[i].step = act.step
       /\ \A n \in Nat \ {0} : NoneIn(p, act.step, n)
  <2>1. CASE act.prose
    <3>1. PICK r : r = Result(0, "text", TRUE)
      OBVIOUS
    <3>2. r \in Records /\ r.step = act.step /\ r.call = 0
      <4>1. 0 \in 0..MaxCalls
        BY ActAssumption
      <4> QED
        BY <1>1, <3>1, <4>1, ResultTyped
    <3>3. p = <<r>>
      BY <1>2, <2>1, <3>1
    <3> QED
      BY <3>2, <3>3, SingleOne
  <2>2. CASE ~act.prose
    BY <1>2, <2>2 DEF NoneIn
  <2> QED
    BY <2>1, <2>2
<1>11. w \in Seq(Part)
  BY <1>3, PartsTyped DEF Part
<1>12. d \in Seq(Part) /\ Len(d) = Len(a) /\ e \in Seq(Part) /\ Len(e) = Len(b)
  BY <1>4, <1>5, <1>6, <1>7, <1>9 DEF Part
<1>13. /\ \A i \in 1..Len(a) : a[i].step = act.step /\ a[i].of = "tool"
       /\ \A i \in 1..Len(b) : b[i].step = act.step
       /\ \A n \in 1..Len(a) + Len(b) : \/ OneIn(a, act.step, n) /\ NoneIn(b, act.step, n)
                                        \/ NoneIn(a, act.step, n) /\ OneIn(b, act.step, n)
  <2>1. HeldIn(act.tools, act.peers, act.step, Number - 1)
    BY <1>1 DEF StepInv, Held
  <2>2. Number - 1 = Len(a) + Len(b)
    BY <1>9
  <2>3. HeldIn(a, b, act.step, Len(a) + Len(b))
    BY <1>6, <1>7, <2>1, <2>2
  <2> QED
    BY <2>3 DEF HeldIn
<1> DEFINE pa == p \o a
           results == pa \o b
           wd == w \o d
           parts == wd \o e
<1>14. /\ pa \in Seq(Records) /\ Len(pa) = Len(p) + Len(a)
       /\ \A i \in 1..Len(pa) : pa[i].step = act.step
  BY <1>9, <1>10, <1>13, Concatenated
<1>15. \A n \in 1..Len(a) + Len(b) : \/ OneIn(pa, act.step, n) /\ NoneIn(b, act.step, n)
                                     \/ NoneIn(pa, act.step, n) /\ OneIn(b, act.step, n)
  BY <1>9, <1>10, <1>13, ConcatOne
<1>16. wd \in Seq(Part) /\ Len(wd) = Len(w) + Len(d)
  BY <1>11, <1>12
<1> HIDE DEF pa, wd
<1>17. /\ results \in Seq(Records) /\ Len(results) = Len(p) + Len(a) + Len(b) /\ results # <<>>
       /\ \A i \in 1..Len(results) : results[i].step = act.step
  <2>1. Len(results) = Len(pa) + Len(b) /\ Len(p) \in Nat /\ results \in Seq(Records)
    BY <1>9, <1>10, <1>14, Concatenated
  <2>2. \A i \in 1..Len(results) : results[i].step = act.step
    BY <1>9, <1>13, <1>14, Concatenated
  <2> QED
    BY <1>9, <1>14, <2>1, <2>2
<1>18. \A n \in 1..Len(a) + Len(b) : OneIn(results, act.step, n)
  BY <1>9, <1>14, <1>15, ConcatOne
<1>19. parts \in Seq(Part) /\ parts # <<>>
  <2>1. parts \in Seq(Part) /\ Len(parts) = Len(wd) + Len(e)
    BY <1>12, <1>16
  <2>2. Len(parts) > 0
    BY <1>9, <1>11, <1>12, <1>16, <2>1
  <2> QED
    BY <2>1, <2>2
<1>20. Last(parts) \in {"prose", "reply"} \/ Last(results).of = "tool"
  <2>1. CASE b # <<>>
    <3>1. Last(parts) = "reply"
      BY <1>5, <1>7, <1>9, <1>12, <1>16, <2>1 DEF Last
    <3> QED
      BY <3>1
  <2>2. CASE b = <<>>
    <3>1. results = pa /\ a # <<>> /\ Last(pa) = a[Len(a)]
      BY <1>9, <1>10, <1>14, <2>2 DEF Last, pa
    <3> QED
      BY <1>9, <1>13, <3>1
  <2> QED
    BY <2>1, <2>2
<1>21. StepDone(results, parts)
  BY <1>8 DEF pa, wd
<1> HIDE DEF results, parts
<1>22. \A s, n \in Nat : IsMade(s, n)' /\ s = act.step => OneIn(results, s, n)
  <2>1. Due = 1..Len(a) + Len(b)
    BY <1>1, <1>9 DEF Due
  <2> QED
    BY <1>1, <1>18, <2>1, MadeSame
<1> QED
  BY <1>1, <1>17, <1>19, <1>20, <1>21, <1>22, MadeSame, StepDoneInv


-----------------------------------------------------------------------------
(* The calls of a turn, one after the other.                               *)

LEMMA HeldMore ==
  ASSUME NEW a \in Seq(Records), NEW b \in Seq(Records), NEW s \in Nat, NEW m \in Nat,
         HeldIn(a, b, s, m), NEW r \in Records, r.step = s, r.call = m + 1
  PROVE  /\ r.of = "tool" => HeldIn(Append(a, r), b, s, m + 1)
         /\ r.of = "peer" => HeldIn(a, Append(b, r), s, m + 1)
<1>1. Len(a) \in Nat /\ Len(b) \in Nat /\ NoneIn(a, s, m + 1) /\ NoneIn(b, s, m + 1)
  BY DEF HeldIn, NoneIn
<1>2. ASSUME r.of = "tool" PROVE HeldIn(Append(a, r), b, s, m + 1)
  <2> DEFINE c == Append(a, r)
  <2>1. /\ Len(c) = Len(a) + 1 /\ c[Len(a) + 1] = r
        /\ \A i \in 1..Len(a) : c[i] = a[i]
        /\ \A n \in Nat : OneIn(a, s, n) /\ n # m + 1 => OneIn(c, s, n)
        /\ \A n \in Nat : NoneIn(a, s, n) /\ n # m + 1 => NoneIn(c, s, n)
        /\ OneIn(c, s, m + 1)
    BY <1>1, <1>2, AppendOne
  <2> HIDE DEF c
  <2>2. \A i \in 1..Len(c) : c[i].step = s /\ c[i].of = "tool" /\ c[i].call \in 1..m + 1
    BY <1>1, <1>2, <2>1 DEF HeldIn
  <2>3. \A i \in 1..Len(b) : b[i].step = s /\ b[i].of = "peer" /\ b[i].call \in 1..m + 1
    BY DEF HeldIn
  <2>4. \A n \in 1..m : \/ OneIn(c, s, n) /\ NoneIn(b, s, n)
                        \/ NoneIn(c, s, n) /\ OneIn(b, s, n)
    BY <2>1 DEF HeldIn
  <2>5. \A n \in 1..m + 1 : \/ OneIn(c, s, n) /\ NoneIn(b, s, n)
                            \/ NoneIn(c, s, n) /\ OneIn(b, s, n)
    BY <1>1, <2>1, <2>4
  <2> QED
    BY <2>2, <2>3, <2>5 DEF HeldIn, c
<1>3. ASSUME r.of = "peer" PROVE HeldIn(a, Append(b, r), s, m + 1)
  <2> DEFINE c == Append(b, r)
  <2>1. /\ Len(c) = Len(b) + 1 /\ c[Len(b) + 1] = r
        /\ \A i \in 1..Len(b) : c[i] = b[i]
        /\ \A n \in Nat : OneIn(b, s, n) /\ n # m + 1 => OneIn(c, s, n)
        /\ \A n \in Nat : NoneIn(b, s, n) /\ n # m + 1 => NoneIn(c, s, n)
        /\ OneIn(c, s, m + 1)
    BY <1>1, <1>3, AppendOne
  <2> HIDE DEF c
  <2>2. \A i \in 1..Len(c) : c[i].step = s /\ c[i].of = "peer" /\ c[i].call \in 1..m + 1
    BY <1>1, <1>3, <2>1 DEF HeldIn
  <2>3. \A i \in 1..Len(a) : a[i].step = s /\ a[i].of = "tool" /\ a[i].call \in 1..m + 1
    BY DEF HeldIn
  <2>4. \A n \in 1..m : \/ OneIn(a, s, n) /\ NoneIn(c, s, n)
                        \/ NoneIn(a, s, n) /\ OneIn(c, s, n)
    BY <2>1 DEF HeldIn
  <2>5. \A n \in 1..m + 1 : \/ OneIn(a, s, n) /\ NoneIn(c, s, n)
                            \/ NoneIn(a, s, n) /\ OneIn(c, s, n)
    BY <1>1, <2>1, <2>4
  <2> QED
    BY <2>2, <2>3, <2>5 DEF HeldIn, c
<1> QED
  BY <1>2, <1>3

LEMMA CollectedFields ==
  ASSUME Typed, act.queue # <<>>, NEW ok, NEW of \in {"tool", "peer"},
         Result(Number, of, ok) \in Records, Collected(of, ok)
  PROVE  /\ act' \in Places /\ act'.pc = "calls" /\ act'.step = act.step
         /\ act'.single = act.single /\ act'.queue = Tail(act.queue)
         /\ of = "tool" => act'.tools = Append(act.tools, Result(Number, of, ok)) /\ act'.peers = act.peers
         /\ of = "peer" => act'.peers = Append(act.peers, Result(Number, of, ok)) /\ act'.tools = act.tools
<1> DEFINE r == Result(Number, of, ok)
           q == Tail(act.queue)
           u == Append(act.tools, r)
           v == Append(act.peers, r)
<1>1. /\ q \in Seq(Call) /\ u \in Seq(Records) /\ v \in Seq(Records) /\ act \in Places
  BY DEF Typed, Places
<1>2. CASE of = "tool"
  <2>1. act' = [act EXCEPT !.pc = "calls", !.queue = q, !.tools = u]
    BY <1>2 DEF Collected
  <2> HIDE DEF r, q, u, v
  <2> QED
    BY <1>1, <1>2, <2>1 DEF Places, r, q, u
<1>3. CASE of = "peer"
  <2>1. act' = [act EXCEPT !.pc = "calls", !.queue = q, !.peers = v]
    BY <1>3 DEF Collected
  <2> HIDE DEF r, q, u, v
  <2> QED
    BY <1>1, <1>3, <2>1 DEF Places, r, q, v
<1> QED
  BY <1>2, <1>3


LEMMA BatchNumbers ==
  ASSUME StepInv, Batch
  PROVE  /\ Len(act.queue) \in Nat /\ Len(act.tools) \in Nat /\ Len(act.peers) \in Nat
         /\ Number = Len(act.tools) + Len(act.peers) + 1
         /\ TurnLength = Len(act.queue) + Len(act.tools) + Len(act.peers)
         /\ TurnLength \in 1..MaxCalls
         /\ act.queue # <<>> => Len(act.queue) > 0 /\ Number \in 1..MaxCalls
         /\ act.single /\ act.queue # <<>> => Number = 1
<1>1. act.queue \in Seq(Call) /\ act.tools \in Seq(Records) /\ act.peers \in Seq(Records)
  BY DEF StepInv, Typed, Places
<1>2. Len(act.queue) \in Nat /\ Len(act.tools) \in Nat /\ Len(act.peers) \in Nat
  BY <1>1
<1>3. TurnLength \in 1..MaxCalls /\ (act.single => TurnLength = 1)
  BY DEF StepInv, InPlan
<1>4. /\ Number = Len(act.tools) + Len(act.peers) + 1
      /\ TurnLength = Len(act.queue) + Len(act.tools) + Len(act.peers)
  BY DEF Number, TurnLength
<1>5. act.queue # <<>> => Len(act.queue) > 0
  BY <1>1
<1>6. ASSUME act.queue # <<>> PROVE Number \in 1..MaxCalls /\ (act.single => Number = 1)
  <2> DEFINE q == Len(act.queue)
             t == Len(act.tools)
             p == Len(act.peers)
  <2>1. q \in Nat /\ q > 0 /\ t \in Nat /\ p \in Nat /\ MaxCalls \in Nat
    BY <1>2, <1>5, <1>6, ActAssumption
  <2>2. Number = t + p + 1 /\ TurnLength = q + t + p
    BY <1>4
  <2> HIDE DEF q, t, p
  <2> QED
    BY <1>3, <2>1, <2>2
<1> QED
  BY <1>2, <1>3, <1>4, <1>5, <1>6

\* Nothing the steps before reported is touched.
LEMMA StillReported ==
  ASSUME StepInv, UNCHANGED out, act'.step = act.step, act.pc # "returned",
         \A s, n \in Nat : IsMade(s, n)' /\ s < act.step => IsMade(s, n)
  PROVE  Reported'
<1>1. \A s, n \in Nat : IsMade(s, n)' /\ s < act'.step => OneIn(out'.results, s, n)
  BY DEF StepInv, Reported
<1>2. /\ \A i, j \in 1..Len(out'.results) : i < j => out'.results[i].step <= out'.results[j].step
      /\ \A i \in 1..Len(out'.results) : out'.results[i].step < act'.step
      /\ \A s \in 1..act'.step - 1 : \E i \in 1..Len(out'.results) : out'.results[i].step = s
      /\ act'.step - 1 <= Len(out'.results)
  BY DEF StepInv, Reported
<1> QED
  BY <1>1, <1>2 DEF Reported

LEMMA CollectedInv ==
  ASSUME StepInv, Batch, act.queue # <<>>, NEW of \in {"tool", "peer"}, NEW ok \in BOOLEAN,
         Collected(of, ok), UNCHANGED <<plan, run, out>>,
         made' \in Seq(Nat \X Nat),
         \A k, l \in 1..Len(made') : made'[k] = made'[l] => k = l,
         \A s, n \in Nat : IsMade(s, n)' => s \in 1..act.step /\ n > 0,
         \A s, n \in Nat : IsMade(s, n)' /\ s = act.step => n \in 1..Number,
         \A s, n \in Nat : IsMade(s, n)' /\ s < act.step => IsMade(s, n)
  PROVE  StepInv'
<1>1. PICK m : m = Number
  OBVIOUS
<1>2. PICK r : r = Result(m, of, ok)
  OBVIOUS
<1>3. /\ m \in 1..MaxCalls /\ Len(act.queue) > 0 /\ Len(act.queue) \in Nat /\ Len(act.tools) \in Nat
      /\ Len(act.peers) \in Nat /\ m = Len(act.tools) + Len(act.peers) + 1
      /\ m \in Nat /\ m > 0 /\ m \in 0..MaxCalls
  <2>1. m \in 1..MaxCalls /\ m = Len(act.tools) + Len(act.peers) + 1
    BY <1>1, BatchNumbers, Zenon
  <2>2. m \in Nat /\ m > 0 /\ m \in 0..MaxCalls
    <3>1. m \in 1..MaxCalls /\ MaxCalls \in Nat
      BY <2>1, ActAssumption
    <3> QED
      BY <3>1
  <2> QED
    BY <2>1, <2>2, BatchNumbers, Zenon
<1>4. act.step \in 1..Len(plan) /\ act.step \in Nat /\ act.queue \in Seq(Call)
      /\ act.tools \in Seq(Records) /\ act.peers \in Seq(Records)
  BY DEF StepInv, Typed, Places, InPlan, Batch
<1>5. r \in Records /\ r.step = act.step /\ r.call = m /\ r.of = of
  <2>1. m \in 0..MaxCalls /\ act.step \in 1..Len(plan) /\ of \in {"text", "tool", "peer", "error"}
    BY <1>3, <1>4
  <2> QED
    BY <1>2, <2>1, ResultTyped
<1>6. /\ act' \in Places /\ act'.pc = "calls" /\ act'.step = act.step
      /\ act'.single = act.single /\ act'.queue = Tail(act.queue)
      /\ of = "tool" => act'.tools = Append(act.tools, r) /\ act'.peers = act.peers
      /\ of = "peer" => act'.peers = Append(act.peers, r) /\ act'.tools = act.tools
  BY <1>1, <1>2, <1>5, CollectedFields DEF StepInv
<1>7. Number' = m + 1 /\ TurnLength' = TurnLength
  <2>1. Len(act'.queue) = Len(act.queue) - 1
    BY <1>3, <1>4, <1>6
  <2>2. Len(act'.tools) + Len(act'.peers) = Len(act.tools) + Len(act.peers) + 1
    <3> DEFINE t == Len(act.tools)
               p == Len(act.peers)
               u == Len(act'.tools)
               v == Len(act'.peers)
    <3>1. /\ Len(Append(act.tools, r)) = Len(act.tools) + 1
          /\ Len(Append(act.peers, r)) = Len(act.peers) + 1
      BY <1>4, <1>5, AppendOne
    <3>2. t \in Nat /\ p \in Nat
      BY <1>3
    <3>3. (u = t + 1 /\ v = p) \/ (u = t /\ v = p + 1)
      BY <1>6, <3>1
    <3> HIDE DEF t, p, u, v
    <3>4. u + v = t + p + 1
      <4>1. CASE u = t + 1 /\ v = p
        BY <3>2, <4>1
      <4>2. CASE u = t /\ v = p + 1
        BY <3>2, <4>2
      <4> QED
        BY <3>3, <4>1, <4>2, Zenon
    <3> QED
      BY <3>4 DEF t, p, u, v
  <2>3. Len(act'.tools) \in Nat /\ Len(act'.peers) \in Nat
    BY <1>3, <1>4, <1>6
  <2>4. /\ Number' = Len(act'.tools) + Len(act'.peers) + 1
        /\ TurnLength' = Len(act'.queue) + Len(act'.tools) + Len(act'.peers)
        /\ TurnLength = Len(act.queue) + Len(act.tools) + Len(act.peers)
    BY DEF Number, TurnLength
  <2> DEFINE q == Len(act.queue)
             t == Len(act.tools)
             p == Len(act.peers)
             u == Len(act'.tools)
             v == Len(act'.peers)
  <2>5. q \in Nat /\ t \in Nat /\ p \in Nat /\ u \in Nat /\ v \in Nat /\ m = t + p + 1 /\ u + v = t + p + 1
    BY <1>3, <2>2, <2>3
  <2>6. Number' = u + v + 1 /\ TurnLength' = q - 1 + u + v /\ TurnLength = q + t + p
    BY <2>1, <2>4
  <2> HIDE DEF q, t, p, u, v
  <2>7. u + v + 1 = m + 1 /\ q - 1 + u + v = q + t + p
    BY <2>5
  <2> QED
    BY <2>6, <2>7, Zenon
<1>8. Typed'
  BY <1>6 DEF StepInv, Typed
<1>9. InPlan'
  <2>1. Batch' /\ TurnLength' \in 1..MaxCalls /\ (act'.single => TurnLength' = 1)
    BY <1>6, <1>7 DEF Batch, StepInv, InPlan
  <2> QED
    BY <1>4, <1>6, <2>1 DEF InPlan
<1>10. Dispatched'
  <2>1. Due' = 1..m
    BY <1>3, <1>6, <1>7 DEF Due
  <2>2. \A n \in Nat : IsMade(act.step, n)' => n \in 1..m
    BY <1>1, <1>4, <1>6 DEF IsMade
  <2> QED
    BY <1>6, <2>1, <2>2 DEF Dispatched
<1>11. Held'
  <2>1. HeldIn(act.tools, act.peers, act.step, m - 1)
    BY <1>1 DEF StepInv, Held
  <2>2. HeldIn(act'.tools, act'.peers, act.step, m)
    <3>1. m - 1 \in Nat /\ (m - 1) + 1 = m
      <4>1. m \in Nat /\ m > 0
        BY <1>3
      <4> QED
        BY <4>1
    <3> QED
      <4>1. /\ of = "tool" => HeldIn(Append(act.tools, r), act.peers, act.step, m)
            /\ of = "peer" => HeldIn(act.tools, Append(act.peers, r), act.step, m)
        BY <1>4, <1>5, <2>1, <3>1, HeldMore
      <4> QED
        BY <1>6, <4>1
  <2>3. Number' - 1 = m
    BY <1>3, <1>7
  <2> QED
    BY <1>6, <2>2, <2>3 DEF Held
<1>12. Reported'
  BY <1>6, StillReported DEF Batch
<1>13. Spoken'
  BY <1>6 DEF StepInv, Spoken, EndsInProse, NoText
<1> QED
  BY <1>8, <1>9, <1>10, <1>11, <1>12, <1>13 DEF StepInv

LEMMA CollectSteps ==
  ASSUME StepInv, CallPeer \/ CallUnknown \/ CallReturns \/ CallRaises
  PROVE  StepInv'
<1>1. /\ Batch /\ act.queue # <<>> /\ UNCHANGED <<plan, run, out>>
  BY DEF CallPeer, CallUnknown, CallReturns, CallRaises, Calls, Batch, StepInv, InPlan
<1>2. Number \in 1..MaxCalls /\ act.step \in Nat /\ Number \in Nat
  BY <1>1, BatchNumbers DEF StepInv, Typed, Places
<1>3. \A s, n \in Nat : IsMade(s, n) => s \in 1..act.step /\ n > 0
  BY DEF StepInv, Dispatched
<1>4. CASE CallPeer
  <2>1. PICK m : m = Number
    OBVIOUS
  <2>2. act.pc = "calls" /\ made' = Append(made, <<act.step, m>>) /\ m \in Nat
    BY <1>2, <1>4, <2>1 DEF CallPeer, Calls
  <2>3. \A n \in Nat : IsMade(act.step, n) => n \in 1..m - 1
    BY <2>1, <2>2 DEF StepInv, Dispatched, Due
  <2>4. ~IsMade(act.step, m)
    BY <2>2, <2>3
  <2>5. /\ made' \in Seq(Nat \X Nat)
        /\ \A k, l \in 1..Len(made') : made'[k] = made'[l] => k = l
        /\ \A t, n \in Nat : IsMade(t, n)' <=> IsMade(t, n) \/ (t = act.step /\ n = m)
    BY <1>2, <2>2, <2>4, MadeOnce DEF StepInv
  <2>6. /\ \A s, n \in Nat : IsMade(s, n)' => s \in 1..act.step /\ n > 0
        /\ \A s, n \in Nat : IsMade(s, n)' /\ s = act.step => n \in 1..m
        /\ \A s, n \in Nat : IsMade(s, n)' /\ s < act.step => IsMade(s, n)
    <3>1. act.step \in 1..act.step /\ m \in 1..m
      BY <1>2, <2>1 DEF StepInv, Typed, Places
    <3> QED
      BY <1>2, <1>3, <2>1, <2>3, <2>5, <3>1
  <2>7. PICK ok \in BOOLEAN : Collected("peer", ok)
    BY <1>4 DEF CallPeer
  <2> QED
    BY <1>1, <2>1, <2>5, <2>6, <2>7, CollectedInv
<1>5. CASE CallUnknown \/ CallReturns \/ CallRaises
  <2>1. PICK ok \in BOOLEAN : Collected("tool", ok)
    <3>1. (tool.end = "ok") \in BOOLEAN
      OBVIOUS
    <3> QED
      BY <1>5, <3>1, Zenon DEF CallUnknown, CallReturns, CallRaises
  <2>2. UNCHANGED made
    BY <1>5 DEF CallUnknown, CallReturns, CallRaises
  <2>3. \A n \in Due : n \in 1..Number
    BY <1>1, <1>2 DEF Due, Batch
  <2>4. /\ \A s, n \in Nat : IsMade(s, n)' => IsMade(s, n)
        /\ \A s, n \in Nat : IsMade(s, n)' /\ s = act.step => n \in 1..Number
    BY <2>2, <2>3, MadeSame
  <2>5. /\ made' \in Seq(Nat \X Nat)
        /\ \A k, l \in 1..Len(made') : made'[k] = made'[l] => k = l
    BY <2>2, MadeSame
  <2> QED
    BY <1>1, <1>3, <2>1, <2>4, <2>5, CollectedInv
<1> QED
  BY <1>4, <1>5


-----------------------------------------------------------------------------
(* The other steps of the phase.                                           *)

LEMMA MovedInv ==
  ASSUME StepInv, act.pc # "returned",
         NEW pc \in {"turn", "select", "planned", "text", "fallback", "synthesis", "returned"},
         act' = [act EXCEPT !.pc = pc], UNCHANGED <<plan, run, out>>,
         made' \in Seq(Nat \X Nat),
         \A k, l \in 1..Len(made') : made'[k] = made'[l] => k = l,
         \A s, n \in Nat : IsMade(s, n)' => s \in 1..act.step /\ n > 0,
         \A s, n \in Nat : IsMade(s, n)' /\ s = act.step => n = 1 /\ pc \in {"planned", "fallback"},
         \A s, n \in Nat : IsMade(s, n)' /\ s < act.step => IsMade(s, n),
         pc \in {"turn", "select", "planned", "text", "fallback"} => act.step <= Len(plan),
         pc = "turn" => act.tools = <<>> /\ act.peers = <<>>,
         pc = "synthesis" => act.pc = "close",
         pc \notin {"planned", "returned"} => llm'.pc # "idle",
         pc = "returned" => (EndsInDump(out.parts) => run.suppress \/ NoText')
  PROVE  StepInv'
<1>1. /\ act' \in Places /\ act'.pc = pc /\ act'.step = act.step
      /\ act'.tools = act.tools /\ act'.peers = act.peers
  BY Moved DEF StepInv
<1>2. Typed'
  BY <1>1 DEF StepInv, Typed
<1>3. ~Batch'
  BY <1>1 DEF Batch
<1>4. InPlan'
  BY <1>1, <1>3 DEF StepInv, InPlan
<1>5. Dispatched'
  <2>1. act.step \in Nat
    BY DEF StepInv, Typed, Places
  <2>2. \A n \in Nat : IsMade(act.step, n)' => n = 1 /\ pc \in {"planned", "fallback"}
    BY <1>1, <2>1 DEF IsMade
  <2>3. \A n \in Nat : n = 1 /\ pc \in {"planned", "fallback"} => n \in Due'
    BY <1>1 DEF Due
  <2> QED
    BY <1>1, <2>2, <2>3 DEF Dispatched
<1>6. Held'
  BY <1>3 DEF Held
<1>7. Reported'
  BY <1>1, StillReported
<1>8. Spoken'
  BY <1>1 DEF StepInv, Spoken, EndsInProse
<1> QED
  BY <1>2, <1>4, <1>5, <1>6, <1>7, <1>8 DEF StepInv

LEMMA RequestSent ==
  ASSUME NEW kind, NEW pc, Ask(kind, pc)
  PROVE  act' = [act EXCEPT !.pc = pc] /\ llm'.pc = "sent"
<1>1. PICK deadline, check : Request(kind, deadline, check)
  BY DEF Ask
<1>2. llm' = [NoRequest EXCEPT !.pc = "sent", !.kind = kind, !.spent = 1,
                               !.deadline = deadline, !.check = check]
  BY <1>1 DEF Request
<1>3. llm'.pc = "sent"
  BY <1>2 DEF NoRequest
<1> QED
  BY <1>3 DEF Ask, At

\* A request is made of the LLM service, or the phase returns.
LEMMA AskSteps ==
  ASSUME StepInv,
         \/ AskPlain \/ AskTools \/ TurnEmpty \/ TurnFails \/ AnswerInstead
         \/ SelectedNone \/ ToolError \/ AskSynthesis \/ Return
  PROVE  StepInv'
<1>1. UNCHANGED <<plan, run, out, made>>
  BY DEF AskPlain, AskTools, TurnEmpty, TurnFails, AnswerInstead, SelectedNone, ToolError,
     AskSynthesis, Return
<1>2. /\ made' \in Seq(Nat \X Nat)
      /\ \A k, l \in 1..Len(made') : made'[k] = made'[l] => k = l
      /\ \A s, n \in Nat : IsMade(s, n)' => IsMade(s, n) /\ n > 0
      /\ \A s, n \in Nat : IsMade(s, n)' /\ s = act.step => n \in Due
  BY <1>1, MadeSame
<1>3. \A s, n \in Nat : IsMade(s, n)' => s \in 1..act.step /\ n > 0
  BY <1>2 DEF StepInv, Dispatched
<1>4. CASE Return
  <2>1. act' = [act EXCEPT !.pc = "returned"] /\ act.pc \in {"step", "close"} /\ llm' = llm
    BY <1>4 DEF Return, At
  <2>2. Due = {}
    BY <2>1 DEF Due
  <2>3. EndsInDump(out.parts) => run.suppress \/ NoText'
    <3>1. CASE act.pc = "close"
      BY <1>4, <2>1, <3>1 DEF Return, StepInv, Spoken, NoText
    <3>2. CASE act.pc = "step" /\ plan = <<>>
      <4>1. act.step = 1
        BY <3>2 DEF StepInv, Typed, Places, InPlan
      <4> QED
        BY <4>1 DEF StepInv, Spoken, EndsInDump
    <3> QED
      BY <1>4, <3>1, <3>2 DEF Return
  <2> QED
    BY <1>1, <1>2, <1>3, <2>1, <2>2, <2>3, MovedInv
<1>5. CASE AskSynthesis
  <2>1. act' = [act EXCEPT !.pc = "synthesis"] /\ act.pc = "close" /\ llm'.pc = "sent"
    BY <1>5, RequestSent DEF AskSynthesis
  <2>2. Due = {}
    BY <2>1 DEF Due
  <2> QED
    BY <1>1, <1>2, <1>3, <2>1, <2>2, MovedInv
<1>6. CASE ToolError
  <2>1. /\ act' = [act EXCEPT !.pc = "fallback"] /\ llm'.pc = "sent"
        /\ act.pc = "planned" \/ (act.pc = "calling" /\ act.single)
    BY <1>6, RequestSent DEF ToolError
  <2>2. act.step <= Len(plan)
    BY <2>1 DEF StepInv, InPlan
  <2>3. \A n \in Due : n = 1
    <3>1. CASE act.pc = "planned"
      BY <3>1 DEF Due
    <3>2. CASE act.pc = "calling" /\ act.single
      <4>1. Number = 1
        BY <3>2, BatchNumbers DEF Batch, StepInv, InPlan
      <4> QED
        BY <3>2, <4>1 DEF Due
    <3> QED
      BY <2>1, <3>1, <3>2
  <2> QED
    BY <1>1, <1>2, <1>3, <2>1, <2>2, <2>3, MovedInv
<1>7. CASE AskPlain \/ AskTools \/ TurnEmpty \/ TurnFails \/ AnswerInstead \/ SelectedNone
  <2>1. PICK pc \in {"turn", "text", "select"} :
          /\ act' = [act EXCEPT !.pc = pc] /\ llm'.pc = "sent"
          /\ pc = "turn" => act.pc = "step"
    BY <1>7, RequestSent DEF AskPlain, AskTools, TurnEmpty, TurnFails, AnswerInstead, SelectedNone,
       HasStep, Turn
  <2>2. \/ act.pc = "step" /\ act.step <= Len(plan)
        \/ act.pc \in {"turn", "select"}
        \/ act.pc = "calls" /\ act.single /\ act.queue # <<>>
    BY <1>7 DEF AskPlain, AskTools, TurnEmpty, TurnFails, AnswerInstead, SelectedNone, HasStep,
       Turn, Calls
  <2>3. act.step <= Len(plan) /\ (pc = "turn" => act.tools = <<>> /\ act.peers = <<>>)
    BY <2>1, <2>2 DEF StepInv, InPlan
  <2>4. Due = {}
    <3>1. CASE act.pc \in {"step", "turn", "select"}
      BY <3>1 DEF Due
    <3>2. CASE act.pc = "calls" /\ act.single /\ act.queue # <<>>
      <4>1. Number = 1
        BY <3>2, BatchNumbers DEF Batch
      <4> QED
        BY <3>2, <4>1 DEF Due
    <3> QED
      BY <2>2, <3>1, <3>2
  <2>5. act.pc # "returned"
    BY <2>2
  <2> QED
    BY <1>1, <1>2, <1>3, <2>1, <2>3, <2>4, <2>5, MovedInv
<1> QED
  BY <1>4, <1>5, <1>6, <1>7

\* A planned or selected tool is called.
LEMMA RunSteps == ASSUME StepInv, RunPlanned \/ Selected PROVE StepInv'
<1>1. /\ act' = [act EXCEPT !.pc = "planned"] /\ made' = Append(made, <<act.step, 1>>)
      /\ UNCHANGED <<plan, run, out, llm>> /\ act.pc \in {"step", "select"}
      /\ act.pc = "step" => act.step <= Len(plan)
  BY DEF RunPlanned, Selected, Run, At, HasStep
<1>2. act.step \in Nat /\ act.step > 0 /\ act.step <= Len(plan) /\ Typed /\ Dispatched
  BY <1>1 DEF StepInv, Typed, Places, InPlan
<1>3. \A n \in Nat : ~IsMade(act.step, n)
  BY <1>1, <1>2 DEF Dispatched, Due
<1>4. /\ made' \in Seq(Nat \X Nat)
      /\ \A k, l \in 1..Len(made') : made'[k] = made'[l] => k = l
      /\ \A t, m \in Nat : IsMade(t, m)' <=> IsMade(t, m) \/ (t = act.step /\ m = 1)
  <2>1. ~IsMade(act.step, 1) /\ 1 \in Nat
    BY <1>3
  <2> QED
    BY <1>1, <1>2, <2>1, MadeOnce
<1>5. /\ \A s, n \in Nat : IsMade(s, n)' => s \in 1..act.step /\ n > 0
      /\ \A s, n \in Nat : IsMade(s, n)' /\ s = act.step => n = 1
      /\ \A s, n \in Nat : IsMade(s, n)' /\ s < act.step => IsMade(s, n)
  BY <1>2, <1>3, <1>4 DEF Dispatched
<1> QED
  BY <1>1, <1>2, <1>4, <1>5, MovedInv


LEMMA CallToolInv == ASSUME StepInv, CallTool PROVE StepInv'
<1>1. PICK m : m = Number
  OBVIOUS
<1>2. /\ act' = [act EXCEPT !.pc = "calling"] /\ made' = Append(made, <<act.step, m>>)
      /\ UNCHANGED <<plan, run, out, llm>> /\ act.pc = "calls" /\ act.queue # <<>> /\ Batch
  BY <1>1 DEF CallTool, Run, At, Calls, Batch
<1>3. m \in Nat /\ m > 0 /\ act.step \in Nat /\ act.step > 0 /\ Typed /\ Dispatched
  <2>1. m \in 1..MaxCalls /\ MaxCalls \in Nat
    BY <1>1, <1>2, BatchNumbers, ActAssumption
  <2> QED
    BY <2>1 DEF StepInv, Typed, Places
<1>4. \A n \in Nat : IsMade(act.step, n) => n \in 1..m - 1
  BY <1>1, <1>2, <1>3 DEF Dispatched, Due
<1>5. /\ made' \in Seq(Nat \X Nat)
      /\ \A k, l \in 1..Len(made') : made'[k] = made'[l] => k = l
      /\ \A t, n \in Nat : IsMade(t, n)' <=> IsMade(t, n) \/ (t = act.step /\ n = m)
  <2>1. ~IsMade(act.step, m)
    BY <1>3, <1>4
  <2> QED
    BY <1>2, <1>3, <2>1, MadeOnce
<1>6. /\ act' \in Places /\ act'.pc = "calling" /\ act'.step = act.step
      /\ act'.queue = act.queue /\ act'.single = act.single
      /\ act'.tools = act.tools /\ act'.peers = act.peers
  BY <1>2, Moved DEF StepInv
<1>7. Number' = m /\ TurnLength' = TurnLength /\ Batch'
  BY <1>1, <1>6 DEF Number, TurnLength, Batch
<1>8. Typed'
  BY <1>2, <1>5, <1>6 DEF StepInv, Typed
<1>9. InPlan'
  BY <1>2, <1>6, <1>7 DEF StepInv, InPlan
<1>10. Dispatched'
  <2>1. Due' = 1..m
    BY <1>6, <1>7 DEF Due
  <2>2. /\ \A s, n \in Nat : IsMade(s, n)' => s \in 1..act.step /\ n > 0
        /\ \A s, n \in Nat : IsMade(s, n)' /\ s = act.step => n \in 1..m
    BY <1>3, <1>4, <1>5 DEF Dispatched
  <2>3. \A n \in Nat : IsMade(act.step, n)' => n \in 1..m
    BY <1>3, <1>6, <2>2 DEF IsMade
  <2> QED
    BY <1>5, <1>6, <2>1, <2>2, <2>3 DEF Dispatched
<1>11. Held'
  <2>1. HeldIn(act.tools, act.peers, act.step, m - 1)
    BY <1>1, <1>2 DEF StepInv, Held
  <2> QED
    BY <1>6, <1>7, <2>1 DEF Held
<1>12. Reported'
  <2>1. \A s, n \in Nat : IsMade(s, n)' /\ s < act.step => IsMade(s, n)
    BY <1>3, <1>5
  <2> QED
    BY <1>2, <1>6, <2>1, StillReported
<1>13. Spoken'
  BY <1>2, <1>6 DEF StepInv, Spoken, EndsInProse, NoText
<1> QED
  BY <1>8, <1>9, <1>10, <1>11, <1>12, <1>13 DEF StepInv

LEMMA TurnCallsInv == ASSUME StepInv, TurnCalls PROVE StepInv'
<1>1. PICK q \in SeqOf(Call, MaxCalls) \ {<<>>}, prose \in BOOLEAN :
        act' = [act EXCEPT !.pc = "calls", !.queue = q, !.prose = prose, !.single = Len(q) = 1]
  BY DEF TurnCalls
<1>2. q \in Seq(Call) /\ Len(q) \in 1..MaxCalls
  <2>1. PICK m \in 0..MaxCalls : q \in [1..m -> Call]
    BY <1>1 DEF SeqOf
  <2>2. m \in Nat /\ q \in Seq(Call) /\ Len(q) = m
    BY <2>1, ActAssumption
  <2> QED
    BY <1>1, <2>1, <2>2
<1>3. /\ UNCHANGED <<plan, run, out, made, llm>> /\ act.pc = "turn"
      /\ act.tools = <<>> /\ act.peers = <<>> /\ act \in Places /\ act.step \in Nat
      /\ act.step <= Len(plan)
  BY DEF TurnCalls, Turn, StepInv, Typed, Places, InPlan
<1>4. /\ act' \in Places /\ act'.pc = "calls" /\ act'.step = act.step /\ act'.queue = q
      /\ act'.tools = <<>> /\ act'.peers = <<>> /\ (act'.single => Len(q) = 1)
  <2>1. PICK single : single = (Len(q) = 1)
    OBVIOUS
  <2>2. single \in BOOLEAN /\ (single => Len(q) = 1)
    BY <2>1, Zenon
  <2>3. act' = [act EXCEPT !.pc = "calls", !.queue = q, !.prose = prose, !.single = single]
    BY <1>1, <2>1, Zenon
  <2> QED
    BY <1>1, <1>2, <1>3, <2>2, <2>3 DEF Places
<1>5. Number' = 1 /\ TurnLength' = Len(q) /\ Batch'
  BY <1>2, <1>4 DEF Number, TurnLength, Batch
<1>6. /\ made' \in Seq(Nat \X Nat)
      /\ \A k, l \in 1..Len(made') : made'[k] = made'[l] => k = l
      /\ \A s, n \in Nat : IsMade(s, n)' => IsMade(s, n) /\ n > 0
      /\ \A s, n \in Nat : IsMade(s, n)' /\ s = act.step => n \in Due
  BY <1>3, MadeSame
<1>7. Typed'
  BY <1>3, <1>4 DEF StepInv, Typed
<1>8. InPlan'
  BY <1>2, <1>3, <1>4, <1>5 DEF InPlan
<1>9. Dispatched'
  <2>1. \A n \in Nat : ~IsMade(act.step, n)'
    BY <1>3, <1>4, <1>6 DEF Due, IsMade
  <2>2. \A s, n \in Nat : IsMade(s, n)' => s \in 1..act.step /\ n > 0
    BY <1>6 DEF StepInv, Dispatched
  <2> QED
    BY <1>4, <1>6, <2>1, <2>2 DEF Dispatched
<1>10. Held'
  <2>1. HeldIn(<<>>, <<>>, act.step, 0)
    BY DEF HeldIn
  <2> QED
    BY <1>4, <1>5, <2>1 DEF Held
<1>11. Reported'
  BY <1>3, <1>4, <1>6, StillReported
<1>12. Spoken'
  BY <1>3, <1>4 DEF StepInv, Spoken, EndsInProse, NoText
<1> QED
  BY <1>7, <1>8, <1>9, <1>10, <1>11, <1>12 DEF StepInv

LEMMA SynthesisInv == ASSUME StepInv, LLMTypeOK, Synthesis PROVE StepInv'
<1>1. /\ act' = [act EXCEPT !.pc = "returned"] /\ act.pc = "synthesis"
      /\ UNCHANGED <<plan, run, made, llm>>
  BY DEF Synthesis, At
<1>2. /\ act' \in Places /\ act'.pc = "returned" /\ act'.step = act.step
      /\ act'.tools = act.tools /\ act'.peers = act.peers
  BY <1>1, Moved DEF StepInv
<1>3. /\ out.results \in Seq(Records) /\ out.parts \in Seq(Part) /\ Len(out.results) \in Nat
      /\ act.step \in Nat /\ act.step - 1 <= Len(out.results) /\ act.step # 1
  BY <1>1 DEF StepInv, Typed, Places, Reported, InPlan
<1>4. PICK r : r = [step |-> Len(out.results) + 1, call |-> 0, of |-> "text", ok |-> TRUE]
  OBVIOUS
<1>5. r \in Records /\ r.step = Len(out.results) + 1 /\ r.call = 0
  BY <1>3, <1>4, ActAssumption DEF Records
<1>6. \/ out' = out /\ llm.pc = "raised"
      \/ /\ out' = [results |-> Append(out.results, r), parts |-> Append(out.parts, Text)]
         /\ llm.pc = "done"
  <2>1. llm.pc \in {"done", "raised"}
    BY <1>1 DEF Synthesis, Busy, StepInv, Spoken, LLMTypeOK, Requests
  <2>2. [Result(0, "text", TRUE) EXCEPT !.step = Len(out.results) + 1] = r
    <3>1. PICK n : n = Len(out.results) + 1
      OBVIOUS
    <3>2. PICK q : q = Result(0, "text", TRUE)
      OBVIOUS
    <3>3. q \in [step : Nat, call : {0}, of : {"text"}, ok : {TRUE}] /\ n \in Nat
      BY <1>3, <3>1, <3>2 DEF Result
    <3>4. [q EXCEPT !.step = n] = [step |-> n, call |-> 0, of |-> "text", ok |-> TRUE]
      <4>1. PICK t : t = [q EXCEPT !.step = n]
        OBVIOUS
      <4>2. t \in [step : Nat, call : {0}, of : {"text"}, ok : {TRUE}] /\ t.step = n
        BY <3>3, <4>1
      <4>3. t = [step |-> n, call |-> 0, of |-> "text", ok |-> TRUE]
        BY <4>2
      <4> QED
        BY <4>1, <4>3, Zenon
    <3> QED
      BY <1>4, <3>1, <3>2, <3>4, Zenon
  <2> QED
    BY <2>1, <2>2 DEF Synthesis
<1>7. /\ InPlan' /\ Held' /\ Dispatched'
  <2>1. ~Batch' /\ Due = {} /\ Due' = {}
    BY <1>1, <1>2 DEF Batch, Due
  <2>2. \A n \in Nat : ~IsMade(act.step, n)'
    BY <1>1, <1>2, <1>3, <2>1 DEF StepInv, Dispatched, IsMade
  <2>3. \A s, n \in Nat : IsMade(s, n)' => IsMade(s, n)
    BY <1>1 DEF IsMade
  <2> QED
    BY <1>1, <1>2, <2>1, <2>2, <2>3 DEF InPlan, Held, StepInv, Dispatched
<1>8. CASE out' = out /\ llm.pc = "raised"
  <2>1. Typed'
    BY <1>1, <1>2, <1>8 DEF StepInv, Typed
  <2>2. Reported'
    <3>1. \A s, n \in Nat : IsMade(s, n)' => IsMade(s, n)
      BY <1>1 DEF IsMade
    <3> QED
      BY <1>1, <1>2, <1>8, <3>1, StillReported
  <2>3. Spoken'
    BY <1>1, <1>2, <1>8 DEF StepInv, Spoken, EndsInProse, NoText
  <2> QED
    BY <1>7, <2>1, <2>2, <2>3 DEF StepInv
<1>9. CASE /\ out' = [results |-> Append(out.results, r), parts |-> Append(out.parts, Text)]
           /\ llm.pc = "done"
  <2> DEFINE L == Len(out.results)
  <2>1. /\ out'.results = Append(out.results, r) /\ out'.parts = Append(out.parts, Text)
        /\ Text \in Part /\ (Text = "prose" \/ llm.end = "empty")
    BY <1>9 DEF Part, Text
  <2>2. /\ out'.results \in Seq(Records) /\ Len(out'.results) = L + 1 /\ out'.results[L + 1] = r
        /\ \A i \in 1..L : out'.results[i] = out.results[i]
        /\ \A s, n \in Nat : OneIn(out.results, s, n) /\ n > 0 => OneIn(out'.results, s, n)
    BY <1>3, <1>5, <2>1, AppendOne
  <2>3. /\ out'.parts \in Seq(Part) /\ out'.parts # <<>>
        /\ Last(out'.parts) = "prose" \/ llm.end = "empty"
    <3>1. PICK t \in Part : t = Text
      BY <2>1
    <3>2. out'.parts = Append(out.parts, t)
      BY <2>1, <3>1
    <3>3. out'.parts \in Seq(Part) /\ out'.parts # <<>> /\ Last(out'.parts) = t
      BY <1>3, <3>2 DEF Last
    <3> QED
      BY <2>1, <3>1, <3>3
  <2>4. Typed'
    BY <1>1, <1>2, <1>9, <2>1, <2>2, <2>3 DEF StepInv, Typed
  <2>5. \A i \in 1..L : out.results[i].step < act.step /\ out.results[i].step \in Nat
    <3>1. \A i \in 1..L : out.results[i] \in Records
      BY <1>3
    <3> QED
      BY <1>1, <3>1 DEF StepInv, Reported, Records
  <2>6. ASSUME NEW i \in 1..Len(out'.results), NEW j \in 1..Len(out'.results), i < j
        PROVE  out'.results[i].step <= out'.results[j].step
    <3>1. i \in 1..L /\ out'.results[i] = out.results[i]
      BY <1>3, <2>2, <2>6
    <3>2. CASE j \in 1..L
      BY <2>2, <2>6, <3>1, <3>2 DEF StepInv, Reported
    <3>3. CASE j = L + 1
      <4>1. out'.results[j].step = L + 1 /\ out'.results[i].step < act.step /\ out'.results[i].step \in Nat
        BY <1>5, <2>2, <2>5, <3>1, <3>3
      <4> QED
        BY <1>3, <4>1
    <3> QED
      BY <1>3, <2>2, <3>2, <3>3
  <2>7. Reported'
    <3>1. \A s \in 1..act.step - 1 : \E i \in 1..Len(out'.results) : out'.results[i].step = s
      <4> TAKE s \in 1..act.step - 1
      <4>1. PICK i \in 1..L : out.results[i].step = s
        BY DEF StepInv, Reported
      <4>2. i \in 1..Len(out'.results) /\ out'.results[i].step = s
        BY <1>3, <2>2, <4>1
      <4> QED
        BY <4>2
    <3>2. \A s, n \in Nat : IsMade(s, n)' /\ s < act.step => OneIn(out'.results, s, n)
      <4>1. \A s, n \in Nat : IsMade(s, n)' => IsMade(s, n) /\ n > 0
        BY <1>1, MadeSame
      <4> QED
        BY <2>2, <4>1 DEF StepInv, Reported
    <3>3. act.step - 1 <= Len(out'.results)
      BY <1>3, <2>2
    <3> QED
      BY <1>2, <2>6, <3>1, <3>2, <3>3 DEF Reported
  <2>8. Spoken'
    <3>1. EndsInDump(out'.parts) => NoText
      BY <1>9, <2>3, SpokenLast DEF NoText
    <3>2. llm' = llm /\ NoText' = NoText
      BY <1>1 DEF NoText
    <3> QED
      BY <1>1, <1>2, <1>3, <3>1, <3>2 DEF Spoken, EndsInProse
  <2> QED
    BY <1>7, <2>4, <2>7, <2>8 DEF StepInv
<1> QED
  BY <1>6, <1>8, <1>9


-----------------------------------------------------------------------------
(* The answers of the services, and the whole step.                        *)

LEMMA SentPlace ==
  ASSUME NEW next, "pc" \in DOMAIN next, Sent(next)
  PROVE  llm'.pc = "sent"
<1>1. PICK n : n = next.spent + 1
  OBVIOUS
<1>2. llm' = [next EXCEPT !.pc = "sent", !.spent = n]
  BY <1>1 DEF Sent
<1> QED
  BY <1>2

\* The service serves a request that is under way, and does not forget it.
LEMMA ServeKeeps ==
  ASSUME LLMTypeOK, Serve
  PROVE  Busy /\ llm'.pc # "idle"
<1>1. Busy
  BY DEF Serve, Answered, BadArguments, Hard, Transient, Retry, Refuse, Reject, Deadline, Busy
<1> SUFFICES llm'.pc # "idle"
  BY <1>1
<1>2. "pc" \in DOMAIN llm
  BY DEF LLMTypeOK, Requests
<1>3. ASSUME NEW answer, Done(answer) PROVE llm'.pc = "done"
  BY <1>3 DEF Done, NoRequest
<1>4. ASSUME NEW why, Raised(why) PROVE llm'.pc = "raised"
  BY <1>4 DEF Raised, NoRequest
<1>6. ASSUME NextModel PROVE llm'.pc # "idle"
  <2>1. CASE llm.model < Models
    <3>1. PICK n : n = llm.model + 1
      OBVIOUS
    <3>2. Sent([llm EXCEPT !.model = n, !.attempt = 1, !.repair = 0])
      BY <1>6, <2>1, <3>1 DEF NextModel
    <3>3. "pc" \in DOMAIN [llm EXCEPT !.model = n, !.attempt = 1, !.repair = 0]
      BY <1>2
    <3> QED
      BY <3>2, <3>3, SentPlace
  <2>2. CASE ~(llm.model < Models)
    BY <1>4, <1>6, <2>2 DEF NextModel
  <2> QED
    BY <2>1, <2>2
<1>7. CASE BadArguments
  <2>1. CASE llm.repair < MaxRepairs
    <3>1. PICK n : n = llm.repair + 1
      OBVIOUS
    <3>2. Sent([llm EXCEPT !.repair = n, !.attempt = 1])
      BY <1>7, <2>1, <3>1 DEF BadArguments
    <3>3. "pc" \in DOMAIN [llm EXCEPT !.repair = n, !.attempt = 1]
      BY <1>2
    <3> QED
      BY <3>2, <3>3, SentPlace
  <2>2. CASE ~(llm.repair < MaxRepairs)
    BY <1>3, <1>7, <2>2 DEF BadArguments
  <2> QED
    BY <2>1, <2>2
<1>8. CASE Retry
  <2>1. PICK n : n = llm.attempt + 1
    OBVIOUS
  <2>2. Sent([llm EXCEPT !.attempt = n])
    BY <1>8, <2>1 DEF Retry
  <2>3. "pc" \in DOMAIN [llm EXCEPT !.attempt = n]
    BY <1>2
  <2> QED
    BY <2>2, <2>3, SentPlace
<1>9. CASE Transient
  <2>1. CASE llm.attempt < MaxAttempts
    BY <1>2, <1>9, <2>1 DEF Transient
  <2> QED
    BY <1>6, <1>9, <2>1 DEF Transient
<1>10. CASE Hard
  BY <1>6, <1>10 DEF Hard
<1>11. CASE (\E a \in Answers(llm.kind) : Answered(a)) \/ Refuse \/ Reject \/ Deadline
  BY <1>3, <1>4, <1>11 DEF Answered, Refuse, Reject, Deadline
<1> QED
  BY <1>7, <1>8, <1>9, <1>10, <1>11 DEF Serve

LEMMA ServedInv ==
  ASSUME StepInv, LLMTypeOK, Serving \/ Executing \/ UNCHANGED vars
  PROVE  StepInv'
<1>1. UNCHANGED <<plan, run, act, out, made>>
  BY DEF Serving, Executing, vars, actvars
<1>2. (Busy /\ llm'.pc # "idle") \/ llm' = llm
  BY ServeKeeps DEF Serving, Executing, vars, actvars
<1>3. Typed'
  BY <1>1 DEF StepInv, Typed
<1>4. InPlan'
  BY <1>1 DEF StepInv, InPlan, Batch, TurnLength
<1>5. /\ made' \in Seq(Nat \X Nat)
      /\ \A k, l \in 1..Len(made') : made'[k] = made'[l] => k = l
      /\ \A s, n \in Nat : IsMade(s, n)' => IsMade(s, n) /\ n > 0
      /\ \A s, n \in Nat : IsMade(s, n)' /\ s = act.step => n \in Due
  BY <1>1, MadeSame
<1>6. Due' = Due /\ Number' = Number
  BY <1>1 DEF Due, Number
<1>7. Dispatched'
  <2>1. /\ \A k, l \in 1..Len(made) : made[k] = made[l] => k = l
        /\ \A s, n \in Nat : IsMade(s, n) => s \in 1..act.step /\ n > 0
        /\ \A n \in Nat : IsMade(act.step, n) => n \in Due
    BY DEF StepInv, Dispatched
  <2>2. \A s, n \in Nat : IsMade(s, n)' = IsMade(s, n)
    BY <1>1 DEF IsMade
  <2>3. \A n \in Nat : IsMade(act.step, n)' => IsMade(act.step, n)
    BY <1>1 DEF IsMade
  <2> QED
    BY <1>1, <1>6, <2>1, <2>2, <2>3 DEF Dispatched
<1>8. Held'
  BY <1>1, <1>6 DEF StepInv, Held, Batch
<1>9. Reported'
  <2>1. \A s, n \in Nat : IsMade(s, n)' => IsMade(s, n)
    BY <1>1 DEF IsMade
  <2> QED
    BY <1>1, <2>1 DEF StepInv, Reported
<1>10. Spoken'
  BY <1>1, <1>2 DEF StepInv, Spoken, EndsInProse, NoText, EndsOnTool, Busy
<1> QED
  BY <1>3, <1>4, <1>7, <1>8, <1>9, <1>10 DEF StepInv

LEMMA StepInvInit == Init => StepInv
<1> SUFFICES ASSUME Init PROVE StepInv
  OBVIOUS
<1>1. plan \in Seq({"none", "tool", "peer"}) /\ Len(plan) <= MaxSteps
  <2>1. PICK m \in 0..MaxSteps : plan \in [1..m -> {"none", "tool", "peer"}]
    BY DEF Init, SeqOf
  <2>2. m \in Nat /\ plan \in Seq({"none", "tool", "peer"}) /\ Len(plan) = m
    BY <2>1, ActAssumption
  <2> QED
    BY <2>1, <2>2, ActAssumption
<1>2. /\ act = Start /\ act.pc = "step" /\ act.step = 1 /\ act.tools = <<>> /\ act.peers = <<>>
      /\ out.results = <<>> /\ out.parts = <<>> /\ made = <<>>
      /\ out = [results |-> <<>>, parts |-> <<>>]
      /\ run \in [tools : BOOLEAN, peers : BOOLEAN, suppress : BOOLEAN]
  BY DEF Init, Start
<1>3. act \in Places
  BY <1>2, ActAssumption DEF Start, Places
<1>4. \A s, n \in Nat : ~IsMade(s, n)
  BY <1>2 DEF IsMade
<1>5. Typed
  BY <1>1, <1>2, <1>3 DEF Typed
<1>6. InPlan /\ Held
  BY <1>2 DEF InPlan, Held, Batch
<1>7. Dispatched
  BY <1>2, <1>4 DEF Dispatched
<1>8. Reported
  BY <1>2, <1>4 DEF Reported
<1>9. Spoken
  BY <1>2 DEF Spoken, EndsInProse
<1> QED
  BY <1>5, <1>6, <1>7, <1>8, <1>9 DEF StepInv

LEMMA StepInvStep == LLMInv /\ StepInv /\ [Next]_vars => StepInv'
<1> SUFFICES ASSUME LLMInv, StepInv, [Next]_vars PROVE StepInv'
  OBVIOUS
<1>1. LLMTypeOK
  BY DEF LLMInv
<1>2. CASE TurnText \/ TextAnswers
  BY <1>2, ProseInv DEF TurnText, TextAnswers, Turn
<1>3. CASE TurnRefused \/ TextFails
  BY <1>3, ProseInv DEF TurnRefused, TextFails
<1>4. CASE PlannedReturns \/ Fallback
  BY <1>4, PlannedInv
<1>5. CASE ConsultPlanned
  BY <1>5, ConsultInv
<1>6. CASE CallsOver
  BY <1>6, BatchDone
<1>7. CASE CallPeer \/ CallUnknown \/ CallReturns \/ CallRaises
  BY <1>7, CollectSteps
<1>8. CASE \/ AskPlain \/ AskTools \/ TurnEmpty \/ TurnFails \/ AnswerInstead
           \/ SelectedNone \/ ToolError \/ AskSynthesis \/ Return
  BY <1>8, AskSteps
<1>9. CASE RunPlanned \/ Selected
  BY <1>9, RunSteps
<1>10. CASE CallTool
  BY <1>10, CallToolInv
<1>11. CASE TurnCalls
  BY <1>11, TurnCallsInv
<1>12. CASE Synthesis
  BY <1>1, <1>12, SynthesisInv
<1>13. CASE Serving \/ Executing \/ UNCHANGED vars
  BY <1>1, <1>13, ServedInv
<1> QED
  BY <1>2, <1>3, <1>4, <1>5, <1>6, <1>7, <1>8, <1>9, <1>10, <1>11, <1>12, <1>13, Zenon DEF Next

LEMMA StepInvReports == StepInv => CallsReported
<1> SUFFICES ASSUME StepInv PROVE CallsReported
  OBVIOUS
<1> DEFINE R == out.results
           Of(s, n) == {i \in DOMAIN R : R[i].step = s /\ R[i].call = n}
<1>1. /\ R \in Seq(Records) /\ DOMAIN R = 1..Len(R) /\ Len(R) \in Nat
      /\ plan \in Seq({"none", "tool", "peer"}) /\ act.step \in Nat
      /\ made \in Seq(Nat \X Nat) /\ DOMAIN made = 1..Len(made)
  BY DEF StepInv, Typed, Places
<1>2. \A i, j \in DOMAIN R : i < j => R[i].step <= R[j].step
  BY <1>1 DEF StepInv, Reported
<1>3. \A s \in 1..act.step - 1 \cap DOMAIN plan : \E r \in ToSet(R) : r.step = s
  <2> TAKE s \in 1..act.step - 1 \cap DOMAIN plan
  <2>1. PICK i \in 1..Len(R) : R[i].step = s
    BY DEF StepInv, Reported
  <2>2. R[i] \in ToSet(R)
    BY <1>1 DEF ToSet
  <2> WITNESS R[i] \in ToSet(R)
  <2> QED
    BY <2>1
<1>4. IsInjective(made)
  BY <1>1 DEF IsInjective, StepInv, Dispatched
<1>5. ASSUME NEW c \in ToSet(made), c[1] < act.step
      PROVE  \E i \in Of(c[1], c[2]) : Of(c[1], c[2]) = {i} /\ R[i].of \in {"tool", "peer"}
  <2>1. PICK k \in 1..Len(made) : made[k] = c
    BY <1>1 DEF ToSet
  <2>2. c \in Nat \X Nat
    BY <1>1, <2>1
  <2>3. PICK s \in Nat, n \in Nat : c = <<s, n>>
    BY <2>2
  <2>4. c[1] = s /\ c[2] = n
    BY <2>3
  <2>5. IsMade(s, n)
    BY <2>1, <2>3 DEF IsMade
  <2>6. OneIn(R, s, n)
    BY <1>5, <2>4, <2>5 DEF StepInv, Reported
  <2>7. PICK i \in 1..Len(R) :
          /\ R[i].step = s /\ R[i].call = n /\ R[i].of \in {"tool", "peer"}
          /\ \A j \in 1..Len(R) : R[j].step = s /\ R[j].call = n => j = i
    BY <2>6 DEF OneIn
  <2>8. i \in Of(s, n) /\ Of(s, n) = {i}
    BY <1>1, <2>7
  <2> HIDE DEF Of, R
  <2> QED
    BY <2>4, <2>7, <2>8
<1> QED
  BY <1>2, <1>3, <1>4, <1>5 DEF CallsReported

LEMMA StepInvTyped == ASSUME StepInv, LLMInv, ToolInv PROVE ActTypeOK
<1>1. /\ out.results \in Seq(Records) /\ out.parts \in Seq(Part)
      /\ act \in Places
  BY DEF StepInv, Typed
<1>2. \A r \in ToSet(out.results) :
        r.call \in 0..MaxCalls /\ r.of \in {"text", "tool", "peer", "error"}
  <2> TAKE r \in ToSet(out.results)
  <2>1. r \in Records
    BY <1>1 DEF ToSet
  <2> QED
    BY <2>1 DEF Records
<1>3. ToSet(out.parts) \subseteq {"prose", "blank", "dump", "reply"}
  BY <1>1 DEF ToSet, Part
<1>4. /\ act.pc \in {"step", "turn", "calls", "calling", "select", "planned", "text",
                      "fallback", "close", "synthesis", "returned"}
      /\ act.step \in 1..MaxSteps + 1 /\ act.queue \in Seq(Call)
  BY <1>1 DEF Places
<1> QED
  BY <1>2, <1>3, <1>4 DEF ActTypeOK, LLMInv, ToolInv

\* What is inductive: the phase, the request and the tool call together.
PhaseInv == StepInv /\ LLMInv /\ ToolInv

LEMMA PhaseInvInit == Init => PhaseInv
  BY StepInvInit, LLMInvInit, ToolInvInit DEF Init, PhaseInv

LEMMA PhaseInvStep == PhaseInv /\ [Next]_vars => PhaseInv'
<1>1. [Next]_vars => [LLMNext]_llm /\ [ToolNext]_tool
  BY ComponentSteps DEF vars
<1> QED
  BY <1>1, StepInvStep, LLMInvStep, ToolInvStep DEF PhaseInv

(* Whatever the plan, the services' answers and the limits: the phase is   *)
(* at one of the points of ActPhase.execute, it never gets past the end of *)
(* its plan, and every result carries the number of a call of its turn.    *)
THEOREM ActTypeCorrect == Spec => []ActTypeOK
<1>1. PhaseInv => ActTypeOK
  BY StepInvTyped DEF PhaseInv
<1> QED
  BY <1>1, PhaseInvInit, PhaseInvStep, PTL DEF Spec

(* For plans and turns of any length: ActPhase.execute reports the steps   *)
(* in the order of the plan, every step that is over, and each tool call   *)
(* and consultation that was dispatched by exactly one result, whatever    *)
(* failed beside it.                                                       *)
THEOREM ReportsCorrect == Spec => []CallsReported
<1>1. PhaseInv => CallsReported
  BY StepInvReports DEF PhaseInv
<1> QED
  BY <1>1, PhaseInvInit, PhaseInvStep, PTL DEF Spec

(* For plans and turns of any length: the final response of                *)
(* ActPhase.execute does not end, to its reader, in a tool's raw result,   *)
(* unless the pattern asked for no closing turn or the last request to the *)
(* LLM failed or was answered with an empty text.                          *)
THEOREM ProseCorrect == Spec => []EndsInProse
<1>1. PhaseInv => EndsInProse
  BY DEF PhaseInv, StepInv, Spoken
<1> QED
  BY <1>1, PhaseInvInit, PhaseInvStep, PTL DEF Spec
=============================================================================
