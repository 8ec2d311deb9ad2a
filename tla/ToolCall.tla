------------------------------ MODULE ToolCall ------------------------------
(***************************************************************************)
(* One tool call at a time: MCPToolExecutor.execute_step (mcp/adapters.py) *)
(* around MCPClient.call_tool (mcp/client.py) around the server.  The      *)
(* client sends a call again after it reconnected, the executor calls the  *)
(* client again after a transient error; each knows nothing of the other.  *)
(* The rest of the client, and the other calls that share it, are          *)
(* modelled in MCPClient.                                                  *)
(***************************************************************************)
EXTENDS Naturals, Sequences

CONSTANT MaxRetries \* retry_with_backoff(max_retries=1)

ASSUME ToolAssumption == MaxRetries \in Nat

VARIABLE tool \* the call in progress, or how the last one ended

Broken    == {"reset", "closed"}  \* _is_broken_transport_error: of the OS, of the stream
Retryable == {"reset", "oserror"} \* _RETRYABLE_FOR_BACKOFF
Ends      == Broken \cup Retryable \cup {"answer", "error", "timeout", "open"}

Results   == {"ok", "reported"}   \* is_error and a payload that reports an error are results

NoCall == [pc |-> "idle", round |-> 0, end |-> "none", sends |-> <<>>]

ToolCalls ==
    [pc    : {"idle", "sent", "reconnecting", "resent", "backoff", "done", "raised"},
     round : 0..MaxRetries,
     end   : {"none", "refused", "timeout", "connection", "server_error"} \cup Results,
     sends : Seq(Ends)] \* history: how each send ended

ToolTypeOK == tool \in ToolCalls

ToolInit == tool = NoCall

Running == tool.pc \in {"sent", "reconnecting", "resent", "backoff"}

Over(pc, end) == [NoCall EXCEPT !.pc = pc, !.end = end]

\* The arguments do not fit the tool's schema, or the run is not granted the tool.
Refused == Over("raised", "refused")

Ended(sends, e) == [sends EXCEPT ![Len(sends)] = e]

-----------------------------------------------------------------------------
\* retry_with_backoff sees the exception e of the client.
Caught(e, round, sends) ==
    tool' = IF e \in Retryable /\ round < MaxRetries
            THEN [pc |-> "backoff", round |-> round, end |-> "none", sends |-> sends]
            ELSE Over("raised", IF e \in Retryable THEN "connection" ELSE "server_error")

\* call_tool on a connected client, whose before_tool_call (MCPRegistry) passed;
\* otherwise it raises: a RuntimeError, or what the hook raised.
Calling(round, sends) ==
    \/ tool' = [pc |-> "sent", round |-> round, end |-> "none", sends |-> Append(sends, "open")]
    \/ \E e \in {"error", "oserror"} : Caught(e, round, sends)

\* execute_step: what is refused is refused before anything is sent.
Dispatch ==
    /\ ~Running
    /\ \/ tool' = Refused
       \/ Calling(0, <<>>)

Returns ==
    /\ tool.pc \in {"sent", "resent"}
    /\ \E r \in Results : tool' = Over("done", r)

Fails(e) ==
    /\ tool.pc \in {"sent", "resent"}
    /\ LET sends == Ended(tool.sends, e)
       IN IF tool.pc = "sent" /\ e \in Broken
          THEN tool' = [tool EXCEPT !.pc = "reconnecting", !.sends = sends]
          ELSE Caught(e, tool.round, sends)

Reconnected ==
    /\ tool.pc = "reconnecting"
    /\ tool' = [tool EXCEPT !.pc = "resent", !.sends = Append(@, "open")]

\* The client raises what broke the transport.
ReconnectFails ==
    /\ tool.pc = "reconnecting"
    /\ Caught(tool.sends[Len(tool.sends)], tool.round, tool.sends)

Again ==
    /\ tool.pc = "backoff"
    /\ Calling(tool.round + 1, tool.sends)

\* Mutant of TimesOut: a timeout is one more transient error of the connection.
TimesOutRetried ==
    /\ tool.pc \in {"sent", "reconnecting", "resent"}
    /\ Caught("oserror", tool.round, Ended(tool.sends, "timeout"))

\* The wait_for of one client call; a TimeoutError of its own counts the same.
TimesOut ==
    /\ tool.pc \in {"sent", "reconnecting", "resent"}
    /\ tool' = Over("raised", "timeout")

Execute ==
    \/ Returns \/ Reconnected \/ ReconnectFails \/ Again \/ TimesOut
    \/ \E e \in Broken \cup Retryable \cup {"error"} : Fails(e)

-----------------------------------------------------------------------------
(* The client and the executor together send a call at most four times     *)
(* (call_tool's one resend, in each of the executor's two rounds), and     *)
(* again only when the send before ended in a failure of the transport: a  *)
(* call that was answered, refused by the server or timed out is never     *)
(* sent again, because the tool may have completed.                        *)
ResendsOnlyBroken ==
    /\ Len(tool.sends) <= 2 * (MaxRetries + 1)
    /\ \A i \in 1..Len(tool.sends) - 1 : tool.sends[i] \in Broken \cup Retryable
=============================================================================
