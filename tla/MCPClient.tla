------------------------------ MODULE MCPClient ------------------------------
(***************************************************************************)
(* One MCPClient (mcp/client.py) and the tasks that use it at once: tool   *)
(* calls, health probes, disconnects.  Each connection lives in an owner   *)
(* task of its own; the client's attributes name at most one connection,   *)
(* the owner tasks write them, and so do the callers.                      *)
(*                                                                         *)
(* Connection 1 is the one the registry opened.  Every other one is opened *)
(* by a call that found its transport broken, so there are at most as many *)
(* as calls.  before_tool_call is modelled in MCPRegistry.                 *)
(***************************************************************************)
EXTENDS Naturals, FiniteSets

CONSTANTS Calls,  \* call_tool
          Timed,  \* those under a deadline: the executor's wait_for, not call_server_tool
          Probes, \* is_alive, past its cache
          Stops,  \* disconnect, which a registry calls on a connected client
          None

ASSUME ClientAssumption ==
    /\ None \notin Calls /\ IsFiniteSet(Calls) /\ Timed \subseteq Calls
    /\ Calls \cap (Probes \cup Stops) = {}

Conns == 1..(Cardinality(Calls) + 1)
Users == Calls \cup Probes \cup Stops

VARIABLES
    connected, \* _connected
    session,   \* the connection _session belongs to, 0 for None
    cm,        \* the connection _cm belongs to, 0 for None
    owner,     \* _owner_task (and _shutdown, its event), 0 for None
    lock,      \* the call that holds _reconnect_lock, or None
    conn,      \* Conns -> the owner task
    link,      \* Conns -> the transport: not entered, entered, broken, or exited
    user,      \* Users -> where the caller is, and the connection it waits for
    overlapped, \* history: a connect began before an earlier owner was done
    told       \* history: the callers that were cancelled; each is so once at most

vars == <<connected, session, cm, owner, lock, conn, link, user, overlapped, told>>
attrs == <<connected, session, cm>>

Init ==
    /\ connected = TRUE /\ session = 1 /\ cm = 1 /\ owner = 1
    /\ lock = None
    /\ conn = [i \in Conns |->
                [pc |-> IF i = 1 THEN "parked" ELSE "unused", signal |-> FALSE,
                 cancel |-> FALSE, ready |-> IF i = 1 THEN "ok" ELSE "pending"]]
    /\ link = [i \in Conns |-> IF i = 1 THEN "live" ELSE "none"]
    /\ user = [u \in Users |-> [pc |-> "idle", on |-> 0]]
    /\ overlapped = FALSE /\ told = {}

Set(u, pc, i) == user' = [user EXCEPT ![u] = [pc |-> pc, on |-> i]]
Over(i) == conn[i].pc = "done"
Used == {i \in Conns : conn[i].pc # "unused"}

-----------------------------------------------------------------------------
(***************************************************************************)
(* The owner task of connection i: _own_connection, _open, _close.         *)
(***************************************************************************)
\* _cm is assigned before its __aenter__ is awaited.
BeginOpen(i) ==
    /\ conn[i].pc = "starting" /\ ~conn[i].cancel
    /\ conn' = [conn EXCEPT ![i].pc = "opening"]
    /\ cm' = i
    /\ UNCHANGED <<connected, session, owner, lock, link, user, overlapped, told>>

\* No executable, no URL, or a cancellation in the pause before another try.
StartFails(i) ==
    /\ conn[i].pc = "starting"
    /\ conn' = [conn EXCEPT ![i].pc = "done", ![i].ready = "failed"]
    /\ session' = 0 /\ connected' = FALSE
    /\ UNCHANGED <<cm, owner, lock, link, user, overlapped, told>>

OpenTransport(i) ==
    /\ conn[i].pc = "opening" /\ ~conn[i].cancel
    /\ conn' = [conn EXCEPT ![i].pc = "initializing"]
    /\ link' = [link EXCEPT ![i] = "live"]
    /\ session' = i
    /\ UNCHANGED <<connected, cm, owner, lock, user, overlapped, told>>

\* Whoever exits a transport looks up which one only then.
Exit == link' = IF cm = 0 THEN link ELSE [link EXCEPT ![cm] = "closed"]

\* The handler of the transport reaps it, and retry_with_backoff tries again
RetryOpen(i) ==
    /\ conn[i].pc = "opening" /\ ~conn[i].cancel
    /\ conn' = [conn EXCEPT ![i].pc = "starting"]
    /\ Exit /\ cm' = 0
    /\ UNCHANGED <<connected, session, owner, lock, user, overlapped, told>>

\* or gives up; _own_connection resets the rest.
OpenFails(i) ==
    /\ conn[i].pc = "opening"
    /\ conn' = [conn EXCEPT ![i].pc = "done", ![i].ready = "failed"]
    /\ Exit /\ cm' = 0
    /\ session' = 0 /\ connected' = FALSE
    /\ UNCHANGED <<owner, lock, user, overlapped, told>>

\* initialize and list_tools, through whatever session the client names by then.
Initialize(i) ==
    /\ conn[i].pc = "initializing" /\ ~conn[i].cancel /\ session # 0
    /\ conn' = [conn EXCEPT ![i].pc = "parked", ![i].ready = "ok"]
    /\ connected' = TRUE
    /\ UNCHANGED <<session, cm, owner, lock, link, user, overlapped, told>>

\* Nothing exits the transport entered above.
InitializeFails(i) ==
    /\ conn[i].pc = "initializing"
    /\ conn' = [conn EXCEPT ![i].pc = "done", ![i].ready = "failed"]
    /\ session' = 0 /\ connected' = FALSE
    /\ UNCHANGED <<cm, owner, lock, link, user, overlapped, told>>

\* Woken by its event or by a cancellation, which that uses up, the task exits the
\* session's context first,
CloseBegin(i) ==
    /\ conn[i].pc = "parked"
    /\ conn[i].signal \/ conn[i].cancel
    /\ conn' = [conn EXCEPT ![i].pc = "closing", ![i].cancel = FALSE]
    /\ UNCHANGED <<attrs, owner, lock, link, user, overlapped, told>>

\* then that of the transport.
ExitTransport(i) ==
    /\ conn[i].pc = "closing" /\ ~conn[i].cancel
    /\ conn' = [conn EXCEPT ![i].pc = "exiting"]
    /\ Exit
    /\ UNCHANGED <<attrs, owner, lock, user, overlapped, told>>

\* The finally: reached early when the task is cancelled in the session's exit.
CloseEnd(i) ==
    /\ \/ conn[i].pc = "exiting"
       \/ conn[i].pc = "closing" /\ conn[i].cancel
    /\ conn' = [conn EXCEPT ![i].pc = "done"]
    /\ cm' = 0 /\ session' = 0 /\ connected' = FALSE
    /\ UNCHANGED <<owner, lock, link, user, overlapped, told>>

\* Only a call under way can tell.
Break(i) ==
    /\ link[i] = "live" /\ \E u \in Calls : user[u] = [pc |-> "sending", on |-> i]
    /\ link' = [link EXCEPT ![i] = "broken"]
    /\ UNCHANGED <<attrs, owner, lock, conn, user, overlapped, told>>

-----------------------------------------------------------------------------
(***************************************************************************)
(* call_tool and _attempt_reconnect.                                       *)
(***************************************************************************)
CallStart(u) ==
    /\ user[u].pc = "idle" /\ u \in Calls
    /\ connected /\ session # 0
    /\ Set(u, "sending", session)
    /\ UNCHANGED <<attrs, owner, lock, conn, link, overlapped, told>>

\* A result, an error that is none of the transport's, or the error of a retry.
CallReturns(u) ==
    /\ user[u].pc \in {"sending", "resending"}
    /\ Set(u, "done", 0)
    /\ UNCHANGED <<attrs, owner, lock, conn, link, overlapped, told>>

\* Mutant of CallBreaks: the session is dropped as well, under its owner's feet.
CallBreaksSession(u) ==
    /\ user[u].pc = "sending" /\ link[user[u].on] # "live"
    /\ connected' = FALSE /\ session' = 0
    /\ Set(u, "wantlock", 0)
    /\ UNCHANGED <<cm, owner, lock, conn, link, overlapped, told>>

CallBreaks(u) ==
    /\ user[u].pc = "sending" /\ link[user[u].on] # "live"
    /\ connected' = FALSE
    /\ Set(u, "wantlock", 0)
    /\ UNCHANGED <<session, cm, owner, lock, conn, link, overlapped, told>>

Resend(u) == IF session # 0 THEN Set(u, "resending", session) ELSE Set(u, "done", 0)

\* _stop_owner_task: the attribute is cleared at once, the task is joined.
AfterStop(u) == IF u \in Calls THEN "connect" ELSE "done"

StopOwner(u) ==
    /\ owner' = 0
    /\ IF owner = 0 \/ Over(owner)
       THEN Set(u, AfterStop(u), 0) /\ UNCHANGED conn
       ELSE /\ conn' = [conn EXCEPT ![owner].signal = TRUE]
            /\ Set(u, "join", owner)

\* Mutant of LockReconnect: every call that broke reconnects by itself.
LockReconnectAlone(u) ==
    /\ user[u].pc = "wantlock"
    /\ StopOwner(u) /\ lock' = u
    /\ UNCHANGED <<attrs, link, overlapped, told>>

\* Another call may have reconnected while this one waited for the lock.
LockReconnect(u) ==
    /\ user[u].pc = "wantlock" /\ lock = None
    /\ IF connected
       THEN Resend(u) /\ UNCHANGED <<lock, owner, conn>>
       ELSE StopOwner(u) /\ lock' = u
    /\ UNCHANGED <<attrs, link, overlapped, told>>

Joined(u) ==
    /\ user[u].pc \in {"join", "await"} /\ Over(user[u].on)
    /\ Set(u, AfterStop(u), 0)
    /\ UNCHANGED <<attrs, owner, lock, conn, link, overlapped, told>>

\* _DISCONNECT_TIMEOUT_SECONDS: the task is cancelled, and awaited without a limit.
\* One that is parked was woken long before.
JoinTimesOut(u) ==
    LET i == user[u].on IN
    /\ user[u].pc \in {"join", "abort"}
    /\ ~Over(i) /\ ~(conn[i].pc = "parked" /\ conn[i].signal)
    /\ conn' = [conn EXCEPT ![i].cancel = TRUE]
    /\ Set(u, IF user[u].pc = "join" THEN "await" ELSE "abandon", i)
    /\ UNCHANGED <<attrs, owner, lock, link, overlapped, told>>

\* connect: _stop_owner_task finds no task, the caller has just stopped it.
Connect(u) ==
    LET i == Cardinality(Used) + 1 IN
    /\ user[u].pc = "connect"
    /\ conn' = [conn EXCEPT ![i].pc = "starting"]
    /\ owner' = i
    /\ overlapped' = (overlapped \/ \E j \in Used : ~Over(j))
    /\ Set(u, "ready", i)
    /\ UNCHANGED <<attrs, lock, link, told>>

ConnectReturns(u) ==
    /\ user[u].pc = "ready" /\ conn[user[u].on].ready = "ok"
    /\ lock' = None
    /\ Resend(u)
    /\ UNCHANGED <<attrs, owner, conn, link, overlapped, told>>

ConnectFails(u) ==
    /\ user[u].pc = "ready" /\ conn[user[u].on].ready = "failed"
    /\ lock' = None /\ owner' = 0
    /\ Set(u, "done", 0)
    /\ UNCHANGED <<attrs, conn, link, overlapped, told>>

(***************************************************************************)
(* The executor's deadline or the end of the run cancels a caller: where   *)
(* it joins an owner it gives up and cancels the owner; where it waits for *)
(* a connection it stops that first.  Where it awaits an owner it has      *)
(* cancelled, the cancellation goes to the owner once more and is          *)
(* suppressed with what the owner raises: the caller goes on.              *)
(***************************************************************************)
\* Mutant of Release: a cancelled call keeps the lock.
ReleaseNothing(u) == lock' = lock

Release(u) == lock' = IF lock = u THEN None ELSE lock

Cancel(u) ==
    /\ u \notin told /\ told' = told \cup {u}
    /\ \/ /\ user[u].pc \in {"sending", "resending", "wantlock"}
          /\ Set(u, "done", 0)
          /\ UNCHANGED <<attrs, owner, lock, conn, link, overlapped>>
       \/ /\ user[u].pc = "join"
          /\ conn' = [conn EXCEPT ![user[u].on].cancel = TRUE]
          /\ Release(u)
          /\ Set(u, "done", 0)
          /\ UNCHANGED <<attrs, owner, link, overlapped>>
       \/ /\ user[u].pc = "await"
          /\ conn' = [conn EXCEPT ![user[u].on].cancel = TRUE]
          /\ UNCHANGED <<attrs, owner, lock, link, user, overlapped>>
       \/ /\ user[u].pc = "ready" /\ owner # 0
          /\ owner' = 0
          /\ conn' = [conn EXCEPT ![owner].signal = TRUE]
          /\ Set(u, "abort", user[u].on)
          /\ UNCHANGED <<attrs, lock, link, overlapped>>
       \/ /\ user[u].pc = "ready" /\ owner = 0
          /\ Release(u)
          /\ Set(u, "done", 0)
          /\ UNCHANGED <<attrs, owner, conn, link, overlapped>>

Aborted(u) ==
    /\ user[u].pc \in {"abort", "abandon"} /\ Over(user[u].on)
    /\ Release(u)
    /\ Set(u, "done", 0)
    /\ UNCHANGED <<attrs, owner, conn, link, overlapped, told>>

-----------------------------------------------------------------------------
\* is_alive: any error marks the client, whichever session the probe used.
ProbeStart(u) ==
    /\ user[u].pc = "idle" /\ u \in Probes
    /\ connected /\ session # 0
    /\ Set(u, "probing", 0)
    /\ UNCHANGED <<attrs, owner, lock, conn, link, overlapped, told>>

ProbeReturns(u) ==
    /\ user[u].pc = "probing"
    /\ connected' \in {connected, FALSE}
    /\ Set(u, "done", 0)
    /\ UNCHANGED <<session, cm, owner, lock, conn, link, overlapped, told>>

\* _unregister_locked disconnects a client that is connected.
Disconnect(u) ==
    /\ user[u].pc = "idle" /\ u \in Stops /\ connected
    /\ StopOwner(u)
    /\ UNCHANGED <<attrs, lock, link, overlapped, told>>

-----------------------------------------------------------------------------
Task(i) == \/ BeginOpen(i) \/ StartFails(i) \/ OpenTransport(i) \/ RetryOpen(i) \/ OpenFails(i)
           \/ Initialize(i) \/ InitializeFails(i)
           \/ CloseBegin(i) \/ ExitTransport(i) \/ CloseEnd(i)

\* What the server answers, sooner or later or never.
Answer(u) == CallReturns(u) \/ CallBreaks(u) \/ ProbeReturns(u)

\* What a caller does by itself.
Progress(u) == \/ LockReconnect(u) \/ Joined(u) \/ Connect(u)
               \/ ConnectReturns(u) \/ ConnectFails(u) \/ Aborted(u)

Next ==
    \/ \E i \in Conns : Task(i) \/ Break(i)
    \/ \E u \in Users : \/ CallStart(u) \/ ProbeStart(u) \/ Disconnect(u)
                        \/ Answer(u) \/ Progress(u) \/ JoinTimesOut(u) \/ Cancel(u)

\* A task that was cancelled unwinds.
Unwind(i) == conn[i].cancel /\ Task(i)

(***************************************************************************)
(* The event loop runs what can run, and its two timers fire: the limit on *)
(* joining an owner and the deadline of a timed call.  A cancelled owner   *)
(* unwinds.  Nothing else is fair: the transport, initialize, list_tools,  *)
(* the exits and the server's answers have no limit of their own that      *)
(* covers them, a call from call_server_tool and a probe have none at all. *)
(***************************************************************************)
Fairness ==
    /\ \A i \in Conns : WF_vars(BeginOpen(i)) /\ WF_vars(CloseBegin(i)) /\ WF_vars(Unwind(i))
    /\ \A u \in Users : WF_vars(Progress(u)) /\ WF_vars(JoinTimesOut(u))
    /\ \A u \in Timed : WF_vars(Cancel(u))

Spec == Init /\ [][Next]_vars /\ Fairness

-----------------------------------------------------------------------------
(***************************************************************************)
(* Properties.                                                             *)
(***************************************************************************)

\* Every variable has its type.
ClientTypeOK ==
    /\ connected \in BOOLEAN
    /\ {session, cm, owner} \subseteq Conns \cup {0}
    /\ lock \in Calls \cup {None}
    /\ conn \in [Conns -> [pc : {"unused", "starting", "opening", "initializing", "parked", "closing",
                                 "exiting", "done"},
                           signal : BOOLEAN, cancel : BOOLEAN,
                           ready : {"pending", "ok", "failed"}]]
    /\ link \in [Conns -> {"none", "live", "broken", "closed"}]
    /\ user \in [Users -> [pc : {"idle", "sending", "wantlock", "join", "await", "connect",
                                 "ready", "abort", "abandon", "resending", "probing", "done"},
                           on : Conns \cup {0}]]
    /\ overlapped \in BOOLEAN /\ told \subseteq Users

\* Calls that fail together share one reconnect: there are never two connections
\* being opened, whatever else is cancelled or disconnected.
OneOpening ==
    Cardinality({i \in Conns : conn[i].pc \in {"starting", "opening", "initializing"}}) <= 1

\* The client's attributes name the connection that is open, so that its owner
\* closes what it opened and calls use a session somebody owns.  The one way to
\* lose this is a connect that begins while an earlier owner is still unwinding:
\* after a cancelled stop, or beside a disconnect.
NamesOpenConnection ==
    overlapped \/
        /\ connected => session # 0
        /\ \A i \in Conns : conn[i].pc \in {"parked", "closing", "exiting"} =>
                session = i /\ cm = i

\* _own_connection: "Enter and exit are therefore always the same task no matter
\* who calls connect() or disconnect()".
ExitsOwnTransport ==
    [][\A i \in Conns : ExitTransport(i) => cm \in {0, i}]_vars

\* The cancellation of the call was suppressed while it awaited a cancelled owner.
Deaf(u) == u \in told /\ user[u].pc \in {"await", "connect", "ready", "resending"}

\* A deadline holds although neither the server nor the transport ever answers: a
\* timed call ends and leaves no lock, whoever it waits for, another call that never
\* ends included, unless its cancellation was suppressed; and a disconnect ends.
CallsReturn ==
    /\ \A u \in Timed : <>[](Deaf(u) \/ (user[u].pc \in {"idle", "done"} /\ lock # u))
    /\ \A u \in Stops : <>[](user[u].pc \in {"idle", "done"})

\* adapters.py: "Timeouts must bubble out untouched on the first attempt" (violated:
\* mcp_deadline.cfg).
DeadlineHeeded == \A u \in Timed : <>[](user[u].pc \in {"idle", "done"})
=============================================================================
