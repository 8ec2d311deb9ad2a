----------------------------- MODULE MCPRegistry -----------------------------
(***************************************************************************)
(* One MCP server registration: its row, and the entry for it in the       *)
(* registry of each process (mcp/registry.py, services/mcp_service.py).    *)
(* Operations run concurrently in every process.  Two kinds of locks are   *)
(* involved: the row's, taken with FOR UPDATE, and the asyncio lock of a   *)
(* registry, which is held while a connection is opened or closed; opening *)
(* one takes the row's lock when the stored OAuth token must be refreshed. *)
(*                                                                         *)
(* A client that is marked not connected keeps its connection: whether it  *)
(* is connected is its attribute _connected, which a probe or a call       *)
(* clears; the connection ends when its owner task does.  A call that broke*)
(* opens one anew for its own client, without the registry (MCPClient).    *)
(*                                                                         *)
(* The columns status, error_message and capabilities, which an operation  *)
(* writes after it connected, are left out: nothing decides on them.       *)
(***************************************************************************)
EXTENDS Naturals, FiniteSets

CONSTANTS Procs,     \* processes, each with its MCPServerRegistry
          Ops,       \* operations, each called once, in some process
          None,      \* no entry, no holder
          MaxLosses, \* bound: connections that break, or fail a probe
          MaxExpiry  \* bound: expiries of the stored token

ASSUME RegistryAssumption ==
    None \notin Ops /\ MaxLosses \in Nat /\ MaxExpiry \in Nat

Kinds == {"call", "hydrate", "reconnect", "update", "clear", "delete"}

VARIABLES
    row,     \* present, config_revision, and the stored OAuth token's state
    rowLock, \* the operation that holds the row FOR UPDATE, or None
    slot,    \* Procs -> the registry's ServerEntry, or None
    regLock, \* Procs -> the operation that holds MCPServerRegistry._lock, or None
    up,      \* Procs -> clients that are connected (_connected)
    live,    \* Procs -> clients whose connection is open
    marked,  \* history: Procs -> clients that a probe or a call marked not connected
    made,    \* Procs -> number of clients created
    op,      \* Ops -> the state of the operation
    losses, expiries

vars == <<row, rowLock, slot, regLock, up, live, marked, made, op, losses, expiries>>
clients == <<up, live, marked>>

Entry == [client : Nat, rev : Nat]
ASSUME NoneAssumption == None \notin Entry

OpState ==
    [pc : {"idle", "read", "lockrow", "lockreg", "connecting", "refresh", "erase",
           "sent", "broken", "reopening", "renew", "done"},
     kind : Kinds, at : Procs \cup {None},
     todo : {"ensure", "register", "unregister"},
     rev : Nat,          \* the revision read
     client : Nat,       \* the client a call uses or is going to use
     since : Nat]        \* history: the row's revision when the call began, 0: deleted

\* An operation that is over, or not begun.
Rest(pc) == [pc |-> pc, kind |-> "hydrate", at |-> None, todo |-> "ensure",
             rev |-> 0, client |-> 0, since |-> 0]

Init ==
    /\ row \in [present : {TRUE}, rev : {1}, token : {"none", "fresh"}]
    /\ rowLock = None
    /\ slot \in [Procs -> {None, [client |-> 1, rev |-> 1]}]
    /\ regLock = [p \in Procs |-> None]
    /\ up = [p \in Procs |-> IF slot[p] = None THEN {} ELSE {1}]
    /\ live = up
    /\ marked = [p \in Procs |-> {}]
    /\ made = [p \in Procs |-> 1]
    /\ op = [o \in Ops |-> Rest("idle")]
    /\ losses = 0
    /\ expiries = 0

-----------------------------------------------------------------------------
Up(p) == slot[p] # None /\ slot[p].client \in up[p]
Set(o, s) == op' = [op EXCEPT ![o] = s]
At(o) == op[o].at

\* An operation is called.  A tool call finds a connected entry first
\* (lookup_tool, call_server_tool); update, clear and delete lock the row.
Begin(o, kind, p) ==
    /\ op[o].pc = "idle"
    /\ kind = "call" => Up(p)
    /\ Set(o, [op[o] EXCEPT
            !.pc = IF kind \in {"update", "clear", "delete"} THEN "lockrow" ELSE "read",
            !.kind = kind,
            !.at = p,
            !.client = IF kind = "call" THEN slot[p].client ELSE 0,
            !.since = IF kind = "call" /\ row.present THEN row.rev ELSE 0])
    /\ UNCHANGED <<row, rowLock, slot, regLock, clients, made, losses, expiries>>

(***************************************************************************)
(* The row is read without a lock: _synchronize_server, reconnect_server,  *)
(* hydrate_registry.                                                       *)
(***************************************************************************)
Read(o) ==
    /\ op[o].pc = "read"
    /\ \/ /\ row.present
          /\ Set(o, [op[o] EXCEPT !.pc = "lockreg", !.rev = row.rev,
                        !.todo = IF op[o].kind = "reconnect" THEN "register" ELSE "ensure"])
       \/ /\ ~row.present
          /\ Set(o, IF op[o].kind = "reconnect" THEN Rest("done")
                    ELSE [op[o] EXCEPT !.pc = "lockreg", !.todo = "unregister"])
    /\ UNCHANGED <<row, rowLock, slot, regLock, clients, made, losses, expiries>>

\* Mutant of ChangeRow: the row is still locked when the registry is asked.
ChangeRowLocked(o) ==
    /\ op[o].pc = "lockrow" /\ op[o].kind \in {"update", "clear"} /\ rowLock = None
    /\ row.present
    /\ row' = [row EXCEPT !.rev = @ + 1, !.token = IF op[o].kind = "clear" THEN "none" ELSE @]
    /\ Set(o, [op[o] EXCEPT !.pc = "lockreg", !.rev = row.rev + 1,
                !.todo = IF op[o].kind = "update" THEN "register" ELSE "unregister"])
    /\ rowLock' = o
    /\ UNCHANGED <<slot, regLock, clients, made, losses, expiries>>

\* update_server and the clears: lock, change, commit.  The commit releases the
\* row before the registry is asked for anything.
ChangeRow(o) ==
    /\ op[o].pc = "lockrow" /\ op[o].kind \in {"update", "clear"} /\ rowLock = None
    /\ IF row.present
       THEN /\ row' = [row EXCEPT !.rev = @ + 1,
                                  !.token = IF op[o].kind = "clear" THEN "none" ELSE @]
            /\ Set(o, [op[o] EXCEPT !.pc = "lockreg", !.rev = row.rev + 1,
                        !.todo = IF op[o].kind = "update" THEN "register" ELSE "unregister"])
       ELSE /\ Set(o, Rest("done"))
            /\ UNCHANGED row
    /\ UNCHANGED <<rowLock, slot, regLock, clients, made, losses, expiries>>

\* delete_server keeps the row locked while it unregisters.
LockForDelete(o) ==
    /\ op[o].pc = "lockrow" /\ op[o].kind = "delete" /\ rowLock = None
    /\ IF row.present
       THEN /\ rowLock' = o
            /\ Set(o, [op[o] EXCEPT !.pc = "lockreg", !.todo = "unregister"])
       ELSE /\ Set(o, Rest("done"))
            /\ UNCHANGED rowLock
    /\ UNCHANGED <<row, slot, regLock, clients, made, losses, expiries>>

Erase(o) ==
    /\ op[o].pc = "erase"
    /\ row' = [row EXCEPT !.present = FALSE]
    /\ rowLock' = None
    /\ Set(o, Rest("done"))
    /\ UNCHANGED <<slot, regLock, clients, made, losses, expiries>>

(***************************************************************************)
(* Under the registry's lock.                                              *)
(***************************************************************************)

\* Mutant of Close: the entry is dropped, its client is not disconnected.
CloseEntry(p) == slot' = [slot EXCEPT ![p] = None] /\ UNCHANGED <<up, live>>

\* _unregister_locked: only a connected client is disconnected.
Close(p) ==
    LET closed == IF Up(p) THEN {slot[p].client} ELSE {} IN
    /\ slot' = [slot EXCEPT ![p] = None]
    /\ up' = [up EXCEPT ![p] = @ \ closed]
    /\ live' = [live EXCEPT ![p] = @ \ closed]

\* What follows the lock: a delete removes the row, a clear is over, and a call
\* or a hydration that found no row is over too.
Unregister(o) ==
    LET p == At(o) IN
    /\ op[o].pc = "lockreg" /\ op[o].todo = "unregister" /\ regLock[p] = None
    /\ Close(p)
    /\ Set(o, IF op[o].kind = "delete" THEN [op[o] EXCEPT !.pc = "erase"] ELSE Rest("done"))
    /\ UNCHANGED <<row, rowLock, regLock, marked, made, losses, expiries>>

\* Mutants of Serves: any live entry will do; one of the same revision will not.
ServesAny(p, rev) == Up(p)
ServesNewer(p, rev) == Up(p) /\ slot[p].rev > rev

\* What ensure_registered asks of an entry before it leaves it alone.
Serves(p, rev) == Up(p) /\ slot[p].rev >= rev

\* The registered client is returned.  A call is sent when that is the client it
\* began with, and starts over with it otherwise (before_tool_call).
Deliver(o, client) ==
    IF op[o].kind # "call" THEN Rest("done")
    ELSE IF client = op[o].client
         THEN [Rest("sent") EXCEPT !.kind = "call", !.at = At(o), !.client = client]
    ELSE [op[o] EXCEPT !.pc = "read", !.client = client]

EnsureFound(o) ==
    LET p == At(o) IN
    /\ op[o].pc = "lockreg" /\ op[o].todo = "ensure" /\ regLock[p] = None
    /\ Serves(p, op[o].rev)
    /\ Set(o, Deliver(o, slot[p].client))
    /\ UNCHANGED <<row, rowLock, slot, regLock, clients, made, losses, expiries>>

\* _register_locked: the old entry goes first, then a new client connects.
Register(o) ==
    LET p == At(o) IN
    /\ op[o].pc = "lockreg" /\ op[o].todo \in {"ensure", "register"} /\ regLock[p] = None
    /\ op[o].todo = "ensure" => ~Serves(p, op[o].rev)
    /\ regLock' = [regLock EXCEPT ![p] = o]
    /\ Close(p)
    /\ made' = [made EXCEPT ![p] = @ + 1]
    /\ Set(o, [op[o] EXCEPT !.pc = "connecting"])
    /\ UNCHANGED <<row, rowLock, marked, losses, expiries>>

\* The client of the process is connected, or is not.
Opened(p, client, ok) ==
    LET opened == IF ok THEN {client} ELSE {} IN
    /\ up' = [up EXCEPT ![p] = @ \cup opened]
    /\ live' = [live EXCEPT ![p] = @ \cup opened]

\* The entry is stored whether or not the client connected.
Store(o, ok) ==
    LET p == At(o) IN
    /\ slot' = [slot EXCEPT ![p] = [client |-> made[p], rev |-> op[o].rev]]
    /\ Opened(p, made[p], ok)
    /\ regLock' = [regLock EXCEPT ![p] = None]
    /\ Set(o, IF ok THEN Deliver(o, made[p]) ELSE Rest("done"))
    /\ UNCHANGED marked

Connected(o) ==
    /\ op[o].pc = "connecting" /\ row.token \in {"none", "fresh"}
    /\ \E ok \in BOOLEAN : Store(o, ok)
    /\ UNCHANGED <<row, rowLock, made, losses, expiries>>

\* The first request of a connection finds the token expired.
NeedsRefresh(o) ==
    /\ op[o].pc \in {"connecting", "reopening"} /\ row.token \in {"expired", "required"}
    /\ Set(o, [op[o] EXCEPT !.pc = IF @ = "connecting" THEN "refresh" ELSE "renew"])
    /\ UNCHANGED <<row, rowLock, slot, regLock, clients, made, losses, expiries>>

(***************************************************************************)
(* _refresh_oauth_under_lock; ok: the connection may open.  A rotation is  *)
(* a revision of its own, so the entry stored next is already behind it.   *)
(* So is the first refusal, which asks for a new authorization.            *)
(***************************************************************************)
Rotate(ok) ==
    \/ /\ row.present /\ row.token \in {"expired", "required"}
       /\ row' = [row EXCEPT !.rev = @ + 1, !.token = "fresh"]
    \/ /\ row.present /\ row.token \in {"expired", "required"} /\ ~ok
       /\ row' = [row EXCEPT !.rev = IF row.token = "expired" THEN @ + 1 ELSE @,
                             !.token = "required"]
    \/ /\ row.present /\ row.token = "fresh"
       /\ UNCHANGED row
    \/ /\ ~ok
       /\ UNCHANGED row

Refresh(o) ==
    /\ op[o].pc = "refresh" /\ rowLock = None
    /\ \E ok \in BOOLEAN : Rotate(ok) /\ Store(o, ok)
    /\ UNCHANGED <<rowLock, made, losses, expiries>>

-----------------------------------------------------------------------------
(***************************************************************************)
(* A client after it was marked.                                           *)
(***************************************************************************)
Unmark(p, client) == /\ up' = [up EXCEPT ![p] = @ \ {client}]
                     /\ marked' = [marked EXCEPT ![p] = @ \cup {client}]

\* check_health probes the registered clients; the owner task goes on.
ProbeFails(p) ==
    /\ losses < MaxLosses /\ Up(p)
    /\ Unmark(p, slot[p].client)
    /\ losses' = losses + 1
    /\ UNCHANGED <<row, rowLock, slot, regLock, live, made, op, expiries>>

\* A call under way finds its transport broken, or closed by a registration.
CallBreaks(o) ==
    LET p == At(o) IN
    /\ op[o].pc = "sent"
    /\ op[o].client \in live[p] => losses < MaxLosses
    /\ losses' = IF op[o].client \in live[p] THEN losses + 1 ELSE losses
    /\ Unmark(p, op[o].client)
    /\ Set(o, [op[o] EXCEPT !.pc = "broken"])
    /\ UNCHANGED <<row, rowLock, slot, regLock, live, made, expiries>>

\* _attempt_reconnect: the calls on one client reconnect it one by one, whether or
\* not the registry still has it.
Reopens(b, p, client) ==
    op[b].pc \in {"reopening", "renew"} /\ At(b) = p /\ op[b].client = client

Reconnect(o) ==
    LET p == At(o) IN
    /\ op[o].pc = "broken" /\ \A b \in Ops : ~Reopens(b, p, op[o].client)
    /\ IF op[o].client \in up[p]
       THEN Set(o, Rest("done")) /\ UNCHANGED live
       ELSE /\ live' = [live EXCEPT ![p] = @ \ {op[o].client}]
            /\ Set(o, [op[o] EXCEPT !.pc = "reopening"])
    /\ UNCHANGED <<row, rowLock, slot, regLock, up, marked, made, losses, expiries>>

\* The call is sent once more, or fails.
Reopen(o, ok) == Opened(At(o), op[o].client, ok) /\ Set(o, Rest("done"))

Reopened(o) ==
    /\ op[o].pc = "reopening" /\ row.token \in {"none", "fresh"}
    /\ \E ok \in BOOLEAN : Reopen(o, ok)
    /\ UNCHANGED <<row, rowLock, slot, regLock, marked, made, losses, expiries>>

Renew(o) ==
    /\ op[o].pc = "renew" /\ rowLock = None
    /\ \E ok \in BOOLEAN : Rotate(ok) /\ Reopen(o, ok)
    /\ UNCHANGED <<rowLock, slot, regLock, marked, made, losses, expiries>>

-----------------------------------------------------------------------------
Expire ==
    /\ expiries < MaxExpiry /\ row.token = "fresh"
    /\ row' = [row EXCEPT !.token = "expired"]
    /\ expiries' = expiries + 1
    /\ UNCHANGED <<rowLock, slot, regLock, clients, made, op, losses>>

Step(o) ==
    \/ Read(o) \/ ChangeRow(o) \/ LockForDelete(o) \/ Erase(o)
    \/ Unregister(o) \/ EnsureFound(o) \/ Register(o)
    \/ Connected(o) \/ NeedsRefresh(o) \/ Refresh(o)
    \/ Reconnect(o) \/ Reopened(o) \/ Renew(o)

Next ==
    \/ \E o \in Ops, kind \in Kinds, p \in Procs : Begin(o, kind, p)
    \/ \E o \in Ops : Step(o) \/ CallBreaks(o)
    \/ \E p \in Procs : ProbeFails(p)
    \/ Expire

Spec == Init /\ [][Next]_vars

-----------------------------------------------------------------------------
(***************************************************************************)
(* Properties.                                                             *)
(***************************************************************************)

\* Every variable has its type.
RegistryTypeOK ==
    /\ row \in [present : BOOLEAN, rev : Nat, token : {"none", "fresh", "expired", "required"}]
    /\ rowLock \in Ops \cup {None}
    /\ slot \in [Procs -> Entry \cup {None}]
    /\ regLock \in [Procs -> Ops \cup {None}]
    /\ {up, live, marked} \subseteq [Procs -> SUBSET Nat]
    /\ made \in [Procs -> Nat]
    /\ op \in [Ops -> OpState]
    /\ losses \in 0..MaxLosses /\ expiries \in 0..MaxExpiry

\* A tool call reaches the server through a connection at least as new as the
\* configuration that was committed, by any process, when the call began; a call
\* begun after the deletion does not reach it at all.
SendsOnCurrent ==
    [][\A o \in Ops : op'[o].pc = "sent" /\ op[o].pc # "sent" =>
            /\ op[o].since > 0
            /\ slot'[At(o)].rev >= op[o].since]_vars

\* Whatever operations replace each other's entries, they leave no connection running
\* that no entry names, but those of clients that a probe or a broken call had marked.
OrphansWereMarked ==
    \A p \in Procs : live[p] \subseteq marked[p] \cup (IF Up(p) THEN {slot[p].client} ELSE {})

\* register: "Always replaces the existing entry for the same registration ID,
\* disconnecting it first" (violated: mcp_orphan.cfg).
NoOrphanConnection ==
    \A p \in Procs : live[p] \subseteq IF slot[p] = None THEN {} ELSE {slot[p].client}

\* Operations that only want the server live (a call, a hydration) never tear
\* down an entry that is connected under the committed configuration.
EnsureSparesCurrent ==
    [][\A p \in Procs :
        Up(p) /\ row.present /\ slot[p].rev >= row.rev /\ slot'[p] # slot[p] =>
            \/ slot'[p] # None
            \/ \E o \in Ops : /\ op'[o] # op[o] /\ At(o) = p
                              /\ op[o].kind \notin {"call", "hydrate"}]_vars

\* a waits for a lock that b holds.
WantsRow(o) == op[o].pc \in {"lockrow", "refresh", "renew"}
WaitsFor(a, b) ==
    \/ WantsRow(a) /\ rowLock = b
    \/ op[a].pc = "broken" /\ Reopens(b, At(a), op[a].client)
    \/ op[a].pc = "lockreg" /\ regLock[At(a)] = b
Deadlocked == \E a, b \in Ops : WaitsFor(a, b) /\ WaitsFor(b, a)

\* Nothing but a delete keeps the row's lock while it waits for a registry.
Active(o) == op[o].pc \notin {"idle", "done", "sent"}
MutualWaitsNeedDelete ==
    \A a, b \in Ops : WaitsFor(a, b) /\ WaitsFor(b, a) => "delete" \in {op[a].kind, op[b].kind}

\* Longer chains of waits end: unless two operations wait for each other, one of
\* those under way waits for nobody.
ChainsEnd ==
    (\E o \in Ops : Active(o)) /\ ~Deadlocked =>
        \E o \in Ops : Active(o) /\ \A b \in Ops : ~WaitsFor(o, b)

\* Two operations wait for each other only if one is a delete, as update_server's
\* comment asks.  And there is no other way to be stuck: as long as some operation
\* is under way and no two wait for each other, one of them can go on.
OnlyDeleteDeadlocks ==
    /\ MutualWaitsNeedDelete
    /\ (\E o \in Ops : Active(o)) /\ ~Deadlocked => \E o \in Ops : Active(o) /\ ENABLED Step(o)
=============================================================================
