-------------------------- MODULE MCPRegistry_proofs --------------------------
(***************************************************************************)
(* Proofs about MCPRegistry: for any number of processes and operations,   *)
(* losses of connections and expiries of the token.                        *)
(***************************************************************************)
EXTENDS MCPRegistry, TLAPS

-----------------------------------------------------------------------------
(* The inductive invariant.                                                *)

Connecting(o) == op[o].pc \in {"connecting", "refresh"}

(* The holder of a registry's lock is the operation that connects there,   *)
(* and while it does the registry has no entry.                            *)
Underway == {"read", "lockrow", "lockreg", "connecting", "refresh",
             "sent", "broken", "reopening", "renew"}

Held ==
  /\ \A o \in Ops : op[o].pc \in Underway => At(o) \in Procs
  /\ \A o \in Ops : Connecting(o) => regLock[At(o)] = o
  /\ \A p \in Procs : regLock[p] # None => slot[p] = None

(* What an operation that only wants the server live knows of the row: a   *)
(* deletion it saw is final, and a revision it read is not ahead of the    *)
(* row and not behind the one its call began at.                           *)
Wants(o) == op[o].kind \in {"call", "hydrate"}

Informed(o) ==
  /\ op[o].kind = "call" /\ op[o].pc = "read" =>
        op[o].since <= row.rev /\ (op[o].since = 0 => ~row.present)
  /\ Wants(o) /\ op[o].pc \in {"lockreg", "connecting", "refresh"} =>
        \/ op[o].pc = "lockreg" /\ op[o].todo = "unregister" /\ ~row.present
        \/ /\ op[o].todo = "ensure" /\ op[o].rev <= row.rev
           /\ op[o].kind = "call" => op[o].since > 0 /\ op[o].since <= op[o].rev

AllInformed == row.rev > 0 /\ \A o \in Ops : Informed(o)

\* A call reconnects the client it marked, and no mark is taken back.
Reopening(o) == op[o].pc \in {"broken", "reopening", "renew"}
MarkedFirst  == \A o \in Ops : Reopening(o) => op[o].client \in marked[At(o)]

Tidy(p) == live[p] \subseteq marked[p] \cup (IF Up(p) THEN {slot[p].client} ELSE {})

IInv == RegistryTypeOK /\ Held /\ OrphansWereMarked /\ MarkedFirst /\ AllInformed

-----------------------------------------------------------------------------
(* What the steps do to one operation and to the row.                      *)

RowType == [present : BOOLEAN, rev : Nat, token : {"none", "fresh", "expired", "required"}]
OpType  == [Ops -> OpState]

LEMMA TypeParts ==
  ASSUME RegistryTypeOK
  PROVE  /\ row \in RowType /\ row.rev \in Nat /\ row.present \in BOOLEAN /\ op \in OpType
         /\ \A o \in Ops : op[o].rev \in Nat /\ op[o].since \in Nat /\ op[o].client \in Nat
         /\ slot \in [Procs -> Entry \cup {None}] /\ made \in [Procs -> Nat]
         /\ \A p \in Procs : slot[p] # None => slot[p].rev \in Nat /\ slot[p].client \in Nat
  BY DEF RegistryTypeOK, RowType, OpType, OpState, Entry

\* Operation o is as s now, and no other changed.
Becomes(o, s) == /\ op' \in OpType /\ op'[o] = s
                 /\ \A v \in Ops : v # o => op'[v] = op[v]

LEMMA OpMoves ==
  ASSUME op \in OpType, NEW o \in Ops, NEW s \in OpState, Set(o, s)
  PROVE  Becomes(o, s)
  BY DEF OpType, Set, Becomes

LEMMA RestTyped ==
  ASSUME NEW pc \in {"idle", "done", "sent"}
  PROVE  Rest(pc) \in OpState /\ Rest(pc).pc = pc
  BY DEF Rest, OpState, Kinds

LEMMA RestMoves ==
  ASSUME op \in OpType, NEW o \in Ops, NEW pc \in {"idle", "done", "sent"}, Set(o, Rest(pc))
  PROVE  Becomes(o, Rest(pc)) /\ op'[o].pc = pc
  BY OpMoves, RestTyped DEF Becomes

LEMMA BeginMoves ==
  ASSUME RegistryTypeOK, NEW o \in Ops, NEW kind \in Kinds, NEW p \in Procs, Begin(o, kind, p)
  PROVE  /\ op' \in OpType /\ \A v \in Ops : v # o => op'[v] = op[v]
         /\ op'[o].kind = kind /\ op'[o].at = p
         /\ op'[o].pc \in {"lockrow", "read"}
         /\ op'[o].since = IF kind = "call" /\ row.present THEN row.rev ELSE 0
<1> DEFINE pc == IF kind \in {"update", "clear", "delete"} THEN "lockrow" ELSE "read"
           client == IF kind = "call" THEN slot[p].client ELSE 0
           since == IF kind = "call" /\ row.present THEN row.rev ELSE 0
           s == [op[o] EXCEPT !.pc = pc, !.kind = kind, !.at = p, !.client = client,
                              !.since = since]
<1>1. op[o] \in OpState /\ op \in OpType
  BY TypeParts DEF OpType
<1>2. pc \in {"lockrow", "read"} /\ client \in Nat /\ since \in Nat
  BY TypeParts DEF Begin, Up
<1>3. Set(o, s)
  BY DEF Begin
<1> HIDE DEF pc, client, since
<1>4. s \in OpState /\ s.kind = kind /\ s.at = p /\ s.pc = pc /\ s.since = since
  BY <1>1, <1>2 DEF OpState
<1> HIDE DEF s
<1>5. Becomes(o, s)
  BY <1>1, <1>3, <1>4, OpMoves
<1> QED
  BY <1>2, <1>4, <1>5 DEF Becomes, since

LEMMA PositionMoves ==
  ASSUME op \in OpType, NEW o \in Ops,
         NEW pc \in {"read", "lockreg", "connecting", "refresh", "erase", "broken",
                    "reopening", "renew"},
         Set(o, [op[o] EXCEPT !.pc = pc])
  PROVE  /\ op' \in OpType /\ \A v \in Ops : v # o => op'[v] = op[v]
         /\ op'[o].pc = pc /\ op'[o].at = op[o].at /\ op'[o].kind = op[o].kind
         /\ op'[o].todo = op[o].todo /\ op'[o].rev = op[o].rev /\ op'[o].since = op[o].since
         /\ op'[o].client = op[o].client
<1> DEFINE s == [op[o] EXCEPT !.pc = pc]
<1>1. op[o] \in OpState
  BY DEF OpType
<1>2. /\ s \in OpState /\ s.pc = pc /\ s.at = op[o].at /\ s.kind = op[o].kind
      /\ s.todo = op[o].todo /\ s.rev = op[o].rev /\ s.since = op[o].since
      /\ s.client = op[o].client
  BY <1>1 DEF OpState
<1> HIDE DEF s
<1>3. Becomes(o, s)
  BY <1>2, OpMoves DEF s
<1> QED
  BY <1>2, <1>3 DEF Becomes

\* An operation goes on to ask the registry for something.
LEMMA AskMoves ==
  ASSUME op \in OpType, NEW o \in Ops, NEW todo \in {"ensure", "register", "unregister"},
         NEW rev \in Nat,
         Set(o, [op[o] EXCEPT !.pc = "lockreg", !.rev = rev, !.todo = todo])
  PROVE  /\ op' \in OpType /\ \A v \in Ops : v # o => op'[v] = op[v]
         /\ op'[o].pc = "lockreg" /\ op'[o].at = op[o].at /\ op'[o].kind = op[o].kind
         /\ op'[o].todo = todo /\ op'[o].rev = rev /\ op'[o].since = op[o].since
<1> DEFINE s == [op[o] EXCEPT !.pc = "lockreg", !.rev = rev, !.todo = todo]
<1>1. op[o] \in OpState
  BY DEF OpType
<1>2. /\ s \in OpState /\ s.pc = "lockreg" /\ s.at = op[o].at /\ s.kind = op[o].kind
      /\ s.todo = todo /\ s.rev = rev /\ s.since = op[o].since
  BY <1>1 DEF OpState
<1> HIDE DEF s
<1>3. Becomes(o, s)
  BY <1>2, OpMoves DEF s
<1> QED
  BY <1>2, <1>3 DEF Becomes

LEMMA AskNothingMoves ==
  ASSUME op \in OpType, NEW o \in Ops,
         Set(o, [op[o] EXCEPT !.pc = "lockreg", !.todo = "unregister"])
  PROVE  /\ op' \in OpType /\ \A v \in Ops : v # o => op'[v] = op[v]
         /\ op'[o].pc = "lockreg" /\ op'[o].at = op[o].at /\ op'[o].kind = op[o].kind
         /\ op'[o].todo = "unregister"
<1> DEFINE s == [op[o] EXCEPT !.pc = "lockreg", !.todo = "unregister"]
<1>1. op[o] \in OpState
  BY DEF OpType
<1>2. /\ s \in OpState /\ s.pc = "lockreg" /\ s.at = op[o].at /\ s.kind = op[o].kind
      /\ s.todo = "unregister"
  BY <1>1 DEF OpState
<1> HIDE DEF s
<1>3. Becomes(o, s)
  BY <1>2, OpMoves DEF s
<1> QED
  BY <1>2, <1>3 DEF Becomes

\* Delivered, an operation is over, or a call starts again with the new client.
LEMMA DeliverMoves ==
  ASSUME op \in OpType, NEW o \in Ops, NEW client \in Nat, Set(o, Deliver(o, client))
  PROVE  /\ op' \in OpType /\ \A v \in Ops : v # o => op'[v] = op[v]
         /\ \/ op'[o].pc = "done"
            \/ op'[o].pc = "sent" /\ op[o].kind = "call" /\ op'[o].at = op[o].at
            \/ /\ op'[o].pc = "read" /\ op'[o].at = op[o].at /\ op'[o].kind = op[o].kind
               /\ op'[o].since = op[o].since
<1>1. CASE op[o].kind # "call"
  BY <1>1, RestMoves DEF Deliver, Becomes
<1>2. CASE op[o].kind = "call" /\ client = op[o].client
  <2> DEFINE s == [Rest("sent") EXCEPT !.kind = "call", !.at = At(o), !.client = client]
  <2>1. op[o] \in OpState
    BY DEF OpType
  <2>2. s \in OpState /\ s.pc = "sent" /\ s.at = op[o].at
    BY <2>1 DEF OpState, Rest, Kinds, At
  <2>3. Set(o, s)
    BY <1>2 DEF Deliver
  <2> HIDE DEF s
  <2>4. Becomes(o, s)
    BY <2>2, <2>3, OpMoves
  <2> QED
    BY <1>2, <2>2, <2>4 DEF Becomes
<1>3. CASE op[o].kind = "call" /\ client # op[o].client
  <2> DEFINE s == [op[o] EXCEPT !.pc = "read", !.client = client]
  <2>1. op[o] \in OpState
    BY DEF OpType
  <2>2. /\ s \in OpState /\ s.pc = "read" /\ s.at = op[o].at /\ s.kind = op[o].kind
        /\ s.since = op[o].since
    BY <2>1 DEF OpState
  <2>3. Set(o, s)
    BY <1>3 DEF Deliver
  <2> HIDE DEF s
  <2>4. Becomes(o, s)
    BY <2>2, <2>3, OpMoves
  <2> QED
    BY <2>2, <2>4 DEF Becomes
<1> QED
  BY <1>1, <1>2, <1>3

\* The revision only grows, and a deleted row stays deleted.
Grows == row' \in RowType /\ row'.rev >= row.rev /\ (row'.present => row.present)

LEMMA RowGrows ==
  ASSUME RegistryTypeOK, [Next]_vars
  PROVE  Grows
<1>1. row \in RowType /\ row.rev \in Nat /\ row.present \in BOOLEAN
  BY TypeParts
<1>2. ASSUME row' = row PROVE Grows
  BY <1>1, <1>2 DEF Grows
<1>3. ASSUME NEW n \in Nat, NEW token \in {"none", "fresh", "expired", "required"}, n >= row.rev,
             row' = [row EXCEPT !.rev = n, !.token = token]
      PROVE  Grows
  BY <1>1, <1>3 DEF Grows, RowType
<1>4. ASSUME NEW o \in Ops, NEW kind \in Kinds, NEW p \in Procs, Begin(o, kind, p) PROVE Grows
  BY <1>2, <1>4 DEF Begin
<1>5. ASSUME NEW o \in Ops,
             \/ Read(o) \/ LockForDelete(o) \/ Unregister(o) \/ EnsureFound(o)
             \/ Register(o) \/ Connected(o) \/ NeedsRefresh(o)
             \/ Reconnect(o) \/ Reopened(o) \/ CallBreaks(o)
      PROVE  Grows
  BY <1>2, <1>5 DEF Read, LockForDelete, Unregister, EnsureFound, Register, Connected,
     NeedsRefresh, Reconnect, Reopened, CallBreaks
<1>6. ASSUME NEW o \in Ops, ChangeRow(o) PROVE Grows
  <2> DEFINE token == IF op[o].kind = "clear" THEN "none" ELSE row.token
             n == row.rev + 1
  <2>1. token \in {"none", "fresh", "expired", "required"} /\ n \in Nat /\ n >= row.rev
    BY <1>1 DEF RowType
  <2>2. row' = row \/ row' = [row EXCEPT !.rev = n, !.token = token]
    BY <1>6 DEF ChangeRow
  <2> HIDE DEF token, n
  <2> QED
    BY <1>2, <1>3, <2>1, <2>2
<1>7. ASSUME NEW o \in Ops, Erase(o) PROVE Grows
  <2>1. row' = [row EXCEPT !.present = FALSE]
    BY <1>7 DEF Erase
  <2>2. row' \in RowType /\ row'.rev = row.rev /\ row'.present = FALSE
    BY <1>1, <2>1 DEF RowType
  <2> QED
    BY <1>1, <2>2 DEF Grows
<1>8. ASSUME NEW o \in Ops, Refresh(o) \/ Renew(o) PROVE Grows
  <2> DEFINE n == row.rev + 1
             m == IF row.token = "expired" THEN row.rev + 1 ELSE row.rev
  <2>1. n \in Nat /\ n >= row.rev /\ m \in Nat /\ m >= row.rev
    BY <1>1
  <2>2. PICK ok \in BOOLEAN : Rotate(ok)
    BY <1>8 DEF Refresh, Renew
  <2>3. \/ row' = row
        \/ row' = [row EXCEPT !.rev = n, !.token = "fresh"]
        \/ row' = [row EXCEPT !.rev = m, !.token = "required"]
    BY <2>2 DEF Rotate
  <2> HIDE DEF n, m
  <2> QED
    BY <1>2, <1>3, <2>1, <2>3
<1>9. ASSUME NEW p \in Procs, ProbeFails(p) PROVE Grows
  BY <1>2, <1>9 DEF ProbeFails
<1>10. CASE Expire
  BY <1>1, <1>10 DEF Expire, Grows, RowType
<1>11. CASE UNCHANGED vars
  BY <1>2, <1>11 DEF vars
<1> QED
  BY <1>4, <1>5, <1>6, <1>7, <1>8, <1>9, <1>10, <1>11 DEF Next, Step

-----------------------------------------------------------------------------
(* What the steps do to the entries.                                       *)

ClientsTyped == {up, live, marked} \subseteq [Procs -> SUBSET Nat]

\* What is open elsewhere is not disturbed.
SameAt(q) == slot'[q] = slot[q] /\ up'[q] = up[q] /\ live'[q] = live[q] /\ marked'[q] = marked[q]

LEMMA Elsewhere ==
  ASSUME OrphansWereMarked, NEW q \in Procs, SameAt(q)
  PROVE  Tidy(q)'
  BY DEF OrphansWereMarked, Tidy, SameAt, Up

LEMMA TidyAll ==
  ASSUME OrphansWereMarked, NEW p \in Procs, Tidy(p)', \A q \in Procs : q # p => SameAt(q)
  PROVE  OrphansWereMarked'
<1>1. \A q \in Procs : Tidy(q)'
  BY Elsewhere
<1> QED
  BY <1>1 DEF OrphansWereMarked, Tidy

LEMMA Empties ==
  ASSUME RegistryTypeOK, OrphansWereMarked, NEW p \in Procs, Close(p), UNCHANGED marked
  PROVE  /\ slot' \in [Procs -> Entry \cup {None}] /\ slot'[p] = None
         /\ ClientsTyped' /\ Tidy(p)'
         /\ \A q \in Procs : q # p => SameAt(q)
<1> DEFINE closed == IF Up(p) THEN {slot[p].client} ELSE {}
<1>1. /\ slot \in [Procs -> Entry \cup {None}] /\ up \in [Procs -> SUBSET Nat]
      /\ live \in [Procs -> SUBSET Nat] /\ marked \in [Procs -> SUBSET Nat]
      /\ live[p] \subseteq marked[p] \cup closed
  BY DEF RegistryTypeOK, OrphansWereMarked
<1>2. /\ slot' = [slot EXCEPT ![p] = None]
      /\ up' = [up EXCEPT ![p] = @ \ closed] /\ live' = [live EXCEPT ![p] = @ \ closed]
  BY DEF Close
<1> HIDE DEF closed
<1>3. /\ slot' \in [Procs -> Entry \cup {None}] /\ slot'[p] = None
      /\ up' \in [Procs -> SUBSET Nat] /\ live' \in [Procs -> SUBSET Nat]
      /\ live'[p] = live[p] \ closed
      /\ \A q \in Procs : q # p => slot'[q] = slot[q] /\ up'[q] = up[q] /\ live'[q] = live[q]
  BY <1>1, <1>2
<1>4. Tidy(p)'
  BY <1>1, <1>3 DEF Tidy, Up
<1> QED
  BY <1>1, <1>3, <1>4 DEF ClientsTyped, SameAt

LEMMA EntryTyped ==
  ASSUME NEW c \in Nat, NEW r \in Nat
  PROVE  LET e == [client |-> c, rev |-> r]
         IN  e \in Entry /\ e # None /\ e.client = c /\ e.rev = r
  BY NoneAssumption DEF Entry

LEMMA Opens ==
  ASSUME RegistryTypeOK, NEW p \in Procs, NEW client \in Nat, NEW ok \in BOOLEAN,
         Opened(p, client, ok), UNCHANGED marked
  PROVE  /\ ClientsTyped' /\ marked'[p] = marked[p] /\ up[p] \subseteq up'[p]
         /\ live'[p] = IF ok THEN live[p] \cup {client} ELSE live[p]
         /\ ok => client \in up'[p]
         /\ \A q \in Procs : q # p => up'[q] = up[q] /\ live'[q] = live[q] /\ marked'[q] = marked[q]
<1>1. /\ up \in [Procs -> SUBSET Nat] /\ live \in [Procs -> SUBSET Nat]
      /\ marked \in [Procs -> SUBSET Nat]
  BY DEF RegistryTypeOK
<1>2. CASE ok
  <2>1. up' = [up EXCEPT ![p] = @ \cup {client}] /\ live' = [live EXCEPT ![p] = @ \cup {client}]
    BY <1>2 DEF Opened
  <2> QED
    BY <1>1, <1>2, <2>1 DEF ClientsTyped
<1>3. CASE ~ok
  <2>1. up' = [up EXCEPT ![p] = @ \cup {}] /\ live' = [live EXCEPT ![p] = @ \cup {}]
    BY <1>3 DEF Opened
  <2> QED
    BY <1>1, <1>3, <2>1 DEF ClientsTyped
<1> QED
  BY <1>2, <1>3

\* The registry's lock was o's, so there was nothing to replace.
LEMMA Stores ==
  ASSUME IInv, NEW o \in Ops, Connecting(o), NEW p, p = At(o), NEW ok \in BOOLEAN, Store(o, ok)
  PROVE  /\ p \in Procs /\ slot' \in [Procs -> Entry \cup {None}] /\ slot'[p] # None
         /\ slot'[p].rev = op[o].rev
         /\ ClientsTyped' /\ Tidy(p)'
         /\ regLock' \in [Procs -> Ops \cup {None}] /\ regLock'[p] = None
         /\ \A q \in Procs : q # p => SameAt(q) /\ regLock'[q] = regLock[q]
         /\ ok => Set(o, Deliver(o, made[p]))
         /\ ~ok => Set(o, Rest("done"))
<1> DEFINE e == [client |-> made[p], rev |-> op[o].rev]
<1>1. p \in Procs /\ regLock[p] = o /\ RegistryTypeOK
  BY DEF IInv, Held, Connecting, Underway
<1>2. slot[p] = None
  BY <1>1, RegistryAssumption DEF IInv, Held
<1>3. live[p] \subseteq marked[p]
  BY <1>1, <1>2 DEF IInv, OrphansWereMarked, Up
<1>4. made[p] \in Nat /\ op[o].rev \in Nat
  BY <1>1, TypeParts
<1>5. e \in Entry /\ e # None /\ e.client = made[p] /\ e.rev = op[o].rev
  BY <1>4, EntryTyped
<1>6. /\ slot' = [slot EXCEPT ![p] = e]
      /\ Opened(p, made[p], ok) /\ UNCHANGED marked
      /\ regLock' = [regLock EXCEPT ![p] = None]
      /\ ok => Set(o, Deliver(o, made[p]))
      /\ ~ok => Set(o, Rest("done"))
  BY DEF Store
<1>7. /\ slot \in [Procs -> Entry \cup {None}]
      /\ regLock \in [Procs -> Ops \cup {None}]
  BY <1>1 DEF RegistryTypeOK
<1> HIDE DEF e
<1>8. /\ slot' \in [Procs -> Entry \cup {None}] /\ slot'[p] = e
      /\ \A q \in Procs : q # p => slot'[q] = slot[q]
  BY <1>1, <1>5, <1>6, <1>7
<1>9. /\ ClientsTyped' /\ marked'[p] = marked[p]
      /\ live'[p] = IF ok THEN live[p] \cup {made[p]} ELSE live[p]
      /\ ok => made[p] \in up'[p]
      /\ \A q \in Procs : q # p => up'[q] = up[q] /\ live'[q] = live[q] /\ marked'[q] = marked[q]
  BY <1>1, <1>4, <1>6, Opens
<1>10. /\ regLock' \in [Procs -> Ops \cup {None}] /\ regLock'[p] = None
       /\ \A q \in Procs : q # p => regLock'[q] = regLock[q]
  BY <1>1, <1>6, <1>7
<1>11. Tidy(p)'
  BY <1>3, <1>5, <1>8, <1>9 DEF Tidy, Up
<1>12. \A q \in Procs : q # p => SameAt(q) /\ regLock'[q] = regLock[q]
  BY <1>8, <1>9, <1>10 DEF SameAt
<1> QED
  BY <1>1, <1>5, <1>6, <1>8, <1>9, <1>10, <1>11, <1>12

LEMMA Unmarks ==
  ASSUME RegistryTypeOK, OrphansWereMarked, NEW p \in Procs, NEW client \in Nat,
         Unmark(p, client), UNCHANGED <<slot, live>>
  PROVE  /\ ClientsTyped' /\ Tidy(p)' /\ marked'[p] = marked[p] \cup {client}
         /\ \A q \in Procs : q # p => SameAt(q)
<1>1. /\ up \in [Procs -> SUBSET Nat] /\ live \in [Procs -> SUBSET Nat]
      /\ marked \in [Procs -> SUBSET Nat]
  BY DEF RegistryTypeOK
<1>2. up' = [up EXCEPT ![p] = @ \ {client}] /\ marked' = [marked EXCEPT ![p] = @ \cup {client}]
  BY DEF Unmark
<1>3. /\ up' \in [Procs -> SUBSET Nat] /\ marked' \in [Procs -> SUBSET Nat]
      /\ up'[p] = up[p] \ {client} /\ marked'[p] = marked[p] \cup {client}
      /\ \A q \in Procs : q # p => up'[q] = up[q] /\ marked'[q] = marked[q]
  BY <1>1, <1>2
<1>4. Tidy(p)'
  BY <1>3 DEF OrphansWereMarked, Tidy, Up
<1> QED
  BY <1>1, <1>3, <1>4 DEF ClientsTyped, SameAt

LEMMA ReopensTidy ==
  ASSUME IInv, NEW o \in Ops, op[o].pc \in {"reopening", "renew"}, NEW ok \in BOOLEAN,
         Reopen(o, ok), UNCHANGED <<slot, marked>>
  PROVE  ClientsTyped' /\ \A q \in Procs : Tidy(q)'
<1>1. PICK p : p = At(o)
  OBVIOUS
<1>2. PICK client : client = op[o].client
  OBVIOUS
<1>3. p \in Procs /\ client \in Nat /\ client \in marked[p] /\ RegistryTypeOK
  BY <1>1, <1>2, TypeParts DEF IInv, Held, Underway, MarkedFirst, Reopening
<1> Opened(p, client, ok) /\ UNCHANGED marked
  BY <1>1, <1>2 DEF Reopen
<1>4. /\ ClientsTyped' /\ marked'[p] = marked[p] /\ up[p] \subseteq up'[p]
      /\ live'[p] = IF ok THEN live[p] \cup {client} ELSE live[p]
      /\ \A q \in Procs : q # p => up'[q] = up[q] /\ live'[q] = live[q] /\ marked'[q] = marked[q]
  BY <1>3, Opens
<1>5. Tidy(p)'
  BY <1>3, <1>4 DEF IInv, OrphansWereMarked, Tidy, Up
<1>6. ASSUME NEW q \in Procs, q # p PROVE Tidy(q)'
  BY <1>4, <1>6, Elsewhere DEF SameAt, IInv
<1> QED
  BY <1>4, <1>5, <1>6

LEMMA Stops ==
  ASSUME IInv, NEW o \in Ops, Reconnect(o)
  PROVE  ClientsTyped' /\ \A q \in Procs : Tidy(q)'
<1>1. PICK p : p = At(o)
  OBVIOUS
<1>2. /\ p \in Procs /\ live \in [Procs -> SUBSET Nat] /\ up \in [Procs -> SUBSET Nat]
      /\ marked \in [Procs -> SUBSET Nat]
  BY <1>1 DEF IInv, Held, Underway, Reconnect, RegistryTypeOK
<1>3. UNCHANGED <<slot, up, marked>>
  BY DEF Reconnect
<1>4. live' \in [Procs -> SUBSET Nat] /\ \A q \in Procs : live'[q] \subseteq live[q]
  <2>1. live' = live \/ live' = [live EXCEPT ![p] = @ \ {op[o].client}]
    BY <1>1 DEF Reconnect
  <2> QED
    BY <1>2, <2>1
<1> QED
  BY <1>2, <1>3, <1>4 DEF ClientsTyped, IInv, OrphansWereMarked, Tidy, Up

-----------------------------------------------------------------------------
(* The invariant is preserved.                                             *)

LEMMA NeedsMoves ==
  ASSUME op \in OpType, NEW o \in Ops, NeedsRefresh(o)
  PROVE  /\ op' \in OpType /\ \A v \in Ops : v # o => op'[v] = op[v]
         /\ op'[o].at = op[o].at /\ op'[o].kind = op[o].kind
         /\ op'[o].todo = op[o].todo /\ op'[o].rev = op[o].rev /\ op'[o].since = op[o].since
         /\ op'[o].client = op[o].client
         /\ op[o].pc = "connecting" => op'[o].pc = "refresh"
         /\ op[o].pc # "connecting" => op[o].pc = "reopening" /\ op'[o].pc = "renew"
<1>1. CASE op[o].pc = "connecting"
  <2>1. Set(o, [op[o] EXCEPT !.pc = "refresh"])
    BY <1>1 DEF NeedsRefresh
  <2> QED
    BY <1>1, <2>1, PositionMoves
<1>2. CASE op[o].pc # "connecting"
  <2>1. Set(o, [op[o] EXCEPT !.pc = "renew"]) /\ op[o].pc = "reopening"
    BY <1>2 DEF NeedsRefresh
  <2> QED
    BY <1>2, <2>1, PositionMoves
<1> QED
  BY <1>1, <1>2

LEMMA StepMoves ==
  ASSUME IInv, NEW o \in Ops, Step(o)
  PROVE  /\ op' \in OpType /\ \A v \in Ops : v # o => op'[v] = op[v]
         /\ op'[o].pc \in Underway => op[o].pc \in Underway /\ op'[o].at = op[o].at
         /\ Connecting(o)' => Register(o) \/ NeedsRefresh(o)
         /\ op'[o].pc = "sent" =>
               op[o].kind = "call" /\ (EnsureFound(o) \/ Connected(o) \/ Refresh(o))
         /\ Reopening(o)' => Reopening(o) /\ op'[o].client = op[o].client
<1> DEFINE Moves == /\ op' \in OpType /\ \A v \in Ops : v # o => op'[v] = op[v]
                    /\ op'[o].pc \in Underway => op[o].pc \in Underway /\ op'[o].at = op[o].at
                    /\ Connecting(o)' => Register(o) \/ NeedsRefresh(o)
                    /\ op'[o].pc = "sent" =>
                          op[o].kind = "call" /\ (EnsureFound(o) \/ Connected(o) \/ Refresh(o))
                    /\ Reopening(o)' => Reopening(o) /\ op'[o].client = op[o].client
<1>1. /\ op \in OpType /\ row.rev \in Nat /\ op[o].rev \in Nat
  BY TypeParts DEF IInv
<1>2. ASSUME Set(o, Rest("done")) PROVE Moves
  BY <1>1, <1>2, RestMoves DEF Becomes, Underway, Connecting, Reopening
<1>3. CASE Read(o)
  <2>1. CASE row.present
    BY <1>1, <1>3, <2>1, AskMoves DEF Read, Underway, Connecting, Reopening
  <2>2. CASE ~row.present /\ op[o].kind = "reconnect"
    BY <1>2, <1>3, <2>2 DEF Read
  <2>3. CASE ~row.present /\ op[o].kind # "reconnect"
    BY <1>1, <1>3, <2>3, AskNothingMoves DEF Read, Underway, Connecting, Reopening
  <2> QED
    BY <2>1, <2>2, <2>3
<1>4. CASE ChangeRow(o)
  <2>1. CASE row.present
    <3> DEFINE todo == IF op[o].kind = "update" THEN "register" ELSE "unregister"
               n == row.rev + 1
    <3>1. todo \in {"ensure", "register", "unregister"} /\ n \in Nat /\ op[o].pc = "lockrow"
      BY <1>1, <1>4 DEF ChangeRow
    <3>2. Set(o, [op[o] EXCEPT !.pc = "lockreg", !.rev = n, !.todo = todo])
      BY <1>4, <2>1 DEF ChangeRow
    <3> HIDE DEF todo, n
    <3> QED
      BY <1>1, <3>1, <3>2, AskMoves DEF Underway, Connecting, Reopening
  <2>2. CASE ~row.present
    BY <1>2, <1>4, <2>2 DEF ChangeRow
  <2> QED
    BY <2>1, <2>2
<1>5. CASE LockForDelete(o)
  <2>1. CASE row.present
    BY <1>1, <1>5, <2>1, AskNothingMoves DEF LockForDelete, Underway, Connecting, Reopening
  <2>2. CASE ~row.present
    BY <1>2, <1>5, <2>2 DEF LockForDelete
  <2> QED
    BY <2>1, <2>2
<1>6. CASE Erase(o)
  BY <1>2, <1>6 DEF Erase
<1>7. CASE Unregister(o)
  <2>1. CASE op[o].kind = "delete"
    BY <1>1, <1>7, <2>1, PositionMoves DEF Unregister, Underway, Connecting, Reopening
  <2>2. CASE op[o].kind # "delete"
    BY <1>2, <1>7, <2>2 DEF Unregister
  <2> QED
    BY <2>1, <2>2
<1>8. CASE EnsureFound(o)
  <2>1. op[o].pc = "lockreg" /\ slot[At(o)].client \in Nat /\ Set(o, Deliver(o, slot[At(o)].client))
    BY <1>8, TypeParts DEF EnsureFound, Serves, Up, IInv, Held, Underway
  <2> QED
    BY <1>1, <1>8, <2>1, DeliverMoves DEF Underway, Connecting, Reopening
<1>9. CASE Register(o)
  BY <1>1, <1>9, PositionMoves DEF Register, Underway, Connecting, Reopening
<1>10. ASSUME NEW ok \in BOOLEAN, Store(o, ok), Connecting(o),
               Connected(o) \/ Refresh(o)
        PROVE  Moves
  <2>1. op[o].pc \in Underway /\ made[At(o)] \in Nat
    BY <1>10, TypeParts DEF Connecting, Underway, IInv, Held
  <2>2. CASE ok
    <3>1. Set(o, Deliver(o, made[At(o)]))
      BY <1>10, <2>2 DEF Store
    <3> QED
      BY <1>1, <1>10, <2>1, <3>1, DeliverMoves DEF Underway, Connecting, Reopening
  <2>3. CASE ~ok
    BY <1>2, <1>10, <2>3 DEF Store
  <2> QED
    BY <2>2, <2>3
<1>11. CASE Connected(o)
  BY <1>10, <1>11 DEF Connected, Connecting
<1>12. CASE NeedsRefresh(o)
  <2>1. NeedsRefresh(o) /\ op[o].pc \in {"connecting", "reopening"}
    BY <1>12 DEF NeedsRefresh
  <2> QED
    BY <1>1, <2>1, NeedsMoves DEF Underway, Connecting, Reopening
<1>13. CASE Refresh(o)
  BY <1>10, <1>13 DEF Refresh, Connecting
<1>14. CASE Reconnect(o)
  <2>1. CASE op[o].client \in up[At(o)]
    BY <1>2, <1>14, <2>1 DEF Reconnect
  <2>2. CASE op[o].client \notin up[At(o)]
    BY <1>1, <1>14, <2>2, PositionMoves DEF Reconnect, Underway, Connecting, Reopening
  <2> QED
    BY <2>1, <2>2
<1>15. CASE Reopened(o) \/ Renew(o)
  BY <1>2, <1>15 DEF Reopened, Renew, Reopen
<1> QED
  BY <1>3, <1>4, <1>5, <1>6, <1>7, <1>8, <1>9, <1>11, <1>12, <1>13, <1>14, <1>15 DEF Step

EntriesTyped == /\ slot \in [Procs -> Entry \cup {None}]
                /\ ClientsTyped
                /\ regLock \in [Procs -> Ops \cup {None}]
                /\ made \in [Procs -> Nat]

Shape == EntriesTyped /\ op \in OpType /\ Held /\ OrphansWereMarked

LEMMA ShapeNow == IInv => Shape
  BY DEF IInv, RegistryTypeOK, Shape, EntriesTyped, ClientsTyped, OpType

\* A step that takes no registry's lock.
LEMMA HeldStays ==
  ASSUME IInv, NEW o \in Ops, UNCHANGED regLock,
         \A q \in Procs : slot[q] = None => slot'[q] = None,
         \A v \in Ops : v # o => op'[v] = op[v],
         op'[o].pc \in Underway => op'[o].at \in Procs,
         Connecting(o)' => Connecting(o) /\ op'[o].at = op[o].at
  PROVE  Held'
<1> /\ \A v \in Ops : op'[v].pc \in Underway => op'[v].at \in Procs
    /\ \A v \in Ops : op'[v].pc \in {"connecting", "refresh"} => regLock'[op'[v].at] = v
    /\ \A q \in Procs : regLock'[q] # None => slot'[q] = None
  BY DEF IInv, Held, At, Connecting
<1> QED
  BY DEF Held, At, Connecting

\* A step that changes no entry.
LEMMA ClientsMove ==
  ASSUME IInv, NEW o \in Ops, UNCHANGED <<slot, regLock, made>>,
         ClientsTyped', \A q \in Procs : Tidy(q)',
         op' \in OpType, \A v \in Ops : v # o => op'[v] = op[v],
         op'[o].pc \in Underway => op'[o].at \in Procs,
         Connecting(o)' => Connecting(o) /\ op'[o].at = op[o].at
  PROVE  Shape'
<1>1. Held'
  BY HeldStays
<1>2. EntriesTyped'
  BY ShapeNow DEF Shape, EntriesTyped
<1>3. OrphansWereMarked'
  BY DEF OrphansWereMarked, Tidy
<1> QED
  BY <1>1, <1>2, <1>3 DEF Shape

LEMMA Quiet ==
  ASSUME IInv, NEW o \in Ops, UNCHANGED <<slot, clients, regLock, made>>,
         op' \in OpType, \A v \in Ops : v # o => op'[v] = op[v],
         op'[o].pc \in Underway => op'[o].at \in Procs,
         Connecting(o)' => Connecting(o) /\ op'[o].at = op[o].at
  PROVE  Shape'
<1>1. ClientsTyped'
  BY ShapeNow DEF Shape, EntriesTyped, ClientsTyped, clients
<1>2. \A q \in Procs : Tidy(q)'
  BY Elsewhere DEF IInv, SameAt, clients
<1> QED
  BY <1>1, <1>2, ClientsMove

LEMMA RegisterShape ==
  ASSUME IInv, NEW o \in Ops, Register(o)
  PROVE  Shape'
<1>p. PICK p : p = At(o)
  OBVIOUS
<1>1. /\ p \in Procs /\ regLock[p] = None /\ Close(p) /\ UNCHANGED marked
      /\ regLock' = [regLock EXCEPT ![p] = o] /\ made' = [made EXCEPT ![p] = @ + 1]
      /\ op[o].pc = "lockreg"
  BY <1>p DEF Register, IInv, Held, Underway
<1>2. /\ slot' \in [Procs -> Entry \cup {None}] /\ slot'[p] = None
      /\ ClientsTyped' /\ Tidy(p)'
      /\ \A q \in Procs : q # p => SameAt(q)
  BY <1>1, Empties DEF IInv
<1>3. /\ op' \in OpType /\ \A v \in Ops : v # o => op'[v] = op[v]
      /\ op'[o].pc = "connecting" /\ op'[o].at = p
  BY <1>p, TypeParts, PositionMoves DEF Register, IInv, At
<1>4. EntriesTyped'
  <2>1. regLock \in [Procs -> Ops \cup {None}] /\ made \in [Procs -> Nat]
    BY DEF IInv, RegistryTypeOK
  <2>2. made[p] + 1 \in Nat
    BY <1>1, <2>1
  <2>3. regLock' \in [Procs -> Ops \cup {None}] /\ made' \in [Procs -> Nat]
    BY <1>1, <2>1, <2>2
  <2> QED
    BY <1>2, <2>3 DEF EntriesTyped
<1>5. \A q \in Procs : q # p => regLock'[q] = regLock[q]
  BY <1>1 DEF IInv, RegistryTypeOK
<1>6. regLock'[p] = o
  BY <1>1 DEF IInv, RegistryTypeOK
<1>7. OrphansWereMarked'
  BY <1>1, <1>2, TidyAll DEF IInv
<1>8. \A v \in Ops : op'[v].pc \in Underway => op'[v].at \in Procs
  BY <1>1, <1>3 DEF IInv, Held, At
<1>9. ASSUME NEW v \in Ops, op'[v].pc \in {"connecting", "refresh"} PROVE regLock'[op'[v].at] = v
  <2>1. CASE v = o
    BY <1>3, <1>6, <2>1
  <2>2. CASE v # o
    <3>1. op[v] = op'[v] /\ regLock[op[v].at] = v /\ op[v].at \in Procs
      BY <1>3, <1>9, <2>2 DEF IInv, Held, Connecting, At, Underway
    <3>2. op[v].at # p
      BY <1>1, <3>1, RegistryAssumption
    <3> QED
      BY <1>5, <3>1, <3>2
  <2> QED
    BY <2>1, <2>2
<1>10. \A q \in Procs : regLock'[q] # None => slot'[q] = None
  BY <1>2, <1>5 DEF IInv, Held, SameAt
<1> QED
  BY <1>3, <1>4, <1>7, <1>8, <1>9, <1>10 DEF Shape, Held, At, Connecting

LEMMA StoreShape ==
  ASSUME IInv, NEW o \in Ops, Connecting(o), NEW ok \in BOOLEAN, Store(o, ok), UNCHANGED made,
         op' \in OpType, \A v \in Ops : v # o => op'[v] = op[v],
         op'[o].pc \in Underway => op'[o].at \in Procs, ~Connecting(o)'
  PROVE  Shape'
<1>p. PICK p : p = At(o)
  OBVIOUS
<1>1. /\ p \in Procs /\ slot' \in [Procs -> Entry \cup {None}]
      /\ ClientsTyped' /\ Tidy(p)'
      /\ regLock' \in [Procs -> Ops \cup {None}] /\ regLock'[p] = None
      /\ \A q \in Procs : q # p => SameAt(q) /\ regLock'[q] = regLock[q]
  BY <1>p, Stores
<1>2. regLock[p] = o
  BY <1>p DEF IInv, Held
<1>3. EntriesTyped'
  BY <1>1 DEF EntriesTyped, IInv, RegistryTypeOK
<1>4. OrphansWereMarked'
  BY <1>1, TidyAll DEF IInv
<1>5. \A v \in Ops : op'[v].pc \in Underway => op'[v].at \in Procs
  BY DEF IInv, Held, At
<1>6. ASSUME NEW v \in Ops, op'[v].pc \in {"connecting", "refresh"} PROVE regLock'[op'[v].at] = v
  <2>1. v # o
    BY <1>6 DEF Connecting
  <2>2. op[v] = op'[v] /\ regLock[op[v].at] = v /\ op[v].at \in Procs
    BY <1>6, <2>1 DEF IInv, Held, Connecting, At, Underway
  <2>3. op[v].at # p
    BY <1>2, <2>1, <2>2
  <2> QED
    BY <1>1, <2>2, <2>3
<1>7. \A q \in Procs : regLock'[q] # None => slot'[q] = None
  BY <1>1 DEF IInv, Held, SameAt
<1> QED
  BY <1>3, <1>4, <1>5, <1>6, <1>7 DEF Shape, Held, At, Connecting

LEMMA UnregisterShape ==
  ASSUME IInv, NEW o \in Ops, Unregister(o),
         op' \in OpType, \A v \in Ops : v # o => op'[v] = op[v],
         op'[o].pc \in Underway => op'[o].at \in Procs, ~Connecting(o)'
  PROVE  Shape'
<1>p. PICK p : p = At(o)
  OBVIOUS
<1>1. p \in Procs /\ Close(p) /\ UNCHANGED <<made, regLock, marked>>
  BY <1>p DEF Unregister, IInv, Held, Underway
<1>2. /\ slot' \in [Procs -> Entry \cup {None}] /\ slot'[p] = None
      /\ ClientsTyped' /\ Tidy(p)'
      /\ \A q \in Procs : q # p => SameAt(q)
  BY <1>1, Empties DEF IInv
<1>3. EntriesTyped'
  BY <1>1, <1>2 DEF EntriesTyped, IInv, RegistryTypeOK
<1>4. OrphansWereMarked'
  BY <1>1, <1>2, TidyAll DEF IInv
<1>5. Held'
  BY <1>1, <1>2, HeldStays DEF SameAt
<1> QED
  BY <1>3, <1>4, <1>5 DEF Shape

LEMMA ProbeShape ==
  ASSUME IInv, NEW p \in Procs, ProbeFails(p)
  PROVE  Shape' /\ marked[p] \subseteq marked'[p]
<1>1. /\ slot[p].client \in Nat /\ Unmark(p, slot[p].client)
      /\ UNCHANGED <<slot, live, regLock, made, op>>
  BY TypeParts DEF ProbeFails, Up, IInv
<1>2. ClientsTyped' /\ Tidy(p)' /\ \A q \in Procs : q # p => SameAt(q)
  BY <1>1, Unmarks DEF IInv
<1>3. EntriesTyped' /\ op' \in OpType /\ Held'
  BY <1>1, <1>2, ShapeNow DEF EntriesTyped, Shape, Held, At, Connecting
<1>4. OrphansWereMarked'
  BY <1>2, TidyAll DEF IInv
<1>5. marked'[p] = marked[p] \cup {slot[p].client}
  BY <1>1, Unmarks DEF IInv
<1> QED
  BY <1>3, <1>4, <1>5 DEF Shape

LEMMA BreakShape ==
  ASSUME IInv, NEW o \in Ops, CallBreaks(o)
  PROVE  /\ Shape' /\ op[o].pc = "sent" /\ op'[o].pc = "broken"
         /\ op'[o].at = op[o].at /\ op'[o].client = op[o].client
         /\ \A v \in Ops : v # o => op'[v] = op[v]
         /\ marked'[At(o)] = marked[At(o)] \cup {op[o].client}
<1>1. PICK p : p = At(o)
  OBVIOUS
<1>2. /\ p \in Procs /\ op[o].client \in Nat /\ op \in OpType /\ op[o].pc = "sent"
      /\ Unmark(p, op[o].client) /\ Set(o, [op[o] EXCEPT !.pc = "broken"])
      /\ UNCHANGED <<slot, live, regLock, made>>
  BY <1>1, TypeParts DEF CallBreaks, IInv, Held, Underway
<1>3. /\ ClientsTyped' /\ Tidy(p)' /\ \A q \in Procs : q # p => SameAt(q)
      /\ marked'[p] = marked[p] \cup {op[o].client}
  BY <1>2, Unmarks DEF IInv
<1>4. /\ op' \in OpType /\ \A v \in Ops : v # o => op'[v] = op[v]
      /\ op'[o].pc = "broken" /\ op'[o].at = op[o].at /\ op'[o].client = op[o].client
  BY <1>2, PositionMoves
<1>5. \A q \in Procs : Tidy(q)'
  BY <1>3, Elsewhere DEF IInv
<1>6. Shape'
  BY <1>1, <1>2, <1>3, <1>4, <1>5, ClientsMove DEF Connecting, At
<1> QED
  BY <1>1, <1>2, <1>3, <1>4, <1>6

LEMMA ShapeStep ==
  ASSUME IInv, [Next]_vars
  PROVE  Shape'
<1>1. ASSUME NEW o \in Ops, NEW kind \in Kinds, NEW p \in Procs, Begin(o, kind, p) PROVE Shape'
  <2>1. /\ op' \in OpType /\ \A v \in Ops : v # o => op'[v] = op[v]
        /\ op'[o].at = p /\ op'[o].pc \in {"lockrow", "read"}
    BY <1>1, BeginMoves DEF IInv
  <2>2. UNCHANGED <<slot, clients, regLock, made>>
    BY <1>1 DEF Begin
  <2> QED
    BY <2>1, <2>2, Quiet DEF Connecting
<1>2. ASSUME NEW o \in Ops, Step(o) PROVE Shape'
  <2>1. /\ op' \in OpType /\ \A v \in Ops : v # o => op'[v] = op[v]
        /\ op'[o].pc \in Underway => op[o].pc \in Underway /\ op'[o].at = op[o].at
        /\ Connecting(o)' => Register(o) \/ NeedsRefresh(o)
    BY <1>2, StepMoves
  <2>2. op'[o].pc \in Underway => op'[o].at \in Procs
    BY <2>1 DEF IInv, Held, At
  <2>3. CASE Register(o)
    BY <2>3, RegisterShape
  <2>4. CASE NeedsRefresh(o)
    <3>1. /\ UNCHANGED <<slot, clients, regLock, made>>
          /\ Connecting(o)' => Connecting(o) /\ op'[o].at = op[o].at
      BY <2>4, TypeParts, NeedsMoves DEF NeedsRefresh, Connecting, IInv
    <3> QED
      BY <2>1, <2>2, <3>1, Quiet
  <2>5. ASSUME ~Register(o), ~NeedsRefresh(o) PROVE ~Connecting(o)'
    BY <2>1, <2>5
  <2>6. CASE Unregister(o)
    BY <2>1, <2>2, <2>5, <2>6, UnregisterShape DEF Unregister, Register, NeedsRefresh
  <2>7. ASSUME Read(o) \/ ChangeRow(o) \/ LockForDelete(o) \/ Erase(o) \/ EnsureFound(o)
        PROVE  Shape'
    <3>1. UNCHANGED <<slot, clients, regLock, made>>
      BY <2>7 DEF Read, ChangeRow, LockForDelete, Erase, EnsureFound
    <3>2. ~Register(o) /\ ~NeedsRefresh(o)
      BY <2>7 DEF Read, ChangeRow, LockForDelete, Erase, EnsureFound, Register, NeedsRefresh
    <3> QED
      BY <2>1, <2>2, <2>5, <3>1, <3>2, Quiet
  <2>8. ASSUME Connected(o) \/ Refresh(o) PROVE Shape'
    <3>1. /\ Connecting(o) /\ UNCHANGED made /\ ~Register(o)
          /\ \E ok \in BOOLEAN : Store(o, ok)
      BY <2>8 DEF Connected, Refresh, Connecting, Register
    <3>2. ~Connecting(o)'
      <4>1. PICK ok \in BOOLEAN : Store(o, ok)
        BY <3>1
      <4>2. made[At(o)] \in Nat
        BY <3>1, TypeParts DEF IInv, Held, Connecting, Underway
      <4>3. Set(o, Deliver(o, made[At(o)])) \/ Set(o, Rest("done"))
        BY <4>1 DEF Store
      <4> QED
        BY <4>2, <4>3, TypeParts, DeliverMoves, RestMoves DEF IInv, Connecting
    <3> QED
      BY <2>1, <2>2, <3>1, <3>2, StoreShape
  <2>9. CASE Reconnect(o)
    <3>1. ClientsTyped' /\ \A q \in Procs : Tidy(q)'
      BY <2>9, Stops
    <3>2. UNCHANGED <<slot, regLock, made>> /\ ~Register(o) /\ ~NeedsRefresh(o)
      BY <2>9 DEF Reconnect, Register, NeedsRefresh
    <3> QED
      BY <2>1, <2>2, <2>5, <3>1, <3>2, ClientsMove
  <2>10. ASSUME Reopened(o) \/ Renew(o) PROVE Shape'
    <3>1. PICK ok \in BOOLEAN : Reopen(o, ok)
      BY <2>10 DEF Reopened, Renew
    <3>2. /\ UNCHANGED <<slot, regLock, marked, made>>
          /\ op[o].pc \in {"reopening", "renew"} /\ ~Register(o)
      BY <2>10 DEF Reopened, Renew, Register
    <3>3. ClientsTyped' /\ \A q \in Procs : Tidy(q)'
      BY <3>1, <3>2, ReopensTidy
    <3>4. ~Connecting(o)'
      BY <3>1, TypeParts, RestMoves DEF IInv, Reopen, Connecting
    <3> QED
      BY <2>1, <2>2, <3>2, <3>3, <3>4, ClientsMove
  <2> QED
    BY <1>2, <2>3, <2>4, <2>6, <2>7, <2>8, <2>9, <2>10 DEF Step
<1>3. ASSUME NEW p \in Procs, ProbeFails(p) PROVE Shape'
  BY <1>3, ProbeShape
<1>4. ASSUME NEW o \in Ops, CallBreaks(o) PROVE Shape'
  BY <1>4, BreakShape
<1>5. ASSUME UNCHANGED <<slot, clients, regLock, made, op>> PROVE Shape'
  <2>1. EntriesTyped' /\ op' \in OpType /\ Held'
    BY <1>5, ShapeNow DEF Shape, EntriesTyped, ClientsTyped, clients, Held, At, Connecting
  <2>2. OrphansWereMarked'
    BY <1>5, Elsewhere DEF IInv, SameAt, clients, OrphansWereMarked, Tidy
  <2> QED
    BY <2>1, <2>2 DEF Shape
<1> QED
  BY <1>1, <1>2, <1>3, <1>4, <1>5 DEF Next, Expire, vars, clients

LEMMA TypeStep ==
  ASSUME IInv, [Next]_vars
  PROVE  RegistryTypeOK'
<1>1. row' \in RowType
  BY RowGrows DEF IInv, Grows
<1>2. EntriesTyped' /\ op' \in OpType
  BY ShapeStep DEF Shape
<1>3. rowLock' \in Ops \cup {None}
  BY DEF IInv, RegistryTypeOK, Next, Step, Begin, Read, ChangeRow, LockForDelete, Erase,
     Unregister, EnsureFound, Register, Connected, NeedsRefresh, Refresh, CallBreaks,
     Reconnect, Reopened, Renew, ProbeFails, Expire, vars
<1>4. losses' \in 0..MaxLosses /\ expiries' \in 0..MaxExpiry
  <2>1. losses \in 0..MaxLosses /\ expiries \in 0..MaxExpiry
    BY DEF IInv, RegistryTypeOK
  <2>2. ASSUME NEW o \in Ops, CallBreaks(o)
        PROVE  /\ losses' = losses \/ (losses < MaxLosses /\ losses' = losses + 1)
               /\ expiries' = expiries
    BY <2>2 DEF CallBreaks
  <2>3. /\ losses' = losses \/ (losses < MaxLosses /\ losses' = losses + 1)
        /\ expiries' = expiries \/ (expiries < MaxExpiry /\ expiries' = expiries + 1)
    BY <2>2 DEF Next, Step, Begin, Read, ChangeRow, LockForDelete, Erase, Unregister,
       EnsureFound, Register, Connected, NeedsRefresh, Refresh, Reconnect, Reopened, Renew,
       ProbeFails, Expire, vars
  <2> QED
    BY <2>1, <2>3, RegistryAssumption
<1> QED
  BY <1>1, <1>2, <1>3, <1>4 DEF RegistryTypeOK, RowType, EntriesTyped, ClientsTyped, OpType

-----------------------------------------------------------------------------
(* A mark precedes each reopening.                                         *)

LEMMA MarksStay ==
  ASSUME IInv, [Next]_vars, NEW q \in Procs
  PROVE  marked[q] \subseteq marked'[q]
<1>1. ASSUME NEW p \in Procs, ProbeFails(p) PROVE marked[q] \subseteq marked'[q]
  <2>1. marked' = [marked EXCEPT ![p] = @ \cup {slot[p].client}]
    BY <1>1 DEF ProbeFails, Unmark
  <2> QED
    BY <2>1 DEF IInv, RegistryTypeOK
<1>2. ASSUME NEW o \in Ops, CallBreaks(o) PROVE marked[q] \subseteq marked'[q]
  <2>1. marked' = [marked EXCEPT ![At(o)] = @ \cup {op[o].client}]
    BY <1>2 DEF CallBreaks, Unmark
  <2> QED
    BY <2>1 DEF IInv, RegistryTypeOK
<1>3. ASSUME UNCHANGED marked PROVE marked[q] \subseteq marked'[q]
  BY <1>3
<1> QED
  BY <1>1, <1>2, <1>3 DEF Next, Step, Begin, Read, ChangeRow, LockForDelete, Erase,
     Unregister, EnsureFound, Register, Connected, NeedsRefresh, Refresh, Store, Reconnect,
     Reopened, Renew, Expire, vars, clients

LEMMA MarkedStep ==
  ASSUME IInv, [Next]_vars
  PROVE  MarkedFirst'
<1> SUFFICES ASSUME NEW v \in Ops, Reopening(v)' PROVE (op[v].client \in marked[At(v)])'
  BY DEF MarkedFirst
<1>1. ASSUME Reopening(v), op'[v].at = op[v].at, op'[v].client = op[v].client
      PROVE  (op[v].client \in marked[At(v)])'
  <2>1. At(v) \in Procs /\ op[v].client \in marked[At(v)]
    BY <1>1 DEF IInv, Held, Underway, MarkedFirst, Reopening
  <2> QED
    BY <1>1, <2>1, MarksStay DEF At
<1>2. ASSUME op'[v] = op[v] PROVE (op[v].client \in marked[At(v)])'
  BY <1>1, <1>2 DEF Reopening
<1>3. ASSUME NEW o \in Ops, NEW kind \in Kinds, NEW p \in Procs, Begin(o, kind, p)
      PROVE  (op[v].client \in marked[At(v)])'
  <2>1. op'[o].pc \in {"lockrow", "read"} /\ (v # o => op'[v] = op[v])
    BY <1>3, BeginMoves DEF IInv
  <2> QED
    BY <1>2, <2>1 DEF Reopening
<1>4. ASSUME NEW o \in Ops, Step(o) PROVE (op[v].client \in marked[At(v)])'
  <2>1. /\ v # o => op'[v] = op[v]
        /\ Reopening(o)' => Reopening(o) /\ op'[o].client = op[o].client
        /\ op'[o].pc \in Underway => op'[o].at = op[o].at
    BY <1>4, StepMoves
  <2>2. op'[v].pc \in Underway
    BY DEF Reopening, Underway
  <2> QED
    BY <1>1, <1>2, <2>1, <2>2
<1>5. ASSUME NEW o \in Ops, CallBreaks(o) PROVE (op[v].client \in marked[At(v)])'
  BY <1>2, <1>5, BreakShape DEF At
<1>6. ASSUME UNCHANGED op PROVE (op[v].client \in marked[At(v)])'
  BY <1>2, <1>6
<1> QED
  BY <1>3, <1>4, <1>5, <1>6 DEF Next, ProbeFails, Expire, vars

-----------------------------------------------------------------------------
(* What the operations know stays true.                                    *)

LEMMA OthersInformed ==
  ASSUME IInv, Grows, NEW v \in Ops, op'[v] = op[v]
  PROVE  Informed(v)'
<1>1. /\ row.rev \in Nat /\ row'.rev \in Nat /\ row'.rev >= row.rev
      /\ row'.present => row.present
      /\ op[v].rev \in Nat /\ op[v].since \in Nat /\ Informed(v)
  BY TypeParts DEF IInv, AllInformed, Grows, RowType
<1>2. /\ op[v].rev <= row.rev => op[v].rev <= row'.rev
      /\ op[v].since <= row.rev => op[v].since <= row'.rev
  BY <1>1
<1> QED
  BY <1>1, <1>2, Zenon DEF Informed, Wants

\* A call that was delivered elsewhere starts again knowing what it knew.
LEMMA DeliveredInformed ==
  ASSUME IInv, Grows, NEW o \in Ops, NEW client \in Nat,
         Set(o, Deliver(o, client)) \/ Set(o, Rest("done")),
         op[o].pc \in {"lockreg", "connecting", "refresh"},
         op[o].pc = "lockreg" => op[o].todo = "ensure"
  PROVE  Informed(o)'
<1>1. /\ row.rev \in Nat /\ row'.rev \in Nat /\ row'.rev >= row.rev /\ op \in OpType
      /\ op[o].rev \in Nat /\ op[o].since \in Nat /\ Informed(o)
  BY TypeParts DEF IInv, AllInformed, Grows, RowType
<1>2. \/ op'[o].pc \in {"done", "sent"}
      \/ /\ op'[o].pc = "read" /\ op'[o].kind = op[o].kind /\ op'[o].since = op[o].since
  BY <1>1, DeliverMoves, RestMoves
<1>3. op[o].kind = "call" => op[o].since > 0 /\ op[o].since <= row.rev
  BY <1>1 DEF Informed, Wants
<1> QED
  BY <1>1, <1>2, <1>3 DEF Informed

LEMMA SelfInformed ==
  ASSUME IInv, Grows, NEW o \in Ops, Step(o)
  PROVE  Informed(o)'
<1>1. /\ row.rev \in Nat /\ row'.rev \in Nat /\ row'.rev >= row.rev /\ op \in OpType
      /\ row'.present => row.present
      /\ op[o].rev \in Nat /\ op[o].since \in Nat /\ Informed(o)
  BY TypeParts DEF IInv, AllInformed, Grows, RowType
<1>2. ASSUME Set(o, Rest("done")) PROVE Informed(o)'
  BY <1>1, <1>2, RestMoves DEF Informed
<1>3. CASE Read(o)
  <2>1. CASE row.present
    <3> DEFINE todo == IF op[o].kind = "reconnect" THEN "register" ELSE "ensure"
    <3>1. /\ op'[o].pc = "lockreg" /\ op'[o].kind = op[o].kind /\ op'[o].todo = todo
          /\ op'[o].rev = row.rev /\ op'[o].since = op[o].since
      BY <1>1, <1>3, <2>1, AskMoves DEF Read
    <3>2. row' = row /\ op[o].pc = "read"
      BY <1>3 DEF Read
    <3> QED
      BY <1>1, <2>1, <3>1, <3>2 DEF Informed, Wants
  <2>2. CASE ~row.present /\ op[o].kind = "reconnect"
    BY <1>2, <1>3, <2>2 DEF Read
  <2>3. CASE ~row.present /\ op[o].kind # "reconnect"
    <3>1. op'[o].pc = "lockreg" /\ op'[o].todo = "unregister"
      BY <1>1, <1>3, <2>3, AskNothingMoves DEF Read
    <3> QED
      BY <1>1, <2>3, <3>1 DEF Informed
  <2> QED
    BY <2>1, <2>2, <2>3
<1>4. CASE ChangeRow(o)
  <2>1. op[o].kind \in {"update", "clear"}
    BY <1>4 DEF ChangeRow
  <2>2. CASE row.present
    <3> DEFINE todo == IF op[o].kind = "update" THEN "register" ELSE "unregister"
               n == row.rev + 1
    <3>1. todo \in {"ensure", "register", "unregister"} /\ n \in Nat
      BY <1>1
    <3>2. Set(o, [op[o] EXCEPT !.pc = "lockreg", !.rev = n, !.todo = todo])
      BY <1>4, <2>2 DEF ChangeRow
    <3> HIDE DEF todo, n
    <3>3. op'[o].kind = op[o].kind
      BY <1>1, <3>1, <3>2, AskMoves
    <3> QED
      BY <2>1, <3>3 DEF Informed, Wants
  <2>3. CASE ~row.present
    BY <1>2, <1>4, <2>3 DEF ChangeRow
  <2> QED
    BY <2>2, <2>3
<1>5. CASE LockForDelete(o)
  <2>1. CASE row.present
    BY <1>1, <1>5, <2>1, AskNothingMoves DEF LockForDelete, Informed, Wants
  <2>2. CASE ~row.present
    BY <1>2, <1>5, <2>2 DEF LockForDelete
  <2> QED
    BY <2>1, <2>2
<1>6. CASE Erase(o)
  BY <1>2, <1>6 DEF Erase
<1>7. CASE Unregister(o)
  <2>1. CASE op[o].kind = "delete"
    BY <1>1, <1>7, <2>1, PositionMoves DEF Unregister, Informed
  <2>2. CASE op[o].kind # "delete"
    BY <1>2, <1>7, <2>2 DEF Unregister
  <2> QED
    BY <2>1, <2>2
<1>8. CASE EnsureFound(o)
  <2>1. slot[At(o)].client \in Nat /\ Set(o, Deliver(o, slot[At(o)].client))
        /\ op[o].pc = "lockreg" /\ op[o].todo = "ensure"
    BY <1>8, TypeParts DEF EnsureFound, Serves, Up, IInv, Held, Underway
  <2> QED
    BY <2>1, DeliveredInformed
<1>9. CASE Register(o)
  <2>1. /\ op'[o].pc = "connecting" /\ op'[o].kind = op[o].kind /\ op'[o].todo = op[o].todo
        /\ op'[o].rev = op[o].rev /\ op'[o].since = op[o].since
    BY <1>1, <1>9, PositionMoves DEF Register
  <2>2. op[o].pc = "lockreg" /\ op[o].todo # "unregister"
    BY <1>9 DEF Register
  <2> QED
    BY <1>1, <2>1, <2>2 DEF Informed, Wants
<1>10. ASSUME NEW ok \in BOOLEAN, Store(o, ok), Connecting(o) PROVE Informed(o)'
  <2>1. made[At(o)] \in Nat
    BY <1>10, TypeParts DEF Connecting, Underway, IInv, Held
  <2>2. Set(o, Deliver(o, made[At(o)])) \/ Set(o, Rest("done"))
    BY <1>10 DEF Store
  <2> QED
    BY <1>10, <2>1, <2>2, DeliveredInformed DEF Connecting
<1>11. CASE Connected(o)
  BY <1>10, <1>11 DEF Connected, Connecting
<1>12. CASE NeedsRefresh(o)
  <2>1. /\ op'[o].kind = op[o].kind /\ op'[o].todo = op[o].todo
        /\ op'[o].rev = op[o].rev /\ op'[o].since = op[o].since
        /\ \/ op[o].pc = "connecting" /\ op'[o].pc = "refresh"
           \/ op'[o].pc = "renew"
    BY <1>1, <1>12, NeedsMoves
  <2>2. row' = row
    BY <1>12 DEF NeedsRefresh
  <2> QED
    BY <1>1, <2>1, <2>2 DEF Informed, Wants
<1>13. CASE Refresh(o)
  BY <1>10, <1>13 DEF Refresh, Connecting
<1>14. CASE Reconnect(o)
  <2>1. CASE op[o].client \in up[At(o)]
    BY <1>2, <1>14, <2>1 DEF Reconnect
  <2>2. CASE op[o].client \notin up[At(o)]
    <3>1. op'[o].pc = "reopening"
      BY <1>1, <1>14, <2>2, PositionMoves DEF Reconnect
    <3> QED
      BY <3>1 DEF Informed
  <2> QED
    BY <2>1, <2>2
<1>15. CASE Reopened(o) \/ Renew(o)
  BY <1>2, <1>15 DEF Reopened, Renew, Reopen
<1> QED
  BY <1>3, <1>4, <1>5, <1>6, <1>7, <1>8, <1>9, <1>11, <1>12, <1>13, <1>14, <1>15 DEF Step

LEMMA InformedStep ==
  ASSUME IInv, [Next]_vars
  PROVE  AllInformed'
<1>1. Grows
  BY RowGrows DEF IInv
<1>2. row'.rev > 0
  BY <1>1, TypeParts DEF IInv, AllInformed, Grows, RowType
<1>3. ASSUME NEW o \in Ops, NEW kind \in Kinds, NEW p \in Procs, Begin(o, kind, p),
             NEW v \in Ops
      PROVE  Informed(v)'
  <2>1. /\ \A u \in Ops : u # o => op'[u] = op[u]
        /\ op'[o].kind = kind /\ op'[o].pc \in {"lockrow", "read"}
        /\ op'[o].since = IF kind = "call" /\ row.present THEN row.rev ELSE 0
    BY <1>3, BeginMoves DEF IInv
  <2>2. row' = row /\ row.rev \in Nat /\ row.rev > 0
    BY <1>3, TypeParts DEF Begin, IInv, AllInformed
  <2>3. Informed(o)'
    BY <2>1, <2>2 DEF Informed
  <2> QED
    BY <1>1, <2>1, <2>3, OthersInformed
<1>4. ASSUME NEW o \in Ops, Step(o), NEW v \in Ops PROVE Informed(v)'
  BY <1>1, <1>4, StepMoves, SelfInformed, OthersInformed
<1>5. ASSUME UNCHANGED op, NEW v \in Ops PROVE Informed(v)'
  BY <1>1, <1>5, OthersInformed
<1>6. ASSUME NEW o \in Ops, CallBreaks(o), NEW v \in Ops PROVE Informed(v)'
  <2>1. op'[o].pc = "broken" /\ (v # o => op'[v] = op[v])
    BY <1>6, BreakShape
  <2>2. Informed(o)'
    BY <2>1 DEF Informed
  <2> QED
    BY <1>1, <2>1, <2>2, OthersInformed
<1> QED
  BY <1>2, <1>3, <1>4, <1>5, <1>6 DEF AllInformed, Next, ProbeFails, Expire, vars

-----------------------------------------------------------------------------
(* The theorems.                                                           *)

LEMMA IInvInit == Init => IInv
<1> SUFFICES ASSUME Init PROVE IInv
  OBVIOUS
<1> DEFINE e == [client |-> 1, rev |-> 1]
<1>1. e \in Entry /\ e # None /\ e.client = 1
  BY EntryTyped, Zenon
<1>2. /\ slot \in [Procs -> {None, e}] /\ live = up
      /\ up = [p \in Procs |-> IF slot[p] = None THEN {} ELSE {1}]
      /\ marked = [p \in Procs |-> {}]
  BY DEF Init
<1> HIDE DEF e
<1>3. row \in RowType /\ row.rev = 1
  <2>1. row \in [present : {TRUE}, rev : {1}, token : {"none", "fresh"}]
    BY DEF Init
  <2>2. /\ {TRUE} \subseteq BOOLEAN /\ {1} \subseteq Nat
        /\ {"none", "fresh"} \subseteq {"none", "fresh", "expired", "required"}
    OBVIOUS
  <2>3. row \in RowType
    BY <2>1, <2>2, Zenon DEF RowType
  <2> QED
    BY <2>1, <2>3
<1>4. /\ slot \in [Procs -> Entry \cup {None}] /\ up \in [Procs -> SUBSET Nat]
      /\ live \in [Procs -> SUBSET Nat] /\ marked \in [Procs -> SUBSET Nat]
      /\ OrphansWereMarked
  BY <1>1, <1>2 DEF OrphansWereMarked, Up
<1>5. op \in OpType /\ \A o \in Ops : op[o].pc = "idle"
  BY RestTyped DEF Init, OpType
<1>6. RegistryTypeOK
  BY <1>3, <1>4, <1>5, RegistryAssumption DEF Init, RegistryTypeOK, RowType, OpType
<1>7. Held
  BY <1>5 DEF Init, Held, Connecting, Underway
<1>8. AllInformed
  BY <1>3, <1>5 DEF AllInformed, Informed
<1>9. MarkedFirst
  BY <1>5 DEF MarkedFirst, Reopening
<1> QED
  BY <1>4, <1>6, <1>7, <1>8, <1>9 DEF IInv

LEMMA IInvStep == IInv /\ [Next]_vars => IInv'
<1> SUFFICES ASSUME IInv, [Next]_vars PROVE IInv'
  OBVIOUS
<1> QED
  BY ShapeStep, TypeStep, MarkedStep, InformedStep DEF Shape, IInv

LEMMA IInvHolds == Spec => []IInv
  BY IInvInit, IInvStep, PTL DEF Spec

(* Every variable has its type; in particular a registry's entry always    *)
(* has the revision it was registered with.                                *)
THEOREM RegistryTypeCorrect == Spec => []RegistryTypeOK
<1>1. IInv => RegistryTypeOK
  BY DEF IInv
<1> QED
  BY <1>1, IInvHolds, PTL

(* In whatever order operations register, unregister and reconnect, a      *)
(* connection that no entry of its process names is that of a client which *)
(* a probe or a broken call had marked not connected: every other client   *)
(* that is replaced is disconnected (_unregister_locked).                  *)
THEOREM OrphansCorrect == Spec => []OrphansWereMarked
<1>1. IInv => OrphansWereMarked
  BY DEF IInv
<1> QED
  BY <1>1, IInvHolds, PTL

LEMMA SentIsCurrent ==
  ASSUME IInv, [Next]_vars, NEW o \in Ops, op'[o].pc = "sent", op[o].pc # "sent"
  PROVE  op[o].since > 0 /\ slot'[At(o)].rev >= op[o].since
<1>1. ASSUME Step(o) PROVE op[o].since > 0 /\ slot'[At(o)].rev >= op[o].since
  <2>1. op[o].kind = "call" /\ (EnsureFound(o) \/ Connected(o) \/ Refresh(o))
    BY <1>1, StepMoves
  <2>2. Informed(o) /\ op[o].since \in Nat /\ op[o].rev \in Nat /\ op \in OpType
    BY TypeParts DEF IInv, AllInformed
  <2>3. CASE EnsureFound(o)
    <3>1. /\ slot' = slot /\ At(o) \in Procs /\ slot[At(o)] # None
          /\ op[o].pc = "lockreg" /\ op[o].todo = "ensure" /\ slot[At(o)].rev >= op[o].rev
      BY <2>3 DEF EnsureFound, Serves, Up, IInv, Held, Underway
    <3>2. slot[At(o)].rev \in Nat
      BY <3>1, TypeParts DEF IInv
    <3> QED
      BY <2>1, <2>2, <3>1, <3>2 DEF Informed, Wants
  <2>4. ASSUME Connecting(o), NEW ok \in BOOLEAN, Store(o, ok)
        PROVE  op[o].since > 0 /\ slot'[At(o)].rev >= op[o].since
    <3>1. slot'[At(o)].rev = op[o].rev
      BY <2>4, Stores
    <3> QED
      BY <2>1, <2>2, <2>4, <3>1 DEF Informed, Wants, Connecting
  <2> QED
    BY <2>1, <2>3, <2>4 DEF Connected, Refresh, Connecting
<1>2. ASSUME NEW v \in Ops, Step(v), v # o PROVE FALSE
  BY <1>2, StepMoves
<1>3. ASSUME NEW v \in Ops, NEW kind \in Kinds, NEW p \in Procs, Begin(v, kind, p) PROVE FALSE
  <2>1. op'[v].pc # "sent" /\ (v # o => op'[o] = op[o])
    BY <1>3, BeginMoves DEF IInv
  <2> QED
    BY <2>1
<1>4. ASSUME op' = op PROVE FALSE
  BY <1>4
<1>5. ASSUME NEW v \in Ops, CallBreaks(v) PROVE FALSE
  BY <1>5, BreakShape
<1> QED
  BY <1>1, <1>2, <1>3, <1>4, <1>5 DEF Next, ProbeFails, Expire, vars

(* A tool call reaches the server through a connection at least as new as  *)
(* the configuration committed when the call began (before_tool_call and   *)
(* ensure_registered), and not at all if the server was deleted by then.   *)
THEOREM SendsCorrect == Spec => SendsOnCurrent
<1>1. IInv /\ [Next]_vars =>
        [\A o \in Ops : op'[o].pc = "sent" /\ op[o].pc # "sent" =>
            /\ op[o].since > 0
            /\ slot'[At(o)].rev >= op[o].since]_vars
  BY SentIsCurrent
<1> QED
  BY <1>1, IInvHolds, PTL DEF Spec, SendsOnCurrent

LEMMA Spared ==
  ASSUME IInv, [Next]_vars, NEW p \in Procs,
         Up(p), row.present, slot[p].rev >= row.rev, slot'[p] # slot[p], slot'[p] = None
  PROVE  \E o \in Ops : op'[o] # op[o] /\ At(o) = p /\ op[o].kind \notin {"call", "hydrate"}
<1>1. ASSUME NEW o \in Ops, Register(o) \/ Unregister(o)
      PROVE  op'[o] # op[o] /\ At(o) = p /\ op[o].kind \notin {"call", "hydrate"}
  <2>1. op[o].pc = "lockreg" /\ At(o) \in Procs /\ Close(At(o))
    BY <1>1 DEF Register, Unregister, IInv, Held, Underway
  <2>2. At(o) = p
    BY <1>1, <2>1, Empties DEF IInv, SameAt, Register, Unregister
  <2>3. /\ Informed(o) /\ op[o].rev \in Nat /\ row.rev \in Nat /\ slot[p].rev \in Nat
        /\ slot[p] # None /\ op \in OpType
    BY TypeParts DEF IInv, AllInformed, Up
  <2>4. op'[o].pc # "lockreg"
    <3>1. CASE Register(o)
      BY <2>3, <3>1, PositionMoves DEF Register
    <3>2. CASE Unregister(o) /\ op[o].kind = "delete"
      BY <2>3, <3>2, PositionMoves DEF Unregister
    <3>3. CASE Unregister(o) /\ op[o].kind # "delete"
      BY <2>3, <3>3, RestMoves DEF Unregister
    <3> QED
      BY <1>1, <3>1, <3>2, <3>3
  <2>5. ASSUME Wants(o) PROVE FALSE
    <3>1. CASE Unregister(o)
      BY <2>3, <2>5, <3>1 DEF Unregister, Informed
    <3>2. CASE Register(o)
      <4>1. op[o].todo = "ensure" /\ op[o].rev <= row.rev
        BY <2>1, <2>3, <2>5, <3>2 DEF Register, Informed
      <4>2. ~(slot[p].rev >= op[o].rev)
        BY <2>2, <3>2, <4>1 DEF Register, Serves
      <4> QED
        BY <2>3, <4>1, <4>2
    <3> QED
      BY <1>1, <3>1, <3>2
  <2> QED
    BY <2>1, <2>2, <2>4, <2>5 DEF Wants
<1>2. ASSUME NEW o \in Ops, Connected(o) \/ Refresh(o) PROVE FALSE
  <2>1. PICK ok \in BOOLEAN : Store(o, ok) /\ Connecting(o)
    BY <1>2 DEF Connected, Refresh, Connecting
  <2>2. slot'[At(o)] # None /\ \A q \in Procs : q # At(o) => slot'[q] = slot[q]
    BY <2>1, Stores DEF SameAt
  <2> QED
    BY <2>2
<1>3. slot' # slot
  OBVIOUS
<1> QED
  BY <1>1, <1>2, <1>3 DEF Next, Step, Begin, Read, ChangeRow, LockForDelete, Erase,
     EnsureFound, NeedsRefresh, CallBreaks, Reconnect, Reopened, Renew, ProbeFails, Expire,
     vars

(* A call or a hydration never tears down an entry that is connected under *)
(* the committed configuration (ensure_registered leaves it alone).        *)
THEOREM SparesCorrect == Spec => EnsureSparesCurrent
<1>1. IInv /\ [Next]_vars =>
        [\A p \in Procs :
            Up(p) /\ row.present /\ slot[p].rev >= row.rev /\ slot'[p] # slot[p] =>
                \/ slot'[p] # None
                \/ \E o \in Ops : /\ op'[o] # op[o] /\ At(o) = p
                                  /\ op[o].kind \notin {"call", "hydrate"}]_vars
  BY Spared
<1> QED
  BY <1>1, IInvHolds, PTL DEF Spec, EnsureSparesCurrent
-----------------------------------------------------------------------------
(* Who waits for whom.                                                     *)

(* A registry's lock is held by an operation that connects there, the row's *)
(* across steps by a delete that waits for its registry or has emptied it.  *)
HeldRegistries ==
  \A p \in Procs : regLock[p] # None => Connecting(regLock[p]) /\ At(regLock[p]) = p

HeldRow ==
  rowLock # None => /\ op[rowLock].kind = "delete"
                    /\ \/ op[rowLock].pc = "lockreg" /\ op[rowLock].todo = "unregister"
                       \/ op[rowLock].pc = "erase"

WaitInv == IInv /\ HeldRegistries /\ HeldRow

LEMMA Holders ==
  ASSUME IInv
  PROVE  /\ rowLock \in Ops \cup {None} /\ \A p \in Procs : regLock[p] \in Ops \cup {None}
         /\ op \in OpType /\ None \notin Ops
  BY RegistryAssumption, TypeParts DEF IInv, RegistryTypeOK

LEMMA StoreReleases ==
  ASSUME IInv, NEW o \in Ops, Connecting(o), NEW ok \in BOOLEAN, Store(o, ok)
  PROVE  regLock'[At(o)] = None /\ \A q \in Procs : q # At(o) => regLock'[q] = regLock[q]
<1>1. regLock' = [regLock EXCEPT ![At(o)] = None]
  BY DEF Store
<1>2. regLock \in [Procs -> Ops \cup {None}] /\ At(o) \in Procs
  BY DEF IInv, RegistryTypeOK, Held, Connecting, Underway
<1> QED
  BY <1>1, <1>2

LEMMA RegistriesStep ==
  ASSUME WaitInv, [Next]_vars
  PROVE  HeldRegistries'
<1>1. \A p \in Procs : regLock[p] \in Ops \cup {None}
  BY Holders DEF WaitInv
\* Locks that are held stay held by operations that connect.
<1>2. ASSUME NEW o \in Ops, UNCHANGED regLock, \A v \in Ops : v # o => op'[v] = op[v],
             Connecting(o) => op'[o].pc \in {"connecting", "refresh"} /\ op'[o].at = op[o].at
      PROVE  HeldRegistries'
  <2> SUFFICES ASSUME NEW p \in Procs, regLock'[p] # None
               PROVE  (Connecting(regLock[p]) /\ At(regLock[p]) = p)'
    BY DEF HeldRegistries
  <2>1. regLock[p] \in Ops /\ Connecting(regLock[p]) /\ At(regLock[p]) = p
    BY <1>1, <1>2 DEF WaitInv, HeldRegistries
  <2> QED
    BY <1>2, <2>1 DEF Connecting, At
<1>3. ASSUME NEW o \in Ops, NEW kind \in Kinds, NEW p \in Procs, Begin(o, kind, p)
      PROVE  HeldRegistries'
  <2>1. \A v \in Ops : v # o => op'[v] = op[v]
    BY <1>3, BeginMoves DEF WaitInv, IInv
  <2>2. UNCHANGED regLock /\ ~Connecting(o)
    BY <1>3 DEF Begin, Connecting
  <2> QED
    BY <1>2, <2>1, <2>2
<1>4. ASSUME NEW o \in Ops,
             \/ Read(o) \/ ChangeRow(o) \/ LockForDelete(o) \/ Erase(o)
             \/ Unregister(o) \/ EnsureFound(o)
             \/ Reconnect(o) \/ Reopened(o) \/ Renew(o)
      PROVE  HeldRegistries'
  <2>1. \A v \in Ops : v # o => op'[v] = op[v]
    BY <1>4, StepMoves DEF WaitInv, Step
  <2>2. UNCHANGED regLock /\ ~Connecting(o)
    BY <1>4 DEF Read, ChangeRow, LockForDelete, Erase, Unregister, EnsureFound, Reconnect,
       Reopened, Renew, Connecting
  <2> QED
    BY <1>2, <2>1, <2>2
<1>5. ASSUME NEW o \in Ops, NeedsRefresh(o) PROVE HeldRegistries'
  <2>1. /\ \A v \in Ops : v # o => op'[v] = op[v]
        /\ Connecting(o) => op'[o].pc = "refresh" /\ op'[o].at = op[o].at
    BY <1>5, NeedsMoves, Holders DEF WaitInv, Connecting
  <2>2. UNCHANGED regLock
    BY <1>5 DEF NeedsRefresh
  <2> QED
    BY <1>2, <2>1, <2>2
<1>6. ASSUME NEW o \in Ops, Register(o) PROVE HeldRegistries'
  <2>1. /\ \A v \in Ops : v # o => op'[v] = op[v]
        /\ op'[o].pc = "connecting" /\ op'[o].at = op[o].at
    BY <1>6, PositionMoves, Holders DEF WaitInv, Register
  <2>2. regLock' = [regLock EXCEPT ![At(o)] = o] /\ ~Connecting(o)
    BY <1>6 DEF Register, Connecting
  <2> SUFFICES ASSUME NEW p \in Procs, regLock'[p] # None
               PROVE  (Connecting(regLock[p]) /\ At(regLock[p]) = p)'
    BY DEF HeldRegistries
  <2>3. CASE p = At(o)
    <3>1. regLock'[p] = o
      BY <2>2, <2>3 DEF WaitInv, IInv, RegistryTypeOK
    <3> QED
      BY <2>1, <2>3, <3>1 DEF Connecting, At
  <2>4. CASE p # At(o)
    <3>1. regLock'[p] = regLock[p]
      BY <2>2, <2>4 DEF WaitInv, IInv, RegistryTypeOK
    <3>2. regLock[p] \in Ops /\ Connecting(regLock[p]) /\ At(regLock[p]) = p
      BY <1>1, <3>1 DEF WaitInv, HeldRegistries
    <3> QED
      BY <2>1, <2>2, <3>1, <3>2 DEF Connecting, At
  <2> QED
    BY <2>3, <2>4
<1>7. ASSUME NEW o \in Ops, Connected(o) \/ Refresh(o) PROVE HeldRegistries'
  <2>1. PICK ok \in BOOLEAN : Store(o, ok) /\ Connecting(o)
    BY <1>7 DEF Connected, Refresh, Connecting
  <2>2. /\ regLock'[At(o)] = None /\ \A q \in Procs : q # At(o) => regLock'[q] = regLock[q]
    BY <2>1, StoreReleases DEF WaitInv
  <2>3. \A v \in Ops : v # o => op'[v] = op[v]
    BY <1>7, StepMoves DEF WaitInv, Step
  <2> SUFFICES ASSUME NEW p \in Procs, regLock'[p] # None
               PROVE  (Connecting(regLock[p]) /\ At(regLock[p]) = p)'
    BY DEF HeldRegistries
  <2>4. p # At(o) /\ regLock'[p] = regLock[p]
    BY <2>2
  <2>5. regLock[p] \in Ops /\ Connecting(regLock[p]) /\ At(regLock[p]) = p
    BY <1>1, <2>4 DEF WaitInv, HeldRegistries
  <2> QED
    BY <2>3, <2>4, <2>5 DEF Connecting, At
<1>8. ASSUME UNCHANGED <<regLock, op>> PROVE HeldRegistries'
  BY <1>8 DEF WaitInv, HeldRegistries, Connecting, At
<1>9. ASSUME NEW o \in Ops, CallBreaks(o) PROVE HeldRegistries'
  <2>1. UNCHANGED regLock /\ ~Connecting(o) /\ \A v \in Ops : v # o => op'[v] = op[v]
    BY <1>9, BreakShape DEF WaitInv, CallBreaks, Connecting
  <2> QED
    BY <1>2, <2>1
<1> QED
  BY <1>3, <1>4, <1>5, <1>6, <1>7, <1>8, <1>9 DEF Next, Step, ProbeFails, Expire, vars

LEMMA RowStep ==
  ASSUME WaitInv, [Next]_vars
  PROVE  HeldRow'
<1>1. rowLock \in Ops \cup {None} /\ op \in OpType
  BY Holders DEF WaitInv
\* The row stays locked by an operation that takes no step.
<1>2. ASSUME NEW o \in Ops, UNCHANGED rowLock, rowLock # o, \A v \in Ops : v # o => op'[v] = op[v]
      PROVE  HeldRow'
  BY <1>1, <1>2 DEF WaitInv, HeldRow
<1>3. ASSUME NEW o \in Ops, NEW kind \in Kinds, NEW p \in Procs, Begin(o, kind, p)
      PROVE  HeldRow'
  <2>1. \A v \in Ops : v # o => op'[v] = op[v]
    BY <1>3, BeginMoves DEF WaitInv, IInv
  <2>2. UNCHANGED rowLock /\ rowLock # o
    BY <1>1, <1>3, RegistryAssumption DEF Begin, WaitInv, HeldRow
  <2> QED
    BY <1>2, <2>1, <2>2
<1>4. ASSUME NEW o \in Ops,
             \/ Read(o) \/ ChangeRow(o) \/ EnsureFound(o) \/ Register(o)
             \/ Connected(o) \/ NeedsRefresh(o) \/ Refresh(o)
             \/ Reconnect(o) \/ Reopened(o) \/ Renew(o) \/ CallBreaks(o)
      PROVE  HeldRow'
  <2>1. \A v \in Ops : v # o => op'[v] = op[v]
    BY <1>4, StepMoves, BreakShape DEF WaitInv, Step
  <2>2. UNCHANGED rowLock
    BY <1>4 DEF Read, ChangeRow, EnsureFound, Register, Connected, NeedsRefresh, Refresh,
       Reconnect, Reopened, Renew, CallBreaks
  <2>3. \/ op[o].pc \notin {"lockreg", "erase"}
        \/ op[o].pc = "lockreg" /\ op[o].todo \in {"ensure", "register"}
    BY <1>4 DEF Read, ChangeRow, EnsureFound, Register, Connected, NeedsRefresh, Refresh,
       Reconnect, Reopened, Renew, CallBreaks
  <2>4. rowLock # o
    BY <2>3, RegistryAssumption DEF WaitInv, HeldRow
  <2> QED
    BY <1>2, <2>1, <2>2, <2>4
<1>5. ASSUME NEW o \in Ops, LockForDelete(o) PROVE HeldRow'
  <2>1. CASE row.present
    <3>1. rowLock' = o /\ op[o].kind = "delete"
          /\ Set(o, [op[o] EXCEPT !.pc = "lockreg", !.todo = "unregister"])
      BY <1>5, <2>1 DEF LockForDelete
    <3>2. op'[o].pc = "lockreg" /\ op'[o].kind = "delete" /\ op'[o].todo = "unregister"
      BY <1>1, <3>1, AskNothingMoves
    <3> QED
      BY <3>1, <3>2 DEF HeldRow
  <2>2. CASE ~row.present
    BY <1>5, <2>2 DEF LockForDelete, HeldRow
  <2> QED
    BY <2>1, <2>2
<1>6. ASSUME NEW o \in Ops, Erase(o) PROVE HeldRow'
  BY <1>6 DEF Erase, HeldRow
<1>7. ASSUME NEW o \in Ops, Unregister(o) PROVE HeldRow'
  <2>1. \A v \in Ops : v # o => op'[v] = op[v]
    BY <1>7, StepMoves DEF WaitInv, Step
  <2>2. UNCHANGED rowLock
    BY <1>7 DEF Unregister
  <2>3. CASE rowLock = o
    <3>1. op[o].kind = "delete"
      BY <2>3, RegistryAssumption DEF WaitInv, HeldRow
    <3>2. Set(o, [op[o] EXCEPT !.pc = "erase"])
      BY <1>7, <3>1 DEF Unregister
    <3>3. op'[o].pc = "erase" /\ op'[o].kind = "delete"
      BY <1>1, <3>1, <3>2, PositionMoves
    <3> QED
      BY <2>2, <2>3, <3>3 DEF HeldRow
  <2>4. CASE rowLock # o
    BY <1>2, <2>1, <2>2, <2>4
  <2> QED
    BY <2>3, <2>4
<1>8. ASSUME UNCHANGED <<rowLock, op>> PROVE HeldRow'
  BY <1>8 DEF WaitInv, HeldRow
<1> QED
  BY <1>3, <1>4, <1>5, <1>6, <1>7, <1>8 DEF Next, Step, ProbeFails, Expire, vars

LEMMA WaitInvHolds == Spec => []WaitInv
<1>1. Init => WaitInv
  BY IInvInit DEF Init, WaitInv, HeldRegistries, HeldRow
<1>2. WaitInv /\ [Next]_vars => WaitInv'
  BY IInvStep, RegistriesStep, RowStep DEF WaitInv
<1> QED
  BY <1>1, <1>2, PTL DEF Spec

\* Who holds a registry's lock waits for nothing but the row, and who holds the
\* row waits for nothing but a registry.
LEMMA Chain ==
  ASSUME WaitInv, NEW a \in Ops, NEW b \in Ops, WaitsFor(a, b)
  PROVE  \/ /\ WantsRow(a) /\ rowLock = b /\ op[b].kind = "delete"
            /\ op[b].pc \in {"lockreg", "erase"}
         \/ /\ op[a].pc = "lockreg" /\ At(a) \in Procs /\ regLock[At(a)] = b
            /\ Connecting(b)
         \/ op[a].pc = "broken" /\ op[b].pc \in {"reopening", "renew"}
<1>1. b # None
  BY RegistryAssumption
<1>2. CASE WantsRow(a) /\ rowLock = b
  BY <1>1, <1>2 DEF WaitInv, HeldRow
<1>3. CASE op[a].pc = "lockreg" /\ regLock[At(a)] = b
  BY <1>1, <1>3 DEF WaitInv, HeldRegistries, IInv, Held, Underway
<1>4. CASE op[a].pc = "broken" /\ Reopens(b, At(a), op[a].client)
  BY <1>4 DEF Reopens
<1> QED
  BY <1>2, <1>3, <1>4 DEF WaitsFor

\* Two operations that wait for each other hold one lock of each kind.
LEMMA OneIsDelete ==
  ASSUME WaitInv
  PROVE  MutualWaitsNeedDelete
<1> SUFFICES ASSUME NEW a \in Ops, NEW b \in Ops, WaitsFor(a, b), WaitsFor(b, a)
             PROVE  "delete" \in {op[a].kind, op[b].kind}
  BY DEF MutualWaitsNeedDelete
<1>1. CASE op[b].kind = "delete" \/ op[a].kind = "delete"
  BY <1>1
<1>2. CASE op[a].pc = "lockreg" /\ Connecting(b)
  <2>1. WantsRow(b) /\ rowLock = a /\ op[a].kind = "delete"
    BY <1>2, Chain DEF Connecting
  <2> QED
    BY <2>1
<1>3. CASE op[a].pc = "broken" /\ op[b].pc \in {"reopening", "renew"}
  BY <1>3, Chain DEF WantsRow
<1> QED
  BY <1>1, <1>2, <1>3, Chain

\* The operation at the end of a chain of waits: at most one that opens a connection,
\* then the holder of the row, then the holder of that one's registry.
LEMMA SomeoneFree ==
  ASSUME WaitInv
  PROVE  ChainsEnd
<1> DEFINE Free(o) == Active(o) /\ \A b \in Ops : ~WaitsFor(o, b)
           Opening(o) == op[o].pc \in {"connecting", "refresh", "reopening", "renew"}
<1> SUFFICES ASSUME NEW a \in Ops, Active(a), ~Deadlocked
             PROVE  \E o \in Ops : Free(o)
  BY DEF ChainsEnd
<1>1. ASSUME NEW c \in Ops, Opening(c), NEW b \in Ops, WaitsFor(c, b)
      PROVE  rowLock = b /\ op[b].pc \in {"lockreg", "erase"}
  BY <1>1, Chain DEF WantsRow
\* The holder of the row, if it waits, waits for one that waits for nobody.
<1>2. ASSUME NEW b \in Ops, rowLock = b, op[b].pc \in {"lockreg", "erase"}
      PROVE  \E o \in Ops : Free(o)
  <2>1. Active(b)
    BY <1>2 DEF Active
  <2>2. CASE \A c \in Ops : ~WaitsFor(b, c)
    BY <2>1, <2>2
  <2>3. ASSUME NEW c \in Ops, WaitsFor(b, c) PROVE Free(c)
    <3>1. Connecting(c)
      BY <1>2, <2>3, Chain DEF WantsRow
    <3>2. ~WaitsFor(c, b)
      BY <2>3 DEF Deadlocked
    <3>3. ASSUME NEW d \in Ops, WaitsFor(c, d) PROVE FALSE
      BY <1>1, <1>2, <3>1, <3>2, <3>3 DEF Connecting
    <3> QED
      BY <3>1, <3>3 DEF Active, Connecting
  <2> QED
    BY <2>2, <2>3
<1>3. ASSUME NEW c \in Ops, Opening(c) PROVE \E o \in Ops : Free(o)
  <2>1. CASE \A b \in Ops : ~WaitsFor(c, b)
    BY <1>3, <2>1 DEF Active
  <2>2. ASSUME NEW b \in Ops, WaitsFor(c, b) PROVE \E o \in Ops : Free(o)
    BY <1>1, <1>2, <1>3, <2>2
  <2> QED
    BY <2>1, <2>2
<1>4. CASE \A b \in Ops : ~WaitsFor(a, b)
  BY <1>4
<1>5. ASSUME NEW b \in Ops, WaitsFor(a, b) PROVE \E o \in Ops : Free(o)
  <2>1. \/ rowLock = b /\ op[b].pc \in {"lockreg", "erase"}
        \/ Opening(b)
    BY <1>5, Chain DEF Connecting
  <2> HIDE DEF Free
  <2> QED
    BY <1>2, <1>3, <2>1
<1> QED
  BY <1>4, <1>5

(* Operations that wait for each other are two, one of them a delete: for  *)
(* any number of processes and operations no longer cycle of waits exists, *)
(* because only delete_server keeps the row's lock while it waits for a    *)
(* registry, and a connection's refresh waits for the row only.            *)
THEOREM DeadlocksCorrect == Spec => [](MutualWaitsNeedDelete /\ ChainsEnd)
<1>1. WaitInv => MutualWaitsNeedDelete /\ ChainsEnd
  BY OneIsDelete, SomeoneFree
<1> QED
  BY <1>1, WaitInvHolds, PTL
=============================================================================
