--------------------------- MODULE MCPOAuth_proofs ---------------------------
(***************************************************************************)
(* Proofs about MCPOAuth: for any number of authorizations, callbacks,     *)
(* clears and connections, any URLs and any number of edits and rotations. *)
(***************************************************************************)
EXTENDS MCPOAuth, TLAPS

-----------------------------------------------------------------------------
(* Types, and the row lock.                                                *)

Active(c) == callback[c].pc \in {"exchange", "persist"}
Holding == {"ready", "refresh", "asking", "resend", "mark"}

\* A callback past its claim has a transaction, a connection past Connect a token.
Placed ==
  /\ \A c \in Callbacks : Active(c) => callback[c].txn \in Txns
  /\ \A w \in Workers : worker[w].pc \in Holding => worker[w].tok \in Token

\* Whoever is asking holds the row, and asks about the credential it has.
Locked ==
  /\ \A w \in Workers : worker[w].pc = "asking" <=> lock = w
  /\ lock # None => row.cred # None /\ row.cred.gen < MaxGen /\ shown[row.cred] > 0

TypeInv == OAuthTypeOK /\ Placed /\ Locked

LEMMA FreshRow ==
  ASSUME NEW r \in [present : {TRUE}, url : Urls, static : BOOLEAN, cred : {None},
                    pending : {None}, hash : {None}, authreq : {FALSE}, rev : {1}]
  PROVE  r \in Row /\ r.url \in Urls /\ r.cred = None /\ r.pending = None /\ r.hash = None
<1>1. /\ {TRUE} \subseteq BOOLEAN /\ {FALSE} \subseteq BOOLEAN /\ {1} \subseteq Nat
      /\ {None} \subseteq Token \cup {None} /\ {None} \subseteq Pending \cup {None}
      /\ {None} \subseteq Txns \cup {None}
  OBVIOUS
<1>2. r \in Row
  BY <1>1, Zenon DEF Row
<1> QED
  BY <1>2 DEF Row

LEMMA TypeInvInit == Init => TypeInv
<1> SUFFICES ASSUME Init PROVE TypeInv
  OBVIOUS
<1>1. row \in Row /\ row.url \in Urls
  BY FreshRow DEF Init
<1>2. OAuthTypeOK
  <2>1. begin \in [Txns -> [pc : {"idle", "discovering", "begun"}, url : Urls]]
    BY <1>1 DEF Init
  <2>2. callback \in [Callbacks -> [pc : {"idle", "exchange", "persist", "done"},
                                    txn : Txns \cup {None}, rev : Nat]]
    BY DEF Init
  <2>3. worker \in [Workers -> [pc : {"idle", "ready", "refresh", "asking", "resend", "mark",
                                      "outcome"},
                                tok : Token \cup {None}, force : BOOLEAN]]
    BY DEF Init
  <2>4. codes \in [Txns -> Nat] /\ shown \in [Token -> Nat]
    BY DEF Init
  <2> QED
    BY <1>1, <2>1, <2>2, <2>3, <2>4, OAuthAssumption DEF Init, OAuthTypeOK
<1>3. Placed /\ Locked
  BY OAuthAssumption DEF Init, Placed, Locked, Active, Holding
<1> QED
  BY <1>2, <1>3 DEF TypeInv

LEMMA BlankTyped == ASSUME NEW r \in Row PROVE Blank(r) \in Row
<1> DEFINE n == r.rev + 1
<1>1. n \in Nat
  BY DEF Row
<1> HIDE DEF n
<1>2. [r EXCEPT !.cred = None, !.pending = None, !.hash = None, !.authreq = FALSE,
                !.rev = n] \in Row
  BY <1>1 DEF Row
<1> QED
  BY <1>2 DEF Blank, n

CallbackType == [Callbacks -> [pc : {"idle", "exchange", "persist", "done"},
                               txn : Txns \cup {None}, rev : Nat]]
BeginType  == [Txns -> [pc : {"idle", "discovering", "begun"}, url : Urls]]
Position   == {"idle", "ready", "refresh", "asking", "resend", "mark", "outcome"}
WorkerType == [Workers -> [pc : Position, tok : Token \cup {None}, force : BOOLEAN]]

LEMMA TypeParts ==
  ASSUME TypeInv
  PROVE  /\ row \in Row /\ row.rev \in Nat /\ row.rev + 1 \in Nat
         /\ row.cred \in Token \cup {None} /\ row.pending \in Pending \cup {None}
         /\ row.hash \in Txns \cup {None} /\ row.url \in Urls
         /\ begin \in BeginType /\ callback \in CallbackType /\ worker \in WorkerType
<1>1. /\ row \in Row /\ begin \in BeginType /\ callback \in CallbackType
      /\ worker \in WorkerType
  BY DEF TypeInv, OAuthTypeOK, BeginType, CallbackType, WorkerType, Position
<1>2. /\ row.rev \in Nat /\ row.cred \in Token \cup {None} /\ row.pending \in Pending \cup {None}
      /\ row.hash \in Txns \cup {None} /\ row.url \in Urls
  BY <1>1 DEF Row
<1> QED
  BY <1>1, <1>2

LEMMA WorkerMoves ==
  ASSUME worker \in WorkerType, NEW w \in Workers, NEW pc \in Position,
         NEW tok \in Token \cup {None}, NEW force \in BOOLEAN,
         worker' = [worker EXCEPT ![w] = [pc |-> pc, tok |-> tok, force |-> force]]
  PROVE  /\ worker' \in WorkerType
         /\ \A v \in Workers : v # w => worker'[v] = worker[v]
         /\ worker'[w].pc = pc /\ worker'[w].tok = tok
  BY DEF WorkerType

LEMMA WorkerGoes ==
  ASSUME worker \in WorkerType, NEW w \in Workers, NEW pc \in Position, Goto(w, pc)
  PROVE  /\ worker' \in WorkerType
         /\ \A v \in Workers : v # w => worker'[v] = worker[v]
         /\ worker'[w].pc = pc /\ worker'[w].tok = worker[w].tok
  BY DEF WorkerType, Goto

\* A step of a connection that does not hold the row and does not take it.
LEMMA FreeWorker ==
  ASSUME TypeInv, NEW w \in Workers, worker[w].pc # "asking",
         worker' \in WorkerType, \A v \in Workers : v # w => worker'[v] = worker[v],
         worker'[w].pc # "asking", worker'[w].pc \in Holding => worker'[w].tok \in Token,
         row' \in Row, row'.cred = row.cred,
         UNCHANGED <<lock, begin, callback, clear, expired, edits, history>>
  PROVE  TypeInv'
<1>1. OAuthTypeOK'
  BY DEF TypeInv, OAuthTypeOK, WorkerType, Position, history
<1>2. Placed' /\ Locked'
  BY DEF TypeInv, Placed, Locked, Active, history
<1> QED
  BY <1>1, <1>2 DEF TypeInv

\* A connection ends the section in which it asked.
LEMMA Released ==
  ASSUME TypeInv, NEW w \in Workers, worker[w].pc = "asking", lock' = None,
         worker' \in WorkerType, \A v \in Workers : v # w => worker'[v] = worker[v],
         worker'[w].pc # "asking", worker'[w].pc \in Holding => worker'[w].tok \in Token,
         row' \in Row, shown' \in [Token -> Nat],
         UNCHANGED <<begin, callback, clear, expired, edits, codes, withdrawn>>
  PROVE  TypeInv'
<1>1. OAuthTypeOK'
  BY DEF TypeInv, OAuthTypeOK, WorkerType, Position
<1>2. Placed'
  BY DEF TypeInv, Placed, Active
<1>3. Locked'
  BY OAuthAssumption DEF TypeInv, Locked
<1> QED
  BY <1>1, <1>2, <1>3 DEF TypeInv

\* A step that finds the row free, or leaves it alone, and is no step of a connection.
LEMMA FreeRow ==
  ASSUME TypeInv, lock = None \/ row' = row, row' \in Row, begin' \in BeginType,
         callback' \in CallbackType, \A c \in Callbacks : Active(c)' => callback'[c].txn \in Txns,
         clear' \in [Clears -> {"idle", "revoking", "done"}], edits' \in 0..MaxEdits,
         codes' \in [Txns -> Nat], withdrawn' \subseteq Txns,
         UNCHANGED <<lock, worker, expired, shown>>
  PROVE  TypeInv'
<1>1. OAuthTypeOK'
  BY DEF TypeInv, OAuthTypeOK, CallbackType, BeginType
<1>2. Placed' /\ Locked'
  BY DEF TypeInv, Placed, Locked
<1> QED
  BY <1>1, <1>2 DEF TypeInv

\* The rows that the actions write.
LEMMA RowsTyped ==
  ASSUME NEW r \in Row, NEW n \in Nat
  PROVE  /\ \A b \in BOOLEAN : [r EXCEPT !.authreq = b] \in Row
         /\ [r EXCEPT !.authreq = TRUE, !.rev = n] \in Row
         /\ \A k \in Token : [r EXCEPT !.cred = k, !.authreq = FALSE, !.rev = n] \in Row
         /\ \A k \in Token : [r EXCEPT !.cred = k, !.pending = None, !.authreq = FALSE,
                                       !.rev = n] \in Row
         /\ \A p \in Pending : [r EXCEPT !.pending = p, !.hash = None] \in Row
         /\ [r EXCEPT !.pending = None, !.hash = None] \in Row
         /\ \A p \in Pending, t \in Txns :
               [r EXCEPT !.pending = p, !.hash = t, !.authreq = TRUE, !.rev = n] \in Row
         /\ \A u \in Urls, b \in BOOLEAN : [r EXCEPT !.url = u, !.static = b, !.rev = n] \in Row
         /\ \A u \in Urls : [r EXCEPT !.url = u, !.static = TRUE, !.pending = None, !.hash = None,
                                      !.authreq = FALSE, !.rev = n] \in Row
<1>1. \A b \in BOOLEAN : [r EXCEPT !.authreq = b] \in Row
  BY DEF Row
<1>2. [r EXCEPT !.authreq = TRUE, !.rev = n] \in Row
  BY DEF Row
<1>3. \A k \in Token : [r EXCEPT !.cred = k, !.authreq = FALSE, !.rev = n] \in Row
  BY DEF Row
<1>4. \A k \in Token : [r EXCEPT !.cred = k, !.pending = None, !.authreq = FALSE, !.rev = n] \in Row
  BY DEF Row
<1>5. \A p \in Pending : [r EXCEPT !.pending = p, !.hash = None] \in Row
  BY DEF Row
<1>6. [r EXCEPT !.pending = None, !.hash = None] \in Row
  BY DEF Row
<1>7. \A p \in Pending, t \in Txns :
        [r EXCEPT !.pending = p, !.hash = t, !.authreq = TRUE, !.rev = n] \in Row
  BY DEF Row
<1>8. \A u \in Urls, b \in BOOLEAN : [r EXCEPT !.url = u, !.static = b, !.rev = n] \in Row
  BY DEF Row
<1>9. \A u \in Urls : [r EXCEPT !.url = u, !.static = TRUE, !.pending = None, !.hash = None,
                                !.authreq = FALSE, !.rev = n] \in Row
  BY DEF Row
<1> QED
  BY <1>1, <1>2, <1>3, <1>4, <1>5, <1>6, <1>7, <1>8, <1>9

LEMMA TypeInvStep == TypeInv /\ [Next]_vars => TypeInv'
<1> SUFFICES ASSUME TypeInv, [Next]_vars PROVE TypeInv'
  OBVIOUS
<1> DEFINE n == row.rev + 1
<1>1. /\ row \in Row /\ n \in Nat /\ begin \in BeginType /\ callback \in CallbackType
      /\ worker \in WorkerType /\ withdrawn \subseteq Txns /\ codes \in [Txns -> Nat]
      /\ clear \in [Clears -> {"idle", "revoking", "done"}] /\ edits \in 0..MaxEdits
      /\ shown \in [Token -> Nat]
  BY TypeParts DEF TypeInv, OAuthTypeOK
<1>2. \A c \in Callbacks : Active(c) => callback[c].txn \in Txns
  BY DEF TypeInv, Placed
<1>3. ASSUME NEW t \in Txns, BeginRead(t) PROVE TypeInv'
  <2>1. begin' \in BeginType
    BY <1>1, <1>3, TypeParts DEF BeginRead, BeginType
  <2> QED
    BY <1>1, <1>2, <1>3, <2>1, FreeRow DEF BeginRead, history, Active
<1>4. ASSUME NEW t \in Txns, BeginPersist(t) PROVE TypeInv'
  <2>1. begin' \in BeginType
    BY <1>1, <1>4 DEF BeginPersist, BeginType
  <2>2. row' = [row EXCEPT !.pending = [txn |-> t, claim |-> None], !.hash = t,
                           !.authreq = TRUE, !.rev = n]
    BY <1>4 DEF BeginPersist
  <2>3. [txn |-> t, claim |-> None] \in Pending
    BY DEF Pending
  <2> HIDE DEF n
  <2>4. row' \in Row
    BY <1>1, <2>2, <2>3, RowsTyped
  <2> QED
    BY <1>1, <1>2, <1>4, <2>1, <2>4, FreeRow DEF BeginPersist, Active, Begun
<1>5. ASSUME NEW c \in Callbacks, NEW t \in Txns, Claim(c, t) PROVE TypeInv'
  <2>1. /\ callback' \in CallbackType
        /\ \A d \in Callbacks : Active(d)' => callback'[d].txn \in Txns
    <3> DEFINE r == row.rev
    <3>1. r \in Nat
      BY TypeParts
    <3>2. callback' = [callback EXCEPT ![c] = [pc |-> "exchange", txn |-> t, rev |-> r]]
      BY <1>5 DEF Claim
    <3> HIDE DEF r
    <3> QED
      BY <1>1, <1>2, <3>1, <3>2 DEF CallbackType, Active
  <2>2. row' = [row EXCEPT !.pending = [txn |-> t, claim |-> c], !.hash = None]
    BY <1>5 DEF Claim
  <2>3. [txn |-> t, claim |-> c] \in Pending
    BY DEF Pending
  <2>4. row' \in Row
    BY <1>1, <2>2, <2>3, RowsTyped
  <2> QED
    BY <1>1, <1>5, <2>1, <2>4, FreeRow DEF Claim, history
<1>6. ASSUME NEW c \in Callbacks, callback' = [callback EXCEPT ![c] = Over]
      PROVE  /\ callback' \in CallbackType
             /\ \A d \in Callbacks : Active(d)' => callback'[d].txn \in Txns
  BY <1>1, <1>2, <1>6 DEF Over, CallbackType, Active
<1>7. ASSUME NEW c \in Callbacks, NEW t \in Txns, ClaimExpired(c, t) PROVE TypeInv'
  <2>1. row' \in Row
    BY <1>1, <1>7, RowsTyped DEF ClaimExpired
  <2> QED
    BY <1>1, <1>6, <1>7, <2>1, FreeRow DEF ClaimExpired, history
<1>8. ASSUME NEW c \in Callbacks, Exchange(c) PROVE TypeInv'
  <2>1. /\ callback' \in CallbackType
        /\ \A d \in Callbacks : Active(d)' => callback'[d].txn \in Txns
    <3>1. CASE callback' = [callback EXCEPT ![c].pc = "persist"]
      BY <1>1, <1>2, <1>8, <3>1 DEF Exchange, CallbackType, Active
    <3> QED
      BY <1>6, <1>8, <3>1 DEF Exchange
  <2>2. codes' \in [Txns -> Nat]
    BY <1>1, <1>2, <1>8 DEF Exchange, Active
  <2> QED
    BY <1>1, <1>8, <2>1, <2>2, FreeRow DEF Exchange
<1>9. ASSUME NEW c \in Callbacks, Install(c) PROVE TypeInv'
  <2>1. callback[c].txn \in Txns
    BY <1>2, <1>9 DEF Install, Active
  <2>2. [txn |-> callback[c].txn, gen |-> 0] \in Token
    BY <2>1, OAuthAssumption DEF Token
  <2>3. row' = [row EXCEPT !.cred = [txn |-> callback[c].txn, gen |-> 0], !.pending = None,
                           !.authreq = FALSE, !.rev = n]
    BY <1>9 DEF Install
  <2> HIDE DEF n
  <2>4. row' \in Row
    BY <1>1, <2>2, <2>3, RowsTyped
  <2>5. withdrawn' \subseteq Txns
    BY <1>1, <1>9, TypeParts DEF Install, Installed, Token
  <2> QED
    BY <1>1, <1>6, <1>9, <2>4, <2>5, FreeRow DEF Install
<1>10. ASSUME NEW c \in Callbacks, InstallRefused(c) PROVE TypeInv'
  BY <1>1, <1>6, <1>10, FreeRow DEF InstallRefused, history
<1>11. Begun \subseteq Txns
  BY DEF Begun
<1>12. Blank(row) \in Row
  BY <1>1, BlankTyped
<1>13. ASSUME NEW k \in Clears, ClearLoad(k) \/ ClearPersist(k) PROVE TypeInv'
  BY <1>1, <1>2, <1>11, <1>12, <1>13, FreeRow DEF ClearLoad, ClearPersist, Active, history
<1>14. edits < MaxEdits => edits + 1 \in 0..MaxEdits
  BY <1>1, OAuthAssumption
<1>15. CASE ClearServerCredentials
  <2>1. row' \in Row
    BY <1>12, <1>15 DEF ClearServerCredentials, Row
  <2> QED
    BY <1>1, <1>2, <1>11, <1>14, <1>15, <2>1, FreeRow DEF ClearServerCredentials, Active
<1>16. CASE DeleteServer
  <2>1. row' \in Row
    BY <1>12, <1>16 DEF DeleteServer, Row
  <2> QED
    BY <1>1, <1>2, <1>11, <1>14, <1>16, <2>1, FreeRow DEF DeleteServer, Active
<1>17. ASSUME NEW u \in Urls, NEW headers \in {"keep", "set", "clear"}, UpdateServer(u, headers)
       PROVE  TypeInv'
  <2>1. row.static \in BOOLEAN
    BY <1>1 DEF Row
  <2>2. CASE headers = "set"
    <3>1. row' = [row EXCEPT !.url = u, !.static = TRUE, !.pending = None, !.hash = None,
                             !.authreq = FALSE, !.rev = n]
      BY <1>17, <2>2 DEF UpdateServer
    <3> HIDE DEF n
    <3>2. row' \in Row
      BY <1>1, <3>1, RowsTyped
    <3> QED
      BY <1>1, <1>2, <1>11, <1>14, <1>17, <3>2, FreeRow DEF UpdateServer, Active
  <2>3. CASE headers # "set"
    <3>1. PICK b \in BOOLEAN : row' = [row EXCEPT !.url = u, !.static = b, !.rev = n]
      BY <1>17, <2>1, <2>3 DEF UpdateServer
    <3> HIDE DEF n
    <3>2. row' \in Row
      BY <1>1, <3>1, RowsTyped
    <3> QED
      BY <1>1, <1>2, <1>14, <1>17, <2>3, <3>2, FreeRow DEF UpdateServer, Active
  <2> QED
    BY <2>2, <2>3
<1>18. ASSUME NEW k \in Token, Expire(k) PROVE TypeInv'
  BY <1>18 DEF Expire, TypeInv, OAuthTypeOK, Placed, Locked, Active, history
<1>19. ASSUME NEW w \in Workers, Connect(w) PROVE TypeInv'
  <2>1. row.cred \in Token
    BY <1>19, TypeParts DEF Connect
  <2> QED
    BY <1>1, <1>19, <2>1, WorkerMoves, FreeWorker DEF Connect, Position, Holding
<1>20. ASSUME NEW w \in Workers, NEW pc \in Position \ {"asking"}, Goto(w, pc),
              worker[w].pc \in Holding \ {"asking"}, row' \in Row, row'.cred = row.cred,
              UNCHANGED <<lock, begin, callback, clear, expired, edits, history>>
       PROVE  TypeInv'
  <2>1. worker[w].tok \in Token
    BY <1>20 DEF TypeInv, Placed
  <2> QED
    BY <1>1, <1>20, <2>1, WorkerGoes, FreeWorker
<1>21. ASSUME NEW w \in Workers, Request(w) PROVE TypeInv'
  <2>1. worker' \in WorkerType /\ \A v \in Workers : v # w => worker'[v] = worker[v]
    <3>1. worker' \in WorkerType
      BY <1>1, <1>21 DEF Request, Goto, WorkerType, Position
    <3>2. \A v \in Workers : v # w => worker'[v] = worker[v]
      BY <1>1, <1>21 DEF Request, Goto, WorkerType
    <3> QED
      BY <3>1, <3>2
  <2>2. worker'[w].pc \in {"refresh", "mark"} /\ worker'[w].tok = worker[w].tok
    BY <1>1, <1>21 DEF Request, Goto, WorkerType
  <2>3. worker[w].tok \in Token
    BY <1>21 DEF Request, TypeInv, Placed, Holding
  <2> QED
    BY <1>1, <1>21, <2>1, <2>2, <2>3, FreeWorker DEF Request
<1>22. ASSUME NEW w \in Workers, RefreshRefused(w) PROVE TypeInv'
  BY <1>1, <1>20, <1>22 DEF RefreshRefused, Position, Holding
<1>23. ASSUME NEW w \in Workers, RefreshAdopted(w) PROVE TypeInv'
  <2>1. row.cred \in Token
    BY <1>23, TypeParts DEF RefreshAdopted, Refreshable
  <2>2. PICK pc \in {"resend", "ready"} :
          worker' = [worker EXCEPT ![w] = [pc |-> pc, tok |-> row.cred, force |-> FALSE]]
    BY <1>23 DEF RefreshAdopted
  <2> QED
    <3>1. /\ worker' \in WorkerType /\ worker'[w].pc = pc /\ worker'[w].tok = row.cred
          /\ \A v \in Workers : v # w => worker'[v] = worker[v]
      BY <1>1, <2>1, <2>2, WorkerMoves DEF Position
    <3> QED
      BY <1>1, <1>23, <2>1, <3>1, FreeWorker DEF RefreshAdopted
<1>24. ASSUME row' = IF row.authreq THEN row ELSE [row EXCEPT !.authreq = TRUE, !.rev = @ + 1]
       PROVE  row' \in Row /\ row'.cred = row.cred
  <2>1. row' = row \/ row' = [row EXCEPT !.authreq = TRUE, !.rev = n]
    BY <1>24
  <2>2. row'.cred = row.cred
    BY <1>1, <2>1 DEF Row
  <2> HIDE DEF n
  <2> QED
    BY <1>1, <2>1, <2>2, RowsTyped
<1>25. ASSUME NEW w \in Workers, RefreshImpossible(w) PROVE TypeInv'
  BY <1>20, <1>24, <1>25 DEF RefreshImpossible, Position, Holding
<1>26. ASSUME NEW w \in Workers, RefreshAsk(w) PROVE TypeInv'
  <2>1. row.cred \in Token
    BY <1>26, TypeParts DEF RefreshAsk, Refreshable
  <2>2. worker' \in WorkerType /\ worker'[w].pc = "asking" /\ worker'[w].tok = worker[w].tok
        /\ \A v \in Workers : v # w => worker'[v] = worker[v]
    BY <1>1, <1>26, WorkerGoes DEF RefreshAsk, Position
  <2>3. shown' \in [Token -> Nat]
    BY <1>1, <1>26, <2>1 DEF RefreshAsk
  <2>4. OAuthTypeOK'
    BY <1>26, <2>2, <2>3 DEF RefreshAsk, TypeInv, OAuthTypeOK, WorkerType, Position
  <2>5. Placed'
    BY <1>26, <2>2 DEF RefreshAsk, TypeInv, Placed, Active, Holding
  <2>6. Locked'
    <3>1. \A v \in Workers : worker'[v].pc = "asking" <=> lock' = v
      BY <1>26, <2>2, OAuthAssumption DEF RefreshAsk, TypeInv, Locked
    <3>2. row'.cred # None /\ row'.cred.gen < MaxGen /\ shown'[row'.cred] > 0
      BY <1>1, <1>26, <2>1, OAuthAssumption DEF RefreshAsk, Refreshable
    <3> QED
      BY <3>1, <3>2 DEF Locked
  <2> QED
    BY <2>4, <2>5, <2>6 DEF TypeInv
<1>27. ASSUME NEW w \in Workers, worker[w].pc = "asking"
       PROVE  lock = w /\ row.cred \in Token /\ row.cred.gen < MaxGen /\ shown[row.cred] > 0
  BY <1>27, TypeParts, OAuthAssumption DEF TypeInv, Locked
<1>28. ASSUME NEW w \in Workers, RefreshStored(w) PROVE TypeInv'
  <2> DEFINE rotated == [row.cred EXCEPT !.gen = @ + 1]
  <2>1. rotated \in Token
    BY <1>27, <1>28, OAuthAssumption DEF RefreshStored, Token
  <2>2. row' = [row EXCEPT !.cred = rotated, !.authreq = FALSE, !.rev = n]
    BY <1>28 DEF RefreshStored
  <2>3. PICK pc \in {"resend", "ready"} :
          worker' = [worker EXCEPT ![w] = [pc |-> pc, tok |-> rotated, force |-> FALSE]]
    BY <1>28 DEF RefreshStored
  <2> HIDE DEF n, rotated
  <2>4. row' \in Row
    BY <1>1, <2>1, <2>2, RowsTyped
  <2> QED
    <3>1. /\ worker' \in WorkerType /\ worker'[w].pc = pc /\ worker'[w].tok = rotated
          /\ \A v \in Workers : v # w => worker'[v] = worker[v]
      BY <1>1, <2>1, <2>3, WorkerMoves DEF Position
    <3> QED
      BY <1>1, <1>28, <2>1, <2>4, <3>1, Released DEF RefreshStored, history
<1>29. ASSUME NEW w \in Workers, worker[w].pc = "asking", shown' = [shown EXCEPT ![row.cred] = @ - 1]
       PROVE  shown' \in [Token -> Nat]
  BY <1>1, <1>27, <1>29
<1>30. ASSUME NEW w \in Workers, RefreshFailed(w) PROVE TypeInv'
  BY <1>1, <1>24, <1>29, <1>30, WorkerGoes, Released DEF RefreshFailed, Position, TypeInv, Placed, Holding
<1>31. ASSUME NEW w \in Workers, RefreshCancelled(w) PROVE TypeInv'
  BY <1>1, <1>29, <1>31, WorkerMoves, Released DEF RefreshCancelled, Position, Holding
<1>32. ASSUME NEW w \in Workers, Resend(w) PROVE TypeInv'
  BY <1>1, <1>20, <1>32 DEF Resend, Position, Holding
<1>33. ASSUME NEW w \in Workers, MarkRequired(w) PROVE TypeInv'
  <2>1. row' = row \/ row' = [row EXCEPT !.authreq = TRUE, !.rev = n]
    BY <1>33 DEF MarkRequired
  <2>2. PICK pc \in {"idle", "outcome"} :
          worker' = [worker EXCEPT ![w] = [pc |-> pc, tok |-> None, force |-> FALSE]]
    BY <1>33 DEF MarkRequired
  <2>3. row'.cred = row.cred
    BY <1>1, <2>1 DEF Row
  <2> HIDE DEF n
  <2>4. row' \in Row
    BY <1>1, <2>1 DEF Row
  <2> QED
    BY <1>1, <1>33, <2>2, <2>3, <2>4, WorkerMoves, FreeWorker DEF MarkRequired, Position, Holding
<1>34. ASSUME NEW w \in Workers, PersistOutcome(w) PROVE TypeInv'
  <2>1. row' = row \/ \E b \in BOOLEAN : row' = [row EXCEPT !.authreq = b]
    BY <1>1, <1>34 DEF PersistOutcome, Row
  <2>2. row'.cred = row.cred
    BY <1>1, <2>1 DEF Row
  <2>3. row' \in Row
    BY <1>1, <2>1, RowsTyped
  <2> QED
    BY <1>1, <1>34, <2>2, <2>3, WorkerGoes, FreeWorker DEF PersistOutcome, Position, Holding
<1>35. CASE UNCHANGED vars
  BY <1>35 DEF vars, TypeInv, OAuthTypeOK, Placed, Locked, Active
<1> QED
  BY <1>3, <1>4, <1>5, <1>7, <1>8, <1>9, <1>10, <1>13, <1>15, <1>16, <1>17, <1>18, <1>19, <1>21,
     <1>22, <1>23, <1>25, <1>26, <1>28, <1>30, <1>31, <1>32, <1>33, <1>34, <1>35 DEF Next

-----------------------------------------------------------------------------
(* What a step does to the authorizations: to the columns that name one,   *)
(* the callbacks and the history.  Most actions are of one of five kinds.  *)

Kept == row'.cred = row.cred /\ row'.pending = row.pending /\ row'.hash = row.hash

Quiet   == Kept /\ UNCHANGED <<lock, begin, callback, codes, shown, withdrawn>>
Emptied == /\ row'.cred = None /\ row'.pending = None /\ row'.hash = None
           /\ withdrawn' = withdrawn \cup Begun
           /\ UNCHANGED <<lock, begin, callback, codes, shown>>
Asked   == /\ Kept /\ lock = None /\ lock' # None /\ row.cred # None
           /\ shown' = [shown EXCEPT ![row.cred] = @ + 1]
           /\ UNCHANGED <<begin, callback, codes, withdrawn>>
Dropped == /\ Kept /\ lock # None /\ lock' = None
           /\ shown' = [shown EXCEPT ![row.cred] = @ - 1]
           /\ UNCHANGED <<begin, callback, codes, withdrawn>>
Rotated == /\ lock # None /\ lock' = None
           /\ row'.cred = [row.cred EXCEPT !.gen = @ + 1]
           /\ row'.pending = row.pending /\ row'.hash = row.hash
           /\ UNCHANGED <<begin, callback, codes, shown, withdrawn>>

LEMMA BlankColumns ==
  ASSUME NEW r \in Row
  PROVE  Blank(r).cred = None /\ Blank(r).pending = None /\ Blank(r).hash = None
  BY DEF Row, Blank

LEMMA Effects ==
  ASSUME TypeInv, [Next]_vars
  PROVE  \/ Quiet \/ Emptied \/ Asked \/ Dropped \/ Rotated
         \/ \E t \in Txns : BeginRead(t) \/ BeginPersist(t)
         \/ \E c \in Callbacks, t \in Txns : Claim(c, t) \/ ClaimExpired(c, t)
         \/ \E c \in Callbacks : Exchange(c) \/ Install(c) \/ InstallRefused(c)
<1>1. row \in Row
  BY TypeParts
<1>2. ASSUME UNCHANGED <<row, lock, begin, callback, codes, shown, withdrawn>> PROVE Quiet
  BY <1>2 DEF Quiet, Kept
<1>3. ASSUME NEW k \in Clears, ClearLoad(k) PROVE Quiet
  BY <1>2, <1>3 DEF ClearLoad, history
<1>4. ASSUME NEW k \in Clears, ClearPersist(k) PROVE Emptied
  BY <1>1, <1>4, BlankColumns DEF ClearPersist, Emptied
<1>5. ASSUME ClearServerCredentials \/ DeleteServer PROVE Emptied
  <2>1. Blank(row) \in Row
    BY <1>1, BlankTyped
  <2>2. row'.cred = Blank(row).cred /\ row'.pending = Blank(row).pending /\ row'.hash = Blank(row).hash
    BY <1>5, <2>1 DEF ClearServerCredentials, DeleteServer, Row
  <2> QED
    BY <1>1, <1>5, <2>2, BlankColumns DEF ClearServerCredentials, DeleteServer, Emptied
<1>6. ASSUME NEW u \in Urls, NEW headers \in {"keep", "set", "clear"}, UpdateServer(u, headers)
      PROVE  Quiet \/ Emptied
  <2>1. CASE headers = "set"
    <3>1. row.cred = None
      BY <1>6, <2>1 DEF UpdateServer, Admits
    <3>2. row'.cred = row.cred /\ row'.pending = None /\ row'.hash = None
      BY <1>1, <1>6, <2>1 DEF UpdateServer, Row
    <3> QED
      BY <1>6, <2>1, <3>1, <3>2 DEF UpdateServer, Emptied
  <2>2. CASE headers # "set"
    <3>1. Kept
      BY <1>1, <1>6, <2>2 DEF UpdateServer, Row, Kept
    <3> QED
      BY <1>6, <2>2, <3>1 DEF UpdateServer, Quiet
  <2> QED
    BY <2>1, <2>2
<1>7. ASSUME NEW k \in Token, Expire(k) PROVE Quiet
  BY <1>2, <1>7 DEF Expire, history
<1>8. ASSUME row' = row \/ (\E b : row' = [row EXCEPT !.authreq = b])
                       \/ row' = [row EXCEPT !.authreq = TRUE, !.rev = @ + 1]
      PROVE  Kept
  BY <1>1, <1>8 DEF Row, Kept
<1>9. ASSUME NEW w \in Workers,
             \/ Connect(w) \/ Request(w) \/ RefreshRefused(w) \/ RefreshAdopted(w)
             \/ RefreshImpossible(w) \/ Resend(w) \/ MarkRequired(w) \/ PersistOutcome(w)
      PROVE  Quiet
  <2>1. Kept
    BY <1>8, <1>9 DEF Connect, Request, RefreshRefused, RefreshAdopted, RefreshImpossible,
       Resend, MarkRequired, PersistOutcome
  <2> QED
    BY <1>9, <2>1 DEF Quiet, Connect, Request, RefreshRefused, RefreshAdopted,
       RefreshImpossible, Resend, MarkRequired, PersistOutcome, history
<1>10. ASSUME NEW w \in Workers, RefreshAsk(w) PROVE Asked
  BY <1>8, <1>10, OAuthAssumption DEF RefreshAsk, Refreshable, Asked
<1>11. ASSUME NEW w \in Workers, worker[w].pc = "asking" PROVE lock # None
  BY <1>11, OAuthAssumption DEF TypeInv, Locked
<1>12. ASSUME NEW w \in Workers, RefreshStored(w) PROVE Rotated
  <2>1. /\ row'.cred = [row.cred EXCEPT !.gen = @ + 1]
        /\ row'.pending = row.pending /\ row'.hash = row.hash
    BY <1>1, <1>12 DEF RefreshStored, Row
  <2> QED
    BY <1>11, <1>12, <2>1 DEF RefreshStored, Rotated, history
<1>13. ASSUME NEW w \in Workers, RefreshFailed(w) \/ RefreshCancelled(w) PROVE Dropped
  BY <1>8, <1>11, <1>13 DEF RefreshFailed, RefreshCancelled, Dropped
<1>14. CASE UNCHANGED vars
  BY <1>2, <1>14 DEF vars
<1> QED
  BY <1>3, <1>4, <1>5, <1>6, <1>7, <1>9, <1>10, <1>12, <1>13, <1>14 DEF Next

\* The other actions, on the columns that name an authorization.
LEMMA BeginColumns ==
  ASSUME TypeInv, NEW t \in Txns, BeginPersist(t)
  PROVE  /\ row'.cred = row.cred /\ row'.hash = t
         /\ row'.pending # None /\ row'.pending.txn = t /\ row'.pending.claim = None
         /\ begin[t].pc # "begun" /\ begin'[t].pc = "begun"
         /\ \A u \in Txns : u # t => begin'[u] = begin[u]
<1>1. row'.cred = row.cred /\ row'.hash = t /\ row'.pending = [txn |-> t, claim |-> None]
  BY TypeParts DEF BeginPersist, Row
<1>2. /\ begin[t].pc # "begun" /\ begin'[t].pc = "begun"
      /\ \A u \in Txns : u # t => begin'[u] = begin[u]
  BY TypeParts DEF BeginPersist, BeginType
<1>3. [txn |-> t, claim |-> None] \in Pending
  BY DEF Pending
<1>4. row'.pending # None /\ row'.pending.txn = t /\ row'.pending.claim = None
  BY <1>1, <1>3, NoneAssumption
<1> QED
  BY <1>1, <1>2, <1>4

LEMMA ClaimColumns ==
  ASSUME TypeInv, NEW c \in Callbacks, NEW t \in Txns, Claim(c, t)
  PROVE  /\ row'.cred = row.cred /\ row'.hash = None
         /\ row'.pending # None /\ row'.pending.txn = t /\ row'.pending.claim = c
         /\ callback'[c].pc = "exchange" /\ callback'[c].txn = t /\ ~Active(c)
         /\ \A d \in Callbacks : d # c => callback'[d] = callback[d] /\ (Active(d)' <=> Active(d))
<1>1. row'.cred = row.cred /\ row'.hash = None /\ row'.pending = [txn |-> t, claim |-> c]
  BY TypeParts DEF Claim, Row
<1>2. /\ callback'[c].pc = "exchange" /\ callback'[c].txn = t /\ ~Active(c)
      /\ \A d \in Callbacks : d # c => callback'[d] = callback[d] /\ (Active(d)' <=> Active(d))
  BY TypeParts DEF Claim, CallbackType, Active
<1>3. [txn |-> t, claim |-> c] \in Pending
  BY DEF Pending
<1>4. row'.pending # None /\ row'.pending.txn = t /\ row'.pending.claim = c
  BY <1>1, <1>3, NoneAssumption
<1> QED
  BY <1>1, <1>2, <1>4

LEMMA OverColumns ==
  ASSUME TypeInv, NEW c \in Callbacks, callback' = [callback EXCEPT ![c] = Over]
  PROVE  \A d \in Callbacks : Active(d)' => d # c /\ Active(d) /\ callback'[d] = callback[d]
  BY TypeParts DEF Over, CallbackType, Active

LEMMA ExpiredColumns ==
  ASSUME TypeInv, NEW c \in Callbacks, NEW t \in Txns, ClaimExpired(c, t)
  PROVE  row'.cred = row.cred /\ row'.hash = None /\ row'.pending = None
  BY TypeParts DEF ClaimExpired, Row

LEMMA InstallColumns ==
  ASSUME TypeInv, NEW c \in Callbacks, Install(c)
  PROVE  /\ row'.cred \in Token /\ row'.cred # None
         /\ row'.cred.txn = callback[c].txn /\ row'.cred.gen = 0 /\ row'.pending = None
         /\ row'.hash = None /\ row.pending # None /\ row.pending.claim = c
         /\ callback[c].txn \in Txns /\ callback[c].pc = "persist" /\ lock = None
<1>1. row'.cred = [txn |-> callback[c].txn, gen |-> 0] /\ row'.pending = None /\ row'.hash = row.hash
  BY TypeParts DEF Install, Row
<1>2. row.hash = None /\ row.pending # None /\ row.pending.claim = c
  BY DEF Install, Unchanged
<1>3. callback[c].txn \in Txns /\ callback[c].pc = "persist" /\ lock = None
  BY DEF Install, TypeInv, Placed, Active
<1>4. [txn |-> callback[c].txn, gen |-> 0] \in Token
  BY <1>3, OAuthAssumption DEF Token
<1>5. row'.cred \in Token /\ row'.cred # None /\ row'.cred.txn = callback[c].txn /\ row'.cred.gen = 0
  BY <1>1, <1>4, NoneAssumption
<1> QED
  BY <1>1, <1>2, <1>3, <1>5

-----------------------------------------------------------------------------
(* The inductive invariant.                                                *)

\* What the row and the callbacks name was begun; the state redeems what is pending.
Named ==
  /\ row.hash # None => /\ begin[row.hash].pc = "begun"
                        /\ row.pending # None /\ row.pending.txn = row.hash
  /\ row.pending # None => begin[row.pending.txn].pc = "begun"
  /\ row.cred # None => begin[row.cred.txn].pc = "begun"
  /\ \A c \in Callbacks : Active(c) => begin[callback[c].txn].pc = "begun"
  /\ withdrawn \subseteq Begun

\* A transaction is waiting for its callback, in the hands of one, or installed.
Redeemed ==
  /\ \A c \in Callbacks : Active(c) =>
        /\ row.hash # callback[c].txn
        /\ row.cred # None => row.cred.txn # callback[c].txn
        /\ \A d \in Callbacks : Active(d) /\ callback[d].txn = callback[c].txn => d = c
        /\ row.pending # None /\ row.pending.claim = c => row.pending.txn = callback[c].txn
  /\ row.hash # None /\ row.cred # None => row.cred.txn # row.hash

\* Neither the credential nor what may become it was withdrawn.
Outside ==
  /\ row.pending # None => row.pending.txn \notin withdrawn
  /\ row.cred # None => row.cred.txn \notin withdrawn

\* A code is fresh until its one callback exchanges it.
CodesFresh ==
  /\ \A t \in Txns : codes[t] <= 1
  /\ \A t \in Txns : begin[t].pc # "begun" \/ row.hash = t => codes[t] = 0
  /\ \A c \in Callbacks : callback[c].pc = "exchange" => codes[callback[c].txn] = 0

\* A refresh token is fresh until it is stored and the holder of the row presents it.
TokensFresh ==
  /\ \A k \in Token : shown[k] <= 1
  /\ \A k \in Token : begin[k.txn].pc # "begun" \/ row.hash = k.txn => shown[k] = 0
  /\ \A c \in Callbacks : Active(c) => \A k \in Token : k.txn = callback[c].txn => shown[k] = 0
  /\ row.cred # None =>
        /\ \A k \in Token : k.txn = row.cred.txn /\ k.gen > row.cred.gen => shown[k] = 0
        /\ shown[row.cred] = IF lock = None THEN 0 ELSE 1

LEMMA NamedStep ==
  ASSUME TypeInv, Named, [Next]_vars
  PROVE  Named'
<1>1. /\ row.hash \in Txns \cup {None} /\ row.pending \in Pending \cup {None}
      /\ row.cred \in Token \cup {None} /\ None \notin Txns /\ begin \in BeginType
      /\ \A c \in Callbacks : Active(c) => callback[c].txn \in Txns
  BY TypeParts, OAuthAssumption DEF TypeInv, Placed
<1>2. CASE Quiet \/ Asked \/ Dropped
  BY <1>2 DEF Quiet, Asked, Dropped, Kept, Named, Active, Begun
<1>3. CASE Emptied
  BY <1>3 DEF Emptied, Named, Active, Begun
<1>4. CASE Rotated
  <2>1. row.cred \in Token
    BY <1>1, <1>4 DEF Rotated, TypeInv, Locked
  <2>2. row'.cred.txn = row.cred.txn
    BY <1>4, <2>1 DEF Rotated, Token
  <2>3. row.cred # None
    BY <1>4 DEF Rotated, TypeInv, Locked
  <2> QED
    BY <1>4, <2>2, <2>3 DEF Rotated, Named, Active, Begun
<1>5. ASSUME NEW t \in Txns, BeginRead(t) PROVE Named'
  <2>1. begin[t].pc = "idle" /\ \A u \in Txns : u # t => begin'[u] = begin[u]
    BY <1>1, <1>5 DEF BeginRead, BeginType
  <2> QED
    BY <1>1, <1>5, <2>1 DEF BeginRead, history, Named, Active, Begun, Pending, Token
<1>6. ASSUME NEW t \in Txns, BeginPersist(t) PROVE Named'
  <2>1. \A u \in Txns : begin[u].pc = "begun" => begin'[u].pc = "begun"
    BY <1>6, BeginColumns
  <2>2. withdrawn' \subseteq Begun'
    BY <1>6, <2>1 DEF BeginPersist, Begun, Named
  <2> QED
    <3>1. /\ row'.hash = t /\ row'.pending.txn = t /\ row'.pending # None
          /\ begin'[t].pc = "begun" /\ row'.cred = row.cred
      BY <1>6, BeginColumns
    <3>2. row'.cred # None => begin'[row'.cred.txn].pc = "begun"
      BY <1>1, <2>1, <3>1 DEF Named, Token
    <3>3. \A c \in Callbacks : Active(c)' => begin'[callback'[c].txn].pc = "begun"
      BY <1>1, <1>6, <2>1 DEF BeginPersist, Named, Active
    <3> QED
      BY <2>2, <3>1, <3>2, <3>3 DEF Named
<1>7. ASSUME NEW c \in Callbacks, NEW t \in Txns, Claim(c, t) PROVE Named'
  <2>1. begin' = begin /\ withdrawn' = withdrawn /\ begin[t].pc = "begun"
    BY <1>7 DEF Claim, history
  <2>2. row'.cred = row.cred /\ row'.hash = None /\ row'.pending.txn = t
    BY <1>7, ClaimColumns
  <2>3. \A d \in Callbacks : Active(d)' => begin'[callback'[d].txn].pc = "begun"
    BY <1>7, <2>1, ClaimColumns DEF Named
  <2> QED
    BY <2>1, <2>2, <2>3 DEF Named, Begun
<1>8. ASSUME NEW c \in Callbacks, NEW t \in Txns, ClaimExpired(c, t) PROVE Named'
  <2>1. begin' = begin /\ withdrawn' = withdrawn
    BY <1>8 DEF ClaimExpired, history
  <2>2. \A d \in Callbacks : Active(d)' => begin'[callback'[d].txn].pc = "begun"
    BY <1>8, <2>1, OverColumns DEF ClaimExpired, Named
  <2> QED
    BY <1>8, <2>1, <2>2, ExpiredColumns DEF Named, Begun
<1>9. ASSUME NEW c \in Callbacks, Exchange(c)
      PROVE  /\ \A d \in Callbacks : Active(d)' => Active(d) /\ callback'[d].txn = callback[d].txn
             /\ callback'[c].pc # "exchange"
             /\ \A d \in Callbacks : d # c => callback'[d] = callback[d]
  BY <1>9, TypeParts DEF Exchange, CallbackType, Active, Over
<1>10. ASSUME NEW c \in Callbacks, Exchange(c) PROVE Named'
  BY <1>9, <1>10 DEF Exchange, Named, Begun
<1>11. ASSUME NEW c \in Callbacks, Install(c) PROVE Named'
  <2>1. callback' = [callback EXCEPT ![c] = Over] /\ begin' = begin
    BY <1>11 DEF Install
  <2>2. withdrawn' \subseteq Begun
    BY <1>1, <1>11, InstallColumns DEF Install, Installed, Named, Begun, Token
  <2> QED
    <3>1. \A d \in Callbacks : Active(d)' => begin'[callback'[d].txn].pc = "begun"
      BY <2>1, OverColumns DEF Named
    <3>2. row'.cred.txn = callback[c].txn /\ row'.pending = None /\ row'.hash = None /\ Active(c)
      BY <1>11, InstallColumns DEF Active
    <3> QED
      BY <2>1, <2>2, <3>1, <3>2 DEF Named, Begun
<1>12. ASSUME NEW c \in Callbacks, InstallRefused(c) PROVE Named'
  <2>1. \A d \in Callbacks : Active(d)' => begin'[callback'[d].txn].pc = "begun"
    BY <1>12, OverColumns DEF InstallRefused, Named
  <2> QED
    BY <1>12, <2>1 DEF InstallRefused, history, Named, Begun
<1> QED
  BY <1>2, <1>3, <1>4, <1>5, <1>6, <1>7, <1>8, <1>10, <1>11, <1>12, Effects

\* Exchange changes no callback but its own, and starts none.
LEMMA ExchangeColumns ==
  ASSUME TypeInv, NEW c \in Callbacks, Exchange(c)
  PROVE  /\ \A d \in Callbacks : Active(d)' => Active(d) /\ callback'[d].txn = callback[d].txn
         /\ callback'[c].pc # "exchange" /\ Active(c) /\ callback[c].txn \in Txns
         /\ \A d \in Callbacks : d # c => callback'[d] = callback[d]
         /\ row' = row /\ UNCHANGED <<lock, begin, shown, withdrawn>>
<1>1. /\ \A d \in Callbacks : Active(d)' => Active(d) /\ callback'[d].txn = callback[d].txn
      /\ callback'[c].pc # "exchange"
      /\ \A d \in Callbacks : d # c => callback'[d] = callback[d]
  BY TypeParts DEF Exchange, CallbackType, Active, Over
<1>2. Active(c) /\ callback[c].txn \in Txns
  BY DEF Exchange, Active, TypeInv, Placed
<1> QED
  BY <1>1, <1>2 DEF Exchange

\* The three columns that name an authorization, in the steps of the five kinds.
LEMMA KindColumns ==
  ASSUME TypeInv, Quiet \/ Emptied \/ Asked \/ Dropped \/ Rotated
  PROVE  /\ row'.pending = row.pending \/ row'.pending = None
         /\ row'.hash = row.hash \/ row'.hash = None
         /\ row'.cred # None => row.cred # None /\ row'.cred.txn = row.cred.txn
         /\ \A c \in Callbacks : Active(c)' <=> Active(c)
         /\ UNCHANGED <<begin, callback, codes>>
<1>1. CASE Quiet \/ Asked \/ Dropped
  BY <1>1 DEF Quiet, Asked, Dropped, Kept, Active
<1>2. CASE Emptied
  BY <1>2 DEF Emptied, Active
<1>3. CASE Rotated
  <2>1. row.cred \in Token /\ row.cred # None
    BY <1>3, TypeParts DEF Rotated, TypeInv, Locked
  <2>2. row'.cred.txn = row.cred.txn
    BY <1>3, <2>1 DEF Rotated, Token
  <2> QED
    BY <1>3, <2>1, <2>2 DEF Rotated, Active
<1> QED
  BY <1>1, <1>2, <1>3

LEMMA RedeemedStep ==
  ASSUME TypeInv, Named, Redeemed, [Next]_vars
  PROVE  Redeemed'
<1>1. /\ row.hash \in Txns \cup {None} /\ row.cred \in Token \cup {None} /\ None \notin Txns
      /\ None \notin Callbacks
      /\ \A c \in Callbacks : Active(c) => callback[c].txn \in Txns
      /\ row.cred # None => row.cred.txn \in Txns
  BY TypeParts, OAuthAssumption DEF TypeInv, Placed, Token
<1>2. CASE Quiet \/ Emptied \/ Asked \/ Dropped \/ Rotated
  BY <1>1, <1>2, KindColumns DEF Redeemed
<1>3. ASSUME NEW t \in Txns, BeginRead(t) PROVE Redeemed'
  BY <1>3 DEF BeginRead, Redeemed, Active
<1>4. ASSUME NEW t \in Txns, BeginPersist(t) PROVE Redeemed'
  <2>1. /\ row'.hash = t /\ row'.cred = row.cred /\ row'.pending.claim = None
        /\ begin[t].pc # "begun"
    BY <1>4, BeginColumns
  <2>2. /\ row.cred # None => row.cred.txn # t
        /\ \A c \in Callbacks : Active(c) => callback[c].txn # t
    BY <2>1 DEF Named
  <2>3. callback' = callback /\ \A c \in Callbacks : Active(c)' <=> Active(c)
    BY <1>4 DEF BeginPersist, Active
  <2> QED
    BY <1>1, <2>1, <2>2, <2>3 DEF Redeemed
<1>5. ASSUME NEW c \in Callbacks, NEW t \in Txns, Claim(c, t) PROVE Redeemed'
  <2>1. /\ row'.hash = None /\ row'.cred = row.cred /\ row'.pending.claim = c /\ row'.pending.txn = t
        /\ callback'[c].txn = t /\ ~Active(c)
        /\ \A d \in Callbacks : d # c => callback'[d] = callback[d] /\ (Active(d)' <=> Active(d))
    BY <1>5, ClaimColumns
  <2>2. row.hash = t
    BY <1>5 DEF Claim
  <2>3. \A d \in Callbacks : d # c /\ Active(d)' => callback'[d].txn # t
    BY <1>1, <2>1, <2>2 DEF Redeemed
  <2>4. row.cred # None => row.cred.txn # t
    BY <1>1, <2>2 DEF Redeemed
  <2> QED
    BY <1>1, <2>1, <2>3, <2>4 DEF Redeemed
<1>6. ASSUME NEW c \in Callbacks, NEW t \in Txns, ClaimExpired(c, t) PROVE Redeemed'
  <2>1. row'.hash = None /\ row'.cred = row.cred /\ row'.pending = None
    BY <1>6, ExpiredColumns
  <2>2. \A d \in Callbacks : Active(d)' => Active(d) /\ callback'[d] = callback[d]
    BY <1>6, OverColumns DEF ClaimExpired
  <2> QED
    BY <1>1, <2>1, <2>2 DEF Redeemed
<1>7. ASSUME NEW c \in Callbacks, Exchange(c) PROVE Redeemed'
  BY <1>7, ExchangeColumns DEF Redeemed
<1>8. ASSUME NEW c \in Callbacks, Install(c) PROVE Redeemed'
  <2>1. row'.hash = None /\ row'.cred.txn = callback[c].txn /\ row'.pending = None /\ Active(c)
        /\ callback[c].txn \in Txns
    BY <1>8, InstallColumns DEF Active
  <2>2. \A d \in Callbacks : Active(d)' => d # c /\ Active(d) /\ callback'[d] = callback[d]
    BY <1>8, OverColumns DEF Install
  <2>3. \A d \in Callbacks : Active(d)' => callback'[d].txn # callback[c].txn
    BY <2>1, <2>2 DEF Redeemed
  <2> QED
    BY <1>1, <2>1, <2>2, <2>3 DEF Redeemed
<1>9. ASSUME NEW c \in Callbacks, InstallRefused(c) PROVE Redeemed'
  <2>1. row' = row /\ \A d \in Callbacks : Active(d)' => Active(d) /\ callback'[d] = callback[d]
    BY <1>9, OverColumns DEF InstallRefused
  <2> QED
    BY <2>1 DEF Redeemed
<1> QED
  BY <1>2, <1>3, <1>4, <1>5, <1>6, <1>7, <1>8, <1>9, Effects

LEMMA OutsideStep ==
  ASSUME TypeInv, Named, Redeemed, Outside, [Next]_vars
  PROVE  Outside'
<1>1. /\ row.pending \in Pending \cup {None} /\ row.cred \in Token \cup {None}
      /\ begin \in BeginType
  BY TypeParts
<1>2. CASE Quiet \/ Asked \/ Dropped
  BY <1>2 DEF Quiet, Asked, Dropped, Kept, Outside
<1>3. CASE Emptied
  BY <1>3 DEF Emptied, Outside
<1>4. CASE Rotated
  <2>1. row'.cred # None => row.cred # None /\ row'.cred.txn = row.cred.txn
    BY <1>4, KindColumns
  <2> QED
    BY <1>4, <2>1 DEF Rotated, Outside
<1>5. ASSUME NEW t \in Txns, BeginRead(t) PROVE Outside'
  BY <1>5 DEF BeginRead, history, Outside
<1>6. ASSUME NEW t \in Txns, BeginPersist(t) PROVE Outside'
  <2>1. /\ row'.cred = row.cred /\ row'.pending.txn = t /\ begin[t].pc # "begun"
    BY <1>6, BeginColumns
  <2>2. t \notin Begun /\ t \notin withdrawn
    BY <2>1 DEF Begun, Named
  <2>3. row.cred # None => row.cred.txn \notin Begun \ Installed
    BY DEF Installed
  <2> QED
    BY <1>6, <2>1, <2>2, <2>3 DEF BeginPersist, Outside
<1>7. ASSUME NEW c \in Callbacks, NEW t \in Txns, Claim(c, t) PROVE Outside'
  <2>1. row.pending # None /\ row.hash = t /\ row.hash # None /\ withdrawn' = withdrawn
    BY <1>7, OAuthAssumption DEF Claim, history
  <2>2. row.pending.txn = t
    BY <2>1 DEF Named
  <2> QED
    BY <1>7, <2>1, <2>2, ClaimColumns DEF Outside
<1>8. ASSUME NEW c \in Callbacks, NEW t \in Txns, ClaimExpired(c, t) PROVE Outside'
  BY <1>8, ExpiredColumns DEF ClaimExpired, history, Outside
<1>9. ASSUME NEW c \in Callbacks, Exchange(c) PROVE Outside'
  BY <1>9, ExchangeColumns DEF Outside
<1>10. ASSUME NEW c \in Callbacks, Install(c) PROVE Outside'
  <2>1. /\ row'.cred.txn = callback[c].txn /\ row'.pending = None /\ Active(c)
        /\ row.pending # None /\ row.pending.claim = c
    BY <1>10, InstallColumns DEF Active
  <2>2. row.pending.txn = callback[c].txn
    BY <2>1 DEF Redeemed
  <2> QED
    BY <1>10, <2>1, <2>2 DEF Install, Outside
<1>11. ASSUME NEW c \in Callbacks, InstallRefused(c) PROVE Outside'
  BY <1>11 DEF InstallRefused, history, Outside
<1> QED
  BY <1>2, <1>3, <1>4, <1>5, <1>6, <1>7, <1>8, <1>9, <1>10, <1>11, Effects

LEMMA CodesStep ==
  ASSUME TypeInv, Named, Redeemed, CodesFresh, [Next]_vars
  PROVE  CodesFresh'
<1>1. /\ row.hash \in Txns \cup {None} /\ None \notin Txns /\ begin \in BeginType
      /\ codes \in [Txns -> Nat]
      /\ \A c \in Callbacks : Active(c) => callback[c].txn \in Txns
  BY TypeParts, OAuthAssumption DEF TypeInv, OAuthTypeOK, Placed
<1>2. CASE Quiet \/ Emptied \/ Asked \/ Dropped \/ Rotated
  BY <1>1, <1>2, KindColumns DEF CodesFresh
<1>3. ASSUME NEW t \in Txns, BeginRead(t) PROVE CodesFresh'
  <2>1. begin[t].pc # "begun" /\ \A u \in Txns : u # t => begin'[u] = begin[u]
    BY <1>1, <1>3 DEF BeginRead, BeginType
  <2> QED
    BY <1>3, <2>1 DEF BeginRead, history, CodesFresh
<1>4. ASSUME NEW t \in Txns, BeginPersist(t) PROVE CodesFresh'
  <2>1. row'.hash = t /\ begin[t].pc # "begun" /\ \A u \in Txns : u # t => begin'[u] = begin[u]
    BY <1>4, BeginColumns
  <2> QED
    BY <1>4, <2>1 DEF BeginPersist, CodesFresh
<1>5. ASSUME NEW c \in Callbacks, NEW t \in Txns, Claim(c, t) PROVE CodesFresh'
  <2>1. /\ row'.hash = None /\ callback'[c].txn = t
        /\ \A d \in Callbacks : d # c => callback'[d] = callback[d]
    BY <1>5, ClaimColumns
  <2>2. row.hash = t /\ UNCHANGED <<begin, codes>>
    BY <1>5 DEF Claim, history
  <2> QED
    BY <1>1, <2>1, <2>2 DEF CodesFresh
<1>6. ASSUME NEW c \in Callbacks, NEW t \in Txns, ClaimExpired(c, t) PROVE CodesFresh'
  <2>1. row'.hash = None /\ \A d \in Callbacks : Active(d)' => callback'[d] = callback[d]
    BY <1>6, ExpiredColumns, OverColumns DEF ClaimExpired
  <2>2. UNCHANGED <<begin, codes>>
    BY <1>6 DEF ClaimExpired, history
  <2> QED
    BY <1>1, <2>1, <2>2 DEF CodesFresh, Active
<1>7. ASSUME NEW c \in Callbacks, Exchange(c) PROVE CodesFresh'
  <2> DEFINE t == callback[c].txn
  <2>1. /\ t \in Txns /\ codes[t] = 0 /\ codes' = [codes EXCEPT ![t] = @ + 1]
    BY <1>7, ExchangeColumns DEF Exchange, CodesFresh
  <2>2. codes'[t] = 1 /\ \A u \in Txns : u # t => codes'[u] = codes[u]
    BY <1>1, <2>1
  <2>3. begin[t].pc = "begun" /\ row.hash # t
    BY <1>7, ExchangeColumns DEF Named, Redeemed
  <2>4. \A d \in Callbacks : callback'[d].pc = "exchange" =>
           d # c /\ callback'[d] = callback[d] /\ Active(d) /\ Active(c)
    BY <1>7, ExchangeColumns DEF Active
  <2>5. \A d \in Callbacks : callback'[d].pc = "exchange" =>
           callback'[d].txn # t /\ callback'[d].txn \in Txns
    BY <1>1, <2>4 DEF Redeemed
  <2>6. row' = row /\ begin' = begin
    BY <1>7, ExchangeColumns
  <2> HIDE DEF t
  <2> QED
    BY <2>2, <2>3, <2>4, <2>5, <2>6 DEF CodesFresh
<1>8. ASSUME NEW c \in Callbacks, Install(c) PROVE CodesFresh'
  <2>1. row'.hash = None /\ \A d \in Callbacks : Active(d)' => callback'[d] = callback[d]
    BY <1>8, InstallColumns, OverColumns DEF Install
  <2>2. UNCHANGED <<begin, codes>>
    BY <1>8 DEF Install
  <2> QED
    BY <1>1, <2>1, <2>2 DEF CodesFresh, Active
<1>9. ASSUME NEW c \in Callbacks, InstallRefused(c) PROVE CodesFresh'
  <2>1. row' = row /\ \A d \in Callbacks : Active(d)' => callback'[d] = callback[d]
    BY <1>9, OverColumns DEF InstallRefused
  <2>2. UNCHANGED <<begin, codes>>
    BY <1>9 DEF InstallRefused, history
  <2> QED
    BY <2>1, <2>2 DEF CodesFresh, Active
<1> QED
  BY <1>2, <1>3, <1>4, <1>5, <1>6, <1>7, <1>8, <1>9, Effects

LEMMA RotatedToken ==
  ASSUME NEW k \in Token, k.gen < MaxGen
  PROVE  LET rotated == [k EXCEPT !.gen = @ + 1]
         IN  rotated \in Token /\ rotated.txn = k.txn /\ rotated.gen = k.gen + 1
<1> DEFINE g == k.gen + 1
<1>1. g \in 0..MaxGen
  BY OAuthAssumption DEF Token
<1> HIDE DEF g
<1>2. LET rotated == [k EXCEPT !.gen = g]
      IN  rotated \in Token /\ rotated.txn = k.txn /\ rotated.gen = g
  BY <1>1 DEF Token
<1> QED
  BY <1>2 DEF g

LEMMA TokensStep ==
  ASSUME TypeInv, Named, Redeemed, TokensFresh, [Next]_vars
  PROVE  TokensFresh'
<1>1. /\ row.hash \in Txns \cup {None} /\ None \notin Txns /\ begin \in BeginType
      /\ shown \in [Token -> Nat] /\ row.cred \in Token \cup {None}
      /\ \A c \in Callbacks : Active(c) => callback[c].txn \in Txns
      /\ \A k \in Token : k.txn \in Txns /\ k.gen \in Nat
  BY TypeParts, OAuthAssumption DEF TypeInv, OAuthTypeOK, Placed, Token
<1>2. CASE Quiet
  BY <1>2 DEF Quiet, Kept, TokensFresh, Active
<1>3. CASE Emptied
  BY <1>1, <1>3 DEF Emptied, TokensFresh, Active
<1>4. ASSUME row.cred # None, Kept, UNCHANGED <<begin, callback>>,
             \A k \in Token : k # row.cred => shown'[k] = shown[k],
             shown'[row.cred] = IF lock' = None THEN 0 ELSE 1
      PROVE  TokensFresh'
  <2>1. /\ row.cred \in Token /\ begin[row.cred.txn].pc = "begun" /\ row.hash # row.cred.txn
        /\ \A c \in Callbacks : Active(c) => callback[c].txn # row.cred.txn
    BY <1>1, <1>4 DEF Named, Redeemed
  <2>2. /\ \A k \in Token : shown'[k] <= 1
        /\ \A k \in Token : begin[k.txn].pc # "begun" \/ row.hash = k.txn => shown'[k] = 0
    BY <1>1, <1>4, <2>1 DEF TokensFresh
  <2>3. \A c \in Callbacks : Active(c) => \A k \in Token : k.txn = callback[c].txn => shown'[k] = 0
    BY <1>1, <1>4, <2>1 DEF TokensFresh
  <2>4. \A k \in Token : k.txn = row.cred.txn /\ k.gen > row.cred.gen => shown'[k] = 0
    BY <1>1, <1>4, <2>1 DEF TokensFresh
  <2> QED
    BY <1>4, <2>2, <2>3, <2>4 DEF TokensFresh, Kept, Active
<1>5. CASE Asked
  <2>1. row.cred \in Token /\ shown[row.cred] = 0
    BY <1>1, <1>5 DEF Asked, TokensFresh
  <2> QED
    BY <1>1, <1>4, <1>5, <2>1 DEF Asked
<1>6. CASE Dropped
  <2>1. row.cred \in Token /\ row.cred # None /\ shown[row.cred] = 1
    BY <1>1, <1>6 DEF Dropped, TypeInv, Locked, TokensFresh
  <2> QED
    BY <1>1, <1>4, <1>6, <2>1 DEF Dropped
<1>7. CASE Rotated
  <2>1. row.cred \in Token /\ row.cred # None /\ row.cred.gen < MaxGen
    BY <1>1, <1>7 DEF Rotated, TypeInv, Locked
  <2>2. /\ row'.cred \in Token /\ row'.cred.txn = row.cred.txn /\ row'.cred.gen = row.cred.gen + 1
    <3>1. row'.cred = [row.cred EXCEPT !.gen = @ + 1]
      BY <1>7 DEF Rotated
    <3> QED
      BY <2>1, <3>1, RotatedToken
  <2>3. shown'[row'.cred] = 0
    <3>1. row'.cred.gen > row.cred.gen /\ shown' = shown
      BY <1>1, <1>7, <2>1, <2>2 DEF Rotated
    <3>2. \A k \in Token : k.txn = row.cred.txn /\ k.gen > row.cred.gen => shown[k] = 0
      BY <2>1 DEF TokensFresh
    <3> QED
      BY <2>2, <3>1, <3>2
  <2>4. \A k \in Token : k.txn = row'.cred.txn /\ k.gen > row'.cred.gen => shown'[k] = 0
    BY <1>1, <1>7, <2>1, <2>2 DEF Rotated, TokensFresh
  <2> QED
    BY <1>7, <2>3, <2>4 DEF Rotated, TokensFresh, Active
<1>8. ASSUME NEW t \in Txns, BeginRead(t) PROVE TokensFresh'
  <2>1. begin[t].pc # "begun" /\ \A u \in Txns : u # t => begin'[u] = begin[u]
    BY <1>1, <1>8 DEF BeginRead, BeginType
  <2>2. \A k \in Token : begin'[k.txn].pc # "begun" => begin[k.txn].pc # "begun"
    BY <1>1, <2>1
  <2> QED
    BY <1>8, <2>2 DEF BeginRead, history, TokensFresh, Active
<1>9. ASSUME NEW t \in Txns, BeginPersist(t) PROVE TokensFresh'
  <2>1. /\ row'.hash = t /\ row'.cred = row.cred /\ begin[t].pc # "begun"
        /\ \A u \in Txns : u # t => begin'[u] = begin[u]
    BY <1>9, BeginColumns
  <2>2. UNCHANGED <<lock, callback, shown>>
    BY <1>9 DEF BeginPersist
  <2>3. \A k \in Token : begin'[k.txn].pc # "begun" \/ row'.hash = k.txn => shown'[k] = 0
    BY <1>1, <2>1, <2>2 DEF TokensFresh
  <2> QED
    BY <2>1, <2>2, <2>3 DEF TokensFresh, Active
<1>10. ASSUME row'.cred = row.cred, row'.hash = None, UNCHANGED <<lock, begin, shown>>,
              \A d \in Callbacks : Active(d)' =>
                 \/ Active(d) /\ callback'[d].txn = callback[d].txn
                 \/ row.hash = callback'[d].txn
       PROVE  TokensFresh'
  <2>1. \A d \in Callbacks : Active(d)' => \A k \in Token : k.txn = callback'[d].txn => shown'[k] = 0
    BY <1>10 DEF TokensFresh
  <2>2. \A k \in Token : begin'[k.txn].pc # "begun" \/ row'.hash = k.txn => shown'[k] = 0
    BY <1>1, <1>10 DEF TokensFresh
  <2> QED
    BY <1>10, <2>1, <2>2 DEF TokensFresh
<1>11. ASSUME NEW c \in Callbacks, NEW t \in Txns, Claim(c, t) PROVE TokensFresh'
  <2>1. row.hash = t /\ UNCHANGED <<lock, begin, shown>>
    BY <1>11 DEF Claim, history
  <2>2. /\ row'.cred = row.cred /\ row'.hash = None /\ callback'[c].txn = t
        /\ \A d \in Callbacks : d # c => callback'[d] = callback[d] /\ (Active(d)' <=> Active(d))
    BY <1>11, ClaimColumns
  <2> QED
    BY <1>10, <2>1, <2>2
<1>12. ASSUME NEW c \in Callbacks, NEW t \in Txns, ClaimExpired(c, t) PROVE TokensFresh'
  <2>1. UNCHANGED <<lock, begin, shown>>
    BY <1>12 DEF ClaimExpired, history
  <2>2. /\ row'.cred = row.cred /\ row'.hash = None
        /\ \A d \in Callbacks : Active(d)' => Active(d) /\ callback'[d] = callback[d]
    BY <1>12, ExpiredColumns, OverColumns DEF ClaimExpired
  <2> QED
    BY <1>10, <2>1, <2>2
<1>13. ASSUME NEW c \in Callbacks, Exchange(c) PROVE TokensFresh'
  BY <1>13, ExchangeColumns DEF TokensFresh
<1>14. ASSUME NEW c \in Callbacks, Install(c) PROVE TokensFresh'
  <2>1. /\ row'.cred \in Token /\ row'.cred.txn = callback[c].txn /\ row'.hash = None
        /\ lock = None /\ Active(c)
    BY <1>14, InstallColumns DEF Active
  <2>2. UNCHANGED <<lock, begin, shown>>
    BY <1>14 DEF Install
  <2>3. \A d \in Callbacks : Active(d)' => Active(d) /\ callback'[d] = callback[d]
    BY <1>14, OverColumns DEF Install
  <2>4. /\ shown'[row'.cred] = 0
        /\ \A k \in Token : k.txn = row'.cred.txn => shown'[k] = 0
    BY <2>1, <2>2 DEF TokensFresh
  <2>5. \A k \in Token : begin'[k.txn].pc # "begun" \/ row'.hash = k.txn => shown'[k] = 0
    BY <1>1, <2>1, <2>2 DEF TokensFresh
  <2> QED
    BY <2>1, <2>2, <2>3, <2>4, <2>5 DEF TokensFresh
<1>15. ASSUME NEW c \in Callbacks, InstallRefused(c) PROVE TokensFresh'
  <2>1. row' = row /\ \A d \in Callbacks : Active(d)' => Active(d) /\ callback'[d] = callback[d]
    BY <1>15, OverColumns DEF InstallRefused
  <2> QED
    BY <1>15, <2>1 DEF InstallRefused, history, TokensFresh
<1> QED
  BY <1>2, <1>3, <1>5, <1>6, <1>7, <1>8, <1>9, <1>11, <1>12, <1>13, <1>14, <1>15, Effects

-----------------------------------------------------------------------------
(* The binding of the stored credential, and the revision.                 *)

LEMMA BoundStep ==
  ASSUME TypeInv, Named, CredentialBound, [Next]_vars
  PROVE  CredentialBound'
<1>1. /\ row \in Row /\ row.cred \in Token \cup {None} /\ begin \in BeginType
  BY TypeParts
<1>2. ASSUME row'.cred = None PROVE CredentialBound'
  BY <1>2 DEF CredentialBound
<1>3. ASSUME row'.cred # None => row.cred # None /\ row'.cred.txn = row.cred.txn,
             row'.present = row.present, row'.url = row.url, row'.static = row.static,
             \A t \in Txns : begin[t].pc = "begun" => begin'[t].url = begin[t].url
      PROVE  CredentialBound'
  <2>1. row'.cred # None => begin'[row'.cred.txn].url = begin[row.cred.txn].url
    BY <1>1, <1>3 DEF Named, Token
  <2> QED
    BY <1>3, <2>1 DEF CredentialBound, Bound, UrlOf
<1>4. ASSUME UNCHANGED <<row, begin>> PROVE CredentialBound'
  BY <1>4 DEF CredentialBound, Bound, UrlOf
<1>5. ASSUME row' = row \/ (\E b : row' = [row EXCEPT !.authreq = b])
                       \/ row' = [row EXCEPT !.authreq = TRUE, !.rev = @ + 1],
             begin' = begin
      PROVE  CredentialBound'
  <2>1. row'.cred = row.cred /\ row'.present = row.present /\ row'.url = row.url
        /\ row'.static = row.static
    BY <1>1, <1>5 DEF Row
  <2> QED
    BY <1>3, <1>5, <2>1
<1>6. ASSUME NEW t \in Txns, BeginRead(t) PROVE CredentialBound'
  <2>1. row' = row /\ \A u \in Txns : begin[u].pc = "begun" => begin'[u].url = begin[u].url
    BY <1>1, <1>6 DEF BeginRead, BeginType
  <2> QED
    BY <1>3, <2>1
<1>7. ASSUME NEW t \in Txns, BeginPersist(t) PROVE CredentialBound'
  <2>1. /\ row'.cred = row.cred /\ row'.present = row.present /\ row'.url = row.url
        /\ row'.static = row.static
    BY <1>1, <1>7 DEF BeginPersist, Row
  <2>2. \A u \in Txns : begin[u].pc = "begun" => begin'[u].url = begin[u].url
    BY <1>1, <1>7 DEF BeginPersist, BeginType
  <2> QED
    BY <1>3, <2>1, <2>2
<1>8. ASSUME NEW c \in Callbacks, NEW t \in Txns, Claim(c, t) \/ ClaimExpired(c, t)
      PROVE  CredentialBound'
  <2>1. /\ row'.cred = row.cred /\ row'.present = row.present /\ row'.url = row.url
        /\ row'.static = row.static
    BY <1>1, <1>8 DEF Claim, ClaimExpired, Row
  <2> QED
    BY <1>3, <1>8, <2>1 DEF Claim, ClaimExpired
<1>9. ASSUME NEW c \in Callbacks, Exchange(c) \/ InstallRefused(c) PROVE CredentialBound'
  BY <1>4, <1>9 DEF Exchange, InstallRefused
<1>10. ASSUME NEW c \in Callbacks, Install(c) PROVE CredentialBound'
  <2>1. row.present /\ row.url = UrlOf(callback[c].txn) /\ ~row.static
    BY <1>10 DEF Install, Unchanged
  <2>2. row'.present = row.present /\ row'.url = row.url /\ row'.static = row.static
    BY <1>1, <1>10 DEF Install, Row
  <2>3. row'.cred.txn = callback[c].txn /\ begin' = begin
    BY <1>10, InstallColumns DEF Install
  <2> QED
    BY <2>1, <2>2, <2>3, Zenon DEF CredentialBound, Bound, UrlOf
<1>11. ASSUME NEW k \in Clears, ClearLoad(k) PROVE CredentialBound'
  BY <1>4, <1>11 DEF ClearLoad
<1>12. ASSUME NEW k \in Clears, ClearPersist(k) PROVE CredentialBound'
  BY <1>1, <1>2, <1>12, BlankColumns DEF ClearPersist
<1>13. ASSUME ClearServerCredentials \/ DeleteServer PROVE CredentialBound'
  <2>1. row'.cred = Blank(row).cred
    BY <1>1, <1>13, BlankTyped DEF ClearServerCredentials, DeleteServer, Row
  <2> QED
    BY <1>1, <1>2, <2>1, BlankColumns
<1>14. ASSUME NEW u \in Urls, NEW headers \in {"keep", "set", "clear"}, UpdateServer(u, headers)
       PROVE  CredentialBound'
  <2> DEFINE static == CASE headers = "keep" -> row.static
                         [] headers = "set" -> TRUE
                         [] headers = "clear" -> FALSE
  <2>1. row'.cred = row.cred /\ row'.present = row.present /\ row'.url = u
    BY <1>1, <1>14 DEF UpdateServer, Row
  <2>2. row.cred # None => u = UrlOf(row.cred.txn) /\ ~static
    BY <1>14 DEF UpdateServer, Admits
  <2>3. headers # "set" => row'.static = static
    BY <1>1, <1>14 DEF UpdateServer, Row
  <2>4. headers = "set" => static
    OBVIOUS
  <2>5. begin' = begin
    BY <1>14 DEF UpdateServer
  <2> HIDE DEF static
  <2>6. row.cred # None => row.present /\ u = UrlOf(row.cred.txn) /\ ~row'.static
    BY <2>2, <2>3, <2>4, Zenon DEF CredentialBound
  <2> QED
    BY <2>1, <2>5, <2>6, Zenon DEF CredentialBound, Bound, UrlOf
<1>15. ASSUME NEW k \in Token, Expire(k) PROVE CredentialBound'
  BY <1>4, <1>15 DEF Expire
<1>16. ASSUME NEW w \in Workers,
              \/ Connect(w) \/ Request(w) \/ RefreshRefused(w) \/ RefreshAdopted(w)
              \/ RefreshImpossible(w) \/ Resend(w) \/ MarkRequired(w) \/ PersistOutcome(w)
              \/ RefreshAsk(w) \/ RefreshFailed(w) \/ RefreshCancelled(w)
       PROVE  CredentialBound'
  BY <1>5, <1>16 DEF Connect, Request, RefreshRefused, RefreshAdopted, RefreshImpossible,
     Resend, MarkRequired, PersistOutcome, RefreshAsk, RefreshFailed, RefreshCancelled
<1>17. ASSUME NEW w \in Workers, RefreshStored(w) PROVE CredentialBound'
  <2>1. row.cred \in Token /\ row.cred # None /\ row.cred.gen < MaxGen
    BY <1>1, <1>17, OAuthAssumption DEF RefreshStored, TypeInv, Locked
  <2>2. row'.cred = [row.cred EXCEPT !.gen = @ + 1]
    BY <1>1, <1>17 DEF RefreshStored, Row
  <2>3. row'.cred.txn = row.cred.txn
    BY <2>1, <2>2, RotatedToken
  <2>4. row'.present = row.present /\ row'.url = row.url /\ row'.static = row.static
    BY <1>1, <1>17 DEF RefreshStored, Row
  <2> QED
    BY <1>3, <1>17, <2>1, <2>3, <2>4 DEF RefreshStored
<1>18. CASE UNCHANGED vars
  BY <1>4, <1>18 DEF vars
<1> QED
  BY <1>6, <1>7, <1>8, <1>9, <1>10, <1>11, <1>12, <1>13, <1>14, <1>15, <1>16, <1>17, <1>18 DEF Next

LEMMA RevisionStep ==
  ASSUME TypeInv, [Next]_vars
  PROVE  Settings' # Settings => row'.rev > row.rev
<1>1. row \in Row /\ row.rev \in Nat
  BY TypeParts
<1>2. ASSUME row'.present = row.present, row'.url = row.url, row'.static = row.static,
             row'.cred = row.cred
      PROVE  Settings' = Settings
  BY <1>2 DEF Settings
<1>3. ASSUME row' = row PROVE Settings' = Settings
  BY <1>3 DEF Settings
<1>4. ASSUME row' = row \/ (\E b : row' = [row EXCEPT !.authreq = b])
                       \/ row' = [row EXCEPT !.authreq = TRUE, !.rev = @ + 1]
      PROVE  Settings' = Settings
  <2>1. row'.cred = row.cred /\ row'.present = row.present /\ row'.url = row.url
        /\ row'.static = row.static
    BY <1>1, <1>4 DEF Row
  <2> QED
    BY <1>2, <2>1
<1>5. ASSUME row'.rev = row.rev + 1 PROVE row'.rev > row.rev
  BY <1>1, <1>5
<1>6. ASSUME NEW t \in Txns, BeginRead(t) \/ BeginPersist(t) PROVE Settings' = Settings
  <2>1. row'.cred = row.cred /\ row'.present = row.present /\ row'.url = row.url
        /\ row'.static = row.static
    BY <1>1, <1>6 DEF BeginRead, BeginPersist, Row
  <2> QED
    BY <1>2, <2>1
<1>7. ASSUME NEW c \in Callbacks, NEW t \in Txns, Claim(c, t) \/ ClaimExpired(c, t)
      PROVE  Settings' = Settings
  <2>1. row'.cred = row.cred /\ row'.present = row.present /\ row'.url = row.url
        /\ row'.static = row.static
    BY <1>1, <1>7 DEF Claim, ClaimExpired, Row
  <2> QED
    BY <1>2, <2>1
<1>8. ASSUME NEW c \in Callbacks, Exchange(c) \/ InstallRefused(c) PROVE Settings' = Settings
  BY <1>3, <1>8 DEF Exchange, InstallRefused
<1>9. ASSUME NEW c \in Callbacks, Install(c) PROVE row'.rev = row.rev + 1
  BY <1>1, <1>9 DEF Install, Row
<1>10. Blank(row).rev = row.rev + 1 /\ Blank(row) \in Row
  BY <1>1, BlankTyped DEF Blank, Row
<1>11. ASSUME NEW k \in Clears, ClearLoad(k) PROVE Settings' = Settings
  BY <1>3, <1>11 DEF ClearLoad
<1>12. ASSUME NEW k \in Clears, ClearPersist(k) PROVE row'.rev = row.rev + 1
  BY <1>10, <1>12 DEF ClearPersist
<1>13. ASSUME ClearServerCredentials \/ DeleteServer PROVE row'.rev = row.rev + 1
  <2>1. row'.rev = Blank(row).rev
    BY <1>10, <1>13 DEF ClearServerCredentials, DeleteServer, Row
  <2> QED
    BY <1>10, <2>1
<1>14. ASSUME NEW u \in Urls, NEW headers \in {"keep", "set", "clear"}, UpdateServer(u, headers)
       PROVE  row'.rev = row.rev + 1
  BY <1>1, <1>14 DEF UpdateServer, Row
<1>15. ASSUME NEW k \in Token, Expire(k) PROVE Settings' = Settings
  BY <1>3, <1>15 DEF Expire
<1>16. ASSUME NEW w \in Workers,
              \/ Connect(w) \/ Request(w) \/ RefreshRefused(w) \/ RefreshAdopted(w)
              \/ RefreshImpossible(w) \/ Resend(w) \/ MarkRequired(w) \/ PersistOutcome(w)
              \/ RefreshAsk(w) \/ RefreshFailed(w) \/ RefreshCancelled(w)
       PROVE  Settings' = Settings
  BY <1>4, <1>16 DEF Connect, Request, RefreshRefused, RefreshAdopted, RefreshImpossible,
     Resend, MarkRequired, PersistOutcome, RefreshAsk, RefreshFailed, RefreshCancelled
<1>17. ASSUME NEW w \in Workers, RefreshStored(w) PROVE row'.rev = row.rev + 1
  BY <1>1, <1>17 DEF RefreshStored, Row
<1>18. CASE UNCHANGED vars
  BY <1>3, <1>18 DEF vars
<1> QED
  BY <1>5, <1>6, <1>7, <1>8, <1>9, <1>11, <1>12, <1>13, <1>14, <1>15, <1>16, <1>17, <1>18 DEF Next

-----------------------------------------------------------------------------
(* The theorems.                                                           *)

IInv == /\ TypeInv /\ Named /\ Redeemed
        /\ Outside /\ CredentialBound /\ CodesFresh /\ TokensFresh

LEMMA IInvInit == Init => IInv
<1> SUFFICES ASSUME Init PROVE IInv
  OBVIOUS
<1>1. TypeInv
  BY TypeInvInit
<1>2. row.cred = None /\ row.pending = None /\ row.hash = None
  BY FreshRow DEF Init
<1>3. /\ \A c \in Callbacks : ~Active(c)
      /\ \A t \in Txns : codes[t] = 0
      /\ \A k \in Token : shown[k] = 0
      /\ withdrawn = {}
  BY DEF Init, Active
<1>4. \A c \in Callbacks : callback[c].pc # "exchange"
  BY <1>3 DEF Active
<1> QED
  BY <1>1, <1>2, <1>3, <1>4 DEF IInv, Named, Redeemed, Outside, CredentialBound, CodesFresh, TokensFresh

LEMMA IInvStep == IInv /\ [Next]_vars => IInv'
<1> SUFFICES ASSUME IInv, [Next]_vars PROVE IInv'
  OBVIOUS
<1>1. TypeInv /\ Named /\ Redeemed /\ Outside /\ CredentialBound /\ CodesFresh /\ TokensFresh
  BY DEF IInv
<1> QED
  BY <1>1, TypeInvStep, NamedStep, RedeemedStep, OutsideStep, BoundStep, CodesStep, TokensStep
     DEF IInv

LEMMA Invariant == Spec => []IInv
  BY IInvInit, IInvStep, PTL DEF Spec

(* The row, the positions of every call and connection and the history     *)
(* have their types, and a token that is presented is given back at most   *)
(* once (shown stays a natural number).                                    *)
THEOREM OAuthTypeCorrect == Spec => []OAuthTypeOK
<1>1. IInv => OAuthTypeOK
  BY DEF IInv, TypeInv
<1> QED
  BY <1>1, Invariant, PTL

(* However many authorizations, callbacks, clears and connections there    *)
(* are, what was withdrawn never provides the stored credential again.     *)
THEOREM WithdrawnCorrect == Spec => []WithdrawnStaysOut
<1>1. IInv => WithdrawnStaysOut
  BY DEF IInv, Outside, WithdrawnStaysOut
<1> QED
  BY <1>1, Invariant, PTL

(* No sequence of edits, callbacks and refreshes leaves a stored token     *)
(* with a URL it was not issued for, or beside static credentials.         *)
THEOREM BoundCorrect == Spec => []CredentialBound
<1>1. IInv => CredentialBound
  BY DEF IInv
<1> QED
  BY <1>1, Invariant, PTL

(* However many callbacks are delivered and however many connections find  *)
(* a token expired, a code is exchanged once, and a refresh token that was *)
(* accepted is not presented again.                                        *)
THEOREM SingleUseCorrect == Spec => []SingleUse
<1>1. IInv => SingleUse
  BY DEF IInv, CodesFresh, TokensFresh, SingleUse
<1> QED
  BY <1>1, Invariant, PTL

(* No step changes what connections are built from without a higher        *)
(* revision.                                                               *)
THEOREM RevisionCorrect == Spec => RevisionMarksChange
<1>1. TypeInv /\ [Next]_vars => [Settings' # Settings => row'.rev > row.rev]_vars
  BY RevisionStep
<1>2. IInv => TypeInv
  BY DEF IInv
<1> QED
  BY <1>1, <1>2, Invariant, PTL DEF Spec, RevisionMarksChange
=============================================================================
