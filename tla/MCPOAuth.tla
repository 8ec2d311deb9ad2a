------------------------------ MODULE MCPOAuth ------------------------------
(***************************************************************************)
(* The credentials of one MCP server registration (services/mcp_service.py *)
(* and mcp/oauth.py): the OAuth authorization a user begins and completes, *)
(* the edits and clears that withdraw it, and the connections that use the *)
(* stored token and refresh it, in any number of processes.                *)
(*                                                                         *)
(* The row is the only thing they share.  A section that selects the row   *)
(* FOR UPDATE and commits without leaving the database is one step; the    *)
(* refresh, which calls the authorization server inside the section, keeps *)
(* `lock` over two steps.  A credential is named by the authorization that *)
(* obtained it and by the number of times it was rotated.                  *)
(***************************************************************************)
EXTENDS Naturals, FiniteSets

CONSTANTS Txns,      \* calls of begin_oauth_authorization
          Callbacks, \* calls of complete_oauth_authorization
          Clears,    \* calls of clear_oauth_credentials
          Workers,   \* connections, each with its PersistentOAuthAuth
          Urls,      \* the URLs the registration may be edited to
          None,      \* no value in a column, nobody
          MaxGen,    \* bound: rotations of one credential
          MaxEdits   \* bound: calls of update_server and clear_server_credentials

ASSUME OAuthAssumption ==
    /\ None \notin Txns \cup Callbacks \cup Clears \cup Workers \cup Urls
    /\ Urls # {} /\ MaxGen \in Nat /\ MaxEdits \in Nat

VARIABLES
    row,       \* the committed columns
    lock,      \* the connection that holds the row FOR UPDATE, or None
    begin,     \* Txns -> position and the URL read
    callback,  \* Callbacks -> position, the claimed transaction, expected_revision
    clear,     \* Clears -> position
    worker,    \* Workers -> position, payload and whether a refresh is forced
    expired,   \* tokens whose lifetime is over
    edits,     \* edits made so far
    codes,     \* history: exchanges of each transaction's code
    shown,     \* history: presentations of each refresh token, except those
               \*   that failed or whose answer was lost
    withdrawn  \* history: authorizations cleared, superseded or replaced

vars == <<row, lock, begin, callback, clear, worker, expired, edits,
          codes, shown, withdrawn>>
history == <<codes, shown, withdrawn>>

Token   == [txn : Txns, gen : 0..MaxGen]
Pending == [txn : Txns, claim : Callbacks \cup {None}]
Row     == [present : BOOLEAN, url : Urls, static : BOOLEAN,
            cred : Token \cup {None}, pending : Pending \cup {None},
            hash : Txns \cup {None}, authreq : BOOLEAN, rev : Nat]

ASSUME NoneAssumption == None \notin Token \cup Pending

Init ==
    /\ row \in [present : {TRUE}, url : Urls, static : BOOLEAN, cred : {None},
                pending : {None}, hash : {None}, authreq : {FALSE}, rev : {1}]
    /\ lock = None
    /\ begin = [t \in Txns |-> [pc |-> "idle", url |-> row.url]]
    /\ callback = [c \in Callbacks |-> [pc |-> "idle", txn |-> None, rev |-> 0]]
    /\ clear = [k \in Clears |-> "idle"]
    /\ worker = [w \in Workers |-> [pc |-> "idle", tok |-> None, force |-> FALSE]]
    /\ expired = {}
    /\ edits = 0
    /\ codes = [t \in Txns |-> 0]
    /\ shown = [k \in Token |-> 0]
    /\ withdrawn = {}

\* The URL the payload of transaction t is bound to (server_url).
UrlOf(t) == begin[t].url
Bound(k) == UrlOf(k.txn) = row.url
Begun    == {t \in Txns : begin[t].pc = "begun"}

\* The authorizations an edit of the row takes back.
Installed == IF row.cred = None THEN {} ELSE {row.cred.txn}

-----------------------------------------------------------------------------
(***************************************************************************)
(* begin_oauth_authorization: read the row, talk to the servers, store the *)
(* transaction if the row still admits it.  A call that raises before then *)
(* leaves no trace and is not a step.                                      *)
(***************************************************************************)
BeginRead(t) ==
    /\ begin[t].pc = "idle"
    /\ row.present /\ ~row.static
    /\ begin' = [begin EXCEPT ![t] = [pc |-> "discovering", url |-> row.url]]
    /\ UNCHANGED <<row, lock, callback, clear, worker, expired, edits, history>>

BeginPersist(t) ==
    /\ begin[t].pc = "discovering" /\ lock = None
    /\ row.present /\ row.url = UrlOf(t) /\ ~row.static
    /\ row' = [row EXCEPT !.pending = [txn |-> t, claim |-> None], !.hash = t,
                          !.authreq = TRUE, !.rev = @ + 1]
    /\ begin' = [begin EXCEPT ![t].pc = "begun"]
    /\ withdrawn' = withdrawn \cup (Begun \ Installed)
    /\ UNCHANGED <<lock, callback, clear, worker, expired, edits, codes, shown>>

(***************************************************************************)
(* complete_oauth_authorization: claim the transaction, exchange the code, *)
(* install the payload if nothing touched the row meanwhile.  The callback *)
(* may arrive several times, and for a transaction of any age.             *)
(***************************************************************************)
Over == [pc |-> "done", txn |-> None, rev |-> 0]

\* Mutant of Claim: the state of the transaction stays redeemable.
ClaimKeepsHash(c, t) ==
    /\ callback[c].pc = "idle" /\ begin[t].pc = "begun" /\ lock = None
    /\ row.present /\ row.hash = t /\ row.pending # None
    /\ row.url = UrlOf(t)
    /\ callback' = [callback EXCEPT ![c] = [pc |-> "exchange", txn |-> t, rev |-> row.rev]]
    /\ row' = [row EXCEPT !.pending = [txn |-> t, claim |-> c]]
    /\ UNCHANGED <<lock, begin, clear, worker, expired, edits, history>>

Claim(c, t) ==
    /\ callback[c].pc = "idle" /\ begin[t].pc = "begun" /\ lock = None
    /\ row.present /\ row.hash = t /\ row.pending # None
    /\ row.url = UrlOf(t)
    /\ callback' = [callback EXCEPT ![c] = [pc |-> "exchange", txn |-> t, rev |-> row.rev]]
    /\ row' = [row EXCEPT !.pending = [txn |-> t, claim |-> c], !.hash = None]
    /\ UNCHANGED <<lock, begin, clear, worker, expired, edits, history>>

\* The transaction outlived its ten minutes: it is dropped and the call raises.
ClaimExpired(c, t) ==
    /\ callback[c].pc = "idle" /\ begin[t].pc = "begun" /\ lock = None
    /\ row.present /\ row.hash = t /\ row.pending # None
    /\ callback' = [callback EXCEPT ![c] = Over]
    /\ row' = [row EXCEPT !.pending = None, !.hash = None]
    /\ UNCHANGED <<lock, begin, clear, worker, expired, edits, history>>

Exchange(c) ==
    /\ callback[c].pc = "exchange"
    /\ callback' \in {[callback EXCEPT ![c].pc = "persist"], [callback EXCEPT ![c] = Over]}
    /\ codes' = [codes EXCEPT ![callback[c].txn] = @ + 1]
    /\ UNCHANGED <<row, lock, begin, clear, worker, expired, edits, shown, withdrawn>>

\* Mutant of Unchanged: it asks whether the server's settings still fit, no more.
UnchangedSettings(c) ==
    row.present /\ row.url = UrlOf(callback[c].txn) /\ ~row.static

\* The compare-and-set after the exchange.
Unchanged(c) ==
    /\ row.present /\ row.url = UrlOf(callback[c].txn)
    /\ row.rev = callback[c].rev
    /\ row.pending # None
    /\ row.pending.claim = c
    /\ row.hash = None /\ ~row.static

Install(c) ==
    /\ callback[c].pc = "persist" /\ lock = None
    /\ Unchanged(c)
    /\ row' = [row EXCEPT !.cred = [txn |-> callback[c].txn, gen |-> 0], !.pending = None,
                          !.authreq = FALSE, !.rev = @ + 1]
    /\ callback' = [callback EXCEPT ![c] = Over]
    /\ withdrawn' = withdrawn \cup (Installed \ {callback[c].txn})
    /\ UNCHANGED <<lock, begin, clear, worker, expired, edits, codes, shown>>

InstallRefused(c) ==
    /\ callback[c].pc = "persist" /\ lock = None
    /\ ~Unchanged(c)
    /\ callback' = [callback EXCEPT ![c] = Over]
    /\ UNCHANGED <<row, lock, begin, clear, worker, expired, edits, history>>

-----------------------------------------------------------------------------
(***************************************************************************)
(* Edits of the row.                                                       *)
(***************************************************************************)
\* Mutant of Blank: the other processes are not told.
BlankUnmarked(r) == [r EXCEPT !.cred = None, !.pending = None, !.hash = None,
                              !.authreq = FALSE]

Blank(r) == [r EXCEPT !.cred = None, !.pending = None, !.hash = None,
                      !.authreq = FALSE, !.rev = @ + 1]

\* clear_oauth_credentials: a first section reads the payload to revoke it.
ClearLoad(k) ==
    /\ clear[k] = "idle" /\ lock = None /\ row.present
    /\ clear' = [clear EXCEPT ![k] = "revoking"]
    /\ UNCHANGED <<row, lock, begin, callback, worker, expired, edits, history>>

ClearPersist(k) ==
    /\ clear[k] = "revoking" /\ lock = None /\ row.present
    /\ row' = Blank(row)
    /\ clear' = [clear EXCEPT ![k] = "done"]
    /\ withdrawn' = withdrawn \cup Begun
    /\ UNCHANGED <<lock, begin, callback, worker, expired, edits, codes, shown>>

ClearServerCredentials ==
    /\ edits < MaxEdits /\ lock = None /\ row.present
    /\ row' = [Blank(row) EXCEPT !.static = FALSE]
    /\ edits' = edits + 1
    /\ withdrawn' = withdrawn \cup Begun
    /\ UNCHANGED <<lock, begin, callback, clear, worker, expired, codes, shown>>

\* Mutant of Admits: only the URL of the stored token is looked at.
AdmitsStatic(u, static) == row.cred # None => u = UrlOf(row.cred.txn)

\* A stored token stays with the URL it is bound to, and alone.
Admits(u, static) == row.cred # None => u = UrlOf(row.cred.txn) /\ ~static

\* update_server: url to u; the static credentials kept, set or cleared.
UpdateServer(u, headers) ==
    LET static == CASE headers = "keep" -> row.static
                    [] headers = "set" -> TRUE
                    [] headers = "clear" -> FALSE
    IN  /\ edits < MaxEdits /\ lock = None /\ row.present
        /\ ~(row.static /\ u # row.url /\ headers = "keep")
        /\ Admits(u, static)
        /\ row' = IF headers = "set"
                  THEN [row EXCEPT !.url = u, !.static = TRUE, !.pending = None,
                                   !.hash = None, !.authreq = FALSE, !.rev = @ + 1]
                  ELSE [row EXCEPT !.url = u, !.static = static, !.rev = @ + 1]
        /\ edits' = edits + 1
        /\ withdrawn' = IF headers = "set" THEN withdrawn \cup Begun ELSE withdrawn
        /\ UNCHANGED <<lock, begin, callback, clear, worker, expired, codes, shown>>

DeleteServer ==
    /\ edits < MaxEdits /\ lock = None /\ row.present
    /\ row' = [Blank(row) EXCEPT !.present = FALSE, !.static = FALSE]
    /\ edits' = edits + 1
    /\ withdrawn' = withdrawn \cup Begun
    /\ UNCHANGED <<lock, begin, callback, clear, worker, expired, codes, shown>>

-----------------------------------------------------------------------------
(***************************************************************************)
(* A connection: _oauth_auth_for builds its PersistentOAuthAuth from the   *)
(* row it read, async_auth_flow runs for each request it sends.            *)
(***************************************************************************)
Goto(w, pc) == worker' = [worker EXCEPT ![w].pc = pc]

Connect(w) ==
    /\ worker[w].pc \in {"idle", "ready"}
    /\ row.present /\ row.cred # None
    /\ Bound(row.cred)
    /\ worker' = [worker EXCEPT ![w] = [pc |-> "ready", tok |-> row.cred, force |-> FALSE]]
    /\ UNCHANGED <<row, lock, begin, callback, clear, expired, edits, history>>

Expire(k) ==
    /\ k \notin expired
    /\ \/ row.cred = k
       \/ \E w \in Workers : worker[w].tok = k
    /\ expired' = expired \cup {k}
    /\ UNCHANGED <<row, lock, begin, callback, clear, worker, edits, history>>

\* A request: refresh first when the payload is not valid, else 401 or 403.
Request(w) ==
    /\ worker[w].pc = "ready"
    /\ IF worker[w].tok \in expired
       THEN worker' = [worker EXCEPT ![w].pc = "refresh", ![w].force = FALSE]
       ELSE \/ worker' = [worker EXCEPT ![w].pc = "refresh", ![w].force = TRUE]
            \/ Goto(w, "mark")
    /\ UNCHANGED <<row, lock, begin, callback, clear, expired, edits, history>>

\* What _refresh_oauth_under_lock asks of the row and the payload observed.
Refreshable(w) ==
    /\ row.present /\ row.cred # None
    /\ row.url = UrlOf(worker[w].tok.txn)
    /\ Bound(row.cred)
Adoptable(w) == row.cred \notin expired /\ (worker[w].force => row.cred # worker[w].tok)

RefreshRefused(w) ==
    /\ worker[w].pc = "refresh" /\ lock = None
    /\ ~Refreshable(w)
    /\ Goto(w, "mark")
    /\ UNCHANGED <<row, lock, begin, callback, clear, expired, edits, history>>

\* Somebody has rotated the token already; after a 401 the request is sent again.
RefreshAdopted(w) ==
    /\ worker[w].pc = "refresh" /\ lock = None
    /\ Refreshable(w) /\ Adoptable(w)
    /\ worker' = [worker EXCEPT ![w] = [pc |-> IF worker[w].force THEN "resend" ELSE "ready",
                                        tok |-> row.cred, force |-> FALSE]]
    /\ UNCHANGED <<row, lock, begin, callback, clear, expired, edits, history>>

\* No refresh token, or an expired client secret.
RefreshImpossible(w) ==
    /\ worker[w].pc = "refresh" /\ lock = None
    /\ Refreshable(w) /\ ~Adoptable(w)
    /\ row' = IF row.authreq THEN row ELSE [row EXCEPT !.authreq = TRUE, !.rev = @ + 1]
    /\ Goto(w, "mark")
    /\ UNCHANGED <<lock, begin, callback, clear, expired, edits, history>>

RefreshAsk(w) ==
    /\ worker[w].pc = "refresh" /\ lock = None
    /\ Refreshable(w) /\ ~Adoptable(w)
    /\ row.cred.gen < MaxGen
    /\ lock' = w
    /\ Goto(w, "asking")
    /\ shown' = [shown EXCEPT ![row.cred] = @ + 1]
    /\ UNCHANGED <<row, begin, callback, clear, expired, edits, codes, withdrawn>>

RefreshStored(w) ==
    LET rotated == [row.cred EXCEPT !.gen = @ + 1]
    IN  /\ worker[w].pc = "asking"
        /\ row' = [row EXCEPT !.cred = rotated, !.authreq = FALSE, !.rev = @ + 1]
        /\ lock' = None
        /\ worker' = [worker EXCEPT ![w] = [pc |-> IF worker[w].force THEN "resend" ELSE "ready",
                                            tok |-> rotated, force |-> FALSE]]
        /\ UNCHANGED <<begin, callback, clear, expired, edits, history>>

\* Rejected, or no answer that can be read.
RefreshFailed(w) ==
    /\ worker[w].pc = "asking"
    /\ row' = IF row.authreq THEN row ELSE [row EXCEPT !.authreq = TRUE, !.rev = @ + 1]
    /\ lock' = None
    /\ Goto(w, "mark")
    /\ shown' = [shown EXCEPT ![row.cred] = @ - 1]
    /\ UNCHANGED <<begin, callback, clear, expired, edits, codes, withdrawn>>

\* Cancelled or dead while waiting for the answer: the section rolls back.
RefreshCancelled(w) ==
    /\ worker[w].pc = "asking"
    /\ lock' = None
    /\ worker' = [worker EXCEPT ![w] = [pc |-> "idle", tok |-> None, force |-> FALSE]]
    /\ shown' = [shown EXCEPT ![row.cred] = @ - 1]
    /\ UNCHANGED <<row, begin, callback, clear, expired, edits, codes, withdrawn>>

\* The request sent again after a 401 is accepted or rejected.
Resend(w) ==
    /\ worker[w].pc = "resend"
    /\ \/ worker[w].tok \notin expired /\ Goto(w, "ready")
       \/ Goto(w, "mark")
    /\ UNCHANGED <<row, lock, begin, callback, clear, expired, edits, history>>

\* _mark_oauth_reauthorization_required; then the exception ends the connection,
\* or the attempt to open it (the outcome of which a registration writes down).
MarkRequired(w) ==
    /\ worker[w].pc = "mark" /\ lock = None
    /\ row' = IF row.cred = worker[w].tok /\ ~row.authreq
              THEN [row EXCEPT !.authreq = TRUE, !.rev = @ + 1] ELSE row
    /\ \E pc \in {"idle", "outcome"} :
        worker' = [worker EXCEPT ![w] = [pc |-> pc, tok |-> None, force |-> FALSE]]
    /\ UNCHANGED <<lock, begin, callback, clear, expired, edits, history>>

\* _persist_connection_outcome: no revision, and no look at what the row holds now;
\* nothing is sent when the session loaded a row that was already marked.
PersistOutcome(w) ==
    /\ worker[w].pc = "outcome" /\ lock = None
    /\ row' \in {row, [row EXCEPT !.authreq = @ \/ row.present]}
    /\ Goto(w, "idle")
    /\ UNCHANGED <<lock, begin, callback, clear, expired, edits, history>>

-----------------------------------------------------------------------------
Next ==
    \/ \E t \in Txns : BeginRead(t) \/ BeginPersist(t)
    \/ \E c \in Callbacks, t \in Txns : Claim(c, t) \/ ClaimExpired(c, t)
    \/ \E c \in Callbacks : Exchange(c) \/ Install(c) \/ InstallRefused(c)
    \/ \E k \in Clears : ClearLoad(k) \/ ClearPersist(k)
    \/ ClearServerCredentials
    \/ \E u \in Urls, headers \in {"keep", "set", "clear"} : UpdateServer(u, headers)
    \/ DeleteServer
    \/ \E k \in Token : Expire(k)
    \/ \E w \in Workers :
        \/ Connect(w) \/ Request(w) \/ RefreshRefused(w) \/ RefreshAdopted(w)
        \/ RefreshImpossible(w) \/ RefreshAsk(w) \/ RefreshStored(w)
        \/ RefreshFailed(w) \/ RefreshCancelled(w) \/ Resend(w) \/ MarkRequired(w)
        \/ PersistOutcome(w)

Spec == Init /\ [][Next]_vars

-----------------------------------------------------------------------------
(***************************************************************************)
(* Properties.                                                             *)
(***************************************************************************)

\* Every variable has its type.
OAuthTypeOK ==
    /\ row \in Row
    /\ lock \in Workers \cup {None}
    /\ begin \in [Txns -> [pc : {"idle", "discovering", "begun"}, url : Urls]]
    /\ callback \in [Callbacks -> [pc : {"idle", "exchange", "persist", "done"},
                                   txn : Txns \cup {None}, rev : Nat]]
    /\ clear \in [Clears -> {"idle", "revoking", "done"}]
    /\ worker \in [Workers -> [pc : {"idle", "ready", "refresh", "asking", "resend", "mark",
                                     "outcome"},
                               tok : Token \cup {None}, force : BOOLEAN]]
    /\ expired \subseteq Token
    /\ edits \in 0..MaxEdits
    /\ codes \in [Txns -> Nat]
    /\ shown \in [Token -> Nat]
    /\ withdrawn \subseteq Txns

\* An authorization that was cleared, replaced by static credentials or
\* superseded by a newer one never provides the stored credential again,
\* whatever callback, refresh or connection was in flight.
WithdrawnStaysOut == row.cred # None => row.cred.txn \notin withdrawn

\* A stored credential was issued for the URL of the row, and there are no
\* static credentials beside it: neither an edit nor a late callback pairs a
\* token with a server it was not issued for.
CredentialBound ==
    row.cred # None => row.present /\ Bound(row.cred) /\ ~row.static

\* However often a callback is delivered, its code is exchanged once; and
\* however many connections see a token expire at once, its refresh token is
\* presented once unless that failed or the answer was lost (servers that rotate
\* revoke the whole family when a used token comes back).
SingleUse ==
    /\ \A t \in Txns : codes[t] <= 1
    /\ \A k \in Token : shown[k] <= 1

\* What connections are built from changes only together with the revision, by
\* which the registries of other processes notice it.
Settings == [present |-> row.present, url |-> row.url, static |-> row.static, cred |-> row.cred]
RevisionMarksChange == [][Settings' # Settings => row'.rev > row.rev]_vars
=============================================================================
