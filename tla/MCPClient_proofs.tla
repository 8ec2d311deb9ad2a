--------------------------- MODULE MCPClient_proofs ---------------------------
(***************************************************************************)
(* Proofs about MCPClient: for any finite set of calls, and any probes and *)
(* disconnects beside them.                                                *)
(***************************************************************************)
EXTENDS MCPClient, FiniteSetTheorems, TLAPS

-----------------------------------------------------------------------------
(* The inductive invariant.                                                *)

ConnPc   == {"unused", "starting", "opening", "initializing", "parked", "closing", "exiting",
             "done"}
ConnType == [Conns -> [pc : ConnPc, signal : BOOLEAN, cancel : BOOLEAN,
                       ready : {"pending", "ok", "failed"}]]
UserPc   == {"idle", "sending", "wantlock", "join", "await", "connect", "ready", "abort",
             "abandon", "resending", "probing", "done"}
UserType == [Users -> [pc : UserPc, on : Conns \cup {0}]]

CallPc   == {"sending", "wantlock", "connect", "ready", "abort", "abandon", "resending"}
OnConn   == {"sending", "join", "await", "ready", "abort", "abandon", "resending"}
Stopping == {"join", "await", "connect"}
Waiting  == {"ready", "abort", "abandon"}
Holding  == Stopping \cup Waiting
Past     == Waiting \cup {"resending", "done"}

Opening(i) == conn[i].pc \in {"starting", "opening", "initializing"}
Begun == {u \in Calls : user[u].pc \in Past}

(* Everything points to connections that were begun; these are numbered    *)
(* without gaps, and a call begins at most one.                            *)
Placed ==
  /\ \A u \in Users : user[u].pc \in CallPc => u \in Calls
  /\ \A u \in Users : user[u].pc \in OnConn => user[u].on \in Used
  /\ {owner, session, cm} \subseteq Used \cup {0}
  /\ Used = 1..Cardinality(Used)
  /\ Cardinality(Used) <= 1 + Cardinality(Begun)

\* A call that stops an owner or waits for one of its own holds the lock.
Locked == \A u \in Calls : user[u].pc \in Holding => lock = u

\* The call that waits for connection i, which no disconnect took away.
Waits(u, i) == /\ user[u].pc \in Waiting /\ user[u].on = i
               /\ user[u].pc = "ready" => owner = i

(* While a connection is being opened the client is not connected, so no   *)
(* disconnect takes its owner and no call finds it; somebody waits for it. *)
Attended ==
  /\ \A i \in Conns : conn[i].pc = "unused" \/ Opening(i) => conn[i].ready = "pending"
  /\ \A i \in Conns : Opening(i) => ~connected /\ \E u \in Calls : Waits(u, i)
  /\ \A u \in Calls : user[u].pc \in Stopping =>
        ~connected /\ \A i \in Conns : ~Opening(i)

(* Unless a connect began too early, one owner at most is not done, and    *)
(* the attributes are its own from the moment it entered its transport.    *)
Sole ==
  /\ connected => session # 0
  /\ ~overlapped =>
       /\ \A i, j \in Used : ~Over(i) /\ ~Over(j) => i = j
       /\ \A i \in Conns : conn[i].pc = "opening" => cm = i
       /\ \A i \in Conns : conn[i].pc \in {"initializing", "parked", "closing", "exiting"} =>
             session = i /\ cm = i

IInv == ClientTypeOK /\ Placed /\ Locked /\ Attended /\ Sole

USE DEF Stopping, Waiting

-----------------------------------------------------------------------------
(* What the steps do to one connection and to one caller.                  *)

LEMMA TypeParts ==
  ASSUME ClientTypeOK
  PROVE  conn \in ConnType /\ user \in UserType
  BY DEF ClientTypeOK, ConnType, ConnPc, UserType, UserPc

LEMMA ConnGoes ==
  ASSUME conn \in ConnType, NEW i \in Conns, NEW pc \in ConnPc,
         conn' = [conn EXCEPT ![i].pc = pc]
  PROVE  /\ conn' \in ConnType /\ conn'[i].pc = pc
         /\ \A j \in Conns : conn'[j].ready = conn[j].ready
         /\ \A j \in Conns : j # i => conn'[j] = conn[j]
  BY DEF ConnType

LEMMA ConnSettles ==
  ASSUME conn \in ConnType, NEW i \in Conns, NEW pc \in ConnPc,
         NEW ready \in {"pending", "ok", "failed"},
         conn' = [conn EXCEPT ![i].pc = pc, ![i].ready = ready]
  PROVE  /\ conn' \in ConnType /\ conn'[i].pc = pc /\ conn'[i].ready = ready
         /\ \A j \in Conns : j # i => conn'[j] = conn[j]
  BY DEF ConnType

LEMMA ConnWakes ==
  ASSUME conn \in ConnType, NEW i \in Conns, NEW pc \in ConnPc,
         conn' = [conn EXCEPT ![i].pc = pc, ![i].cancel = FALSE]
  PROVE  /\ conn' \in ConnType /\ conn'[i].pc = pc
         /\ \A j \in Conns : j # i => conn'[j] = conn[j]
  BY DEF ConnType

\* The positions of the owner tasks and their futures are the same.
SameConns == /\ conn' \in ConnType
             /\ \A j \in Conns : conn'[j].pc = conn[j].pc /\ conn'[j].ready = conn[j].ready

LEMMA ConnTold ==
  ASSUME conn \in ConnType, NEW i \in Conns,
         \/ conn' = [conn EXCEPT ![i].signal = TRUE]
         \/ conn' = [conn EXCEPT ![i].cancel = TRUE]
         \/ conn' = conn
  PROVE  SameConns
<1>1. CASE conn' = [conn EXCEPT ![i].signal = TRUE]
  BY <1>1 DEF ConnType, SameConns
<1>2. CASE conn' = [conn EXCEPT ![i].cancel = TRUE]
  BY <1>2 DEF ConnType, SameConns
<1>3. CASE conn' = conn
  BY <1>3 DEF SameConns
<1> QED
  BY <1>1, <1>2, <1>3

LEMMA UserMoves ==
  ASSUME user \in UserType, NEW u \in Users, NEW pc \in UserPc, NEW on \in Conns \cup {0},
         Set(u, pc, on)
  PROVE  /\ user' \in UserType /\ user'[u].pc = pc /\ user'[u].on = on
         /\ \A v \in Users : v # u => user'[v] = user[v]
  BY DEF UserType, Set

LEMMA Counting ==
  /\ IsFiniteSet(Begun) /\ Cardinality(Begun) \in Nat
  /\ IsFiniteSet(Calls) /\ Cardinality(Calls) \in Nat
  /\ IsFiniteSet(Conns) /\ IsFiniteSet(Used) /\ Cardinality(Used) \in Nat
<1>1. IsFiniteSet(Calls) /\ Cardinality(Calls) \in Nat
  BY ClientAssumption, FS_CardinalityType
<1>2. IsFiniteSet(Begun)
  BY <1>1, FS_Subset DEF Begun
<1>3. IsFiniteSet(Conns)
  BY <1>1, FS_Interval DEF Conns
<1>4. IsFiniteSet(Used)
  BY <1>3, FS_Subset DEF Used
<1> QED
  BY <1>1, <1>2, <1>3, <1>4, FS_CardinalityType

\* A step that begins no connection keeps the count.
LEMMA SameCount ==
  ASSUME Placed, Used' = Used, Begun \subseteq Begun'
  PROVE  Used' = 1..Cardinality(Used') /\ Cardinality(Used') <= 1 + Cardinality(Begun')
<1>1. IsFiniteSet(Begun') /\ Cardinality(Begun') \in Nat
  <2>1. Begun' \subseteq Calls
    BY DEF Begun
  <2> QED
    BY <2>1, Counting, FS_Subset, FS_CardinalityType
<1>2. Cardinality(Begun) <= Cardinality(Begun')
  BY <1>1, FS_Subset
<1> QED
  BY <1>1, <1>2, Counting DEF Placed

-----------------------------------------------------------------------------
(* The steps of the owner tasks.                                           *)

LinkType == [Conns -> {"none", "live", "broken", "closed"}]

\* What a step of task i does; it leaves the callers and the lock alone.
TaskFacts(i) ==
  /\ conn[i].pc \notin {"unused", "done"}
  /\ conn' \in ConnType /\ conn'[i].pc # "unused"
  /\ \A j \in Conns : j # i => conn'[j] = conn[j]
  /\ conn'[i].pc \in {"starting", "opening", "initializing"} =>
        Opening(i) /\ conn'[i].ready = "pending" /\ ~connected'
  /\ connected' => connected \/ Opening(i)
  /\ connected' \in BOOLEAN /\ link' \in LinkType
  /\ session' \in Used \cup {0} /\ cm' \in Used \cup {0}
  /\ connected' => session' # 0
  /\ \/ conn'[i].pc \in {"starting", "done"}
     \/ conn'[i].pc = "opening" /\ cm' = i
     \/ conn[i].pc = "opening" /\ session' = i /\ cm' = cm
     \/ conn[i].pc \notin {"starting", "opening"} /\ session' = session /\ cm' = cm
  /\ UNCHANGED <<owner, lock, user, overlapped, told>>

LEMMA TaskStep ==
  ASSUME IInv, NEW i \in Conns, TaskFacts(i)
  PROVE  IInv'
<1> USE DEF TaskFacts
<1>1. conn \in ConnType /\ user \in UserType
  BY TypeParts DEF IInv
<1>2. Used' = Used
  BY DEF Used
<1>3. ClientTypeOK'
  BY <1>1 DEF IInv, ClientTypeOK, ConnType, ConnPc, UserType, UserPc, LinkType, Placed, Used
<1>4. Placed'
  <2>1. Begun' = Begun
    BY DEF Begun
  <2> QED
    BY <1>2, <2>1, SameCount DEF IInv, Placed
<1>5. Locked'
  BY DEF IInv, Locked
<1>6. Attended'
  <2>1. \A j \in Conns : Opening(j)' => Opening(j)
    BY DEF Opening
  <2>2. \A j \in Conns : conn'[j].pc = "unused" \/ Opening(j)' => conn'[j].ready = "pending"
    BY DEF IInv, Attended, Opening
  <2>3. ASSUME NEW j \in Conns, Opening(j)' PROVE ~connected' /\ \E u \in Calls : Waits(u, j)'
    <3>1. PICK u \in Calls : Waits(u, j)
      BY <2>1, <2>3 DEF IInv, Attended
    <3>2. Waits(u, j)'
      BY <3>1 DEF Waits
    <3>3. CASE j = i
      BY <2>3, <3>2, <3>3 DEF Opening
    <3>4. CASE j # i
      <4>1. ~connected /\ Opening(j)
        BY <2>1, <2>3 DEF IInv, Attended
      <4>2. ~Opening(i)
        <5>1. ASSUME Opening(i) PROVE FALSE
          <6>1. PICK v \in Calls : Waits(v, i)
            BY <5>1 DEF IInv, Attended
          <6>2. u = v
            BY <3>1, <6>1 DEF IInv, Locked, Waits, Holding
          <6> QED
            BY <3>1, <3>4, <6>1, <6>2 DEF Waits
        <5> QED
          BY <5>1
      <4> QED
        BY <3>2, <4>1, <4>2
    <3> QED
      BY <3>3, <3>4
  <2>4. ASSUME NEW u \in Calls, user'[u].pc \in Stopping
        PROVE  ~connected' /\ \A j \in Conns : ~Opening(j)'
    BY <2>1, <2>4 DEF IInv, Attended
  <2> QED
    BY <2>2, <2>3, <2>4 DEF Attended
<1>7. Sole'
  <2>1. ASSUME ~overlapped, NEW j \in Conns, NEW k \in Conns, j \in Used, k \in Used,
               conn'[j].pc # "done", conn'[k].pc # "done"
        PROVE  j = k
    BY <2>1 DEF IInv, Sole, Over
  <2>2. ASSUME ~overlapped, NEW j \in Conns,
               conn'[j].pc \in {"initializing", "parked", "closing", "exiting"}
        PROVE  session' = j /\ cm' = j
    <3>1. CASE j = i
      BY <1>1, <2>2, <3>1 DEF IInv, Sole, ConnType, ConnPc
    <3>2. CASE j # i
      <4>1. conn[j].pc = conn'[j].pc /\ j \in Used /\ i \in Used /\ conn[j].pc # "done"
        BY <2>2, <3>2 DEF Used
      <4>2. ~Over(i) /\ ~Over(j)
        BY <4>1 DEF Over
      <4> QED
        BY <2>2, <3>2, <4>1, <4>2 DEF IInv, Sole
    <3> QED
      BY <3>1, <3>2
  <2>3. ASSUME ~overlapped, NEW j \in Conns, conn'[j].pc = "opening" PROVE cm' = j
    <3>1. CASE j = i
      BY <1>1, <2>3, <3>1 DEF IInv, Sole, ConnType, ConnPc
    <3>2. CASE j # i
      <4>1. conn[j].pc = conn'[j].pc /\ j \in Used /\ i \in Used /\ conn[j].pc # "done"
        BY <2>3, <3>2 DEF Used
      <4>2. ~Over(i) /\ ~Over(j)
        BY <4>1 DEF Over
      <4> QED
        BY <2>3, <3>2, <4>1, <4>2 DEF IInv, Sole
    <3> QED
      BY <3>1, <3>2
  <2> QED
    BY <2>1, <2>2, <2>3 DEF Sole, Over, Used
<1> QED
  BY <1>3, <1>4, <1>5, <1>6, <1>7 DEF IInv

LEMMA TaskInv ==
  ASSUME IInv, NEW i \in Conns, Task(i)
  PROVE  IInv'
<1> SUFFICES TaskFacts(i)
  BY TaskStep
<1>1. /\ conn \in ConnType /\ link \in LinkType /\ connected \in BOOLEAN
      /\ session \in Used \cup {0} /\ cm \in Used \cup {0}
      /\ connected => session # 0
  BY TypeParts DEF IInv, ClientTypeOK, LinkType, Placed, Sole
<1>2. conn[i].pc # "unused" => i \in Used
  BY DEF Used
<1>3. Opening(i) => ~connected /\ conn[i].ready = "pending"
  BY DEF IInv, Attended
<1> DEFINE Closed == IF cm = 0 THEN link ELSE [link EXCEPT ![cm] = "closed"]
<1>14. Closed \in LinkType
  BY <1>1 DEF LinkType, Used
<1>11. CASE BeginOpen(i)
  <2>1. /\ conn' \in ConnType /\ conn'[i].pc = "opening" /\ conn'[i].ready = conn[i].ready
        /\ \A j \in Conns : j # i => conn'[j] = conn[j]
    BY <1>1, <1>11, ConnGoes DEF BeginOpen, ConnPc
  <2> QED
    BY <1>1, <1>2, <1>3, <1>11, <2>1 DEF BeginOpen, TaskFacts, Opening
<1>12. CASE StartFails(i)
  <2>1. /\ conn' \in ConnType /\ conn'[i].pc = "done"
        /\ \A j \in Conns : j # i => conn'[j] = conn[j]
    BY <1>1, <1>12, ConnSettles DEF StartFails, ConnPc
  <2> QED
    BY <1>1, <1>12, <2>1 DEF StartFails, TaskFacts, Opening
<1>13. CASE RetryOpen(i)
  <2>1. /\ conn' \in ConnType /\ conn'[i].pc = "starting" /\ conn'[i].ready = conn[i].ready
        /\ \A j \in Conns : j # i => conn'[j] = conn[j]
    BY <1>1, <1>13, ConnGoes DEF RetryOpen, ConnPc
  <2>2. link' \in LinkType
    BY <1>13, <1>14 DEF RetryOpen, Exit
  <2> QED
    BY <1>1, <1>2, <1>3, <1>13, <2>1, <2>2 DEF RetryOpen, TaskFacts, Opening
<1>4. CASE OpenTransport(i)
  <2>1. /\ conn' \in ConnType /\ conn'[i].pc = "initializing" /\ conn'[i].ready = conn[i].ready
        /\ \A j \in Conns : j # i => conn'[j] = conn[j]
    BY <1>1, <1>4, ConnGoes DEF OpenTransport, ConnPc
  <2>2. link' \in LinkType
    BY <1>1, <1>4 DEF OpenTransport, LinkType
  <2> QED
    BY <1>1, <1>2, <1>3, <1>4, <2>1, <2>2 DEF OpenTransport, TaskFacts, Opening
<1>5. CASE OpenFails(i)
  <2>1. /\ conn' \in ConnType /\ conn'[i].pc = "done"
        /\ \A j \in Conns : j # i => conn'[j] = conn[j]
    BY <1>1, <1>5, ConnSettles DEF OpenFails, ConnPc
  <2>2. link' \in LinkType
    BY <1>5, <1>14 DEF OpenFails, Exit
  <2> QED
    BY <1>1, <1>5, <2>1, <2>2 DEF OpenFails, TaskFacts, Opening
<1>6. CASE Initialize(i)
  <2>1. /\ conn' \in ConnType /\ conn'[i].pc = "parked"
        /\ \A j \in Conns : j # i => conn'[j] = conn[j]
    BY <1>1, <1>6, ConnSettles DEF Initialize, ConnPc
  <2>2. conn[i].pc = "initializing" /\ UNCHANGED <<session, cm>>
    BY <1>6 DEF Initialize
  <2> QED
    BY <1>1, <1>6, <2>1, <2>2 DEF Initialize, TaskFacts, Opening
<1>7. CASE InitializeFails(i)
  <2>1. /\ conn' \in ConnType /\ conn'[i].pc = "done"
        /\ \A j \in Conns : j # i => conn'[j] = conn[j]
    BY <1>1, <1>7, ConnSettles DEF InitializeFails, ConnPc
  <2> QED
    BY <1>1, <1>7, <2>1 DEF InitializeFails, TaskFacts, Opening
<1>8. CASE CloseBegin(i)
  <2>1. /\ conn' \in ConnType /\ conn'[i].pc = "closing"
        /\ \A j \in Conns : j # i => conn'[j] = conn[j]
    BY <1>1, <1>8, ConnWakes DEF CloseBegin, ConnPc
  <2> QED
    BY <1>1, <1>8, <2>1 DEF CloseBegin, attrs, TaskFacts, Opening
<1>9. CASE ExitTransport(i)
  <2>1. /\ conn' \in ConnType /\ conn'[i].pc = "exiting"
        /\ \A j \in Conns : j # i => conn'[j] = conn[j]
    BY <1>1, <1>9, ConnGoes DEF ExitTransport, ConnPc
  <2>2. link' \in LinkType
    BY <1>9, <1>14 DEF ExitTransport, Exit
  <2> QED
    BY <1>1, <1>9, <2>1, <2>2 DEF ExitTransport, attrs, TaskFacts, Opening
<1>10. CASE CloseEnd(i)
  <2>1. /\ conn' \in ConnType /\ conn'[i].pc = "done"
        /\ \A j \in Conns : j # i => conn'[j] = conn[j]
    BY <1>1, <1>10, ConnGoes DEF CloseEnd, ConnPc
  <2> QED
    BY <1>1, <1>10, <2>1 DEF CloseEnd, TaskFacts, Opening
<1> QED
  BY <1>4, <1>5, <1>6, <1>7, <1>8, <1>9, <1>10, <1>11, <1>12, <1>13 DEF Task

LEMMA BreakInv ==
  ASSUME IInv, NEW i \in Conns, Break(i)
  PROVE  IInv'
<1>1. /\ UNCHANGED <<connected, session, cm, owner, lock, conn, user, overlapped, told>>
      /\ link' = [link EXCEPT ![i] = "broken"]
  BY DEF Break, attrs
<1>2. Used' = Used /\ Begun' = Begun
  BY <1>1 DEF Used, Begun
<1>3. ClientTypeOK'
  <2>1. link \in LinkType
    BY DEF IInv, ClientTypeOK, LinkType
  <2>2. link' \in LinkType
    BY <1>1, <2>1 DEF LinkType
  <2> QED
    BY <1>1, <2>2 DEF IInv, ClientTypeOK, LinkType
<1>4. Placed'
  BY <1>1, <1>2 DEF IInv, Placed
<1>5. Locked' /\ Attended' /\ Sole'
  BY <1>1, <1>2 DEF IInv, Locked, Attended, Waits, Opening, Sole, Over
<1> QED
  BY <1>3, <1>4, <1>5 DEF IInv

-----------------------------------------------------------------------------
(* The steps of the callers.                                               *)

\* What a step of caller u does that begins no connection.
UserFacts(u, pc, on) ==
  /\ Set(u, pc, on) /\ SameConns
  /\ UNCHANGED <<session, cm, link, overlapped>> /\ told' \in {told, told \cup {u}}
  /\ owner' \in {owner, 0} /\ lock' \in Calls \cup {None} /\ connected' \in {connected, FALSE}
  /\ pc \in CallPc => u \in Calls
  /\ pc \in OnConn => on \in Used
  /\ u \in Calls /\ user[u].pc \in Past => pc \in Past
  /\ u \in Calls /\ pc \in Holding => lock' = u
  /\ \A v \in Calls : v # u /\ user[v].pc \in Holding => lock' = v
  /\ \A i \in Conns : Opening(i) => \E v \in Calls : Waits(v, i)'
  /\ u \in Calls /\ pc \in Stopping /\ user[u].pc \notin Stopping =>
        ~connected' /\ \A i \in Conns : ~Opening(i)

LEMMA UserStep ==
  ASSUME IInv, NEW u \in Users, NEW pc \in UserPc, NEW on \in Conns \cup {0},
         UserFacts(u, pc, on)
  PROVE  IInv'
<1> USE DEF UserFacts
<1>1. conn \in ConnType /\ user \in UserType
  BY TypeParts DEF IInv
<1>2. /\ user' \in UserType /\ user'[u].pc = pc /\ user'[u].on = on
      /\ \A v \in Users : v # u => user'[v] = user[v]
  BY <1>1, UserMoves
<1>3. Used' = Used
  BY DEF Used, SameConns
<1>4. ClientTypeOK'
  <2>1. user' \in UserType /\ conn' \in ConnType /\ ClientTypeOK
    BY <1>2 DEF IInv, SameConns
  <2>2. /\ connected' \in BOOLEAN /\ {session', cm', owner'} \subseteq Conns \cup {0}
        /\ lock' \in Calls \cup {None} /\ overlapped' \in BOOLEAN /\ told' \subseteq Users
        /\ link' \in [Conns -> {"none", "live", "broken", "closed"}]
    BY <2>1 DEF ClientTypeOK
  <2> QED
    BY <2>1, <2>2 DEF ClientTypeOK, ConnType, ConnPc, UserType, UserPc
<1>5. Placed'
  <2>1. Begun \subseteq Begun'
    BY <1>2 DEF Begun, Users
  <2>2. Used' = 1..Cardinality(Used') /\ Cardinality(Used') <= 1 + Cardinality(Begun')
    BY <1>3, <2>1, SameCount DEF IInv
  <2>3. {owner', session', cm'} \subseteq Used' \cup {0}
    BY <1>3 DEF IInv, Placed
  <2>4. /\ \A v \in Users : user'[v].pc \in CallPc => v \in Calls
        /\ \A v \in Users : user'[v].pc \in OnConn => user'[v].on \in Used'
    BY <1>2, <1>3 DEF IInv, Placed
  <2> QED
    BY <2>2, <2>3, <2>4 DEF Placed
<1>6. Locked'
  BY <1>2 DEF IInv, Locked, Users
<1>7. Attended'
  <2>1. \A i \in Conns : Opening(i)' <=> Opening(i)
    BY DEF Opening, SameConns
  <2>2. \A i \in Conns : conn'[i].pc = "unused" \/ Opening(i)' => conn'[i].ready = "pending"
    BY <2>1 DEF IInv, Attended, SameConns
  <2>3. \A i \in Conns : Opening(i)' => ~connected' /\ \E v \in Calls : Waits(v, i)'
    BY <2>1 DEF IInv, Attended
  <2>4. \A v \in Calls : user'[v].pc \in Stopping =>
           ~connected' /\ \A i \in Conns : ~Opening(i)'
    BY <1>2, <2>1 DEF IInv, Attended, Users
  <2> QED
    BY <2>2, <2>3, <2>4 DEF Attended
<1>8. Sole'
  <2>1. connected' => session' # 0
    BY DEF IInv, Sole
  <2>2. \A i \in Conns : conn'[i].pc = conn[i].pc
    BY DEF SameConns
  <2>3. ASSUME ~overlapped, NEW i \in Used, NEW j \in Used,
               conn'[i].pc # "done", conn'[j].pc # "done"
        PROVE  i = j
    BY <2>2, <2>3 DEF IInv, Sole, Over, Used
  <2>4. ASSUME ~overlapped, NEW i \in Conns,
               conn'[i].pc \in {"initializing", "parked", "closing", "exiting"}
        PROVE  session' = i /\ cm' = i
    BY <2>2, <2>4 DEF IInv, Sole
  <2>5. ~overlapped => \A i \in Conns : conn'[i].pc = "opening" => cm' = i
    BY <2>2 DEF IInv, Sole
  <2> QED
    BY <1>3, <2>1, <2>3, <2>4, <2>5 DEF Sole, Over
<1> QED
  BY <1>4, <1>5, <1>6, <1>7, <1>8 DEF IInv

\* A step that touches neither the owner nor who waits keeps everyone attended.
LEMMA StillAttended ==
  ASSUME IInv, NEW u \in Users, user[u].pc \notin Waiting,
         \A v \in Users : v # u => user'[v] = user[v], owner' = owner
  PROVE  \A i \in Conns : Opening(i) => \E v \in Calls : Waits(v, i)'
<1> SUFFICES ASSUME NEW i \in Conns, Opening(i) PROVE \E v \in Calls : Waits(v, i)'
  OBVIOUS
<1>1. PICK v \in Calls : Waits(v, i)
  BY DEF IInv, Attended
<1>2. v # u /\ v \in Users
  BY <1>1 DEF Waits, Users
<1> QED
  BY <1>1, <1>2 DEF Waits

\* The call that holds the lock is the only one that waits for a connection.
LEMMA OnlyHolder ==
  ASSUME IInv, NEW i \in Conns, Opening(i)
  PROVE  /\ lock \in Calls /\ Waits(lock, i) /\ ~connected
         /\ conn[i].ready = "pending" /\ ~Over(i) /\ i # 0
<1>1. PICK v \in Calls : Waits(v, i)
  BY DEF IInv, Attended
<1>2. lock = v
  BY <1>1 DEF IInv, Locked, Waits, Holding
<1>3. ~connected /\ conn[i].ready = "pending"
  BY DEF IInv, Attended
<1> QED
  BY <1>1, <1>2, <1>3 DEF Opening, Over, Conns

LEMMA UserKinds ==
  ASSUME IInv, NEW u \in Users
  PROVE  /\ conn \in ConnType /\ user \in UserType
         /\ user[u].pc \in UserPc /\ user[u].on \in Conns \cup {0}
         /\ user[u].pc \in CallPc => u \in Calls
         /\ user[u].pc \in OnConn => user[u].on \in Used
         /\ u \in Calls /\ user[u].pc \in Holding => lock = u
         /\ owner \in Used \cup {0} /\ session \in Used \cup {0}
         /\ lock \in Calls \cup {None} /\ connected \in BOOLEAN /\ Used \subseteq Conns
         /\ \A v \in Calls : user[v].pc \in Holding => lock = v
  BY TypeParts DEF IInv, Placed, Locked, UserType, ClientTypeOK, Used

LEMMA NoneIsNoCall == None \notin Calls
  BY ClientAssumption

\* A step of u that ends where it holds nothing and waits for nothing.
LEMMA Leaves ==
  ASSUME IInv, NEW u \in Users, NEW pc \in {"sending", "wantlock", "resending", "probing", "done"},
         NEW on \in Conns \cup {0}, Set(u, pc, on), conn' = conn,
         UNCHANGED <<session, cm, link, overlapped, owner, lock>>, told' \in {told, told \cup {u}},
         connected' \in {connected, FALSE},
         pc \in CallPc => u \in Calls, pc \in OnConn => on \in Used,
         user[u].pc \notin Holding, user[u].pc \in Past => pc \in Past
  PROVE  IInv'
<1>1. UserFacts(u, pc, on)
  <2>1. \A v \in Users : v # u => user'[v] = user[v]
    BY UserMoves, UserKinds DEF UserPc
  <2>2. \A i \in Conns : Opening(i) => \E v \in Calls : Waits(v, i)'
    BY <2>1, StillAttended DEF Holding
  <2>3. SameConns
    BY UserKinds DEF SameConns
  <2> QED
    BY <2>2, <2>3, UserKinds DEF UserFacts, Holding
<1> QED
  BY <1>1, UserStep DEF UserPc

LEMMA PlainCalls ==
  ASSUME IInv, NEW u \in Users,
         CallStart(u) \/ CallReturns(u) \/ CallBreaks(u) \/ ProbeStart(u) \/ ProbeReturns(u)
  PROVE  IInv'
<1>1. CASE CallStart(u)
  <2>1. session \in Used /\ session \in Conns \cup {0} /\ u \in Calls
    BY <1>1, UserKinds DEF CallStart
  <2>2. UNCHANGED <<connected, session, cm, link, overlapped, told, owner, lock, conn>>
    BY <1>1 DEF CallStart, attrs
  <2>3. Set(u, "sending", session) /\ user[u].pc = "idle"
    BY <1>1 DEF CallStart
  <2> QED
    BY <2>1, <2>2, <2>3, Leaves DEF Holding, Past
<1>2. CASE CallReturns(u)
  BY <1>2, Leaves DEF CallReturns, attrs, Holding, Past, CallPc, OnConn
<1>3. CASE CallBreaks(u)
  BY <1>3, Leaves, UserKinds DEF CallBreaks, Holding, Past, CallPc, OnConn
<1>4. CASE ProbeStart(u)
  BY <1>4, Leaves DEF ProbeStart, attrs, Holding, Past, CallPc, OnConn
<1>5. CASE ProbeReturns(u)
  BY <1>5, Leaves DEF ProbeReturns, Holding, Past, CallPc, OnConn
<1> QED
  BY <1>1, <1>2, <1>3, <1>4, <1>5

LEMMA StopMoves ==
  ASSUME IInv, NEW u \in Users, StopOwner(u)
  PROVE  /\ owner' = 0 /\ SameConns
         /\ \/ Set(u, AfterStop(u), 0)
            \/ owner \in Used /\ Set(u, "join", owner)
<1>1. conn \in ConnType /\ owner \in Used \cup {0} /\ Used \subseteq Conns
  BY UserKinds
<1>2. CASE owner = 0 \/ Over(owner)
  BY <1>1, <1>2 DEF StopOwner, SameConns
<1>3. CASE ~(owner = 0 \/ Over(owner))
  <2>1. owner \in Used /\ owner \in Conns
    BY <1>1, <1>3
  <2>2. conn' = [conn EXCEPT ![owner].signal = TRUE] /\ Set(u, "join", owner) /\ owner' = 0
    BY <1>3 DEF StopOwner
  <2> QED
    BY <1>1, <2>1, <2>2, ConnTold
<1> QED
  BY <1>2, <1>3

LEMMA LockReconnectInv ==
  ASSUME IInv, NEW u \in Users, LockReconnect(u)
  PROVE  IInv'
<1>1. u \in Calls /\ user[u].pc = "wantlock" /\ lock = None
  BY UserKinds DEF LockReconnect, CallPc
<1>2. \A i \in Conns : ~Opening(i)
  BY <1>1, OnlyHolder, NoneIsNoCall
<1>3. CASE connected
  <2>1. /\ Resend(u) /\ UNCHANGED <<connected, session, cm, link, overlapped, told, owner, lock, conn>>
    BY <1>3 DEF LockReconnect, attrs
  <2>2. CASE session # 0
    <3>1. session \in Used /\ session \in Conns \cup {0} /\ Set(u, "resending", session)
      BY <2>1, <2>2, UserKinds DEF Resend
    <3> QED
      BY <1>1, <2>1, <3>1, Leaves DEF Holding, Past
  <2>3. CASE session = 0
    <3>1. Set(u, "done", 0)
      BY <2>1, <2>3 DEF Resend
    <3> QED
      BY <1>1, <2>1, <3>1, Leaves DEF Holding, Past, CallPc, OnConn
  <2> QED
    BY <2>2, <2>3
<1>4. CASE ~connected
  <2>1. /\ StopOwner(u) /\ lock' = u /\ UNCHANGED <<connected, session, cm, link, overlapped, told>>
    BY <1>4 DEF LockReconnect, attrs
  <2>2. owner' = 0 /\ SameConns
    BY <2>1, StopMoves
  <2>3. \A v \in Calls : user[v].pc \notin Holding
    BY <1>1, UserKinds, NoneIsNoCall
  <2>4. CASE Set(u, AfterStop(u), 0)
    <3>1. UserFacts(u, "connect", 0)
      BY <1>1, <1>2, <1>4, <2>1, <2>2, <2>3, <2>4 DEF UserFacts, AfterStop, OnConn, Past
    <3> QED
      BY <3>1, UserStep DEF UserPc
  <2>5. CASE owner \in Used /\ Set(u, "join", owner)
    <3>1. UserFacts(u, "join", owner)
      BY <1>1, <1>2, <1>4, <2>1, <2>2, <2>3, <2>5 DEF UserFacts, CallPc, Past
    <3>2. owner \in Conns
      BY <2>5, UserKinds
    <3> QED
      BY <3>1, <3>2, UserStep DEF UserPc
  <2> QED
    BY <2>1, <2>4, <2>5, StopMoves
<1> QED
  BY <1>3, <1>4

LEMMA DisconnectInv ==
  ASSUME IInv, NEW u \in Users, Disconnect(u)
  PROVE  IInv'
<1>1. /\ u \notin Calls /\ user[u].pc = "idle" /\ connected /\ StopOwner(u)
      /\ UNCHANGED <<connected, session, cm, lock, link, overlapped, told>>
  BY ClientAssumption DEF Disconnect, attrs
<1>2. \A i \in Conns : ~Opening(i)
  BY <1>1, OnlyHolder
<1>3. owner' = 0 /\ SameConns
  BY <1>1, StopMoves
<1>4. CASE Set(u, AfterStop(u), 0)
  <2>1. UserFacts(u, "done", 0)
    BY <1>1, <1>2, <1>3, <1>4, UserKinds DEF UserFacts, AfterStop, OnConn, CallPc
  <2> QED
    BY <2>1, UserStep DEF UserPc
<1>5. CASE owner \in Used /\ Set(u, "join", owner)
  <2>1. UserFacts(u, "join", owner)
    BY <1>1, <1>2, <1>3, <1>5, UserKinds DEF UserFacts, OnConn, CallPc
  <2>2. owner \in Conns
    BY <1>5, UserKinds
  <2> QED
    BY <2>1, <2>2, UserStep DEF UserPc
<1> QED
  BY <1>1, <1>4, <1>5, StopMoves

LEMMA JoinedInv ==
  ASSUME IInv, NEW u \in Users, Joined(u)
  PROVE  IInv'
<1>1. /\ user[u].pc \in {"join", "await"} /\ Set(u, AfterStop(u), 0) /\ conn' = conn
      /\ UNCHANGED <<connected, session, cm, owner, lock, link, overlapped, told>>
  BY DEF Joined, attrs
<1>2. AfterStop(u) \in UserPc /\ AfterStop(u) \notin OnConn
  BY DEF AfterStop, UserPc, OnConn
<1>3. \A v \in Users : v # u => user'[v] = user[v]
  BY <1>1, <1>2, UserMoves, UserKinds
<1>4. \A i \in Conns : Opening(i) => \E v \in Calls : Waits(v, i)'
  BY <1>1, <1>3, StillAttended
<1>5. UserFacts(u, AfterStop(u), 0)
  BY <1>1, <1>2, <1>4, UserKinds DEF UserFacts, AfterStop, SameConns, Holding, CallPc, Past
<1> QED
  BY <1>2, <1>5, UserStep

LEMMA JoinTimesOutInv ==
  ASSUME IInv, NEW u \in Users, JoinTimesOut(u)
  PROVE  IInv'
<1>0. PICK on : on = user[u].on
  OBVIOUS
<1>1. PICK pc : pc = IF user[u].pc = "join" THEN "await" ELSE "abandon"
  OBVIOUS
<1>2. /\ user[u].pc \in {"join", "abort"} /\ Set(u, pc, on)
      /\ conn' = [conn EXCEPT ![on].cancel = TRUE]
      /\ UNCHANGED <<connected, session, cm, owner, lock, link, overlapped, told>>
  BY <1>0, <1>1 DEF JoinTimesOut, attrs
<1>3. on \in Used /\ on \in Conns /\ pc \in UserPc
  BY <1>0, <1>1, <1>2, UserKinds DEF OnConn, UserPc
<1>4. SameConns
  BY <1>2, <1>3, ConnTold, UserKinds
<1>5. /\ user'[u].pc = pc /\ user'[u].on = on
      /\ \A v \in Users : v # u => user'[v] = user[v]
  BY <1>2, <1>3, UserMoves, UserKinds
<1>6. ASSUME NEW i \in Conns, Opening(i) PROVE \E v \in Calls : Waits(v, i)'
  <2>1. PICK v \in Calls : Waits(v, i)
    BY <1>6 DEF IInv, Attended
  <2>2. v \in Users
    BY DEF Users
  <2>3. CASE v = u
    <3>1. pc = "abandon" /\ on = i
      BY <1>0, <1>1, <1>2, <2>1, <2>3 DEF Waits, Waiting
    <3>2. Waits(v, i)'
      BY <1>5, <2>3, <3>1 DEF Waits, Waiting
    <3> QED
      BY <3>2
  <2>4. CASE v # u
    <3>1. Waits(v, i)'
      BY <1>2, <1>5, <2>1, <2>2, <2>4 DEF Waits
    <3> QED
      BY <3>1
  <2> QED
    BY <2>3, <2>4
<1>7. UserFacts(u, pc, on)
  BY <1>1, <1>2, <1>3, <1>4, <1>6, UserKinds
     DEF UserFacts, Holding, CallPc, OnConn, Past
<1> QED
  BY <1>3, <1>7, UserStep

LEMMA ConnectEnds ==
  ASSUME IInv, NEW u \in Users, ConnectReturns(u) \/ ConnectFails(u)
  PROVE  IInv'
<1>1. /\ u \in Calls /\ user[u].pc = "ready" /\ lock = u /\ lock' = None
      /\ conn[user[u].on].ready # "pending"
      /\ UNCHANGED <<connected, session, cm, conn, link, overlapped, told>> /\ owner' \in {owner, 0}
  BY UserKinds DEF ConnectReturns, ConnectFails, attrs, CallPc, Holding
<1>2. \A i \in Conns : ~Opening(i)
  BY <1>1, OnlyHolder DEF Waits
<1>3. \A v \in Calls : v # u => user[v].pc \notin Holding
  BY <1>1, UserKinds
<1>4. SameConns
  BY <1>1, UserKinds DEF SameConns
<1>5. \/ Set(u, "done", 0)
      \/ session \in Used /\ Set(u, "resending", session)
  BY UserKinds DEF ConnectReturns, ConnectFails, Resend
<1>6. CASE Set(u, "done", 0)
  <2>1. UserFacts(u, "done", 0)
    BY <1>1, <1>2, <1>3, <1>4, <1>6 DEF UserFacts, OnConn, CallPc, Past, Holding
  <2> QED
    BY <2>1, UserStep DEF UserPc
<1>7. CASE session \in Used /\ Set(u, "resending", session)
  <2>1. UserFacts(u, "resending", session)
    BY <1>1, <1>2, <1>3, <1>4, <1>7 DEF UserFacts, CallPc, Past, Holding
  <2>2. session \in Conns
    BY <1>7, UserKinds
  <2> QED
    BY <2>1, <2>2, UserStep DEF UserPc
<1> QED
  BY <1>5, <1>6, <1>7

\* A caller gives up the lock, if it has it, and nobody is opening a connection for it.
LEMMA GivesUp ==
  ASSUME IInv, NEW u \in Users, user[u].pc \in Waiting \cup {"join"},
         \A i \in Conns : Opening(i) => lock # u,
         Release(u), Set(u, "done", 0), SameConns,
         UNCHANGED <<connected, session, cm, owner, link, overlapped>>, told' \in {told, told \cup {u}}
  PROVE  IInv'
<1>1. \A v \in Users : v # u => user'[v] = user[v]
  BY UserMoves, UserKinds DEF UserPc
<1>2. lock' \in Calls \cup {None} /\ \A v \in Calls : v # u /\ user[v].pc \in Holding => lock' = v
  BY UserKinds DEF Release
<1>3. ASSUME NEW i \in Conns, Opening(i) PROVE \E v \in Calls : Waits(v, i)'
  <2>1. lock \in Calls /\ Waits(lock, i) /\ lock # u /\ lock \in Users
    BY <1>3, OnlyHolder DEF Users
  <2>2. Waits(lock, i)'
    <3>1. PICK v \in Calls : v = lock
      BY <2>1
    <3>2. user'[v] = user[v] /\ owner' = owner
      BY <1>1, <2>1, <3>1
    <3>3. lock' = lock
      BY <2>1 DEF Release
    <3> QED
      BY <2>1, <3>1, <3>2, <3>3 DEF Waits
  <2> QED
    BY <2>1, <2>2, UserKinds DEF Release
<1>4. UserFacts(u, "done", 0)
  BY <1>2, <1>3 DEF UserFacts, OnConn, CallPc, Past, Holding
<1> QED
  BY <1>4, UserStep DEF UserPc

LEMMA CancelInv ==
  ASSUME IInv, NEW u \in Users, Cancel(u)
  PROVE  IInv'
<1>0. told' \in {told, told \cup {u}}
  BY DEF Cancel
<1>1. CASE user[u].pc \in {"sending", "resending", "wantlock"}
  BY <1>0, <1>1, Leaves DEF Cancel, attrs, Holding, Past, CallPc, OnConn
<1>5. CASE user[u].pc = "await"
  <2>1. /\ conn' = [conn EXCEPT ![user[u].on].cancel = TRUE] /\ user' = user
        /\ UNCHANGED <<connected, session, cm, owner, lock, link, overlapped>>
    BY <1>5 DEF Cancel, attrs
  <2>2. SameConns
    BY <1>5, <2>1, ConnTold, UserKinds DEF OnConn
  <2>3. Set(u, "await", user[u].on) /\ user[u].on \in Used /\ user[u].on \in Conns
    BY <1>5, <2>1, UserKinds DEF Set, UserType, OnConn
  <2>4. \A i \in Conns : Opening(i) => \E v \in Calls : Waits(v, i)'
    BY <2>1 DEF IInv, Attended, Waits
  <2>5. UserFacts(u, "await", user[u].on)
    BY <1>0, <1>5, <2>1, <2>2, <2>3, <2>4, UserKinds
       DEF UserFacts, Holding, CallPc, Past
  <2> QED
    BY <2>3, <2>5, UserStep DEF UserPc
<1>2. CASE user[u].pc = "join"
  <2>1. /\ conn' = [conn EXCEPT ![user[u].on].cancel = TRUE] /\ Release(u) /\ Set(u, "done", 0)
        /\ UNCHANGED <<connected, session, cm, owner, link, overlapped>>
    BY <1>2 DEF Cancel, attrs
  <2>2. SameConns
    BY <1>2, <2>1, ConnTold, UserKinds DEF OnConn
  <2>3. \A i \in Conns : Opening(i) => lock # u
    BY <1>2, OnlyHolder DEF Waits
  <2> QED
    BY <1>0, <1>2, <2>1, <2>2, <2>3, GivesUp
<1>3. CASE user[u].pc = "ready" /\ owner # 0
  <2>1. /\ owner' = 0 /\ conn' = [conn EXCEPT ![owner].signal = TRUE]
        /\ Set(u, "abort", user[u].on)
        /\ UNCHANGED <<connected, session, cm, lock, link, overlapped>>
    BY <1>3 DEF Cancel, attrs
  <2>2. /\ SameConns /\ u \in Calls /\ user[u].on \in Used /\ user[u].on \in Conns /\ lock = u
    BY <1>3, <2>1, ConnTold, UserKinds DEF OnConn, CallPc, Holding
  <2>3. user'[u].pc = "abort" /\ user'[u].on = user[u].on
    BY <2>1, UserMoves, UserKinds DEF UserPc
  <2>4. \A i \in Conns : Opening(i) => \E v \in Calls : Waits(v, i)'
    BY <2>2, <2>3, OnlyHolder DEF Waits
  <2>5. UserFacts(u, "abort", user[u].on)
    BY <1>0, <2>1, <2>2, <2>4, UserKinds DEF UserFacts, Past
  <2> QED
    BY <2>2, <2>5, UserStep DEF UserPc
<1>4. CASE user[u].pc = "ready" /\ owner = 0
  <2>1. /\ Release(u) /\ Set(u, "done", 0) /\ conn' = conn
        /\ UNCHANGED <<connected, session, cm, owner, link, overlapped>>
    BY <1>4 DEF Cancel, attrs
  <2>2. SameConns
    BY <2>1, UserKinds DEF SameConns
  <2>3. \A i \in Conns : Opening(i) => lock # u
    BY <1>4, OnlyHolder DEF Waits
  <2> QED
    BY <1>0, <1>4, <2>1, <2>2, <2>3, GivesUp
<1> QED
  BY <1>1, <1>2, <1>3, <1>4, <1>5 DEF Cancel

LEMMA AbortedInv ==
  ASSUME IInv, NEW u \in Users, Aborted(u)
  PROVE  IInv'
<1>1. /\ user[u].pc \in {"abort", "abandon"} /\ Over(user[u].on) /\ Release(u) /\ Set(u, "done", 0)
      /\ conn' = conn /\ UNCHANGED <<connected, session, cm, owner, link, overlapped, told>>
  BY DEF Aborted, attrs
<1>2. SameConns
  BY <1>1, UserKinds DEF SameConns
<1>3. \A i \in Conns : Opening(i) => lock # u
  BY <1>1, OnlyHolder DEF Waits
<1> QED
  BY <1>1, <1>2, <1>3, GivesUp

(***************************************************************************)
(* A connection is begun by the call that holds the lock, and the next     *)
(* number is free: a call that has begun none yet leaves one.              *)
(***************************************************************************)
LEMMA NextNumber ==
  ASSUME IInv, NEW u \in Calls, u \notin Begun
  PROVE  /\ Cardinality(Used) + 1 \in Conns \ Used
         /\ Cardinality(Begun \cup {u}) = Cardinality(Begun) + 1
<1>1. Cardinality(Begun \cup {u}) = Cardinality(Begun) + 1
  BY Counting, FS_AddElement
<1>2. Begun \cup {u} \subseteq Calls
  BY DEF Begun
<1>3. Cardinality(Begun) + 1 <= Cardinality(Calls)
  BY <1>1, <1>2, Counting, FS_Subset
<1>4. Used = 1..Cardinality(Used) /\ Cardinality(Used) <= 1 + Cardinality(Begun)
  BY DEF IInv, Placed
<1> QED
  BY <1>1, <1>3, <1>4, Counting DEF Conns

LEMMA ConnectInv ==
  ASSUME IInv, NEW u \in Users, Connect(u)
  PROVE  IInv'
<1>0. PICK i : i = Cardinality(Used) + 1
  OBVIOUS
<1>1. /\ user[u].pc = "connect" /\ conn' = [conn EXCEPT ![i].pc = "starting"] /\ owner' = i
      /\ overlapped' = (overlapped \/ \E j \in Used : ~Over(j)) /\ Set(u, "ready", i)
      /\ UNCHANGED <<connected, session, cm, lock, link, told>>
  BY <1>0 DEF Connect, attrs
<1>2. u \in Calls /\ lock = u /\ u \notin Begun
  BY <1>1, UserKinds DEF CallPc, Holding, Begun, Past
<1>3. /\ i \in Conns /\ i \notin Used /\ Used = 1..Cardinality(Used)
      /\ Cardinality(Begun \cup {u}) = Cardinality(Begun) + 1
      /\ Cardinality(Used) <= 1 + Cardinality(Begun)
  BY <1>0, <1>2, NextNumber DEF IInv, Placed
<1>4. ~connected /\ \A j \in Conns : ~Opening(j)
  BY <1>1, <1>2 DEF IInv, Attended
<1>5. /\ conn' \in ConnType /\ conn'[i].pc = "starting" /\ conn'[i].ready = "pending"
      /\ \A j \in Conns : j # i => conn'[j] = conn[j]
  <2>1. conn[i].ready = "pending"
    BY <1>3 DEF IInv, Attended, Used
  <2> QED
    BY <1>1, <1>3, <2>1, ConnGoes, UserKinds DEF ConnPc
<1>6. /\ user' \in UserType /\ user'[u].pc = "ready" /\ user'[u].on = i
      /\ \A v \in Users : v # u => user'[v] = user[v]
  BY <1>1, <1>3, UserMoves, UserKinds DEF UserPc
<1>7. Used' = Used \cup {i}
  BY <1>3, <1>5 DEF Used
<1>8. Begun' = Begun \cup {u}
  BY <1>2, <1>6 DEF Begun, Past, Users
<1>9. Cardinality(Used') = i
  BY <1>0, <1>3, <1>7, Counting, FS_AddElement
<1>10. ClientTypeOK'
  <2>1. ClientTypeOK
    BY DEF IInv
  <2>2. /\ connected' \in BOOLEAN /\ {session', cm', owner'} \subseteq Conns \cup {0}
        /\ lock' \in Calls \cup {None} /\ overlapped' \in BOOLEAN /\ told' \subseteq Users
        /\ link' \in [Conns -> {"none", "live", "broken", "closed"}]
    BY <1>1, <1>3, <2>1 DEF ClientTypeOK
  <2> QED
    BY <1>5, <1>6, <2>2 DEF ClientTypeOK, ConnType, ConnPc, UserType, UserPc
<1>11. Placed'
  <2>1. /\ \A v \in Users : user'[v].pc \in CallPc => v \in Calls
        /\ \A v \in Users : user'[v].pc \in OnConn => user'[v].on \in Used'
    BY <1>2, <1>6, <1>7 DEF IInv, Placed
  <2>2. {owner', session', cm'} \subseteq Used' \cup {0}
    BY <1>1, <1>7 DEF IInv, Placed
  <2>3. Used' = 1..Cardinality(Used')
    BY <1>0, <1>3, <1>7, <1>9, Counting
  <2>4. Cardinality(Used') <= 1 + Cardinality(Begun')
    BY <1>0, <1>3, <1>8, <1>9, Counting
  <2> QED
    BY <2>1, <2>2, <2>3, <2>4 DEF Placed
<1>12. Locked'
  BY <1>1, <1>2, <1>6 DEF IInv, Locked, Users
<1>13. Attended'
  <2>1. \A j \in Conns : conn'[j].pc = "unused" \/ Opening(j)' => conn'[j].ready = "pending"
    BY <1>5 DEF IInv, Attended, Opening
  <2>2. \A j \in Conns : Opening(j)' => j = i
    BY <1>4, <1>5 DEF Opening
  <2>3. Waits(u, i)'
    BY <1>1, <1>6 DEF Waits
  <2>4. \A v \in Calls : v # u => user'[v].pc \notin Stopping
    BY <1>2, <1>6, UserKinds DEF Holding, Users
  <2> QED
    BY <1>1, <1>2, <1>4, <1>6, <2>1, <2>2, <2>3, <2>4 DEF Attended
<1>14. Sole'
  <2>1. connected' => session' # 0
    BY <1>1 DEF IInv, Sole
  <2>2. ASSUME ~overlapped' PROVE \A j \in Used : Over(j) /\ Over(j)'
    BY <1>1, <1>3, <1>5, <2>2 DEF Over, Used
  <2>3. ASSUME ~overlapped', NEW j \in Conns,
               conn'[j].pc \in {"opening", "initializing", "parked", "closing", "exiting"}
        PROVE  FALSE
    BY <1>5, <2>2, <2>3 DEF Over, Used
  <2> QED
    BY <1>7, <2>1, <2>2, <2>3 DEF Sole
<1> QED
  BY <1>10, <1>11, <1>12, <1>13, <1>14 DEF IInv

-----------------------------------------------------------------------------
LEMMA IInvInit == Init => IInv
<1> SUFFICES ASSUME Init PROVE IInv
  OBVIOUS
<1>1. 1 \in Conns /\ 0 \notin Conns
  BY Counting DEF Conns
<1>2. /\ \A i \in Conns : i # 1 => conn[i].pc = "unused" /\ conn[i].ready = "pending"
      /\ conn[1].pc = "parked" /\ \A u \in Users : user[u] = [pc |-> "idle", on |-> 0]
  BY <1>1 DEF Init
<1>3. Used = {1} /\ Begun = {}
  BY <1>1, <1>2 DEF Used, Begun, Past, Users
<1>4. Cardinality(Used) = 1 /\ Cardinality(Begun) = 0 /\ 1..1 = {1}
  BY <1>3, FS_Singleton, FS_EmptySet
<1>5. ClientTypeOK
  BY <1>1 DEF Init, ClientTypeOK
<1>6. Placed
  BY <1>2, <1>3, <1>4 DEF Placed, Init, CallPc, OnConn
<1>7. Locked /\ Attended
  BY <1>1, <1>2 DEF Locked, Attended, Holding, Opening, Users
<1>8. Sole
  BY <1>1, <1>2, <1>3 DEF Sole, Init
<1> QED
  BY <1>5, <1>6, <1>7, <1>8 DEF IInv

LEMMA IInvStep == IInv /\ [Next]_vars => IInv'
<1> SUFFICES ASSUME IInv, [Next]_vars PROVE IInv'
  OBVIOUS
<1>1. CASE UNCHANGED vars
  BY <1>1 DEF vars, IInv, ClientTypeOK, Placed, Locked, Attended, Sole,
              Opening, Waits, Begun, Used, Over
<1>2. ASSUME NEW i \in Conns, Task(i) \/ Break(i) PROVE IInv'
  BY <1>2, TaskInv, BreakInv
<1>3. ASSUME NEW u \in Users,
             \/ CallStart(u) \/ ProbeStart(u) \/ Disconnect(u)
             \/ Answer(u) \/ Progress(u) \/ JoinTimesOut(u) \/ Cancel(u)
      PROVE  IInv'
  BY <1>3, PlainCalls, DisconnectInv, LockReconnectInv, JoinedInv, JoinTimesOutInv,
     ConnectInv, ConnectEnds, CancelInv, AbortedInv DEF Progress, Answer
<1> QED
  BY <1>1, <1>2, <1>3 DEF Next

LEMMA IInvHolds == Spec => []IInv
  BY IInvInit, IInvStep, PTL DEF Spec

-----------------------------------------------------------------------------
(* Every variable of the client, its owner tasks and its callers keeps its *)
(* type; in particular connect always finds a number no connection has.    *)
THEOREM ClientTypeCorrect == Spec => []ClientTypeOK
<1>1. IInv => ClientTypeOK
  BY DEF IInv
<1> QED
  BY <1>1, IInvHolds, PTL

(* However many calls find the transport broken at once, and whatever is   *)
(* cancelled, probed or disconnected beside them, _attempt_reconnect never *)
(* has two connections being opened.                                       *)
THEOREM OneOpeningCorrect == Spec => []OneOpening
<1>1. ASSUME IInv PROVE OneOpening
  <2> DEFINE S == {i \in Conns : conn[i].pc \in {"starting", "opening", "initializing"}}
  <2>1. \A i \in S : user[lock].on = i
    BY <1>1, OnlyHolder DEF Opening, Waits
  <2>2. S \subseteq {user[lock].on}
    BY <2>1
  <2>3. Cardinality({user[lock].on}) = 1 /\ IsFiniteSet({user[lock].on})
    BY FS_Singleton
  <2>4. Cardinality(S) <= 1
    BY <2>2, <2>3, FS_Subset
  <2> QED
    BY <2>4 DEF OneOpening
<1> QED
  BY <1>1, IInvHolds, PTL

(* As long as no connect began before an earlier owner task was done, the  *)
(* client's _session and _cm belong to the owner that is open or closing,  *)
(* whoever connects, disconnects, probes or is cancelled.                  *)
THEOREM NamesOpenCorrect == Spec => []NamesOpenConnection
<1>1. IInv => NamesOpenConnection
  BY DEF IInv, Sole, NamesOpenConnection
<1> QED
  BY <1>1, IInvHolds, PTL
=============================================================================
