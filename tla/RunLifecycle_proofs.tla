------------------------ MODULE RunLifecycle_proofs ------------------------
(***************************************************************************)
(* Proofs about a run: its row in the database (RunLifecycle), for any     *)
(* number of executions and sweeps, and the plain loop that executes it    *)
(* (RuntimeStory), for any number of iterations and pauses, any place a    *)
(* run starts at, and with or without a resource-limit checker.  The two   *)
(* state machines share no variable; each theorem is about one of them.    *)
(***************************************************************************)
EXTENDS RunLifecycle, RuntimeStory, TLAPS

-----------------------------------------------------------------------------
(* Lemmas                                                                  *)

(* The merge of two sessions' columns is a row.                            *)
LEMMA MergeType ==
  ASSUME NEW cur \in Rows, NEW base \in Rows, NEW obj \in Rows
  PROVE  /\ Merge(cur, base, obj) \in Rows
         /\ Merge(cur, base, obj).status =
              IF obj.status # base.status THEN obj.status ELSE cur.status
         /\ Merge(cur, base, obj).completed_at =
              IF obj.completed_at # base.completed_at THEN obj.completed_at ELSE cur.completed_at
         /\ Merge(cur, base, obj).config_snapshot =
              IF obj.config_snapshot # base.config_snapshot THEN obj.config_snapshot
                                                            ELSE cur.config_snapshot
  BY SMT DEF Merge, Rows

LEMMA OutcomeType ==
  ASSUME RunTypeOK, NEW e \in Executors, ex[e].pc = "finalize", ex[e].result \in Results
  PROVE  /\ Outcome(e) \in Rows
         /\ Outcome(e).status = ex[e].result.status
         /\ Outcome(e).config_snapshot = ex[e].obj.config_snapshot
         /\ Outcome(e).completed_at = IF ex[e].result.status = "paused"
                                      THEN ex[e].obj.completed_at ELSE e
<1> DEFINE r == ex[e].result
           o == [ex[e].obj EXCEPT !.status = r.status, !.output = e,
                                  !.error = IF r.error THEN e ELSE None]
<1>1. r.status \in {"completed", "failed", "cancelled", "paused"}
  BY DEF Results
<1>2. ex[e].obj \in Rows
  BY DEF RunTypeOK, ExState
<1>3. /\ o \in Rows
      /\ o.status = r.status
      /\ o.config_snapshot = ex[e].obj.config_snapshot
      /\ o.completed_at = ex[e].obj.completed_at
  BY <1>1, <1>2 DEF Rows, Callers, Status
<1>4. Outcome(e) = IF r.status = "paused" THEN [o EXCEPT !.state_snapshot = e]
                   ELSE [o EXCEPT !.completed_at = e, !.state_snapshot = None]
  BY DEF Outcome
<1> HIDE DEF r, o
<1> QED
  BY <1>1, <1>3, <1>4 DEF Rows, Callers, r

-----------------------------------------------------------------------------
(* Type correctness.  A call has a result before it writes an outcome.     *)

Typed ==
  /\ RunTypeOK
  /\ \A e \in Executors : ex[e].pc = "finalize" => ex[e].result \in Results

LEMMA TypeInit == Init => Typed
<1> SUFFICES ASSUME Init PROVE Typed
  OBVIOUS
<1>1. stale \in BOOLEAN /\ revived \in BOOLEAN /\ crowded \in BOOLEAN
  BY DEF Init
<1>2. /\ agentCfg \in Configs /\ row \in Rows /\ steps \subseteq StepRows
      /\ ex \in [Executors -> ExState] /\ sw \in [Sweepers -> SwState]
  BY RunAssumption DEF Init, Configs, Rows, AbsentRow, Status, Callers, ExState, SwState, NoResult
<1>3. \A e \in Executors : ex[e].pc = "idle"
  BY DEF Init
<1> QED
  BY <1>1, <1>2, <1>3 DEF Typed, RunTypeOK

LEMMA BlankRow ==
  AbsentRow \in Rows /\ AbsentRow.status = "absent" /\ AbsentRow.completed_at = None
  BY DEF AbsentRow, Rows, Status

(* The session of an execution that ends is closed.                        *)
LEMMA EndedType ==
  ASSUME Typed, NEW e \in Executors, NEW how \in {"done", "dead"},
         ex' = [ex EXCEPT ![e] = Ended(e, how)]
  PROVE  /\ ex' \in [Executors -> ExState]
         /\ \A o \in Executors : ex'[o].pc = "finalize" => ex'[o].result \in Results
         /\ ex'[e].pc = how /\ ex'[e].base = AbsentRow /\ ex'[e].seq = ex[e].seq
         /\ \A o \in Executors \ {e} : ex'[o] = ex[o]
<1>1. ex \in [Executors -> ExState] /\ ex[e] \in ExState
  BY DEF Typed, RunTypeOK
<1>2. /\ Ended(e, how) \in ExState
      /\ Ended(e, how).pc = how /\ Ended(e, how).base = AbsentRow
      /\ Ended(e, how).seq = ex[e].seq
  BY <1>1, BlankRow DEF Ended, ExState
<1> QED
  BY <1>1, <1>2 DEF Typed

LEMMA TypeStep == Typed /\ [Next]_vars => Typed'
<1> SUFFICES ASSUME Typed, [Next]_vars PROVE Typed'
  OBVIOUS
<1> USE RunAssumption DEF Typed, RunTypeOK, history
<1>1. CASE UpdateAgent
  BY <1>1 DEF UpdateAgent, Configs
<1>2. CASE CreateRun
  <2>1. AbsentRow \in Rows
    BY DEF AbsentRow, Rows, Status
  <2>2. PICK pinned \in {None, agentCfg} :
          row' = [AbsentRow EXCEPT !.status = "pending", !.config_snapshot = pinned]
    BY <1>2 DEF CreateRun
  <2>3. row' \in Rows
    BY <2>1, <2>2 DEF Rows, Status
  <2> QED
    BY <1>2, <2>3 DEF CreateRun
<1>3. ASSUME NEW e \in Executors, Load(e) PROVE Typed'
  <2> DEFINE pin == IF row.config_snapshot = None THEN agentCfg ELSE row.config_snapshot
             obj == [row EXCEPT !.config_snapshot = pin]
  <2>1. obj \in Rows
    BY DEF Rows
  <2>2. ex' = [ex EXCEPT ![e] = [@ EXCEPT !.pc = "loop", !.base = row, !.obj = obj]]
    BY <1>3 DEF Load
  <2>3. /\ UNCHANGED <<agentCfg, row, steps, sw, stale>>
        /\ revived' \in BOOLEAN /\ crowded' \in BOOLEAN
    BY <1>3, Zenon DEF Load
  <2> HIDE DEF obj
  <2>4. /\ ex' \in [Executors -> ExState]
        /\ \A o \in Executors : ex'[o].pc = "finalize" => ex'[o].result \in Results
    BY <2>1, <2>2 DEF ExState
  <2> QED
    BY <2>3, <2>4
<1>4. ASSUME NEW e \in Executors, Heartbeat(e) PROVE Typed'
  BY <1>4, MergeType DEF Heartbeat, Flush, ExState
<1>5. ASSUME NEW e \in Executors, CommitStep(e) PROVE Typed'
  BY <1>5, MergeType DEF CommitStep, Flush, ExState, StepRows
<1>6. ASSUME NEW e \in Executors, LoopReturns(e) PROVE Typed'
  <2>1. PICK r \in Results : ex' = [ex EXCEPT ![e].pc = "finalize", ![e].result = r]
    BY <1>6 DEF LoopReturns
  <2> DEFINE new == [ex[e] EXCEPT !.pc = "finalize", !.result = r]
  <2>2. new \in ExState /\ new.result = r
    BY DEF ExState
  <2>3. ex' = [ex EXCEPT ![e] = new]
    BY <2>1
  <2> HIDE DEF new
  <2>4. /\ ex' \in [Executors -> ExState]
        /\ \A o \in Executors : ex'[o].pc = "finalize" => ex'[o].result \in Results
    BY <2>2, <2>3
  <2> QED
    BY <1>6, <2>4 DEF LoopReturns
<1>7. ASSUME NEW e \in Executors, CommitOutcome(e) PROVE Typed'
  <2>1. ex[e].base \in Rows /\ Outcome(e) \in Rows
    BY <1>7, OutcomeType DEF CommitOutcome, ExState
  <2>2. row' \in Rows
    BY <1>7, <2>1, MergeType DEF CommitOutcome, Flush
  <2>3. /\ ex' \in [Executors -> ExState]
        /\ \A o \in Executors : ex'[o].pc = "finalize" => ex'[o].result \in Results
    BY <1>7, EndedType DEF CommitOutcome
  <2>4. stale' \in BOOLEAN /\ UNCHANGED <<agentCfg, steps, sw, revived, crowded>>
    BY <1>7, Zenon DEF CommitOutcome
  <2> QED
    BY <2>2, <2>3, <2>4
<1>8. ASSUME NEW e \in Executors, Die(e) PROVE Typed'
  BY <1>8, EndedType DEF Die
<1>9. ASSUME NEW s \in Sweepers, SweepRead(s) PROVE Typed'
  <2>1. Swept \in SwState /\ [pc |-> "read", base |-> row] \in SwState
    BY BlankRow DEF Swept, SwState
  <2>2. sw' \in [Sweepers -> SwState]
    BY <1>9, <2>1, Zenon DEF SweepRead
  <2> QED
    BY <1>9, <2>2 DEF SweepRead
<1>10. ASSUME NEW s \in Sweepers, SweepWrite(s) PROVE Typed'
  <2> DEFINE failed == [sw[s].base EXCEPT !.status = "failed", !.error = s,
                                          !.completed_at = s, !.state_snapshot = None]
  <2>1. sw[s].base \in Rows /\ failed \in Rows
    BY DEF SwState, Rows, Status, Callers
  <2>2. row' = Merge(row, sw[s].base, failed)
    BY <1>10 DEF SweepWrite
  <2> HIDE DEF failed
  <2>3. row' \in Rows
    BY <2>1, <2>2, MergeType
  <2>4. sw' \in [Sweepers -> SwState]
    BY <1>10, BlankRow DEF SweepWrite, SwState, Swept
  <2>5. stale' \in BOOLEAN
    BY <1>10, Zenon DEF SweepWrite
  <2> QED
    BY <1>10, <2>3, <2>4, <2>5 DEF SweepWrite
<1>11. CASE UNCHANGED vars
  BY <1>11 DEF vars
<1> QED
  BY <1>1, <1>2, <1>3, <1>4, <1>5, <1>6, <1>7, <1>8, <1>9, <1>10, <1>11 DEF Next

LEMMA TypeInvariant == Spec => []Typed
  BY TypeInit, TypeStep, PTL DEF Spec

(* Every row, session and call has a value of its type in every state,     *)
(* however many executions and sweeps race.                                *)
THEOREM TypeCorrect == Spec => []RunTypeOK
<1>1. Typed => RunTypeOK
  BY DEF Typed
<1> QED
  BY TypeInvariant, <1>1, PTL

-----------------------------------------------------------------------------
(* A row that is over has a completion time.                               *)
(*                                                                         *)
(* The property is not inductive: a merge takes the status and the time    *)
(* from two different sessions.  What saves it is that no session ever     *)
(* clears completed_at, so that a session that loaded a time finds one in  *)
(* the row when it writes, and that a session that writes a terminal       *)
(* status writes a time with it.                                           *)

TimesOutlast ==
  /\ \A e \in Executors : ex[e].base.completed_at # None => row.completed_at # None
  /\ \A s \in Sweepers : sw[s].base.completed_at # None => row.completed_at # None

LoopLeavesStatus ==
  \A e \in Executors : Live(e) => /\ ex[e].obj.status = ex[e].base.status
                                  /\ ex[e].obj.completed_at = ex[e].base.completed_at

NothingBeforeCreation ==
  row.status = "absent" => /\ row.completed_at = None
                           /\ \A e \in Executors : ~Live(e)
                           /\ \A s \in Sweepers : sw[s].pc # "read"

TerminalInv ==
  /\ Typed
  /\ TerminalHasCompletedAt
  /\ TimesOutlast
  /\ LoopLeavesStatus
  /\ NothingBeforeCreation

(* One merge, as a statement about its three rows.                         *)
LEMMA MergeKeepsTime ==
  ASSUME NEW cur \in Rows, NEW base \in Rows, NEW obj \in Rows,
         cur.status \in _TERMINAL_RUN_STATUSES => cur.completed_at # None,
         base.completed_at # None => cur.completed_at # None,
         obj.completed_at = base.completed_at \/ obj.completed_at # None,
         (obj.status \in _TERMINAL_RUN_STATUSES /\ obj.status # base.status)
           => obj.completed_at # None
  PROVE  /\ \/ Merge(cur, base, obj).status \notin _TERMINAL_RUN_STATUSES
            \/ Merge(cur, base, obj).completed_at # None
         /\ cur.completed_at # None => Merge(cur, base, obj).completed_at # None
         /\ obj.completed_at # None => Merge(cur, base, obj).completed_at # None
<1> DEFINE m == Merge(cur, base, obj)
<1>1. /\ m.status = IF obj.status # base.status THEN obj.status ELSE cur.status
      /\ m.completed_at = IF obj.completed_at # base.completed_at
                          THEN obj.completed_at ELSE cur.completed_at
  BY MergeType
<1> HIDE DEF m
<1>2. /\ m.status \in _TERMINAL_RUN_STATUSES => m.completed_at # None
      /\ cur.completed_at # None => m.completed_at # None
      /\ obj.completed_at # None => m.completed_at # None
  BY <1>1
<1> QED
  BY <1>2 DEF m

LEMMA TerminalInit == Init => TerminalInv
<1> SUFFICES ASSUME Init PROVE TerminalInv
  OBVIOUS
<1>1. Typed
  BY TypeInit
<1>2. TerminalHasCompletedAt /\ TimesOutlast /\ LoopLeavesStatus /\ NothingBeforeCreation
  BY DEF Init, AbsentRow, TerminalHasCompletedAt, _TERMINAL_RUN_STATUSES, TimesOutlast,
         LoopLeavesStatus, NothingBeforeCreation, Live
<1> QED
  BY <1>1, <1>2 DEF TerminalInv

LEMMA TerminalStep == TerminalInv /\ [Next]_vars => TerminalInv'
<1> SUFFICES ASSUME TerminalInv, [Next]_vars PROVE TerminalInv'
  OBVIOUS
<1>0. Typed'
  BY TypeStep DEF TerminalInv
<1> DEFINE Rest == /\ TerminalHasCompletedAt /\ TimesOutlast
                   /\ LoopLeavesStatus /\ NothingBeforeCreation
<1>r. Rest
  BY DEF TerminalInv
<1> SUFFICES Rest'
  BY <1>0 DEF TerminalInv
<1>t. /\ row \in Rows
      /\ ex \in [Executors -> ExState]
      /\ sw \in [Sweepers -> SwState]
      /\ \A e \in Executors : ex[e].base \in Rows /\ ex[e].obj \in Rows
      /\ \A s \in Sweepers : sw[s].base \in Rows
  BY DEF TerminalInv, Typed, RunTypeOK, ExState, SwState
<1> USE <1>r, <1>t DEF Rest, TerminalHasCompletedAt, TimesOutlast, LoopLeavesStatus,
                       NothingBeforeCreation, Live
<1>1. CASE UpdateAgent
  BY <1>1 DEF UpdateAgent
<1>2. CASE CreateRun
  <2>1. row'.status = "pending" /\ row'.completed_at = None
    BY <1>2 DEF CreateRun, AbsentRow
  <2>2. row.completed_at = None
    BY <1>2 DEF CreateRun
  <2> QED
    BY <1>2, <2>1, <2>2 DEF CreateRun, _TERMINAL_RUN_STATUSES
<1>3. ASSUME NEW e \in Executors, Load(e) PROVE Rest'
  <2> DEFINE pin == IF row.config_snapshot = None THEN agentCfg ELSE row.config_snapshot
             obj == [row EXCEPT !.config_snapshot = pin]
             new == [ex[e] EXCEPT !.pc = "loop", !.base = row, !.obj = obj]
  <2>1. obj.status = row.status /\ obj.completed_at = row.completed_at
    BY DEF Rows
  <2>2. ex' = [ex EXCEPT ![e] = new]
    BY <1>3 DEF Load
  <2> HIDE DEF obj
  <2>3. new.base = row /\ new.obj = obj
    BY DEF ExState
  <2> HIDE DEF new
  <2> QED
    BY <1>3, <2>1, <2>2, <2>3 DEF Load
<1>4. ASSUME NEW e \in Executors, Heartbeat(e) PROVE Rest'
  <2>1. /\ row'.status = row.status
        /\ row'.completed_at = row.completed_at
    BY <1>4, MergeType DEF Heartbeat, Flush
  <2>2. ex' = [ex EXCEPT ![e] = [ex[e] EXCEPT !.base = ex[e].obj]]
    BY <1>4 DEF Heartbeat
  <2> QED
    BY <1>4, <2>1, <2>2 DEF Heartbeat, ExState
<1>5. ASSUME NEW e \in Executors, CommitStep(e) PROVE Rest'
  <2>1. /\ row'.status = row.status
        /\ row'.completed_at = row.completed_at
    BY <1>5, MergeType DEF CommitStep, Flush
  <2>2. ex' = [ex EXCEPT ![e] = [ex[e] EXCEPT !.base = ex[e].obj, !.seq = @ + 1]]
    BY <1>5 DEF CommitStep
  <2> QED
    BY <1>5, <2>1, <2>2 DEF CommitStep, ExState
<1>6. ASSUME NEW e \in Executors, LoopReturns(e) PROVE Rest'
  <2>1. PICK r \in Results : ex' = [ex EXCEPT ![e] = [ex[e] EXCEPT !.pc = "finalize", !.result = r]]
    BY <1>6 DEF LoopReturns
  <2> QED
    BY <1>6, <2>1 DEF LoopReturns, ExState
<1>7. ASSUME NEW e \in Executors, CommitOutcome(e) PROVE Rest'
  <2>1. /\ Outcome(e) \in Rows
        /\ Outcome(e).status \in {"completed", "failed", "cancelled", "paused"}
        /\ Outcome(e).status \in _TERMINAL_RUN_STATUSES => Outcome(e).completed_at = e
        /\ Outcome(e).completed_at \in {ex[e].obj.completed_at, e}
    BY <1>7, OutcomeType DEF CommitOutcome, TerminalInv, Typed, Results, _TERMINAL_RUN_STATUSES
  <2>2. e # None /\ row.status # "absent"
    BY <1>7, RunAssumption DEF CommitOutcome
  <2>3. row' = Merge(row, ex[e].base, Outcome(e))
    BY <1>7 DEF CommitOutcome, Flush
  <2>4. /\ row'.status \in _TERMINAL_RUN_STATUSES => row'.completed_at # None
        /\ row.completed_at # None => row'.completed_at # None
        /\ Outcome(e).completed_at # None => row'.completed_at # None
    <3>1. Outcome(e).completed_at = ex[e].base.completed_at \/ Outcome(e).completed_at # None
      BY <1>7, <2>1, <2>2 DEF CommitOutcome
    <3>2. Outcome(e).status \in _TERMINAL_RUN_STATUSES => Outcome(e).completed_at # None
      BY <2>1, <2>2
    <3> QED
      BY <2>1, <2>3, <3>1, <3>2, MergeKeepsTime
  <2>n. row'.status # "absent"
    BY <2>1, <2>2, <2>3, MergeType
  <2>5. /\ ex'[e].pc = "done" /\ ex'[e].base = AbsentRow
        /\ \A o \in Executors \ {e} : ex'[o] = ex[o]
    BY <1>7, EndedType DEF CommitOutcome, TerminalInv
  <2> QED
    BY <1>7, <2>4, <2>n, <2>5, BlankRow DEF CommitOutcome
<1>8. ASSUME NEW e \in Executors, Die(e) PROVE Rest'
  <2>1. /\ ex'[e].pc = "dead" /\ ex'[e].base = AbsentRow
        /\ \A o \in Executors \ {e} : ex'[o] = ex[o]
    BY <1>8, EndedType DEF Die, TerminalInv
  <2> QED
    BY <1>8, <2>1, BlankRow DEF Die
<1>9. ASSUME NEW s \in Sweepers, SweepRead(s) PROVE Rest'
  <2>1. PICK new : /\ sw' = [sw EXCEPT ![s] = new]
                   /\ \/ new.pc = "done" /\ new.base = AbsentRow
                      \/ new.pc = "read" /\ new.base = row /\ row.status # "absent"
    <3>1. CASE row.status \in _TERMINAL_RUN_STATUSES \cup {"absent"}
      <4>1. sw' = [sw EXCEPT ![s] = Swept]
        BY <1>9, <3>1, Zenon DEF SweepRead
      <4>2. Swept.pc = "done" /\ Swept.base = AbsentRow
        BY DEF Swept
      <4> QED
        BY <4>1, <4>2
    <3>2. CASE row.status \notin _TERMINAL_RUN_STATUSES \cup {"absent"}
      <4> DEFINE new == [pc |-> "read", base |-> row]
      <4>1. sw' = [sw EXCEPT ![s] = new]
        BY <1>9, <3>2, Zenon DEF SweepRead
      <4>2. new.pc = "read" /\ new.base = row
        OBVIOUS
      <4> HIDE DEF new
      <4> QED
        BY <3>2, <4>1, <4>2
    <3> QED
      BY <3>1, <3>2
  <2> QED
    BY <1>9, <2>1, BlankRow DEF SweepRead
<1>10. ASSUME NEW s \in Sweepers, SweepWrite(s) PROVE Rest'
  <2> DEFINE failed == [sw[s].base EXCEPT !.status = "failed", !.error = s,
                                          !.completed_at = s, !.state_snapshot = None]
  <2>1. failed \in Rows /\ failed.status = "failed" /\ failed.completed_at = s
    BY DEF Rows, Status, Callers
  <2>2. row' = Merge(row, sw[s].base, failed)
    BY <1>10 DEF SweepWrite
  <2>3. s # None /\ row.status # "absent"
    BY <1>10, RunAssumption DEF SweepWrite
  <2> HIDE DEF failed
  <2>4. /\ row'.status \in _TERMINAL_RUN_STATUSES => row'.completed_at # None
        /\ row.completed_at # None => row'.completed_at # None
        /\ row'.status # "absent"
    <3>1. failed.completed_at # None
      BY <2>1, <2>3
    <3>2. row'.status # "absent"
      BY <2>1, <2>2, <2>3, MergeType
    <3> QED
      BY <2>1, <2>2, <3>1, <3>2, MergeKeepsTime
  <2>5. sw' = [sw EXCEPT ![s] = Swept]
    BY <1>10 DEF SweepWrite
  <2> QED
    BY <1>10, <2>4, <2>5, BlankRow DEF SweepWrite, Swept
<1>11. CASE UNCHANGED vars
  BY <1>11 DEF vars
<1> QED
  BY <1>1, <1>2, <1>3, <1>4, <1>5, <1>6, <1>7, <1>8, <1>9, <1>10, <1>11 DEF Next

(* A run that is over has the time it was over, whatever executions and    *)
(* sweeps race and in whichever order their columns reach the row.         *)
THEOREM TerminalCorrect == Spec => []TerminalHasCompletedAt
<1>1. TerminalInv => TerminalHasCompletedAt
  BY DEF TerminalInv
<1> QED
  BY TerminalInit, TerminalStep, <1>1, PTL DEF Spec

-----------------------------------------------------------------------------
(* The numbers of an execution's steps.                                    *)

LEMMA DenseStep ==
  ASSUME Typed, StepsDensePerExecution, [Next]_vars PROVE StepsDensePerExecution'
<1> DEFINE Own(e) == {x \in steps : x.by = e}
           Numbers(e) == {st.sequence : st \in Own(e)}
<1>0. \A e \in Executors : ex[e] \in ExState /\ ex[e].seq \in Nat
  BY RunAssumption DEF Typed, RunTypeOK, ExState
<1>1. \A e \in Executors : Numbers(e) = 0..ex[e].seq \ {ex[e].seq}
  BY DEF StepsDensePerExecution
<1>2. ASSUME NEW e \in Executors, CommitStep(e) PROVE StepsDensePerExecution'
  <2> DEFINE new == [by |-> e, sequence |-> ex[e].seq, config |-> ex[e].obj.config_snapshot]
  <2>1. steps' = steps \cup {new} /\ new.by = e /\ new.sequence = ex[e].seq
    BY <1>2 DEF CommitStep
  <2>2. ex' = [ex EXCEPT ![e] = [ex[e] EXCEPT !.base = ex[e].obj, !.seq = @ + 1]]
    BY <1>2 DEF CommitStep
  <2>3. /\ ex'[e].seq = ex[e].seq + 1
        /\ \A o \in Executors : o # e => ex'[o].seq = ex[o].seq
    <3>1. ex \in [Executors -> ExState]
      BY DEF Typed, RunTypeOK
    <3>2. [ex[e] EXCEPT !.base = ex[e].obj, !.seq = @ + 1].seq = ex[e].seq + 1
      BY <1>0 DEF ExState
    <3> QED BY <2>2, <3>1, <3>2
  <2> HIDE DEF new
  <2>4. ASSUME NEW o \in Executors, o # e PROVE Numbers(o)' = Numbers(o)
    <3>1. {x \in steps' : x.by = o} = Own(o)
      BY <2>1, <2>4
    <3> QED BY <3>1
  <2>5. \A o \in Executors : o = e => {st.sequence : st \in {x \in steps' : x.by = o}} = Numbers(e) \cup {ex[e].seq}
    <3>1. {x \in steps' : x.by = e} = Own(e) \cup {new}
      BY <2>1
    <3> QED BY <2>1, <3>1
  <2>6. (0..ex[e].seq \ {ex[e].seq}) \cup {ex[e].seq} = 0..ex[e].seq + 1 \ {ex[e].seq + 1}
    BY <1>0
  <2>7. \A o \in Executors :
           {st.sequence : st \in {x \in steps' : x.by = o}} = 0..ex'[o].seq \ {ex'[o].seq}
    <3> TAKE o \in Executors
    <3>1. CASE o = e
      BY <1>1, <2>3, <2>5, <2>6, <3>1
    <3>2. CASE o # e
      <4>1. Numbers(o)' = Numbers(o)
        BY <2>4, <3>2
      <4> QED BY <1>1, <2>3, <3>2, <4>1
    <3> QED BY <3>1, <3>2
  <2> QED BY <2>7 DEF StepsDensePerExecution
<1>3. CASE /\ UNCHANGED steps
           /\ \A e \in Executors : ex'[e].seq = ex[e].seq
  BY <1>3 DEF StepsDensePerExecution
<1>4. ex \in [Executors -> ExState]
  BY DEF Typed, RunTypeOK
<1>5. ASSUME NEW e \in Executors, NEW u, u.seq = ex[e].seq, ex' = [ex EXCEPT ![e] = u]
      PROVE  \A o \in Executors : ex'[o].seq = ex[o].seq
  BY <1>4, <1>5
<1>6. ASSUME NEW e \in Executors, Load(e) PROVE StepsDensePerExecution'
  <2> DEFINE pin == IF row.config_snapshot = None THEN agentCfg ELSE row.config_snapshot
             u == [ex[e] EXCEPT !.pc = "loop", !.base = row,
                                !.obj = [row EXCEPT !.config_snapshot = pin]]
  <2>1. ex' = [ex EXCEPT ![e] = u] /\ UNCHANGED steps
    BY <1>6 DEF Load
  <2>2. u.seq = ex[e].seq
    BY <1>0 DEF ExState
  <2> HIDE DEF u
  <2> QED BY <1>3, <1>5, <2>1, <2>2
<1>7. ASSUME NEW e \in Executors, Heartbeat(e) PROVE StepsDensePerExecution'
  BY <1>0, <1>3, <1>4, <1>7 DEF Heartbeat, ExState
<1>8. ASSUME NEW e \in Executors, LoopReturns(e) PROVE StepsDensePerExecution'
  BY <1>0, <1>3, <1>4, <1>8 DEF LoopReturns, ExState
<1>9. ASSUME NEW e \in Executors, CommitOutcome(e) PROVE StepsDensePerExecution'
  BY <1>3, <1>9, EndedType DEF CommitOutcome
<1>10. ASSUME NEW e \in Executors, Die(e) PROVE StepsDensePerExecution'
  BY <1>3, <1>10, EndedType DEF Die
<1>11. ASSUME UNCHANGED <<steps, ex>> PROVE StepsDensePerExecution'
  BY <1>3, <1>11
<1>12. UpdateAgent => UNCHANGED <<steps, ex>>
  BY DEF UpdateAgent
<1>13. CreateRun => UNCHANGED <<steps, ex>>
  BY DEF CreateRun
<1>14. \A s \in Sweepers : SweepRead(s) => UNCHANGED <<steps, ex>>
  BY DEF SweepRead
<1>15. \A s \in Sweepers : SweepWrite(s) => UNCHANGED <<steps, ex>>
  BY DEF SweepWrite
<1>16. UNCHANGED vars => UNCHANGED <<steps, ex>>
  BY DEF vars
<1> QED
  BY <1>2, <1>6, <1>7, <1>8, <1>9, <1>10, <1>11, <1>12, <1>13, <1>14, <1>15, <1>16 DEF Next

(* However many executions of a run overlap, each numbers its own steps    *)
(* from 0 without a gap or a duplicate; the numbers of two executions      *)
(* coincide (SequencesUnique is violated).                                 *)
THEOREM DenseCorrect == Spec => []StepsDensePerExecution
<1>1. Init => StepsDensePerExecution
  BY DEF Init, StepsDensePerExecution
<1>2. Typed /\ StepsDensePerExecution /\ [Next]_vars => StepsDensePerExecution'
  BY DenseStep
<1> QED BY <1>1, <1>2, TypeInvariant, PTL DEF Spec

-----------------------------------------------------------------------------
(* The settings of a run.                                                  *)
(*                                                                         *)
(* An execution pins an unpinned run in its own session only, so before    *)
(* its first commit the row does not know.  Unless another one loads the   *)
(* unpinned run meanwhile it is alone then, and every later session loads  *)
(* its pin; a sweep writes back the pin it read, which no flush emits.     *)

\* A session emits its pin once, and not over a row that lost one.
LivePin ==
  \A e \in Executors : Live(e) =>
    /\ ex[e].obj.config_snapshot \in Configs
    /\ ex[e].base.config_snapshot \in {None, ex[e].obj.config_snapshot}
    /\ ex[e].base.config_snapshot # None => row.config_snapshot # None

\* All sessions have the row's pin, or the one there is has yet to commit.
OnePin ==
  \/ crowded
  \/ \A e \in Executors : Live(e) /\ row.config_snapshot # None =>
       ex[e].obj.config_snapshot = row.config_snapshot

AlonePinning ==
  \/ crowded \/ row.config_snapshot # None
  \/ \A e, o \in Executors : Live(e) /\ Live(o) => e = o

BlankBeforeCreation ==
  row.status = "absent" => steps = {} /\ row.config_snapshot = None

PinInv ==
  /\ TerminalInv
  /\ StepsUnderPinnedConfig
  /\ LivePin
  /\ OnePin
  /\ AlonePinning
  /\ BlankBeforeCreation

LEMMA PinInit == Init => PinInv
<1> SUFFICES ASSUME Init PROVE PinInv
  OBVIOUS
<1>1. StepsUnderPinnedConfig /\ LivePin /\ OnePin /\ AlonePinning /\ BlankBeforeCreation
  BY DEF Init, AbsentRow, StepsUnderPinnedConfig, LivePin, OnePin, AlonePinning,
         BlankBeforeCreation, Live
<1> QED
  BY <1>1, TerminalInit DEF PinInv

(* What the flush of a live execution does to the row's pin.               *)
LEMMA FlushPins ==
  ASSUME PinInv, NEW e \in Executors, Live(e), NEW obj \in Rows,
         obj.config_snapshot = ex[e].obj.config_snapshot,
         Flush(e, obj)
  PROVE  /\ row'.config_snapshot # None
         /\ ~crowded => /\ row'.config_snapshot = ex[e].obj.config_snapshot
                        /\ row.config_snapshot # None => row'.config_snapshot = row.config_snapshot
<1>1. /\ row \in Rows /\ ex[e].base \in Rows
      /\ ex[e].obj.config_snapshot \in Configs /\ None \notin Configs
  BY RunAssumption DEF PinInv, TerminalInv, Typed, RunTypeOK, ExState, LivePin, Configs
<1>2. row'.config_snapshot = IF obj.config_snapshot # ex[e].base.config_snapshot
                             THEN obj.config_snapshot ELSE row.config_snapshot
  BY <1>1, MergeType DEF Flush
<1>3. /\ ex[e].base.config_snapshot \in {None, ex[e].obj.config_snapshot}
      /\ ex[e].base.config_snapshot # None => row.config_snapshot # None
      /\ ~crowded /\ row.config_snapshot # None => ex[e].obj.config_snapshot = row.config_snapshot
  BY DEF PinInv, LivePin, OnePin
<1> QED
  BY <1>1, <1>2, <1>3

(* The steps of a run that has a pin, before and after a flush.            *)
LEMMA StepsHavePin ==
  ASSUME PinInv, ~crowded PROVE steps # {} => row.config_snapshot # None
<1>1. \A st \in steps : st.config \in Nat /\ st.config = row.config_snapshot
  BY RunAssumption DEF PinInv, TerminalInv, Typed, RunTypeOK, StepRows, Configs,
                       StepsUnderPinnedConfig
<1> QED
  BY <1>1, RunAssumption

(* A flush of e, after which e goes on or has ended; the other executions  *)
(* do nothing.                                                             *)
LEMMA FlushKeepsPins ==
  ASSUME PinInv, NEW e \in Executors, Live(e), NEW obj \in Rows,
         obj.config_snapshot = ex[e].obj.config_snapshot,
         Flush(e, obj), UNCHANGED crowded,
         \A o \in Executors \ {e} : ex'[o] = ex[o],
         Live(e)' => ex'[e].obj = ex[e].obj /\ ex'[e].base = ex[e].obj
  PROVE  LivePin' /\ OnePin' /\ AlonePinning'
<1>1. /\ row'.config_snapshot # None
      /\ ~crowded => /\ row'.config_snapshot = ex[e].obj.config_snapshot
                     /\ row.config_snapshot # None => row'.config_snapshot = row.config_snapshot
  BY FlushPins
<1>2. LivePin'
  BY <1>1 DEF PinInv, LivePin, Live
<1>3. AlonePinning'
  BY <1>1 DEF AlonePinning
<1>4. OnePin'
  BY <1>1 DEF PinInv, OnePin, AlonePinning, Live
<1> QED
  BY <1>2, <1>3, <1>4

LEMMA PinStep ==
  ASSUME PinInv, [Next]_vars
  PROVE  /\ PinInv'
         /\ row.config_snapshot # None => row'.config_snapshot = row.config_snapshot \/ crowded
<1>0. TerminalInv'
  BY TerminalStep DEF PinInv
<1> DEFINE Kept == row.config_snapshot # None =>
                     row'.config_snapshot = row.config_snapshot \/ crowded
           Rest == /\ StepsUnderPinnedConfig' /\ LivePin' /\ OnePin' /\ AlonePinning'
                   /\ BlankBeforeCreation' /\ Kept
<1> SUFFICES Rest
  BY <1>0 DEF PinInv
<1>t. /\ row \in Rows
      /\ ex \in [Executors -> ExState]
      /\ sw \in [Sweepers -> SwState]
      /\ \A e \in Executors : ex[e].base \in Rows /\ ex[e].obj \in Rows
      /\ \A s \in Sweepers : sw[s].base \in Rows
      /\ agentCfg \in Configs
      /\ Typed
  BY DEF PinInv, TerminalInv, Typed, RunTypeOK, ExState, SwState
<1>i. /\ StepsUnderPinnedConfig /\ LivePin /\ OnePin /\ AlonePinning /\ BlankBeforeCreation
      /\ NothingBeforeCreation
  BY DEF PinInv, TerminalInv
<1>s. ASSUME UNCHANGED <<row, steps, crowded>>,
             \A e \in Executors : Live(e)' => /\ Live(e) /\ ex'[e].obj = ex[e].obj
                                              /\ ex'[e].base = ex[e].base
      PROVE  Rest
  <2>1. LivePin'
    BY <1>i, <1>s DEF LivePin
  <2>2. OnePin' /\ AlonePinning'
    BY <1>i, <1>s DEF OnePin, AlonePinning
  <2> QED
    BY <1>i, <1>s, <2>1, <2>2 DEF StepsUnderPinnedConfig, BlankBeforeCreation
<1>1. CASE UpdateAgent
  BY <1>1, <1>s DEF UpdateAgent, history, Live
<1>2. CASE CreateRun
  <2>1. row'.status # "absent" /\ row.config_snapshot = None /\ steps = {}
        /\ UNCHANGED <<steps, ex, crowded>> /\ \A e \in Executors : ~Live(e)
    BY <1>2, <1>i DEF CreateRun, AbsentRow, history, BlankBeforeCreation, NothingBeforeCreation
  <2>2. \A e \in Executors : ~Live(e)'
    BY <2>1 DEF Live
  <2> QED
    BY <2>1, <2>2 DEF StepsUnderPinnedConfig, LivePin, OnePin, AlonePinning, BlankBeforeCreation
<1>3. ASSUME NEW e \in Executors, Load(e) PROVE Rest
  <2> DEFINE pin == IF row.config_snapshot = None THEN agentCfg ELSE row.config_snapshot
             obj == [row EXCEPT !.config_snapshot = pin]
             new == [ex[e] EXCEPT !.pc = "loop", !.base = row, !.obj = obj]
  <2>1. /\ obj.config_snapshot = pin
        /\ pin \in Configs
        /\ row.config_snapshot # None => pin = row.config_snapshot
    BY <1>t DEF Rows
  <2>2. ex' = [ex EXCEPT ![e] = new]
    BY <1>3 DEF Load
  <2> HIDE DEF obj, pin
  <2>3. new.base = row /\ new.obj = obj
    BY <1>t DEF ExState
  <2> HIDE DEF new
  <2>4. /\ row.status # "absent" /\ ~Live(e)
        /\ UNCHANGED <<row, steps>>
        /\ crowded' = (crowded \/ (row.config_snapshot = None /\ \E o \in Executors : Live(o)))
    BY <1>3 DEF Load, Live
  <2>5. ex'[e] = new /\ \A o \in Executors \ {e} : ex'[o] = ex[o]
    BY <1>t, <2>2
  <2>6. LivePin'
    BY <1>i, <2>1, <2>3, <2>4, <2>5 DEF LivePin, Live
  <2>7. OnePin'
    BY <1>i, <2>1, <2>3, <2>4, <2>5 DEF OnePin, Live
  <2>8. AlonePinning'
    BY <1>i, <2>4, <2>5 DEF AlonePinning, Live
  <2> QED
    BY <1>i, <2>4, <2>6, <2>7, <2>8 DEF StepsUnderPinnedConfig, BlankBeforeCreation
<1>4. ASSUME NEW e \in Executors, Heartbeat(e) PROVE Rest
  <2>1. Live(e) /\ Flush(e, ex[e].obj) /\ ex[e].obj \in Rows /\ UNCHANGED <<steps, crowded>>
    BY <1>4, <1>t DEF Heartbeat, Live, history
  <2>2. ex' = [ex EXCEPT ![e] = [ex[e] EXCEPT !.base = ex[e].obj]]
    BY <1>4 DEF Heartbeat
  <2>3. /\ ex'[e].obj = ex[e].obj /\ ex'[e].base = ex[e].obj
        /\ \A o \in Executors \ {e} : ex'[o] = ex[o]
    BY <1>t, <2>2 DEF ExState
  <2>4. LivePin' /\ OnePin' /\ AlonePinning'
    BY <2>1, <2>3, FlushKeepsPins
  <2>5. Kept /\ StepsUnderPinnedConfig'
    BY <1>i, <2>1, FlushPins, StepsHavePin DEF StepsUnderPinnedConfig
  <2>6. row'.status # "absent"
    BY <1>i, <1>t, <2>1, MergeType DEF Flush, PinInv, TerminalInv, LoopLeavesStatus,
       NothingBeforeCreation
  <2> QED
    BY <2>4, <2>5, <2>6 DEF BlankBeforeCreation
<1>5. ASSUME NEW e \in Executors, CommitStep(e) PROVE Rest
  <2>1. /\ Live(e) /\ Flush(e, ex[e].obj) /\ ex[e].obj \in Rows /\ UNCHANGED crowded
        /\ steps' = steps \cup {[by |-> e, sequence |-> ex[e].seq,
                                 config |-> ex[e].obj.config_snapshot]}
    BY <1>5, <1>t DEF CommitStep, Live, history
  <2>2. ex' = [ex EXCEPT ![e] = [ex[e] EXCEPT !.base = ex[e].obj, !.seq = @ + 1]]
    BY <1>5 DEF CommitStep
  <2>3. /\ ex'[e].obj = ex[e].obj /\ ex'[e].base = ex[e].obj
        /\ \A o \in Executors \ {e} : ex'[o] = ex[o]
    BY <1>t, <2>2 DEF ExState
  <2>4. LivePin' /\ OnePin' /\ AlonePinning'
    BY <2>1, <2>3, FlushKeepsPins
  <2>5. Kept /\ StepsUnderPinnedConfig'
    BY <1>i, <2>1, FlushPins, StepsHavePin DEF StepsUnderPinnedConfig
  <2>6. row'.status # "absent"
    BY <1>i, <1>t, <2>1, MergeType DEF Flush, PinInv, TerminalInv, LoopLeavesStatus,
       NothingBeforeCreation
  <2> QED
    BY <2>4, <2>5, <2>6 DEF BlankBeforeCreation
<1>6. ASSUME NEW e \in Executors, LoopReturns(e) PROVE Rest
  <2>1. PICK r \in Results : ex' = [ex EXCEPT ![e] = [ex[e] EXCEPT !.pc = "finalize", !.result = r]]
    BY <1>6 DEF LoopReturns
  <2>2. /\ ex'[e].obj = ex[e].obj /\ ex'[e].base = ex[e].base
        /\ \A o \in Executors \ {e} : ex'[o] = ex[o]
    BY <1>t, <2>1 DEF ExState
  <2>3. Live(e) /\ UNCHANGED <<row, steps, crowded>>
    BY <1>6 DEF LoopReturns, Live, history
  <2> QED
    BY <1>s, <2>2, <2>3 DEF Live
<1>7. ASSUME NEW e \in Executors, CommitOutcome(e) PROVE Rest
  <2>1. /\ Outcome(e) \in Rows
        /\ Outcome(e).status # "absent"
        /\ Outcome(e).config_snapshot = ex[e].obj.config_snapshot
    BY <1>7, OutcomeType DEF CommitOutcome, PinInv, TerminalInv, Typed, Results
  <2>2. Live(e) /\ Flush(e, Outcome(e)) /\ UNCHANGED <<steps, crowded>>
    BY <1>7 DEF CommitOutcome, Live
  <2>3. ex'[e].pc = "done" /\ \A o \in Executors \ {e} : ex'[o] = ex[o]
    BY <1>7, <1>t, EndedType DEF CommitOutcome
  <2>4. LivePin' /\ OnePin' /\ AlonePinning'
    BY <2>1, <2>2, <2>3, FlushKeepsPins DEF Live
  <2>5. Kept /\ StepsUnderPinnedConfig'
    BY <1>i, <2>1, <2>2, FlushPins, StepsHavePin DEF StepsUnderPinnedConfig
  <2>6. row'.status # "absent"
    BY <1>i, <1>t, <2>1, <2>2, MergeType DEF Flush, NothingBeforeCreation
  <2> QED
    BY <2>4, <2>5, <2>6 DEF BlankBeforeCreation
<1>8. ASSUME NEW e \in Executors, Die(e) PROVE Rest
  <2>1. ex'[e].pc = "dead" /\ \A o \in Executors \ {e} : ex'[o] = ex[o]
    BY <1>8, <1>t, EndedType DEF Die
  <2>2. UNCHANGED <<row, steps, crowded>>
    BY <1>8 DEF Die, history
  <2> QED
    BY <1>s, <2>1, <2>2 DEF Live
<1>9. ASSUME NEW s \in Sweepers, SweepRead(s) PROVE Rest
  BY <1>9, <1>s DEF SweepRead, history, Live
<1>10. ASSUME NEW s \in Sweepers, SweepWrite(s) PROVE Rest
  <2> DEFINE failed == [sw[s].base EXCEPT !.status = "failed", !.error = s,
                                          !.completed_at = s, !.state_snapshot = None]
  <2>1. /\ failed \in Rows /\ failed.status = "failed"
        /\ failed.config_snapshot = sw[s].base.config_snapshot
    BY <1>t DEF Rows, Status, Callers
  <2>2. row' = Merge(row, sw[s].base, failed) /\ UNCHANGED <<steps, ex, crowded>>
        /\ sw[s].pc = "read"
    BY <1>10 DEF SweepWrite
  <2> HIDE DEF failed
  <2>3. /\ row'.config_snapshot = row.config_snapshot
        /\ row'.status # "absent"
    BY <1>t, <1>i, <2>1, <2>2, MergeType DEF NothingBeforeCreation
  <2>4. LivePin' /\ OnePin' /\ AlonePinning'
    BY <1>i, <2>2, <2>3 DEF LivePin, OnePin, AlonePinning, Live
  <2> QED
    BY <1>i, <2>2, <2>3, <2>4 DEF StepsUnderPinnedConfig, BlankBeforeCreation
<1>11. CASE UNCHANGED vars
  BY <1>11, <1>s DEF vars, Live
<1> QED
  BY <1>1, <1>2, <1>3, <1>4, <1>5, <1>6, <1>7, <1>8, <1>9, <1>10, <1>11 DEF Next

LEMMA PinInvariant == Spec => []PinInv
<1>1. PinInv /\ [Next]_vars => PinInv'
  BY PinStep
<1> QED
  BY PinInit, <1>1, PTL DEF Spec

(* Every step of a run was produced under the settings its row records;    *)
(* edits of the agent, deaths and sweeps may come at any moment, and so    *)
(* may other executions once one has committed the pin.                    *)
THEOREM PinnedCorrect == Spec => []StepsUnderPinnedConfig
<1>1. PinInv => StepsUnderPinnedConfig
  BY DEF PinInv
<1> QED
  BY PinInvariant, <1>1, PTL

(* No commit of an execution or a sweep changes settings once pinned.      *)
THEOREM PinnedForGood == Spec => ConfigPinnedForGood
<1>1. PinInv /\ [Next]_vars =>
        [row.config_snapshot # None =>
           row'.config_snapshot = row.config_snapshot \/ crowded]_vars
  BY PinStep
<1> QED
  BY PinInvariant, <1>1, PTL DEF Spec, ConfigPinnedForGood

-----------------------------------------------------------------------------
(* The columns of a row tell one story, and its end is final, unless a     *)
(* call wrote over an outcome it had not seen or a run that was over was   *)
(* executed again.                                                         *)
(*                                                                         *)
(* A session of a live execution differs from what it loaded or last wrote *)
(* in the settings only, so its flushes leave the outcome of the row as it *)
(* is.  A call that writes an outcome and is not stale finds the outcome   *)
(* it loaded, that of a run that was not over: what it does not write is   *)
(* what it saw.                                                            *)

SessionsFollow ==
  \A e \in Executors : Live(e) =>
    /\ \A f \in OutcomeColumns : ex[e].obj[f] = ex[e].base[f]
    /\ revived \/ ex[e].base.status \notin _TERMINAL_RUN_STATUSES

SweepsFollow ==
  \A s \in Sweepers : sw[s].pc = "read" => sw[s].base.status \notin _TERMINAL_RUN_STATUSES

OutcomeInv == Typed /\ RowConsistent /\ SessionsFollow /\ SweepsFollow

(* The outcome columns one by one.                                         *)
LEMMA SameOutcome ==
  ASSUME NEW a, NEW b
  PROVE  (\A f \in OutcomeColumns : a[f] = b[f]) <=>
           /\ a.status = b.status /\ a.output = b.output /\ a.error = b.error
           /\ a.completed_at = b.completed_at /\ a.state_snapshot = b.state_snapshot
  BY DEF OutcomeColumns

LEMMA MergeOutcome ==
  ASSUME NEW cur \in Rows, NEW base \in Rows, NEW obj \in Rows
  PROVE  /\ Merge(cur, base, obj).output =
              IF obj.output # base.output THEN obj.output ELSE cur.output
         /\ Merge(cur, base, obj).error =
              IF obj.error # base.error THEN obj.error ELSE cur.error
         /\ Merge(cur, base, obj).state_snapshot =
              IF obj.state_snapshot # base.state_snapshot THEN obj.state_snapshot
                                                          ELSE cur.state_snapshot
  BY SMT DEF Merge, Rows

(* A flush of a session that agrees with its base on the outcome.          *)
LEMMA FlushKeepsOutcome ==
  ASSUME NEW cur \in Rows, NEW base \in Rows, NEW obj \in Rows,
         \A f \in OutcomeColumns : obj[f] = base[f]
  PROVE  \A f \in OutcomeColumns : Merge(cur, base, obj)[f] = cur[f]
<1> DEFINE m == Merge(cur, base, obj)
<1>1. /\ obj.status = base.status /\ obj.output = base.output /\ obj.error = base.error
      /\ obj.completed_at = base.completed_at /\ obj.state_snapshot = base.state_snapshot
  BY SameOutcome
<1>2. /\ m.status = cur.status /\ m.output = cur.output /\ m.error = cur.error
      /\ m.completed_at = cur.completed_at /\ m.state_snapshot = cur.state_snapshot
  BY <1>1, MergeType, MergeOutcome
<1> HIDE DEF m
<1>3. \A f \in OutcomeColumns : m[f] = cur[f]
  BY <1>2, SameOutcome
<1> QED
  BY <1>3 DEF m

(* An outcome written where the base is still what the row says.           *)
LEMMA MergeOverBase ==
  ASSUME NEW cur \in Rows, NEW base \in Rows, NEW obj \in Rows,
         \A f \in OutcomeColumns : cur[f] = base[f]
  PROVE  \A f \in OutcomeColumns : Merge(cur, base, obj)[f] = obj[f]
<1> DEFINE m == Merge(cur, base, obj)
<1>1. /\ cur.status = base.status /\ cur.output = base.output /\ cur.error = base.error
      /\ cur.completed_at = base.completed_at /\ cur.state_snapshot = base.state_snapshot
  BY SameOutcome
<1>2. m.status = obj.status /\ m.completed_at = obj.completed_at
  BY <1>1, MergeType
<1>3. m.output = obj.output /\ m.error = obj.error /\ m.state_snapshot = obj.state_snapshot
  BY <1>1, MergeOutcome
<1> HIDE DEF m
<1>4. \A f \in OutcomeColumns : m[f] = obj[f]
  BY <1>2, <1>3, SameOutcome
<1> QED
  BY <1>4 DEF m

LEMMA OutcomeInit == Init => OutcomeInv
<1> SUFFICES ASSUME Init PROVE OutcomeInv
  OBVIOUS
<1>1. RowConsistent /\ SessionsFollow /\ SweepsFollow
  BY DEF Init, AbsentRow, RowConsistent, OneStory, SessionsFollow, SweepsFollow, Live,
         _TERMINAL_RUN_STATUSES
<1> QED
  BY <1>1, TypeInit DEF OutcomeInv

(* The outcome an execution assigns to the object of a run that is not     *)
(* over.                                                                   *)
LEMMA OutcomeConsistent ==
  ASSUME RunTypeOK, NEW e \in Executors, ex[e].result \in Results,
         ex[e].obj.completed_at = None
  PROVE  LET o == Outcome(e)
         IN /\ o.completed_at # None <=> o.status \in _TERMINAL_RUN_STATUSES
            /\ o.state_snapshot # None <=> o.status = "paused"
            /\ o.status = "failed" => o.error # None
            /\ o.status = "completed" => o.output = o.completed_at
<1>1. /\ ex[e].obj \in Rows
      /\ e # None
  BY RunAssumption DEF RunTypeOK, ExState
<1>2. /\ ex[e].result.status \in {"completed", "failed", "cancelled", "paused"}
      /\ ex[e].result.status = "failed" => ex[e].result.error
  BY DEF Results
<1> QED
  BY <1>1, <1>2 DEF Outcome, Rows, _TERMINAL_RUN_STATUSES

LEMMA OutcomeStep ==
  ASSUME OutcomeInv, [Next]_vars
  PROVE  /\ OutcomeInv'
         /\ row.status \in _TERMINAL_RUN_STATUSES =>
              row'.status = row.status \/ stale' \/ revived
<1>0. Typed'
  BY TypeStep DEF OutcomeInv
<1> DEFINE Final == row.status \in _TERMINAL_RUN_STATUSES =>
                      row'.status = row.status \/ stale' \/ revived
           Rest == RowConsistent' /\ SessionsFollow' /\ SweepsFollow' /\ Final
<1> SUFFICES Rest
  BY <1>0 DEF OutcomeInv
<1>t. /\ RunTypeOK
      /\ row \in Rows
      /\ ex \in [Executors -> ExState]
      /\ sw \in [Sweepers -> SwState]
      /\ \A e \in Executors : ex[e].base \in Rows /\ ex[e].obj \in Rows
      /\ \A s \in Sweepers : sw[s].base \in Rows
      /\ stale \in BOOLEAN /\ revived \in BOOLEAN
  BY DEF OutcomeInv, Typed, RunTypeOK, ExState, SwState
<1>i. RowConsistent /\ SessionsFollow /\ SweepsFollow
  BY DEF OutcomeInv
<1>s. ASSUME UNCHANGED <<row, stale, revived>> PROVE RowConsistent' /\ Final
  BY <1>i, <1>s DEF RowConsistent, OneStory
<1>1. CASE UpdateAgent
  BY <1>1, <1>i, <1>s DEF UpdateAgent, history, SessionsFollow, SweepsFollow, Live
<1>2. CASE CreateRun
  <2>1. /\ row'.status = "pending" /\ row'.completed_at = None
        /\ row'.state_snapshot = None
    BY <1>2 DEF CreateRun, AbsentRow
  <2>2. RowConsistent' /\ Final
    BY <1>2, <2>1 DEF CreateRun, RowConsistent, OneStory, _TERMINAL_RUN_STATUSES
  <2>3. SessionsFollow' /\ SweepsFollow'
    BY <1>2, <1>i DEF CreateRun, history, SessionsFollow, SweepsFollow, Live
  <2> QED
    BY <2>2, <2>3
<1>3. ASSUME NEW e \in Executors, Load(e) PROVE Rest
  <2> DEFINE pin == IF row.config_snapshot = None THEN agentCfg ELSE row.config_snapshot
             obj == [row EXCEPT !.config_snapshot = pin]
             new == [ex[e] EXCEPT !.pc = "loop", !.base = row, !.obj = obj]
  <2>1. /\ obj.status = row.status /\ obj.output = row.output /\ obj.error = row.error
        /\ obj.completed_at = row.completed_at /\ obj.state_snapshot = row.state_snapshot
    BY <1>t DEF Rows
  <2>2. /\ ex' = [ex EXCEPT ![e] = new]
        /\ revived' = (revived \/ row.status \in _TERMINAL_RUN_STATUSES)
        /\ UNCHANGED <<row, sw, stale>>
    BY <1>3 DEF Load
  <2> HIDE DEF obj
  <2>3. \A f \in OutcomeColumns : obj[f] = row[f]
    BY <2>1, SameOutcome
  <2>4. new.base = row /\ new.obj = obj
    BY <1>t DEF ExState
  <2> HIDE DEF new
  <2>5. ex'[e] = new /\ \A o \in Executors : o # e => ex'[o] = ex[o]
    BY <1>t, <2>2
  <2>6. SessionsFollow'
    BY <1>i, <1>t, <2>2, <2>3, <2>4, <2>5 DEF SessionsFollow, Live
  <2>7. RowConsistent' /\ Final /\ SweepsFollow'
    BY <1>i, <1>t, <2>2 DEF RowConsistent, OneStory, SweepsFollow
  <2> QED
    BY <2>6, <2>7
<1>4. ASSUME NEW e \in Executors, Live(e), Flush(e, ex[e].obj), UNCHANGED <<sw, history>>,
             ex'[e].obj = ex[e].obj, ex'[e].base = ex[e].obj,
             \A o \in Executors \ {e} : ex'[o] = ex[o]
      PROVE  Rest
  <2>1. \A f \in OutcomeColumns : ex[e].obj[f] = ex[e].base[f]
    BY <1>4, <1>i DEF SessionsFollow
  <2>2. \A f \in OutcomeColumns : row'[f] = row[f]
    BY <1>4, <1>t, <2>1, FlushKeepsOutcome DEF Flush
  <2>3. /\ row'.status = row.status /\ row'.output = row.output /\ row'.error = row.error
        /\ row'.completed_at = row.completed_at /\ row'.state_snapshot = row.state_snapshot
    BY <2>2, SameOutcome
  <2>4. RowConsistent' /\ Final
    BY <1>4, <1>i, <2>3 DEF RowConsistent, OneStory, history
  <2>5. ex[e].obj.status = ex[e].base.status
    BY <2>1, SameOutcome
  <2>6. SessionsFollow' /\ SweepsFollow'
    BY <1>4, <1>i, <2>5 DEF SessionsFollow, SweepsFollow, Live, history
  <2> QED
    BY <2>4, <2>6
<1>5. ASSUME NEW e \in Executors, Heartbeat(e) PROVE Rest
  <2>1. ex' = [ex EXCEPT ![e] = [ex[e] EXCEPT !.base = ex[e].obj]]
    BY <1>5 DEF Heartbeat
  <2> QED
    BY <1>4, <1>5, <1>t, <2>1 DEF Heartbeat, ExState, Live
<1>6. ASSUME NEW e \in Executors, CommitStep(e) PROVE Rest
  <2>1. ex' = [ex EXCEPT ![e] = [ex[e] EXCEPT !.base = ex[e].obj, !.seq = @ + 1]]
    BY <1>6 DEF CommitStep
  <2> QED
    BY <1>4, <1>6, <1>t, <2>1 DEF CommitStep, ExState, Live
<1>7. ASSUME NEW e \in Executors, LoopReturns(e) PROVE Rest
  <2>1. PICK r \in Results : ex' = [ex EXCEPT ![e] = [ex[e] EXCEPT !.pc = "finalize", !.result = r]]
    BY <1>7 DEF LoopReturns
  <2>2. /\ ex'[e].obj = ex[e].obj /\ ex'[e].base = ex[e].base
        /\ \A o \in Executors \ {e} : ex'[o] = ex[o]
    BY <1>t, <2>1 DEF ExState
  <2>3. Live(e) /\ UNCHANGED <<row, sw, stale, revived>>
    BY <1>7 DEF LoopReturns, Live, history
  <2>4. SessionsFollow' /\ SweepsFollow'
    BY <1>i, <2>2, <2>3 DEF SessionsFollow, SweepsFollow, Live
  <2> QED
    BY <1>s, <2>3, <2>4
<1>8. ASSUME NEW e \in Executors, CommitOutcome(e) PROVE Rest
  <2>1. /\ Outcome(e) \in Rows
        /\ ex[e].result \in Results
    BY <1>8, OutcomeType DEF CommitOutcome, OutcomeInv, Typed
  <2>2. /\ row' = Merge(row, ex[e].base, Outcome(e))
        /\ stale' = (stale \/ Outdated(ex[e].base))
        /\ revived' = revived /\ sw' = sw /\ ex[e].pc = "finalize"
    BY <1>8 DEF CommitOutcome, Flush
  <2>3. ASSUME ~stale', ~revived PROVE RowConsistent' /\ Final
    <3>1. ~stale /\ \A f \in OutcomeColumns : row[f] = ex[e].base[f]
      BY <2>2, <2>3 DEF Outdated
    <3>2. \A f \in OutcomeColumns : row'[f] = Outcome(e)[f]
      BY <1>t, <2>1, <2>2, <3>1, MergeOverBase
    <3>3. ex[e].obj.completed_at = row.completed_at /\ row.status \notin _TERMINAL_RUN_STATUSES
      BY <1>i, <2>2, <2>3, <3>1, SameOutcome DEF SessionsFollow, Live
    <3>4. ex[e].obj.completed_at = None
      BY <1>i, <2>3, <3>1, <3>3 DEF RowConsistent, OneStory
    <3>5. /\ row'.status = Outcome(e).status /\ row'.output = Outcome(e).output
          /\ row'.error = Outcome(e).error
          /\ row'.completed_at = Outcome(e).completed_at
          /\ row'.state_snapshot = Outcome(e).state_snapshot
      BY <3>2, SameOutcome
    <3>6. OneStory'
      BY <1>t, <2>1, <3>4, <3>5, OutcomeConsistent DEF OneStory
    <3> QED
      BY <3>3, <3>6 DEF RowConsistent
  <2>4. RowConsistent' /\ Final
    BY <2>2, <2>3 DEF RowConsistent
  <2>6. /\ ex'[e].pc = "done"
        /\ \A o \in Executors \ {e} : ex'[o] = ex[o]
    BY <1>8, EndedType DEF CommitOutcome, OutcomeInv
  <2>7. SessionsFollow' /\ SweepsFollow'
    BY <1>i, <2>2, <2>6 DEF SessionsFollow, SweepsFollow, Live
  <2> QED
    BY <2>4, <2>7
<1>9. ASSUME NEW e \in Executors, Die(e) PROVE Rest
  <2>1. UNCHANGED <<row, sw, stale, revived>>
    BY <1>9 DEF Die, history
  <2>2. ex'[e].pc = "dead" /\ \A o \in Executors \ {e} : ex'[o] = ex[o]
    BY <1>9, EndedType DEF Die, OutcomeInv
  <2>3. SessionsFollow' /\ SweepsFollow'
    BY <1>i, <2>1, <2>2 DEF SessionsFollow, SweepsFollow, Live
  <2> QED
    BY <1>s, <2>1, <2>3
<1>10. ASSUME NEW s \in Sweepers, SweepRead(s) PROVE Rest
  <2>1. UNCHANGED <<row, ex, stale, revived>>
    BY <1>10 DEF SweepRead, history
  <2>2. PICK new : /\ sw' = [sw EXCEPT ![s] = new]
                   /\ \/ new.pc = "done"
                      \/ new.base = row /\ row.status \notin _TERMINAL_RUN_STATUSES
    <3>1. CASE row.status \in _TERMINAL_RUN_STATUSES \cup {"absent"}
      <4>1. sw' = [sw EXCEPT ![s] = Swept]
        BY <1>10, <3>1, Zenon DEF SweepRead
      <4>2. Swept.pc = "done" /\ Swept.base = AbsentRow
        BY DEF Swept
      <4> QED
        BY <4>1, <4>2
    <3>2. CASE row.status \notin _TERMINAL_RUN_STATUSES \cup {"absent"}
      <4> DEFINE new == [pc |-> "read", base |-> row]
      <4>1. sw' = [sw EXCEPT ![s] = new]
        BY <1>10, <3>2, Zenon DEF SweepRead
      <4>2. new.pc = "read" /\ new.base = row
        OBVIOUS
      <4> HIDE DEF new
      <4> QED
        BY <3>2, <4>1, <4>2
    <3> QED
      BY <3>1, <3>2
  <2>3. SessionsFollow' /\ SweepsFollow'
    BY <1>i, <1>t, <2>1, <2>2 DEF SessionsFollow, SweepsFollow, Live
  <2> QED
    BY <1>s, <2>1, <2>3
<1>11. ASSUME NEW s \in Sweepers, SweepWrite(s) PROVE Rest
  <2> DEFINE failed == [sw[s].base EXCEPT !.status = "failed", !.error = s,
                                          !.completed_at = s, !.state_snapshot = None]
  <2>1. /\ failed \in Rows
        /\ failed.status = "failed" /\ failed.error = s
        /\ failed.completed_at = s /\ failed.state_snapshot = None
    BY <1>t DEF Rows, Status, Callers
  <2>2. /\ row' = Merge(row, sw[s].base, failed)
        /\ stale' = (stale \/ (row.status # "failed" /\ Outdated(sw[s].base)))
        /\ sw[s].pc = "read" /\ UNCHANGED <<ex, revived>>
    BY <1>11 DEF SweepWrite
  <2> HIDE DEF failed
  <2>3. sw[s].base.status \notin _TERMINAL_RUN_STATUSES /\ s # None
    BY <1>i, <2>2, RunAssumption DEF SweepsFollow
  <2>4. /\ row'.status = "failed"
        /\ row'.completed_at = IF s # sw[s].base.completed_at THEN s ELSE row.completed_at
        /\ row'.error = IF s # sw[s].base.error THEN s ELSE row.error
        /\ row'.state_snapshot = IF None # sw[s].base.state_snapshot THEN None
                                 ELSE row.state_snapshot
    <3>1. "failed" # sw[s].base.status
      BY <2>3 DEF _TERMINAL_RUN_STATUSES
    <3>2. /\ row'.status = "failed"
          /\ row'.completed_at = IF s # sw[s].base.completed_at THEN s ELSE row.completed_at
      BY <1>t, <2>1, <2>2, <3>1, MergeType
    <3>3. /\ row'.error = IF s # sw[s].base.error THEN s ELSE row.error
          /\ row'.state_snapshot = IF None # sw[s].base.state_snapshot THEN None
                                   ELSE row.state_snapshot
      BY <1>t, <2>1, <2>2, MergeOutcome
    <3> QED
      BY <3>2, <3>3
  <2>5. ASSUME ~stale', ~revived PROVE RowConsistent' /\ Final
    <3>1. OneStory
      BY <1>i, <2>2, <2>5 DEF RowConsistent
    <3>2. CASE row.status = "failed"
      <4>1. row'.completed_at # None /\ row'.error # None /\ row'.state_snapshot = None
        BY <2>3, <2>4, <3>1, <3>2 DEF OneStory, _TERMINAL_RUN_STATUSES
      <4> QED
        BY <2>4, <3>2, <4>1 DEF RowConsistent, OneStory, _TERMINAL_RUN_STATUSES
    <3>3. CASE row.status # "failed"
      <4>1. \A f \in OutcomeColumns : row[f] = sw[s].base[f]
        BY <2>2, <2>5, <3>3 DEF Outdated
      <4>2. /\ row.status \notin _TERMINAL_RUN_STATUSES
            /\ row.completed_at = sw[s].base.completed_at
            /\ row.error = sw[s].base.error
            /\ row.state_snapshot = sw[s].base.state_snapshot
        BY <2>3, <4>1, SameOutcome
      <4>3. row'.completed_at # None /\ row'.error # None /\ row'.state_snapshot = None
        BY <2>3, <2>4, <4>2
      <4> QED
        BY <2>4, <4>2, <4>3 DEF RowConsistent, OneStory, _TERMINAL_RUN_STATUSES
    <3> QED
      BY <3>2, <3>3
  <2>6. RowConsistent' /\ Final
    BY <2>2, <2>5 DEF RowConsistent
  <2>7. sw' = [sw EXCEPT ![s] = Swept]
    BY <1>11 DEF SweepWrite
  <2>8. sw'[s].pc = "done" /\ \A o \in Sweepers \ {s} : sw'[o] = sw[o]
    BY <1>t, <2>7 DEF Swept
  <2>9. SessionsFollow' /\ SweepsFollow'
    BY <1>i, <2>2, <2>8 DEF SessionsFollow, SweepsFollow, Live
  <2> QED
    BY <2>6, <2>9
<1>12. CASE UNCHANGED vars
  BY <1>12, <1>i, <1>s DEF vars, SessionsFollow, SweepsFollow, Live
<1> QED
  BY <1>1, <1>2, <1>3, <1>5, <1>6, <1>7, <1>8, <1>9, <1>10, <1>11, <1>12 DEF Next

LEMMA OutcomeInvariant == Spec => []OutcomeInv
<1>1. OutcomeInv /\ [Next]_vars => OutcomeInv'
  BY OutcomeStep
<1> QED
  BY OutcomeInit, <1>1, PTL DEF Spec

(* The status, the completion time, the snapshot, the error and the output *)
(* of a run agree however executions, commits, deaths and sweeps overlap,  *)
(* until a call writes over an outcome it had not seen or a run that was   *)
(* over is executed again.                                                 *)
THEOREM RowCorrect == Spec => []RowConsistent
<1>1. OutcomeInv => RowConsistent
  BY DEF OutcomeInv
<1> QED
  BY OutcomeInvariant, <1>1, PTL

(* The status of a run that is over changes by the same two causes only,   *)
(* although nothing in fail_run or execute_run locks the row.              *)
THEOREM TerminalStays == Spec => TerminalIsFinal
<1>1. OutcomeInv /\ [Next]_vars =>
        [row.status \in _TERMINAL_RUN_STATUSES =>
           row'.status = row.status \/ stale' \/ revived]_vars
  BY OutcomeStep
<1> QED
  BY OutcomeInvariant, <1>1, PTL DEF Spec, TerminalIsFinal

-----------------------------------------------------------------------------
(***************************************************************************)
(* The plain loop, from its start through every pause and resumption.      *)
(***************************************************************************)

(* Where a run is tells what it has recorded: until it is over its status  *)
(* is the initial one and there is no snapshot; a phase is about to run    *)
(* only in an iteration that is left, and only within the limits or after  *)
(* a checker that raised.                                                  *)
Located ==
  /\ pc \notin {"over", "returned"} => status = "completed" /\ snap = NoSnap
  /\ pc \in {"over", "returned"} => snap = IF status = "paused" THEN it ELSE NoSnap
  /\ pc \in {"limits", "execute", "process"} => it < MaxIterations
  /\ pc = "execute" => ~(Limits /\ exceeded) \/ unchecked

(* A phase is still to be executed at the place the loop is at.            *)
Ahead == pc \in {"boundary", "limits", "execute"} \/ status = "paused"

(* Steps are recorded at most once for each phase that was left behind.    *)
StepsCounted ==
  /\ nsteps <= 4 * it + ph
  /\ Ahead => nsteps < 4 * it + ph
  /\ it = MaxIterations => nsteps = 0

Inv == RuntimeTypeOK /\ Located /\ StepsCounted

(* The phase executed last is the one before the place the loop is at, or  *)
(* the one it is processing.  A paused run keeps that place, which is how  *)
(* the snapshot and the last RunStep lead back to it.                      *)
LastBehind ==
  /\ last \in 0..4 * (MaxIterations + 1)
  /\ Ahead => last = Place(it, ph) - 1
  /\ pc = "process" => last = Place(it, ph)

StoryInv == Inv /\ LastBehind /\ pauses \in 0..MaxPauses

-----------------------------------------------------------------------------
LEMMA InvInit == RuntimeInit => Inv
<1> SUFFICES ASSUME RuntimeInit PROVE Inv
  OBVIOUS
<1>1. PICK s \in Starts : it = s.iteration /\ ph = s.phase
  BY DEF RuntimeInit
<1>2. it \in 0..MaxIterations /\ ph \in 1..4
  BY <1>1, RuntimeAssumption
<1>3. RuntimeTypeOK
  <2>1. snap \in NoSnap..MaxIterations /\ nsteps \in 0..MaxRunSteps
    BY RuntimeAssumption DEF RuntimeInit, NoSnap, MaxRunSteps
  <2>2. exceeded \in BOOLEAN
    BY Zenon DEF RuntimeInit
  <2> QED
    BY <1>2, <2>1, <2>2 DEF RuntimeInit, RuntimeTypeOK
<1>4. Located
  BY DEF RuntimeInit, Located
<1>5. StepsCounted
  BY <1>2 DEF RuntimeInit, StepsCounted
<1> QED
  BY <1>3, <1>4, <1>5 DEF Inv

(* One case per action of the loop; the two events touch nothing else.     *)
LEMMA InvStep == Inv /\ [RuntimeNext]_rtVars => Inv'
<1> SUFFICES ASSUME Inv, [RuntimeNext]_rtVars PROVE Inv'
  OBVIOUS
<1> USE RuntimeAssumption DEF Inv, RuntimeTypeOK, Located, StepsCounted, Ahead, NoSnap,
                              MaxRunSteps
<1>1. CASE SetCancel
  BY <1>1 DEF SetCancel
<1>2. CASE SetPause
  BY <1>2 DEF SetPause
<1>3. CASE Interrupt
  BY <1>3 DEF Interrupt
<1>4. CASE PassBoundary
  BY <1>4 DEF PassBoundary
<1>5. CASE NothingLeft
  BY <1>5 DEF NothingLeft
<1>6. CASE CheckLimits
  BY <1>6 DEF CheckLimits
<1>7. CASE PhaseRuns
  <2>1. RuntimeTypeOK'
    <3>1. exceeded' \in BOOLEAN
      BY <1>7, Zenon DEF PhaseRuns
    <3>2. nsteps' \in 0..MaxRunSteps
      BY <1>7 DEF PhaseRuns
    <3> QED
      BY <1>7, <3>1, <3>2 DEF PhaseRuns
  <2>2. Located'
    BY <1>7 DEF PhaseRuns
  <2>3. StepsCounted'
    BY <1>7 DEF PhaseRuns
  <2> QED
    BY <2>1, <2>2, <2>3
<1>8. CASE PhaseRaises
  BY <1>8 DEF PhaseRaises
<1>9. CASE Process
  <2>1. RuntimeTypeOK'
    <3>1. err' \in BOOLEAN /\ status' \in {"completed", "failed", "cancelled", "paused"}
      BY <1>9, Zenon DEF Process
    <3>2. pc' \in {"boundary", "over"} /\ it' \in 0..MaxIterations /\ ph' \in 1..4
      BY <1>9 DEF Process
    <3> QED
      BY <1>9, <3>1, <3>2 DEF Process
  <2>2. Located'
    BY <1>9 DEF Process
  <2>3. StepsCounted'
    BY <1>9 DEF Process
  <2> QED
    BY <2>1, <2>2, <2>3
<1>10. CASE Return
  BY <1>10 DEF Return
<1>11. CASE UNCHANGED rtVars
  BY <1>11 DEF rtVars
<1> QED
  BY <1>1, <1>2, <1>3, <1>4, <1>5, <1>6, <1>7, <1>8, <1>9, <1>10, <1>11
     DEF RuntimeNext, LoopStep

LEMMA StoryStarts == StoryInit => StoryInv
<1> SUFFICES ASSUME StoryInit PROVE StoryInv
  OBVIOUS
<1>1. Inv
  BY InvInit DEF StoryInit
<1>2. LastBehind /\ pauses \in 0..MaxPauses
  BY <1>1, RuntimeAssumption, StoryAssumption
     DEF StoryInit, RuntimeInit, Inv, RuntimeTypeOK, LastBehind, Ahead, Place
<1> QED
  BY <1>1, <1>2 DEF StoryInv

(* The place a snapshot and the last RunStep lead back to.                 *)
LEMMA ResumesWhereItStopped ==
  ASSUME NEW i \in Nat, NEW p \in 1..4, NEW l, l = Place(i, p) - 1
  PROVE  (l % 4) + 1 = p
<1>1. CASE p = 1
  BY <1>1 DEF Place
<1>2. CASE p = 2
  BY <1>2 DEF Place
<1>3. CASE p = 3
  BY <1>3 DEF Place
<1>4. CASE p = 4
  BY <1>4 DEF Place
<1> QED
  BY <1>1, <1>2, <1>3, <1>4

LEMMA StorySteps ==
  ASSUME StoryInv, [StoryNext]_storyVars
  PROVE  /\ StoryInv'
         /\ pc = "execute" /\ pc' = "process" => Place(it, ph) = last + 1
<1> DEFINE Ordered == pc = "execute" /\ pc' = "process" => Place(it, ph) = last + 1
<1>t. /\ RuntimeTypeOK /\ Located /\ StepsCounted /\ LastBehind
      /\ it \in 0..MaxIterations /\ ph \in 1..4 /\ last \in Nat /\ MaxIterations \in Nat
      /\ pauses \in 0..MaxPauses /\ MaxPauses \in Nat
  BY RuntimeAssumption, StoryAssumption DEF StoryInv, Inv, RuntimeTypeOK, LastBehind
<1>1. CASE Runs
  <2>1. Inv' /\ pauses' = pauses
    BY <1>1, InvStep DEF Runs, StoryInv
  <2>2. Ordered
    BY <1>t DEF LastBehind, Ahead, Place
  <2>3. CASE PhaseRuns
    <3>1. last' = Place(it, ph) /\ pc' = "process" /\ it' = it /\ ph' = ph
          /\ status' # "paused"
      BY <1>1, <1>t, <2>3 DEF Runs, PhaseRuns, Located
    <3>2. LastBehind'
      BY <1>t, <3>1 DEF LastBehind, Ahead, Place
    <3> QED
      BY <1>t, <2>1, <2>2, <3>2 DEF StoryInv
  <2>4. CASE ~PhaseRuns
    <3>1. last' = last
      BY <1>1, <2>4 DEF Runs, RuntimeNext, LoopStep, SetCancel, SetPause, Interrupt, PassBoundary,
         NothingLeft, CheckLimits, PhaseRaises, Process, Return
    <3>2. CASE SetCancel \/ SetPause
      BY <1>t, <2>1, <2>2, <3>1, <3>2 DEF SetCancel, SetPause, StoryInv, LastBehind, Ahead, Place
    <3>3. CASE Interrupt \/ PassBoundary \/ NothingLeft \/ Return
      BY <1>t, <2>1, <2>2, <3>1, <3>3
         DEF Interrupt, PassBoundary, NothingLeft, Return, StoryInv, LastBehind, Ahead, Place, Located
    <3>4. CASE CheckLimits \/ PhaseRaises
      BY <1>t, <2>1, <2>2, <3>1, <3>4
         DEF CheckLimits, PhaseRaises, StoryInv, LastBehind, Ahead, Place, Located
    <3>5. CASE Process
      <4>1. pc = "process" /\ last' = Place(it, ph) /\ status # "paused"
        BY <1>t, <3>1, <3>5 DEF Process, LastBehind, Located
      <4>2. LastBehind'
        BY <1>t, <3>1, <3>5, <4>1 DEF Process, LastBehind, Ahead, Place
      <4> QED
        BY <1>t, <2>1, <2>2, <4>2 DEF StoryInv
    <3> QED
      BY <1>1, <2>4, <3>2, <3>3, <3>4, <3>5 DEF Runs, RuntimeNext, LoopStep
  <2> QED
    BY <2>3, <2>4
<1>2. CASE Resume
  <2>1. /\ pc = "returned" /\ status = "paused" /\ snap = it /\ last = Place(it, ph) - 1
        /\ nsteps < 4 * it + ph
    BY <1>2, <1>t DEF Resume, Located, LastBehind, StepsCounted, Ahead
  <2>2. it' = it /\ ph' = ph
    BY <1>2, <1>t, <2>1, ResumesWhereItStopped DEF Resume
  <2>3. /\ pc' = "boundary" /\ status' = "completed" /\ snap' = NoSnap
        /\ err' = FALSE /\ cancel' = FALSE /\ pause' = FALSE /\ unchecked' = FALSE
        /\ exceeded' = exceeded /\ nsteps' = nsteps /\ last' = last
        /\ pauses' = pauses + 1 /\ pauses < MaxPauses
    BY <1>2 DEF Resume
  <2>4. RuntimeTypeOK'
    <3>1. /\ err' \in BOOLEAN /\ cancel' \in BOOLEAN /\ pause' \in BOOLEAN
          /\ unchecked' \in BOOLEAN /\ exceeded' \in BOOLEAN
      BY <1>t, <2>3, Zenon DEF RuntimeTypeOK
    <3>2. snap' \in NoSnap..MaxIterations
      BY <1>t, <2>3 DEF NoSnap
    <3> QED
      BY <1>t, <2>2, <2>3, <3>1, <3>2 DEF RuntimeTypeOK
  <2>5. Located' /\ StepsCounted'
    BY <1>t, <2>1, <2>2, <2>3 DEF Located, StepsCounted, Ahead
  <2>6. LastBehind'
    BY <1>t, <2>1, <2>2, <2>3 DEF LastBehind, Ahead, Place
  <2> QED
    BY <1>t, <2>1, <2>3, <2>4, <2>5, <2>6 DEF StoryInv, Inv
<1>3. CASE UNCHANGED storyVars
  <2>1. Inv'
    BY <1>3, InvStep DEF storyVars, StoryInv
  <2>2. /\ pc' = pc /\ it' = it /\ ph' = ph /\ status' = status /\ last' = last
        /\ pauses' = pauses
    BY <1>3 DEF storyVars, rtVars
  <2>3. LastBehind'
    BY <1>t, <2>2 DEF LastBehind, Ahead, Place
  <2> QED
    BY <1>t, <2>1, <2>2, <2>3 DEF StoryInv
<1> QED
  BY <1>1, <1>2, <1>3 DEF StoryNext

LEMMA StoryInvariant == StorySpec => []StoryInv
<1>1. StoryInv /\ [StoryNext]_storyVars => StoryInv'
  BY StorySteps
<1> QED
  BY StoryStarts, <1>1, PTL DEF StorySpec

-----------------------------------------------------------------------------
(* Type correctness: in particular the calls of AgentRuntime.run record at *)
(* most one step per phase and iteration, wherever the first one starts    *)
(* and however often the run is paused.                                    *)
THEOREM RuntimeTypeCorrect == StorySpec => []StoryTypeOK
<1>1. StoryInv => StoryTypeOK
  BY DEF StoryInv, Inv, LastBehind, StoryTypeOK
<1> QED
  BY <1>1, StoryInvariant, PTL

(* A run that is paused and resumed, as often as it is and wherever the    *)
(* pause is seen, executes its phases in order, none twice and none left   *)
(* out.                                                                    *)
THEOREM StoryCorrect == StorySpec => PhasesInOrder
<1>1. StoryInv /\ [StoryNext]_storyVars =>
        [pc = "execute" /\ pc' = "process" => Place(it, ph) = last + 1]_storyVars
  BY StorySteps
<1> QED
  BY <1>1, StoryInvariant, PTL DEF StorySpec, PhasesInOrder

(* Once the installed checker would report exceeded limits, and does not   *)
(* raise instead, no call of run executes a further phase.                 *)
THEOREM LimitsCorrect == StorySpec => PhasesWithinLimits
<1>1. StoryInv /\ [StoryNext]_storyVars =>
        [Limits /\ exceeded /\ ~unchecked => nsteps' = nsteps]_rtVars
  BY DEF StoryInv, Inv, Located, RuntimeTypeOK, StoryNext, Runs, Resume, RuntimeNext, LoopStep,
     SetCancel, SetPause, Interrupt, PassBoundary, NothingLeft, CheckLimits, PhaseRuns,
     PhaseRaises, Process, Return, rtVars, storyVars
<1> QED
  BY <1>1, StoryInvariant, PTL DEF StorySpec, PhasesWithinLimits
=============================================================================
