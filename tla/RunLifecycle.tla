---------------------------- MODULE RunLifecycle ----------------------------
(***************************************************************************)
(* The life of one AgentRun row (motoro/runner.py): create_run inserts it, *)
(* every call of execute_run loads it into a session of its own, commits   *)
(* RunStep rows and heartbeats while the agent loop runs and writes the    *)
(* outcome back with a last commit, and fail_run forces it to FAILED from  *)
(* outside.  Calls are concurrent: nothing in the code locks the row.      *)
(*                                                                         *)
(* A session never re-reads the row it loaded (expire_on_commit=False),    *)
(* and a flush emits only the columns whose value differs from the value   *)
(* the session last loaded or wrote.  Both facts decide what two sessions  *)
(* leave behind in the same row, so both are modelled (Merge).             *)
(*                                                                         *)
(* The loop itself is abstracted to the outcomes it can return; it is      *)
(* modelled in PatternOrchestrator.                                        *)
(***************************************************************************)
EXTENDS Naturals, FiniteSets, RunResult

CONSTANTS
  Executors,   \* the calls of execute_run
  Sweepers,    \* the calls of fail_run
  Reapers,     \* those the product makes once nobody executes the run
  None,        \* SQL NULL
  MaxEdits,    \* bound: updates of the agent's configuration
  MaxSteps,    \* bound: RunSteps one execution commits
  MaxDeaths    \* bound: executions that end without a commit

ASSUME RunAssumption ==
  /\ Executors \cap Sweepers = {}
  /\ Reapers \subseteq Sweepers
  /\ None \notin Executors \cup Sweepers \cup Nat
  /\ MaxEdits \in Nat
  /\ MaxSteps \in Nat
  /\ MaxDeaths \in Nat

VARIABLES
  agentCfg,  \* revision of the Agent row's execution settings
  row,       \* the AgentRun row as committed
  steps,     \* the committed RunStep rows of the run
  ex,        \* the execute_run calls
  sw,        \* the fail_run calls
  stale,     \* history: a call wrote an outcome over one it had not seen
  revived,   \* history: an execution loaded a run that was over
  crowded    \* history: one loaded an unpinned run that another executed

vars == <<agentCfg, row, steps, ex, sw, stale, revived, crowded>>

history == <<stale, revived, crowded>>

-----------------------------------------------------------------------------
(* Rows and sessions                                                       *)

Callers == Executors \cup Sweepers

(* RunStatus; "absent" is a row not inserted yet.  RUNNING and             *)
(* AWAITING_HUMAN are declared in the code but written by none of it.      *)
Status == {"absent", "pending", "paused", "completed", "failed", "cancelled"}

Configs == 0..MaxEdits

(* The columns the calls write.  A text or a timestamp is represented by   *)
(* the call that wrote it: two calls never write the same value.           *)
Rows == [status: Status,
         output: Executors \cup {None},
         error: Callers \cup {None},
         completed_at: Callers \cup {None},
         state_snapshot: Executors \cup {None},
         config_snapshot: Configs \cup {None}]

AbsentRow == [status |-> "absent", output |-> None, error |-> None,
              completed_at |-> None, state_snapshot |-> None,
              config_snapshot |-> None]

(* The UPDATE a flush emits: the columns in which the session's object obj *)
(* differs from what the session loaded or last wrote, base.               *)
Merge(cur, base, obj) ==
  [f \in DOMAIN cur |-> IF obj[f] # base[f] THEN obj[f] ELSE cur[f]]

ExState == [pc: {"idle", "loop", "finalize", "done", "dead"},
            base: Rows, obj: Rows,
            seq: 0..MaxSteps,
            result: Results \cup {NoResult}]

SwState == [pc: {"idle", "read", "done"}, base: Rows]

StepRows == [by: Executors, sequence: 0..MaxSteps, config: Configs]

Live(e) == ex[e].pc \in {"loop", "finalize"}

(* A session that was closed.                                              *)
Ended(e, how) == [pc |-> how, base |-> AbsentRow, obj |-> AbsentRow,
                  seq |-> ex[e].seq, result |-> NoResult]

Swept == [pc |-> "done", base |-> AbsentRow]

(* The columns that tell the outcome of a run, and whether another session *)
(* has written one of them since the session that holds base.              *)
OutcomeColumns == {"status", "output", "error", "completed_at", "state_snapshot"}

Outdated(base) == \E f \in OutcomeColumns : row[f] # base[f]

RunTypeOK ==
  /\ agentCfg \in Configs
  /\ row \in Rows
  /\ steps \subseteq StepRows
  /\ ex \in [Executors -> ExState]
  /\ sw \in [Sweepers -> SwState]
  /\ stale \in BOOLEAN /\ revived \in BOOLEAN /\ crowded \in BOOLEAN

Init ==
  /\ agentCfg = 0
  /\ row = AbsentRow
  /\ steps = {}
  /\ ex = [e \in Executors |-> [pc |-> "idle", base |-> AbsentRow, obj |-> AbsentRow,
                                seq |-> 0, result |-> NoResult]]
  /\ sw = [s \in Sweepers |-> [pc |-> "idle", base |-> AbsentRow]]
  /\ stale = FALSE /\ revived = FALSE /\ crowded = FALSE

-----------------------------------------------------------------------------
(* The agent and the creation of the run                                   *)

(* update_agent: some execution setting of the agent changes.              *)
UpdateAgent ==
  /\ agentCfg < MaxEdits
  /\ agentCfg' = agentCfg + 1
  /\ UNCHANGED <<row, steps, ex, sw, history>>

(* create_run: a PENDING row, with the settings pinned from the live agent *)
(* when the caller supplies config_snapshot.                               *)
CreateRun ==
  /\ row.status = "absent"
  /\ \E pinned \in {None, agentCfg} :
       row' = [AbsentRow EXCEPT !.status = "pending", !.config_snapshot = pinned]
  /\ UNCHANGED <<agentCfg, steps, ex, sw, history>>

-----------------------------------------------------------------------------
(* execute_run                                                             *)

(* Mutant of Load: every execution reads the settings of the live agent.   *)
LoadLiveSettings(e) ==
  /\ ex[e].pc = "idle" /\ row.status # "absent"
  /\ ex' = [ex EXCEPT ![e] = [@ EXCEPT !.pc = "loop", !.base = row,
                                       !.obj = [row EXCEPT !.config_snapshot = agentCfg]]]
  /\ revived' = (revived \/ row.status \in _TERMINAL_RUN_STATUSES)
  /\ crowded' = (crowded \/ (row.config_snapshot = None /\ \E o \in Executors : Live(o)))
  /\ UNCHANGED <<agentCfg, row, steps, sw, stale>>

(* The first SELECT, up to orchestrator.run.  There is no check of the     *)
(* status and no row lock.  An unpinned run is pinned in the session's     *)
(* object only; it reaches the row with the session's first commit.        *)
Load(e) ==
  /\ ex[e].pc = "idle"
  /\ row.status # "absent"
  /\ LET pin == IF row.config_snapshot = None THEN agentCfg ELSE row.config_snapshot
     IN ex' = [ex EXCEPT ![e] = [@ EXCEPT !.pc = "loop", !.base = row,
                                          !.obj = [row EXCEPT !.config_snapshot = pin]]]
  /\ revived' = (revived \/ row.status \in _TERMINAL_RUN_STATUSES)
  /\ crowded' = (crowded \/ (row.config_snapshot = None /\ \E o \in Executors : Live(o)))
  /\ UNCHANGED <<agentCfg, row, steps, sw, stale>>

(* db.commit: the dirty columns reach the row.                             *)
Flush(e, obj) == row' = Merge(row, ex[e].base, obj)

(* _update_heartbeat before a phase: its commit flushes the session.       *)
Heartbeat(e) ==
  /\ ex[e].pc = "loop"
  /\ Flush(e, ex[e].obj)
  /\ ex' = [ex EXCEPT ![e].base = ex[e].obj]
  /\ UNCHANGED <<agentCfg, steps, sw, history>>

(* Mutant of CommitStep: a step is numbered by the steps the run has.      *)
CommitStepByCount(e) ==
  /\ ex[e].pc = "loop" /\ ex[e].seq < MaxSteps
  /\ steps' = steps \cup {[by |-> e, sequence |-> Cardinality(steps),
                           config |-> ex[e].obj.config_snapshot]}
  /\ Flush(e, ex[e].obj)
  /\ ex' = [ex EXCEPT ![e].base = ex[e].obj, ![e].seq = @ + 1]
  /\ UNCHANGED <<agentCfg, sw, history>>

(* A phase of the loop ran: its RunStep, numbered by a counter that starts *)
(* at 0 in every AgentRuntime, is committed with the dirty columns.        *)
CommitStep(e) ==
  /\ ex[e].pc = "loop"
  /\ ex[e].seq < MaxSteps
  /\ steps' = steps \cup {[by |-> e, sequence |-> ex[e].seq,
                           config |-> ex[e].obj.config_snapshot]}
  /\ Flush(e, ex[e].obj)
  /\ ex' = [ex EXCEPT ![e].base = ex[e].obj, ![e].seq = @ + 1]
  /\ UNCHANGED <<agentCfg, sw, history>>

(* orchestrator.run returns.                                               *)
LoopReturns(e) ==
  /\ ex[e].pc = "loop"
  /\ \E r \in Results : ex' = [ex EXCEPT ![e].pc = "finalize", ![e].result = r]
  /\ UNCHANGED <<agentCfg, row, steps, sw, history>>

(* Mutant of Outcome: the snapshot a run was resumed from is kept.         *)
OutcomeKeepsSnapshot(e) ==
  LET r == ex[e].result
      o == [ex[e].obj EXCEPT !.status = r.status, !.output = e,
                             !.error = IF r.error THEN e ELSE None]
  IN IF r.status = "paused" THEN [o EXCEPT !.state_snapshot = e] ELSE [o EXCEPT !.completed_at = e]

(* Mutant of Outcome: only a completed run gets its time.                  *)
OutcomeTimesSuccess(e) ==
  LET r == ex[e].result
  IN [ex[e].obj EXCEPT !.status = r.status, !.output = e, !.error = IF r.error THEN e ELSE None,
        !.completed_at = IF r.status = "completed" THEN e ELSE @,
        !.state_snapshot = IF r.status = "paused" THEN e ELSE None]

(* What execute_run assigns to the session's object once the loop is over. *)
Outcome(e) ==
  LET r == ex[e].result
      o == [ex[e].obj EXCEPT !.status = r.status, !.output = e,
                             !.error = IF r.error THEN e ELSE None]
  IN IF r.status = "paused"
     THEN [o EXCEPT !.state_snapshot = e]
     ELSE [o EXCEPT !.completed_at = e, !.state_snapshot = None]

(* finalize_output returned (it may have awaited a model); the outcome is  *)
(* committed.                                                              *)
CommitOutcome(e) ==
  /\ ex[e].pc = "finalize"
  /\ Flush(e, Outcome(e))
  /\ ex' = [ex EXCEPT ![e] = Ended(e, "done")]
  /\ stale' = (stale \/ Outdated(ex[e].base))
  /\ UNCHANGED <<agentCfg, steps, sw, revived, crowded>>

(* The process dies, the task is cancelled, or an exception (an invalid    *)
(* pattern, a failed commit) leaves execute_run: the session rolls back    *)
(* and nothing is written.                                                 *)
Die(e) ==
  /\ Live(e)
  /\ Cardinality({o \in Executors : ex[o].pc = "dead"}) < MaxDeaths
  /\ ex' = [ex EXCEPT ![e] = Ended(e, "dead")]
  /\ UNCHANGED <<agentCfg, row, steps, sw, history>>

-----------------------------------------------------------------------------
(* fail_run                                                                *)

(* Mutant of SweepRead: the status is not tested.                          *)
SweepReadUntested(s) ==
  /\ sw[s].pc = "idle" /\ row.status # "absent"
  /\ sw' = [sw EXCEPT ![s] = [pc |-> "read", base |-> row]]
  /\ UNCHANGED <<agentCfg, row, steps, ex, history>>

(* Mutant of SweepRead: only a run that says it is RUNNING is failed.      *)
SweepReadRunning(s) ==
  /\ sw[s].pc = "idle"
  /\ s \in Reapers => row.status # "absent" /\ \A e \in Executors : ~Live(e)
  /\ sw' = [sw EXCEPT ![s] = IF row.status = "running" THEN [pc |-> "read", base |-> row] ELSE Swept]
  /\ UNCHANGED <<agentCfg, row, steps, ex, history>>

(* The SELECT and the test of the status it saw: a missing or a terminal   *)
(* run is returned unchanged.                                              *)
SweepRead(s) ==
  /\ sw[s].pc = "idle"
  /\ s \in Reapers => row.status # "absent" /\ \A e \in Executors : ~Live(e)
  /\ sw' = [sw EXCEPT ![s] = IF row.status \in _TERMINAL_RUN_STATUSES \cup {"absent"}
                             THEN Swept ELSE [pc |-> "read", base |-> row]]
  /\ UNCHANGED <<agentCfg, row, steps, ex, history>>

(* Mutant of SweepWrite: the completion time is forgotten.                 *)
SweepWriteUntimed(s) ==
  /\ sw[s].pc = "read"
  /\ row' = Merge(row, sw[s].base,
                  [sw[s].base EXCEPT !.status = "failed", !.error = s, !.state_snapshot = None])
  /\ sw' = [sw EXCEPT ![s] = Swept]
  /\ stale' = (stale \/ (row.status # "failed" /\ Outdated(sw[s].base)))
  /\ UNCHANGED <<agentCfg, steps, ex, revived, crowded>>

(* The assignments and the commit.                                         *)
SweepWrite(s) ==
  /\ sw[s].pc = "read"
  /\ row' = Merge(row, sw[s].base,
                  [sw[s].base EXCEPT !.status = "failed", !.error = s,
                                     !.completed_at = s, !.state_snapshot = None])
  /\ sw' = [sw EXCEPT ![s] = Swept]
  /\ stale' = (stale \/ (row.status # "failed" /\ Outdated(sw[s].base)))
  /\ UNCHANGED <<agentCfg, steps, ex, revived, crowded>>

-----------------------------------------------------------------------------
Next ==
  \/ UpdateAgent
  \/ CreateRun
  \/ \E e \in Executors : \/ Load(e) \/ Heartbeat(e) \/ CommitStep(e)
                          \/ LoopReturns(e) \/ CommitOutcome(e) \/ Die(e)
  \/ \E s \in Sweepers : SweepRead(s) \/ SweepWrite(s)

Spec == Init /\ [][Next]_vars

(* A live call keeps taking steps: the loop returns (every phase and hook  *)
(* is bounded, see PatternOrchestrator), and what was read is written.  A  *)
(* product that reaps the runs of dead processes gets to it; nothing makes *)
(* the other sweeps happen.                                                *)
Fairness ==
  /\ \A e \in Executors : WF_vars(LoopReturns(e) \/ CommitOutcome(e))
  /\ \A s \in Reapers : WF_vars(SweepRead(s) \/ SweepWrite(s))
  /\ \A s \in Sweepers \ Reapers : WF_vars(SweepWrite(s))

FairSpec == Spec /\ Fairness

-----------------------------------------------------------------------------
(* Properties                                                              *)

(* Whatever executions and sweeps race, a row that says the run is over    *)
(* has the time it was over: no merge of two sessions' columns separates   *)
(* the terminal status from completed_at.                                  *)
TerminalHasCompletedAt ==
  row.status \in _TERMINAL_RUN_STATUSES => row.completed_at # None

(* Every RunStep was produced under the settings the row records: an edit  *)
(* of the shared agent never changes what a later execution of the run     *)
(* (after a pause, or after a crash) runs with.  Only an execution that    *)
(* starts before another one has committed the pin may pin anew.           *)
StepsUnderPinnedConfig ==
  crowded \/ \A st \in steps : st.config = row.config_snapshot

(* The columns of the row tell one story: it is over exactly when it has a *)
(* completion time, a paused run keeps the snapshot to resume from and no  *)
(* other run does, and a failed run says why.                              *)
OneStory ==
  /\ row.completed_at # None <=> row.status \in _TERMINAL_RUN_STATUSES
  /\ row.state_snapshot # None <=> row.status = "paused"
  /\ row.status = "failed" => row.error # None
  /\ row.status = "completed" => row.output = row.completed_at

(* Executions and sweeps of one row may overlap as they like, commit steps *)
(* and heartbeats into each other's rows and die: the columns disagree     *)
(* only once a call has written its outcome over an outcome it had not     *)
(* seen, or a run that was over has been executed again.  Nothing else     *)
(* mixes the columns of two sessions.                                      *)
RowConsistent == OneStory \/ stale \/ revived

(* A run that is over keeps the status it ended with, also when sweeps     *)
(* race each other or a live execution over it, but for the same two       *)
(* causes.                                                                 *)
TerminalIsFinal ==
  [][row.status \in _TERMINAL_RUN_STATUSES =>
       row'.status = row.status \/ stale' \/ revived]_vars

(* Numbers of the steps of one execution are 0, 1, ... without gaps, also  *)
(* while other executions of the same run commit steps.                    *)
StepsDensePerExecution ==
  \A e \in Executors :
    {st.sequence : st \in {x \in steps : x.by = e}} = 0..(ex[e].seq) \ {ex[e].seq}

(* The settings of a run are pinned for good once they are pinned, but for *)
(* the same cause.                                                         *)
ConfigPinnedForGood ==
  [][row.config_snapshot # None =>
       row'.config_snapshot = row.config_snapshot \/ crowded]_vars

(* A run whose execution started is settled in the end, be its process     *)
(* dead or alive and whatever else executes or sweeps it, as long as the   *)
(* product reaps it once nobody executes it.                               *)
StartedRunSettles ==
  (\E e \in Executors : ex[e].pc = "loop")
    ~> row.status \in _TERMINAL_RUN_STATUSES \cup {"paused"}

(* fail_run's docstring: "a detector racing against a slow-but-live        *)
(* execute_run commit can't clobber a status it already wrote".            *)
FailRunNeverClobbers ==
  [][(\E s \in Sweepers : SweepWrite(s)) => row.status \notin _TERMINAL_RUN_STATUSES]_vars

(* next_step_sequence's docstring: no "duplicate sequence values on        *)
(* RunStep rows" of a run.                                                 *)
SequencesUnique ==
  \A a, b \in steps : a.sequence = b.sequence => a = b
=============================================================================
