---------------------------- MODULE BatchRunner ----------------------------
(***************************************************************************)
(* The batch runner of dosweb/batch/runner.py over the state file of       *)
(* dosweb/batch/state.py: one output directory with batch_state.json and   *)
(* one sub-directory per target, a main thread that schedules the targets  *)
(* on a pool of worker threads, a SIGINT/SIGTERM handler that runs between *)
(* any two steps of the main thread, and invocations that resume after     *)
(* errors, interrupts and kills.                                           *)
(*                                                                         *)
(* A target record keeps what decides about the target: its state, its     *)
(* attempt number and the class of its error code.  batch_status.jsonl and *)
(* status.jsonl repeat the records for other readers and are not kept.     *)
(* The target pipeline is the module Pipeline; here it is an outcome.      *)
(***************************************************************************)
EXTENDS Naturals, Sequences, FiniteSets

CONSTANTS
    Targets,         \* the targets of the plan
    Plan,            \* the order in which the plan lists them
    Paused,          \* the targets whose initial state is paused
    NoTarget,        \* holder of the state lock when it is free
    MaxWorkers,      \* max_workers
    MaxAttempts,     \* max_attempts
    RetryFailed,     \* retry_failed
    MaxInvocations,  \* bound: how many times the batch is started
    MaxFaults,       \* bound: failed publications, kills and outside edits
    MaxSignals       \* bound: signals, and interrupts raised in a worker

ASSUME PlanAssumption ==
    /\ Plan \in Seq(Targets)
    /\ \A t \in Targets : \E i \in DOMAIN Plan : Plan[i] = t
    /\ \A i, j \in DOMAIN Plan : Plan[i] = Plan[j] => i = j
ASSUME TargetsAssumption == Paused \subseteq Targets /\ NoTarget \notin Targets
ASSUME LimitsAssumption ==
    /\ MaxWorkers \in 1..5
    /\ MaxAttempts \in 1..16
    /\ RetryFailed \in BOOLEAN
ASSUME BoundsAssumption ==
    MaxInvocations \in Nat /\ MaxFaults \in Nat /\ MaxSignals \in Nat

VARIABLES
    disk,         \* batch_state.json
    dir,          \* the target directories: binding and run.json
    state,        \* self._state
    flag,         \* self._interrupt
    ids,          \* self._interrupted_target_ids
    pc,           \* where the main thread is in BatchRunner.run
    resume,       \* self.resume, until the state is loaded
    listed,       \* how many targets of the plan were looked at for pending
    pending,      \* the deque of targets to submit
    active,       \* targets whose future is in active
    done,         \* the futures the last wait returned, not yet looked at
    wpc,          \* where the worker of a target is in _run_target
    err,          \* class of the error code the worker is about to record
    held,         \* the state lock, with the record its holder will write
    executions,   \* history: pipeline runs of a target since it was planned
    invocations, faults, signals

main == <<pc, resume, listed, pending, active, done>>
worker == <<wpc, err, held>>
bounds == <<invocations, faults, signals>>
vars == <<disk, dir, state, flag, ids, main, worker, executions, bounds>>

-----------------------------------------------------------------------------
(* Documents and decisions.                                                *)

Absent == [status |-> "absent"]
Malformed == [status |-> "malformed"]

TargetStates == {"queued", "running", "retrying", "paused", "completed",
                 "completed_with_gaps", "failed", "interrupted"}
Codes == {"none", "retryable", "permanent", "interrupted"}
Records == [state : TargetStates, attempt : 0..MaxAttempts, code : Codes]
Statuses == {"pending", "running", "completed", "completed_with_gaps",
             "completed_with_failures", "interrupted"}
States == [status : Statuses, rec : [Targets -> Records]]

\* What a target directory holds: no completed run of this plan, a completed
\* one, or the binding of another plan.
Dirs == {"unfinished", "completed", "foreign"}

Unsettled == {"queued", "running", "retrying"}

\* _initial_records
InitialState ==
    [status |-> "pending",
     rec |-> [t \in Targets |->
                [state |-> IF t \in Paused THEN "paused" ELSE "queued",
                 attempt |-> 0, code |-> "none"]]]

\* _completed_artifacts_reusable
ArtifactsReusable(t) == dir[t] = "completed"

\* Mutant: a failed target is retried whatever its error code.
EligibleAnyCode(t) ==
    LET r == state.rec[t] IN
      /\ r.attempt < MaxAttempts
      /\ r.state = "completed" => ~ArtifactsReusable(t)
      /\ r.state \notin {"completed_with_gaps", "paused"}
      /\ r.state = "failed" => RetryFailed

\* _eligible
Eligible(t) ==
    LET r == state.rec[t] IN
      /\ r.attempt < MaxAttempts
      /\ r.state = "completed" => ~ArtifactsReusable(t)
      /\ r.state \notin {"completed_with_gaps", "paused"}
      /\ r.state = "failed" => RetryFailed /\ r.code = "retryable"

Interrupted(r) == [r EXCEPT !.state = "interrupted", !.code = "interrupted"]

\* Mutant: completed records are left alone.
NormalizedKept(recs) == recs

\* _normalize_completed_gaps, on the records.
Normalized(recs) ==
    [t \in Targets |->
       IF /\ recs[t].state = "completed"
          /\ recs[t].attempt >= MaxAttempts
          /\ ~ArtifactsReusable(t)
       THEN [recs[t] EXCEPT !.state = "completed_with_gaps", !.code = "permanent"]
       ELSE recs[t]]

\* The final status of run.
FinalStatus ==
    LET found == {state.rec[t].state : t \in Targets} IN
      IF flag \/ "interrupted" \in found THEN "interrupted"
      ELSE IF "failed" \in found THEN "completed_with_failures"
      ELSE IF found \subseteq {"completed"} THEN "completed"
      ELSE "completed_with_gaps"

Init ==
    /\ disk = Absent
    /\ dir = [t \in Targets |-> "unfinished"]
    /\ state = Absent
    /\ flag = FALSE
    /\ ids = {}
    /\ pc = "off"
    /\ resume = FALSE
    /\ listed = 0
    /\ pending = <<>>
    /\ active = {}
    /\ done = {}
    /\ wpc = [t \in Targets |-> "idle"]
    /\ err = [t \in Targets |-> "none"]
    /\ held = [by |-> NoTarget]
    /\ executions = [t \in Targets |-> 0]
    /\ invocations = 0
    /\ faults = 0
    /\ signals = 0

-----------------------------------------------------------------------------
(* Shapes shared by the steps.                                             *)

Fault == faults < MaxFaults /\ faults' = faults + 1
Signalled == signals < MaxSignals /\ signals' = signals + 1

\* _publish of the document s: batch_state.json may be in place although the
\* call raised (the two status files follow it).
Publish(s, landed, raised) ==
    /\ landed \/ raised
    /\ disk' = IF landed THEN s ELSE disk
    /\ IF raised THEN Fault ELSE UNCHANGED faults

\* The main thread has left run: the runner object and its threads are gone.
Gone ==
    /\ pc' = "off"
    /\ state' = Absent
    /\ flag' = FALSE
    /\ ids' = {}
    /\ listed' = 0
    /\ pending' = <<>>
    /\ active' = {}
    /\ done' = {}
    /\ wpc' = [t \in Targets |-> "idle"]
    /\ err' = [t \in Targets |-> "none"]
    /\ held' = [by |-> NoTarget]
    /\ resume' = FALSE

\* A publication by the main thread outside the pool, and where it goes next.
MainPublish(s, landed, raised, label) ==
    /\ Publish(s, landed, raised)
    /\ \/ raised /\ Gone
       \/ /\ ~raised
          /\ state' = s
          /\ pc' = label
          /\ resume' = FALSE
          /\ UNCHANGED <<flag, ids, listed, pending, active, done, worker>>

-----------------------------------------------------------------------------
(* The main thread.                                                        *)

Start ==
    /\ pc = "off"
    /\ invocations < MaxInvocations
    /\ invocations' = invocations + 1
    /\ resume' \in BOOLEAN
    /\ pc' = "load"
    /\ UNCHANGED <<disk, dir, state, flag, ids, listed, pending, active, done, worker,
                   executions, faults, signals>>

\* _load_or_create_state, when there is a state to resume.
LoadState ==
    /\ pc = "load"
    /\ resume /\ disk # Absent
    /\ \/ disk = Malformed /\ Gone
       \/ /\ disk # Malformed
          /\ state' = disk
          /\ pc' = "normalize"
          /\ resume' = FALSE
          /\ UNCHANGED <<flag, ids, listed, pending, active, done, worker>>
    /\ UNCHANGED <<disk, dir, executions, bounds>>

\* _load_or_create_state, when there is none or it is not wanted.
CreateState ==
    /\ pc = "load"
    /\ ~(resume /\ disk # Absent)
    /\ \E landed, raised \in BOOLEAN :
         /\ MainPublish(InitialState, landed, raised, "normalize")
         /\ executions' = IF landed THEN [t \in Targets |-> 0] ELSE executions
    /\ UNCHANGED <<dir, invocations, signals>>

\* _normalize_completed_gaps, before and after the pool.
Normalize ==
    /\ pc \in {"normalize", "gaps"}
    /\ LET s == [state EXCEPT !.rec = Normalized(@)]
           label == IF pc = "gaps" THEN "finish" ELSE "running"
       IN  \/ /\ s # state
              /\ \E landed, raised \in BOOLEAN : MainPublish(s, landed, raised, label)
           \/ /\ s = state
              /\ pc' = label
              /\ UNCHANGED <<disk, state, flag, ids, resume, listed, pending, active, done,
                             worker, faults>>
    /\ UNCHANGED <<dir, executions, invocations, signals>>

\* set_status("running"), _publish and the signal handlers.
Running ==
    /\ pc = "running"
    /\ LET s == [state EXCEPT !.status = "running"] IN
         \E landed, raised \in BOOLEAN :
           /\ Publish(s, landed, raised)
           /\ \/ raised /\ Gone
              \/ /\ ~raised
                 /\ state' = s
                 /\ pc' = "list"
                 /\ UNCHANGED <<flag, ids, resume, listed, pending, active, done, worker>>
    /\ UNCHANGED <<dir, executions, invocations, signals>>

\* The targets of the plan one after the other, those that are eligible; then
\* the deque of them.
ListTarget ==
    /\ pc = "list"
    /\ \/ /\ listed < Len(Plan)
          /\ listed' = listed + 1
          /\ pending' = IF Eligible(Plan[listed']) THEN Append(pending, Plan[listed']) ELSE pending
          /\ UNCHANGED pc
       \/ /\ listed = Len(Plan)
          /\ pc' = "fill"
          /\ UNCHANGED <<listed, pending>>
    /\ UNCHANGED <<disk, dir, state, flag, ids, resume, active, done, worker, executions, bounds>>

\* One round of submit_available that submits.
Submit ==
    /\ pc = "fill"
    /\ ~flag /\ Cardinality(active) < MaxWorkers /\ pending # <<>>
    /\ active' = active \cup {Head(pending)}
    /\ wpc' = [wpc EXCEPT ![Head(pending)] = "begin"]
    /\ pending' = Tail(pending)
    /\ UNCHANGED <<disk, dir, state, flag, ids, pc, resume, listed, done, err, held,
                   executions, bounds>>

\* The end of submit_available, and the test of the loop: an empty pool is
\* left at once.
Filled ==
    /\ pc = "fill"
    /\ flag \/ Cardinality(active) = MaxWorkers \/ pending = <<>>
    /\ pc' = IF active # {} THEN "wait" ELSE IF flag THEN "lastMark" ELSE "gaps"
    /\ UNCHANGED <<disk, dir, state, flag, ids, resume, listed, pending, active, done,
                   worker, executions, bounds>>

\* Mutant: a future that raised does not count as finished.
FinishedWell(t) == wpc[t] = "done"

\* The future of t is done.
Finished(t) == wpc[t] \in {"done", "raised"}

\* The targets _mark_interrupted writes.
ToMark ==
    {t \in Targets : \/ state.rec[t].state \in Unsettled
                     \/ t \in ids /\ state.rec[t].state # "interrupted"}

\* wait returns the finished futures, or none after its timeout.
Wait ==
    /\ pc = "wait"
    /\ done' = {t \in active : Finished(t)}
    /\ done' # {} \/ (flag /\ ToMark # {})
    /\ pc' = IF flag THEN "mark" ELSE "reap"
    /\ UNCHANGED <<disk, dir, state, flag, ids, resume, listed, pending, active, worker,
                   executions, bounds>>

\* Mutant: the state lock is not taken.
MarkGuardNone == TRUE

MarkGuard == held.by = NoTarget

\* _mark_interrupted, in the loop and after it.
Mark ==
    /\ pc \in {"mark", "lastMark"}
    /\ MarkGuard
    /\ ids' = ids \cup {t \in Targets : state.rec[t].state \in Unsettled}
    /\ state' = [state EXCEPT !.rec =
                   [t \in Targets |-> IF t \in ToMark THEN Interrupted(@[t]) ELSE @[t]]]
    /\ LET next == IF pc = "mark" THEN "reap" ELSE "gaps" IN
         \/ /\ ToMark = {}
            /\ pc' = next
            /\ UNCHANGED <<disk, faults>>
         \/ /\ ToMark # {}
            /\ \E landed, raised \in BOOLEAN :
                 /\ Publish(state', landed, raised)
                 /\ pc' = IF raised THEN "drain" ELSE next
    /\ UNCHANGED <<dir, flag, resume, listed, pending, active, done, worker, executions,
                   invocations, signals>>

\* Mutant: a target that failed and may be retried is not put back.
RequeueNever(t) == UNCHANGED pending

\* if the target may run again, pending.append(target)
Requeue(t) ==
    pending' = IF ~flag /\ Eligible(t) THEN Append(pending, t) ELSE pending

\* One round of the loop over done; a future that raised leaves the loop.
Reap ==
    /\ pc = "reap"
    /\ \/ /\ done = {}
          /\ pc' = "fill"
          /\ UNCHANGED <<pending, active, done, wpc>>
       \/ \E t \in done :
            /\ active' = active \ {t}
            /\ done' = done \ {t}
            /\ wpc' = [wpc EXCEPT ![t] = "idle"]
            /\ \/ wpc[t] = "raised" /\ pc' = "drain" /\ UNCHANGED pending
               \/ wpc[t] = "done" /\ UNCHANGED pc /\ Requeue(t)
    /\ UNCHANGED <<disk, dir, state, flag, ids, resume, listed, err, held, executions, bounds>>

\* An exception leaves the pool, which first waits for every submitted target.
Drain ==
    /\ pc = "drain"
    /\ \A t \in active : Finished(t)
    /\ Gone
    /\ UNCHANGED <<disk, dir, executions, bounds>>

\* The final status; the return or raise that follows changes nothing.
Finish ==
    /\ pc = "finish"
    /\ \E landed, raised \in BOOLEAN :
         Publish([state EXCEPT !.status = FinalStatus], landed, raised)
    /\ Gone
    /\ UNCHANGED <<dir, executions, invocations, signals>>

-----------------------------------------------------------------------------
(* A worker thread: _run_target.                                           *)

UpdateSteps == {"begin", "complete", "fail", "escape"}

\* Mutant: the attempt is counted when it ends, not before it starts.
FieldsLateAttempt(t) ==
    LET r == state.rec[t] IN
      CASE wpc[t] = "begin" ->
             [r EXCEPT !.state = IF r.attempt > 0 THEN "retrying" ELSE "running",
                       !.code = "none"]
        [] wpc[t] = "complete" ->
             [r EXCEPT !.state = "completed", !.attempt = r.attempt + 1]
        [] wpc[t] = "fail" ->
             [r EXCEPT !.state = "failed", !.code = err[t], !.attempt = r.attempt + 1]
        [] wpc[t] = "escape" -> Interrupted(r)

\* The fields each call of _update passes.
Fields(t) ==
    LET r == state.rec[t] IN
      CASE wpc[t] = "begin" ->
             [state |-> IF r.attempt > 0 THEN "retrying" ELSE "running",
              attempt |-> r.attempt + 1, code |-> "none"]
        [] wpc[t] = "complete" -> [r EXCEPT !.state = "completed"]
        [] wpc[t] = "fail" -> [r EXCEPT !.state = "failed", !.code = err[t]]
        [] wpc[t] = "escape" -> Interrupted(r)

\* The first half of _update: under the state lock, an interrupted target
\* takes the fields of an interruption, which leave its attempt alone.
Decide(t) ==
    /\ wpc[t] \in UpdateSteps
    /\ held.by = NoTarget
    /\ held' = [by |-> t,
                rec |-> IF t \in ids \/ (flag /\ state.rec[t].state = "interrupted")
                        THEN Interrupted(state.rec[t]) ELSE Fields(t)]
    /\ UNCHANGED <<disk, dir, state, flag, ids, main, wpc, err, executions, bounds>>

\* Where _run_target goes after its _update: a failed publication is itself
\* handled as the failure of the target, and escapes when that fails too.
AfterUpdate(t, raised) ==
    CASE wpc[t] = "begin" /\ ~raised -> "setup"
      [] wpc[t] \in {"begin", "complete"} /\ raised -> "fail"
      [] wpc[t] \in {"fail", "escape"} /\ raised -> "raised"
      [] OTHER -> "done"

\* The second half of _update: the record in memory, then _publish; the state
\* lock is given back in any case.
Update(t) ==
    /\ held.by = t
    /\ state' = [state EXCEPT !.rec = [@ EXCEPT ![t] = held.rec]]
    /\ \E landed, raised \in BOOLEAN :
         /\ Publish(state', landed, raised)
         /\ held' = [by |-> NoTarget]
         /\ wpc' = [wpc EXCEPT ![t] = AfterUpdate(t, raised)]
         /\ err' = [err EXCEPT ![t] = IF AfterUpdate(t, raised) = "fail" THEN "permanent" ELSE "none"]
         /\ flag' = (flag \/ (wpc[t] = "escape" /\ ~raised))
    /\ UNCHANGED <<dir, ids, main, executions, invocations, signals>>

\* Inputs, database binding, target directory and target binding.  A binding
\* of another plan and a database that changed are permanent failures, an
\* error of the file system is a retryable one.
Setup(t) ==
    /\ wpc[t] = "setup"
    /\ \/ /\ dir[t] # "foreign"
          /\ dir' = [dir EXCEPT ![t] = "unfinished"]
          /\ executions' = [executions EXCEPT ![t] = @ + 1]
          /\ wpc' = [wpc EXCEPT ![t] = "running"]
          /\ UNCHANGED <<err, faults>>
       \/ /\ IF dir[t] = "foreign" THEN UNCHANGED faults ELSE Fault
          /\ err' \in {[err EXCEPT ![t] = c] :
                       c \in IF dir[t] = "foreign" THEN {"permanent"}
                             ELSE {"permanent", "retryable"}}
          /\ wpc' = [wpc EXCEPT ![t] = "fail"]
          /\ UNCHANGED <<dir, executions>>
    /\ UNCHANGED <<disk, state, flag, ids, main, held, invocations, signals>>

\* The target pipeline returns completed; a pipeline that says so without
\* having completed its run.json leaves the directory unfinished.
PipelineReturns(t) ==
    /\ wpc[t] = "running"
    /\ dir' \in {[dir EXCEPT ![t] = d] : d \in {"completed", "unfinished"}}
    /\ wpc' = [wpc EXCEPT ![t] = "complete"]
    /\ UNCHANGED <<disk, state, flag, ids, main, err, held, executions, bounds>>

\* It raises, or returns something else than completed.
PipelineFails(t) ==
    /\ wpc[t] = "running"
    /\ err' \in {[err EXCEPT ![t] = c] : c \in {"permanent", "retryable"}}
    /\ wpc' = [wpc EXCEPT ![t] = "fail"]
    /\ UNCHANGED <<disk, dir, state, flag, ids, main, held, executions, bounds>>

\* KeyboardInterrupt or SystemExit comes out of it.
PipelineEscapes(t) ==
    /\ wpc[t] = "running"
    /\ Signalled
    /\ ids' = ids \cup {t}
    /\ wpc' = [wpc EXCEPT ![t] = "escape"]
    /\ UNCHANGED <<disk, dir, state, flag, main, err, held, executions, invocations,
                   faults>>

-----------------------------------------------------------------------------
(* Signals, kills and outside edits.                                       *)

\* _request_interrupt, between two steps of the main thread.
Signal ==
    /\ pc \in {"list", "fill", "wait", "mark", "lastMark", "reap", "drain", "gaps", "finish"}
    /\ Signalled
    /\ flag' = TRUE
    /\ ids' = ids \cup {t \in Targets : state.rec[t].state \in Unsettled}
    /\ UNCHANGED <<disk, dir, state, main, worker, executions, invocations, faults>>

Kill ==
    /\ pc # "off"
    /\ Fault
    /\ Gone
    /\ UNCHANGED <<disk, dir, executions, invocations, signals>>

\* Between two invocations somebody removes a target directory, puts another
\* one in its place, or damages the state file.
Edit ==
    /\ pc = "off"
    /\ Fault
    /\ \/ /\ \E t \in Targets, d \in {"unfinished", "foreign"} :
               dir[t] # d /\ dir' = [dir EXCEPT ![t] = d]
          /\ UNCHANGED disk
       \/ /\ disk \notin {Absent, Malformed}
          /\ disk' = Malformed
          /\ UNCHANGED dir
    /\ UNCHANGED <<state, flag, ids, main, worker, executions, invocations, signals>>

-----------------------------------------------------------------------------
MainStep ==
    \/ LoadState \/ CreateState \/ Normalize \/ Running \/ ListTarget \/ Submit \/ Filled
    \/ Wait \/ Mark \/ Reap \/ Drain \/ Finish

WorkerStep(t) ==
    \/ Decide(t) \/ Update(t) \/ Setup(t)
    \/ PipelineReturns(t) \/ PipelineFails(t) \/ PipelineEscapes(t)

Next ==
    \/ Start \/ MainStep \/ Signal \/ Kill \/ Edit
    \/ \E t \in Targets : WorkerStep(t)

Spec == Init /\ [][Next]_vars

\* A started batch is not stopped for ever: whenever some thread of it can go on,
\* one does.  That the target pipeline returns is what the module Pipeline shows.
FairSpec ==
    /\ Spec
    /\ WF_vars(MainStep \/ \E t \in Targets : WorkerStep(t))

-----------------------------------------------------------------------------
(* Properties.                                                             *)

Documents == States \cup {Absent, Malformed}

\* Every variable of the runner keeps its type; in particular an attempt
\* number never passes max_attempts, in memory or in batch_state.json.
TypeOK ==
    /\ disk \in Documents
    /\ dir \in [Targets -> Dirs]
    /\ state \in States \cup {Absent}
    /\ flag \in BOOLEAN
    /\ ids \subseteq Targets
    /\ pc \in {"off", "load", "normalize", "running", "list", "fill", "wait", "mark",
              "lastMark", "reap", "drain", "gaps", "finish"}
    /\ resume \in BOOLEAN
    /\ listed \in 0..Len(Plan)
    /\ pending \in Seq(Targets)
    /\ active \subseteq Targets
    /\ done \subseteq active
    /\ wpc \in [Targets -> UpdateSteps \cup {"idle", "setup", "running", "done", "raised"}]
    /\ err \in [Targets -> Codes]
    /\ held \in [by : {NoTarget}] \cup [by : Targets, rec : Records]
    /\ executions \in [Targets -> Nat]
    /\ invocations \in Nat /\ faults \in Nat /\ signals \in Nat

Recorded(d) == d \notin {Absent, Malformed}

\* "Persist the attempt before any target-directory setup" (_run_target): the
\* pipeline of a target has run at most as often as batch_state.json says,
\* and once more for every interrupt, whatever fails, dies or is resumed.
AttemptsAccounted ==
    Recorded(disk) =>
        \A t \in Targets : executions[t] <= disk.rec[t].attempt + signals

\* The runner's retries are bounded: a target's pipeline runs at most
\* max_attempts times for one plan ("the runner's already-bounded retry").
ExecutionsBounded == \A t \in Targets : executions[t] <= MaxAttempts

\* "A worker may finish after the signal handler has published the
\* interruption.  Never let that late completion overwrite it." (_update):
\* while a batch runs, a target interrupted by it stays interrupted.
InterruptSticky ==
    [][\A t \in ids :
         state # Absent /\ state' # Absent /\ state.rec[t].state = "interrupted"
            => state'.rec[t].state = "interrupted"]_vars

\* A batch nobody interrupted becomes recorded as finished only when every
\* target it lists as completed has a directory with a completed run of this
\* plan, and as completed only when every target is (run, _eligible and
\* _normalize_completed_gaps).  A later resume may find a directory gone and
\* publish the gap before it takes the status back.
CompletedIsBacked ==
    [][disk'.status # disk.status
         /\ disk'.status \in {"completed", "completed_with_gaps", "completed_with_failures"} =>
           /\ \A t \in Targets : disk'.rec[t].state = "completed" => dir[t] = "completed"
           /\ disk'.status = "completed" =>
                \A t \in Targets : disk'.rec[t].state = "completed"]_vars

\* A batch nobody interrupted ends only when no target may run again: what
\* failed for a passing reason was retried up to the limit (the loop of run).
NothingLeftToRetry ==
    pc = "finish" /\ ~flag => \A t \in Targets : ~Eligible(t)

Settled(t) ==
    \/ disk.rec[t].state \in {"paused", "completed_with_gaps"}
    \/ disk.rec[t].state = "failed" /\ disk.rec[t].code # "retryable"
    \/ disk.rec[t].state = "completed" /\ dir[t] = "completed"

\* What the runner knows of a target is what the state file says; a publication
\* that was lost leaves the file behind until the next one.
Known(t) == state # Absent => state.rec[t] = disk.rec[t]

\* A resumed batch leaves the record of a settled target as it is: paused,
\* with gaps, failed for good, or completed with its artifacts (_eligible,
\* _mark_interrupted).  Only the worker that settled it may still turn it into
\* a failure, and an interrupt that came while it settled may still mark it.
SettledKept ==
    [][\A t \in Targets :
         (/\ Recorded(disk) /\ Recorded(disk') /\ pc # "load"
          /\ Settled(t) /\ Known(t) /\ wpc[t] # "fail" /\ t \notin ids)
            => disk'.rec[t] = disk.rec[t]]_vars

\* A started batch ends, with its pool drained and its lock given back.
Termination == pc = "load" ~> pc = "off"
=============================================================================
