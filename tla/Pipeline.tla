------------------------------ MODULE Pipeline ------------------------------
(***************************************************************************)
(* The resumable stage pipeline of dosweb/pipeline.py: one output          *)
(* directory holding run.json, .stage-manifests/<stage>.json and the stage *)
(* artifacts, and the processes that run Pipeline.run over it, one at a    *)
(* time under the flock on .pipeline.lock.                                 *)
(*                                                                         *)
(* An artifact's content stands for its bytes; SHA-256 digests, record and *)
(* byte counts are taken to identify it.  An output hash is therefore the  *)
(* function from the paths of a stage to their contents.  run.json is      *)
(* replaced atomically (_atomic_json); every rename of _publish is a step  *)
(* of its own, so that an error, an interrupt or a kill can fall between   *)
(* any two of them.                                                        *)
(***************************************************************************)
EXTENDS Naturals, Sequences

CONSTANTS
    Procs,           \* processes that may run the pipeline on this directory
    N,               \* number of stages: 1 is entries, N is report
    Paths,           \* artifact paths of a stage, numbered in sorted order
    Private,         \* the paths that end in .private.jsonl
    Contents,        \* possible artifact contents
    NoFile,          \* what a path holds when no file is there
    Outputs,         \* what an executor may return: path -> content
    Bases,           \* database, query pack, configuration, tool fingerprints
    Models,          \* model fingerprints
    Reports,         \* report fingerprints
    Unused,          \* the empty string a fingerprint field may hold
    NoProc,          \* owner of the lock when it is free
    MaxInvocations,  \* bound: how many times the pipeline is started
    MaxFaults        \* bound: errors, interrupts, kills and outside edits

ASSUME StagesAssumption == N \in Nat \ {0}
ASSUME PathsAssumption == Paths \subseteq Nat /\ Private \subseteq Paths
ASSUME OutputsAssumption ==
    Outputs \subseteq UNION {[D -> Contents] : D \in (SUBSET Paths) \ {{}}}
ASSUME NoFileAssumption == NoFile \notin Contents /\ NoProc \notin Procs
ASSUME BoundsAssumption == MaxInvocations \in Nat /\ MaxFaults \in Nat

Stages == 1..N
Configs == [base : Bases, model : Models, report : Reports]

VARIABLES
    runFile,      \* run.json
    manifest,     \* .stage-manifests/<stage>.json, by stage
    art,          \* artifact files, by stage and path
    lock,         \* holder of the flock on .pipeline.lock
    pc,           \* where each process is in Pipeline.run
    job,          \* its arguments: resume, target, configuration; start time
    run,          \* self._run
    prior,        \* self._prior_stage_metadata
    outs,         \* upstream_hashes: output hashes of the stages already passed
    staged,       \* the StageOutput under publication
    txn,          \* locals of _publish
    outcome,      \* failure, failure_write_failure, finalization_failure
    clone,        \* the private database made by preflight exists
    before,       \* history: the stage's files when its publication began
    settled,      \* history: configuration of the last full run, if untouched
    origin,       \* history: value of settled when the process loaded run.json
    invocations, faults

disk == <<runFile, manifest, art>>
memory == <<job, run, prior, outs, staged, txn, outcome, clone, before, origin>>
vars == <<disk, lock, pc, memory, settled, invocations, faults>>
\* What no step of the stage loop changes.
frame == <<lock, job, clone, outcome, settled, origin, invocations>>

-----------------------------------------------------------------------------
(* Values of the files and of the run record.                              *)

Absent == [status |-> "absent"]
Malformed == [status |-> "malformed"]
Pending == [status |-> "pending"]
Invalid == [status |-> "invalid"]
Failed == [status |-> "failed"]

\* StageFingerprint: the report fingerprint enters the last stage only and the
\* model fingerprint every stage but the first.
Fingerprints == [stage : Stages, base : Bases, model : Models \cup {Unused},
                 report : Reports \cup {Unused}, upstream : Seq(Outputs)]

\* A completed stage's manifest; "at" stands for started_at and ended_at.
Manifests == [status : {"completed"}, fp : Fingerprints, out : Outputs, at : Nat]
StageMetas == Manifests \cup {Pending, Invalid, Failed}
Runs == [status : {"running", "failed", "completed"}, attempt : Nat,
         stages : [Stages -> StageMetas]]

EmptyTxn == [retire |-> {}, todo |-> {}, done |-> {},
             backup |-> [q \in Paths |-> NoFile], old |-> Absent, touched |-> FALSE]
NoOutcome == [failure |-> FALSE, unwritten |-> FALSE, final |-> FALSE]
NoConfig == [base |-> Unused, model |-> Unused, report |-> Unused]
NoJob == [resume |-> FALSE, target |-> 1, cfg |-> NoConfig, at |-> 0]
NoSnapshot == [art |-> [q \in Paths |-> NoFile], manifest |-> Absent]

NewRun == [status |-> "running", attempt |-> 0, stages |-> [s \in Stages |-> Pending]]

\* The stage the loop of Pipeline.run is at.
Stage(p) == Len(outs[p]) + 1
Least(S) == CHOOSE q \in S : \A r \in S : q <= r

\* Mutant: the report fingerprint enters every stage.
FingerprintReportEverywhere(c, s, upstream) ==
    [stage |-> s, base |-> c.base,
     model |-> IF s = 1 THEN Unused ELSE c.model,
     report |-> c.report, upstream |-> upstream]

Fingerprint(c, s, upstream) ==
    [stage |-> s, base |-> c.base,
     model |-> IF s = 1 THEN Unused ELSE c.model,
     report |-> IF s = N THEN c.report ELSE Unused,
     upstream |-> upstream]

FilesMatch(s, out) == \A q \in DOMAIN out : art[s][q] = out[q]

\* Mutant: the artifact files are not hashed again.
ReusableUnhashed(r, s, fp) ==
    /\ r.stages[s].status = "completed"
    /\ r.stages[s].fp = fp
    /\ manifest[s] = r.stages[s]

\* _reusable
Reusable(r, s, fp) ==
    /\ r.stages[s].status = "completed"
    /\ r.stages[s].fp = fp
    /\ manifest[s] = r.stages[s]
    /\ FilesMatch(s, r.stages[s].out)

\* Mutant: only the stage itself is invalidated.
InvalidateOne(stages, first) ==
    [s \in Stages |-> IF s = first THEN Invalid ELSE stages[s]]

\* The bodies of _invalidate_from and _mark_failure on the stages of a run.
InvalidateFrom(stages, first) ==
    [s \in Stages |-> IF s >= first THEN Invalid ELSE stages[s]]
MarkFailure(stages, failed) ==
    [s \in Stages |-> IF s = failed THEN Failed
                      ELSE IF s > failed THEN Pending ELSE stages[s]]

NewManifest(p) ==
    [status |-> "completed", fp |-> Fingerprint(job[p].cfg, Stage(p), outs[p]),
     out |-> staged[p], at |-> job[p].at]

Init ==
    /\ runFile = Absent
    /\ manifest = [s \in Stages |-> Absent]
    /\ art = [s \in Stages |-> [q \in Paths |-> NoFile]]
    /\ lock = NoProc
    /\ pc = [p \in Procs |-> "idle"]
    /\ job = [p \in Procs |-> NoJob]
    /\ run = [p \in Procs |-> Absent]
    /\ prior = [p \in Procs |-> [s \in Stages |-> Absent]]
    /\ outs = [p \in Procs |-> <<>>]
    /\ staged = [p \in Procs |-> <<>>]
    /\ txn = [p \in Procs |-> EmptyTxn]
    /\ outcome = [p \in Procs |-> NoOutcome]
    /\ clone = [p \in Procs |-> FALSE]
    /\ before = [p \in Procs |-> NoSnapshot]
    /\ settled = NoConfig
    /\ origin = [p \in Procs |-> NoConfig]
    /\ invocations = 0
    /\ faults = 0

-----------------------------------------------------------------------------
(* Shapes shared by the steps.                                             *)

Goto(p, label) == pc' = [pc EXCEPT ![p] = label]
Set(f, p, v) == [f EXCEPT ![p] = v]
Fault == faults < MaxFaults /\ faults' = faults + 1

\* _write_run: the new record may be in place although the call raised (the
\* fsync of the directory follows the replace), but a call that returns has
\* put it in place.
WriteRun(r, landed, raised) ==
    /\ landed \/ raised
    /\ runFile' = IF landed THEN r ELSE runFile
    /\ IF raised THEN Fault ELSE UNCHANGED faults

\* Mutant: the lock is not given up.
UnlockForgotten == UNCHANGED lock

Unlock == lock' = NoProc

\* Memory of a process that has left Pipeline.run, for whatever reason.
Forget(p) ==
    /\ job' = Set(job, p, NoJob)
    /\ run' = Set(run, p, Absent)
    /\ prior' = Set(prior, p, [s \in Stages |-> Absent])
    /\ outs' = Set(outs, p, <<>>)
    /\ staged' = Set(staged, p, <<>>)
    /\ txn' = Set(txn, p, EmptyTxn)
    /\ outcome' = Set(outcome, p, NoOutcome)
    /\ clone' = Set(clone, p, FALSE)
    /\ before' = Set(before, p, NoSnapshot)
    /\ origin' = Set(origin, p, NoConfig)

-----------------------------------------------------------------------------
(* Starting a run.                                                         *)

Invoke(p) ==
    /\ pc[p] = "idle"
    /\ invocations < MaxInvocations
    /\ invocations' = invocations + 1
    /\ \E resume \in BOOLEAN, target \in Stages, c \in Configs :
         job' = Set(job, p, [resume |-> resume, target |-> target, cfg |-> c,
                             at |-> invocations + 1])
    /\ Goto(p, "lock")
    /\ UNCHANGED <<disk, lock, run, prior, outs, staged, txn, outcome, clone,
                   before, settled, origin, faults>>

\* _locked_output
Acquire(p) ==
    /\ pc[p] = "lock"
    /\ lock = NoProc
    /\ lock' = p
    /\ Goto(p, "load")
    /\ UNCHANGED <<disk, memory, settled, invocations, faults>>

\* What _load_run or _new_run gives the attempt.
StartingRun(resume) == IF resume /\ runFile # Absent THEN runFile ELSE NewRun

\* Mutant: a malformed manifest is kept as proof of ownership.
OwnedUnchecked(m) == m

\* What _load_prior_stage_manifests keeps of a manifest file.
Owned(m) == IF m = Malformed THEN Absent ELSE m

\* _load_prior_stage_manifests, _load_run or _new_run, and the update of
\* self._run; a malformed run.json stops a resumed run with self._run empty.
Load(p) ==
    /\ pc[p] = "load"
    /\ prior' = Set(prior, p,
         [s \in Stages |-> Owned(manifest[s])])
    /\ origin' = Set(origin, p, IF job[p].resume THEN settled ELSE NoConfig)
    /\ settled' = NoConfig
    /\ \/ /\ job[p].resume /\ runFile = Malformed
          /\ Goto(p, "fail")
          /\ UNCHANGED run
       \/ /\ ~(job[p].resume /\ runFile = Malformed)
          /\ run' = Set(run, p, [StartingRun(job[p].resume) EXCEPT
                                   !.status = "running", !.attempt = @ + 1])
          /\ Goto(p, "begin")
    /\ UNCHANGED <<disk, lock, job, outs, staged, txn, outcome, clone, before,
                   invocations, faults>>

\* The first _write_run, status running, before the preflight; the second one,
\* with the identity, after it.
WriteStart(p) ==
    /\ pc[p] \in {"begin", "identity"}
    /\ \E landed, raised \in BOOLEAN :
         /\ WriteRun(run[p], landed, raised)
         /\ Goto(p, IF raised THEN "fail"
                    ELSE IF pc[p] = "begin" THEN "preflight" ELSE "stage")
    /\ UNCHANGED <<manifest, art, lock, memory, settled, invocations>>

Preflight(p) ==
    /\ pc[p] = "preflight"
    /\ clone' = Set(clone, p, TRUE)
    /\ Goto(p, "identity")
    /\ UNCHANGED <<disk, lock, job, run, prior, outs, staged, txn, outcome, before,
                   settled, origin, invocations, faults>>

-----------------------------------------------------------------------------
(* The stage loop.                                                         *)

\* Where the loop goes once stage s is done.
AfterStage(p, s) == IF s = job[p].target THEN "finalize" ELSE "stage"

Reuse(p) ==
    /\ pc[p] = "stage"
    /\ Reusable(run[p], Stage(p), Fingerprint(job[p].cfg, Stage(p), outs[p]))
    /\ outs' = Set(outs, p, Append(outs[p], run[p].stages[Stage(p)].out))
    /\ Goto(p, AfterStage(p, Stage(p)))
    /\ UNCHANGED <<disk, run, prior, staged, txn, before, faults, frame>>

Invalidate(p) ==
    /\ pc[p] = "stage"
    /\ ~Reusable(run[p], Stage(p), Fingerprint(job[p].cfg, Stage(p), outs[p]))
    /\ run' = Set(run, p, [run[p] EXCEPT !.stages = InvalidateFrom(@, Stage(p))])
    /\ Goto(p, "execute")
    /\ UNCHANGED <<disk, prior, outs, staged, txn, before, faults, frame>>

\* _execute and the staging half of _publish: the files are complete in the
\* temporary directory and nothing else has changed.
Execute(p) ==
    /\ pc[p] = "execute"
    /\ \E out \in Outputs :
         LET old == prior[p][Stage(p)]
             retire == IF old = Absent THEN {} ELSE DOMAIN old.out \ DOMAIN out
         IN  /\ staged' = Set(staged, p, out)
             /\ txn' = Set(txn, p, [EmptyTxn EXCEPT !.retire = retire,
                                                   !.todo = DOMAIN out])
             /\ Goto(p, IF retire = {} THEN "save" ELSE "retire")
    /\ before' = Set(before, p, [art |-> art[Stage(p)], manifest |-> manifest[Stage(p)]])
    /\ UNCHANGED <<disk, run, prior, outs, faults, frame>>

\* os.replace of an artifact of stage s into the backups of the transaction.
MoveAside(p, s, q) ==
    /\ art' = [art EXCEPT ![s][q] = NoFile]
    /\ txn' = Set(txn, p, [txn[p] EXCEPT !.backup = Set(@, q, art[s][q]),
                                        !.retire = @ \ {q}])

\* One round of the loop over old_paths - new_paths.
Retire(p) ==
    /\ pc[p] = "retire"
    /\ MoveAside(p, Stage(p), Least(txn[p].retire))
    /\ Goto(p, IF txn[p].retire = {Least(txn[p].retire)} THEN "save" ELSE "retire")
    /\ UNCHANGED <<runFile, manifest, run, prior, outs, staged, before, faults, frame>>

\* The loop over the new artifacts: back up, install, restrict the mode of a
\* private one, and only then list the destination as published.
Save(p) ==
    /\ pc[p] = "save"
    /\ MoveAside(p, Stage(p), Least(txn[p].todo))
    /\ Goto(p, "install")
    /\ UNCHANGED <<runFile, manifest, run, prior, outs, staged, before, faults, frame>>

AfterInstall(p, q) == IF txn[p].todo = {q} THEN "saveManifest" ELSE "save"

Published(p, q) ==
    /\ txn' = Set(txn, p, [txn[p] EXCEPT !.todo = @ \ {q}, !.done = @ \cup {q}])
    /\ Goto(p, AfterInstall(p, q))

Install(p) ==
    /\ pc[p] = "install"
    /\ LET q == Least(txn[p].todo) IN
         /\ art' = [art EXCEPT ![Stage(p)][q] = staged[p][q]]
         /\ \/ q \in Private /\ Goto(p, "chmod") /\ UNCHANGED txn
            \/ q \notin Private /\ Published(p, q)
    /\ UNCHANGED <<runFile, manifest, run, prior, outs, staged, before, faults, frame>>

Chmod(p) ==
    /\ pc[p] = "chmod"
    /\ Published(p, Least(txn[p].todo))
    /\ UNCHANGED <<disk, run, prior, outs, staged, before, faults, frame>>

SaveManifest(p) ==
    /\ pc[p] = "saveManifest"
    /\ manifest' = [manifest EXCEPT ![Stage(p)] = Absent]
    /\ txn' = Set(txn, p, [txn[p] EXCEPT !.old = manifest[Stage(p)], !.touched = TRUE])
    /\ Goto(p, "putManifest")
    /\ UNCHANGED <<runFile, art, run, prior, outs, staged, before, faults, frame>>

PutManifest(p) ==
    /\ pc[p] = "putManifest"
    /\ manifest' = [manifest EXCEPT ![Stage(p)] = NewManifest(p)]
    /\ Goto(p, "fsync")
    /\ UNCHANGED <<runFile, art, lock, memory, settled, invocations, faults>>

\* The fsync of the directory and the end of _publish: the metadata enters
\* self._run and the temporary directory, backups included, is removed.
Commit(p) ==
    /\ pc[p] = "fsync"
    /\ run' = Set(run, p, [run[p] EXCEPT !.stages = Set(@, Stage(p), NewManifest(p))])
    /\ prior' = Set(prior, p, Set(prior[p], Stage(p), NewManifest(p)))
    /\ txn' = Set(txn, p, EmptyTxn)
    /\ staged' = Set(staged, p, <<>>)
    /\ before' = Set(before, p, NoSnapshot)
    /\ Goto(p, "checkpoint")
    /\ UNCHANGED <<disk, outs, faults, frame>>

\* The _write_run that follows _publish.
Checkpoint(p) ==
    /\ pc[p] = "checkpoint"
    /\ \E landed, raised \in BOOLEAN :
         /\ WriteRun(run[p], landed, raised)
         /\ \/ /\ raised
               /\ Goto(p, "stageFail")
               /\ UNCHANGED outs
            \/ /\ ~raised
               /\ outs' = Set(outs, p, Append(outs[p], run[p].stages[Stage(p)].out))
               /\ Goto(p, AfterStage(p, Stage(p)))
    /\ UNCHANGED <<manifest, art, run, prior, staged, txn, before, frame>>

-----------------------------------------------------------------------------
(* Rollback of a publication, in the order of the except clause.           *)

\* for destination in published: unlink
UndoInstall(p) ==
    /\ pc[p] = "undo"
    /\ txn[p].done # {}
    /\ LET q == Least(txn[p].done) IN
         /\ art' = [art EXCEPT ![Stage(p)][q] = NoFile]
         /\ txn' = Set(txn, p, [txn[p] EXCEPT !.done = @ \ {q}])
    /\ UNCHANGED <<runFile, manifest, pc, run, prior, outs, staged, before, faults, frame>>

\* for destination, backup in reversed(backups): os.replace(backup, destination);
\* the destinations differ, so the order among them does not show.
Backups(p) == {q \in Paths : txn[p].backup[q] # NoFile}

UndoBackup(p) ==
    /\ pc[p] = "undo"
    /\ txn[p].done = {}
    /\ \E q \in Backups(p) :
         /\ art' = [art EXCEPT ![Stage(p)][q] = txn[p].backup[q]]
         /\ txn' = Set(txn, p, [txn[p] EXCEPT !.backup = Set(@, q, NoFile)])
    /\ UNCHANGED <<runFile, manifest, pc, run, prior, outs, staged, before, faults, frame>>

\* Mutant: only a manifest that was moved is undone.
ManifestBackMoved(p) == IF txn[p].old # Absent THEN txn[p].old ELSE manifest[Stage(p)]

\* A moved manifest is put back; one that was new is removed.
ManifestBack(p) == IF txn[p].touched THEN txn[p].old ELSE manifest[Stage(p)]

UndoManifest(p) ==
    /\ pc[p] = "undo"
    /\ txn[p].done = {}
    /\ Backups(p) = {}
    /\ manifest' = [manifest EXCEPT ![Stage(p)] = ManifestBack(p)]
    /\ Goto(p, "undone")
    /\ UNCHANGED <<runFile, art, lock, memory, settled, invocations, faults>>

\* _mark_failure; "undone" is the state after a complete rollback.
StageFail(p) ==
    /\ pc[p] \in {"stageFail", "undone"}
    /\ run' = Set(run, p, [run[p] EXCEPT !.stages = MarkFailure(@, Stage(p)),
                                        !.status = "failed"])
    /\ txn' = Set(txn, p, EmptyTxn)
    /\ staged' = Set(staged, p, <<>>)
    /\ before' = Set(before, p, NoSnapshot)
    /\ Goto(p, "fail")
    /\ UNCHANGED <<disk, prior, outs, faults, frame>>

-----------------------------------------------------------------------------
(* Errors, interrupts and kills.                                           *)

PublishSteps == {"retire", "save", "install", "chmod", "saveManifest",
                 "putManifest", "fsync"}
LoopSteps == PublishSteps \cup {"stage", "execute", "checkpoint", "undo", "undone",
                               "stageFail"}

\* Where an Exception raised at a step is handled.
Handler(label) ==
    CASE label \in PublishSteps -> "undo"
      [] label \in {"execute", "undo"} -> "stageFail"
      [] OTHER -> "fail"

\* The call of the step failed without effect: the preflight, the executor, a
\* payload that cannot be encoded, or a system call of _publish.
OsError(p) ==
    /\ pc[p] \in PublishSteps \cup {"preflight", "execute", "undo"}
    /\ Fault
    /\ Goto(p, Handler(pc[p]))
    /\ UNCHANGED <<disk, lock, memory, settled, invocations>>

\* KeyboardInterrupt is not an Exception: _publish does not roll back, its
\* finally clause still removes the temporary directory with the backups.
Interrupt(p) ==
    /\ pc[p] \in LoopSteps \cup {"load", "begin", "preflight", "identity"}
    /\ Fault
    /\ txn' = Set(txn, p, EmptyTxn)
    /\ staged' = Set(staged, p, <<>>)
    /\ before' = Set(before, p, NoSnapshot)
    /\ Goto(p, "fail")
    /\ UNCHANGED <<disk, run, prior, outs, frame>>

\* The process dies; the kernel drops its flock.
Kill(p) ==
    /\ pc[p] \notin {"idle", "lock"}
    /\ Fault
    /\ lock' = NoProc
    /\ Goto(p, "idle")
    /\ Forget(p)
    /\ UNCHANGED <<disk, settled, invocations>>

-----------------------------------------------------------------------------
(* The end of a run.                                                       *)

\* except BaseException: _mark_run_failure unless the stage already did, and
\* a first attempt to write it.
Fail(p) ==
    /\ pc[p] = "fail"
    /\ \/ /\ run[p] = Absent
          /\ outcome' = Set(outcome, p, [outcome[p] EXCEPT !.failure = TRUE])
          /\ UNCHANGED <<runFile, run, faults>>
       \/ /\ run[p] # Absent
          /\ run' = Set(run, p, [run[p] EXCEPT !.status = "failed"])
          /\ \E landed, raised \in BOOLEAN :
               /\ WriteRun(run'[p], landed, raised)
               /\ outcome' = Set(outcome, p, [outcome[p] EXCEPT
                                                !.failure = TRUE, !.unwritten = raised])
    /\ Goto(p, "finalize")
    /\ UNCHANGED <<manifest, art, lock, job, prior, outs, staged, txn, clone, before,
                   settled, origin, invocations>>

\* Mutant: a finalization failure is raised but not written to run.json.
AfterFinalizeUnrecorded(p, broken) ==
    IF run[p] # Absent /\ outcome[p].unwritten THEN "rewrite"
    ELSE IF broken \/ outcome[p].failure THEN "exit" ELSE "finish"

\* Whether there is still a record to write, an exception to raise, or neither.
AfterFinalize(p, broken) ==
    IF run[p] # Absent /\ (broken \/ outcome[p].unwritten) THEN "rewrite"
    ELSE IF broken \/ outcome[p].failure THEN "exit" ELSE "finish"

\* self.finalizer(): drops the private database or fails.
Finalize(p) ==
    /\ pc[p] = "finalize"
    /\ \E broken \in BOOLEAN :
         /\ IF broken THEN Fault ELSE UNCHANGED faults
         /\ clone' = Set(clone, p, broken /\ clone[p])
         /\ outcome' = Set(outcome, p, [outcome[p] EXCEPT !.final = broken])
         /\ run' = IF broken /\ run[p] # Absent
                   THEN Set(run, p, [run[p] EXCEPT !.status = "failed"]) ELSE run
         /\ Goto(p, AfterFinalize(p, broken))
    /\ UNCHANGED <<disk, lock, job, prior, outs, staged, txn, before, settled, origin,
                   invocations>>

Rewrite(p) ==
    /\ pc[p] = "rewrite"
    /\ \E landed, raised \in BOOLEAN :
         /\ WriteRun(run[p], landed, raised)
         /\ outcome' = Set(outcome, p, [outcome[p] EXCEPT !.unwritten = raised])
    /\ Goto(p, "exit")
    /\ UNCHANGED <<manifest, art, lock, job, run, prior, outs, staged, txn, clone,
                   before, settled, origin, invocations>>

\* The write of status completed.
Finish(p) ==
    /\ pc[p] = "finish"
    /\ run' = Set(run, p, [run[p] EXCEPT !.status = "completed"])
    /\ \E landed, raised \in BOOLEAN :
         /\ WriteRun(run'[p], landed, raised)
         /\ outcome' = Set(outcome, p, [outcome[p] EXCEPT
                                          !.failure = raised, !.unwritten = raised])
         /\ settled' = IF landed /\ job[p].target = N THEN job[p].cfg ELSE settled
    /\ Goto(p, "exit")
    /\ UNCHANGED <<manifest, art, lock, job, prior, outs, staged, txn, clone, before,
                   origin, invocations>>

Exit(p) ==
    /\ pc[p] = "exit"
    /\ Unlock
    /\ Goto(p, "idle")
    /\ Forget(p)
    /\ UNCHANGED <<disk, settled, invocations, faults>>

-----------------------------------------------------------------------------
(* Somebody edits the output directory while no process holds the lock.    *)

EditArtifact(s, q) ==
    /\ \E c \in Contents \cup {NoFile} :
         /\ c # art[s][q]
         /\ art' = [art EXCEPT ![s][q] = c]
    /\ UNCHANGED <<runFile, manifest>>

EditManifest(s) ==
    /\ \E m \in {Absent, Malformed} :
         /\ manifest[s] \notin {Absent, m}
         /\ manifest' = [manifest EXCEPT ![s] = m]
    /\ UNCHANGED <<runFile, art>>

EditRun ==
    /\ runFile \notin {Absent, Malformed}
    /\ runFile' \in {Absent, Malformed}
    /\ UNCHANGED <<manifest, art>>

Edit ==
    /\ lock = NoProc
    /\ Fault
    /\ \/ \E s \in Stages, q \in Paths : EditArtifact(s, q)
       \/ \E s \in Stages : EditManifest(s)
       \/ EditRun
    /\ settled' = NoConfig
    /\ UNCHANGED <<lock, pc, memory, invocations>>

-----------------------------------------------------------------------------
\* A step of Pipeline.run.
Step(p) ==
    \/ Acquire(p) \/ Load(p) \/ WriteStart(p) \/ Preflight(p)
    \/ Reuse(p) \/ Invalidate(p) \/ Execute(p)
    \/ Retire(p) \/ Save(p) \/ Install(p) \/ Chmod(p)
    \/ SaveManifest(p) \/ PutManifest(p) \/ Commit(p) \/ Checkpoint(p)
    \/ UndoInstall(p) \/ UndoBackup(p) \/ UndoManifest(p) \/ StageFail(p)
    \/ Fail(p) \/ Finalize(p) \/ Rewrite(p) \/ Finish(p) \/ Exit(p)

Next ==
    \/ \E p \in Procs : Invoke(p) \/ Step(p) \/ OsError(p) \/ Interrupt(p) \/ Kill(p)
    \/ Edit

Spec == Init /\ [][Next]_vars

\* Each process goes on with the run it is in; nobody has to start one.
FairSpec == Spec /\ \A p \in Procs : WF_vars(Step(p))

-----------------------------------------------------------------------------
(* Properties.                                                             *)

Labels == LoopSteps \cup {"idle", "lock", "load", "begin", "preflight", "identity",
                          "fail", "finalize", "rewrite", "finish", "exit"}
Files == [Paths -> Contents \cup {NoFile}]
ManifestFiles == Manifests \cup {Absent, Malformed}
Jobs == [resume : BOOLEAN, target : Stages, cfg : Configs \cup {NoConfig}, at : Nat]
Txns == [retire : SUBSET Paths, todo : SUBSET Paths, done : SUBSET Paths,
         backup : Files, old : ManifestFiles, touched : BOOLEAN]
Outcomes == [failure : BOOLEAN, unwritten : BOOLEAN, final : BOOLEAN]
Snapshots == [art : Files, manifest : ManifestFiles]

\* Every variable of the pipeline keeps its type: run.json is absent, malformed
\* or a run record, a manifest file likewise, and the locals of a process are
\* what the code of dosweb/pipeline.py assigns to them.
TypeOK ==
    /\ runFile \in Runs \cup {Absent, Malformed}
    /\ manifest \in [Stages -> ManifestFiles]
    /\ art \in [Stages -> Files]
    /\ lock \in Procs \cup {NoProc}
    /\ pc \in [Procs -> Labels]
    /\ job \in [Procs -> Jobs]
    /\ run \in [Procs -> Runs \cup {Absent}]
    /\ prior \in [Procs -> [Stages -> Manifests \cup {Absent}]]
    /\ outs \in [Procs -> Seq(Outputs)]
    /\ staged \in [Procs -> Outputs \cup {<<>>}]
    /\ txn \in [Procs -> Txns]
    /\ outcome \in [Procs -> Outcomes]
    /\ clone \in [Procs -> BOOLEAN]
    /\ before \in [Procs -> Snapshots]
    /\ settled \in Configs \cup {NoConfig}
    /\ origin \in [Procs -> Configs \cup {NoConfig}]
    /\ invocations \in Nat
    /\ faults \in Nat

\* In run.json, whatever configurations, partial targets, crashes and resumes
\* led to it, a stage recorded as completed was computed from exactly the
\* outputs run.json records for all the stages before it: _fingerprint takes
\* all upstream hashes, _invalidate_from and _mark_failure forget every later
\* stage, and the record is replaced in one piece.
Chained(r) ==
    \A s \in Stages : r.stages[s].status = "completed" =>
        /\ Len(r.stages[s].fp.upstream) = s - 1
        /\ \A t \in 1..(s - 1) :
             /\ r.stages[t].status = "completed"
             /\ r.stages[s].fp.upstream[t] = r.stages[t].out
RecordedChain == runFile \in {Absent, Malformed} \/ Chained(runFile)

\* The write of status completed comes after every stage up to the target is
\* recorded with the fingerprint of the requested configuration, its manifest
\* file equals the record, its artifact files are the ones the record lists,
\* and the private database of the run is gone (Pipeline.run, _reusable,
\* _publish and the finalizer taken together).
Verified(r, p) ==
    \A s \in 1..job[p].target :
        /\ r.stages[s].status = "completed"
        /\ r.stages[s].fp = Fingerprint(job[p].cfg, s,
                              [t \in 1..(s - 1) |-> r.stages[t].out])
        /\ manifest[s] = r.stages[s]
        /\ FilesMatch(s, r.stages[s].out)
CompletedIsVerified ==
    [][\A p \in Procs :
         pc[p] = "finish" /\ pc'[p] = "exit" /\ runFile' # runFile
            => Verified(runFile', p) /\ ~clone[p]]_vars

\* A publication undone by an Exception leaves the stage's manifest and every
\* file that was there as they were, and no new file but possibly a private
\* one: its chmod comes before the rollback of _publish knows of it.
RollbackRestores ==
    \A p \in Procs : pc[p] = "undone" =>
        /\ manifest[Stage(p)] = before[p].manifest
        /\ \A q \in Paths : (before[p].art[q] # NoFile \/ q \notin Private)
                               => art[Stage(p)][q] = before[p].art[q]

\* What a caller sees agrees with run.json when a run ends by itself: a return
\* means completed; an exception whose record could be written means failed,
\* under the attempt number of this run (the tail of Pipeline.run).
ExitAgrees ==
    \A p \in Procs : pc[p] = "exit" /\ run[p] # Absent =>
        /\ ~(outcome[p].failure \/ outcome[p].final) => runFile = run[p]
                                                        /\ run[p].status = "completed"
        /\ (outcome[p].failure \/ outcome[p].final) /\ ~outcome[p].unwritten =>
              runFile = run[p] /\ run[p].status = "failed"

\* A resumed run over the untouched files of a completed full run executes a
\* stage only from the first one that the changed configuration reaches: all
\* for the base, the second for the model, the last for the report, none if
\* nothing changed (README: "reuse a stage only when ... match exactly").
ResumeReexecutesOnlyChanged ==
    \A p \in Procs : pc[p] = "execute" /\ origin[p] # NoConfig =>
        \/ origin[p].base # job[p].cfg.base
        \/ origin[p].model # job[p].cfg.model /\ Stage(p) >= 2
        \/ origin[p].report # job[p].cfg.report /\ Stage(p) = N

\* Every started run ends: lock waits, rollbacks and failure writes included.
Termination == \A p \in Procs : pc[p] = "lock" ~> pc[p] = "idle"
=============================================================================
