--------------------------- MODULE PipelineProofs ---------------------------
(***************************************************************************)
(* For any number of processes, stages, paths and contents, and any bounds *)
(* on invocations and faults: the pipeline keeps its types; the stages     *)
(* recorded as completed in run.json form one chain of upstream hashes; a  *)
(* publication that is undone leaves the files as they were; a run that    *)
(* ends tells its caller what run.json says and completes only over files  *)
(* it has verified; and a resumed run over untouched files executes only   *)
(* the stages a changed configuration reaches.                             *)
(***************************************************************************)
EXTENDS Pipeline, TLAPS, WellFoundedInduction

\* Where the process holds a run record and the locals of the stage loop are
\* meaningful.
HasRun == LoopSteps \cup {"begin", "preflight", "identity", "rewrite", "finish"}
Counting == LoopSteps \cup {"begin", "preflight", "identity"}
Fresh == PublishSteps \cup {"execute", "undo", "undone"}

\* The control facts behind TypeOK: a process in the loop has a run record and
\* stands at a stage not beyond its target, and a publication has an output
\* whose remaining paths are among its own.
Control(p) ==
    /\ pc[p] # "idle" => job[p].cfg \in Configs
    /\ pc[p] \in HasRun => run[p] \in Runs
    /\ pc[p] = "finalize" /\ ~outcome[p].failure => run[p] \in Runs
    /\ pc[p] \in {"idle", "lock", "load", "begin", "preflight", "identity"} => outs[p] = <<>>
    /\ pc[p] \in LoopSteps => Stage(p) <= job[p].target
    /\ pc[p] \in PublishSteps => /\ staged[p] \in Outputs
                                 /\ txn[p].todo \subseteq DOMAIN staged[p]
    /\ pc[p] \in {"save", "install", "chmod"} => txn[p].todo # {}
    /\ pc[p] = "retire" => txn[p].retire # {} /\ txn[p].todo # {}
    /\ pc[p] = "checkpoint" => run[p].stages[Stage(p)] \in Manifests

\* The chain behind RecordedChain: in memory too the completed stages are
\* chained, the hashes of the stages passed are the recorded ones, and the
\* stages from the one under execution on are not completed.
Link(p) ==
    /\ run[p] # Absent => Chained(run[p])
    /\ pc[p] \in Counting => \A t \in 1..Len(outs[p]) :
          /\ run[p].stages[t].status = "completed"
          /\ run[p].stages[t].out = outs[p][t]
    /\ pc[p] \in Fresh => \A s \in Stages : s >= Stage(p) =>
          run[p].stages[s].status # "completed"
    /\ pc[p] = "checkpoint" => \A s \in Stages : s > Stage(p) =>
          run[p].stages[s].status # "completed"

Inv == TypeOK /\ (\A p \in Procs : Control(p))
ChainInv == RecordedChain /\ (\A p \in Procs : Link(p))

-----------------------------------------------------------------------------
(* Facts about the operators of the model.                                 *)

\* The smallest element of a non-empty set of paths is one of them.
LEMMA LeastIn ==
    ASSUME NEW S, S \subseteq Paths, S # {}
    PROVE  Least(S) \in S
<1> DEFINE R == OpToRel(<, Nat)
<1>1. IsWellFoundedOn(R, Nat)
  BY NatLessThanWellFounded
<1> HIDE DEF R
<1>2. S \subseteq Nat
  BY PathsAssumption
<1>3. PICK q \in S : \A r \in S : ~(<<r, q>> \in R)
  BY <1>1, <1>2, WFMin
<1>4. ASSUME NEW r \in S PROVE q <= r
  <2>1. <<r, q>> \in R <=> r < q
    BY <1>2 DEF R, OpToRel
  <2>2. QED
    BY <2>1, <1>2, <1>3
<1>5. QED
  BY <1>4 DEF Least

\* Replacing one value of a function keeps its type.
LEMMA SetType ==
    ASSUME NEW I, NEW S, NEW f \in [I -> S], NEW i, NEW v \in S
    PROVE  Set(f, i, v) \in [I -> S]
  BY DEF Set

\* Set(f, i, v) has value v at i and the old values elsewhere.
LEMMA SetAt ==
    ASSUME NEW I, NEW S, NEW f \in [I -> S], NEW i \in I, NEW v
    PROVE  Set(f, i, v)[i] = v /\ \A j \in I : j # i => Set(f, i, v)[j] = f[j]
  BY DEF Set

\* The empty values a process starts from, and a new run.json, are well typed.
LEMMA Defaults ==
    /\ EmptyTxn \in Txns
    /\ NoSnapshot \in Snapshots
    /\ NoOutcome \in Outcomes
    /\ NoJob \in Jobs
    /\ NewRun \in Runs
  BY StagesAssumption DEF EmptyTxn, Txns, Files, ManifestFiles, NoSnapshot, Snapshots,
     NoOutcome, Outcomes, NoJob, Jobs, Stages, NewRun, Runs, StageMetas

\* Every update the code makes to a run record gives a run record.
LEMMA StatusUpdate ==
    ASSUME NEW r \in Runs, NEW v \in {"running", "failed", "completed"}
    PROVE  [r EXCEPT !.status = v] \in Runs
  BY DEF Runs

\* Counting the attempt of a starting run gives a run record.
LEMMA AttemptUpdate ==
    ASSUME NEW r \in Runs
    PROVE  [r EXCEPT !.status = "running", !.attempt = @ + 1] \in Runs
<1>1. r.attempt + 1 \in Nat
  BY DEF Runs
<1>2. \A n \in Nat : [r EXCEPT !.status = "running", !.attempt = n] \in Runs
  BY DEF Runs
<1>3. QED
  BY <1>1, <1>2

\* Replacing the stages of a run, failed or not, gives a run record.
LEMMA StagesUpdate ==
    ASSUME NEW r \in Runs, NEW f \in [Stages -> StageMetas]
    PROVE  /\ [r EXCEPT !.stages = f] \in Runs
           /\ [r EXCEPT !.stages = f, !.status = "failed"] \in Runs
  BY DEF Runs

\* Invalidation, failure and the manifest of one stage keep the type of the stages.
LEMMA StagesUpdated ==
    ASSUME NEW r \in Runs, NEW s \in Stages
    PROVE  /\ InvalidateFrom(r.stages, s) \in [Stages -> StageMetas]
           /\ MarkFailure(r.stages, s) \in [Stages -> StageMetas]
           /\ \A m \in Manifests : Set(r.stages, s, m) \in [Stages -> StageMetas]
  BY DEF InvalidateFrom, MarkFailure, Set, Runs, StageMetas

\* A stage recorded as completed carries its manifest.
LEMMA CompletedMeta ==
    ASSUME NEW r \in Runs, NEW s \in Stages, r.stages[s].status = "completed"
    PROVE  r.stages[s] \in Manifests
<1>1. r.stages[s] \in Manifests \cup {Pending, Invalid, Failed}
  BY DEF Runs, StageMetas
<1>2. r.stages[s] \notin {Pending, Invalid, Failed}
  BY DEF Pending, Invalid, Failed
<1>3. QED
  BY <1>1, <1>2

\* The stage the loop stands at exists and is not beyond the target.
LEMMA StageIn ==
    ASSUME Inv, NEW p \in Procs, pc[p] \in LoopSteps
    PROVE  Stage(p) \in Stages /\ Stage(p) <= job[p].target
<1>1. Stage(p) \in Nat /\ Stage(p) >= 1
  BY DEF Inv, TypeOK, Stage
<1>2. Stage(p) <= job[p].target /\ job[p].target \in 1..N
  BY DEF Inv, TypeOK, Control, Jobs, Stages
<1>3. QED
  BY <1>1, <1>2, StagesAssumption DEF Stages

\* What _fingerprint returns is a fingerprint.
LEMMA FingerprintType ==
    ASSUME NEW c \in Configs, NEW s \in Stages, NEW u \in Seq(Outputs)
    PROVE  Fingerprint(c, s, u) \in Fingerprints
  BY DEF Fingerprint, Fingerprints, Configs

\* The manifest under publication is well formed.
LEMMA NewManifestType ==
    ASSUME Inv, NEW p \in Procs, pc[p] \in PublishSteps
    PROVE  NewManifest(p) \in Manifests
<1>1. Stage(p) \in Stages
  BY StageIn DEF LoopSteps
<1>2. /\ job[p].cfg \in Configs /\ outs[p] \in Seq(Outputs) /\ staged[p] \in Outputs
      /\ job[p].at \in Nat
  BY DEF Inv, TypeOK, Control, PublishSteps, Jobs
<1>3. Fingerprint(job[p].cfg, Stage(p), outs[p]) \in Fingerprints
  BY <1>1, <1>2, FingerprintType
<1>4. QED
  BY <1>2, <1>3 DEF NewManifest, Manifests

\* The arguments of an invocation and its number form a job.
LEMMA NewJobType ==
    ASSUME NEW resume \in BOOLEAN, NEW target \in Stages, NEW c \in Configs, NEW n \in Nat
    PROVE  [resume |-> resume, target |-> target, cfg |-> c, at |-> n + 1] \in Jobs
  BY DEF Jobs

\* What an executor may return is never empty and stays on the known paths.
LEMMA OutputDomain ==
    ASSUME NEW out \in Outputs
    PROVE  /\ DOMAIN out \subseteq Paths /\ DOMAIN out # {}
           /\ \A q \in DOMAIN out : out[q] \in Contents
<1>1. PICK D \in (SUBSET Paths) \ {{}} : out \in [D -> Contents]
  BY OutputsAssumption
<1>2. QED
  BY <1>1

\* The updates of the locals of _publish keep their type.
LEMMA TxnUpdates ==
    ASSUME NEW t \in Txns, NEW q \in Paths
    PROVE  /\ \A c \in Contents \cup {NoFile} :
                [t EXCEPT !.backup = Set(@, q, c), !.retire = @ \ {q}] \in Txns
           /\ [t EXCEPT !.backup = Set(@, q, NoFile)] \in Txns
           /\ [t EXCEPT !.todo = @ \ {q}, !.done = @ \cup {q}] \in Txns
           /\ [t EXCEPT !.done = @ \ {q}] \in Txns
<1>1. \A c \in Contents \cup {NoFile} : Set(t.backup, q, c) \in Files
  BY DEF Txns, Files, Set
<1>2. \A f \in Files : [t EXCEPT !.backup = f, !.retire = t.retire \ {q}] \in Txns
  BY DEF Txns
<1>3. \A f \in Files : [t EXCEPT !.backup = f] \in Txns
  BY DEF Txns
<1>4. [t EXCEPT !.todo = @ \ {q}, !.done = @ \cup {q}] \in Txns
  BY DEF Txns
<1>5. [t EXCEPT !.done = @ \ {q}] \in Txns
  BY DEF Txns
<1>6. QED
  BY <1>1, <1>2, <1>3, <1>4, <1>5

\* Recording the backup of the manifest keeps the type of the transaction.
LEMMA TxnManifest ==
    ASSUME NEW t \in Txns, NEW m \in ManifestFiles
    PROVE  [t EXCEPT !.old = m, !.touched = TRUE] \in Txns
  BY DEF Txns

\* A publication starts with a well-typed transaction.
LEMMA TxnStart ==
    ASSUME NEW R \in SUBSET Paths, NEW T \in SUBSET Paths
    PROVE  [EmptyTxn EXCEPT !.retire = R, !.todo = T] \in Txns
  BY Defaults DEF Txns

\* Writing or removing one artifact keeps the type of the artifacts.
LEMMA ArtUpdate ==
    ASSUME art \in [Stages -> Files], NEW s, NEW q, NEW c \in Contents \cup {NoFile}
    PROVE  [art EXCEPT ![s][q] = c] \in [Stages -> Files]
  BY DEF Files

\* A process that ends leaves locals of the right types behind.
LEMMA Forgotten ==
    ASSUME TypeOK, NEW p \in Procs, Forget(p)
    PROVE  /\ job' \in [Procs -> Jobs] /\ run' \in [Procs -> Runs \cup {Absent}]
           /\ prior' \in [Procs -> [Stages -> Manifests \cup {Absent}]]
           /\ outs' \in [Procs -> Seq(Outputs)]
           /\ staged' \in [Procs -> Outputs \cup {<<>>}] /\ txn' \in [Procs -> Txns]
           /\ outcome' \in [Procs -> Outcomes] /\ clone' \in [Procs -> BOOLEAN]
           /\ before' \in [Procs -> Snapshots]
           /\ origin' \in [Procs -> Configs \cup {NoConfig}]
<1>1. [s \in Stages |-> Absent] \in [Stages -> Manifests \cup {Absent}]
  OBVIOUS
<1>2. <<>> \in Seq(Outputs)
  OBVIOUS
<1>3. QED
  BY <1>1, <1>2, Defaults, SetType DEF TypeOK, Forget

\* Control(r) reads only the locals of process r.
LEMMA ControlLocal ==
    ASSUME NEW r \in Procs, Control(r),
           pc'[r] = pc[r], job'[r] = job[r], run'[r] = run[r], outs'[r] = outs[r],
           staged'[r] = staged[r], txn'[r] = txn[r], outcome'[r] = outcome[r]
    PROVE  Control(r)'
  BY DEF Control, Stage

-----------------------------------------------------------------------------
(* One lemma per action: it keeps the types and the control facts.         *)

\* The call of Pipeline.run with some arguments.
LEMMA InvokeType ==
    ASSUME Inv, NEW p \in Procs, Invoke(p)
    PROVE  Inv'
<1>1. TypeOK'
  <2>1. pc' \in [Procs -> Labels]
    BY DEF Inv, TypeOK, Invoke, Goto, Labels, LoopSteps, PublishSteps
  <2>2. job' \in [Procs -> Jobs]
    <3>1. PICK resume \in BOOLEAN, target \in Stages, c \in Configs :
            job' = Set(job, p, [resume |-> resume, target |-> target, cfg |-> c,
                                at |-> invocations + 1])
      BY DEF Invoke
    <3>2. QED
      BY <3>1, SetType, NewJobType DEF Inv, TypeOK
  <2>3. invocations' \in Nat
    BY DEF Inv, TypeOK, Invoke
  <2>4. QED
    BY <2>1, <2>2, <2>3 DEF Inv, TypeOK, Invoke, disk
<1>2. Control(p)'
  BY DEF Inv, TypeOK, Control, Stage, Invoke, Goto, Set, LoopSteps, PublishSteps, Labels, HasRun
<1>3. ASSUME NEW r \in Procs, r # p PROVE Control(r)'
  BY <1>3, ControlLocal DEF Inv, TypeOK, Invoke, Goto, Set
<1>4. QED
  BY <1>1, <1>2, <1>3 DEF Inv

\* The flock of the output directory, once it is free.
LEMMA AcquireType ==
    ASSUME Inv, NEW p \in Procs, Acquire(p)
    PROVE  Inv'
<1>1. TypeOK'
  <2>1. pc' \in [Procs -> Labels]
    BY DEF Inv, TypeOK, Acquire, Goto, Labels, LoopSteps, PublishSteps
  <2>2. lock' \in Procs \cup {NoProc}
    BY DEF Acquire
  <2>3. QED
    BY <2>1, <2>2 DEF Inv, TypeOK, Acquire, disk, memory
<1>2. Control(p)'
  BY DEF Inv, TypeOK, Control, Stage, Acquire, Goto, memory, LoopSteps, PublishSteps, Labels, HasRun
<1>3. ASSUME NEW r \in Procs, r # p PROVE Control(r)'
  BY <1>3, ControlLocal DEF Inv, TypeOK, Acquire, Goto, memory
<1>4. QED
  BY <1>1, <1>2, <1>3 DEF Inv

\* Reading run.json, or starting a new one, and counting the attempt.
LEMMA LoadType ==
    ASSUME Inv, NEW p \in Procs, Load(p)
    PROVE  Inv'
<1>0. ~(job[p].resume /\ runFile = Malformed) => StartingRun(job[p].resume) \in Runs
  BY Defaults DEF Inv, TypeOK, StartingRun
<1>a. ~(job[p].resume /\ runFile = Malformed) =>
        [StartingRun(job[p].resume) EXCEPT !.status = "running", !.attempt = @ + 1] \in Runs
  BY <1>0, AttemptUpdate
<1>1. TypeOK'
  <2>1. pc' \in [Procs -> Labels]
    BY ZenonT(60) DEF Inv, TypeOK, Load, Goto, Labels, LoopSteps, PublishSteps
  <2>2. prior' \in [Procs -> [Stages -> Manifests \cup {Absent}]]
    <3>1. [s \in Stages |-> Owned(manifest[s])] \in [Stages -> Manifests \cup {Absent}]
      BY DEF Inv, TypeOK, Owned, ManifestFiles
    <3>2. QED
      BY <3>1 DEF Inv, TypeOK, Load, Set
  <2>3. origin' \in [Procs -> Configs \cup {NoConfig}]
    BY SetType DEF Inv, TypeOK, Load
  <2>4. run' \in [Procs -> Runs \cup {Absent}]
    BY <1>a DEF Inv, TypeOK, Load, Set
  <2>5. QED
    BY <2>1, <2>2, <2>3, <2>4 DEF Inv, TypeOK, Load, disk
<1>2. Control(p)'
  <2>1. \/ pc'[p] = "fail"
        \/ pc'[p] = "begin" /\ run'[p] \in Runs
    BY <1>a DEF Inv, TypeOK, Load, Goto, Set
  <2>2. pc[p] = "load" /\ outs' = outs /\ job' = job
    BY DEF Load
  <2>3. QED
    BY <2>1, <2>2 DEF Inv, Control, LoopSteps, PublishSteps, HasRun
<1>3. ASSUME NEW r \in Procs, r # p PROVE Control(r)'
  BY <1>3, ControlLocal DEF Inv, TypeOK, Load, Goto, Set
<1>4. QED
  BY <1>1, <1>2, <1>3 DEF Inv

\* The writes of run.json before and after the preflight, with status running.
LEMMA WriteStartType ==
    ASSUME Inv, NEW p \in Procs, WriteStart(p)
    PROVE  Inv'
<1>1. TypeOK'
  <2>1. pc' \in [Procs -> Labels]
    BY DEF Inv, TypeOK, WriteStart, Goto, Labels, LoopSteps, PublishSteps
  <2>2. runFile' \in Runs \cup {Absent, Malformed}
    BY DEF Inv, TypeOK, Control, WriteStart, WriteRun, HasRun
  <2>3. faults' \in Nat
    BY DEF Inv, TypeOK, WriteStart, WriteRun, Fault
  <2>4. QED
    BY <2>1, <2>2, <2>3 DEF Inv, TypeOK, WriteStart, memory
<1>2. Control(p)'
  BY StagesAssumption DEF Inv, TypeOK, Control, WriteStart, Goto, Stage, memory, Jobs, Stages, LoopSteps, PublishSteps, Labels, HasRun
<1>3. ASSUME NEW r \in Procs, r # p PROVE Control(r)'
  BY <1>3, ControlLocal DEF Inv, TypeOK, WriteStart, Goto, memory
<1>4. QED
  BY <1>1, <1>2, <1>3 DEF Inv

\* The preflight, which makes the private clone of the database.
LEMMA PreflightType ==
    ASSUME Inv, NEW p \in Procs, Preflight(p)
    PROVE  Inv'
<1>1. TypeOK'
  <2>1. pc' \in [Procs -> Labels]
    BY DEF Inv, TypeOK, Preflight, Goto, Labels, LoopSteps, PublishSteps
  <2>2. clone' \in [Procs -> BOOLEAN]
    BY SetType DEF Inv, TypeOK, Preflight
  <2>3. QED
    BY <2>1, <2>2 DEF Inv, TypeOK, Preflight, disk
<1>2. Control(p)'
  BY DEF Inv, TypeOK, Control, Preflight, Goto, Stage, LoopSteps, PublishSteps, Labels, HasRun
<1>3. ASSUME NEW r \in Procs, r # p PROVE Control(r)'
  BY <1>3, ControlLocal DEF Inv, TypeOK, Preflight, Goto
<1>4. QED
  BY <1>1, <1>2, <1>3 DEF Inv

\* A stage whose manifest matches is reused.
LEMMA ReuseType ==
    ASSUME Inv, NEW p \in Procs, Reuse(p)
    PROVE  Inv'
<1>0. Stage(p) \in Stages
  BY StageIn DEF Reuse, LoopSteps, PublishSteps
<1>a. run[p].stages[Stage(p)].out \in Outputs
  <2>1. run[p] \in Runs /\ run[p].stages[Stage(p)].status = "completed"
    BY DEF Inv, Control, Reuse, Reusable, HasRun, LoopSteps
  <2>2. run[p].stages[Stage(p)] \in Manifests
    BY <1>0, <2>1, CompletedMeta
  <2>3. QED
    BY <2>2 DEF Manifests
<1>b. Append(outs[p], run[p].stages[Stage(p)].out) \in Seq(Outputs)
  BY <1>a DEF Inv, TypeOK
<1>1. TypeOK'
  <2>1. pc' \in [Procs -> Labels]
    BY DEF Inv, TypeOK, Reuse, Goto, Labels, LoopSteps, PublishSteps, AfterStage
  <2>2. outs' \in [Procs -> Seq(Outputs)]
    BY <1>b, SetType DEF Inv, TypeOK, Reuse
  <2>3. QED
    BY <2>1, <2>2 DEF Inv, TypeOK, Reuse, disk, frame
<1>2. Control(p)'
  <2>1. Len(outs'[p]) = Stage(p) /\ Stage(p)' = Stage(p) + 1
    BY <1>a DEF Inv, TypeOK, Reuse, Stage, Set
  <2>2. Stage(p) <= job[p].target
    BY StageIn DEF Reuse, LoopSteps
  <2>3. QED
    BY <2>1, <2>2, <1>0 DEF Inv, TypeOK, Control, Reuse, AfterStage, Goto, frame, Jobs, Stages, LoopSteps, PublishSteps, Labels, HasRun
<1>3. ASSUME NEW r \in Procs, r # p PROVE Control(r)'
  BY <1>3, ControlLocal DEF Inv, TypeOK, Reuse, Goto, Set, frame
<1>4. QED
  BY <1>1, <1>2, <1>3 DEF Inv

\* A stage to be computed again invalidates itself and what follows it.
LEMMA InvalidateType ==
    ASSUME Inv, NEW p \in Procs, Invalidate(p)
    PROVE  Inv'
<1>0. Stage(p) \in Stages
  BY StageIn DEF Invalidate, LoopSteps, PublishSteps
<1>a. run[p] \in Runs
  BY DEF Inv, Control, Invalidate, HasRun, LoopSteps, PublishSteps
<1>b. [run[p] EXCEPT !.stages = InvalidateFrom(@, Stage(p))] \in Runs
  BY <1>0, <1>a, StagesUpdated, StagesUpdate
<1>1. TypeOK'
  <2>1. pc' \in [Procs -> Labels]
    BY DEF Inv, TypeOK, Invalidate, Goto, Labels, LoopSteps, PublishSteps
  <2>2. run' \in [Procs -> Runs \cup {Absent}]
    BY <1>b DEF Inv, TypeOK, Invalidate, Set
  <2>3. QED
    BY <2>1, <2>2 DEF Inv, TypeOK, Invalidate, disk, frame
<1>2. Control(p)'
  BY <1>b DEF Inv, TypeOK, Control, Invalidate, Goto, Set, Stage, frame, LoopSteps, PublishSteps, Labels, HasRun
<1>3. ASSUME NEW r \in Procs, r # p PROVE Control(r)'
  BY <1>3, ControlLocal DEF Inv, TypeOK, Invalidate, Goto, Set, frame
<1>4. QED
  BY <1>1, <1>2, <1>3 DEF Inv

\* The execution of a stage and the staging of its output.
LEMMA ExecuteType ==
    ASSUME Inv, NEW p \in Procs, Execute(p)
    PROVE  Inv'
<1>0. Stage(p) \in Stages
  BY StageIn DEF Execute, LoopSteps, PublishSteps
<1>a. PICK out \in Outputs :
        LET old == prior[p][Stage(p)]
            retire == IF old = Absent THEN {} ELSE DOMAIN old.out \ DOMAIN out
        IN  /\ staged' = Set(staged, p, out)
            /\ txn' = Set(txn, p, [EmptyTxn EXCEPT !.retire = retire, !.todo = DOMAIN out])
            /\ Goto(p, IF retire = {} THEN "save" ELSE "retire")
  BY DEF Execute
<1> DEFINE old == prior[p][Stage(p)]
           retire == IF old = Absent THEN {} ELSE DOMAIN old.out \ DOMAIN out
           t == [EmptyTxn EXCEPT !.retire = retire, !.todo = DOMAIN out]
<1>b. retire \in SUBSET Paths
  <2>1. old \in Manifests \cup {Absent}
    BY <1>0 DEF Inv, TypeOK
  <2>2. CASE old = Absent
    BY <2>2
  <2>3. CASE old \in Manifests
    BY <2>3, OutputDomain DEF Manifests
  <2>4. QED
    BY <2>1, <2>2, <2>3
<1>c. DOMAIN out \in SUBSET Paths /\ DOMAIN out # {}
  BY OutputDomain
<1>d. t \in Txns /\ t.todo = DOMAIN out /\ t.retire = retire
  <2>1. EmptyTxn \in Txns
    BY Defaults
  <2>2. QED
    BY <2>1, <1>b, <1>c, TxnStart DEF Txns
<1> HIDE DEF t, retire, old
<1>e. /\ staged' = Set(staged, p, out) /\ txn' = Set(txn, p, t)
      /\ Goto(p, IF retire = {} THEN "save" ELSE "retire")
  BY <1>a DEF t, retire, old
<1>1. TypeOK'
  <2>1. pc' \in [Procs -> Labels]
    BY <1>e DEF Inv, TypeOK, Goto, Labels, LoopSteps, PublishSteps
  <2>2. txn' \in [Procs -> Txns]
    BY <1>d, <1>e DEF Inv, TypeOK, Set
  <2>3. staged' \in [Procs -> Outputs \cup {<<>>}]
    BY <1>e DEF Inv, TypeOK, Set
  <2>4. before' \in [Procs -> Snapshots]
    <3>1. [art |-> art[Stage(p)], manifest |-> manifest[Stage(p)]] \in Snapshots
      BY <1>0 DEF Inv, TypeOK, Snapshots
    <3>2. QED
      BY <3>1 DEF Inv, TypeOK, Execute, Set
  <2>5. QED
    BY <2>1, <2>2, <2>3, <2>4 DEF Inv, TypeOK, Execute, disk, frame
<1>2. Control(p)'
  <2>1. /\ pc'[p] \in {"save", "retire"} /\ (pc'[p] = "retire" => retire # {})
        /\ txn'[p] = t /\ staged'[p] = out
    BY <1>e DEF Inv, TypeOK, Goto, Set
  <2>2. pc[p] = "execute" /\ outs' = outs /\ job' = job /\ run' = run /\ outcome' = outcome
    BY DEF Execute, frame
  <2>3. QED
    BY <2>1, <2>2, <1>c, <1>d DEF Inv, Control, Stage, LoopSteps, PublishSteps, HasRun
<1>3. ASSUME NEW r \in Procs, r # p PROVE Control(r)'
  BY <1>3, ControlLocal DEF Inv, TypeOK, Execute, Goto, Set, frame
<1>4. QED
  BY <1>1, <1>2, <1>3 DEF Inv

\* One rename of an artifact that the new output does not have.
LEMMA RetireType ==
    ASSUME Inv, NEW p \in Procs, Retire(p)
    PROVE  Inv'
<1>0. Stage(p) \in Stages
  BY StageIn DEF Retire, LoopSteps, PublishSteps
<1>a. PICK q \in txn[p].retire : q = Least(txn[p].retire) /\ MoveAside(p, Stage(p), q)
  BY LeastIn DEF Inv, TypeOK, Control, Retire, PublishSteps, Txns
<1>b. q \in Paths /\ art[Stage(p)][q] \in Contents \cup {NoFile} /\ txn[p] \in Txns
  BY <1>0, <1>a DEF Inv, TypeOK, Txns, Files
<1> DEFINE t == [txn[p] EXCEPT !.backup = Set(@, q, art[Stage(p)][q]), !.retire = @ \ {q}]
<1>c. t \in Txns /\ t.todo = txn[p].todo /\ t.retire = txn[p].retire \ {q}
  BY <1>b, TxnUpdates DEF Txns
<1>d. txn' = Set(txn, p, t)
  BY <1>a DEF MoveAside
<1> HIDE DEF t
<1>1. TypeOK'
  <2>1. pc' \in [Procs -> Labels]
    BY DEF Inv, TypeOK, Retire, Goto, Labels, LoopSteps, PublishSteps
  <2>2. txn' \in [Procs -> Txns]
    BY <1>c, <1>d DEF Inv, TypeOK, Set
  <2>3. art' \in [Stages -> Files]
    BY <1>a, ArtUpdate DEF Inv, TypeOK, MoveAside
  <2>4. QED
    BY <2>1, <2>2, <2>3 DEF Inv, TypeOK, Retire, frame
<1>2. Control(p)'
  <2>1. txn'[p] = t
    BY <1>d DEF Inv, TypeOK, Set
  <2>2. /\ pc[p] = "retire" /\ outs' = outs /\ job' = job /\ run' = run /\ outcome' = outcome
        /\ staged' = staged
    BY DEF Retire, frame
  <2>3. pc'[p] = IF txn[p].retire = {q} THEN "save" ELSE "retire"
    BY <1>a DEF Inv, TypeOK, Retire, Goto
  <2>4. QED
    BY <2>1, <2>2, <2>3, <1>a, <1>c DEF Inv, Control, Stage, LoopSteps, PublishSteps, HasRun
<1>3. ASSUME NEW r \in Procs, r # p PROVE Control(r)'
  BY <1>3, ControlLocal DEF Inv, TypeOK, Retire, MoveAside, Goto, Set, frame
<1>4. QED
  BY <1>1, <1>2, <1>3 DEF Inv

\* One rename of a replaced artifact to its backup.
LEMMA SaveType ==
    ASSUME Inv, NEW p \in Procs, Save(p)
    PROVE  Inv'
<1>0. Stage(p) \in Stages
  BY StageIn DEF Save, LoopSteps, PublishSteps
<1>a. PICK q \in txn[p].todo : q = Least(txn[p].todo) /\ MoveAside(p, Stage(p), q)
  BY LeastIn DEF Inv, TypeOK, Control, Save, PublishSteps, Txns
<1>b. q \in Paths /\ art[Stage(p)][q] \in Contents \cup {NoFile} /\ txn[p] \in Txns
  BY <1>0, <1>a DEF Inv, TypeOK, Txns, Files
<1> DEFINE t == [txn[p] EXCEPT !.backup = Set(@, q, art[Stage(p)][q]), !.retire = @ \ {q}]
<1>c. t \in Txns /\ t.todo = txn[p].todo /\ t.retire = txn[p].retire \ {q}
  BY <1>b, TxnUpdates DEF Txns
<1>d. txn' = Set(txn, p, t)
  BY <1>a DEF MoveAside
<1> HIDE DEF t
<1>1. TypeOK'
  <2>1. pc' \in [Procs -> Labels]
    BY DEF Inv, TypeOK, Save, Goto, Labels, LoopSteps, PublishSteps
  <2>2. txn' \in [Procs -> Txns]
    BY <1>c, <1>d DEF Inv, TypeOK, Set
  <2>3. art' \in [Stages -> Files]
    BY <1>a, ArtUpdate DEF Inv, TypeOK, MoveAside
  <2>4. QED
    BY <2>1, <2>2, <2>3 DEF Inv, TypeOK, Save, frame
<1>2. Control(p)'
  <2>1. txn'[p] = t
    BY <1>d DEF Inv, TypeOK, Set
  <2>2. /\ pc[p] = "save" /\ outs' = outs /\ job' = job /\ run' = run /\ outcome' = outcome
        /\ staged' = staged /\ pc'[p] = "install"
    BY DEF Inv, TypeOK, Save, frame, Goto
  <2>3. QED
    BY <2>1, <2>2, <1>a, <1>c DEF Inv, Control, Stage, LoopSteps, PublishSteps, HasRun
<1>3. ASSUME NEW r \in Procs, r # p PROVE Control(r)'
  BY <1>3, ControlLocal DEF Inv, TypeOK, Save, MoveAside, Goto, Set, frame
<1>4. QED
  BY <1>1, <1>2, <1>3 DEF Inv

\* One rename of a staged artifact to its place.
LEMMA InstallType ==
    ASSUME Inv, NEW p \in Procs, Install(p)
    PROVE  Inv'
<1>0. Stage(p) \in Stages
  BY StageIn DEF Install, LoopSteps, PublishSteps
<1>a. PICK q \in txn[p].todo : q = Least(txn[p].todo)
  BY LeastIn DEF Inv, TypeOK, Control, Install, PublishSteps, Txns
<1>b. txn[p] \in Txns /\ q \in Paths
  BY <1>a DEF Inv, TypeOK, Txns
<1> DEFINE t == [txn[p] EXCEPT !.todo = @ \ {q}, !.done = @ \cup {q}]
<1>c. t \in Txns /\ t.todo = txn[p].todo \ {q} /\ t.retire = txn[p].retire
  BY <1>b, TxnUpdates DEF Txns
<1>d. Published(p, q) => /\ txn' = Set(txn, p, t)
                         /\ Goto(p, IF txn[p].todo = {q} THEN "saveManifest" ELSE "save")
  BY DEF Published, AfterInstall
<1> HIDE DEF t
<1>e. \/ Goto(p, "chmod") /\ txn' = txn
      \/ Published(p, q)
  BY <1>a DEF Install
<1>1. TypeOK'
  <2>1. pc' \in [Procs -> Labels]
    BY <1>d, <1>e DEF Inv, TypeOK, Goto, Labels, LoopSteps, PublishSteps
  <2>2. txn' \in [Procs -> Txns]
    BY <1>c, <1>d, <1>e DEF Inv, TypeOK, Set
  <2>3. art' \in [Stages -> Files]
    <3>1. staged[p][q] \in Contents
      BY <1>a, OutputDomain DEF Inv, Control, Install, PublishSteps
    <3>2. QED
      BY <3>1, <1>a, ArtUpdate DEF Inv, TypeOK, Install
  <2>4. QED
    BY <2>1, <2>2, <2>3 DEF Inv, TypeOK, Install, frame
<1>2. Control(p)'
  <2>1. /\ pc[p] = "install" /\ outs' = outs /\ job' = job /\ run' = run /\ outcome' = outcome
        /\ staged' = staged
    BY DEF Install, frame
  <2>2. \/ pc'[p] = "chmod" /\ txn'[p] = txn[p]
        \/ /\ pc'[p] = IF txn[p].todo = {q} THEN "saveManifest" ELSE "save"
           /\ txn'[p] = t
    BY <1>d, <1>e DEF Inv, TypeOK, Goto, Set
  <2>3. QED
    BY <2>1, <2>2, <1>a, <1>c DEF Inv, Control, Stage, LoopSteps, PublishSteps, HasRun
<1>3. ASSUME NEW r \in Procs, r # p PROVE Control(r)'
  BY <1>3, ControlLocal DEF Inv, TypeOK, Install, Published, Goto, Set, frame
<1>4. QED
  BY <1>1, <1>2, <1>3 DEF Inv

\* The chmod of a private artifact after its rename.
LEMMA ChmodType ==
    ASSUME Inv, NEW p \in Procs, Chmod(p)
    PROVE  Inv'
<1>a. PICK q \in txn[p].todo : q = Least(txn[p].todo)
  BY LeastIn DEF Inv, TypeOK, Control, Chmod, PublishSteps, Txns
<1>b. txn[p] \in Txns /\ q \in Paths
  BY <1>a DEF Inv, TypeOK, Txns
<1> DEFINE t == [txn[p] EXCEPT !.todo = @ \ {q}, !.done = @ \cup {q}]
<1>c. t \in Txns /\ t.todo = txn[p].todo \ {q} /\ t.retire = txn[p].retire
  BY <1>b, TxnUpdates DEF Txns
<1>d. Published(p, q) => /\ txn' = Set(txn, p, t)
                         /\ Goto(p, IF txn[p].todo = {q} THEN "saveManifest" ELSE "save")
  BY DEF Published, AfterInstall
<1> HIDE DEF t
<1>e. Published(p, q)
  BY <1>a DEF Chmod
<1>1. TypeOK'
  <2>1. pc' \in [Procs -> Labels]
    BY <1>d, <1>e DEF Inv, TypeOK, Goto, Labels, LoopSteps, PublishSteps
  <2>2. txn' \in [Procs -> Txns]
    BY <1>c, <1>d, <1>e DEF Inv, TypeOK, Set
  <2>3. QED
    BY <2>1, <2>2 DEF Inv, TypeOK, Chmod, disk, frame
<1>2. Control(p)'
  <2>1. /\ pc[p] = "chmod" /\ outs' = outs /\ job' = job /\ run' = run /\ outcome' = outcome
        /\ staged' = staged
    BY DEF Chmod, frame
  <2>2. /\ pc'[p] = IF txn[p].todo = {q} THEN "saveManifest" ELSE "save"
        /\ txn'[p] = t
    BY <1>d, <1>e DEF Inv, TypeOK, Goto, Set
  <2>3. QED
    BY <2>1, <2>2, <1>a, <1>c DEF Inv, Control, Stage, LoopSteps, PublishSteps, HasRun
<1>3. ASSUME NEW r \in Procs, r # p PROVE Control(r)'
  BY <1>3, ControlLocal DEF Inv, TypeOK, Chmod, Published, Goto, Set, frame
<1>4. QED
  BY <1>1, <1>2, <1>3 DEF Inv

\* The rename of the old manifest to its backup.
LEMMA SaveManifestType ==
    ASSUME Inv, NEW p \in Procs, SaveManifest(p)
    PROVE  Inv'
<1>0. Stage(p) \in Stages
  BY StageIn DEF SaveManifest, LoopSteps, PublishSteps
<1>a. manifest[Stage(p)] \in ManifestFiles /\ txn[p] \in Txns
  BY <1>0 DEF Inv, TypeOK
<1> DEFINE t == [txn[p] EXCEPT !.old = manifest[Stage(p)], !.touched = TRUE]
<1>b. t \in Txns /\ t.todo = txn[p].todo
  BY <1>a, TxnManifest DEF Txns
<1>c. txn' = Set(txn, p, t)
  BY DEF SaveManifest
<1> HIDE DEF t
<1>1. TypeOK'
  <2>1. pc' \in [Procs -> Labels]
    BY DEF Inv, TypeOK, SaveManifest, Goto, Labels, LoopSteps, PublishSteps
  <2>2. txn' \in [Procs -> Txns]
    BY <1>b, <1>c DEF Inv, TypeOK, Set
  <2>3. manifest' \in [Stages -> ManifestFiles]
    BY DEF Inv, TypeOK, SaveManifest, ManifestFiles
  <2>4. QED
    BY <2>1, <2>2, <2>3 DEF Inv, TypeOK, SaveManifest, frame
<1>2. Control(p)'
  <2>1. /\ pc[p] = "saveManifest" /\ pc'[p] = "putManifest" /\ outs' = outs /\ job' = job
        /\ run' = run /\ outcome' = outcome /\ staged' = staged
    BY DEF Inv, TypeOK, SaveManifest, Goto, frame
  <2>2. txn'[p] = t
    BY <1>c DEF Inv, TypeOK, Set
  <2>3. QED
    BY <2>1, <2>2, <1>b DEF Inv, Control, Stage, LoopSteps, PublishSteps, HasRun
<1>3. ASSUME NEW r \in Procs, r # p PROVE Control(r)'
  BY <1>3, ControlLocal DEF Inv, TypeOK, SaveManifest, Goto, Set, frame
<1>4. QED
  BY <1>1, <1>2, <1>3 DEF Inv

\* The write of the new manifest.
LEMMA PutManifestType ==
    ASSUME Inv, NEW p \in Procs, PutManifest(p)
    PROVE  Inv'
<1>a. NewManifest(p) \in ManifestFiles
  BY NewManifestType DEF PutManifest, PublishSteps, ManifestFiles
<1>1. TypeOK'
  <2>1. pc' \in [Procs -> Labels]
    BY DEF Inv, TypeOK, PutManifest, Goto, Labels, LoopSteps, PublishSteps
  <2>2. manifest' \in [Stages -> ManifestFiles]
    BY <1>a DEF Inv, TypeOK, PutManifest
  <2>3. QED
    BY <2>1, <2>2 DEF Inv, TypeOK, PutManifest, memory
<1>2. Control(p)'
  BY DEF Inv, TypeOK, Control, PutManifest, Goto, Stage, memory, LoopSteps, PublishSteps, Labels, HasRun
<1>3. ASSUME NEW r \in Procs, r # p PROVE Control(r)'
  BY <1>3, ControlLocal DEF Inv, TypeOK, PutManifest, Goto, memory
<1>4. QED
  BY <1>1, <1>2, <1>3 DEF Inv

\* The return of _publish: the stage is completed in memory.
LEMMA CommitType ==
    ASSUME Inv, NEW p \in Procs, Commit(p)
    PROVE  Inv'
<1>0. Stage(p) \in Stages
  BY StageIn DEF Commit, LoopSteps, PublishSteps
<1>a. run[p] \in Runs
  BY DEF Inv, Control, Commit, HasRun, LoopSteps, PublishSteps
<1>b. NewManifest(p) \in Manifests
  BY NewManifestType DEF Commit, PublishSteps
<1>c. [run[p] EXCEPT !.stages = Set(@, Stage(p), NewManifest(p))] \in Runs
  BY <1>0, <1>a, <1>b, StagesUpdated, StagesUpdate
<1>d. Set(prior[p], Stage(p), NewManifest(p)) \in [Stages -> Manifests \cup {Absent}]
  BY <1>b DEF Inv, TypeOK, Set
<1>1. TypeOK'
  <2>1. pc' \in [Procs -> Labels]
    BY DEF Inv, TypeOK, Commit, Goto, Labels, LoopSteps, PublishSteps
  <2>2. run' \in [Procs -> Runs \cup {Absent}]
    BY <1>c DEF Inv, TypeOK, Commit, Set
  <2>3. prior' \in [Procs -> [Stages -> Manifests \cup {Absent}]]
    BY <1>d, SetType DEF Inv, TypeOK, Commit
  <2>4. txn' \in [Procs -> Txns]
    BY Defaults DEF Inv, TypeOK, Commit, Set
  <2>5. staged' \in [Procs -> Outputs \cup {<<>>}]
    BY DEF Inv, TypeOK, Commit, Set
  <2>6. before' \in [Procs -> Snapshots]
    BY Defaults DEF Inv, TypeOK, Commit, Set
  <2>7. QED
    BY <2>1, <2>2, <2>3, <2>4, <2>5, <2>6 DEF Inv, TypeOK, Commit, disk, frame
<1>2. Control(p)'
  <2>1. run'[p] \in Runs
    BY <1>c DEF Inv, TypeOK, Commit, Set
  <2>2. pc[p] = "fsync" /\ pc'[p] = "checkpoint" /\ outs' = outs /\ job' = job
    BY DEF Inv, TypeOK, Commit, Goto, frame
  <2>3. run'[p].stages[Stage(p)] = NewManifest(p)
    BY <1>0, <1>a DEF Inv, TypeOK, Commit, Set, Runs
  <2>4. QED
    BY <2>1, <2>2, <2>3, <1>b DEF Inv, Control, Stage, LoopSteps, PublishSteps, HasRun
<1>3. ASSUME NEW r \in Procs, r # p PROVE Control(r)'
  BY <1>3, ControlLocal DEF Inv, TypeOK, Commit, Goto, Set, frame
<1>4. QED
  BY <1>1, <1>2, <1>3 DEF Inv

\* The write of run.json with the completed stage.
LEMMA CheckpointType ==
    ASSUME Inv, NEW p \in Procs, Checkpoint(p)
    PROVE  Inv'
<1>0. Stage(p) \in Stages /\ Stage(p) <= job[p].target
  BY StageIn DEF Checkpoint, LoopSteps
<1>a. run[p] \in Runs
  BY DEF Inv, Control, Checkpoint, HasRun, LoopSteps
<1>b. run[p].stages[Stage(p)].out \in Outputs
  BY DEF Inv, Control, Checkpoint, Manifests
<1>c. Append(outs[p], run[p].stages[Stage(p)].out) \in Seq(Outputs)
  BY <1>b DEF Inv, TypeOK
<1>1. TypeOK'
  <2>1. pc' \in [Procs -> Labels]
    BY DEF Inv, TypeOK, Checkpoint, Goto, Labels, LoopSteps, PublishSteps, AfterStage
  <2>2. runFile' \in Runs \cup {Absent, Malformed}
    BY <1>a DEF Inv, TypeOK, Checkpoint, WriteRun
  <2>3. faults' \in Nat
    BY DEF Inv, TypeOK, Checkpoint, WriteRun, Fault
  <2>4. outs' \in [Procs -> Seq(Outputs)]
    BY <1>c DEF Inv, TypeOK, Checkpoint, Set
  <2>5. QED
    BY <2>1, <2>2, <2>3, <2>4 DEF Inv, TypeOK, Checkpoint, frame
<1>2. Control(p)'
  <2>1. CASE pc'[p] = "stageFail" /\ outs' = outs
    BY <2>1, <1>0, <1>a DEF Inv, Control, Checkpoint, Stage, frame, LoopSteps, PublishSteps, HasRun
  <2>2. CASE /\ pc'[p] = AfterStage(p, Stage(p))
             /\ outs' = Set(outs, p, Append(outs[p], run[p].stages[Stage(p)].out))
    <3>1. Stage(p)' = Stage(p) + 1
      BY <2>2, <1>b DEF Inv, TypeOK, Stage, Set
    <3>2. QED
      BY <2>2, <3>1, <1>0, <1>a DEF Inv, TypeOK, Control, Checkpoint, AfterStage, frame, Jobs,
         Stages, LoopSteps, PublishSteps, HasRun
  <2>3. QED
    BY <2>1, <2>2 DEF Inv, TypeOK, Checkpoint, Goto
<1>3. ASSUME NEW r \in Procs, r # p PROVE Control(r)'
  BY <1>3, ControlLocal DEF Inv, TypeOK, Checkpoint, Goto, Set, frame
<1>4. QED
  BY <1>1, <1>2, <1>3 DEF Inv

\* One removal of an installed artifact by the rollback.
LEMMA UndoInstallType ==
    ASSUME Inv, NEW p \in Procs, UndoInstall(p)
    PROVE  Inv'
<1>a. PICK q \in txn[p].done : q = Least(txn[p].done)
  BY LeastIn DEF Inv, TypeOK, UndoInstall, Txns
<1>b. txn[p] \in Txns /\ q \in Paths
  BY <1>a DEF Inv, TypeOK, Txns
<1>c. [txn[p] EXCEPT !.done = @ \ {q}] \in Txns
  BY <1>b, TxnUpdates
<1>1. TypeOK'
  <2>1. txn' \in [Procs -> Txns]
    BY <1>a, <1>c DEF Inv, TypeOK, UndoInstall, Set
  <2>2. art' \in [Stages -> Files]
    BY ArtUpdate DEF Inv, TypeOK, UndoInstall
  <2>3. QED
    BY <2>1, <2>2 DEF Inv, TypeOK, UndoInstall, frame
<1>2. Control(p)'
  BY DEF Inv, Control, UndoInstall, Stage, frame, LoopSteps, PublishSteps, Labels, HasRun
<1>3. ASSUME NEW r \in Procs, r # p PROVE Control(r)'
  BY <1>3, ControlLocal DEF Inv, TypeOK, UndoInstall, Set, frame
<1>4. QED
  BY <1>1, <1>2, <1>3 DEF Inv

\* One backup put back by the rollback.
LEMMA UndoBackupType ==
    ASSUME Inv, NEW p \in Procs, UndoBackup(p)
    PROVE  Inv'
<1>0. Stage(p) \in Stages
  BY StageIn DEF UndoBackup, LoopSteps, PublishSteps
<1>a. PICK q \in Backups(p) :
        /\ art' = [art EXCEPT ![Stage(p)][q] = txn[p].backup[q]]
        /\ txn' = Set(txn, p, [txn[p] EXCEPT !.backup = Set(@, q, NoFile)])
  BY DEF UndoBackup
<1>b. /\ txn[p] \in Txns /\ q \in Paths
      /\ txn[p].backup[q] \in Contents \cup {NoFile}
  BY DEF Inv, TypeOK, Txns, Files, Backups
<1>c. [txn[p] EXCEPT !.backup = Set(@, q, NoFile)] \in Txns
  BY <1>b, TxnUpdates
<1>1. TypeOK'
  <2>1. txn' \in [Procs -> Txns]
    BY <1>a, <1>c, SetType DEF Inv, TypeOK
  <2>2. art' \in [Stages -> Files]
    BY <1>a, <1>b, ArtUpdate DEF Inv, TypeOK
  <2>3. QED
    BY <2>1, <2>2 DEF Inv, TypeOK, UndoBackup, frame
<1>2. Control(p)'
  BY DEF Inv, Control, UndoBackup, Stage, frame, LoopSteps, PublishSteps, Labels, HasRun
<1>3. ASSUME NEW r \in Procs, r # p PROVE Control(r)'
  BY <1>3, ControlLocal DEF Inv, TypeOK, UndoBackup, Set, frame
<1>4. QED
  BY <1>1, <1>2, <1>3 DEF Inv

\* The old manifest put back by the rollback.
LEMMA UndoManifestType ==
    ASSUME Inv, NEW p \in Procs, UndoManifest(p)
    PROVE  Inv'
<1>0. Stage(p) \in Stages
  BY StageIn DEF UndoManifest, LoopSteps, PublishSteps
<1>a. ManifestBack(p) \in ManifestFiles
  BY <1>0 DEF Inv, TypeOK, ManifestBack, Txns
<1>1. TypeOK'
  <2>1. pc' \in [Procs -> Labels]
    BY DEF Inv, TypeOK, UndoManifest, Goto, Labels, LoopSteps, PublishSteps
  <2>2. manifest' \in [Stages -> ManifestFiles]
    BY <1>a DEF Inv, TypeOK, UndoManifest
  <2>3. QED
    BY <2>1, <2>2 DEF Inv, TypeOK, UndoManifest, memory
<1>2. Control(p)'
  BY DEF Inv, TypeOK, Control, UndoManifest, Goto, Stage, memory, LoopSteps, PublishSteps, Labels, HasRun
<1>3. ASSUME NEW r \in Procs, r # p PROVE Control(r)'
  BY <1>3, ControlLocal DEF Inv, TypeOK, UndoManifest, Goto, memory
<1>4. QED
  BY <1>1, <1>2, <1>3 DEF Inv

\* The stage marked failed and written to run.json.
LEMMA StageFailType ==
    ASSUME Inv, NEW p \in Procs, StageFail(p)
    PROVE  Inv'
<1>0. Stage(p) \in Stages
  BY StageIn DEF StageFail, LoopSteps, PublishSteps
<1>a. run[p] \in Runs
  BY DEF Inv, Control, StageFail, HasRun, LoopSteps, PublishSteps
<1>b. [run[p] EXCEPT !.stages = MarkFailure(@, Stage(p)), !.status = "failed"] \in Runs
  BY <1>0, <1>a, StagesUpdated, StagesUpdate
<1>1. TypeOK'
  <2>1. pc' \in [Procs -> Labels]
    BY DEF Inv, TypeOK, StageFail, Goto, Labels, LoopSteps, PublishSteps
  <2>2. run' \in [Procs -> Runs \cup {Absent}]
    BY <1>b DEF Inv, TypeOK, StageFail, Set
  <2>3. txn' \in [Procs -> Txns]
    BY Defaults DEF Inv, TypeOK, StageFail, Set
  <2>4. staged' \in [Procs -> Outputs \cup {<<>>}]
    BY DEF Inv, TypeOK, StageFail, Set
  <2>5. before' \in [Procs -> Snapshots]
    BY Defaults DEF Inv, TypeOK, StageFail, Set
  <2>6. QED
    BY <2>1, <2>2, <2>3, <2>4, <2>5 DEF Inv, TypeOK, StageFail, disk, frame
<1>2. Control(p)'
  BY DEF Inv, TypeOK, Control, StageFail, Goto, frame, LoopSteps, PublishSteps, Labels, HasRun
<1>3. ASSUME NEW r \in Procs, r # p PROVE Control(r)'
  BY <1>3, ControlLocal DEF Inv, TypeOK, StageFail, Goto, Set, frame
<1>4. QED
  BY <1>1, <1>2, <1>3 DEF Inv

\* An OSError where the process stands.
LEMMA OsErrorType ==
    ASSUME Inv, NEW p \in Procs, OsError(p)
    PROVE  Inv'
<1>1. TypeOK'
  <2>1. pc' \in [Procs -> Labels]
    BY DEF Inv, TypeOK, OsError, Goto, Labels, LoopSteps, PublishSteps, Handler
  <2>2. faults' \in Nat
    BY DEF Inv, TypeOK, OsError, Fault
  <2>3. QED
    BY <2>1, <2>2 DEF Inv, TypeOK, OsError, disk, memory
<1>2. Control(p)'
  BY DEF Inv, TypeOK, Control, OsError, Handler, Goto, Stage, memory, LoopSteps, PublishSteps, Labels, HasRun
<1>3. ASSUME NEW r \in Procs, r # p PROVE Control(r)'
  BY <1>3, ControlLocal DEF Inv, TypeOK, OsError, Goto, memory
<1>4. QED
  BY <1>1, <1>2, <1>3 DEF Inv

\* A KeyboardInterrupt where the process stands.
LEMMA InterruptType ==
    ASSUME Inv, NEW p \in Procs, Interrupt(p)
    PROVE  Inv'
<1>1. TypeOK'
  <2>1. pc' \in [Procs -> Labels]
    BY DEF Inv, TypeOK, Interrupt, Goto, Labels, LoopSteps, PublishSteps
  <2>2. faults' \in Nat
    BY DEF Inv, TypeOK, Interrupt, Fault
  <2>3. txn' \in [Procs -> Txns]
    BY Defaults DEF Inv, TypeOK, Interrupt, Set
  <2>4. staged' \in [Procs -> Outputs \cup {<<>>}]
    BY DEF Inv, TypeOK, Interrupt, Set
  <2>5. before' \in [Procs -> Snapshots]
    BY Defaults DEF Inv, TypeOK, Interrupt, Set
  <2>6. QED
    BY <2>1, <2>2, <2>3, <2>4, <2>5 DEF Inv, TypeOK, Interrupt, disk, frame
<1>2. Control(p)'
  BY DEF Inv, TypeOK, Control, Interrupt, Goto, frame, LoopSteps, PublishSteps, Labels, HasRun
<1>3. ASSUME NEW r \in Procs, r # p PROVE Control(r)'
  BY <1>3, ControlLocal DEF Inv, TypeOK, Interrupt, Goto, Set, frame
<1>4. QED
  BY <1>1, <1>2, <1>3 DEF Inv

\* The death of the process at any point.
LEMMA KillType ==
    ASSUME Inv, NEW p \in Procs, Kill(p)
    PROVE  Inv'
<1>0. TypeOK => /\ job' \in [Procs -> Jobs] /\ run' \in [Procs -> Runs \cup {Absent}]
                /\ prior' \in [Procs -> [Stages -> Manifests \cup {Absent}]]
                /\ outs' \in [Procs -> Seq(Outputs)]
                /\ staged' \in [Procs -> Outputs \cup {<<>>}] /\ txn' \in [Procs -> Txns]
                /\ outcome' \in [Procs -> Outcomes] /\ clone' \in [Procs -> BOOLEAN]
                /\ before' \in [Procs -> Snapshots]
                /\ origin' \in [Procs -> Configs \cup {NoConfig}]
  BY Forgotten DEF Kill
<1>1. TypeOK'
  <2>1. pc' \in [Procs -> Labels]
    BY DEF Inv, TypeOK, Kill, Goto, Labels, LoopSteps, PublishSteps
  <2>2. faults' \in Nat
    BY DEF Inv, TypeOK, Kill, Fault
  <2>3. lock' \in Procs \cup {NoProc}
    BY DEF Kill, Unlock
  <2>4. QED
    BY <1>0, <2>1, <2>2, <2>3 DEF Inv, TypeOK, Kill, disk
<1>2. Control(p)'
  <2>1. pc'[p] = "idle" /\ outs'[p] = <<>>
    BY DEF Inv, TypeOK, Kill, Goto, Forget, Set
  <2>2. QED
    BY <2>1 DEF Control, LoopSteps, PublishSteps, HasRun
<1>3. ASSUME NEW r \in Procs, r # p PROVE Control(r)'
  BY <1>3, ControlLocal DEF Inv, TypeOK, Kill, Goto, Forget, Set
<1>4. QED
  BY <1>1, <1>2, <1>3 DEF Inv

\* The return to the caller and the release of the lock.
LEMMA ExitType ==
    ASSUME Inv, NEW p \in Procs, Exit(p)
    PROVE  Inv'
<1>0. TypeOK => /\ job' \in [Procs -> Jobs] /\ run' \in [Procs -> Runs \cup {Absent}]
                /\ prior' \in [Procs -> [Stages -> Manifests \cup {Absent}]]
                /\ outs' \in [Procs -> Seq(Outputs)]
                /\ staged' \in [Procs -> Outputs \cup {<<>>}] /\ txn' \in [Procs -> Txns]
                /\ outcome' \in [Procs -> Outcomes] /\ clone' \in [Procs -> BOOLEAN]
                /\ before' \in [Procs -> Snapshots]
                /\ origin' \in [Procs -> Configs \cup {NoConfig}]
  BY Forgotten DEF Exit
<1>1. TypeOK'
  <2>1. pc' \in [Procs -> Labels]
    BY DEF Inv, TypeOK, Exit, Goto, Labels, LoopSteps, PublishSteps
  <2>2. lock' \in Procs \cup {NoProc}
    BY DEF Exit, Unlock
  <2>3. QED
    BY <1>0, <2>1, <2>2 DEF Inv, TypeOK, Exit, disk
<1>2. Control(p)'
  <2>1. pc'[p] = "idle" /\ outs'[p] = <<>>
    BY DEF Inv, TypeOK, Exit, Goto, Forget, Set
  <2>2. QED
    BY <2>1 DEF Control, LoopSteps, PublishSteps, HasRun
<1>3. ASSUME NEW r \in Procs, r # p PROVE Control(r)'
  BY <1>3, ControlLocal DEF Inv, TypeOK, Exit, Goto, Forget, Set
<1>4. QED
  BY <1>1, <1>2, <1>3 DEF Inv

\* The outer handler: the run marked failed and written.
LEMMA FailType ==
    ASSUME Inv, NEW p \in Procs, Fail(p)
    PROVE  Inv'
<1>a. run[p] # Absent => [run[p] EXCEPT !.status = "failed"] \in Runs
  BY StatusUpdate DEF Inv, TypeOK
<1>b. /\ [outcome[p] EXCEPT !.failure = TRUE] \in Outcomes
      /\ \A b \in BOOLEAN : [outcome[p] EXCEPT !.failure = TRUE, !.unwritten = b] \in Outcomes
  BY ZenonT(60) DEF Inv, TypeOK, Outcomes
<1>c. \/ UNCHANGED <<runFile, run, faults>>
      \/ /\ run[p] # Absent
         /\ run' = Set(run, p, [run[p] EXCEPT !.status = "failed"])
         /\ run'[p] = [run[p] EXCEPT !.status = "failed"]
         /\ \E landed, raised \in BOOLEAN : WriteRun(run'[p], landed, raised)
  BY DEF Inv, TypeOK, Fail, Set
<1>1. TypeOK'
  <2>1. pc' \in [Procs -> Labels]
    BY DEF Inv, TypeOK, Fail, Goto, Labels, LoopSteps, PublishSteps
  <2>2. run' \in [Procs -> Runs \cup {Absent}]
    BY <1>a, <1>c DEF Inv, TypeOK, Set
  <2>3. runFile' \in Runs \cup {Absent, Malformed}
    BY <1>a, <1>c DEF Inv, TypeOK, WriteRun
  <2>4. faults' \in Nat
    BY <1>c DEF Inv, TypeOK, WriteRun, Fault
  <2>5. outcome' \in [Procs -> Outcomes]
    BY <1>b, ZenonT(60) DEF Inv, TypeOK, Fail, Set
  <2>6. QED
    BY <2>1, <2>2, <2>3, <2>4, <2>5 DEF Inv, TypeOK, Fail, disk
<1>2. Control(p)'
  <2>1. pc'[p] = "finalize" /\ outcome'[p].failure /\ job' = job /\ pc[p] = "fail"
    BY <1>b, ZenonT(60) DEF Inv, TypeOK, Fail, Goto, Set, Outcomes
  <2>2. QED
    BY <2>1 DEF Inv, Control, LoopSteps, PublishSteps, HasRun
<1>3. ASSUME NEW r \in Procs, r # p PROVE Control(r)'
  BY <1>3, ControlLocal DEF Inv, TypeOK, Fail, Goto, Set
<1>4. QED
  BY <1>1, <1>2, <1>3 DEF Inv

\* The finalizer of the run, which may raise.
LEMMA FinalizeType ==
    ASSUME Inv, NEW p \in Procs, Finalize(p)
    PROVE  Inv'
<1>a. run[p] # Absent => /\ run[p] \in Runs
                         /\ [run[p] EXCEPT !.status = "failed"] \in Runs
  BY StatusUpdate DEF Inv, TypeOK
<1>b. \A b \in BOOLEAN : /\ [outcome[p] EXCEPT !.final = b] \in Outcomes
                          /\ [outcome[p] EXCEPT !.final = b].failure = outcome[p].failure
  BY ZenonT(60) DEF Inv, TypeOK, Outcomes
<1>1. TypeOK'
  <2>1. pc' \in [Procs -> Labels]
    BY DEF Inv, TypeOK, Finalize, Goto, Labels, LoopSteps, PublishSteps, AfterFinalize
  <2>2. run' \in [Procs -> Runs \cup {Absent}]
    BY <1>a DEF Inv, TypeOK, Finalize, Set
  <2>3. faults' \in Nat
    BY DEF Inv, TypeOK, Finalize, Fault
  <2>4. clone' \in [Procs -> BOOLEAN]
    BY DEF Inv, TypeOK, Finalize, Set
  <2>5. outcome' \in [Procs -> Outcomes]
    BY <1>b DEF Inv, TypeOK, Finalize, Set
  <2>6. QED
    BY <2>1, <2>2, <2>3, <2>4, <2>5 DEF Inv, TypeOK, Finalize, disk
<1>2. Control(p)'
  <2>1. /\ pc[p] = "finalize" /\ job' = job
        /\ pc'[p] \in {"rewrite", "exit", "finish"}
        /\ pc'[p] = "rewrite" => run'[p] \in Runs
    BY <1>a DEF Inv, TypeOK, Finalize, AfterFinalize, Goto, Set
  <2>2. pc'[p] = "finish" => ~outcome[p].failure /\ run' = run
    BY DEF Inv, TypeOK, Finalize, AfterFinalize, Goto
  <2>3. QED
    BY <2>1, <2>2 DEF Inv, Control, LoopSteps, PublishSteps, HasRun
<1>3. ASSUME NEW r \in Procs, r # p PROVE Control(r)'
  BY <1>3, ControlLocal DEF Inv, TypeOK, Finalize, Goto, Set
<1>4. QED
  BY <1>1, <1>2, <1>3 DEF Inv

\* The write of run.json after a failed finalizer or an unwritten failure.
LEMMA RewriteType ==
    ASSUME Inv, NEW p \in Procs, Rewrite(p)
    PROVE  Inv'
<1>a. run[p] \in Runs
  BY DEF Inv, Control, Rewrite, HasRun
<1>b. \A b \in BOOLEAN : [outcome[p] EXCEPT !.unwritten = b] \in Outcomes
  BY ZenonT(60) DEF Inv, TypeOK, Outcomes
<1>1. TypeOK'
  <2>1. pc' \in [Procs -> Labels]
    BY DEF Inv, TypeOK, Rewrite, Goto, Labels, LoopSteps, PublishSteps
  <2>2. runFile' \in Runs \cup {Absent, Malformed}
    BY <1>a DEF Inv, TypeOK, Rewrite, WriteRun, Set
  <2>3. faults' \in Nat
    BY DEF Inv, TypeOK, Rewrite, WriteRun, Fault
  <2>4. outcome' \in [Procs -> Outcomes]
    BY <1>b DEF Inv, TypeOK, Rewrite, Set
  <2>5. QED
    BY <2>1, <2>2, <2>3, <2>4 DEF Inv, TypeOK, Rewrite, disk
<1>2. Control(p)'
  BY DEF Inv, TypeOK, Control, Rewrite, Goto, LoopSteps, PublishSteps, Labels, HasRun
<1>3. ASSUME NEW r \in Procs, r # p PROVE Control(r)'
  BY <1>3, ControlLocal DEF Inv, TypeOK, Rewrite, Goto, Set
<1>4. QED
  BY <1>1, <1>2, <1>3 DEF Inv

\* The last write of run.json, with status completed.
LEMMA FinishType ==
    ASSUME Inv, NEW p \in Procs, Finish(p)
    PROVE  Inv'
<1>a. [run[p] EXCEPT !.status = "completed"] \in Runs
  BY StatusUpdate DEF Inv, Control, Finish, HasRun
<1>b. \A b \in BOOLEAN : [outcome[p] EXCEPT !.failure = b, !.unwritten = b] \in Outcomes
  BY ZenonT(60) DEF Inv, TypeOK, Outcomes
<1>1. TypeOK'
  <2>1. pc' \in [Procs -> Labels]
    BY DEF Inv, TypeOK, Finish, Goto, Labels, LoopSteps, PublishSteps
  <2>2. runFile' \in Runs \cup {Absent, Malformed}
    BY <1>a DEF Inv, TypeOK, Finish, WriteRun, Set
  <2>3. faults' \in Nat
    BY DEF Inv, TypeOK, Finish, WriteRun, Fault
  <2>4. run' \in [Procs -> Runs \cup {Absent}]
    BY <1>a DEF Inv, TypeOK, Finish, Set
  <2>5. outcome' \in [Procs -> Outcomes]
    BY <1>b DEF Inv, TypeOK, Finish, Set
  <2>6. settled' \in Configs \cup {NoConfig}
    BY DEF Inv, TypeOK, Control, Finish, Jobs
  <2>7. QED
    BY <2>1, <2>2, <2>3, <2>4, <2>5, <2>6 DEF Inv, TypeOK, Finish, disk
<1>2. Control(p)'
  BY DEF Inv, TypeOK, Control, Finish, Goto, LoopSteps, PublishSteps, Labels, HasRun
<1>3. ASSUME NEW r \in Procs, r # p PROVE Control(r)'
  BY <1>3, ControlLocal DEF Inv, TypeOK, Finish, Goto, Set
<1>4. QED
  BY <1>1, <1>2, <1>3 DEF Inv

\* An edit of the output directory from outside.
LEMMA EditType ==
    ASSUME Inv, Edit
    PROVE  Inv'
<1>1. TypeOK'
  <2>1. /\ runFile' \in Runs \cup {Absent, Malformed}
        /\ manifest' \in [Stages -> ManifestFiles]
        /\ art' \in [Stages -> Files]
    <3>1. CASE \E s \in Stages, q \in Paths : EditArtifact(s, q)
      <4>1. PICK s \in Stages, q \in Paths : EditArtifact(s, q)
        BY <3>1
      <4>2. PICK c \in Contents \cup {NoFile} : art' = [art EXCEPT ![s][q] = c]
        BY <4>1 DEF EditArtifact
      <4>3. QED
        BY <4>1, <4>2, ArtUpdate DEF Inv, TypeOK, EditArtifact
    <3>2. CASE \E s \in Stages : EditManifest(s)
      BY <3>2 DEF Inv, TypeOK, EditManifest, ManifestFiles
    <3>3. CASE EditRun
      BY <3>3 DEF Inv, TypeOK, EditRun
    <3>4. QED
      BY <3>1, <3>2, <3>3 DEF Edit
  <2>2. faults' \in Nat
    BY DEF Inv, TypeOK, Edit, Fault
  <2>3. QED
    BY <2>1, <2>2 DEF Inv, TypeOK, Edit, memory
<1>2. ASSUME NEW r \in Procs PROVE Control(r)'
  BY ControlLocal DEF Inv, Edit, memory
<1>3. QED
  BY <1>1, <1>2 DEF Inv

\* The initial state has the types and the control facts.
LEMMA InitInv == Init => Inv
<1> SUFFICES ASSUME Init PROVE Inv
  OBVIOUS
<1>1. TypeOK
  BY Defaults DEF Init, TypeOK, ManifestFiles, Files, Labels
<1>2. ASSUME NEW p \in Procs PROVE Control(p)
  BY DEF Init, Control, LoopSteps, PublishSteps, HasRun
<1>3. QED
  BY <1>1, <1>2 DEF Inv

\* Every step keeps the types and the control facts.
LEMMA NextInv == Inv /\ [Next]_vars => Inv'
<1> SUFFICES ASSUME Inv, [Next]_vars PROVE Inv'
  OBVIOUS
<1>1. ASSUME NEW p \in Procs, Step(p) PROVE Inv'
  BY <1>1, AcquireType, LoadType, WriteStartType, PreflightType, ReuseType, InvalidateType, ExecuteType, 
     RetireType, SaveType, InstallType, ChmodType, SaveManifestType, PutManifestType, CommitType, CheckpointType,
     UndoInstallType, UndoBackupType, UndoManifestType, StageFailType, FailType, FinalizeType, RewriteType, FinishType, ExitType
     DEF Step
<1>2. CASE Edit
  BY <1>2, EditType
<1>3. CASE UNCHANGED vars
  BY <1>3 DEF Inv, TypeOK, Control, Stage, vars, disk, memory
<1>4. ASSUME NEW p \in Procs, Invoke(p) \/ OsError(p) \/ Interrupt(p) \/ Kill(p) PROVE Inv'
  BY <1>4, InvokeType, OsErrorType, InterruptType, KillType
<1>5. QED
  BY <1>1, <1>2, <1>3, <1>4 DEF Next

\* The variables of the pipeline keep their types in every behaviour, for any
\* number of stages, processes, paths and faults.
THEOREM TypeCorrect == Spec => []TypeOK
<1>1. Inv => TypeOK
  BY DEF Inv
<1>2. QED
  BY InitInv, NextInv, <1>1, PTL DEF Spec

-----------------------------------------------------------------------------
(* The chain of upstream hashes.                                           *)

\* A missing run.json is no run record.
LEMMA AbsentIsNoRun == Absent \notin Runs
  BY DEF Absent, Runs

\* Chained looks at the stages of a run only.
LEMMA ChainedStages ==
    ASSUME NEW r, NEW x, r.stages = x.stages, Chained(x)
    PROVE  Chained(r)
  BY DEF Chained

\* Forgetting every stage from some stage on keeps a chain.
LEMMA ChainedPrefix ==
    ASSUME NEW r, NEW x, NEW k \in Stages, Chained(r),
           \A s \in Stages : IF s < k THEN x.stages[s] = r.stages[s]
                             ELSE x.stages[s].status # "completed"
    PROVE  Chained(x)
<1> SUFFICES ASSUME NEW s \in Stages, x.stages[s].status = "completed"
             PROVE  /\ Len(x.stages[s].fp.upstream) = s - 1
                    /\ \A t \in 1..(s - 1) :
                         /\ x.stages[t].status = "completed"
                         /\ x.stages[s].fp.upstream[t] = x.stages[t].out
  BY DEF Chained
<1>1. s < k /\ x.stages[s] = r.stages[s]
  OBVIOUS
<1>2. \A t \in 1..(s - 1) : t \in Stages /\ t < k
  BY <1>1, StagesAssumption DEF Stages
<1>3. \A t \in 1..(s - 1) : x.stages[t] = r.stages[t]
  BY <1>2
<1>4. QED
  BY <1>1, <1>3 DEF Chained

\* Link(r) reads only pc, run and outs of process r.
LEMMA LinkLocal ==
    ASSUME NEW r \in Procs, Link(r), pc'[r] = pc[r], run'[r] = run[r], outs'[r] = outs[r]
    PROVE  Link(r)'
  BY DEF Link, Stage

\* A step that touches neither the record nor the hashes keeps the link as
\* long as it does not enter a part of the loop where more is required.
LEMMA LinkMove ==
    ASSUME NEW r \in Procs, Link(r), run'[r] = run[r], outs'[r] = outs[r],
           pc'[r] \in Counting => pc[r] \in Counting,
           pc'[r] \in Fresh => pc[r] \in Fresh,
           pc'[r] # "checkpoint"
    PROVE  Link(r)'
  BY DEF Link, Stage

\* The steps that touch neither run.json nor the record in memory keep the chain.
LEMMA QuietChain ==
    ASSUME Inv, ChainInv, NEW p \in Procs,
           \/ Invoke(p) \/ Acquire(p) \/ Preflight(p) \/ Execute(p) \/ Retire(p) \/ Save(p)
           \/ Install(p) \/ Chmod(p) \/ SaveManifest(p) \/ PutManifest(p) \/ UndoInstall(p)
           \/ UndoBackup(p) \/ UndoManifest(p) \/ OsError(p) \/ Interrupt(p)
    PROVE  ChainInv'
<1>1. /\ runFile' = runFile /\ run' = run /\ outs' = outs
      /\ \A r \in Procs : r # p => pc'[r] = pc[r]
  BY DEF Inv, TypeOK, Invoke, Acquire, Preflight, Execute, Retire, Save, Install, Chmod,
     SaveManifest, PutManifest, UndoInstall, UndoBackup, UndoManifest, OsError, Interrupt,
     Published, Goto, disk, memory, frame
<1>2. /\ pc'[p] \in Counting => pc[p] \in Counting
      /\ pc'[p] \in Fresh => pc[p] \in Fresh
      /\ pc'[p] # "checkpoint"
  BY DEF Inv, TypeOK, Invoke, Acquire, Preflight, Execute, Retire, Save, Install, Chmod,
     SaveManifest, PutManifest, UndoInstall, UndoBackup, UndoManifest, OsError, Interrupt,
     Published, AfterInstall, Handler, Goto, Counting, Fresh, LoopSteps, PublishSteps
<1>3. ASSUME NEW r \in Procs PROVE Link(r)'
  BY <1>1, <1>2, LinkMove, LinkLocal DEF ChainInv
<1>4. RecordedChain'
  BY <1>1 DEF ChainInv, RecordedChain
<1>5. QED
  BY <1>3, <1>4 DEF ChainInv

\* Writing a chained record keeps run.json chained.
LEMMA WriteChain ==
    ASSUME RecordedChain, NEW r, Chained(r), NEW landed, NEW raised, WriteRun(r, landed, raised)
    PROVE  RecordedChain'
  BY DEF RecordedChain, WriteRun, Chained

\* Writing the record in memory as it is keeps the chain.
LEMMA WriteStartChain ==
    ASSUME Inv, ChainInv, NEW p \in Procs, WriteStart(p) \/ Rewrite(p)
    PROVE  ChainInv'
<1>1. Chained(run[p])
  BY DEF Inv, ChainInv, Link, Control, WriteStart, Rewrite, HasRun, LoopSteps, Runs, Absent
<1>2. RecordedChain'
  BY <1>1, WriteChain DEF ChainInv, WriteStart, Rewrite
<1>3. /\ run' = run /\ outs' = outs /\ \A r \in Procs : r # p => pc'[r] = pc[r]
      /\ pc'[p] \in Counting => pc[p] \in Counting
      /\ pc'[p] \notin Fresh /\ pc'[p] # "checkpoint"
  BY DEF Inv, TypeOK, WriteStart, Rewrite, Goto, memory, Counting, Fresh, LoopSteps, PublishSteps
<1>4. ASSUME NEW r \in Procs PROVE Link(r)'
  BY <1>3, LinkMove, LinkLocal DEF ChainInv
<1>5. QED
  BY <1>2, <1>4 DEF ChainInv

\* The record a run starts from is chained, and so is its copy in memory.
LEMMA LoadChain ==
    ASSUME Inv, ChainInv, NEW p \in Procs, Load(p)
    PROVE  ChainInv'
<1>1. ASSUME ~(job[p].resume /\ runFile = Malformed)
      PROVE  Chained(StartingRun(job[p].resume)) /\ StartingRun(job[p].resume) \in Runs
  <2>1. Chained(NewRun) /\ NewRun \in Runs
    BY Defaults DEF Chained, NewRun, Pending
  <2>2. QED
    BY <1>1, <2>1 DEF Inv, TypeOK, ChainInv, RecordedChain, StartingRun
<1>2. Link(p)'
  <2>1. CASE pc'[p] = "fail" /\ run' = run
    BY <2>1 DEF ChainInv, Link, Counting, Fresh, LoopSteps, PublishSteps
  <2>2. CASE /\ pc'[p] = "begin"
             /\ ~(job[p].resume /\ runFile = Malformed)
             /\ run'[p] = [StartingRun(job[p].resume) EXCEPT
                             !.status = "running", !.attempt = @ + 1]
    <3>1. run'[p].stages = StartingRun(job[p].resume).stages
      BY <2>2, <1>1 DEF Runs
    <3>2. Chained(run'[p])
      BY <2>2, <1>1, <3>1, ChainedStages
    <3>3. outs'[p] = <<>>
      BY DEF Inv, Control, Load
    <3>4. QED
      BY <2>2, <3>2, <3>3 DEF Link, Counting, Fresh, LoopSteps, PublishSteps
  <2>3. QED
    BY <2>1, <2>2 DEF Inv, TypeOK, Load, Goto, Set
<1>3. ASSUME NEW r \in Procs, r # p PROVE Link(r)'
  BY <1>3, LinkLocal DEF Inv, TypeOK, ChainInv, Load, Goto, Set
<1>4. RecordedChain'
  BY DEF ChainInv, RecordedChain, Load, disk
<1>5. QED
  BY <1>2, <1>3, <1>4 DEF ChainInv

\* Reusing a stage appends the hash recorded for it.
LEMMA ReuseChain ==
    ASSUME Inv, ChainInv, NEW p \in Procs, Reuse(p)
    PROVE  ChainInv'
<1>0. Stage(p) \in Stages /\ run[p].stages[Stage(p)].status = "completed"
  BY StageIn DEF Reuse, Reusable, LoopSteps
<1>1. outs'[p] = Append(outs[p], run[p].stages[Stage(p)].out) /\ outs[p] \in Seq(Outputs)
  BY DEF Inv, TypeOK, Reuse, Set
<1>2. run' = run /\ pc[p] = "stage" /\ pc'[p] \in {"stage", "finalize"}
  BY DEF Inv, TypeOK, Reuse, AfterStage, Goto
<1>3. Link(p)'
  BY <1>0, <1>1, <1>2 DEF ChainInv, Link, Stage, Counting, Fresh, LoopSteps, PublishSteps
<1>4. ASSUME NEW r \in Procs, r # p PROVE Link(r)'
  BY <1>4, LinkLocal DEF Inv, TypeOK, ChainInv, Reuse, Goto, Set
<1>5. RecordedChain'
  BY DEF ChainInv, RecordedChain, Reuse, disk
<1>6. QED
  BY <1>3, <1>4, <1>5 DEF ChainInv

\* Invalidation cuts the chain at the stage to be computed.
LEMMA InvalidateChain ==
    ASSUME Inv, ChainInv, NEW p \in Procs, Invalidate(p)
    PROVE  ChainInv'
<1>0. Stage(p) \in Stages /\ run[p] \in Runs
  BY StageIn DEF Inv, Control, Invalidate, HasRun, LoopSteps
<1>1. run'[p].stages = InvalidateFrom(run[p].stages, Stage(p))
  BY <1>0 DEF Inv, TypeOK, Invalidate, Set, Runs
<1>2. /\ run[p] # Absent /\ outs' = outs /\ pc[p] = "stage" /\ pc'[p] = "execute"
      /\ Stage(p) = Len(outs[p]) + 1 /\ Len(outs[p]) \in Nat
  BY <1>0 DEF Inv, TypeOK, Invalidate, Goto, Stage, Runs, Absent
<1>3. Link(p)'
  <2>1. Chained(run'[p])
    <3>1. Chained(run[p])
      BY <1>2 DEF ChainInv, Link
    <3>2. \A s \in Stages : IF s < Stage(p) THEN run'[p].stages[s] = run[p].stages[s]
                            ELSE run'[p].stages[s].status # "completed"
      BY <1>0, <1>1, StagesAssumption DEF InvalidateFrom, Invalid, Stages
    <3>3. QED
      BY <1>0, <3>1, <3>2, ChainedPrefix
  <2>2. \A t \in 1..Len(outs[p]) : run'[p].stages[t] = run[p].stages[t]
    <3>1. \A t \in 1..Len(outs[p]) : t \in Stages /\ ~(t >= Stage(p))
      BY <1>0, <1>2, StagesAssumption DEF Stages
    <3>2. QED
      BY <1>1, <3>1 DEF InvalidateFrom
  <2>3. \A s \in Stages : s >= Stage(p) => run'[p].stages[s].status # "completed"
    BY <1>1 DEF InvalidateFrom, Invalid
  <2>4. QED
    BY <2>1, <2>2, <2>3, <1>2 DEF ChainInv, Link, Stage, Counting, LoopSteps
<1>4. ASSUME NEW r \in Procs, r # p PROVE Link(r)'
  BY <1>4, LinkLocal DEF Inv, TypeOK, ChainInv, Invalidate, Goto, Set
<1>5. RecordedChain'
  BY DEF ChainInv, RecordedChain, Invalidate, disk
<1>6. QED
  BY <1>3, <1>4, <1>5 DEF ChainInv

\* The new manifest is computed from the hashes recorded for the stages before it,
\* and no later stage is completed: the chain grows by one.
LEMMA CommitChain ==
    ASSUME Inv, ChainInv, NEW p \in Procs, Commit(p)
    PROVE  ChainInv'
<1>0. Stage(p) \in Stages /\ run[p] \in Runs /\ run[p] # Absent
  BY StageIn DEF Inv, Control, Commit, HasRun, LoopSteps, PublishSteps, Runs, Absent
<1>1. run'[p].stages = [run[p].stages EXCEPT ![Stage(p)] = NewManifest(p)]
  BY <1>0 DEF Inv, TypeOK, Commit, Set, Runs
<1>2. /\ outs' = outs /\ pc[p] = "fsync" /\ pc'[p] = "checkpoint"
      /\ Stage(p) = Len(outs[p]) + 1 /\ Len(outs[p]) \in Nat
  BY DEF Inv, TypeOK, Commit, Goto, Stage
<1>3. NewManifest(p).status = "completed" /\ NewManifest(p).fp.upstream = outs[p]
  BY DEF NewManifest, Fingerprint
<1>4. /\ \A t \in 1..Len(outs[p]) : /\ run[p].stages[t].status = "completed"
                                    /\ run[p].stages[t].out = outs[p][t]
      /\ \A s \in Stages : s >= Stage(p) => run[p].stages[s].status # "completed"
      /\ Chained(run[p])
  BY <1>0, <1>2 DEF ChainInv, Link, Counting, Fresh, LoopSteps, PublishSteps
<1>5. \A s \in Stages : run'[p].stages[s] =
         IF s = Stage(p) THEN NewManifest(p) ELSE run[p].stages[s]
  BY <1>0, <1>1 DEF Runs
<1>6. Link(p)'
  <2>1. ASSUME NEW s \in Stages, run'[p].stages[s].status = "completed"
        PROVE  /\ Len(run'[p].stages[s].fp.upstream) = s - 1
               /\ \A t \in 1..(s - 1) :
                    /\ run'[p].stages[t].status = "completed"
                    /\ run'[p].stages[s].fp.upstream[t] = run'[p].stages[t].out
    <3>1. \A t \in 1..(s - 1) : t \in Stages /\ t # s
      BY StagesAssumption DEF Stages
    <3>2. CASE s = Stage(p)
      <4>1. run'[p].stages[s].fp.upstream = outs[p] /\ s - 1 = Len(outs[p])
        BY <3>2, <1>2, <1>3, <1>5
      <4>2. \A t \in 1..(s - 1) : run'[p].stages[t] = run[p].stages[t]
        BY <3>1, <3>2, <1>5
      <4>3. QED
        BY <4>1, <4>2, <1>4
    <3>3. CASE s # Stage(p)
      <4>1. run'[p].stages[s] = run[p].stages[s] /\ s < Stage(p)
        BY <2>1, <3>3, <1>0, <1>4, <1>5, StagesAssumption DEF Stages
      <4>2. \A t \in 1..(s - 1) : run'[p].stages[t] = run[p].stages[t]
        BY <3>1, <4>1, <1>0, <1>5, StagesAssumption DEF Stages
      <4>3. QED
        BY <2>1, <4>1, <4>2, <1>4 DEF Chained
    <3>4. QED
      BY <3>2, <3>3
  <2>2. Chained(run'[p])
    BY <2>1 DEF Chained
  <2>3. \A t \in 1..Len(outs[p]) : run'[p].stages[t] = run[p].stages[t]
    <3>1. \A t \in 1..Len(outs[p]) : t \in Stages /\ t # Stage(p)
      BY <1>0, <1>2, StagesAssumption DEF Stages
    <3>2. QED
      BY <1>5, <3>1
  <2>4. \A s \in Stages : s > Stage(p) => run'[p].stages[s].status # "completed"
    BY <1>0, <1>4, <1>5, StagesAssumption DEF Stages
  <2>5. QED
    BY <2>2, <2>3, <2>4, <1>2, <1>4 DEF Link, Stage, Fresh, PublishSteps
<1>7. ASSUME NEW r \in Procs, r # p PROVE Link(r)'
  BY <1>7, LinkLocal DEF Inv, TypeOK, ChainInv, Commit, Goto, Set
<1>8. RecordedChain'
  BY DEF ChainInv, RecordedChain, Commit, disk
<1>9. QED
  BY <1>6, <1>7, <1>8 DEF ChainInv

\* The checkpoint writes the chain that memory holds.
LEMMA CheckpointChain ==
    ASSUME Inv, ChainInv, NEW p \in Procs, Checkpoint(p)
    PROVE  ChainInv'
<1>0. /\ run[p] \in Runs /\ run[p] # Absent /\ Stage(p) \in Stages
      /\ run[p].stages[Stage(p)].status = "completed"
  BY StageIn DEF Inv, Control, Checkpoint, HasRun, LoopSteps, Runs, Absent, Manifests
<1>1. RecordedChain'
  BY <1>0, WriteChain DEF ChainInv, Link, Checkpoint
<1>2. run' = run /\ pc[p] = "checkpoint" /\ outs[p] \in Seq(Outputs)
  BY DEF Inv, TypeOK, Checkpoint
<1>3. \/ pc'[p] = "stageFail" /\ outs' = outs
      \/ /\ outs'[p] = Append(outs[p], run[p].stages[Stage(p)].out)
         /\ pc'[p] \in {"stage", "finalize"}
  BY DEF Inv, TypeOK, Checkpoint, AfterStage, Goto, Set
<1>4. /\ Chained(run[p])
      /\ \A t \in 1..Len(outs[p]) : /\ run[p].stages[t].status = "completed"
                                   /\ run[p].stages[t].out = outs[p][t]
      /\ \A s \in Stages : s > Stage(p) => run[p].stages[s].status # "completed"
  BY <1>0, <1>2 DEF ChainInv, Link, Counting, LoopSteps, PublishSteps
<1>5. Link(p)'
  <2>1. CASE pc'[p] = "stageFail" /\ outs' = outs
    <3>1. Link(p)' <=> /\ Chained(run[p])
                       /\ pc'[p] \in Counting => \A t \in 1..Len(outs[p]) :
                             /\ run[p].stages[t].status = "completed"
                             /\ run[p].stages[t].out = outs[p][t]
      BY <1>0, <1>2, <2>1 DEF Link, Fresh, LoopSteps, PublishSteps
    <3> QED BY <1>4, <3>1
  <2>2. CASE /\ outs'[p] = Append(outs[p], run[p].stages[Stage(p)].out)
             /\ pc'[p] \in {"stage", "finalize"}
    <3>1. Len(outs'[p]) = Stage(p) /\ Stage(p)' = Stage(p) + 1
      BY <1>2, <2>2 DEF Stage
    <3>2. \A t \in 1..Len(outs'[p]) : outs'[p][t] = IF t = Stage(p)
                                                  THEN run[p].stages[Stage(p)].out
                                                  ELSE outs[p][t]
      BY <1>2, <2>2 DEF Stage
    <3>3. \A t \in 1..Len(outs'[p]) : t = Stage(p) \/ t \in 1..Len(outs[p])
      BY <1>2, <3>1 DEF Stage
    <3>4. \A t \in 1..Len(outs'[p]) : /\ run[p].stages[t].status = "completed"
                                     /\ run[p].stages[t].out = outs'[p][t]
      BY <1>0, <1>4, <3>2, <3>3
    <3>5. \A s \in Stages : s >= Stage(p)' => run[p].stages[s].status # "completed"
      BY <1>0, <1>4, <3>1, StagesAssumption DEF Stages
    <3> QED BY <1>2, <1>4, <2>2, <3>4, <3>5 DEF Link
  <2> QED BY <1>3, <2>1, <2>2
<1>6. ASSUME NEW r \in Procs, r # p PROVE Link(r)'
  BY <1>6, LinkLocal DEF Inv, TypeOK, ChainInv, Checkpoint, Goto, Set
<1>7. QED
  BY <1>1, <1>5, <1>6 DEF ChainInv

\* Marking a stage failed leaves the completed ones before it.
LEMMA StageFailChain ==
    ASSUME Inv, ChainInv, NEW p \in Procs, StageFail(p)
    PROVE  ChainInv'
<1>0. Stage(p) \in Stages /\ run[p] \in Runs /\ run[p] # Absent
  BY StageIn DEF Inv, Control, StageFail, HasRun, LoopSteps, Runs, Absent
<1>1. run'[p].stages = MarkFailure(run[p].stages, Stage(p))
  BY <1>0 DEF Inv, TypeOK, StageFail, Set, Runs
<1>2. Chained(run'[p])
  <2>1. Chained(run[p])
    BY <1>0 DEF ChainInv, Link
  <2>2. \A s \in Stages : IF s < Stage(p) THEN run'[p].stages[s] = run[p].stages[s]
                          ELSE run'[p].stages[s].status # "completed"
    BY <1>0, <1>1, StagesAssumption DEF MarkFailure, Failed, Pending, Stages
  <2>3. QED
    BY <1>0, <2>1, <2>2, ChainedPrefix
<1>3. Link(p)'
  BY <1>2 DEF Inv, TypeOK, StageFail, Goto, Link, Counting, Fresh, LoopSteps, PublishSteps
<1>4. ASSUME NEW r \in Procs, r # p PROVE Link(r)'
  BY <1>4, LinkLocal DEF Inv, TypeOK, ChainInv, StageFail, Goto, Set
<1>5. RecordedChain'
  BY DEF ChainInv, RecordedChain, StageFail, disk
<1>6. QED
  BY <1>3, <1>4, <1>5 DEF ChainInv

\* A process that dies or returns leaves run.json as it was.
LEMMA LeaveChain ==
    ASSUME Inv, ChainInv, NEW p \in Procs, Kill(p) \/ Exit(p)
    PROVE  ChainInv'
<1>1. pc'[p] = "idle" /\ run'[p] = Absent /\ runFile' = runFile
  BY DEF Inv, TypeOK, Kill, Exit, Forget, Goto, Set, disk
<1>2. Link(p)'
  BY <1>1 DEF Link, Counting, Fresh, LoopSteps, PublishSteps
<1>3. ASSUME NEW r \in Procs, r # p PROVE Link(r)'
  BY <1>3, LinkLocal DEF Inv, TypeOK, ChainInv, Kill, Exit, Forget, Goto, Set
<1>4. RecordedChain'
  BY <1>1 DEF ChainInv, RecordedChain
<1>5. QED
  BY <1>2, <1>3, <1>4 DEF ChainInv

\* The ends of a run change the status of the record and not its stages.
LEMMA EndChain ==
    ASSUME Inv, ChainInv, NEW p \in Procs, Fail(p) \/ Finalize(p) \/ Finish(p)
    PROVE  ChainInv'
<1>1. pc'[p] \in {"finalize", "rewrite", "exit", "finish"}
  BY DEF Inv, TypeOK, Fail, Finalize, Finish, AfterFinalize, Goto
<1>2. \/ run'[p] = run[p] /\ runFile' = runFile
      \/ /\ run[p] # Absent
         /\ run'[p].stages = run[p].stages
         /\ \/ runFile' = runFile
            \/ \E landed, raised \in BOOLEAN : WriteRun(run'[p], landed, raised)
  <2>1. CASE Fail(p)
    <3>1. CASE run[p] = Absent
      BY <2>1, <3>1 DEF Fail
    <3>2. CASE run[p] # Absent
      <4>1. run[p] \in Runs
        BY <3>2 DEF Inv, TypeOK
      <4>2. run'[p] = [run[p] EXCEPT !.status = "failed"]
        BY <2>1, <3>2 DEF Inv, TypeOK, Fail, Set
      <4>3. \E landed, raised \in BOOLEAN : WriteRun(run'[p], landed, raised)
        BY <2>1, <3>2 DEF Fail
      <4>4. QED
        BY <3>2, <4>1, <4>2, <4>3 DEF Runs
    <3>3. QED
      BY <3>1, <3>2
  <2>2. CASE Finalize(p)
    BY <2>2 DEF Inv, TypeOK, Finalize, Set, Runs, disk
  <2>3. CASE Finish(p)
    <3>1. run[p] \in Runs /\ run[p] # Absent
      BY <2>3, AbsentIsNoRun DEF Inv, Control, HasRun, Finish
    <3>2. run'[p] = [run[p] EXCEPT !.status = "completed"]
      BY <2>3 DEF Inv, TypeOK, Finish, Set
    <3>3. \E landed, raised \in BOOLEAN : WriteRun(run'[p], landed, raised)
      BY <2>3 DEF Finish
    <3>4. QED
      BY <3>1, <3>2, <3>3 DEF Runs
  <2>4. QED
    BY <2>1, <2>2, <2>3
<1>3. run[p] # Absent /\ run'[p].stages = run[p].stages => Chained(run'[p])
  BY ChainedStages DEF ChainInv, Link
<1>4. Link(p)'
  BY <1>1, <1>2, <1>3 DEF ChainInv, Link, Counting, Fresh, LoopSteps, PublishSteps
<1>5. RecordedChain'
  BY <1>2, <1>3, WriteChain DEF ChainInv, RecordedChain
<1>6. ASSUME NEW r \in Procs, r # p PROVE Link(r)'
  BY <1>6, LinkLocal, ZenonT(60) DEF Inv, TypeOK, ChainInv, Fail, Finalize, Finish, Goto, Set
<1>7. QED
  BY <1>4, <1>5, <1>6 DEF ChainInv

\* Every step keeps the chain.
LEMMA NextChain == Inv /\ ChainInv /\ [Next]_vars => ChainInv'
<1> SUFFICES ASSUME Inv, ChainInv, [Next]_vars PROVE ChainInv'
  OBVIOUS
<1>1. ASSUME NEW p \in Procs, Invoke(p) \/ Step(p) \/ OsError(p) \/ Interrupt(p) \/ Kill(p)
      PROVE  ChainInv'
  BY <1>1, QuietChain, WriteStartChain, LoadChain, ReuseChain, InvalidateChain, CommitChain,
     CheckpointChain, StageFailChain, LeaveChain, EndChain
     DEF Step
<1>2. CASE Edit
  <2>1. runFile' = runFile \/ runFile' \in {Absent, Malformed}
    BY <1>2 DEF Edit, EditArtifact, EditManifest, EditRun
  <2>2. RecordedChain'
    BY <2>1 DEF ChainInv, RecordedChain
  <2>3. ASSUME NEW r \in Procs PROVE Link(r)'
    BY <1>2, LinkLocal DEF ChainInv, Edit, memory
  <2>4. QED
    BY <2>2, <2>3 DEF ChainInv
<1>3. CASE UNCHANGED vars
  BY <1>3 DEF ChainInv, RecordedChain, Link, Stage, vars, disk, memory
<1>4. QED
  BY <1>1, <1>2, <1>3 DEF Next

\* In every behaviour run.json records one chain: a completed stage was
\* computed from the outputs recorded for all the stages before it.
THEOREM ChainHolds == Spec => []RecordedChain
<1>1. Init => ChainInv
  BY DEF Init, ChainInv, RecordedChain, Link, Counting, Fresh, LoopSteps, PublishSteps
<1>2. ChainInv => RecordedChain
  BY DEF ChainInv
<1>3. QED
  BY InitInv, NextInv, NextChain, <1>1, <1>2, PTL DEF Spec

-----------------------------------------------------------------------------
(* The files of a run: what the holder of the lock knows about them.       *)

\* Only the holder of the lock is in Pipeline.run.
Locked == \A p \in Procs : pc[p] \notin {"idle", "lock"} => lock = p

\* The end of a run: what the caller will see and run.json agree.
Ending(p) ==
    /\ pc[p] \in {"idle", "lock", "load"} => run[p] = Absent
    /\ pc[p] \notin {"finalize", "rewrite", "exit"} => outcome[p] = NoOutcome
    /\ pc[p] = "finalize" =>
         /\ ~outcome[p].final
         /\ outcome[p].unwritten => outcome[p].failure
         /\ outcome[p].failure /\ run[p] # Absent => run[p].status = "failed"
         /\ outcome[p].failure /\ run[p] # Absent /\ ~outcome[p].unwritten => runFile = run[p]
    /\ pc[p] = "rewrite" =>
         run[p].status = "failed" /\ (outcome[p].failure \/ outcome[p].final)
    /\ pc[p] = "exit" /\ run[p] # Absent =>
         /\ ~(outcome[p].failure \/ outcome[p].final) =>
              runFile = run[p] /\ run[p].status = "completed"
         /\ (outcome[p].failure \/ outcome[p].final) /\ ~outcome[p].unwritten =>
              runFile = run[p] /\ run[p].status = "failed"

\* A publication under way and its rollback: where each file of before is.
Saved(p) ==
    /\ txn[p].touched => txn[p].old = before[p].manifest
    /\ ~txn[p].touched => manifest[Stage(p)] = before[p].manifest
    /\ \A q \in Paths : txn[p].backup[q] # NoFile => txn[p].backup[q] = before[p].art[q]
    /\ \A q \in txn[p].done : txn[p].backup[q] = NoFile => before[p].art[q] = NoFile
    /\ \A q \in Paths \ txn[p].done : txn[p].backup[q] = NoFile =>
         \/ art[Stage(p)][q] = before[p].art[q]
         \/ /\ q \in Private /\ before[p].art[q] = NoFile
            /\ pc[p] = "undo" \/ (pc[p] = "chmod" /\ q = Least(txn[p].todo))

Turn(p) == IF pc[p] \in {"install", "chmod"} THEN {Least(txn[p].todo)} ELSE {}

Written(p) ==
    /\ txn[p].touched <=> pc[p] \in {"putManifest", "fsync"}
    /\ txn[p].todo \cap txn[p].done = {} /\ txn[p].todo \cup txn[p].done = DOMAIN staged[p]
    /\ pc[p] # "retire" => txn[p].retire = {}
    /\ pc[p] = "retire" => txn[p].done = {} /\ txn[p].retire \cap txn[p].todo = {}
    /\ pc[p] \in {"saveManifest", "putManifest", "fsync"} => txn[p].todo = {}
    /\ \A q \in (txn[p].todo \cup txn[p].retire) \ Turn(p) : txn[p].backup[q] = NoFile
    /\ \A q \in Turn(p) : txn[p].backup[q] = before[p].art[q]
    /\ \A q \in txn[p].done : art[Stage(p)][q] = staged[p][q]
    /\ pc[p] = "chmod" => \A q \in Turn(p) : art[Stage(p)][q] = staged[p][q]
    /\ pc[p] = "fsync" => manifest[Stage(p)] = NewManifest(p)

Restored(p) ==
    /\ manifest[Stage(p)] = before[p].manifest
    /\ \A q \in Paths : (before[p].art[q] # NoFile \/ q \notin Private)
                           => art[Stage(p)][q] = before[p].art[q]

Publishing(p) ==
    /\ pc[p] \in PublishSteps \cup {"undo"} => Saved(p)
    /\ pc[p] \in PublishSteps => Written(p)
    /\ pc[p] = "undone" => Restored(p)

\* Stage s stands: the record r lists it under the fingerprint of c, and its
\* manifest file in m and its artifacts in a are the ones of the record.
Stand(m, a, r, s, c) ==
    /\ r.stages[s].status = "completed"
    /\ r.stages[s].fp = Fingerprint(c, s, [t \in 1..(s - 1) |-> r.stages[t].out])
    /\ m[s] = r.stages[s]
    /\ \A q \in DOMAIN r.stages[s].out : a[s][q] = r.stages[s].out[q]

\* The stages a run has passed stand, and it ends after its target.
Passing(p) == pc[p] \in Counting \cup {"finish"} \/ (pc[p] = "finalize" /\ ~outcome[p].failure)
Passed(p) ==
    /\ Passing(p) => \A s \in 1..Len(outs[p]) : Stand(manifest, art, run[p], s, job[p].cfg)
    /\ pc[p] = "checkpoint" => Stand(manifest, art, run[p], Stage(p), job[p].cfg)
    /\ Passing(p) /\ pc[p] \notin Counting => Len(outs[p]) = job[p].target
    /\ pc[p] = "finish" => ~clone[p]

\* The changed configuration reaches the stage the loop is at.
Reached(p) ==
    \/ origin[p].base # job[p].cfg.base
    \/ origin[p].model # job[p].cfg.model /\ Stage(p) >= 2
    \/ origin[p].report # job[p].cfg.report /\ Stage(p) = N

\* A resumed run over untouched files finds the stages standing until it comes
\* to one that the changed configuration reaches.
Resumed(p) ==
    origin[p] # NoConfig =>
      /\ pc[p] \in {"begin", "preflight", "identity", "stage"} =>
           \/ pc[p] = "stage" /\ Reached(p)
           \/ \A s \in Stages : s >= Stage(p) => Stand(manifest, art, run[p], s, origin[p])
      /\ pc[p] \in LoopSteps \ {"stage"} => Reached(p)

\* The files of the last full run, as long as nobody touched them.
Finished ==
    settled # NoConfig =>
      /\ runFile \in Runs
      /\ \A s \in Stages : Stand(manifest, art, runFile, s, settled)
      /\ \A p \in Procs : \/ pc[p] \in {"idle", "lock", "load", "exit"}
                          \/ pc[p] \in {"fail", "finalize"} /\ run[p] = Absent

FilesInv ==
    /\ Locked /\ Finished
    /\ \A p \in Procs : Ending(p) /\ Publishing(p) /\ Passed(p) /\ Resumed(p)

-----------------------------------------------------------------------------
(* What a step leaves alone.                                               *)

\* While a process is past the lock, or the lock is free, the others wait.
LEMMA Alone ==
    ASSUME Inv, FilesInv, NEW p \in Procs, pc[p] \notin {"idle", "lock"} \/ lock = NoProc
    PROVE  \A r \in Procs : r # p => pc[r] \in {"idle", "lock"}
  BY NoFileAssumption DEF FilesInv, Locked

\* Nothing is required of a process that waits but that it holds nothing.
LEMMA WaitingKept ==
    ASSUME NEW r \in Procs, Ending(r), pc[r] \in {"idle", "lock"},
           pc'[r] = pc[r], run'[r] = run[r], outcome'[r] = outcome[r]
    PROVE  Ending(r)' /\ Publishing(r)' /\ Passed(r)' /\ Resumed(r)'
<1>1. Ending(r)'
  BY DEF Ending
<1>2. Publishing(r)'
  BY DEF Publishing, PublishSteps
<1>3. Passed(r)'
  BY DEF Passed, Passing, Counting, LoopSteps, PublishSteps
<1>4. Resumed(r)'
  BY DEF Resumed, LoopSteps, PublishSteps
<1>5. QED
  BY <1>1, <1>2, <1>3, <1>4

\* A step of the process that holds the lock, or of any process while the lock
\* is free, concerns its own part of the invariant only.
LEMMA FilesStep ==
    ASSUME Inv, FilesInv, NEW p \in Procs, pc[p] \notin {"idle", "lock"} \/ lock = NoProc,
           \A r \in Procs : r # p => /\ pc'[r] = pc[r] /\ run'[r] = run[r]
                                     /\ outcome'[r] = outcome[r],
           pc'[p] \notin {"idle", "lock"} => lock' = p,
           Finished', Ending(p)', Publishing(p)', Passed(p)', Resumed(p)'
    PROVE  FilesInv'
<1>1. \A r \in Procs : r # p => pc[r] \in {"idle", "lock"}
  BY Alone
<1>2. Locked'
  BY <1>1 DEF Locked
<1>3. ASSUME NEW r \in Procs, r # p PROVE Ending(r)' /\ Publishing(r)' /\ Passed(r)' /\ Resumed(r)'
  BY <1>1, <1>3, WaitingKept DEF FilesInv
<1>4. QED
  BY <1>2, <1>3 DEF FilesInv

\* A stage stands as long as its files and the record up to it stay the same.
LEMMA StandKept ==
    ASSUME NEW m, NEW a, NEW r, NEW n, NEW b, NEW x, NEW s \in Stages, NEW c,
           Stand(m, a, r, s, c), n[s] = m[s], b[s] = a[s],
           \A t \in Stages : t <= s => x.stages[t] = r.stages[t]
    PROVE  Stand(n, b, x, s, c)
<1>1. \A t \in 1..(s - 1) : t \in Stages /\ t <= s
  BY StagesAssumption DEF Stages
<1>2. x.stages[s] = r.stages[s]
  BY StagesAssumption DEF Stages
<1>3. [t \in 1..(s - 1) |-> x.stages[t].out] = [t \in 1..(s - 1) |-> r.stages[t].out]
  BY <1>1
<1>4. QED
  BY <1>2, <1>3 DEF Stand

\* The stages passed lie before the one the loop stands at.
LEMMA PassedStages ==
    ASSUME Inv, NEW p \in Procs, pc[p] \in Counting
    PROVE  \A s \in 1..Len(outs[p]) : s \in Stages /\ s < Stage(p)
<1>1. Len(outs[p]) \in Nat /\ Stage(p) = Len(outs[p]) + 1
  BY DEF Inv, TypeOK, Stage
<1>2. Len(outs[p]) = 0 \/ Stage(p) <= N
  <2>1. CASE pc[p] \in LoopSteps
    BY <2>1, StageIn, StagesAssumption DEF Stages
  <2>2. CASE pc[p] \in {"begin", "preflight", "identity"}
    BY <2>2 DEF Inv, Control
  <2>3. QED
    BY <2>1, <2>2 DEF Counting
<1>3. QED
  BY <1>1, <1>2, StagesAssumption DEF Stages

\* The hashes the loop has gathered are those of the record.
LEMMA OutsRecorded ==
    ASSUME Inv, ChainInv, NEW p \in Procs, pc[p] \in Counting
    PROVE  outs[p] = [t \in 1..(Stage(p) - 1) |-> run[p].stages[t].out]
<1>1. outs[p] \in Seq(Outputs) /\ Stage(p) - 1 = Len(outs[p])
  BY DEF Inv, TypeOK, Stage
<1>2. \A t \in 1..Len(outs[p]) : run[p].stages[t].out = outs[p][t]
  BY DEF ChainInv, Link
<1>3. QED
  BY <1>1, <1>2

\* _reusable finds a stage that stands, and only such a stage.
LEMMA ReusableStands ==
    ASSUME Inv, ChainInv, NEW p \in Procs, pc[p] = "stage"
    PROVE  Reusable(run[p], Stage(p), Fingerprint(job[p].cfg, Stage(p), outs[p]))
             <=> Stand(manifest, art, run[p], Stage(p), job[p].cfg)
<1>1. outs[p] = [t \in 1..(Stage(p) - 1) |-> run[p].stages[t].out]
  BY OutsRecorded DEF Counting, LoopSteps
<1>2. QED
  BY <1>1 DEF Reusable, FilesMatch, Stand

\* The steps before the end of a run that pass no stage: what they have in common.
Working(p) ==
    \/ WriteStart(p) \/ Preflight(p) \/ Invalidate(p) \/ Execute(p) \/ Retire(p) \/ Save(p)
    \/ Install(p) \/ Chmod(p) \/ SaveManifest(p) \/ PutManifest(p) \/ Commit(p)
    \/ UndoInstall(p) \/ UndoBackup(p) \/ UndoManifest(p) \/ StageFail(p) \/ OsError(p)

\* A working step stays with its stage, its arguments and its own process.
LEMMA WorkingFrame ==
    ASSUME Inv, NEW p \in Procs, Working(p)
    PROVE  /\ lock' = lock /\ settled' = settled /\ job' = job /\ outs' = outs
           /\ origin' = origin /\ outcome' = outcome
           /\ \A r \in Procs : r # p => pc'[r] = pc[r] /\ run'[r] = run[r]
           /\ Stage(p)' = Stage(p)
<1>1. /\ lock' = lock /\ settled' = settled /\ job' = job /\ outs' = outs
      /\ origin' = origin /\ outcome' = outcome
  BY DEF Working, WriteStart, Preflight, Invalidate, Execute, Retire, Save, Install, Chmod,
     SaveManifest, PutManifest, Commit, UndoInstall, UndoBackup, UndoManifest, StageFail,
     OsError, memory, frame
<1>2. \A r \in Procs : r # p => pc'[r] = pc[r]
  BY DEF Inv, TypeOK, Working, WriteStart, Preflight, Invalidate, Execute, Retire, Save, Install,
     Chmod, SaveManifest, PutManifest, Commit, UndoInstall, UndoBackup, UndoManifest, StageFail,
     OsError, Published, Goto
<1>3. \A r \in Procs : r # p => run'[r] = run[r]
  BY DEF Inv, TypeOK, Working, WriteStart, Preflight, Invalidate, Execute, Retire, Save, Install,
     Chmod, SaveManifest, PutManifest, Commit, UndoInstall, UndoBackup, UndoManifest, StageFail,
     OsError, Set, memory
<1>4. QED
  BY <1>1, <1>2, <1>3 DEF Stage

\* A working step starts in the loop or before it, and ends there or fails.
LEMMA WorkingLabels ==
    ASSUME Inv, NEW p \in Procs, Working(p)
    PROVE  /\ pc[p] \in Counting
           /\ pc'[p] \in Counting \cup {"fail"} /\ pc'[p] # "begin"
           /\ pc'[p] = "checkpoint" => Commit(p)
           /\ pc'[p] = "stage" => pc[p] = "identity"
           /\ pc'[p] = "preflight" => pc[p] = "begin"
           /\ pc'[p] = "identity" => pc[p] = "preflight"
           /\ pc[p] = "stage" => Invalidate(p)
           /\ pc'[p] \in LoopSteps \ {"stage"} => pc[p] \in LoopSteps
  BY ZenonT(60) DEF Inv, TypeOK, Working, WriteStart, Preflight, Invalidate, Execute, Retire, Save, Install,
     Chmod, SaveManifest, PutManifest, Commit, UndoInstall, UndoBackup, UndoManifest, StageFail,
     OsError, Published, AfterInstall, Handler, Goto, Counting, LoopSteps, PublishSteps

\* A working step touches no file but run.json and those of its own stage.
LEMMA WorkingFiles ==
    ASSUME Inv, NEW p \in Procs, Working(p)
    PROVE  \A s \in Stages : s # Stage(p) => manifest'[s] = manifest[s] /\ art'[s] = art[s]
<1>1. \/ art' = art
      \/ \E q, c : art' = [art EXCEPT ![Stage(p)][q] = c]
  BY DEF Working, WriteStart, Preflight, Invalidate, Execute, Retire, Save, Install,
     Chmod, SaveManifest, PutManifest, Commit, UndoInstall, UndoBackup, UndoManifest, StageFail,
     OsError, MoveAside, disk
<1>2. \/ manifest' = manifest
      \/ \E m : manifest' = [manifest EXCEPT ![Stage(p)] = m]
  BY DEF Working, WriteStart, Preflight, Invalidate, Execute, Retire, Save, Install,
     Chmod, SaveManifest, PutManifest, Commit, UndoInstall, UndoBackup, UndoManifest, StageFail,
     OsError, disk
<1>3. QED
  BY <1>1, <1>2 DEF Inv, TypeOK

\* A working step keeps the record of the stages passed.
LEMMA WorkingRecord ==
    ASSUME Inv, NEW p \in Procs, Working(p)
    PROVE  \A s \in Stages : s < Stage(p) => run'[p].stages[s] = run[p].stages[s]
<1>1. CASE Invalidate(p)
  <2>1. run[p] \in Runs /\ Stage(p) \in Stages
    BY <1>1, StageIn DEF Inv, Control, Invalidate, HasRun, LoopSteps
  <2>2. run'[p].stages = InvalidateFrom(run[p].stages, Stage(p))
    BY <1>1, <2>1 DEF Inv, TypeOK, Invalidate, Set, Runs
  <2>3. QED
    BY <2>1, <2>2, StagesAssumption DEF InvalidateFrom, Stages
<1>2. CASE Commit(p)
  <2>1. run[p] \in Runs /\ Stage(p) \in Stages
    BY <1>2, StageIn DEF Inv, Control, Commit, HasRun, LoopSteps, PublishSteps
  <2>2. run'[p].stages = [run[p].stages EXCEPT ![Stage(p)] = NewManifest(p)]
    BY <1>2, <2>1 DEF Inv, TypeOK, Commit, Set, Runs
  <2>3. QED
    BY <2>1, <2>2, StagesAssumption DEF Stages, Runs
<1>3. CASE StageFail(p)
  <2>1. run[p] \in Runs /\ Stage(p) \in Stages
    BY <1>3, StageIn DEF Inv, Control, StageFail, HasRun, LoopSteps
  <2>2. run'[p].stages = MarkFailure(run[p].stages, Stage(p))
    BY <1>3, <2>1 DEF Inv, TypeOK, StageFail, Set, Runs
  <2>3. QED
    BY <2>1, <2>2, StagesAssumption DEF MarkFailure, Stages
<1>4. CASE ~(Invalidate(p) \/ Commit(p) \/ StageFail(p))
  <2>1. run' = run
    BY <1>4 DEF Working, WriteStart, Preflight, Execute, Retire, Save, Install, Chmod,
       SaveManifest, PutManifest, UndoInstall, UndoBackup, UndoManifest, OsError, memory
  <2>2. QED
    BY <2>1
<1>5. QED
  BY <1>1, <1>2, <1>3, <1>4

-----------------------------------------------------------------------------
(* The end of a run and run.json.                                          *)

\* A working step leaves the outcome of the run open.
LEMMA WorkingEnding ==
    ASSUME Inv, FilesInv, NEW p \in Procs, Working(p)
    PROVE  Ending(p)'
<1>1. /\ pc[p] \notin {"finalize", "rewrite", "exit"} /\ outcome' = outcome
      /\ pc'[p] \notin {"idle", "lock", "load", "finalize", "rewrite", "exit"}
  BY WorkingFrame, WorkingLabels DEF Counting, LoopSteps, PublishSteps
<1>2. QED
  BY <1>1 DEF FilesInv, Ending

\* As long as a process works on a stage no full run is undisturbed.
LEMMA WorkingFinished ==
    ASSUME Inv, FilesInv, NEW p \in Procs, Working(p)
    PROVE  Finished'
<1>1. settled' = settled /\ pc[p] \in Counting
  BY WorkingFrame, WorkingLabels
<1>2. settled = NoConfig
  BY <1>1 DEF FilesInv, Finished, Counting, LoopSteps, PublishSteps
<1>3. QED
  BY <1>1, <1>2 DEF Finished

-----------------------------------------------------------------------------
(* The stages passed.                                                      *)

\* The manifest of the stage just published is the one recorded, and the files
\* of its output are in place.
LEMMA CommitStands ==
    ASSUME Inv, ChainInv, FilesInv, NEW p \in Procs, Commit(p)
    PROVE  Stand(manifest', art', run'[p], Stage(p), job[p].cfg)
<1>1. pc[p] = "fsync" /\ manifest' = manifest /\ art' = art /\ run[p] \in Runs /\ Stage(p) \in Stages
  BY StageIn DEF Inv, Control, Commit, HasRun, LoopSteps, PublishSteps, disk
<1>2. run'[p].stages = [run[p].stages EXCEPT ![Stage(p)] = NewManifest(p)]
  BY <1>1 DEF Inv, TypeOK, Commit, Set, Runs
<1>3. /\ manifest[Stage(p)] = NewManifest(p)
      /\ \A q \in DOMAIN staged[p] : art[Stage(p)][q] = staged[p][q]
  BY <1>1 DEF FilesInv, Publishing, Written, PublishSteps
<1>4. run'[p].stages[Stage(p)] = NewManifest(p)
  BY <1>1, <1>2 DEF Runs
<1>5. \A t \in 1..(Stage(p) - 1) : run'[p].stages[t] = run[p].stages[t]
  BY <1>1, <1>2, StagesAssumption DEF Runs, Stages
<1>6. outs[p] = [t \in 1..(Stage(p) - 1) |-> run'[p].stages[t].out]
  BY <1>1, <1>5, OutsRecorded DEF Counting, LoopSteps, PublishSteps
<1>7. QED
  BY <1>1, <1>3, <1>4, <1>6 DEF Stand, NewManifest

\* A working step keeps the stages passed standing.
LEMMA WorkingPassed ==
    ASSUME Inv, ChainInv, FilesInv, NEW p \in Procs, Working(p)
    PROVE  Passed(p)'
<1>1. /\ pc[p] \in Counting /\ pc'[p] \in Counting \cup {"fail"} /\ outs' = outs /\ job' = job
      /\ Stage(p)' = Stage(p) /\ outcome' = outcome
  BY WorkingFrame, WorkingLabels
<1>2. ASSUME NEW s \in 1..Len(outs[p]) PROVE Stand(manifest', art', run'[p], s, job[p].cfg)
  <2>1. s \in Stages /\ s < Stage(p)
    BY <1>1, PassedStages
  <2>2. Stand(manifest, art, run[p], s, job[p].cfg)
    BY <1>1 DEF FilesInv, Passed, Passing
  <2>3. \A t \in Stages : t <= s => run'[p].stages[t] = run[p].stages[t]
    BY <2>1, WorkingRecord, StagesAssumption DEF Stage, Stages, Inv, TypeOK
  <2>4. manifest'[s] = manifest[s] /\ art'[s] = art[s]
    BY <2>1, WorkingFiles DEF Inv, TypeOK, Stage, Stages
  <2>5. QED
    BY <2>1, <2>2, <2>3, <2>4, StandKept
<1>3. pc'[p] = "checkpoint" => Stand(manifest', art', run'[p], Stage(p), job[p].cfg)
  BY WorkingLabels, CommitStands
<1>4. pc'[p] \notin {"finish", "finalize"}
  BY <1>1 DEF Counting, LoopSteps, PublishSteps
<1>5. QED
  BY <1>1, <1>2, <1>3, <1>4 DEF Passed, Passing

-----------------------------------------------------------------------------
(* A resumed run over the files of the last full run.                      *)

\* A stage that stands under another configuration and not under the one asked
\* for is one the change of configuration reaches.
LEMMA ChangeReaches ==
    ASSUME NEW m, NEW a, NEW r, NEW s \in Stages, NEW c, NEW d,
           Stand(m, a, r, s, c), ~Stand(m, a, r, s, d)
    PROVE  \/ c.base # d.base
           \/ c.model # d.model /\ s >= 2
           \/ c.report # d.report /\ s = N
<1> DEFINE u == [t \in 1..(s - 1) |-> r.stages[t].out]
<1>1. Fingerprint(c, s, u) # Fingerprint(d, s, u)
  BY DEF Stand
<1>2. s = 1 \/ s >= 2
  BY StagesAssumption DEF Stages
<1> HIDE DEF u
<1>3. QED
  BY <1>1, <1>2 DEF Fingerprint

\* A working step of a resumed run re-executes a stage only if the change of
\* configuration reaches it.
LEMMA WorkingResumed ==
    ASSUME Inv, ChainInv, FilesInv, NEW p \in Procs, Working(p)
    PROVE  Resumed(p)'
<1> SUFFICES ASSUME origin[p] # NoConfig
             PROVE  /\ pc'[p] \in {"begin", "preflight", "identity", "stage"} =>
                         \/ pc'[p] = "stage" /\ Reached(p)
                         \/ \A s \in Stages : s >= Stage(p) =>
                               Stand(manifest', art', run'[p], s, origin[p])
                    /\ pc'[p] \in LoopSteps \ {"stage"} => Reached(p)
  BY WorkingFrame DEF Resumed, Reached
<1>1. ASSUME pc'[p] \in {"begin", "preflight", "identity", "stage"}
      PROVE  \A s \in Stages : s >= Stage(p) => Stand(manifest', art', run'[p], s, origin[p])
  <2>1. pc[p] \in {"begin", "preflight", "identity"}
    BY <1>1, WorkingLabels
  <2>2. \A s \in Stages : s >= Stage(p) => Stand(manifest, art, run[p], s, origin[p])
    BY <2>1 DEF FilesInv, Resumed
  <2>3. manifest' = manifest /\ art' = art /\ run' = run
    BY <1>1, <2>1 DEF Inv, TypeOK, Working, WriteStart, Preflight, Invalidate, Execute, Retire, Save,
       Install, Chmod, SaveManifest, PutManifest, Commit, UndoInstall, UndoBackup, UndoManifest,
       StageFail, OsError, disk, memory
  <2>4. QED
    BY <2>2, <2>3
<1>2. ASSUME pc'[p] \in LoopSteps \ {"stage"} PROVE Reached(p)
  <2>1. CASE pc[p] = "stage"
    <3>1. Stage(p) \in Stages
      BY <2>1, StageIn DEF LoopSteps
    <3>2. ~Stand(manifest, art, run[p], Stage(p), job[p].cfg)
      BY <2>1, WorkingLabels, ReusableStands DEF Invalidate
    <3>3. Reached(p) \/ Stand(manifest, art, run[p], Stage(p), origin[p])
      BY <2>1, <3>1, StagesAssumption DEF FilesInv, Resumed, Stages
    <3>4. QED
      BY <3>1, <3>2, <3>3, ChangeReaches DEF Reached
  <2>2. CASE pc[p] # "stage"
    <3>1. pc[p] \in LoopSteps
      BY <1>2, WorkingLabels
    <3>2. QED
      BY <2>2, <3>1 DEF FilesInv, Resumed
  <2>3. QED
    BY <2>1, <2>2
<1>3. QED
  BY <1>1, <1>2

-----------------------------------------------------------------------------
(* Passing a stage: it is reused, or published and recorded.               *)

\* What the two ways to pass a stage have in common.
LEMMA PassFrame ==
    ASSUME Inv, ChainInv, FilesInv, NEW p \in Procs,
           Reuse(p) \/ (Checkpoint(p) /\ pc'[p] # "stageFail")
    PROVE  /\ lock' = lock /\ settled' = settled /\ job' = job /\ run' = run
           /\ origin' = origin /\ outcome' = outcome /\ manifest' = manifest /\ art' = art
           /\ \A r \in Procs : r # p => pc'[r] = pc[r]
           /\ pc[p] \in {"stage", "checkpoint"} /\ Stage(p) \in Stages
           /\ Len(outs'[p]) = Stage(p) /\ Stage(p)' = Stage(p) + 1
           /\ pc'[p] = IF Stage(p) = job[p].target THEN "finalize" ELSE "stage"
           /\ Stand(manifest, art, run[p], Stage(p), job[p].cfg)
<1>1. /\ lock' = lock /\ settled' = settled /\ job' = job /\ run' = run
      /\ origin' = origin /\ outcome' = outcome /\ manifest' = manifest /\ art' = art
  BY DEF Reuse, Checkpoint, disk, frame
<1>2. \A r \in Procs : r # p => pc'[r] = pc[r]
  BY DEF Inv, TypeOK, Reuse, Checkpoint, Goto
<1>3. pc[p] \in {"stage", "checkpoint"} /\ Stage(p) \in Stages
  BY StageIn DEF Reuse, Checkpoint, LoopSteps
<1>4. Stand(manifest, art, run[p], Stage(p), job[p].cfg)
  <2>1. CASE Reuse(p)
    BY <2>1, ReusableStands DEF Reuse
  <2>2. CASE Checkpoint(p)
    BY <2>2 DEF FilesInv, Passed, Checkpoint
  <2>3. QED
    BY <2>1, <2>2
<1>5. outs' = Set(outs, p, Append(outs[p], run[p].stages[Stage(p)].out))
      /\ Goto(p, AfterStage(p, Stage(p)))
  BY DEF Inv, TypeOK, Reuse, Checkpoint, Goto
<1>6. outs'[p] = Append(outs[p], run[p].stages[Stage(p)].out)
  BY <1>5 DEF Inv, TypeOK, Set
<1>7. Len(outs'[p]) = Stage(p)
  BY <1>6 DEF Inv, TypeOK, Stage
<1>8. pc'[p] = IF Stage(p) = job[p].target THEN "finalize" ELSE "stage"
  BY <1>5 DEF Inv, TypeOK, Goto, AfterStage
<1>9. Stage(p)' = Stage(p) + 1
  BY <1>7 DEF Stage
<1>10. QED
  BY <1>1, <1>2, <1>3, <1>4, <1>7, <1>8, <1>9

\* Passing a stage keeps what is known of the files.
LEMMA PassKept ==
    ASSUME Inv, ChainInv, FilesInv, NEW p \in Procs,
           Reuse(p) \/ (Checkpoint(p) /\ pc'[p] # "stageFail")
    PROVE  FilesInv'
<1>0. /\ pc[p] \in {"stage", "checkpoint"} /\ pc'[p] \in {"finalize", "stage"}
      /\ Stage(p) \in Stages /\ Len(outs'[p]) = Stage(p)
  BY PassFrame
<1>1. Ending(p)'
  <2>1. outcome[p] = NoOutcome /\ outcome'[p] = NoOutcome
    BY <1>0, PassFrame DEF FilesInv, Ending
  <2>2. QED
    BY <1>0, <2>1 DEF Ending, NoOutcome
<1>2. Publishing(p)'
  BY <1>0 DEF Publishing, PublishSteps
<1>3. Passed(p)'
  <2>1. ASSUME NEW s \in 1..Stage(p) PROVE Stand(manifest, art, run[p], s, job[p].cfg)
    <3>1. CASE s = Stage(p)
      BY <3>1, PassFrame
    <3>2. CASE s # Stage(p)
      <4>1. s \in 1..Len(outs[p])
        BY <3>2 DEF Stage, Inv, TypeOK
      <4>2. QED
        BY <4>1, <1>0 DEF FilesInv, Passed, Passing, Counting, LoopSteps
    <3>3. QED
      BY <3>1, <3>2
  <2>2. pc'[p] = "finalize" => Len(outs'[p]) = job'[p].target
    BY PassFrame
  <2>3. \A s \in 1..Len(outs'[p]) : Stand(manifest', art', run'[p], s, job'[p].cfg)
    BY <2>1, PassFrame
  <2>4. QED
    BY <1>0, <2>2, <2>3 DEF Passed, Passing, Counting, LoopSteps
<1>4. Resumed(p)'
  <2> SUFFICES ASSUME origin[p] # NoConfig, pc'[p] = "stage"
               PROVE  Reached(p)' \/ \A s \in Stages : s >= Stage(p)' =>
                                        Stand(manifest', art', run'[p], s, origin'[p])
    BY <1>0, PassFrame DEF Resumed, LoopSteps, PublishSteps
  <2>1. Stage(p) < N
    <3>1. Stage(p) <= job[p].target /\ Stage(p) # job[p].target /\ job[p].target \in 1..N
      BY <1>0, StageIn, PassFrame DEF LoopSteps, Inv, TypeOK, Jobs, Stages
    <3>2. QED
      BY <3>1, <1>0, StagesAssumption DEF Stages
  <2>2. CASE Reached(p)
    BY <2>1, <2>2, <1>0, PassFrame, StagesAssumption DEF Reached, Stages
  <2>3. CASE ~Reached(p)
    <3>1. \A s \in Stages : s >= Stage(p) => Stand(manifest, art, run[p], s, origin[p])
      BY <2>3, <1>0 DEF FilesInv, Resumed, LoopSteps
    <3>2. \A s \in Stages : s >= Stage(p) + 1 => s >= Stage(p)
      BY <1>0, StagesAssumption DEF Stages
    <3>3. QED
      BY <3>1, <3>2, PassFrame
  <2>4. QED
    BY <2>2, <2>3
<1>5. Finished'
  BY <1>0, PassFrame DEF FilesInv, Finished
<1>6. pc[p] \notin {"idle", "lock"} /\ lock' = p
  BY <1>0, PassFrame DEF FilesInv, Locked
<1>7. \A r \in Procs : r # p => pc'[r] = pc[r] /\ run'[r] = run[r] /\ outcome'[r] = outcome[r]
  BY PassFrame
<1>8. QED
  BY <1>1, <1>2, <1>3, <1>4, <1>5, <1>6, <1>7, FilesStep

\* A checkpoint that cannot be written fails the stage.
LEMMA CheckpointFailKept ==
    ASSUME Inv, ChainInv, FilesInv, NEW p \in Procs, Checkpoint(p), pc'[p] = "stageFail"
    PROVE  FilesInv'
<1>1. /\ lock' = lock /\ settled' = settled /\ job' = job /\ run' = run
      /\ origin' = origin /\ outcome' = outcome /\ manifest' = manifest /\ art' = art
      /\ pc[p] = "checkpoint" /\ \A r \in Procs : r # p => pc'[r] = pc[r]
  BY DEF Inv, TypeOK, Checkpoint, Goto, disk, frame
<1>2. outs' = outs
  BY DEF Inv, TypeOK, Checkpoint, AfterStage, Goto
<1>3. Stage(p)' = Stage(p)
  BY <1>2 DEF Stage
<1>4. Ending(p)'
  BY <1>1 DEF FilesInv, Ending
<1>5. Publishing(p)'
  BY DEF Publishing, PublishSteps
<1>6. Passed(p)'
  <2>1. \A s \in 1..Len(outs[p]) : Stand(manifest, art, run[p], s, job[p].cfg)
    BY <1>1 DEF FilesInv, Passed, Passing, Counting, LoopSteps
  <2>2. QED
    BY <1>1, <1>2, <2>1 DEF Passed, Passing, Counting, LoopSteps
<1>7. Resumed(p)'
  <2>1. origin[p] # NoConfig => Reached(p)
    BY <1>1 DEF FilesInv, Resumed, LoopSteps
  <2>2. QED
    BY <1>1, <1>3, <2>1 DEF Resumed, Reached
<1>8. Finished'
  BY <1>1 DEF FilesInv, Finished
<1>9. lock' = p
  BY <1>1 DEF FilesInv, Locked
<1>10. QED
  BY <1>1, <1>4, <1>5, <1>6, <1>7, <1>8, <1>9, FilesStep

-----------------------------------------------------------------------------
(* Starting and ending a run.                                              *)

\* The parts of the invariant read the files and the locals of one process.
LEMMA PartsLocal ==
    ASSUME NEW r \in Procs, Ending(r), Publishing(r), Passed(r), Resumed(r),
           runFile' = runFile, manifest' = manifest, art' = art, pc'[r] = pc[r],
           job'[r] = job[r], run'[r] = run[r], outs'[r] = outs[r], staged'[r] = staged[r],
           txn'[r] = txn[r], outcome'[r] = outcome[r], clone'[r] = clone[r],
           before'[r] = before[r], origin'[r] = origin[r]
    PROVE  Ending(r)' /\ Publishing(r)' /\ Passed(r)' /\ Resumed(r)'
<1>0. Stage(r)' = Stage(r)
  BY DEF Stage
<1>1. Ending(r)'
  BY DEF Ending
<1>2. Publishing(r)'
  <2>1. NewManifest(r)' = NewManifest(r) /\ Turn(r)' = Turn(r)
    BY <1>0 DEF NewManifest, Turn
  <2>2. Saved(r)' <=> Saved(r)
    BY <1>0 DEF Saved
  <2>3. Written(r)' <=> Written(r)
    BY <1>0, <2>1 DEF Written
  <2>4. Restored(r)' <=> Restored(r)
    BY <1>0 DEF Restored
  <2>5. QED
    BY <2>2, <2>3, <2>4 DEF Publishing
<1>3. Passed(r)'
  BY <1>0 DEF Passed, Passing
<1>4. Resumed(r)'
  BY <1>0 DEF Resumed, Reached
<1>5. QED
  BY <1>1, <1>2, <1>3, <1>4

\* Where a process is at no stage, only the end of a run matters.
LEMMA OffStage ==
    ASSUME NEW p \in Procs, pc'[p] \in {"idle", "lock", "load", "fail", "rewrite", "exit"}
    PROVE  Publishing(p)' /\ Passed(p)' /\ Resumed(p)'
<1>1. Publishing(p)'
  BY DEF Publishing, PublishSteps
<1>2. Passed(p)'
  BY DEF Passed, Passing, Counting, LoopSteps, PublishSteps
<1>3. Resumed(p)'
  BY DEF Resumed, LoopSteps, PublishSteps
<1>4. QED
  BY <1>1, <1>2, <1>3

\* The call of Pipeline.run.
LEMMA InvokeKept ==
    ASSUME Inv, FilesInv, NEW p \in Procs, Invoke(p)
    PROVE  FilesInv'
<1>1. /\ pc[p] = "idle" /\ pc'[p] = "lock" /\ lock' = lock /\ settled' = settled
      /\ run' = run /\ outcome' = outcome
      /\ runFile' = runFile /\ manifest' = manifest /\ art' = art
      /\ \A r \in Procs : r # p => pc'[r] = pc[r]
  BY DEF Inv, TypeOK, Invoke, Goto, disk
<1>2. Ending(p)'
  BY <1>1 DEF FilesInv, Ending
<1>3. Publishing(p)' /\ Passed(p)' /\ Resumed(p)'
  BY <1>1, OffStage
<1>4. ASSUME NEW r \in Procs, r # p PROVE Ending(r)' /\ Publishing(r)' /\ Passed(r)' /\ Resumed(r)'
  <2>1. job'[r] = job[r]
    BY <1>4 DEF Inv, TypeOK, Invoke, Set
  <2>2. QED
    BY <1>1, <1>4, <2>1, PartsLocal DEF FilesInv, Invoke
<1>5. Locked'
  BY <1>1 DEF FilesInv, Locked
<1>6. Finished'
  BY <1>1 DEF FilesInv, Finished
<1>7. QED
  BY <1>2, <1>3, <1>4, <1>5, <1>6 DEF FilesInv

\* The flock of the output directory.
LEMMA AcquireKept ==
    ASSUME Inv, FilesInv, NEW p \in Procs, Acquire(p)
    PROVE  FilesInv'
<1>1. /\ pc[p] = "lock" /\ pc'[p] = "load" /\ lock = NoProc /\ lock' = p /\ settled' = settled
      /\ run' = run /\ outcome' = outcome
      /\ runFile' = runFile /\ manifest' = manifest /\ art' = art
      /\ \A r \in Procs : r # p => pc'[r] = pc[r]
  BY DEF Inv, TypeOK, Acquire, Goto, disk, memory
<1>2. Ending(p)'
  BY <1>1 DEF FilesInv, Ending
<1>3. Publishing(p)' /\ Passed(p)' /\ Resumed(p)'
  BY <1>1, OffStage
<1>4. Finished'
  BY <1>1 DEF FilesInv, Finished
<1>5. QED
  BY <1>1, <1>2, <1>3, <1>4, FilesStep

\* The files of the last full run are those a resumed run starts from.
LEMMA LoadKept ==
    ASSUME Inv, FilesInv, NEW p \in Procs, Load(p)
    PROVE  FilesInv'
<1>1. /\ pc[p] = "load" /\ pc'[p] \in {"fail", "begin"} /\ lock' = lock /\ settled' = NoConfig
      /\ outs' = outs /\ outcome' = outcome /\ job' = job
      /\ manifest' = manifest /\ art' = art
      /\ \A r \in Procs : r # p => pc'[r] = pc[r] /\ run'[r] = run[r]
  BY DEF Inv, TypeOK, Load, Goto, Set, disk
<1>2. outs[p] = <<>> /\ Stage(p)' = 1
  BY <1>1 DEF Inv, Control, Stage
<1>3. Ending(p)'
  BY <1>1 DEF FilesInv, Ending
<1>4. Publishing(p)'
  BY <1>1 DEF Publishing, PublishSteps
<1>5. Passed(p)'
  BY <1>1, <1>2 DEF Passed, Passing, Counting, LoopSteps, PublishSteps
<1>6. Resumed(p)'
  <2> SUFFICES ASSUME origin'[p] # NoConfig, pc'[p] = "begin"
               PROVE  \A s \in Stages : Stand(manifest, art, run'[p], s, origin'[p])
    BY <1>1 DEF Resumed, LoopSteps, PublishSteps
  <2>1. job[p].resume /\ origin'[p] = settled
    BY DEF Inv, TypeOK, Load, Set
  <2>2. runFile \in Runs /\ \A s \in Stages : Stand(manifest, art, runFile, s, settled)
    BY <2>1 DEF FilesInv, Finished
  <2>3. runFile # Absent
    BY <2>2, AbsentIsNoRun
  <2>4. run'[p] = [runFile EXCEPT !.status = "running", !.attempt = @ + 1]
    <3>1. run' = Set(run, p, [StartingRun(job[p].resume) EXCEPT
                                   !.status = "running", !.attempt = @ + 1])
      BY DEF Inv, TypeOK, Load, Goto
    <3>2. StartingRun(job[p].resume) = runFile
      BY <2>1, <2>3 DEF StartingRun
    <3>3. QED
      BY <3>1, <3>2 DEF Inv, TypeOK, Set
  <2>5. run'[p].stages = runFile.stages
    BY <2>2, <2>4 DEF Runs
  <2>6. QED
    BY <2>1, <2>2, <2>5, StandKept
<1>7. Finished'
  BY <1>1 DEF Finished
<1>8. lock' = p
  BY <1>1 DEF FilesInv, Locked
<1>9. QED
  BY <1>1, <1>3, <1>4, <1>5, <1>6, <1>7, <1>8, FilesStep

\* A KeyboardInterrupt leaves the loop without touching a file.
LEMMA InterruptKept ==
    ASSUME Inv, FilesInv, NEW p \in Procs, Interrupt(p)
    PROVE  FilesInv'
<1>1. /\ pc[p] \in Counting \cup {"load"} /\ pc'[p] = "fail" /\ lock' = lock /\ settled' = settled
      /\ run' = run /\ outcome' = outcome
      /\ runFile' = runFile /\ manifest' = manifest /\ art' = art
      /\ \A r \in Procs : r # p => pc'[r] = pc[r]
  BY DEF Inv, TypeOK, Interrupt, Goto, disk, frame, Counting
<1>2. pc[p] \notin {"idle", "lock", "finalize", "rewrite", "exit"}
  BY <1>1 DEF Counting, LoopSteps, PublishSteps
<1>3. Ending(p)'
  BY <1>1, <1>2 DEF FilesInv, Ending
<1>4. Publishing(p)' /\ Passed(p)' /\ Resumed(p)'
  BY <1>1, OffStage
<1>5. Finished'
  <2>1. settled # NoConfig => pc[p] = "load" /\ run[p] = Absent
    BY <1>1, <1>2 DEF FilesInv, Finished, Ending, Counting, LoopSteps, PublishSteps
  <2>2. QED
    BY <1>1, <2>1 DEF FilesInv, Finished
<1>6. lock' = p
  BY <1>1, <1>2 DEF FilesInv, Locked
<1>7. QED
  BY <1>1, <1>2, <1>3, <1>4, <1>5, <1>6, FilesStep

\* The process returns or dies and gives up the lock.
LEMMA LeaveKept ==
    ASSUME Inv, FilesInv, NEW p \in Procs, Kill(p) \/ Exit(p)
    PROVE  FilesInv'
<1>1. /\ pc[p] \notin {"idle", "lock"} /\ pc'[p] = "idle" /\ settled' = settled
      /\ run'[p] = Absent /\ outcome'[p] = NoOutcome
      /\ runFile' = runFile /\ manifest' = manifest /\ art' = art
  BY DEF Inv, TypeOK, Kill, Exit, Forget, Set, Goto, disk
<1>2. \A r \in Procs : r # p => pc'[r] = pc[r] /\ run'[r] = run[r] /\ outcome'[r] = outcome[r]
  BY DEF Inv, TypeOK, Kill, Exit, Forget, Set, Goto
<1>3. Ending(p)'
  BY <1>1 DEF Ending
<1>4. Publishing(p)' /\ Passed(p)' /\ Resumed(p)'
  BY <1>1, OffStage
<1>5. Finished'
  BY <1>1, <1>2 DEF FilesInv, Finished
<1>6. QED
  BY <1>1, <1>2, <1>3, <1>4, <1>5, FilesStep

\* The first attempt to record a failure.
LEMMA FailKept ==
    ASSUME Inv, FilesInv, NEW p \in Procs, Fail(p)
    PROVE  FilesInv'
<1>1. /\ pc[p] = "fail" /\ pc'[p] = "finalize" /\ lock' = lock /\ settled' = settled
      /\ manifest' = manifest /\ art' = art
      /\ \A r \in Procs : r # p => /\ pc'[r] = pc[r] /\ run'[r] = run[r]
                                   /\ outcome'[r] = outcome[r]
  BY DEF Inv, TypeOK, Fail, Goto, Set
<1>2. outcome[p] = NoOutcome
  BY <1>1 DEF FilesInv, Ending
<1>3. ASSUME run[p] = Absent PROVE Ending(p)' /\ Finished'
  <2>1. runFile' = runFile /\ run' = run /\ outcome'[p] = [NoOutcome EXCEPT !.failure = TRUE]
    BY <1>2, <1>3 DEF Inv, TypeOK, Fail, Set
  <2>2. outcome'[p] = [failure |-> TRUE, unwritten |-> FALSE, final |-> FALSE]
    BY <2>1 DEF NoOutcome
  <2>3. Ending(p)'
    BY <1>1, <1>3, <2>1, <2>2 DEF Ending
  <2>4. Finished'
    BY <1>1, <1>3, <2>1 DEF FilesInv, Finished
  <2>5. QED
    BY <2>2, <2>3, <2>4
<1>4. ASSUME run[p] # Absent PROVE Ending(p)' /\ Finished'
  <2>1. run[p] \in Runs
    BY <1>4 DEF Inv, TypeOK
  <2>2. run'[p] = [run[p] EXCEPT !.status = "failed"]
    BY <1>4 DEF Inv, TypeOK, Fail, Set
  <2>3. run'[p].status = "failed"
    BY <2>1, <2>2 DEF Runs
  <2>4. PICK landed \in BOOLEAN, raised \in BOOLEAN :
          /\ WriteRun(run'[p], landed, raised)
          /\ outcome' = Set(outcome, p, [outcome[p] EXCEPT !.failure = TRUE, !.unwritten = raised])
    BY <1>4 DEF Fail
  <2>5. outcome'[p] = [NoOutcome EXCEPT !.failure = TRUE, !.unwritten = raised]
    BY <1>2, <2>4 DEF Inv, TypeOK, Set
  <2>6. outcome'[p] = [failure |-> TRUE, unwritten |-> raised, final |-> FALSE]
    BY <2>5 DEF NoOutcome
  <2>7. ~raised => runFile' = run'[p]
    BY <2>4 DEF WriteRun
  <2>8. Ending(p)'
    BY <1>1, <2>3, <2>6, <2>7 DEF Ending
  <2>9. Finished'
    BY <1>1, <1>4 DEF FilesInv, Finished
  <2>10. QED
    BY <2>6, <2>8, <2>9
<1>5. outcome'[p].failure
  <2>1. CASE run[p] = Absent
    BY <2>1, <1>2 DEF Inv, TypeOK, Fail, Set, NoOutcome
  <2>2. CASE run[p] # Absent
    <3>1. PICK raised \in BOOLEAN :
            outcome' = Set(outcome, p, [outcome[p] EXCEPT !.failure = TRUE, !.unwritten = raised])
      BY <2>2 DEF Fail
    <3>2. QED
      BY <3>1, <1>2 DEF Inv, TypeOK, Set, NoOutcome
  <2>3. QED
    BY <2>1, <2>2
<1>6. Publishing(p)' /\ Passed(p)' /\ Resumed(p)'
  BY <1>1, <1>5 DEF Publishing, Passed, Passing, Resumed, Counting, LoopSteps, PublishSteps
<1>7. lock' = p
  BY <1>1 DEF FilesInv, Locked
<1>8. Ending(p)' /\ Finished'
  BY <1>3, <1>4
<1>9. QED
  BY <1>1, <1>6, <1>7, <1>8, FilesStep

\* The finalizer, failing or not.
LEMMA FinalizeKept ==
    ASSUME Inv, FilesInv, NEW p \in Procs, Finalize(p)
    PROVE  FilesInv'
<1>1. /\ pc[p] = "finalize" /\ lock' = lock /\ settled' = settled /\ job' = job /\ outs' = outs
      /\ runFile' = runFile /\ manifest' = manifest /\ art' = art
      /\ \A r \in Procs : r # p => /\ pc'[r] = pc[r] /\ run'[r] = run[r]
                                   /\ outcome'[r] = outcome[r]
  BY DEF Inv, TypeOK, Finalize, Goto, Set, disk
<1>2. PICK broken \in BOOLEAN :
        /\ clone' = Set(clone, p, broken /\ clone[p])
        /\ outcome' = Set(outcome, p, [outcome[p] EXCEPT !.final = broken])
        /\ run' = IF broken /\ run[p] # Absent
                  THEN Set(run, p, [run[p] EXCEPT !.status = "failed"]) ELSE run
        /\ Goto(p, AfterFinalize(p, broken))
  BY DEF Finalize
<1>3. outcome[p] \in Outcomes /\ outcome'[p] = [outcome[p] EXCEPT !.final = broken]
  BY <1>2 DEF Inv, TypeOK, Set
<1>4. /\ outcome'[p].failure = outcome[p].failure /\ outcome'[p].unwritten = outcome[p].unwritten
      /\ outcome'[p].final = broken
  BY <1>3 DEF Outcomes
<1>5. pc'[p] = AfterFinalize(p, broken)
  BY <1>2 DEF Inv, TypeOK, Goto
<1>6. /\ ~outcome[p].final
      /\ outcome[p].unwritten => outcome[p].failure
      /\ outcome[p].failure /\ run[p] # Absent => run[p].status = "failed"
      /\ outcome[p].failure /\ run[p] # Absent /\ ~outcome[p].unwritten => runFile = run[p]
  BY <1>1 DEF FilesInv, Ending
<1>7. run[p] = Absent => outcome[p].failure
  BY <1>1, AbsentIsNoRun DEF Inv, Control
<1>8. ASSUME broken
      PROVE  Ending(p)' /\ Publishing(p)' /\ Passed(p)' /\ Resumed(p)' /\ Finished'
  <2>1. CASE run[p] = Absent
    <3>1. pc'[p] = "exit" /\ run' = run
      BY <1>2, <1>5, <1>8, <2>1 DEF AfterFinalize
    <3>2. Ending(p)'
      BY <3>1, <2>1 DEF Ending
    <3>3. Finished'
      BY <1>1, <3>1 DEF FilesInv, Finished
    <3>4. QED
      BY <3>1, <3>2, <3>3, OffStage
  <2>2. CASE run[p] # Absent
    <3>1. pc'[p] = "rewrite"
      BY <1>5, <1>8, <2>2 DEF AfterFinalize
    <3>2. run[p] \in Runs /\ run'[p] = [run[p] EXCEPT !.status = "failed"]
      BY <1>2, <1>8, <2>2 DEF Inv, TypeOK, Set
    <3>3. run'[p].status = "failed"
      BY <3>2 DEF Runs
    <3>4. Ending(p)'
      BY <1>4, <1>8, <3>1, <3>3 DEF Ending
    <3>5. Finished'
      BY <1>1, <2>2 DEF FilesInv, Finished
    <3>6. QED
      BY <3>1, <3>4, <3>5, OffStage
  <2>3. QED
    BY <2>1, <2>2
<1>9. ASSUME ~broken
      PROVE  Ending(p)' /\ Publishing(p)' /\ Passed(p)' /\ Resumed(p)' /\ Finished'
  <2>0. run' = run
    BY <1>2, <1>9
  <2>1. CASE outcome[p].failure /\ run[p] # Absent /\ outcome[p].unwritten
    <3>1. pc'[p] = "rewrite"
      BY <1>5, <2>1 DEF AfterFinalize
    <3>2. Ending(p)'
      BY <1>4, <1>6, <2>0, <2>1, <3>1 DEF Ending
    <3>3. Finished'
      BY <1>1, <2>1 DEF FilesInv, Finished
    <3>4. QED
      BY <3>1, <3>2, <3>3, OffStage
  <2>2. CASE outcome[p].failure /\ ~(run[p] # Absent /\ outcome[p].unwritten)
    <3>1. pc'[p] = "exit"
      BY <1>5, <1>9, <2>2 DEF AfterFinalize
    <3>2. Ending(p)'
      BY <1>1, <1>4, <1>6, <2>0, <2>2, <3>1 DEF Ending
    <3>3. Finished'
      BY <1>1, <2>0, <3>1 DEF FilesInv, Finished
    <3>4. QED
      BY <3>1, <3>2, <3>3, OffStage
  <2>3. CASE ~outcome[p].failure
    <3>0. run[p] # Absent /\ ~outcome[p].unwritten
      BY <1>6, <1>7, <2>3
    <3>1. pc'[p] = "finish"
      BY <1>5, <1>9, <2>3, <3>0 DEF AfterFinalize
    <3>2. outcome'[p] = NoOutcome
      BY <1>3, <1>6, <1>9, <2>3, <3>0 DEF Outcomes, NoOutcome
    <3>3. Ending(p)'
      BY <3>1, <3>2 DEF Ending
    <3>4. Publishing(p)'
      BY <3>1 DEF Publishing, PublishSteps
    <3>5. Passed(p)'
      <4>1. ~clone'[p]
        BY <1>2, <1>9 DEF Inv, TypeOK, Set
      <4>2. /\ \A s \in 1..Len(outs[p]) : Stand(manifest, art, run[p], s, job[p].cfg)
            /\ Len(outs[p]) = job[p].target
        BY <1>1, <2>3 DEF FilesInv, Passed, Passing, Counting, LoopSteps, PublishSteps
      <4>3. QED
        BY <1>1, <2>0, <3>1, <4>1, <4>2 DEF Passed, Counting, LoopSteps, PublishSteps
    <3>6. Resumed(p)'
      BY <3>1 DEF Resumed, LoopSteps, PublishSteps
    <3>7. Finished'
      BY <1>1, <3>0 DEF FilesInv, Finished
    <3>8. QED
      BY <3>3, <3>4, <3>5, <3>6, <3>7
  <2>4. QED
    BY <2>1, <2>2, <2>3
<1>10. lock' = p
  BY <1>1 DEF FilesInv, Locked
<1>11. Ending(p)' /\ Publishing(p)' /\ Passed(p)' /\ Resumed(p)' /\ Finished'
  BY <1>8, <1>9
<1>12. QED
  BY <1>1, <1>10, <1>11, FilesStep

\* The second attempt to record a failure.
LEMMA RewriteKept ==
    ASSUME Inv, FilesInv, NEW p \in Procs, Rewrite(p)
    PROVE  FilesInv'
<1>1. /\ pc[p] = "rewrite" /\ pc'[p] = "exit" /\ lock' = lock /\ settled' = settled /\ run' = run
      /\ \A r \in Procs : r # p => pc'[r] = pc[r] /\ outcome'[r] = outcome[r]
  BY DEF Inv, TypeOK, Rewrite, Goto, Set
<1>2. PICK landed \in BOOLEAN, raised \in BOOLEAN :
        /\ WriteRun(run[p], landed, raised)
        /\ outcome' = Set(outcome, p, [outcome[p] EXCEPT !.unwritten = raised])
  BY DEF Rewrite
<1>3. outcome[p] \in Outcomes /\ outcome'[p] = [outcome[p] EXCEPT !.unwritten = raised]
  BY <1>2 DEF Inv, TypeOK, Set
<1>4. /\ outcome'[p].failure = outcome[p].failure /\ outcome'[p].final = outcome[p].final
      /\ outcome'[p].unwritten = raised
  BY <1>3 DEF Outcomes
<1>5. run[p].status = "failed" /\ (outcome[p].failure \/ outcome[p].final)
  BY <1>1 DEF FilesInv, Ending
<1>6. ~raised => runFile' = run[p]
  BY <1>2 DEF WriteRun
<1>7. Ending(p)'
  BY <1>1, <1>4, <1>5, <1>6 DEF Ending
<1>8. Publishing(p)' /\ Passed(p)' /\ Resumed(p)'
  BY <1>1, OffStage
<1>9. Finished'
  BY <1>1 DEF FilesInv, Finished
<1>10. lock' = p
  BY <1>1 DEF FilesInv, Locked
<1>11. QED
  BY <1>1, <1>7, <1>8, <1>9, <1>10, FilesStep

\* At the end of a run the record it writes is the one all its stages stand under.
LEMMA FinishStands ==
    ASSUME Inv, FilesInv, NEW p \in Procs, Finish(p)
    PROVE  /\ run'[p] \in Runs /\ run'[p].status = "completed"
           /\ \A s \in 1..job[p].target : Stand(manifest, art, run'[p], s, job[p].cfg)
<1>1. pc[p] = "finish" /\ run[p] \in Runs
  BY DEF Inv, Control, HasRun, Finish
<1>2. run'[p] = [run[p] EXCEPT !.status = "completed"]
  BY DEF Inv, TypeOK, Finish, Set
<1>3. run'[p] \in Runs /\ run'[p].stages = run[p].stages /\ run'[p].status = "completed"
  BY <1>1, <1>2 DEF Runs
<1>4. /\ \A s \in 1..Len(outs[p]) : Stand(manifest, art, run[p], s, job[p].cfg)
      /\ Len(outs[p]) = job[p].target
  BY <1>1 DEF FilesInv, Passed, Passing, Counting, LoopSteps, PublishSteps
<1>5. \A s \in 1..job[p].target : s \in Stages
  BY StagesAssumption DEF Inv, TypeOK, Jobs, Stages
<1>6. QED
  BY <1>3, <1>4, <1>5, StandKept

\* The write of status completed.
LEMMA FinishKept ==
    ASSUME Inv, FilesInv, NEW p \in Procs, Finish(p)
    PROVE  FilesInv'
<1>1. /\ pc[p] = "finish" /\ pc'[p] = "exit" /\ lock' = lock
      /\ manifest' = manifest /\ art' = art
      /\ \A r \in Procs : r # p => /\ pc'[r] = pc[r] /\ run'[r] = run[r]
                                   /\ outcome'[r] = outcome[r]
  BY DEF Inv, TypeOK, Finish, Goto, Set
<1>2. PICK landed \in BOOLEAN, raised \in BOOLEAN :
        /\ WriteRun(run'[p], landed, raised)
        /\ outcome' = Set(outcome, p, [outcome[p] EXCEPT !.failure = raised, !.unwritten = raised])
        /\ settled' = IF landed /\ job[p].target = N THEN job[p].cfg ELSE settled
  BY DEF Finish
<1>3. outcome[p] = NoOutcome
  BY <1>1 DEF FilesInv, Ending
<1>4. outcome'[p] = [NoOutcome EXCEPT !.failure = raised, !.unwritten = raised]
  BY <1>2, <1>3 DEF Inv, TypeOK, Set
<1>5. outcome'[p].failure = raised /\ outcome'[p].unwritten = raised /\ ~outcome'[p].final
  BY <1>4 DEF NoOutcome
<1>6. (landed \/ ~raised) => runFile' = run'[p]
  BY <1>2 DEF WriteRun
<1>7. Ending(p)'
  BY <1>1, <1>5, <1>6, FinishStands DEF Ending
<1>8. Publishing(p)' /\ Passed(p)' /\ Resumed(p)'
  BY <1>1, OffStage
<1>9. Finished'
  <2>1. settled = NoConfig
    BY <1>1 DEF FilesInv, Finished
  <2>2. CASE landed /\ job[p].target = N
    <3>1. runFile' = run'[p] /\ settled' = job[p].cfg
      BY <1>2, <1>6, <2>2
    <3>2. runFile' \in Runs /\ \A s \in Stages : Stand(manifest', art', runFile', s, settled')
      BY <1>1, <2>2, <3>1, FinishStands DEF Stages
    <3>3. \A r \in Procs : pc'[r] \in {"idle", "lock", "exit"}
      BY <1>1, Alone
    <3>4. QED
      BY <3>2, <3>3 DEF Finished
  <2>3. CASE ~(landed /\ job[p].target = N)
    BY <1>2, <2>1, <2>3 DEF Finished
  <2>4. QED
    BY <2>2, <2>3
<1>10. lock' = p
  BY <1>1 DEF FilesInv, Locked
<1>11. QED
  BY <1>1, <1>7, <1>8, <1>9, <1>10, FilesStep

\* An edit from outside, while no process is past the lock.
LEMMA EditKept ==
    ASSUME Inv, FilesInv, Edit
    PROVE  FilesInv'
<1>1. lock = NoProc /\ lock' = lock /\ settled' = NoConfig /\ pc' = pc /\ run' = run /\ outcome' = outcome
  BY DEF Edit, memory
<1>2. \A r \in Procs : pc[r] \in {"idle", "lock"}
  BY <1>1, NoFileAssumption DEF FilesInv, Locked
<1>3. ASSUME NEW r \in Procs PROVE Ending(r)' /\ Publishing(r)' /\ Passed(r)' /\ Resumed(r)'
  BY <1>1, <1>2, WaitingKept DEF FilesInv
<1>4. Locked' /\ Finished'
  BY <1>1, <1>2 DEF Locked, Finished
<1>5. QED
  BY <1>3, <1>4 DEF FilesInv

-----------------------------------------------------------------------------
(* A publication and its rollback.                                         *)

\* Nothing is required where no publication is under way.
LEMMA NoPublication ==
    ASSUME NEW p \in Procs, pc'[p] \notin PublishSteps \cup {"undo", "undone"}
    PROVE  Publishing(p)'
  BY DEF Publishing, PublishSteps

\* The publication starts from the files as they are.
LEMMA ExecutePublishing ==
    ASSUME Inv, FilesInv, NEW p \in Procs, Execute(p)
    PROVE  Publishing(p)'
<1>0. /\ Stage(p) \in Stages /\ Stage(p)' = Stage(p)
      /\ art' = art /\ manifest' = manifest
  BY StageIn, WorkingFrame DEF Working, Execute, LoopSteps, disk
<1>1. PICK out \in Outputs :
        LET old == prior[p][Stage(p)]
            retire == IF old = Absent THEN {} ELSE DOMAIN old.out \ DOMAIN out
        IN  /\ staged' = Set(staged, p, out)
            /\ txn' = Set(txn, p, [EmptyTxn EXCEPT !.retire = retire, !.todo = DOMAIN out])
            /\ Goto(p, IF retire = {} THEN "save" ELSE "retire")
  BY DEF Execute
<1> DEFINE old == prior[p][Stage(p)]
           retire == IF old = Absent THEN {} ELSE DOMAIN old.out \ DOMAIN out
<1>2. retire \cap DOMAIN out = {}
  BY DEF Inv
<1> HIDE DEF retire
<1>3. /\ staged' = Set(staged, p, out)
      /\ txn' = Set(txn, p, [EmptyTxn EXCEPT !.retire = retire, !.todo = DOMAIN out])
      /\ Goto(p, IF retire = {} THEN "save" ELSE "retire")
  BY <1>1 DEF retire
<1>4. /\ staged'[p] = out /\ pc'[p] = IF retire = {} THEN "save" ELSE "retire"
      /\ txn'[p] = [EmptyTxn EXCEPT !.retire = retire, !.todo = DOMAIN out]
  BY <1>3 DEF Inv, TypeOK, Set, Goto
<1>5. txn'[p] = [retire |-> retire, todo |-> DOMAIN out, done |-> {},
                 backup |-> [q \in Paths |-> NoFile], old |-> Absent, touched |-> FALSE]
  BY <1>4 DEF EmptyTxn
<1>6. before'[p] = [art |-> art[Stage(p)], manifest |-> manifest[Stage(p)]]
  BY DEF Inv, TypeOK, Execute, Set
<1>7. DOMAIN out \subseteq Paths
  BY OutputDomain
<1>8. retire \subseteq Paths
  <2>1. Inv'
    BY ExecuteType
  <2>2. QED
    BY <1>5, <2>1 DEF Inv, TypeOK, Txns
<1>9. Saved(p)'
  BY <1>0, <1>5, <1>6 DEF Saved
<1>10. Turn(p)' = {}
  BY <1>4 DEF Turn
<1>11. Written(p)'
  <2>1. /\ txn'[p].retire = retire /\ txn'[p].todo = DOMAIN out /\ txn'[p].done = {}
        /\ ~txn'[p].touched
        /\ \A q \in Paths : txn'[p].backup[q] = NoFile
    BY <1>5
  <2>2. /\ pc'[p] \in {"save", "retire"} /\ (pc'[p] = "save" => retire = {})
        /\ staged'[p] = out
    BY <1>4
  <2>3. \A q \in (txn'[p].todo \cup txn'[p].retire) : txn'[p].backup[q] = NoFile
    BY <2>1, <1>7, <1>8
  <2>4. QED
    BY <1>2, <1>10, <2>1, <2>2, <2>3 DEF Written
<1>12. pc'[p] \in {"save", "retire"}
  BY <1>4
<1>13. QED
  BY <1>9, <1>11, <1>12 DEF Publishing, PublishSteps

\* What a step of _publish or of its rollback may rely on.
LEMMA PublishFacts ==
    ASSUME Inv, FilesInv, NEW p \in Procs, pc[p] \in PublishSteps \cup {"undo"}
    PROVE  /\ Stage(p) \in Stages /\ Saved(p) /\ txn[p] \in Txns
           /\ art[Stage(p)] \in Files /\ before[p].art \in Files
           /\ pc[p] \in PublishSteps =>
                Written(p) /\ DOMAIN staged[p] \subseteq Paths /\ txn[p].todo \subseteq Paths
<1>1. Stage(p) \in Stages
  BY StageIn DEF LoopSteps
<1>2. Saved(p) /\ (pc[p] \in PublishSteps => Written(p))
  BY DEF FilesInv, Publishing
<1>3. txn[p] \in Txns /\ art[Stage(p)] \in Files /\ before[p].art \in Files
  BY <1>1 DEF Inv, TypeOK, Snapshots
<1>4. pc[p] \in PublishSteps => DOMAIN staged[p] \subseteq Paths
  BY OutputDomain DEF Inv, Control
<1>5. QED
  BY <1>1, <1>2, <1>3, <1>4 DEF Txns

\* Moving a file aside: its backup is what was there.
LEMMA MoveAsideEffect ==
    ASSUME Inv, NEW p \in Procs, NEW s \in Stages, NEW q \in Paths, MoveAside(p, s, q)
    PROVE  /\ \A x \in Paths : art'[s][x] = IF x = q THEN NoFile ELSE art[s][x]
           /\ \A x \in Paths : txn'[p].backup[x] = IF x = q THEN art[s][q] ELSE txn[p].backup[x]
           /\ txn'[p].retire = txn[p].retire \ {q}
           /\ txn'[p].todo = txn[p].todo /\ txn'[p].done = txn[p].done
           /\ txn'[p].touched = txn[p].touched /\ txn'[p].old = txn[p].old
<1>1. art \in [Stages -> Files] /\ txn[p] \in Txns
  BY DEF Inv, TypeOK
<1>2. art' = [art EXCEPT ![s][q] = NoFile]
  BY DEF MoveAside
<1>3. \A x \in Paths : art'[s][x] = IF x = q THEN NoFile ELSE art[s][x]
  BY <1>1, <1>2 DEF Files
<1>4. txn'[p] = [txn[p] EXCEPT !.backup = Set(@, q, art[s][q]), !.retire = @ \ {q}]
  BY DEF Inv, TypeOK, MoveAside, Set
<1>5. /\ txn'[p].backup = Set(txn[p].backup, q, art[s][q])
      /\ txn'[p].retire = txn[p].retire \ {q}
      /\ txn'[p].todo = txn[p].todo /\ txn'[p].done = txn[p].done
      /\ txn'[p].touched = txn[p].touched /\ txn'[p].old = txn[p].old
  BY <1>1, <1>4 DEF Txns
<1>6. \A x \in Paths : txn'[p].backup[x] = IF x = q THEN art[s][q] ELSE txn[p].backup[x]
  BY <1>1, <1>5 DEF Set, Txns, Files
<1>7. QED
  BY <1>3, <1>5, <1>6

\* One rename of an artifact that the new output does not have.
LEMMA RetirePublishing ==
    ASSUME Inv, FilesInv, NEW p \in Procs, Retire(p)
    PROVE  Publishing(p)'
<1>1. /\ pc[p] = "retire" /\ Stage(p)' = Stage(p) /\ manifest' = manifest /\ staged' = staged
      /\ before' = before
  BY WorkingFrame DEF Working, Retire
<1>2. /\ Stage(p) \in Stages /\ Saved(p) /\ Written(p) /\ txn[p] \in Txns
      /\ txn[p].todo \subseteq Paths
  BY <1>1, PublishFacts DEF PublishSteps
<1>3. PICK q \in txn[p].retire : q = Least(txn[p].retire) /\ MoveAside(p, Stage(p), q)
  BY <1>1, <1>2, LeastIn DEF Inv, Control, Retire, PublishSteps, Txns
<1>4. q \in Paths
  BY <1>2 DEF Txns
<1>5. /\ \A x \in Paths : art'[Stage(p)][x] = IF x = q THEN NoFile ELSE art[Stage(p)][x]
      /\ \A x \in Paths : txn'[p].backup[x] =
            IF x = q THEN art[Stage(p)][q] ELSE txn[p].backup[x]
      /\ txn'[p].retire = txn[p].retire \ {q}
      /\ txn'[p].todo = txn[p].todo /\ txn'[p].done = txn[p].done
      /\ txn'[p].touched = txn[p].touched /\ txn'[p].old = txn[p].old
  BY <1>2, <1>3, <1>4, MoveAsideEffect
<1>6. pc'[p] = IF txn[p].retire = {q} THEN "save" ELSE "retire"
  BY <1>3 DEF Inv, TypeOK, Retire, Goto
<1>7. /\ ~txn[p].touched /\ txn[p].done = {} /\ txn[p].retire \cap txn[p].todo = {}
      /\ \A x \in txn[p].todo \cup txn[p].retire : txn[p].backup[x] = NoFile
      /\ txn[p].todo \cap txn[p].done = {} /\ txn[p].todo \cup txn[p].done = DOMAIN staged[p]
  BY <1>1, <1>2 DEF Written, Turn
<1>8. art[Stage(p)][q] = before[p].art[q]
  BY <1>1, <1>2, <1>4, <1>7 DEF Saved
<1>9. Saved(p)'
  BY <1>1, <1>2, <1>5, <1>7, <1>8 DEF Saved
<1>10. Turn(p)' = {}
  BY <1>6 DEF Turn
<1>11. Written(p)'
  <2>1. txn[p].retire \subseteq Paths
    BY <1>2 DEF Txns
  <2>2. \A x \in (txn'[p].todo \cup txn'[p].retire) : txn'[p].backup[x] = NoFile
    BY <1>2, <1>3, <1>5, <1>7, <2>1
  <2>3. pc'[p] # "retire" => txn'[p].retire = {}
    BY <1>5, <1>6
  <2>4. QED
    BY <1>1, <1>5, <1>6, <1>7, <1>10, <2>2, <2>3 DEF Written
<1>12. pc'[p] \in {"save", "retire"}
  BY <1>6
<1>13. QED
  BY <1>9, <1>11, <1>12 DEF Publishing, PublishSteps

\* One rename of a replaced artifact to its backup.
LEMMA SavePublishing ==
    ASSUME Inv, FilesInv, NEW p \in Procs, Save(p)
    PROVE  Publishing(p)'
<1>1. /\ pc[p] = "save" /\ Stage(p)' = Stage(p) /\ manifest' = manifest /\ staged' = staged
      /\ before' = before /\ pc'[p] = "install"
  BY WorkingFrame DEF Working, Save, Goto, Inv, TypeOK
<1>2. /\ Stage(p) \in Stages /\ Saved(p) /\ Written(p) /\ txn[p] \in Txns
      /\ txn[p].todo \subseteq Paths
  BY <1>1, PublishFacts DEF PublishSteps
<1>3. PICK q \in txn[p].todo : q = Least(txn[p].todo) /\ MoveAside(p, Stage(p), q)
  BY <1>1, <1>2, LeastIn DEF Inv, Control, Save, PublishSteps
<1>4. q \in Paths
  BY <1>2
<1>5. /\ \A x \in Paths : art'[Stage(p)][x] = IF x = q THEN NoFile ELSE art[Stage(p)][x]
      /\ \A x \in Paths : txn'[p].backup[x] =
            IF x = q THEN art[Stage(p)][q] ELSE txn[p].backup[x]
      /\ txn'[p].retire = txn[p].retire \ {q}
      /\ txn'[p].todo = txn[p].todo /\ txn'[p].done = txn[p].done
      /\ txn'[p].touched = txn[p].touched /\ txn'[p].old = txn[p].old
  BY <1>2, <1>3, <1>4, MoveAsideEffect
<1>7. /\ ~txn[p].touched /\ txn[p].retire = {}
      /\ \A x \in txn[p].todo : txn[p].backup[x] = NoFile
      /\ \A x \in txn[p].done : art[Stage(p)][x] = staged[p][x]
      /\ txn[p].todo \cap txn[p].done = {} /\ txn[p].todo \cup txn[p].done = DOMAIN staged[p]
  BY <1>1, <1>2 DEF Written, Turn
<1>8. art[Stage(p)][q] = before[p].art[q] /\ q \notin txn[p].done
  BY <1>1, <1>2, <1>3, <1>4, <1>7 DEF Saved
<1>9. Saved(p)'
  <2>1. \A x \in txn[p].done : x \in Paths /\ x # q
    BY <1>2, <1>8 DEF Txns
  <2>2. \A x \in Paths : txn'[p].backup[x] # NoFile => txn'[p].backup[x] = before'[p].art[x]
    BY <1>1, <1>2, <1>5, <1>8 DEF Saved
  <2>3. \A x \in txn'[p].done : txn'[p].backup[x] = NoFile => before'[p].art[x] = NoFile
    BY <1>1, <1>2, <1>5, <2>1 DEF Saved
  <2>4. \A x \in Paths \ txn[p].done : txn[p].backup[x] = NoFile =>
           art[Stage(p)][x] = before[p].art[x]
    BY <1>1, <1>2 DEF Saved
  <2>5. \A x \in Paths \ txn'[p].done : txn'[p].backup[x] = NoFile =>
           art'[Stage(p)][x] = before'[p].art[x]
    BY <1>1, <1>5, <1>8, <2>4
  <2>6. ~txn'[p].touched /\ manifest'[Stage(p)] = before'[p].manifest
    BY <1>1, <1>2, <1>5, <1>7 DEF Saved
  <2>7. QED
    BY <1>1, <2>2, <2>3, <2>5, <2>6 DEF Saved
<1>10. Turn(p)' = {q}
  BY <1>1, <1>3, <1>5 DEF Turn
<1>11. Written(p)'
  <2>1. txn[p].done \subseteq Paths
    BY <1>2 DEF Txns
  <2>2. \A x \in (txn'[p].todo \cup txn'[p].retire) \ {q} : txn'[p].backup[x] = NoFile
    BY <1>2, <1>5, <1>7
  <2>3. \A x \in txn'[p].done : art'[Stage(p)][x] = staged'[p][x]
    BY <1>1, <1>5, <1>7, <1>8, <2>1
  <2>4. txn'[p].retire = {} /\ txn'[p].backup[q] = before'[p].art[q]
    BY <1>1, <1>4, <1>5, <1>7, <1>8
  <2>5. QED
    BY <1>1, <1>5, <1>7, <1>10, <2>2, <2>3, <2>4 DEF Written
<1>13. QED
  BY <1>1, <1>9, <1>11 DEF Publishing, PublishSteps

\* Listing an installed artifact as published.
LEMMA PublishedKept ==
    ASSUME Inv, FilesInv, NEW p \in Procs, pc[p] \in {"install", "chmod"},
           NEW q \in txn[p].todo, q = Least(txn[p].todo), Published(p, q),
           Stage(p)' = Stage(p), manifest' = manifest, staged' = staged, before' = before,
           \A x \in Paths : art'[Stage(p)][x] = IF x = q THEN staged[p][q] ELSE art[Stage(p)][x]
    PROVE  Publishing(p)'
<1>1. /\ Stage(p) \in Stages /\ Saved(p) /\ Written(p) /\ txn[p] \in Txns
      /\ txn[p].todo \subseteq Paths /\ q \in Paths
  BY PublishFacts DEF PublishSteps
<1>2. txn[p].done \subseteq Paths
  BY <1>1 DEF Txns
<1>3. txn'[p] = [txn[p] EXCEPT !.todo = @ \ {q}, !.done = @ \cup {q}]
  BY DEF Inv, TypeOK, Published, Set
<1>4. /\ txn'[p].todo = txn[p].todo \ {q} /\ txn'[p].done = txn[p].done \cup {q}
      /\ txn'[p].retire = txn[p].retire /\ txn'[p].backup = txn[p].backup
      /\ txn'[p].touched = txn[p].touched /\ txn'[p].old = txn[p].old
  BY <1>1, <1>3 DEF Txns
<1>5. pc'[p] = IF txn[p].todo = {q} THEN "saveManifest" ELSE "save"
  BY DEF Inv, TypeOK, Published, AfterInstall, Goto
<1>6. Turn(p) = {q} /\ Turn(p)' = {}
  BY <1>5 DEF Turn
<1>7. /\ ~txn[p].touched /\ txn[p].retire = {} /\ txn[p].backup[q] = before[p].art[q]
      /\ \A x \in txn[p].todo \ {q} : txn[p].backup[x] = NoFile
      /\ \A x \in txn[p].done : art[Stage(p)][x] = staged[p][x]
      /\ txn[p].todo \cap txn[p].done = {} /\ txn[p].todo \cup txn[p].done = DOMAIN staged[p]
  BY <1>1, <1>6 DEF Written
<1>8. Saved(p)'
  <2>1. \A x \in Paths : txn'[p].backup[x] # NoFile => txn'[p].backup[x] = before'[p].art[x]
    BY <1>1, <1>4 DEF Saved
  <2>2. \A x \in txn'[p].done : txn'[p].backup[x] = NoFile => before'[p].art[x] = NoFile
    BY <1>1, <1>4, <1>7 DEF Saved
  <2>3. \A x \in Paths \ (txn[p].done \cup {q}) : txn[p].backup[x] = NoFile =>
           art[Stage(p)][x] = before[p].art[x]
    BY <1>1 DEF Saved
  <2>4. \A x \in Paths \ txn'[p].done : txn'[p].backup[x] = NoFile =>
           art'[Stage(p)][x] = before'[p].art[x]
    BY <1>4, <2>3
  <2>5. ~txn'[p].touched /\ manifest'[Stage(p)] = before'[p].manifest
    BY <1>1, <1>4, <1>7 DEF Saved
  <2>6. QED
    BY <2>1, <2>2, <2>4, <2>5 DEF Saved
<1>9. Written(p)'
  <2>1. /\ txn'[p].todo \cap txn'[p].done = {} /\ txn'[p].todo \cup txn'[p].done = DOMAIN staged'[p]
        /\ txn'[p].retire = {} /\ ~txn'[p].touched
    BY <1>4, <1>7
  <2>2. \A x \in (txn'[p].todo \cup txn'[p].retire) : txn'[p].backup[x] = NoFile
    BY <1>4, <1>7
  <2>3. \A x \in txn'[p].done : art'[Stage(p)][x] = staged'[p][x]
    BY <1>2, <1>4, <1>7, <1>1
  <2>4. pc'[p] \in {"save", "saveManifest"} /\ (pc'[p] = "saveManifest" => txn'[p].todo = {})
    BY <1>4, <1>5
  <2>5. QED
    BY <1>6, <2>1, <2>2, <2>3, <2>4 DEF Written
<1>10. pc'[p] \in PublishSteps
  BY <1>5 DEF PublishSteps
<1>11. QED
  BY <1>8, <1>9, <1>10 DEF Publishing, PublishSteps

\* One rename of a staged artifact to its place, and the chmod of a private one.
LEMMA InstallPublishing ==
    ASSUME Inv, FilesInv, NEW p \in Procs, Install(p)
    PROVE  Publishing(p)'
<1>1. /\ pc[p] = "install" /\ Stage(p)' = Stage(p) /\ manifest' = manifest /\ staged' = staged
      /\ before' = before
  BY WorkingFrame DEF Working, Install
<1>2. /\ Stage(p) \in Stages /\ Saved(p) /\ Written(p) /\ txn[p] \in Txns
      /\ txn[p].todo \subseteq Paths /\ art[Stage(p)] \in Files
  BY <1>1, PublishFacts DEF PublishSteps
<1>3. PICK q \in txn[p].todo : q = Least(txn[p].todo)
  BY <1>1, <1>2, LeastIn DEF Inv, Control
<1>4. /\ art' = [art EXCEPT ![Stage(p)][q] = staged[p][q]]
      /\ \/ q \in Private /\ Goto(p, "chmod") /\ txn' = txn
         \/ q \notin Private /\ Published(p, q)
  BY <1>3 DEF Install
<1>5. \A x \in Paths : art'[Stage(p)][x] = IF x = q THEN staged[p][q] ELSE art[Stage(p)][x]
  BY <1>2, <1>3, <1>4 DEF Inv, TypeOK, Files
<1>6. CASE q \notin Private
  BY <1>1, <1>3, <1>4, <1>5, <1>6, PublishedKept
<1>7. CASE q \in Private
  <2>1. pc'[p] = "chmod" /\ txn' = txn
    BY <1>4, <1>7 DEF Inv, TypeOK, Goto
  <2>2. Turn(p) = {q} /\ Turn(p)' = {q}
    BY <1>1, <1>3, <2>1 DEF Turn
  <2>3. /\ ~txn[p].touched /\ txn[p].retire = {} /\ txn[p].backup[q] = before[p].art[q]
        /\ \A x \in txn[p].todo \ {q} : txn[p].backup[x] = NoFile
        /\ \A x \in txn[p].done : art[Stage(p)][x] = staged[p][x]
        /\ txn[p].todo \cap txn[p].done = {} /\ txn[p].todo \cup txn[p].done = DOMAIN staged[p]
    BY <1>1, <1>2, <2>2 DEF Written
  <2>4. Saved(p)'
    <3>1. \A x \in Paths : txn'[p].backup[x] # NoFile => txn'[p].backup[x] = before'[p].art[x]
      BY <1>1, <1>2, <2>1 DEF Saved
    <3>2. \A x \in txn'[p].done : txn'[p].backup[x] = NoFile => before'[p].art[x] = NoFile
      BY <1>1, <1>2, <2>1 DEF Saved
    <3>3. \A x \in Paths \ txn[p].done : txn[p].backup[x] = NoFile =>
             art[Stage(p)][x] = before[p].art[x]
      BY <1>1, <1>2 DEF Saved
    <3>4. \A x \in Paths \ txn'[p].done : txn'[p].backup[x] = NoFile =>
             \/ art'[Stage(p)][x] = before'[p].art[x]
             \/ x = q /\ before'[p].art[x] = NoFile
      BY <1>1, <1>5, <2>1, <2>3, <3>3
    <3>5. ~txn'[p].touched /\ manifest'[Stage(p)] = before'[p].manifest
      BY <1>1, <1>2, <2>1, <2>3 DEF Saved
    <3>6. q = Least(txn'[p].todo)
      BY <1>3, <2>1
    <3>7. QED
      BY <1>1, <1>7, <2>1, <3>1, <3>2, <3>4, <3>5, <3>6 DEF Saved
  <2>5. Written(p)'
    <3>1. txn[p].done \subseteq Paths /\ q \notin txn[p].done
      BY <1>2, <2>3 DEF Txns
    <3>2. \A x \in txn'[p].done : art'[Stage(p)][x] = staged'[p][x]
      BY <1>1, <1>5, <2>1, <2>3, <3>1
    <3>3. art'[Stage(p)][q] = staged'[p][q]
      BY <1>1, <1>2, <1>3, <1>5
    <3>4. QED
      BY <1>1, <2>1, <2>2, <2>3, <3>2, <3>3 DEF Written
  <2>6. QED
    BY <2>1, <2>4, <2>5 DEF Publishing, PublishSteps
<1>8. QED
  BY <1>6, <1>7

\* The chmod of a private artifact.
LEMMA ChmodPublishing ==
    ASSUME Inv, FilesInv, NEW p \in Procs, Chmod(p)
    PROVE  Publishing(p)'
<1>1. /\ pc[p] = "chmod" /\ Stage(p)' = Stage(p) /\ manifest' = manifest /\ staged' = staged
      /\ before' = before /\ art' = art
  BY WorkingFrame DEF Working, Chmod, disk
<1>2. Written(p) /\ txn[p].todo \subseteq Paths
  BY <1>1, PublishFacts DEF PublishSteps
<1>3. PICK q \in txn[p].todo : q = Least(txn[p].todo)
  BY <1>1, <1>2, LeastIn DEF Inv, Control
<1>4. Published(p, q)
  BY <1>3 DEF Chmod
<1>5. art[Stage(p)][q] = staged[p][q]
  BY <1>1, <1>2, <1>3 DEF Written, Turn
<1>6. QED
  BY <1>1, <1>3, <1>4, <1>5, PublishedKept

\* The manifest is moved aside, and the new one put in its place.
LEMMA ManifestPublishing ==
    ASSUME Inv, FilesInv, NEW p \in Procs, SaveManifest(p) \/ PutManifest(p)
    PROVE  Publishing(p)'
<1>1. /\ pc[p] \in {"saveManifest", "putManifest"} /\ Stage(p)' = Stage(p) /\ art' = art
      /\ staged' = staged /\ before' = before
      /\ outs' = outs /\ job' = job /\ pc'[p] = IF pc[p] = "saveManifest" THEN "putManifest" ELSE "fsync"
  BY WorkingFrame DEF Inv, TypeOK, Working, SaveManifest, PutManifest, Goto, memory
<1>2. Stage(p) \in Stages /\ Saved(p) /\ Written(p) /\ txn[p] \in Txns
  BY <1>1, PublishFacts DEF PublishSteps
<1>3. Turn(p) = {} /\ Turn(p)' = {}
  BY <1>1 DEF Turn
<1>4. /\ txn[p].todo = {} /\ txn[p].retire = {} /\ txn[p].done = DOMAIN staged[p]
      /\ \A x \in txn[p].done : art[Stage(p)][x] = staged[p][x]
      /\ txn[p].touched <=> pc[p] = "putManifest"
  BY <1>1, <1>2 DEF Written
<1>5. /\ txn'[p].todo = txn[p].todo /\ txn'[p].retire = txn[p].retire
      /\ txn'[p].done = txn[p].done /\ txn'[p].backup = txn[p].backup
      /\ txn'[p].touched /\ txn'[p].old = before[p].manifest
  <2>1. CASE pc[p] = "saveManifest"
    <3>1. txn'[p] = [txn[p] EXCEPT !.old = manifest[Stage(p)], !.touched = TRUE]
      BY <2>1 DEF Inv, TypeOK, SaveManifest, PutManifest, Set
    <3>2. manifest[Stage(p)] = before[p].manifest
      BY <1>2, <1>4, <2>1 DEF Saved
    <3>3. QED
      BY <1>2, <3>1, <3>2 DEF Txns
  <2>2. CASE pc[p] = "putManifest"
    <3>1. txn' = txn
      BY <2>2 DEF SaveManifest, PutManifest, memory
    <3>2. QED
      BY <1>2, <1>4, <2>2, <3>1 DEF Saved
  <2>3. QED
    BY <1>1, <2>1, <2>2
<1>6. pc'[p] = "fsync" => manifest'[Stage(p)] = NewManifest(p)'
  <2>1. NewManifest(p)' = NewManifest(p)
    BY <1>1 DEF NewManifest
  <2>2. QED
    BY <1>1, <1>2, <2>1 DEF Inv, TypeOK, SaveManifest, PutManifest
<1>7. Saved(p)'
  <2>1. /\ \A q \in Paths : txn[p].backup[q] # NoFile => txn[p].backup[q] = before[p].art[q]
        /\ \A q \in txn[p].done : txn[p].backup[q] = NoFile => before[p].art[q] = NoFile
        /\ \A q \in Paths \ txn[p].done : txn[p].backup[q] = NoFile =>
              art[Stage(p)][q] = before[p].art[q]
    BY <1>1, <1>2 DEF Saved
  <2>2. QED
    BY <1>1, <1>5, <2>1 DEF Saved
<1>8. pc'[p] \in {"putManifest", "fsync"}
  BY <1>1
<1>9. Written(p)'
  BY <1>1, <1>3, <1>4, <1>5, <1>6, <1>8 DEF Written
<1>10. QED
  BY <1>7, <1>8, <1>9 DEF Publishing, PublishSteps

\* An error in a publication starts its rollback.
LEMMA OsErrorPublishing ==
    ASSUME Inv, FilesInv, NEW p \in Procs, OsError(p)
    PROVE  Publishing(p)'
<1>1. /\ Stage(p)' = Stage(p) /\ art' = art /\ manifest' = manifest /\ txn' = txn
      /\ before' = before
      /\ pc[p] \in PublishSteps => pc'[p] = "undo"
      /\ pc[p] \notin PublishSteps => pc'[p] \in {"stageFail", "fail"}
  BY WorkingFrame DEF Inv, TypeOK, Working, OsError, Handler, Goto, disk, memory, PublishSteps
<1>2. CASE pc[p] \in PublishSteps
  <2>1. Saved(p)
    BY <1>2, PublishFacts
  <2>2. Saved(p)'
    BY <1>1, <1>2, <2>1 DEF Saved
  <2>3. QED
    BY <1>1, <1>2, <2>2 DEF Publishing, PublishSteps
<1>3. CASE pc[p] \notin PublishSteps
  BY <1>1, <1>3, NoPublication DEF PublishSteps
<1>4. QED
  BY <1>2, <1>3

\* The rollback removes one installed artifact.
LEMMA UndoInstallPublishing ==
    ASSUME Inv, FilesInv, NEW p \in Procs, UndoInstall(p)
    PROVE  Publishing(p)'
<1>1. /\ pc[p] = "undo" /\ pc' = pc /\ Stage(p)' = Stage(p) /\ manifest' = manifest
      /\ before' = before
  BY WorkingFrame DEF Working, UndoInstall
<1>2. /\ Stage(p) \in Stages /\ Saved(p) /\ txn[p] \in Txns /\ txn[p].done \subseteq Paths
      /\ art[Stage(p)] \in Files
  BY <1>1, PublishFacts DEF Txns
<1>3. PICK q \in txn[p].done : q = Least(txn[p].done)
  BY <1>2, LeastIn DEF UndoInstall
<1>4. /\ art' = [art EXCEPT ![Stage(p)][q] = NoFile]
      /\ txn' = Set(txn, p, [txn[p] EXCEPT !.done = @ \ {q}])
  BY <1>3 DEF UndoInstall
<1>5. \A x \in Paths : art'[Stage(p)][x] = IF x = q THEN NoFile ELSE art[Stage(p)][x]
  BY <1>2, <1>3, <1>4 DEF Inv, TypeOK, Files
<1>6. txn'[p] = [txn[p] EXCEPT !.done = @ \ {q}]
  BY <1>4 DEF Inv, TypeOK, Set
<1>7. /\ txn'[p].done = txn[p].done \ {q} /\ txn'[p].backup = txn[p].backup
      /\ txn'[p].touched = txn[p].touched /\ txn'[p].old = txn[p].old
  BY <1>2, <1>6 DEF Txns
<1>8. /\ \A x \in Paths : txn[p].backup[x] # NoFile => txn[p].backup[x] = before[p].art[x]
      /\ \A x \in txn[p].done : txn[p].backup[x] = NoFile => before[p].art[x] = NoFile
      /\ \A x \in Paths \ txn[p].done : txn[p].backup[x] = NoFile =>
            \/ art[Stage(p)][x] = before[p].art[x]
            \/ x \in Private /\ before[p].art[x] = NoFile
  BY <1>1, <1>2 DEF Saved
<1>9. \A x \in Paths \ txn'[p].done : txn'[p].backup[x] = NoFile =>
            \/ art'[Stage(p)][x] = before[p].art[x]
            \/ x \in Private /\ before[p].art[x] = NoFile
  BY <1>3, <1>5, <1>7, <1>8
<1>10. /\ txn'[p].touched => txn'[p].old = before[p].manifest
       /\ ~txn'[p].touched => manifest[Stage(p)] = before[p].manifest
  BY <1>2, <1>7 DEF Saved
<1>11. Saved(p)'
  BY <1>1, <1>7, <1>8, <1>9, <1>10 DEF Saved
<1>12. QED
  BY <1>1, <1>11 DEF Publishing, PublishSteps

\* The rollback moves one backup to its place.
LEMMA UndoBackupPublishing ==
    ASSUME Inv, FilesInv, NEW p \in Procs, UndoBackup(p)
    PROVE  Publishing(p)'
<1>1. /\ pc[p] = "undo" /\ pc' = pc /\ Stage(p)' = Stage(p) /\ manifest' = manifest
      /\ before' = before /\ txn[p].done = {}
  BY WorkingFrame DEF Working, UndoBackup
<1>2. Stage(p) \in Stages /\ Saved(p) /\ txn[p] \in Txns /\ art[Stage(p)] \in Files
  BY <1>1, PublishFacts
<1>3. PICK q \in Backups(p) :
        /\ art' = [art EXCEPT ![Stage(p)][q] = txn[p].backup[q]]
        /\ txn' = Set(txn, p, [txn[p] EXCEPT !.backup = Set(@, q, NoFile)])
  BY DEF UndoBackup
<1>4. q \in Paths /\ txn[p].backup[q] # NoFile
  BY <1>3 DEF Backups
<1>5. \A x \in Paths : art'[Stage(p)][x] = IF x = q THEN txn[p].backup[q] ELSE art[Stage(p)][x]
  BY <1>2, <1>3, <1>4 DEF Inv, TypeOK, Files
<1>6. txn'[p] = [txn[p] EXCEPT !.backup = Set(@, q, NoFile)]
  BY <1>3 DEF Inv, TypeOK, Set
<1>7. /\ txn'[p].done = txn[p].done /\ txn'[p].backup = Set(txn[p].backup, q, NoFile)
      /\ txn'[p].touched = txn[p].touched /\ txn'[p].old = txn[p].old
  BY <1>2, <1>6 DEF Txns
<1>8. \A x \in Paths : txn'[p].backup[x] = IF x = q THEN NoFile ELSE txn[p].backup[x]
  BY <1>2, <1>4, <1>7 DEF Set, Txns, Files
<1>9. /\ \A x \in Paths : txn[p].backup[x] # NoFile => txn[p].backup[x] = before[p].art[x]
      /\ \A x \in Paths : txn[p].backup[x] = NoFile =>
            \/ art[Stage(p)][x] = before[p].art[x]
            \/ x \in Private /\ before[p].art[x] = NoFile
  BY <1>1, <1>2 DEF Saved
<1>10. \A x \in Paths : txn'[p].backup[x] = NoFile =>
            \/ art'[Stage(p)][x] = before[p].art[x]
            \/ x \in Private /\ before[p].art[x] = NoFile
  BY <1>4, <1>5, <1>8, <1>9
<1>11. /\ txn'[p].touched => txn'[p].old = before[p].manifest
       /\ ~txn'[p].touched => manifest[Stage(p)] = before[p].manifest
  BY <1>2, <1>7 DEF Saved
<1>12. \A x \in Paths : txn'[p].backup[x] # NoFile => txn'[p].backup[x] = before[p].art[x]
  BY <1>8, <1>9
<1>13. Saved(p)'
  BY <1>1, <1>7, <1>10, <1>11, <1>12 DEF Saved
<1>14. QED
  BY <1>1, <1>13 DEF Publishing, PublishSteps

\* The rollback ends with the manifest: everything is where it was.
LEMMA UndoManifestPublishing ==
    ASSUME Inv, FilesInv, NEW p \in Procs, UndoManifest(p)
    PROVE  Publishing(p)'
<1>1. /\ pc[p] = "undo" /\ pc'[p] = "undone" /\ Stage(p)' = Stage(p) /\ art' = art
      /\ before' = before /\ txn[p].done = {} /\ Backups(p) = {}
      /\ manifest' = [manifest EXCEPT ![Stage(p)] = ManifestBack(p)]
  BY WorkingFrame DEF Inv, TypeOK, Working, UndoManifest, Goto, memory
<1>2. Stage(p) \in Stages /\ Saved(p)
  BY <1>1, PublishFacts
<1>3. ManifestBack(p) = before[p].manifest
  BY <1>2 DEF Saved, ManifestBack
<1>4. manifest'[Stage(p)] = before[p].manifest
  BY <1>1, <1>2, <1>3 DEF Inv, TypeOK
<1>5. \A x \in Paths : txn[p].backup[x] = NoFile
  BY <1>1 DEF Backups
<1>6. \A x \in Paths : \/ art[Stage(p)][x] = before[p].art[x]
                       \/ x \in Private /\ before[p].art[x] = NoFile
  BY <1>1, <1>2, <1>5 DEF Saved
<1>7. Restored(p)'
  BY <1>1, <1>4, <1>6 DEF Restored
<1>8. QED
  BY <1>1, <1>7 DEF Publishing, PublishSteps

\* The other working steps are no part of a publication.
LEMMA WorkingPublishing ==
    ASSUME Inv, FilesInv, NEW p \in Procs, Working(p)
    PROVE  Publishing(p)'
<1>1. CASE WriteStart(p) \/ Preflight(p) \/ Invalidate(p) \/ Commit(p) \/ StageFail(p)
  <2>1. pc'[p] \notin PublishSteps \cup {"undo", "undone"}
    BY <1>1 DEF Inv, TypeOK, WriteStart, Preflight, Invalidate, Commit, StageFail, Goto, PublishSteps
  <2>2. QED
    BY <2>1, NoPublication
<1>2. QED
  BY <1>1, ExecutePublishing, RetirePublishing, SavePublishing, InstallPublishing,
     ChmodPublishing, ManifestPublishing, OsErrorPublishing, UndoInstallPublishing,
     UndoBackupPublishing, UndoManifestPublishing
     DEF Working

-----------------------------------------------------------------------------
(* The theorems about the files.                                           *)

\* A working step keeps the invariant.
LEMMA WorkingKept ==
    ASSUME Inv, ChainInv, FilesInv, NEW p \in Procs, Working(p)
    PROVE  FilesInv'
<1>1. pc[p] \notin {"idle", "lock"} /\ lock' = lock /\ outcome' = outcome
      /\ \A r \in Procs : r # p => pc'[r] = pc[r] /\ run'[r] = run[r]
  BY WorkingFrame, WorkingLabels DEF Counting, LoopSteps, PublishSteps
<1>2. lock' = p
  BY <1>1 DEF FilesInv, Locked
<1>3. QED
  BY <1>1, <1>2, WorkingEnding, WorkingFinished, WorkingPassed, WorkingResumed,
     WorkingPublishing, FilesStep

\* Every step keeps what is known of the files.
LEMMA NextFiles == Inv /\ ChainInv /\ FilesInv /\ [Next]_vars => FilesInv'
<1> SUFFICES ASSUME Inv, ChainInv, FilesInv, [Next]_vars PROVE FilesInv'
  OBVIOUS
<1>1. ASSUME NEW p \in Procs, Step(p) \/ OsError(p) PROVE FilesInv'
  BY <1>1, AcquireKept, LoadKept, PassKept, CheckpointFailKept, WorkingKept, FailKept,
     FinalizeKept, RewriteKept, FinishKept, LeaveKept
     DEF Step, Working
<1>2. ASSUME NEW p \in Procs, Invoke(p) \/ Interrupt(p) \/ Kill(p) PROVE FilesInv'
  BY <1>2, InvokeKept, InterruptKept, LeaveKept
<1>3. CASE UNCHANGED vars
  <2>1. Locked' /\ Finished'
    BY <1>3 DEF FilesInv, Locked, Finished, vars, disk, memory
  <2>2. ASSUME NEW r \in Procs PROVE Ending(r)' /\ Publishing(r)' /\ Passed(r)' /\ Resumed(r)'
    BY <1>3, PartsLocal DEF FilesInv, vars, disk, memory
  <2>3. QED
    BY <2>1, <2>2 DEF FilesInv
<1>4. QED
  BY <1>1, <1>2, <1>3, EditKept DEF Next

\* The initial state is an empty directory and nobody at work.
LEMMA InitFiles == Init => FilesInv
<1> SUFFICES ASSUME Init PROVE FilesInv
  OBVIOUS
<1>1. Locked /\ Finished
  BY DEF Init, Locked, Finished
<1>2. ASSUME NEW p \in Procs PROVE Ending(p) /\ Publishing(p) /\ Passed(p) /\ Resumed(p)
  BY DEF Init, Ending, Publishing, Passed, Passing, Resumed, Counting, LoopSteps, PublishSteps
<1>3. QED
  BY <1>1, <1>2 DEF FilesInv

\* The three invariants together hold in every reachable state.
LEMMA FilesAlways == Spec => [](Inv /\ ChainInv /\ FilesInv)
<1>1. Init => ChainInv
  BY DEF Init, ChainInv, RecordedChain, Link, Counting, Fresh, LoopSteps, PublishSteps
<1>2. QED
  BY InitInv, InitFiles, NextInv, NextChain, NextFiles, <1>1, PTL DEF Spec

\* A publication that is undone leaves the manifest and every file that was
\* there as they were, wherever in _publish the error fell.
THEOREM RollbackHolds == Spec => []RollbackRestores
<1>1. FilesInv => RollbackRestores
  BY DEF FilesInv, Publishing, Restored, RollbackRestores
<1>2. QED
  BY FilesAlways, <1>1, PTL

\* A run that ends by itself tells its caller what run.json says.
THEOREM ExitHolds == Spec => []ExitAgrees
<1>1. FilesInv => ExitAgrees
  BY DEF FilesInv, Ending, ExitAgrees
<1>2. QED
  BY FilesAlways, <1>1, PTL

\* A resumed run over the untouched files of a full run executes only stages
\* that the changed configuration reaches.
THEOREM OnlyChangedReexecuted == Spec => []ResumeReexecutesOnlyChanged
<1>1. FilesInv => ResumeReexecutesOnlyChanged
  BY DEF FilesInv, Resumed, Reached, ResumeReexecutesOnlyChanged, LoopSteps
<1>2. QED
  BY FilesAlways, <1>1, PTL

\* The write of status completed finds every stage up to the target recorded,
\* in its manifest file and in its artifacts, under the requested configuration.
THEOREM CompletedVerified == Spec => CompletedIsVerified
<1> DEFINE A == \A p \in Procs :
                  pc[p] = "finish" /\ pc'[p] = "exit" /\ runFile' # runFile
                     => Verified(runFile', p) /\ ~clone[p]
<1>1. ASSUME Inv, FilesInv, [Next]_vars PROVE A
  <2> SUFFICES ASSUME NEW p \in Procs, pc[p] = "finish", pc'[p] = "exit", runFile' # runFile
               PROVE  Verified(runFile', p) /\ ~clone[p]
    OBVIOUS
  <2>1. \A r \in Procs : r # p => pc[r] \in {"idle", "lock"}
    BY <1>1, Alone
  <2>2. Finish(p)
    <3>1. PICK r \in Procs : Invoke(r) \/ Step(r) \/ OsError(r) \/ Interrupt(r) \/ Kill(r)
      BY <1>1 DEF Next, Edit, vars, disk, memory
    <3>2. ASSUME r # p PROVE FALSE
      <4>1. pc[r] \in {"idle", "lock"}
        BY <2>1, <3>2
      <4>2. pc'[p] = pc[p]
        BY <1>1, <3>1, <3>2, <4>1 DEF Inv, TypeOK, Goto, Invoke, Step, OsError, Interrupt, Kill, Acquire,
           Load, WriteStart, Preflight, Reuse, Invalidate, Execute, Retire, Save, Install, Chmod,
           SaveManifest, PutManifest, Commit, Checkpoint, UndoInstall, UndoBackup, UndoManifest,
           StageFail, Fail, Finalize, Rewrite, Finish, Exit, LoopSteps, PublishSteps
      <4>3. QED
        BY <4>2
    <3>3. r = p
      BY <3>2
    <3>4. QED
      BY <1>1, <3>1, <3>3 DEF Inv, TypeOK, Goto, Invoke, Step, OsError, Interrupt, Kill, Acquire,
         Load, WriteStart, Preflight, Reuse, Invalidate, Execute, Retire, Save, Install, Chmod,
         SaveManifest, PutManifest, Commit, Checkpoint, UndoInstall, UndoBackup, UndoManifest,
         StageFail, Fail, Finalize, Rewrite, Exit, LoopSteps, PublishSteps
  <2>3. runFile' = run'[p]
    BY <2>2 DEF Finish, WriteRun
  <2>4. \A s \in 1..job[p].target : Stand(manifest, art, run'[p], s, job[p].cfg)
    BY <1>1, <2>2, FinishStands
  <2>5. ~clone[p]
    BY <1>1 DEF FilesInv, Passed
  <2>6. QED
    BY <2>3, <2>4, <2>5 DEF Verified, Stand, FilesMatch
<1>2. QED
  BY FilesAlways, <1>1, PTL DEF Spec, CompletedIsVerified
=============================================================================
