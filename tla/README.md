# TLA+ verification of dos-analysis-web

dos-analysis-web (`src/dosweb`) is a static analyzer that looks for resource-exhaustion patterns in
Java Web applications. It runs CodeQL queries over a database, asks a language model for typed
contracts about what they find, and derives certificates with one of three verdicts. It promises
two things that are hard to test. Its files can be trusted after crashes, interrupts, resumed runs and
concurrent runs. And its verdicts fail closed: missing evidence never becomes a determinate verdict.
This project models the parts of the code that carry those promises, checks them with TLC on small
instances, and proves the most important ones with TLAPS for instances of every size.

Paths below are relative to `src/` unless they name a file of this directory.

## 1. The system

### Components

| Component | State it keeps | Operations | Talks to |
|---|---|---|---|
| Stage pipeline, `dosweb/pipeline.py` | `run.json`, `.stage-manifests/*.json`, the stage artifacts, an flock; in memory the run record and the hashes of the stages passed | `run(target, resume)`: load, preflight, reuse or execute and publish each stage, checkpoint, finalize | stage executors, CodeQL databases (preflight and finalizer) |
| Batch runner and state, `dosweb/batch/runner.py`, `state.py` | `batch_state.json`, a directory per target; the interrupt flag, the queue, the futures | `run(resume)`: load or create, normalise, submit, wait, reap, requeue, finish; the workers' `_run_target`; the signal handler | one pipeline per target, in a pool of threads |
| Aggregation, `dosweb/batch/aggregate.py` | the view in the batch root, generations, `.aggregate-current.json`, `.aggregate-owned.json`, a lock | recover, ownership tests, stage, write, point, own | reads what the targets of a batch published |
| Stage executors, `dosweb/production.py` with `growth/`, `reachability/`, `flows/`, `lifecycle/`, `conclude/` | none of their own: they read the artifacts of earlier stages | entries, growth, flows, lifecycle, conclude, report | query runner, provider client |
| Provider client and cache, `dosweb/llm/deepseek.py`, `cache.py` | flights per process; cache entries, stripe locks and a capacity lock on disk | `classify_growth`, `classify_auth`; lookup, single flight, reservation, publication | the provider's HTTP endpoint; shared by threads and processes |
| CodeQL query runner, `dosweb/codeql/runner.py` | query generations on disk, owned descriptors, child processes with their readers | run, bound, publish or exchange, roll back | the databases, the executors |
| CodeQL query workspace, `dosweb/production.py` | a private directory below the output root, the descriptors and bindings of its levels and results | create, run a query, own its result, read its rows, isolate, close | query runner, executors |
| CodeQL databases, `dosweb/codeql/database.py`, `native_builder.py` | private clone of a database; a database under promotion | snapshot, verify, remove; build, promote | pipeline preflight and finalizer |
| Descriptor ownership, `dosweb/filesystem.py` | owned descriptors | acquire, transfer, close once | query runner, databases, cache |
| Plans and corpora, `dosweb/batch/plan.py`, `corpus.py` | the plan file | create or verify | batch runner |
| Extraction, schemas, decoding, reports, benchmark, selection, command line | finished files | conversions of one document into another | everything |

### Where it is hard

* **Crash and restart.** The pipeline replaces several files and then a checkpoint; the aggregation
  replaces a view and then a pointer; the batch runner may die with targets under way. Every pair of
  consecutive writes is a place to die.
* **Partial failure.** Rollbacks run inside failure handlers, which fail too. An interrupt is not an
  `Exception` and skips some of them.
* **Concurrency.** Worker threads and a signal handler share the batch state; threads and processes
  share the contract cache under three kinds of locks.
* **Processes that do not end.** A CodeQL command has children, pipes that its children keep open, reader
  threads, an output limit and a deadline, and its caller must come back whichever is first.
* **Others in the same directories.** The user may rename, replace or edit what the analyzer made, between any two
  of its system calls, and may take the names it is about to use.
* **Stale state.** Records may be older than the files they speak of, a first lookup is made without a
  lock, and the aggregation reads its targets before it takes its lock.
* **Decisions on incomplete evidence.** A verdict combines the results of five stages, each of
  which may be partial for its own reasons and for each of several paths.

`PROJECT.json` lists each hazard at its line under "hazards", with the properties that watch it.

### What makes each component right

* Pipeline: a checkpoint never runs ahead of its files, recorded stages are computed from the recorded
  upstream, a rollback restores, a completed record is backed by what is on disk, a resume executes only
  what changed, and what the caller sees agrees with `run.json`.
* Batch: each execution is counted before it starts, settled targets are left alone, an interruption is
  not overwritten by a late worker, *completed* is said only of complete batches, and the loop drains.
* Aggregation: readers see one generation, a pointer never precedes its view, files of others survive.
* Decisions: a determinate verdict is backed by complete evidence on every path, losing evidence never flips a
  verdict to the other determinate one nor makes it a rejection, a stage fails only for a reason that the evidence
  shows, and what the gates before the provider let through the checks after it can accept.
* Provider client: a caller is given the published contract of its key unless its flight asks for an entry again, always
  under the policy of its own client, a reserved slot stays free, published entries stay, and every call ends.
* Query runner: a call that raises leaves nothing under the normal name, a call that returns returns the
  directory it made, directories of others survive, and every descriptor and the lock are given back.
* Query workspace: a formal stage has read every query from the bytes that were published, what it keeps is what it
  read, an exploratory stage tells what it did not read, and the stage ends.
* Private database: an analysis works on the content that was validated, nothing of dead runs is there when it starts,
  nothing of its own when it ends well, directories of others survive.

## 2. Modules

| Module | Models | Checked by |
|---|---|---|
| `Pipeline` | `dosweb/pipeline.py` | `MCPipeline` |
| `PipelineProofs` | theorems about `Pipeline` | TLAPS |
| `BatchRunner` | `dosweb/batch/runner.py`, `state.py` | `MCBatchRunner` |
| `BatchRunnerProofs` | theorems about `BatchRunner` | TLAPS |
| `GrowthStage` | what the growth stage decides about one candidate: `growth/`, `production.py` | as part of `Conclusion` |
| `Conclusion` | extends `GrowthStage`; the decisions of `production.py`, `reachability/`, `flows/`, `lifecycle/`, `conclude/` | `MCConclusion` |
| `ConclusionProofs` | theorems about `Conclusion` | TLAPS |
| `ProviderClient` | `classify_*` of `llm/deepseek.py`, `llm/cache.py` | `MCProviderClient` |
| `ProviderClientProofs` | theorems about `ProviderClient` | TLAPS |
| `AggregatePublication` | `_publish_outputs`, `_recover_publication` of `batch/aggregate.py` | `MCAggregatePublication` |
| `AggregatePublicationProofs` | theorems about `AggregatePublication` | TLAPS |
| `QueryPublication` | `run_query` and its helpers of `codeql/runner.py`, renames and closes of `filesystem.py` | `MCQueryPublication` |
| `QueryPublicationInvariants` | extends `QueryPublication`; the inductive invariants of its proofs, and what relates the states before and after a part of a call | TLAPS |
| `QueryPublicationProofs` | theorems about `QueryPublication` | TLAPS |
| `BoundedProcess` | `_bounded_process`, `_terminate_group` of `codeql/runner.py` | as part of `QueryWorkspace` |
| `QueryWorkspace` | extends `BoundedProcess`; the query workspace and its callers in `production.py` | `MCQueryWorkspace` |
| `QueryWorkspaceProofs` | theorems about `QueryWorkspace` | TLAPS |
| `PrivateCopy` | abstract: what a private database promises to an analysis | as the property of `ExecutionSnapshot` |
| `ExecutionSnapshot` | the execution snapshot of `codeql/database.py`, preflight and finalizer of `production.py` | `MCExecutionSnapshot` |
| `ExecutionSnapshotProofs` | theorems about `ExecutionSnapshot`, its refinement of `PrivateCopy` among them | TLAPS |

Each operator with a comment that starts with "Mutant" is a plausible bug for the definition below it. `PROJECT.json`
lists them: replacing the definition by the mutant makes TLC report the property it is listed with.

### Pipeline

`runFile`, `manifest` and `art` are the files of one output directory; `lock` is the flock on
`.pipeline.lock`; the other variables are locals and attributes of `Pipeline.run` and `_publish` in each
process. `pc` says which call comes next. Every rename of `_publish` is an action (`Retire`, `Save`,
`Install`, `Chmod`, `SaveManifest`, `PutManifest`), and so is every rename of its rollback
(`UndoInstall`, `UndoBackup`, `UndoManifest`). The write of `run.json` (`WriteRun`) is atomic, may not
land, and may raise whether or not it landed. `OsError` fails the call a process is at, `Interrupt` is a
`KeyboardInterrupt`, which `_publish` does not roll back, `Kill` ends the process and frees its lock, and
`Edit` changes files while nobody holds the lock.

An artifact's content stands for its bytes, so digests identify contents. A stage's output is a function
from paths to contents and a fingerprint holds the outputs of all earlier stages. Left out: the
identity block and its hash, error texts and counts, timestamps other than the one that tells two
completions apart, the leftover temporary directory of a killed process, durability under power loss, and
interrupts inside the failure handlers. Stages own disjoint paths, as the executors' names do.

### BatchRunner

`disk` is `batch_state.json` and `dir` what a target directory proves; `state`, `flag` and `ids` are the
runner's attributes; `pc`, `pending`, `active` and `done` are the main thread in `run`; `wpc[t]` is the
worker of a target in `_run_target`. `held` is the state lock together with the record its holder is about
to write: `_update` decides under the lock (`Decide`) and publishes (`Update`), and a signal may come
between the two. The loop over the plan in `run` looks at one target a step (`ListTarget`, with `listed` the number
of those it has looked at), since a signal may fall between any two. The pipeline below a worker is an outcome: it returns, fails with a code of some class,
or escapes. `Signal` is the handler, `Mark` the marking of interrupted targets, `Kill` the end of
the process, `Edit` damage to a target directory between invocations.

Left out: the compatibility rows and the status files that repeat the records. One runner runs at a
time, since `batch_lock` refuses a second one. A target directory that is missing and one that is
partial are both "unfinished". An interrupt in `wait` is a signal followed by the marking, and one that comes
before the handlers are installed is a kill.

### GrowthStage and Conclusion

One Growth candidate, from the raw rows of the queries to its certificate. `GrowthStage` has the decisions of
the growth stage as operators: `Link` and `Association` (which Entry the rows of the association query, the flow query,
the source scan and the order in the source link the candidate to), `Canonicalized` (several registrations of one
handler), `Relevance`, `Maturation` and `Mature` (the four dispositions), the slice and the facts it has
(`SliceBuilt`, `ValueSpaceFact`, `RetentionFact`, `AmplificationFact`), what binds a contract to them (`Binds`)
and `VerifyGrowth`. `Conclusion` extends it with the pair: `AuthContext`, `Deployment`, `Reachability`,
`VerifyFlow`, `EvaluateGuard`, `EvaluateBound`, `EvaluateRelease`, `EvaluateAssertion1`, `EvaluateAssertion2`,
`DeriveVerdict`, `ProofGate`, `CertificateAccepts`. The stages are the actions: `AssociationFails`, `Dismiss`
and `Growth` are the growth stage, then `Flows`, `Lifecycle` and `Conclude`.

The evidence of a run (`ev`) is what the queries, the extractors and the provider found. A candidate's notes are the
markers that the code looks for, a lifecycle candidate is the set of reasons against it (empty: effective), a
path has the demand it controls and the gaps of its proof, and the provider's answer is any contract, its claim
about the Entry any context. `Rerun` is not code: it runs the analyzer again with something lost (`Weaker`), to see
what a verdict owes to each part of the evidence. What is lost is lost as the queries lose it: a row that
says that its loop is not modelled is, for a direct allocation, also a partial one (`DirectAllocation.ql:126`).

All paths of a pair are linked to the same lifecycle candidates. The growth and the flows stage run
the same flow query on the same database and are given the same rows. The security facts are those of the canonical
Entry. The limit of 64 links per candidate is out of reach of two entries. `FormalIsVerifiable` has an exception that the
code has too: a container of request scope without a key is eligible, and its own facts say low amplification.
So has `LossNeverRejects`: a direct allocation whose rows find its size both attacker-driven and the server's is examined, and
rejected once the first of the two rows is gone (`relevance.py:194`). A rejection is not said to be proven by every row: one row
with a fixed key, a server-side file or a finite key space rejects a complete candidate whatever its others say
(`relevance.py:207`), which is what `Harmless` has.

### ProviderClient

Threads of several processes ask for keys, Growth keys or Auth keys. `flight[t]` is the owner of the flight a thread
joined, `mail[t]` what a finished flight left for a waiter, `entry[k]` the cache entry: none, a contract, `Foreign`
(does not authenticate) or `Stale` (authentic, but cites facts the slice no longer has), `memo` the `_auth_cache` of each
client, `Refused` the contracts that the policy of a client does not accept. A call looks up without a
lock, joins a flight, and as its owner takes the stripe lock, looks again, reserves a slot under the
capacity lock, posts with retries and one correction, publishes with `os.link`, which never replaces,
finishes the flight and releases the locks. A read of the cache that fails is a miss.

Under the lock the owner of a Growth key reads twice, and each read opens the directory itself and may fail alone: `Recheck` is
`snapshot()` (`deepseek.py:657`), which also asks whether the entry fits the slice, and `Authenticate` is
`authenticated_snapshot()` (`deepseek.py:676`), which does not. An entry that only the second finds (`authentic`) is asked for
again, whether it is out of date or the first read merely failed; the new answer is shared by the flight and not published
(`deepseek.py:762`). When the second finds none either and there is one all the same, the reservation reports a conflict. An
Auth key is read once. `misread` counts the reads under the lock that failed, for the properties only: `AskedAgain` and `Unusable`
say by it which flights may have an answer of their own, and which may see a conflict.

Failures unwind through the same `finally` clauses; which of them a waiter may report is decided as in the code, the others make
it try itself. `Interrupt` hits main threads in
blocking calls, `Kill` ends a process and frees its flocks.

Left out: the byte limit of the cache, leftover temporary files, and an asynchronous exception between
`_join_inflight` and the `try`. The thread lock and the flock of each lock are one lock. Locks are not granted in
order; the number of calls is bounded, so nobody starves for ever. The keys of
others (`Keys \ Asked`) only take room.

### AggregatePublication

`view` is what readers of the batch root see, `gens` the generation directories, `pointer` and `owner` the
two control files. A version stands for what the targets contribute, and is read before the lock is taken.
`Recover` rewrites the files that differ from the current generation, `Check` refuses what it
cannot prove to be its own, `StageGeneration`, `Write`, `Point` and `Own` publish. The two formats share a file,
`aggregate_status.jsonl` (`aggregate.py:899`), so a change of format rewrites it and deletes nothing of that name.
`Abort` is an `OSError`, an
interrupt or a kill at any step: the three leave the same files. Leftover `.pending` directories are ignored. `Edit` changes the
view, a generation or a control file while the lock is free.

### QueryPublication

One call of `run_query`. `q.where` says which name of `.generations` each directory has (the generation, the
rollback slot, the exchange probe, directories of somebody else), `q.open` which descriptors are open, `q.set`
which fields of `_PublicationReplaceState` and which locals of `run_query` are set. The body and the `finally` are
steps, in the order of the code. Within a step much may fail: the parts of a step are therefore operators from
a state to the set of states they may end in, with `err` for an exception, put together by `Then` and `Except`. Every
system call, validation and deadline check may fail (`Faults`); a rename may also take effect and raise; a close may
fail before or after it acted. `Outside` is another process of the same user that renames what a name
holds, or takes the name, between two calls. `EscapeBefore` and `EscapeAfter` are failures of
`run_with_deferred_interrupts` before and after `release_owned_state`.

`first` and `edited` record the step of the first failure and of the first outside rename, for the properties only.

Left out: the CodeQL command itself, which succeeds or fails as a step (`BoundedProcess` has it), the decoder,
the contents of files, and the collision of fresh random names.

### BoundedProcess and QueryWorkspace

`BoundedProcess` is one CodeQL command. The leader may start children, which may leave its process group and may keep
the pipes; two readers are inside `read()` or between two of them; the caller polls for the output limit,
the deadline and the end, terminates, kills, joins, closes and returns. Closing a stream waits for a reader that is
inside `read()`. `Held` is the one state in which the caller waits for a process that its signals do not
reach: a child that left the group has a pipe, or an interrupt skipped the signals.

`QueryWorkspace` extends it: the executor opens the levels of a private directory (`OpenLevel`), runs the command of each
query of its plan (`StartQuery`, `RunCommand`), is given a bound generation or a failure that may
leave a hidden one (`Publish`, `QueryFails`: the outcomes that `QueryPublication` allows), registers the binding
(`OwnResult`), reads the rows through it (`ReadPayload`, `Decode`), and then takes inventory, isolates
and closes, twice. The three modes are a family of a formal stage, the formal and the exploratory entries
stage. Others move any level, the `.generations` directory or a decoded file, and may put it back. They act
before or after a command, not while it runs: nothing of the workspace that is modelled is read meanwhile, so
the later change is the same change. `Forget` clears what a finished command leaves in the variables, since nobody looks at it again.

### PrivateCopy and ExecutionSnapshot

`PrivateCopy` is the promise in five actions: ask, clean, grant, end well, end badly. `ExecutionSnapshot` is
the code: preflight validates the canonical database (`Preflight`), the factory opens the output root, removes what dead
runs left (`ScanStale`, `RemoveStale` and the three steps of `_remove_private_tree_at`), makes and opens a random
directory, clones file by file (`CopyFile`), validates both trees again and registers its owner; the finalizer or
`cleanup_failed_factory` removes the directory and releases the descriptors. Each step may fail, an interrupt may
fall between a call and the assignment of its result, and `Kill` may leave a CodeQL process that still writes into the dead run's
tree. Others replace or edit the canonical database, and change it back, and take a private name.

The mapping: `asked` is the tree that was validated, `held` the content handed to the stages, `left` that a
directory of another run than the one in progress has a name with the private prefix, or, when none is in progress, of any run.
One run of an output root is in progress at a time, because the pipeline's lock excludes a second.

## 3. Runs

The bounds are `CONSTANTS`, named `Max...` where they only bound the exploration; no definition is replaced. Deadlock is not
checked because a system in which nobody starts another run may stop; that nobody is stuck in the middle
is what the liveness properties say. State counts are distinct states.

| Run | Instance | Shows |
|---|---|---|
| `pipeline_recovery` | 2 processes, 2 stages, 2 paths (1 private), 2 report configurations, 2 starts, 1 fault; 0.3 M states | rollback, chain of upstream hashes, minimal re-execution, honest outcome, completion backed by files under contention, every run ends |
| `batch_recovery` | a paused and 2 normal targets, 2 workers, 2 attempts, 2 invocations, 1 fault, 1 signal; 0.8 M | attempts counted, settled records kept, sticky interruptions, honest completion, no eligible target left behind, a started batch ends |
| `batch_budget` | 1 target, 1 attempt, 2 invocations, 1 signal | finding 1 |
| `conclusion` | 2 paths, 2 entries, seven families of evidence; 1 loss of evidence; 1.2 M | determinate verdicts proven, formal candidates verifiable, failures explained, fail-closed, a loss does not reject |
| `conclusion_sibling` | 2 paths, no rerun | finding 2 |
| `client_sharing` | 3 threads in 2 processes, a Growth and an Auth key in 2 stripes and one that nobody asks for, 2 contracts one of which a client refuses, room for 2 entries, 18 first contents, 2 retries, 3 calls, 1 fault; 0.8 M | reservation, agreement on the published contract and own policy but for flights that ask for an entry again, conflicts only over unusable entries, entries stay, every call ends |
| `aggregate_recovery` | 2 processes, 2 formats that share a file, 3 runs, 2 versions, 1 fault, 1 edit; 0.3 M | one generation, view before pointer, files of others kept, refusals explained |
| `aggregate_crash` | 1 process, 2 runs, 1 fault | finding 3 |
| `query_recovery` | with and without output binding, 3 faults, 1 outside rename; 81 k | a failed call hides its generation, a returned one is its own and as it was published, foreign directories kept, nothing leaked |
| `query_binding` | 1 fault | finding 4 |
| `snapshot_recovery` | 3 runs, 2 inodes for the canonical path, 2 files, 2 versions, 1 foreign directory, at most 2 stale directories, 3 mishaps; 0.2 M after symmetry | the snapshot implements `PrivateCopy`, foreign directories kept, descriptors returned |
| `workspace_recovery` | 2 queries (1 sidecar), 3 modes, 1 child, 2 streams, 1 chunk, 2 mishaps; 0.5 M | formal stages complete and what is kept is what was read, nothing untold, success is quiet, the stage ends |

Why the bounds are enough to be of interest: a second start after a fault or an edit at
every point of the first covers each pair of interrupted run and resume. Two files are enough for an old, a new
and a missing one to stand side by side. Two stages are enough for one that
keeps its record while the other is computed again, and the chain is proved for any number. Three faults are the first failure of a
query and the failure of the first two of its three ways to hide a generation. Two workers, one signal and a
second invocation reach every interleaving of an update, the marking and a resume. Two threads of one process and one of another
reach flights, stripes and the capacity lock at once. At first the cache is full, or has one
slot left beside an entry of a key that nobody asks for (two callers then race for the slot) or beside a Growth entry that
authenticates (which may then be asked for again, when it is out of date or when the first of the two reads under the lock fails).
That both reads fail takes a second fault and is left to the proof. The families of `MCConclusion` vary one part of the evidence at a
time while the rest is complete, and the rerun takes one more thing away. Three runs on one output root are a run that
dies, one that dies while it removes the first one's directory, and one that must remove both; three mishaps are what it takes to change a
database, change it back and fail. Two queries are one that is published while the other is still to come, the second a
sidecar; two mishaps are a change and its undoing, or a change and a failed call.

Symmetry is used in `snapshot_recovery` only (runs, roots and versions are interchangeable), which has no liveness property.

Fairness: a fair specification assumes nothing of faults, signals, edits or new starts.
`Pipeline` and `ProviderClient` assume weak fairness of each process's or thread's own next step; `BatchRunner` assumes
it of the steps of main thread and workers together, which is less: that somebody who can go on does.
`QueryWorkspace` assumes it of the executor, of the caller and of each reader of a command, and of the clock; nothing of the command, which may run, write and
keep its pipes for ever. The operating system schedules every thread, `flock` and `threading.Lock`
grant a free lock to somebody, the transport has a deadline for every request, and CodeQL
processes have a timeout; a step that is always possible is therefore taken. Since the number of starts and
calls is bounded, a waiter that is overtaken only finitely often gets its lock under weak fairness.
`StageEnds` has a premise, that `Held` does not last: see the observations below.

## 4. Proofs

Eight of the modules have their theorems and proofs beside them, in `...Proofs`. Each theorem holds for every value of the
constants that the assumptions of its module allow, so the bounds of the runs (`Max...`) are any natural numbers in it. The
assumptions say what the code makes sure of, or what a name means, and TLC evaluates them in every run:

| Module | Assumptions |
|---|---|
| `Pipeline` | `StagesAssumption` (at least one stage), `PathsAssumption` (paths can be told apart, some are private), `OutputsAssumption` (a stage publishes something), `NoFileAssumption` (absent is not a content), `BoundsAssumption` |
| `BatchRunner` | `PlanAssumption` (every target is in the plan, once: `batch/plan.py:388` refuses a duplicate), `TargetsAssumption`, `LimitsAssumption` (the limits that the constructor enforces, `batch/runner.py:169`), `BoundsAssumption` |
| `ProviderClient` | `ClientAssumption` (every thread has a process, every key a stripe; what is asked for is among the keys, what is found is a cache of them) |
| `AggregatePublication` | `FilesAssumption` (the formats share a file), `ValuesAssumption`, `BoundsAssumption` |
| `QueryPublication` | `QueryAssumption` (somebody else's directories are other ones) |
| `BoundedProcess`, `QueryWorkspace` | `ProcessAssumption` (there is a stream to read), `PlanAssumption` (no query twice in a plan) |
| `ExecutionSnapshot` | `SnapshotAssumption` (a database has a file; the names of runs and of others differ) |
| `GrowthStage`, `Conclusion` | `FiniteAssumption` (finitely many paths and entries), `PathsAssumption`, `EntriesAssumption` (there are some), `InputsAssumption` (what is enumerated is evidence), `RunsAssumption` |

Every proof has the same shape. A property is seldom inductive as it stands, so a module first defines an inductive
invariant as a conjunction of named parts, then has one lemma per action that the action keeps it, a theorem or lemma that
puts these together, and theorems that take the properties from it. An action property is proved of a step between two
states that satisfy the invariant.

* **`PipelineProofs`**: `TypeCorrect`, `ChainHolds`, `RollbackHolds`, `ExitHolds`, `OnlyChangedReexecuted`,
  `CompletedVerified`. Types alone are not inductive: that a process installs a path of the output it staged, or checkpoints
  a completed stage, depends on where it is. `Control(p)` relates each step to what the process holds. The chain is a fact
  about `run.json`, but it is written from memory, so `Link(p)` says the same of the record in memory and more where a
  write is coming: the hashes of the stages passed are the recorded ones, and from the stage under execution on nothing is
  completed (`CommitChain` is the core, `ChainedPrefix` what invalidation and failure need). For the rollback, `FilesInv`
  says for each path where the old file, the new one and the backup stand at every rename. That nothing unchanged is executed again
  rests on what an untouched full run leaves, that a completed run is verified on the digests each stage of
  the loop compared while it held the lock.
* **`BatchRunnerProofs`**: `AttemptsCounted`, `NobodyForgotten`, `InterruptionStays`, `FinishedIsBacked`, `SettledStays`. The
  invariant says what the main thread has in memory and how far the file is behind it (`Early`, `Documented`), which
  worker has which target (`Threads`, `Queue`), where a target stands that may run again (`Wanted`: queued, under way or about to be
  reaped), what the holder of the lock may be about to write (`Holding`), how executions, attempts and signals add up (`Accounts`),
  and which records were settled when the invocation began (`Coverage`).
* **`ProviderClientProofs`**: `ReservationIsKept`, `OneContractPerKey`, `OwnPolicy`, `ConflictIsUnusable`, `CacheOnlyGrows`. The
  argument is mutual exclusion: `Locked` says which locks a step has, `Reserved` what follows from them for the key and the
  room of the cache, `Flying` that a flight has an owner of the same process and key that is still to finish it, and `Given` and
  `Mailed` that what is handed out, remembered or left for a waiter is the published contract, or that the flight it is from asked for
  the entry again. `Asking` says what each of the two reads under the lock has left behind: that an entry is asked for again only
  when it is authentic, and is out of date or was missed by the first read. `Failing` and `Ended` do the
  same for errors.
* **`AggregatePublicationProofs`**: `ReturnedViewIsOwn`, `RefusalsExplained`, `PointerFollowsView`, `ForeignFilesSafe`. `Publishing(p)`
  says what whoever has the lock has written of the generation it is at. Of a root that nobody edited more holds (`Unedited`,
  `Succeeding`, `Explained`): the marker follows the pointer, generations stay as they are, and a repair that is through
  left the current generation; this is what explains a refusal.
* **`QueryPublicationProofs`**: `EverythingGivenBack`, `ReturnsWhatItPublished`, `RaisesOnlyHidden` and `ForeignPutBack`. Their
  invariants and the relations between states they are built from are in `QueryPublicationInvariants`. The calls
  may go on failing and somebody else may go on renaming as long as they like; the last two say themselves how much of it they bear.
  Most of the first are
  lemmas about the parts of a step, each of which is a set of states it may end in: whatever a rollback, recovery or isolation
  meets, it opens and closes nothing and touches only the flags it is about (`Same`), a release closes its own descriptor and no
  other (`ReleaseCloses`), a step of the body opens at most its own (`Grown`). A call without the final anchor leaves the finally
  before most of the releases; the invariant `Held` says that there is then nothing they would have released
  (`Anchored`), what each release has left behind it (`Released`), and that what is open at the end is the binding of a call whose
  caller wants it and in which nothing failed (`Final`). `Then` and `Except` take operators, which no prover is given: each use is first
  turned into a statement about membership. The invariant of the second is `Smooth`, about a call that may still return:
  its directories are where the step before left them (`Placed`), or somebody else took one away, or put another one under the name
  the generation had (`Astray`), which a check still to come finds; `Course` says which for every label.
  Nothing has to be said of the names once something failed: such a call is `Doomed`, and every step leaves it so until it raises.
  The other two share the invariant `Backed`, on top of the first two. Its part `Sunk` is the claim itself at every label: a
  generation that is still shown after few enough failures is going to be undone, that is, a rollback is still to come and is
  required (`Pressing`). What makes it inductive is the price of the rollback: `RecoveryCosts` counts that a recovery leaves the
  generation shown only if the rollback, the recovery and the last isolation each saw something fail, which with the failure that
  called for it makes four. That count needs the slot at hand or retired (`Afloat`), the descriptors the recovery goes
  through open wherever it may be needed (`Supplied`: why the output binding is the last resort for the slot), and that
  a call that notes a failure had one (`Told`): so where nothing failed before the slot is retired, a retirement that fails has cost a
  failure already (`RetiredCosts`). With a rename by somebody else and no failure the same steps are followed with the count at nothing.
  `Tame` is where his directories are: a step may not move them (`Gentle`), or, where it isolates what it finds, puts back what it caught.
* **`QueryWorkspaceProofs`**: `ReturnedIsComplete`, `AuditKeepsWhatWasRead`, `ExploratoryTells`, `AcceptedIsQuiet`. `Quiet` is about
  the command: a reader that ended by itself saw the end of the pipes or too much output. The others are about the stage: what
  is said by the position in the plan (`Position`, `Progress`), which bindings are owned (`Owning`), what the inventory
  found (`Sealing`) and what the cleanup concluded from it (`Concluded`).
* **`ExecutionSnapshotProofs`**: `Implements` (initial states of `ExecutionSnapshot` are initial states of `PrivateCopy`, and
  every step is one of its steps or a stutter), `DescriptorsGivenBack`, `OthersUntouched`. The mapping needs that the directory of
  a run keeps the name the run gave it unless somebody else took it (`Places`, `Removal`), that nothing of a dead run is left
  once the scan is through (`Swept`), and that the clone is of the validated content from the second validation on (`Factory`,
  `Granted`); `Descriptors` says which releases are still to come.
* **`ConclusionProofs`**: `VerdictsAreProven`, `FailuresAreExplained`, `FormalCanBeVerified`,
  `VerdictsFailClosed`, `LossesNeverReject`, for every evidence the types allow, where the run enumerates seven families of it. The invariant says of each
  stage what its result proves (`Growing`, `Flowing`, `Living`, `Concluding`).
  Fail-closed relates two runs, and the invariant for it (`Fate`) says that a verdict is a function of the evidence
  wherever it is determinate: with `Good(e)` evidence a run reaches `Outcome(e)` (`Coming`), a
  determinate verdict was earned by good evidence (`Earned`), and the run before came to its outcome as well (`Past`).
  What remains is `Monotone`, a lemma about two evidences: when a weaker one is good, the stronger one is good and
  has the same outcome. Its proof goes through the ways to lose something. Most of them contradict that the weaker evidence is
  good; a note or a gap that does not matter leaves association and verification alike (`AlikeAssociated`,
  `AlikeVerified`, `Promised`); a guard, bound or release candidate that got one more reason against it leaves those that are
  effective (`GuardKept`, `BoundKept`, `ReleaseKept`). That a loss does not reject has an invariant of its own (`Pardon`): the
  growth stage rejects only `Rejectable` evidence and lets none through (`GrowthRejects`: where the only context or the only gate
  puts a pair out of reach, every claim finds so), and no loss makes evidence rejectable but in the one shape
  (`LostIsNotHeldAgainst`).

Two things came up in the proofs. `FailClosed` does not hold when a loop nobody modelled leaves the row of a direct
allocation complete; the query does not leave it complete (`DirectAllocation.ql:126`), and the model of the loss was completed. And
the proofs about unedited roots use that the formats share a file: whatever an aggregation published without its marker, the
ownership test finds some of it under a name of either format.

Only model-checked: the liveness properties (`Termination` of `Pipeline` and `BatchRunner`, `CallsEnd`, `StageEnds`: ENABLED and
fairness are out of the prover's reach). The bounds in `FailureHides` and `ForeignKept` of `QueryPublication`, three failures or one
rename by somebody else, are part of the properties and so of their theorems: a fourth failure may be that of the last
fallback, and several renames can undo each other. The four runs that expect a violation refute what they check; nothing is proved
of them.

## 5. Findings

1. `batch_budget`: a signal between the submission of a target and its worker's first update makes the
   worker run its pipeline without recording the attempt, so a resumed batch may exceed `max_attempts`.
2. `conclusion_sibling`: a pair with a proven and a partial path fails the conclude stage instead of
   getting a `static_unknown` certificate.
3. `aggregate_crash`: a crash in the first publication leaves files without the ownership marker, and
   every later aggregation refuses them.
4. `query_binding`: drift that only the output binding finds, after the commit, makes `run_query` fail
   and leaves the generation under its normal name.

A first publication that crashed in one format (finding 3) also makes the aggregations in the other format refuse, because of
the file that the formats share.

Also met: when the `chmod` of a new private artifact fails (`pipeline.py:496`), the rollback does not know of
the file and leaves it behind, which is why `RollbackRestores` excepts new private files. A good cache entry that the first of the two
reads under the lock misses is asked for again, and one flight gets an answer that nobody else will find; nothing in the repository
says that it must not. An interrupt between
`_join_inflight` and the `try` of `classify_growth` (`deepseek.py:652`) would leave a flight without an owner. A
view file that somebody changed is overwritten by the recovery (`aggregate.py:882`) before the
test that should fail closed on it (`aggregate.py:967`) looks. `NewFilesKept` states what remains true: a file under a
name that the current generation does not have is never replaced. Of two concurrent aggregations
the one that read earlier may publish later; the repository promises nothing about that. A CodeQL command whose child leaves the
process group with a pipe, or that is interrupted by a `KeyboardInterrupt`, which skips `_terminate_group`
(`codeql/runner.py:590`), makes the `finally` clause wait in `stream.close()` (`codeql/runner.py:596`) for as long as that
process has the pipe; `tests/test_codeql_adapter.py:2933` tests a child that stays in the group. `StageEnds`
therefore excepts the other two. When one flow row of a candidate comes from another handler than its
canonical one, the flows stage fails for every pair (`flows/models.py:298`); `FailuresExplained` says when.

## 6. Not modelled, and the plan

Not modelled by intent: parsing of Java, XML, properties and YAML, prompts, redaction and schemas, decoding
of BQRS, rendering of reports, the command line. They are conversions of one document without
state, and enter the models as evidence, contents and outcomes. The native builder of the repair script is
modelled by what it does to the canonical database (it is gone, or another inode is there). Owned descriptors are modelled
where they are used (`QueryPublication`, `QueryWorkspace`, `ExecutionSnapshot`: a release acts, fails, or fails without
acting); the deferral of signals inside `filesystem.py` that makes these the only cases is assumed.

Done: `Pipeline`, `BatchRunner`, `GrowthStage` and `Conclusion`, `ProviderClient`, `AggregatePublication`, `BoundedProcess` and
`QueryWorkspace`, `PrivateCopy` and `ExecutionSnapshot`, and `QueryPublication`, each with its proofs.

To come, in this order:

1. An abstract batch (each target is settled once, by a pipeline that completed) implemented by `BatchRunner`, and
   a composition of `BatchRunner` with the outcomes that `Pipeline` allows.
2. Owned descriptors of `filesystem.py`: closed exactly once whatever interrupt falls where.
3. Pure decisions as operators against a reference: link reconciliation of the aggregation, benchmark matching.
4. Small transactions: the rendering of `top50/selection.py`, the promotion of `native_builder.py`, create-or-verify of `batch/plan.py`.
