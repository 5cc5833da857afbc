------------------------ MODULE AggregatePublication ------------------------
(***************************************************************************)
(* How the aggregation of a batch is published: _publish_outputs and       *)
(* _recover_publication of dosweb/batch/aggregate.py.                      *)
(*                                                                         *)
(* The batch root shows one set of files, the view, to its readers.  Every *)
(* publication first installs a generation directory with the same files   *)
(* and their digests, then replaces the view file by file, then points     *)
(* .aggregate-current.json to the generation and marks the view as owned   *)
(* in .aggregate-owned.json.  The next aggregation repairs what a crash    *)
(* left, and refuses to replace what it cannot prove to be its own.        *)
(*                                                                         *)
(* What the targets contribute is a version: it grows as the batch goes    *)
(* on, and an aggregation reads it before it takes the lock.  The content  *)
(* of a file stands for its digest.                                        *)
(***************************************************************************)
EXTENDS Naturals, Sequences

CONSTANTS
    Procs,        \* processes that aggregate
    Names,        \* files of the view, numbered in the order they are written
    Formats,      \* historical, p0
    Files,        \* Files[f]: the files of a format
    NoFile,       \* what a name holds when no file is there
    Alien,        \* the content of a file nobody here wrote
    NoProc,       \* owner of the lock when it is free
    MaxRuns,      \* bound: how many times the aggregation is started
    MaxVersions,  \* bound: versions of the batch
    MaxFaults,    \* bound: errors, interrupts, kills
    MaxEdits      \* bound: outside edits

\* What an aggregation publishes, by the format and by the version it has read.
Outputs == [format : Formats, version : 0..MaxVersions]

\* The formats have files in common, aggregate_status.jsonl for one.
ASSUME FilesAssumption ==
    /\ Names \subseteq Nat /\ Formats # {}
    /\ Files \in [Formats -> SUBSET Names]
    /\ \A f, g \in Formats : Files[f] \cap Files[g] # {}
ASSUME ValuesAssumption ==
    NoFile # Alien /\ {NoFile, Alien} \cap Outputs = {} /\ NoProc \notin Procs
ASSUME BoundsAssumption ==
    MaxRuns \in Nat /\ MaxVersions \in Nat /\ MaxFaults \in Nat /\ MaxEdits \in Nat

VARIABLES
    view,     \* the files in the batch root
    gens,     \* .aggregate-generations, in the order of their publication
    pointer,  \* the generation of .aggregate-current.json; 0: no such file
    owner,    \* .aggregate-owned.json: absent, ours, foreign
    lock,     \* holder of .aggregate.lock
    pc,       \* where each process is
    output,   \* what it will publish: a format and a version
    todo,     \* the names it still has to repair or to write
    version,  \* the version of the batch
    runs, faults, edits

local == <<pc, output, todo>>
bounds == <<runs, faults, edits>>
vars == <<view, gens, pointer, owner, lock, local, version, bounds>>

-----------------------------------------------------------------------------

\* A generation is damaged when a file of it does not have its digest, lost
\* when its manifest cannot be read.
Generations == [out : Outputs, state : {"intact", "damaged", "lost"}]

NamesOf(out) == Files[out.format]

Least(S) == CHOOSE n \in S : \A m \in S : n <= m

Init ==
    /\ view \in [Names -> {NoFile, Alien}]
    /\ gens = <<>>
    /\ pointer = 0
    /\ owner = "absent"
    /\ lock = NoProc
    /\ pc = [p \in Procs |-> "idle"]
    /\ output \in [Procs -> {CHOOSE o \in Outputs : TRUE}]
    /\ todo = [p \in Procs |-> {}]
    /\ version = 0
    /\ runs = 0 /\ faults = 0 /\ edits = 0

Goto(p, label) == pc' = [pc EXCEPT ![p] = label]

\* The end of _publish_outputs, by a return or an exception.
Leave(p, label) == Goto(p, label) /\ lock' = NoProc

-----------------------------------------------------------------------------
(* Aggregation.                                                            *)

\* aggregate reads the targets without a lock.
Start(p, f) ==
    /\ pc[p] \in {"idle", "done", "refused", "failed"}
    /\ runs < MaxRuns
    /\ runs' = runs + 1
    /\ output' = [output EXCEPT ![p] = [format |-> f, version |-> version]]
    /\ Goto(p, "lock")
    /\ UNCHANGED <<view, gens, pointer, owner, lock, todo, version, faults, edits>>

\* Mutant: nothing is repaired.
UnrepairedNothing == {}

\* _recover_publication: the files of the current generation that the view does
\* not show, if every file of it has its digest.
Unrepaired ==
    IF pointer # 0 /\ gens[pointer].state = "intact"
    THEN {n \in NamesOf(gens[pointer].out) : view[n] # gens[pointer].out}
    ELSE {}

\* Mutant: no lock.
AcquireFreely(p) ==
    /\ pc[p] = "lock"
    /\ lock' = p
    /\ todo' = [todo EXCEPT ![p] = Unrepaired]
    /\ Goto(p, "recover")
    /\ UNCHANGED <<view, gens, pointer, owner, output, version, bounds>>

\* batch_lock on .aggregate.lock, and the tests of _recover_publication.
Acquire(p) ==
    /\ pc[p] = "lock"
    /\ lock = NoProc
    /\ lock' = p
    /\ todo' = [todo EXCEPT ![p] = Unrepaired]
    /\ Goto(p, "recover")
    /\ UNCHANGED <<view, gens, pointer, owner, output, version, bounds>>

\* The loop of _recover_publication, in the order of the manifest, which is not
\* the one the files are written in; what it raises is swallowed.
Recover(p) ==
    /\ pc[p] = "recover"
    /\ \/ /\ \E n \in todo[p] :
               /\ view' = [view EXCEPT ![n] = gens[pointer].out]
               /\ todo' = [todo EXCEPT ![p] = @ \ {n}]
          /\ UNCHANGED <<pc, faults>>
       \/ /\ todo[p] = {}
          /\ Goto(p, "check")
          /\ UNCHANGED <<view, todo, faults>>
       \/ /\ todo[p] # {}
          /\ faults < MaxFaults
          /\ faults' = faults + 1
          /\ Goto(p, "check")
          /\ UNCHANGED <<view, todo>>
    /\ UNCHANGED <<gens, pointer, owner, lock, output, version, runs, edits>>

-----------------------------------------------------------------------------
(* Ownership.                                                              *)

Present(names) == {n \in names : view[n] # NoFile}

\* A file of the view that is neither of the current generation nor what is
\* about to be written.
Tampered(o) ==
    \E n \in Present(NamesOf(o)) :
        /\ view[n] # o
        /\ n \in NamesOf(gens[pointer].out) => view[n] # gens[pointer].out

\* Mutant: a change of format is not looked at.
LeftBehindIgnored(o) == FALSE

\* Files of the current generation that the new format would leave behind.
LeftBehind(o) ==
    gens[pointer].out.format # o.format
    /\ Present(NamesOf(gens[pointer].out) \ NamesOf(o)) # {}

\* Mutant: a view without a marker is taken over.
RefusesWithMarker(o) ==
    \/ owner = "foreign"
    \/ /\ owner = "ours"
       /\ pointer = 0 \/ gens[pointer].state = "lost" \/ Tampered(o) \/ LeftBehind(o)
       /\ Present(NamesOf(o)) # {}

\* The tests before a publication.  The handler of the tests of an owned view
\* raises again only if a file would be replaced.
Refuses(o) ==
    \/ owner = "foreign"
    \/ owner = "absent" /\ (pointer # 0 \/ Present(NamesOf(o)) # {})
    \/ /\ owner = "ours"
       /\ pointer = 0 \/ gens[pointer].state = "lost" \/ Tampered(o) \/ LeftBehind(o)
       /\ Present(NamesOf(o)) # {}

Check(p) ==
    /\ pc[p] = "check"
    /\ IF Refuses(output[p]) THEN Leave(p, "refused")
       ELSE Goto(p, "stage") /\ UNCHANGED lock
    /\ UNCHANGED <<view, gens, pointer, owner, output, todo, version, bounds>>

-----------------------------------------------------------------------------
(* Publication.                                                            *)

\* The generation directory appears with one rename.
StageGeneration(p) ==
    /\ pc[p] = "stage"
    /\ gens' = Append(gens, [out |-> output[p], state |-> "intact"])
    /\ todo' = [todo EXCEPT ![p] = NamesOf(output[p])]
    /\ Goto(p, "write")
    /\ UNCHANGED <<view, pointer, owner, lock, output, version, bounds>>

\* Mutant: the pointer moves on before the last file of the view is there.
AfterWriteEarly(p, n) == IF \E m \in todo[p] : todo[p] \subseteq {n, m} THEN "point" ELSE "write"

AfterWrite(p, n) == IF todo[p] = {n} THEN "point" ELSE "write"

Write(p) ==
    /\ pc[p] = "write"
    /\ LET n == Least(todo[p]) IN
         /\ view' = [view EXCEPT ![n] = output[p]]
         /\ todo' = [todo EXCEPT ![p] = @ \ {n}]
         /\ Goto(p, AfterWrite(p, n))
    /\ UNCHANGED <<gens, pointer, owner, lock, output, version, bounds>>

Point(p) ==
    /\ pc[p] = "point"
    /\ pointer' = Len(gens)
    /\ Goto(p, "own")
    /\ UNCHANGED <<view, gens, owner, lock, output, todo, version, bounds>>

\* Mutant: the lock is released before the aggregation is over.
OwnUnlocked(p) ==
    /\ pc[p] = "own"
    /\ owner' = "ours"
    /\ Leave(p, "return")
    /\ UNCHANGED <<view, gens, pointer, output, todo, version, bounds>>

Own(p) ==
    /\ pc[p] = "own"
    /\ owner' = "ours"
    /\ Goto(p, "return")
    /\ UNCHANGED <<view, gens, pointer, lock, output, todo, version, bounds>>

Return(p) ==
    /\ pc[p] = "return"
    /\ Leave(p, "done")
    /\ UNCHANGED <<view, gens, pointer, owner, output, todo, version, bounds>>

Step(p) ==
    \/ Acquire(p) \/ Recover(p) \/ Check(p)
    \/ StageGeneration(p) \/ Write(p) \/ Point(p) \/ Own(p) \/ Return(p)

-----------------------------------------------------------------------------
(* The environment.                                                        *)

\* An error, an interrupt or a kill between two writes.
Abort(p) ==
    /\ pc[p] \notin {"idle", "done", "refused", "failed", "lock"}
    /\ faults < MaxFaults
    /\ faults' = faults + 1
    /\ Leave(p, "failed")
    /\ UNCHANGED <<view, gens, pointer, owner, output, todo, version, runs, edits>>

\* The batch goes on.
Progress ==
    /\ version < MaxVersions
    /\ version' = version + 1
    /\ UNCHANGED <<view, gens, pointer, owner, lock, local, bounds>>

\* Somebody changes or removes a file while nobody aggregates.
Edit ==
    /\ lock = NoProc
    /\ edits < MaxEdits
    /\ edits' = edits + 1
    /\ \/ /\ \E n \in Names, c \in {NoFile, Alien} : view' = [view EXCEPT ![n] = c]
          /\ UNCHANGED <<gens, pointer, owner>>
       \/ /\ pointer # 0
          /\ \E s \in {"damaged", "lost"} : gens' = [gens EXCEPT ![pointer].state = s]
          /\ UNCHANGED <<view, pointer, owner>>
       \/ /\ pointer' = 0
          /\ UNCHANGED <<view, gens, owner>>
       \/ /\ owner' \in {"absent", "foreign"}
          /\ UNCHANGED <<view, gens, pointer>>
    /\ UNCHANGED <<lock, local, version, runs, faults>>

Next ==
    \/ \E p \in Procs : (\E f \in Formats : Start(p, f)) \/ Step(p) \/ Abort(p)
    \/ Progress
    \/ Edit

Spec == Init /\ [][Next]_vars

-----------------------------------------------------------------------------
(* Properties.                                                             *)

\* Every variable keeps its type; the pointer is to a generation that is there.
TypeOK ==
    /\ view \in [Names -> Outputs \cup {NoFile, Alien}]
    /\ gens \in Seq(Generations)
    /\ pointer \in 0..Len(gens)
    /\ owner \in {"absent", "ours", "foreign"}
    /\ lock \in Procs \cup {NoProc}
    /\ pc \in [Procs -> {"idle", "lock", "recover", "check", "stage", "write", "point",
                         "own", "return", "done", "refused", "failed"}]
    /\ output \in [Procs -> Outputs]
    /\ todo \in [Procs -> SUBSET Names]
    /\ version \in 0..MaxVersions
    /\ runs \in Nat /\ faults \in Nat /\ edits \in Nat

\* "Publish them before advancing the pointer, so a crash leaves a recoverable
\* prior generation": when the pointer moves on, the view is the generation it
\* moves to, file for file, whoever crashed or aggregated before, and unless the
\* root was edited no file of the one it moves from is left beside it.
ViewBeforePointer ==
    [][pointer' \notin {0, pointer} =>
         /\ \A n \in NamesOf(gens[pointer'].out) : view[n] = gens[pointer'].out
         /\ pointer # 0 /\ edits = 0 =>
              NamesOf(gens[pointer].out) \subseteq NamesOf(gens[pointer'].out)]_vars

\* An aggregation that returns leaves a view of its own: whoever aggregated at
\* the same time, every file of its format is the one it made.
ViewIsOneGeneration ==
    \A p \in Procs : pc[p] = "return" =>
        \A n \in Names :
            n \in NamesOf(output[p]) \/ view[n] \in [format : {output[p].format}, version : 0..MaxVersions]
               => view[n] = output[p]

\* A file that nobody here wrote is only ever replaced where the current
\* generation has a file of that name: a newly introduced one is safe.
NewFilesKept ==
    [][\A n \in Names :
         lock # NoProc /\ view[n] = Alien /\ view'[n] # Alien =>
            pointer # 0 /\ n \in NamesOf(gens[pointer].out)]_vars

\* An aggregation of an unedited root is only refused for a file that was there
\* at first, a view that was never marked as owned, a change of format, or a
\* repair that failed: a crash in a later publication is always recovered from.
RefusalsAreExplained ==
    \A p \in Procs : pc[p] = "refused" /\ edits = 0 =>
        \/ owner = "absent"
        \/ \E n \in Names : view[n] = Alien
        \/ \E i \in DOMAIN gens : gens[i].out.format # output[p].format
        \/ todo[p] # {}

\* "A crash leaves a recoverable prior generation": an aggregation of a root
\* that only aggregations wrote to is not refused.
CrashIsRecoverable ==
    \A p \in Procs : pc[p] = "refused" /\ edits = 0 => \E n \in Names : view[n] = Alien

=============================================================================
