------------------------- MODULE ExecutionSnapshot -------------------------
(***************************************************************************)
(* The private CodeQL database of one analysis (dosweb/codeql/database.py  *)
(* and the preflight and finalizer of dosweb/production.py): the canonical *)
(* database is validated, directories that dead runs left are removed, a   *)
(* random directory is made and the canonical tree is cloned into it, both *)
(* are validated again, the analysis runs its queries against the clone    *)
(* and the finalizer removes it.                                           *)
(*                                                                         *)
(* The runs of one output root exclude each other by the pipeline's lock,  *)
(* which a killed process gives up.  Run r makes directory r under the     *)
(* random name r.  Somebody else replaces or edits the canonical database, *)
(* and renames private directories away and puts his own there.  A tree is *)
(* a version of each file; the fingerprint of a database is its tree.      *)
(***************************************************************************)
EXTENDS Naturals, FiniteSets

CONSTANTS
    Roots,          \* inodes the canonical path may hold
    Files,          \* the stable files of a database
    Versions,       \* what a file may contain
    Foreign,        \* directories of somebody else
    Runs,           \* runs of the analyzer on one output root
    MaxStale,       \* 64 in the code
    MaxMishaps      \* calls that fail, interrupts, kills and what others change

ASSUME SnapshotAssumption ==
    /\ MaxStale \in Nat /\ MaxMishaps \in Nat
    /\ Files # {} /\ "missing" \notin Versions
    /\ (Runs \cup Foreign) \cap {"none", "quarantine", "nowhere", "away"} = {}
    /\ Runs \cap Foreign = {}

VARIABLES
    target,         \* the root at the canonical path, or "none"
    tree,           \* the tree of every root
    place,          \* where each directory is
    content,        \* the tree of each directory
    pc, run, begun, \* the run in progress or the last one; those so far
    db,             \* the DatabaseInfo that was validated first
    source,         \* the root opened for the clone
    own,            \* the directory opened as the snapshot's root, or "none"
    known,          \* what the factory knows of the directory
    parent, root,   \* the releases of the two descriptors
    owned,          \* owned_database of preflight is set
    stale,          \* the candidates of the stale scan
    victim,         \* the tree being removed, under which name, and who asked
    calls,          \* calls of the cleanup that are still to come
    failed,         \* an exception is on its way out
    given, result,  \* history: the content handed out; how the last run ended
    orphan,         \* a CodeQL process of a dead run still writes there
    mishaps

vars == <<target, tree, place, content, pc, run, begun, db, source, own, known, parent,
          root, owned, stale, victim, calls, failed, given, result, orphan, mishaps>>

Dirs == Runs \cup Foreign
Trees == [Files -> Versions]
NoTree == [f \in Files |-> "missing"]

\* A directory has a random name or a quarantine name of it, both of which
\* begin with _EXECUTION_PREFIX, is nowhere, or was renamed by somebody else.
Prefixed(d) == place[d] \in Runs \cup {"quarantine"}

NoInfo == [root |-> "none", tree |-> NoTree]

\* _database_descriptor_release_consumed: of a descriptor that is not opened
\* yet, open, released, or kept by a release that did not consume it.
Consumed(t) == t = "released"

database == <<target, tree>>
namespace == <<place, content, orphan>>
locals == <<db, source, own, known, owned, stale, parent, root, victim, calls, failed>>
factory == <<run, begun, db, source, own, known, owned, stale, given, result>>

Idle ==
    /\ db = NoInfo /\ source = "none" /\ own = "none" /\ known = "nothing"
    /\ owned = FALSE /\ stale = {} /\ parent = "unopened" /\ root = "unopened"
    /\ victim = {} /\ calls = 0 /\ failed = FALSE

Forget ==
    /\ db' = NoInfo /\ source' = "none" /\ own' = "none" /\ known' = "nothing"
    /\ owned' = FALSE /\ stale' = {} /\ parent' = "unopened" /\ root' = "unopened"
    /\ victim' = {} /\ calls' = 0 /\ failed' = FALSE

\* Something that need not happen; the runs bound how often it does.
Fault == mishaps < MaxMishaps /\ mishaps' = mishaps + 1

-----------------------------------------------------------------------------
(* The canonical database.                                                 *)

\* validate_database: the fingerprint is over the bytes of every stable file.
DatabaseInfo(r) == [root |-> r, tree |-> tree[r]]

\* _validate_safe_tree walks the tree from the root at the canonical path.
SafeRoot == target

\* _same_canonical_identity and _require_canonical_tree_binding against the
\* first validation.
Canonical == SafeRoot = db.root /\ DatabaseInfo(db.root) = db

ReplaceRoot ==
    /\ Fault
    /\ \E r \in (Roots \cup {"none"}) \ {target} : target' = r
    /\ UNCHANGED <<tree, namespace, factory, pc, parent, root, victim, calls, failed>>

EditFile ==
    /\ Fault /\ target # "none"
    /\ \E f \in Files : \E v \in Versions \ {tree[target][f]} :
         tree' = [tree EXCEPT ![target] = [@ EXCEPT ![f] = v]]
    /\ UNCHANGED <<target, namespace, factory, pc, parent, root, victim, calls, failed>>

\* Somebody else renames a private directory, and may put his own there.
Swap ==
    /\ Fault
    /\ \E d \in Runs :
         /\ place[d] \in Runs
         /\ \/ place' = [place EXCEPT ![d] = "away"]
            \/ \E f \in Foreign : place[f] = "nowhere" /\
                 place' = [place EXCEPT ![d] = "away", ![f] = place[d]]
    /\ UNCHANGED <<database, content, orphan, factory, pc, parent, root, victim, calls,
                   failed>>

-----------------------------------------------------------------------------
(* The factory.                                                            *)

Go(label) == pc' = label
Goto(from, to) == pc = from /\ Go(to)

\* What raises in the factory ends in cleanup_failed_factory.
Raise == Go("undo") /\ failed' = TRUE

NoFault == UNCHANGED mishaps

\* A check fails when its condition does not hold, and may fail anyway.
Unless(condition) == (~condition /\ NoFault) \/ Fault

\* Pipeline.run has the lock.
Begin ==
    /\ Goto("idle", "validate")
    /\ \E r \in Runs \ begun : run' = r /\ begun' = begun \cup {r}
    /\ UNCHANGED <<database, namespace, locals, given, result, mishaps>>

\* preflight: validate(config.database) and the provenance of its sources.
\* Without it there is nothing to clean up.
Preflight ==
    /\ pc = "validate"
    /\ \/ /\ target # "none" /\ NoFault
          /\ db' = DatabaseInfo(target)
          /\ Go("open") /\ UNCHANGED failed
       \/ /\ Unless(target # "none")
          /\ Go("end") /\ failed' = TRUE /\ UNCHANGED db
    /\ UNCHANGED <<database, namespace, run, begun, source, own, known, owned, stale, given,
                   result, parent, root, victim, calls>>

\* The output root: made, opened into its owner slot, compared with its name.
OpenParent ==
    /\ pc = "open"
    /\ \/ Go("before") /\ parent' = "open" /\ NoFault /\ UNCHANGED failed
       \/ Raise /\ Fault /\ parent' \in {"unopened", "open"}
    /\ UNCHANGED <<database, namespace, factory, root, victim, calls>>

\* The canonical database before and after the clone.
CheckCanonical ==
    /\ pc \in {"before", "after"}
    /\ \/ Canonical /\ NoFault /\ Go(IF pc = "before" THEN "scan" ELSE "own")
          /\ UNCHANGED failed
       \/ Raise /\ Unless(Canonical)
    /\ UNCHANGED <<database, namespace, factory, parent, root, victim, calls>>

\* Mutant: a quarantined tree is not recognised.
ScanNames == {d \in Dirs : place[d] \in Runs}

\* The entries of the output root that begin with _EXECUTION_PREFIX.
Candidates == {d \in Dirs : Prefixed(d)}

\* _cleanup_stale_execution_database_snapshots_at: the scan.
ScanStale ==
    /\ pc = "scan"
    /\ stale' = {<<d, place[d]>> : d \in Candidates}
    /\ \/ Cardinality(stale') <= MaxStale /\ Go("stale") /\ NoFault /\ UNCHANGED failed
       \/ Cardinality(stale') > MaxStale /\ Raise /\ NoFault
       \/ Raise /\ Fault
    /\ UNCHANGED <<database, namespace, run, begun, db, source, own, known, owned, given, result,
                   parent, root, victim, calls>>

\* The candidates one after the other; a name that changed hands fails.
RemoveStale ==
    /\ pc = "stale"
    /\ \/ /\ stale = {} /\ Go("mkdir") /\ UNCHANGED <<stale, victim, failed>>
       \/ \E c \in stale :
            /\ stale' = stale \ {c}
            /\ \/ /\ place[c[1]] = c[2] /\ victim' = {[dir |-> c[1], name |-> c[2]]}
                  /\ Go("quarantine") /\ UNCHANGED failed
               \/ place[c[1]] # c[2] /\ Raise /\ UNCHANGED victim
    /\ UNCHANGED <<database, namespace, run, begun, db, source, own, known, owned, given, result,
                   parent, root, calls, mishaps>>

-----------------------------------------------------------------------------
(* _remove_private_tree_at.                                                *)

\* Who asked for the removal goes on: the stale scan, cleanup_failed_factory
\* or the cleanup of the binding.
Asker == IF calls > 0 THEN "release" ELSE "stale"
RemovalDone == Go(Asker) /\ victim' = {} /\ UNCHANGED failed
RemovalRaises == Go(IF calls > 0 THEN "release" ELSE "undo") /\ failed' = TRUE /\ victim' = {}

\* same_private_root: the name holds what the removal was asked for.
StillThere(v) == place[v.dir] = v.name

\* The root is opened, compared with what was expected and renamed to a
\* quarantine name; the rename may take effect and be interrupted.
QuarantineTree ==
    /\ pc = "quarantine"
    /\ \E v \in victim :
         \/ /\ StillThere(v)
            /\ place' = [place EXCEPT ![v.dir] = "quarantine"]
            /\ \/ Go("empty") /\ NoFault /\ UNCHANGED <<victim, failed>>
               \/ RemovalRaises /\ Fault
         \/ /\ RemovalRaises /\ UNCHANGED place
            /\ Unless(StillThere(v))
    /\ UNCHANGED <<database, content, orphan, factory, parent, root, calls>>

\* remove_contents, through the descriptor of the root: a failure leaves what
\* was not unlinked yet.
EmptyTree ==
    /\ pc = "empty"
    /\ \E v \in victim :
         \/ /\ content' = [content EXCEPT ![v.dir] = NoTree]
            /\ Go("rmdir") /\ NoFault /\ UNCHANGED <<victim, failed>>
         \/ /\ \E f \in Files : content' = [content EXCEPT ![v.dir] = [@ EXCEPT ![f] = "missing"]]
            /\ RemovalRaises /\ Fault
    /\ UNCHANGED <<database, place, orphan, factory, parent, root, calls>>

\* The name the tree had is free again.
NameStaysFree(v) == v.name = "quarantine" \/ \A d \in Dirs : place[d] # v.name

\* rmdir of the quarantine name, which a CodeQL process that still writes
\* there makes fail, and the last look at the name.
RemoveRoot ==
    /\ pc = "rmdir"
    /\ \E v \in victim :
         IF content[v.dir] # NoTree
         THEN RemovalRaises /\ NoFault /\ UNCHANGED place
         ELSE \/ /\ place' = [place EXCEPT ![v.dir] = "nowhere"]
                 /\ IF NameStaysFree(v) THEN RemovalDone ELSE RemovalRaises
                 /\ NoFault
              \/ RemovalRaises /\ Fault
                 /\ place' \in {place, [place EXCEPT ![v.dir] = "nowhere"]}
    /\ UNCHANGED <<database, content, orphan, factory, parent, root, calls>>

\* A CodeQL process whose analyzer died writes into its tree, or ends.
OrphanWrites ==
    /\ \E d \in orphan :
         /\ place[d] # "nowhere"
         /\ \E f \in Files : content[d][f] = "missing" /\ \E v \in Versions :
              content' = [content EXCEPT ![d] = [@ EXCEPT ![f] = v]]
    /\ UNCHANGED <<database, place, orphan, factory, pc, parent, root, victim,
                   calls, failed, mishaps>>

OrphanEnds ==
    /\ \E d \in orphan : orphan' = orphan \ {d}
    /\ UNCHANGED <<database, place, content, factory, pc, parent, root, victim,
                   calls, failed, mishaps>>

-----------------------------------------------------------------------------
(* The factory, from the random directory to the binding.                  *)

\* _assert_private_binding: the random name holds the directory.
PrivatelyBound(d) == place[d] = run

\* What the random name of this run holds.
Named == {d \in Dirs : PrivatelyBound(d)}

\* mkdir, and the assignment of its name, which an interrupt may prevent.
MakeDirectory ==
    /\ pc = "mkdir"
    /\ \/ place' = [place EXCEPT ![run] = run] /\ Go("name") /\ NoFault /\ UNCHANGED failed
       \/ Raise /\ Fault /\ UNCHANGED place
    /\ UNCHANGED <<database, content, orphan, factory, parent, root, victim, calls>>

KeepName ==
    /\ pc = "name"
    /\ \/ known' = "name" /\ Go("root") /\ NoFault /\ UNCHANGED failed
       \/ Raise /\ Fault /\ UNCHANGED known
    /\ UNCHANGED <<database, namespace, run, begun, db, source, own, owned, stale, given, result,
                   parent, root, victim, calls>>

\* The directory at the name is opened; fchmod and its identity.
OpenRoot ==
    /\ pc = "root"
    /\ \/ \E d \in Named : own' = d /\ root' = "open" /\
            \/ known' = "root" /\ Go("bind") /\ NoFault /\ UNCHANGED failed
            \/ Raise /\ Fault /\ UNCHANGED known
       \/ Raise /\ Unless(Named # {}) /\ UNCHANGED <<own, root, known>>
    /\ UNCHANGED <<database, namespace, run, begun, db, source, owned, stale, given, result,
                   parent, victim, calls>>

\* _tree_root_identity and _assert_private_binding: the name still holds it.
Bind ==
    /\ pc = "bind"
    /\ \/ PrivatelyBound(own) /\ known' = "binding" /\ Go("source") /\ NoFault /\ UNCHANGED failed
       \/ Raise /\ known' \in {"root", "binding"} /\ Unless(PrivatelyBound(own))
    /\ UNCHANGED <<database, namespace, run, begun, db, source, own, owned, stale, given, result,
                   parent, root, victim, calls>>

\* _reflink_clone_tree: the source is opened once.
OpenSource ==
    /\ pc = "source"
    /\ \/ target # "none" /\ source' = target /\ Go("copy") /\ NoFault /\ UNCHANGED failed
       \/ Raise /\ Unless(target # "none") /\ UNCHANGED source
    /\ UNCHANGED <<database, namespace, run, begun, db, own, known, owned, stale, given, result,
                   parent, root, victim, calls>>

\* clone_directory: the files that are still to come.
ToClone == {f \in Files : content[own][f] = "missing"}

\* _reflink_file, which creates its file; a change while it clones raises.
CopyFile ==
    /\ pc = "copy" /\ own \in Runs
    /\ \E f \in ToClone :
         /\ \/ /\ content' = [content EXCEPT ![own] = [@ EXCEPT ![f] = tree[source][f]]]
               /\ NoFault /\ UNCHANGED <<pc, failed>>
            \/ Raise /\ Fault /\ UNCHANGED content
    /\ UNCHANGED <<database, place, orphan, factory, parent, root, victim, calls>>

\* A file of somebody else is in the way, or all are cloned and the canonical
\* path must still hold the root that was opened.
EndCopy ==
    /\ pc = "copy"
    /\ \/ own \in Foreign /\ Raise
       \/ /\ own \in Runs /\ ToClone = {}
          /\ IF target = source THEN Go("close") /\ UNCHANGED failed ELSE Raise
    /\ UNCHANGED <<database, namespace, factory, parent, root, victim, calls, mishaps>>

\* _release_database_descriptor_owner_must_reach, twice: the release succeeds,
\* or raises with the descriptor consumed or not.
Released(t) == IF t = "open" THEN {"released", "kept"} ELSE {t}

CloseRoot ==
    /\ pc = "close"
    /\ \/ root' = "released" /\ Go("verify") /\ NoFault /\ UNCHANGED failed
       \/ root' \in Released(root) /\ Raise /\ Fault
    /\ UNCHANGED <<database, namespace, factory, parent, victim, calls>>

\* Mutant: the clone is not fingerprinted.
BoundOnly == PrivatelyBound(own)

\* _assert_private_binding and _same_database_identity of the clone.
CloneMatches == PrivatelyBound(own) /\ content[own] = db.tree

VerifyClone ==
    /\ pc = "verify"
    /\ \/ CloneMatches /\ Go("after") /\ NoFault /\ UNCHANGED failed
       \/ Raise /\ Unless(CloneMatches)
    /\ UNCHANGED <<database, namespace, factory, parent, root, victim, calls>>

\* owner_callback: register_owner of preflight.
RegisterOwner ==
    /\ pc = "own"
    /\ \/ owned' = TRUE /\ Go("commit") /\ NoFault /\ UNCHANGED failed
       \/ owned' \in BOOLEAN /\ Raise /\ Fault
    /\ UNCHANGED <<database, namespace, run, begun, db, source, own, known, stale, given, result,
                   parent, root, victim, calls>>

\* complete_factory_success and factory_succeeded; an interrupt before the
\* flag undoes it, one after it leaves it to the finalizer.
Commit ==
    /\ pc = "commit"
    /\ \/ given' = content[own] /\ Go("ready") /\ NoFault /\ UNCHANGED failed
       \/ Raise /\ Fault /\ UNCHANGED given
       \/ Go("final") /\ failed' = TRUE /\ Fault /\ UNCHANGED given
    /\ UNCHANGED <<database, namespace, run, begun, db, source, own, known, owned, stale, result,
                   parent, root, victim, calls>>

-----------------------------------------------------------------------------
(* The analysis, and the end of the run.                                   *)

\* validate_canonical_database and validate_execution_database around every
\* query; the stages end, or one of them fails.
EndStages ==
    /\ Goto("ready", "final")
    /\ \/ NoFault /\ failed' = ~(Canonical /\ PrivatelyBound(own))
       \/ Fault /\ failed' = TRUE
    /\ UNCHANGED <<database, namespace, factory, parent, root, victim, calls>>

\* finalizer: the canonical database once more, then the cleanup, whose calls
\* come in pairs.
Finalize ==
    /\ pc = "final"
    /\ \/ failed' = (failed \/ ~Canonical) /\ NoFault
       \/ failed' = TRUE /\ Fault
    /\ Go("drop") /\ calls' = 2
    /\ UNCHANGED <<database, namespace, factory, parent, root, victim>>

\* Mutant: the root's descriptor is forgotten.
UndoParentOnly ==
    /\ Goto("undo", "drop") /\ calls' = 2
    /\ UNCHANGED <<database, namespace, factory, parent, root, victim, failed, mishaps>>

\* cleanup_failed_factory: the root's descriptor first.
UndoFactory ==
    /\ Goto("undo", "drop") /\ calls' = 2
    /\ \/ root' = (IF root = "open" THEN "released" ELSE root) /\ NoFault
       \/ root' \in Released(root) /\ Fault
    /\ UNCHANGED <<database, namespace, factory, parent, victim, failed>>

\* Mutant: whatever has the name.
Anything(d) == TRUE

\* What the cleanup may take: the directory it opened, once it knows it.
Expected(d) == known = "name" \/ d = own

\* _remove_execution_snapshot_if_present
DropSnapshot ==
    /\ pc = "drop"
    /\ IF known = "nothing" \/ parent = "unopened" \/ Named = {}
       THEN Go("release") /\ UNCHANGED <<victim, failed>>
       ELSE \E d \in Named :
              IF Expected(d)
              THEN victim' = {[dir |-> d, name |-> run]} /\ Go("quarantine") /\ UNCHANGED failed
              ELSE Go("release") /\ failed' = TRUE /\ UNCHANGED victim
    /\ UNCHANGED <<database, namespace, factory, parent, root, calls, mishaps>>

\* The parent's descriptor; the next call does nothing once it is consumed.
ReleaseParent ==
    /\ pc = "release"
    /\ \/ /\ parent' = (IF parent = "open" THEN "released" ELSE parent)
          /\ NoFault /\ failed' = (failed \/ parent = "kept")
       \/ parent = "open" /\ parent' \in Released(parent) /\ Fault /\ failed' = TRUE
    /\ IF Consumed(parent') \/ calls = 1
       THEN Go("end") /\ calls' = 0 ELSE Go("drop") /\ calls' = calls - 1
    /\ UNCHANGED <<database, namespace, factory, root, victim>>

\* Pipeline.run records and raises the failure; the lock is free.
EndRun ==
    /\ Goto("end", "idle")
    /\ result' = IF failed THEN "raised" ELSE "ok"
    /\ given' = NoTree /\ Forget
    /\ UNCHANGED <<database, namespace, run, begun, mishaps>>

\* The process is killed; a query it was running may go on for a while.
Kill ==
    /\ pc # "idle" /\ Fault
    /\ Go("idle") /\ result' = "died" /\ given' = NoTree /\ Forget
    /\ orphan' \in {orphan, IF pc = "ready" THEN orphan \cup {own} ELSE orphan}
    /\ UNCHANGED <<database, place, content, run, begun>>

-----------------------------------------------------------------------------
Init ==
    /\ target \in Roots
    /\ \E t \in {[f \in Files |-> v] : v \in Versions} :
         /\ tree = [r \in Roots |-> t]
         /\ content = [d \in Dirs |-> IF d \in Runs THEN NoTree ELSE t]
    /\ place = [d \in Dirs |-> "nowhere"]
    /\ pc = "idle" /\ run = "none" /\ begun = {} /\ Idle
    /\ given = NoTree /\ result = "none" /\ orphan = {} /\ mishaps = 0

Analyzer ==
    \/ Preflight \/ OpenParent \/ CheckCanonical \/ ScanStale \/ RemoveStale
    \/ QuarantineTree \/ EmptyTree \/ RemoveRoot
    \/ MakeDirectory \/ KeepName \/ OpenRoot \/ Bind \/ OpenSource \/ CopyFile \/ EndCopy
    \/ CloseRoot \/ VerifyClone \/ RegisterOwner \/ Commit
    \/ EndStages \/ Finalize \/ UndoFactory \/ DropSnapshot \/ ReleaseParent \/ EndRun

Environment == ReplaceRoot \/ EditFile \/ Swap \/ OrphanWrites \/ OrphanEnds \/ Kill

Next == Begin \/ Analyzer \/ Environment

Spec == Init /\ [][Next]_vars

-----------------------------------------------------------------------------
(* What the clone is for.                                                  *)

Live == pc # "idle"

Promise == INSTANCE PrivateCopy WITH
    Contents <- Trees, None <- NoTree,
    asked <- db.tree, held <- given,
    left <- \E d \in Runs : Prefixed(d) /\ ~(Live /\ d = run),
    result <- result

\* The snapshot implements PrivateCopy: an analysis works on exactly the files
\* that were validated, even when the canonical database is changed and
\* changed back while it is cloned; it starts with everything gone that dead
\* runs left, half made, half removed or quarantined; and what ends well has
\* removed its own.
ImplementsPrivateCopy == Promise!Spec

\* The cleanup of a run touches no directory of somebody else that took the
\* random name: only a later run, by its stale scan, or a run that opened it
\* as its own or failed before it opened anything (README.md:147-149).
ForeignKept ==
    [][\A f \in Foreign :
         (content'[f] # content[f] \/ place'[f] # place[f]) /\ place[f] # "nowhere"
         => calls = 0 \/ own = f \/ known = "name"]_vars

\* However the factory and the finalizer fail, no descriptor is still open at
\* the end of the run unless its release itself did not act, and then the run
\* reports a failure.
DescriptorsReturned ==
    pc = "end" => /\ "open" \notin {parent, root}
                  /\ "kept" \in {parent, root} => failed
=============================================================================
