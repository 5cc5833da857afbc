---------------------- MODULE ExecutionSnapshotProofs ----------------------
(***************************************************************************)
(* For any databases, any number of runs and of stale directories and any  *)
(* number of mishaps: the private database implements PrivateCopy, the     *)
(* cleanup of a run leaves the directories of others alone, and the        *)
(* descriptors of the factory are given back.                              *)
(***************************************************************************)
EXTENDS ExecutionSnapshot, TLAPS

-----------------------------------------------------------------------------
(* The inductive invariant.                                                *)

\* Where a run is: before the stale directories are gone, between that and the
\* binding, in _remove_private_tree_at, and at its end.
Sweeping == {"before", "scan", "stale"}
Cloning == {"mkdir", "name", "root", "bind", "source", "copy", "close", "verify", "after", "own",
            "commit"}
Removing == {"quarantine", "empty", "rmdir"}
Labels == {"idle", "validate", "open", "undo", "ready", "final", "drop", "release", "end"}
          \cup Sweeping \cup Cloning \cup Removing

Names == Runs \cup {"quarantine"}

\* The finalizer, cleanup_failed_factory or the end of the run; and what may
\* still end well.
Wrapping == pc \in {"final", "drop", "release", "end"} \/ (pc \in Removing /\ calls > 0)
Good == pc = "ready" \/ (Wrapping /\ ~failed)

Types ==
    /\ pc \in Labels
    /\ target \in Roots \cup {"none"}
    /\ tree \in [Roots -> Trees]
    /\ place \in [Dirs -> Names \cup {"nowhere", "away"}]
    /\ content \in [Dirs -> [Files -> Versions \cup {"missing"}]]
    /\ begun \subseteq Runs /\ orphan \subseteq begun
    /\ Live => run \in begun
    /\ parent \in {"unopened", "open", "released", "kept"}
    /\ root \in {"unopened", "open", "released", "kept"}
    /\ failed \in BOOLEAN

\* A directory of a run has the random name of that run; one that was not made is
\* nowhere; no process of a dead run writes where this run works.
Places ==
    /\ \A d \in Runs \ begun : place[d] = "nowhere"
    /\ \A d \in Runs : place[d] \in Runs => place[d] = d
    /\ Live => run \notin orphan

\* What is removed, and for whom.
Removal ==
    /\ calls \in {0, 1, 2}
    /\ pc \in {"drop", "release"} => calls # 0
    /\ calls # 0 => pc \in {"drop", "release"} \cup Removing
    /\ stale \subseteq Dirs \X Names
    /\ victim \subseteq [dir : Dirs, name : Names]
    /\ \A v, w \in victim : v = w
    /\ pc \notin Removing => victim = {}
    /\ pc \in {"empty", "rmdir"} => \A v \in victim : place[v.dir] = "quarantine"
    /\ pc \in Removing /\ calls > 0 => \A v \in victim : known = "name" \/ v.dir = own

\* Directories that dead runs left are on the list of the scan, and after it they
\* are gone.
Swept ==
    /\ pc = "stale" \/ (pc \in Removing /\ calls = 0) =>
         \A d \in Runs : Prefixed(d) /\ d # run =>
            (\E c \in stale : c[1] = d) \/ (\E v \in victim : v.dir = d)
    /\ pc \in Cloning \/ Good => \A d \in Runs : Prefixed(d) => d = run

\* What the factory knows of its own directory, and the clone that was verified.
Binding == {"source", "copy", "close", "verify", "after", "own", "commit"}
Factory ==
    /\ pc \in {"idle", "validate"} => Idle
    /\ pc \in {"open"} \cup Sweeping \cup Cloning \/ (pc \in Removing /\ calls = 0) =>
         db.tree \in Trees
    /\ own \in Dirs \cup {"none"} /\ (own \in Runs => own = run)
    /\ pc \in {"bind", "source", "copy"} => own \in Dirs
    /\ pc \in Binding => known = "binding"
    /\ pc \in Binding \ {"source", "copy"} => own = run
    /\ pc = "copy" => source \in Roots
    /\ pc \in Binding \cup {"bind"} /\ own \in Runs => place[run] # "quarantine"
    /\ pc \in {"after", "own", "commit"} => content[own] = db.tree
    /\ pc # "ready" /\ ~Wrapping => given = NoTree
    /\ pc = "undo" => failed

\* What a run that may still end well was given, and that its directory is not
\* forgotten.
Granted ==
    /\ Good => db.tree \in Trees /\ given = db.tree /\ known = "binding" /\ own = run
    /\ pc = "ready" \/ (pc \in {"final", "drop"} /\ ~failed) => place[run] # "quarantine"
    /\ pc \in {"release", "end"} /\ ~failed => ~Prefixed(run)

Descriptors ==
    /\ "kept" \in {parent, root} => failed
    /\ pc = "open" => parent = "unopened" /\ root = "unopened"
    /\ pc \in Sweeping \cup Cloning \cup {"ready", "final"} \/ (pc \in Removing /\ calls = 0) =>
         parent = "open"
    /\ Good => parent # "unopened"
    /\ pc \in {"bind", "source", "copy", "close"} => root = "open"
    /\ pc \in {"verify", "after", "own", "commit", "ready", "final"} => root = "released"
    /\ Wrapping => root # "open"
    /\ pc = "end" => parent # "open"

Inv == Types /\ Places /\ Removal /\ Swept /\ Factory /\ Granted /\ Descriptors

-----------------------------------------------------------------------------
(* The types, and the names of the directories.                            *)

\* The steps of a run that change neither the files nor the directories.
Plain ==
    \/ Preflight \/ OpenParent \/ CheckCanonical \/ ScanStale \/ RemoveStale \/ KeepName
    \/ OpenRoot \/ Bind \/ OpenSource \/ EndCopy \/ CloseRoot \/ VerifyClone \/ RegisterOwner
    \/ Commit \/ EndStages \/ Finalize \/ UndoFactory \/ DropSnapshot \/ ReleaseParent

\* They stay within the run.
LEMMA PlainFrame ==
    ASSUME Inv, Plain
    PROVE  /\ UNCHANGED <<target, tree, place, content, orphan, run, begun, result>>
           /\ Live /\ Live' /\ pc' \in Labels
           /\ parent' \in {"unopened", "open", "released", "kept"}
           /\ root' \in {"unopened", "open", "released", "kept"}
           /\ failed' \in BOOLEAN
<1>1. Types
  BY DEF Inv
<1>2. CASE Preflight \/ OpenParent \/ CheckCanonical \/ ScanStale \/ RemoveStale \/ KeepName
  BY <1>1, <1>2, ZenonT(60) DEF Types, Preflight, OpenParent, CheckCanonical, ScanStale, RemoveStale, KeepName,
     database, namespace, factory, Go, Raise, Live, Labels, Sweeping, Cloning, Removing
<1>3. CASE OpenRoot \/ Bind \/ OpenSource \/ EndCopy \/ CloseRoot \/ VerifyClone \/ RegisterOwner
  BY <1>1, <1>3, ZenonT(60) DEF Types, OpenRoot, Bind, OpenSource, EndCopy, CloseRoot, VerifyClone,
     RegisterOwner, database, namespace, factory, Go, Raise, Released, Live, Labels, Sweeping,
     Cloning, Removing
<1>4. CASE Commit \/ EndStages \/ Finalize \/ UndoFactory \/ DropSnapshot \/ ReleaseParent
  BY <1>1, <1>4 DEF Types, Commit, EndStages, Finalize, UndoFactory, DropSnapshot, ReleaseParent,
     database, namespace, factory, Go, Goto, Raise, Released, Live, Labels, Sweeping,
     Cloning, Removing
<1>5. QED
  BY <1>2, <1>3, <1>4 DEF Plain

\* The steps of _remove_private_tree_at.
LEMMA RemovalFrame ==
    ASSUME Inv, QuarantineTree \/ EmptyTree \/ RemoveRoot
    PROVE  /\ UNCHANGED <<target, tree, orphan, run, begun, db, source, own, known, owned, stale,
                          given, result, parent, root, calls>>
           /\ pc \in Removing
           /\ \/ pc' = "empty" /\ pc = "quarantine" /\ victim' = victim /\ failed' = failed
              \/ pc' = "rmdir" /\ pc = "empty" /\ victim' = victim /\ failed' = failed
              \/ pc' = Asker /\ pc = "rmdir" /\ victim' = {} /\ failed' = failed
              \/ pc' = (IF calls > 0 THEN "release" ELSE "undo") /\ victim' = {} /\ failed' = TRUE
<1>1. CASE QuarantineTree
  BY <1>1 DEF QuarantineTree, database, factory, Go, RemovalRaises, Removing
<1>2. CASE EmptyTree
  BY <1>2 DEF EmptyTree, database, factory, Go, RemovalRaises, Removing
<1>3. CASE RemoveRoot
  BY <1>3 DEF RemoveRoot, database, factory, Go, RemovalRaises, RemovalDone, Removing
<1>4. QED
  BY <1>1, <1>2, <1>3

\* Where they lead.
LEMMA RemovalLeads ==
    ASSUME Inv, QuarantineTree \/ EmptyTree \/ RemoveRoot
    PROVE  /\ calls \in {0, 1, 2} /\ (failed => failed')
           /\ \/ pc' \in Removing
              \/ pc' = "stale" /\ calls = 0
              \/ pc' = "undo" /\ calls = 0 /\ failed'
              \/ pc' = "release" /\ calls > 0
<1>1. calls \in {0, 1, 2}
  BY DEF Inv, Removal
<1>2. CASE calls = 0
  <2>1. ~(calls > 0)
    BY <1>2
  <2>2. Asker = "stale" /\ (IF calls > 0 THEN "release" ELSE "undo") = "undo"
    BY <2>1 DEF Asker
  <2>3. pc' \in Removing \/ pc' = "stale" \/ (pc' = "undo" /\ failed' = TRUE)
    BY <2>2, RemovalFrame DEF Removing
  <2>4. failed => failed'
    BY RemovalFrame
  <2>5. QED
    BY <1>1, <1>2, <2>3, <2>4
<1>3. CASE calls # 0
  <2>1. calls > 0
    BY <1>1, <1>3
  <2>2. Asker = "release" /\ (IF calls > 0 THEN "release" ELSE "undo") = "release"
    BY <2>1 DEF Asker
  <2>3. pc' \in Removing \/ pc' = "release"
    BY <2>2, RemovalFrame DEF Removing
  <2>4. failed => failed'
    BY RemovalFrame
  <2>5. QED
    BY <1>1, <2>1, <2>3, <2>4
<1>4. QED
  BY <1>2, <1>3

\* What they do to the tree that is removed.
LEMMA RemovalEffect ==
    ASSUME Inv, QuarantineTree \/ EmptyTree \/ RemoveRoot
    PROVE  \E v \in victim :
              /\ \A d \in Dirs : d # v.dir => place'[d] = place[d] /\ content'[d] = content[d]
              /\ place'[v.dir] \in {place[v.dir], "quarantine", "nowhere"}
              /\ place' \in [Dirs -> Names \cup {"nowhere", "away"}]
              /\ content' \in [Dirs -> [Files -> Versions \cup {"missing"}]]
              /\ QuarantineTree =>
                   /\ content' = content
                   /\ place'[v.dir] \in Names => place[v.dir] \in Names
                   /\ pc' = "empty" => place'[v.dir] = "quarantine"
              /\ EmptyTree => place' = place
              /\ RemoveRoot => content' = content /\ place'[v.dir] \in {place[v.dir], "nowhere"}
              /\ RemoveRoot /\ (pc' = "stale" \/ ~failed') => place'[v.dir] = "nowhere"
<1>1. CASE QuarantineTree
  <2>1. PICK v \in victim :
           \/ /\ StillThere(v) /\ place' = [place EXCEPT ![v.dir] = "quarantine"]
           \/ place' = place /\ pc' # "empty"
    BY <1>1 DEF QuarantineTree, RemovalRaises, Go
  <2>2. v.dir \in Dirs /\ v.name \in Names /\ content' = content /\ pc = "quarantine"
    BY <1>1 DEF QuarantineTree, Inv, Removal
  <2>3. QED
    BY <1>1, <2>1, <2>2 DEF Inv, Types, StillThere, Names, EmptyTree, RemoveRoot
<1>2. CASE EmptyTree
  <2>1. PICK v \in victim :
           \/ content' = [content EXCEPT ![v.dir] = NoTree]
           \/ \E f \in Files : content' = [content EXCEPT ![v.dir] = [@ EXCEPT ![f] = "missing"]]
    BY <1>2 DEF EmptyTree
  <2>2. v.dir \in Dirs /\ place' = place /\ pc = "empty"
    BY <1>2 DEF EmptyTree, Inv, Removal
  <2>3. NoTree \in [Files -> Versions \cup {"missing"}]
    BY DEF NoTree
  <2>4. \A f \in Files : [content[v.dir] EXCEPT ![f] = "missing"] \in [Files -> Versions \cup {"missing"}]
    BY <2>2 DEF Inv, Types
  <2>5. /\ content' \in [Dirs -> [Files -> Versions \cup {"missing"}]]
        /\ \A d \in Dirs : d # v.dir => content'[d] = content[d]
    BY <2>1, <2>2, <2>3, <2>4, ZenonT(60) DEF Inv, Types
  <2>6. QED
    BY <1>2, <2>2, <2>5 DEF Inv, Types, QuarantineTree, RemoveRoot
<1>3. CASE RemoveRoot
  <2>1. PICK v \in victim :
           \/ place' = [place EXCEPT ![v.dir] = "nowhere"]
           \/ place' = place /\ failed' = TRUE /\ pc' # "stale"
    BY <1>3 DEF RemoveRoot, RemovalRaises, Go
  <2>2. v.dir \in Dirs /\ content' = content /\ pc = "rmdir"
    BY <1>3 DEF RemoveRoot, Inv, Removal
  <2>3. QED
    BY <1>3, <2>1, <2>2 DEF Inv, Types, QuarantineTree, EmptyTree
<1>4. QED
  BY <1>1, <1>2, <1>3

\* The other steps, on what the types are about.
LEMMA OtherFrame ==
    ASSUME Inv, Next, ~Plain, ~(QuarantineTree \/ EmptyTree \/ RemoveRoot)
    PROVE  \/ Begin \/ MakeDirectory \/ CopyFile \/ EndRun \/ ReplaceRoot \/ EditFile \/ Swap
           \/ OrphanWrites \/ OrphanEnds \/ Kill
  BY DEF Next, Analyzer, Environment, Plain

\* One file of a directory is written.
LEMMA WriteFile ==
    ASSUME Types, NEW d \in Dirs, NEW f \in Files, NEW v \in Versions,
           content' = [content EXCEPT ![d] = [@ EXCEPT ![f] = v]]
    PROVE  /\ content' \in [Dirs -> [Files -> Versions \cup {"missing"}]]
           /\ \A e \in Dirs : e # d => content'[e] = content[e]
<1>1. [content[d] EXCEPT ![f] = v] \in [Files -> Versions \cup {"missing"}]
  BY DEF Types
<1>2. QED
  BY <1>1 DEF Types

\* The clone and a process of a dead run write into the directory of a run.
LEMMA WriterEffect ==
    ASSUME Inv, CopyFile \/ OrphanWrites
    PROVE  /\ UNCHANGED <<target, tree, place, orphan, run, begun, db, source, own, known, owned,
                          stale, given, result, parent, root, victim, calls>>
           /\ content' \in [Dirs -> [Files -> Versions \cup {"missing"}]]
           /\ \E d \in Runs :
                /\ \/ CopyFile /\ pc = "copy" /\ d = own
                   \/ OrphanWrites /\ d \in orphan
                /\ \A e \in Dirs : e # d => content'[e] = content[e]
           /\ \/ UNCHANGED <<pc, failed>>
              \/ CopyFile /\ Raise
<1>1. CASE CopyFile
  <2>1. own \in Runs /\ source \in Roots /\ pc = "copy"
    BY <1>1 DEF CopyFile, Inv, Factory
  <2>2. /\ UNCHANGED <<target, tree, place, orphan, run, begun, db, source, own, known, owned,
                       stale, given, result, parent, root, victim, calls>>
    BY <1>1 DEF CopyFile, database, factory
  <2>3. PICK f \in Files :
           \/ content' = [content EXCEPT ![own] = [@ EXCEPT ![f] = tree[source][f]]]
              /\ UNCHANGED <<pc, failed>>
           \/ content' = content /\ Raise
    BY <1>1 DEF CopyFile, ToClone
  <2>4. tree[source][f] \in Versions
    BY <2>1, <2>3 DEF Inv, Types, Trees
  <2>5. /\ content' \in [Dirs -> [Files -> Versions \cup {"missing"}]]
        /\ \A e \in Dirs : e # own => content'[e] = content[e]
    BY <2>1, <2>3, <2>4, WriteFile DEF Inv, Types, Dirs
  <2>6. QED
    BY <1>1, <2>1, <2>2, <2>3, <2>5
<1>2. CASE OrphanWrites
  <2>1. UNCHANGED <<target, tree, place, orphan, run, begun, db, source, own, known, owned,
                    stale, given, result, parent, root, victim, calls, pc, failed>>
    BY <1>2 DEF OrphanWrites, database, factory
  <2>2. PICK d \in orphan, f \in Files, v \in Versions :
           content' = [content EXCEPT ![d] = [@ EXCEPT ![f] = v]]
    BY <1>2 DEF OrphanWrites
  <2>3. d \in Runs
    BY DEF Inv, Types
  <2>4. /\ content' \in [Dirs -> [Files -> Versions \cup {"missing"}]]
        /\ \A e \in Dirs : e # d => content'[e] = content[e]
    BY <2>2, <2>3, WriteFile DEF Inv, Dirs
  <2>5. QED
    BY <1>2, <2>1, <2>2, <2>3, <2>4
<1>3. QED
  BY <1>1, <1>2

\* Somebody else takes the name of a private directory.
LEMMA SwapEffect ==
    ASSUME Inv, Swap
    PROVE  /\ UNCHANGED <<target, tree, content, orphan, run, begun, db, source, own, known, owned,
                          stale, given, result, pc, parent, root, victim, calls, failed>>
           /\ place' \in [Dirs -> Names \cup {"nowhere", "away"}]
           /\ \A e \in Runs : place'[e] = place[e] \/ (place[e] \in Runs /\ place'[e] = "away")
           /\ \A e \in Dirs : place[e] = "quarantine" => place'[e] = "quarantine"
           /\ \A f \in Foreign : place'[f] # place[f] => place[f] = "nowhere"
<1>1. UNCHANGED <<target, tree, content, orphan, run, begun, db, source, own, known, owned,
                  stale, given, result, pc, parent, root, victim, calls, failed>>
  BY DEF Swap, database, factory
<1>2. PICK d \in Runs :
         /\ place[d] \in Runs
         /\ \/ place' = [place EXCEPT ![d] = "away"]
            \/ \E f \in Foreign : place[f] = "nowhere" /\
                 place' = [place EXCEPT ![d] = "away", ![f] = place[d]]
  BY DEF Swap
<1>3. Runs \cap Foreign = {} /\ "quarantine" \notin Runs /\ "nowhere" \notin Runs
  BY SnapshotAssumption
<1>4. CASE place' = [place EXCEPT ![d] = "away"]
  BY <1>1, <1>2, <1>3, <1>4 DEF Inv, Types, Dirs, Names
<1>5. CASE place' # [place EXCEPT ![d] = "away"]
  <2>1. PICK f \in Foreign : place[f] = "nowhere" /\
                 place' = [place EXCEPT ![d] = "away", ![f] = place[d]]
    BY <1>2, <1>5
  <2>2. /\ d # f /\ place'[d] = "away" /\ place'[f] = place[d]
        /\ \A e \in Dirs : e \notin {d, f} => place'[e] = place[e]
    BY <1>2, <1>3, <2>1 DEF Inv, Types, Dirs
  <2>3. place' \in [Dirs -> Names \cup {"nowhere", "away"}]
    BY <1>2, <2>1 DEF Inv, Types, Dirs, Names
  <2>4. QED
    BY <1>1, <1>2, <1>3, <2>1, <2>2, <2>3 DEF Dirs
<1>6. QED
  BY <1>4, <1>5

\* Every step keeps the types.
LEMMA TypesKept ==
    ASSUME Inv, Next
    PROVE  Types'
<1>1. Types
  BY DEF Inv
<1>2. CASE Plain
  BY <1>1, <1>2, PlainFrame DEF Types, Live
<1>3. CASE QuarantineTree \/ EmptyTree \/ RemoveRoot
  <2>1. pc' \in Labels /\ Live' /\ Live
    BY <1>3, RemovalFrame DEF Asker, Labels, Sweeping, Removing, Live
  <2>2. QED
    BY <1>1, <1>3, <2>1, RemovalFrame, RemovalEffect DEF Types
<1>4. CASE Begin
  BY <1>1, <1>4 DEF Types, Begin, Goto, Go, database, namespace, locals, Labels, Live
<1>5. CASE MakeDirectory
  <2>1. /\ UNCHANGED <<target, tree, content, orphan, run, begun, parent, root>> /\ Live /\ Live'
        /\ pc' \in Labels /\ failed' \in BOOLEAN
    BY <1>1, <1>5 DEF MakeDirectory, database, factory, Raise, Go, Live, Labels, Cloning, Types
  <2>2. place' = place \/ place' = [place EXCEPT ![run] = run]
    BY <1>5 DEF MakeDirectory
  <2>3. place' \in [Dirs -> Names \cup {"nowhere", "away"}]
    BY <1>1, <2>1, <2>2 DEF Types, Dirs, Names
  <2>4. QED
    BY <1>1, <2>1, <2>3 DEF Types
<1>6. CASE CopyFile \/ OrphanWrites
  <2>1. pc' \in Labels /\ (Live' => Live) /\ failed' \in BOOLEAN
    BY <1>1, <1>6, WriterEffect DEF Types, Raise, Go, Labels, Live, CopyFile
  <2>2. QED
    BY <1>1, <1>6, <2>1, WriterEffect DEF Types
<1>7. CASE EndRun
  BY <1>1, <1>7 DEF EndRun, Types, Goto, Go, Forget, database, namespace, Labels, Live
<1>8. CASE ReplaceRoot
  BY <1>1, <1>8 DEF ReplaceRoot, Types, namespace, factory, Live
<1>9. CASE EditFile
  <2>1. UNCHANGED <<target, place, content, orphan, run, begun, pc, parent, root, failed>>
    BY <1>9 DEF EditFile, namespace, factory
  <2>2. PICK f \in Files, v \in Versions : tree' = [tree EXCEPT ![target] = [@ EXCEPT ![f] = v]]
    BY <1>9 DEF EditFile
  <2>3. target \in Roots /\ [tree[target] EXCEPT ![f] = v] \in Trees
    BY <1>1, <1>9 DEF EditFile, Types, Trees
  <2>4. tree' \in [Roots -> Trees]
    BY <1>1, <2>2, <2>3 DEF Types
  <2>5. QED
    BY <1>1, <2>1, <2>4 DEF Types, Live
<1>10. CASE Swap
  BY <1>1, <1>10, SwapEffect DEF Types, Live
<1>11. CASE OrphanEnds
  BY <1>1, <1>11 DEF OrphanEnds, Types, database, factory, Live
<1>12. CASE Kill
  <2>1. orphan' \subseteq orphan \cup (IF pc = "ready" THEN {own} ELSE {})
    BY <1>12 DEF Kill
  <2>2. pc = "ready" => own \in begun
    BY <1>1 DEF Inv, Granted, Good, Types, Live
  <2>3. orphan' \subseteq begun
    BY <1>1, <2>1, <2>2 DEF Types
  <2>4. QED
    BY <1>1, <1>12, <2>3 DEF Kill, Types, Go, Forget, database, Labels, Live
<1>13. QED
  BY <1>2, <1>3, <1>4, <1>5, <1>6, <1>7, <1>8, <1>9, <1>10, <1>11, <1>12, OtherFrame

\* Every step keeps the names.
LEMMA PlacesKept ==
    ASSUME Inv, Next
    PROVE  Places'
<1>1. Places /\ Types
  BY DEF Inv
<1>2. CASE Plain
  BY <1>1, <1>2, PlainFrame DEF Places
<1>3. CASE QuarantineTree \/ EmptyTree \/ RemoveRoot
  <2>1. UNCHANGED <<begun, orphan, run>> /\ Live
    BY <1>3, RemovalFrame DEF Removing, Live
  <2>2. PICK v \in victim :
           /\ \A d \in Dirs : d # v.dir => place'[d] = place[d]
           /\ place'[v.dir] \in {place[v.dir], "quarantine", "nowhere"}
           /\ EmptyTree => place' = place
           /\ RemoveRoot => place'[v.dir] \in {place[v.dir], "nowhere"}
           /\ QuarantineTree => (place'[v.dir] \in Names => place[v.dir] \in Names)
    BY <1>3, RemovalEffect
  <2>3. {"quarantine", "nowhere"} \cap Runs = {}
    BY SnapshotAssumption
  <2>4. \A d \in Runs : place[d] = "nowhere" => place'[d] = "nowhere"
    BY <1>3, <2>2, <2>3 DEF Names, Dirs
  <2>5. \A d \in Runs : place'[d] \in Runs => place'[d] = place[d]
    BY <2>2, <2>3 DEF Dirs
  <2>6. QED
    BY <1>1, <2>1, <2>4, <2>5 DEF Places
<1>4. CASE Begin
  BY <1>1, <1>4 DEF Types, Places, Begin, Goto, Go, namespace, Live
<1>5. CASE MakeDirectory
  <2>1. /\ UNCHANGED <<orphan, run, begun>> /\ Live
    BY <1>5 DEF MakeDirectory, factory, Live
  <2>2. place' = place \/ place' = [place EXCEPT ![run] = run]
    BY <1>5 DEF MakeDirectory
  <2>3. QED
    BY <1>1, <2>1, <2>2 DEF Types, Places, Dirs
<1>6. CASE CopyFile \/ OrphanWrites
  <2>1. Live' => Live
    BY <1>6, WriterEffect DEF Raise, Go, Live, CopyFile
  <2>2. QED
    BY <1>1, <1>6, <2>1, WriterEffect DEF Places
<1>7. CASE EndRun
  BY <1>1, <1>7 DEF EndRun, Places, Goto, Go, namespace, Live
<1>8. CASE ReplaceRoot \/ EditFile
  BY <1>1, <1>8 DEF ReplaceRoot, EditFile, Places, namespace, factory, Live
<1>9. CASE Swap
  <2>1. {"nowhere", "away"} \cap Runs = {}
    BY SnapshotAssumption
  <2>2. QED
    BY <1>1, <1>9, <2>1, SwapEffect DEF Places, Live
<1>10. CASE OrphanEnds
  BY <1>1, <1>10 DEF OrphanEnds, Places, factory, Live
<1>11. CASE Kill
  BY <1>1, <1>11 DEF Kill, Places, Go, Live
<1>12. QED
  BY <1>2, <1>3, <1>4, <1>5, <1>6, <1>7, <1>8, <1>9, <1>10, <1>11, OtherFrame

-----------------------------------------------------------------------------
(* The removals.                                                           *)

\* Steps of the factory and of the stages that neither list nor remove anything.
Working ==
    \/ Preflight \/ OpenParent \/ CheckCanonical \/ KeepName \/ OpenRoot \/ Bind \/ OpenSource
    \/ EndCopy \/ CloseRoot \/ VerifyClone \/ RegisterOwner \/ Commit \/ EndStages

Resting == Labels \ ({"idle", "drop", "release"} \cup Removing)

\* They leave the removal alone.
LEMMA WorkingFrame ==
    ASSUME Inv, Working
    PROVE  /\ UNCHANGED <<victim, calls, stale>>
           /\ pc \in Resting /\ pc' \in Resting
<1>1. CASE Preflight \/ OpenParent \/ CheckCanonical \/ KeepName \/ OpenRoot \/ Bind \/ OpenSource
  BY <1>1 DEF Preflight, OpenParent, CheckCanonical, KeepName, OpenRoot, Bind, OpenSource, factory,
     Go, Raise, Resting, Labels, Sweeping, Cloning, Removing
<1>2. CASE EndCopy \/ CloseRoot \/ VerifyClone \/ RegisterOwner \/ Commit \/ EndStages
  BY <1>2 DEF EndCopy, CloseRoot, VerifyClone, RegisterOwner, Commit, EndStages, factory,
     Go, Goto, Raise, Resting, Labels, Sweeping, Cloning, Removing
<1>3. QED
  BY <1>1, <1>2 DEF Working

\* A step that leaves calls, stale and victim alone outside of the removals.
LEMMA RemovalRests ==
    ASSUME Inv, UNCHANGED <<victim, calls, stale>>, pc \in Resting \cup {"idle"},
           pc' \in Resting \cup {"idle"}
    PROVE  Removal'
  BY DEF Inv, Removal, Resting, Labels, Removing

\* Every step keeps what is known of the removals.
LEMMA RemovalKept ==
    ASSUME Inv, Next
    PROVE  Removal'
<1>1. Removal /\ Types
  BY DEF Inv
<1>2. CASE Working
  BY <1>2, WorkingFrame, RemovalRests
<1>3. CASE ScanStale
  <2>1. /\ stale' = {<<d, place[d]>> : d \in Candidates} /\ UNCHANGED <<victim, calls>>
        /\ pc = "scan" /\ pc' \in {"stale", "undo"}
    BY <1>3 DEF ScanStale, Go, Raise
  <2>2. stale' \subseteq Dirs \X Names
    BY <2>1 DEF Candidates, Prefixed, Names
  <2>3. QED
    BY <1>1, <2>1, <2>2 DEF Removal, Removing
<1>4. CASE RemoveStale
  <2>1. calls' = calls /\ pc = "stale" /\ stale' \subseteq stale
        /\ pc' \in {"mkdir", "quarantine", "undo"}
    BY <1>4 DEF RemoveStale, Go, Raise
  <2>2. victim = {} /\ calls = 0
    BY <1>1, <2>1 DEF Removal, Removing
  <2>3. CASE victim' = {}
    BY <1>1, <2>1, <2>2, <2>3 DEF Removal, Removing
  <2>4. CASE victim' # {}
    <3>1. PICK c \in stale : victim' = {[dir |-> c[1], name |-> c[2]]} /\ pc' = "quarantine"
      BY <1>4, <2>2, <2>4 DEF RemoveStale, Go
    <3>2. c[1] \in Dirs /\ c[2] \in Names
      BY <1>1 DEF Removal
    <3>3. QED
      BY <1>1, <2>1, <2>2, <3>1, <3>2 DEF Removal, Removing
  <2>5. QED
    BY <2>3, <2>4
<1>5. CASE Finalize \/ UndoFactory
  BY <1>1, <1>5 DEF Finalize, UndoFactory, Removal, factory, Go, Goto, Removing
<1>6. CASE DropSnapshot
  <2>1. UNCHANGED <<calls, stale, known, own, run>> /\ pc = "drop" /\ pc' \in {"release", "quarantine"}
    BY <1>6 DEF DropSnapshot, factory, Go
  <2>2. victim = {} /\ calls \in {1, 2} /\ run \in Runs
    BY <1>1, <2>1 DEF Removal, Removing, Types, Live
  <2>3. CASE victim' = {}
    BY <1>1, <1>6, <2>1, <2>2, <2>3 DEF Removal, Removing
  <2>4. CASE victim' # {}
    <3>1. PICK d \in Named : /\ victim' = {[dir |-> d, name |-> run]} /\ pc' = "quarantine"
                             /\ known = "name" \/ d = own
      BY <1>6, <2>2, <2>4 DEF DropSnapshot, Go, Expected
    <3>2. d \in Dirs
      BY DEF Named
    <3>3. QED
      BY <1>1, <2>1, <2>2, <3>1, <3>2 DEF Removal, Removing, Names
  <2>5. QED
    BY <2>3, <2>4
<1>7. CASE ReleaseParent
  BY <1>1, <1>7 DEF ReleaseParent, Removal, factory, Go, Removing
<1>8. CASE QuarantineTree \/ EmptyTree \/ RemoveRoot
  <2>1. UNCHANGED <<calls, stale, known, own>> /\ pc \in Removing
    BY <1>8, RemovalFrame
  <2>2. CASE victim' = {} /\ pc' \in {"release", "undo", "stale"} /\ (pc' = "release" <=> calls > 0)
    BY <1>1, <2>1, <2>2 DEF Removal, Removing
  <2>3. CASE victim' = victim /\ pc' = "empty" /\ pc = "quarantine"
    <3>1. QuarantineTree
      BY <1>8, <2>3 DEF EmptyTree, RemoveRoot
    <3>2. \A v \in victim : place'[v.dir] = "quarantine"
      BY <1>1, <1>8, <2>3, <3>1, RemovalEffect DEF Removal
    <3>3. QED
      BY <1>1, <2>1, <2>3, <3>2 DEF Removal, Removing
  <2>4. CASE victim' = victim /\ pc' = "rmdir" /\ pc = "empty"
    <3>1. place' = place
      BY <1>8, <2>4 DEF EmptyTree, RemoveRoot, QuarantineTree
    <3>2. QED
      BY <1>1, <2>1, <2>4, <3>1 DEF Removal, Removing
  <2>5. QED
    BY <1>8, <2>2, <2>3, <2>4, RemovalFrame DEF Asker
<1>9. CASE Begin \/ MakeDirectory
  BY <1>9, RemovalRests DEF Begin, MakeDirectory, Goto, Go, Raise, locals, factory, Resting, Labels,
     Sweeping, Cloning, Removing
<1>10. CASE CopyFile \/ OrphanWrites
  <2>1. UNCHANGED <<victim, calls, stale, place, known, own>>
    BY <1>10, WriterEffect
  <2>2. CASE pc' = pc
    BY <1>1, <2>1, <2>2 DEF Removal
  <2>3. CASE pc' # pc
    <3>1. pc = "copy" /\ pc' = "undo"
      BY <1>10, <2>3, WriterEffect DEF CopyFile, Raise, Go
    <3>2. QED
      BY <2>1, <3>1, RemovalRests DEF Resting, Labels, Cloning, Removing
  <2>4. QED
    BY <2>2, <2>3
<1>11. CASE EndRun \/ Kill
  BY <1>11 DEF EndRun, Kill, Forget, Goto, Go, Removal, Removing
<1>12. CASE ReplaceRoot \/ EditFile \/ OrphanEnds
  BY <1>1, <1>12 DEF ReplaceRoot, EditFile, OrphanEnds, Removal, namespace, factory
<1>13. CASE Swap
  <2>1. \A v \in victim : place[v.dir] = "quarantine" => place'[v.dir] = "quarantine"
    BY <1>1, <1>13, SwapEffect DEF Removal
  <2>2. QED
    BY <1>1, <1>13, <2>1, SwapEffect DEF Removal
<1>14. QED
  BY <1>2, <1>3, <1>4, <1>5, <1>6, <1>7, <1>8, <1>9, <1>10, <1>11, <1>12, <1>13, OtherFrame
     DEF Plain, Working

-----------------------------------------------------------------------------
(* Dead runs leave nothing to a run that works.                            *)

\* What others do leaves the run where it is.
LEMMA ElsewhereFrame ==
    ASSUME Inv, ReplaceRoot \/ EditFile \/ Swap \/ OrphanWrites \/ OrphanEnds
    PROVE  UNCHANGED <<pc, run, begun, db, source, own, known, owned, stale, given, result, parent,
                       root, victim, calls, failed>>
  BY DEF ReplaceRoot, EditFile, Swap, OrphanWrites, OrphanEnds, factory

\* A run that may still end well could so before, or has just got its copy.
LEMMA GoodStep ==
    ASSUME Inv, Next, Good'
    PROVE  /\ UNCHANGED <<run, db, own, known, result>>
           /\ \/ Good /\ given' = given
              \/ Commit /\ pc = "commit" /\ pc' = "ready" /\ given' = content[own]
<1>1. CASE Preflight \/ OpenParent \/ CheckCanonical \/ KeepName \/ OpenRoot \/ Bind \/ OpenSource
           \/ EndCopy \/ CloseRoot \/ VerifyClone \/ RegisterOwner
  BY <1>1 DEF Good, Wrapping, Preflight, OpenParent, CheckCanonical, KeepName, OpenRoot, Bind,
     OpenSource, EndCopy, CloseRoot, VerifyClone, RegisterOwner, Go, Raise, Removing
<1>2. CASE ScanStale \/ MakeDirectory \/ CopyFile \/ Begin \/ EndRun \/ Kill
  BY <1>2 DEF Good, Wrapping, ScanStale, MakeDirectory, CopyFile, Begin, EndRun, Kill, Go, Goto,
     Raise, Removing
<1>3. CASE Commit
  BY <1>3 DEF Good, Wrapping, Commit, Go, Raise, Removing
<1>4. CASE EndStages \/ Finalize
  BY <1>4 DEF Good, Wrapping, EndStages, Finalize, Go, Goto, Removing, factory
<1>5. CASE UndoFactory
  BY <1>5 DEF Good, Wrapping, UndoFactory, Go, Goto, Removing, Inv, Factory
<1>6. CASE RemoveStale
  <2>1. calls' = 0 /\ pc' \in {"mkdir", "quarantine", "undo"}
    BY <1>6 DEF RemoveStale, Go, Raise, Inv, Removal, Removing
  <2>2. QED
    BY <2>1 DEF Good, Wrapping, Removing
<1>7. CASE DropSnapshot \/ ReleaseParent
  <2>1. failed => failed'
    BY <1>7 DEF DropSnapshot, ReleaseParent
  <2>2. ~failed /\ pc \in {"drop", "release"}
    BY <1>7, <2>1 DEF Good, Wrapping, DropSnapshot, ReleaseParent, Go, Inv, Types
  <2>3. QED
    BY <1>7, <2>2 DEF Good, Wrapping, DropSnapshot, ReleaseParent, factory
<1>8. CASE QuarantineTree \/ EmptyTree \/ RemoveRoot
  <2>1. ~failed' /\ failed' = failed /\ calls' = calls /\ pc \in Removing
    BY <1>8, RemovalFrame DEF Good, Wrapping, Asker, Inv, Types
  <2>2. calls > 0
    BY <1>8, <2>1, RemovalFrame DEF Good, Wrapping, Asker, Removing, Inv, Removal
  <2>3. QED
    BY <1>8, <2>1, <2>2, RemovalFrame DEF Good, Wrapping
<1>9. CASE ReplaceRoot \/ EditFile \/ Swap \/ OrphanWrites \/ OrphanEnds
  BY <1>9, ElsewhereFrame DEF Good, Wrapping
<1>10. QED
  BY <1>1, <1>2, <1>3, <1>4, <1>5, <1>6, <1>7, <1>8, <1>9 DEF Next, Analyzer, Environment

\* Only mkdir gives a directory of a run a private name.
LEMMA NoNewNames ==
    ASSUME Inv, Next, NEW d \in Runs, place'[d] \in Names
    PROVE  place[d] \in Names \/ (MakeDirectory /\ d = run)
<1>1. CASE Plain
  BY <1>1, PlainFrame
<1>2. CASE QuarantineTree \/ EmptyTree \/ RemoveRoot
  <2>1. "nowhere" \notin Names
    BY SnapshotAssumption DEF Names
  <2>2. QED
    BY <1>2, <2>1, RemovalEffect DEF Dirs, Names
<1>3. CASE MakeDirectory
  BY <1>3 DEF MakeDirectory, Inv, Types, Dirs
<1>4. CASE Begin \/ CopyFile \/ EndRun \/ ReplaceRoot \/ EditFile \/ OrphanWrites \/ OrphanEnds \/ Kill
  BY <1>4 DEF Begin, CopyFile, EndRun, ReplaceRoot, EditFile, OrphanWrites, OrphanEnds, Kill,
     namespace
<1>5. CASE Swap
  <2>1. "away" \notin Names
    BY SnapshotAssumption DEF Names
  <2>2. QED
    BY <1>5, <2>1, SwapEffect
<1>6. QED
  BY <1>1, <1>2, <1>3, <1>4, <1>5, OtherFrame

\* A run that clones was cloning, or has removed the last stale directory.
LEMMA CloningStep ==
    ASSUME Inv, Next, pc' \in Cloning
    PROVE  run' = run /\ (pc \in Cloning \/ (RemoveStale /\ pc = "stale" /\ stale = {}))
<1>1. CASE RemoveStale
  BY <1>1, PlainFrame DEF RemoveStale, Go, Raise, Cloning, Plain
<1>2. CASE Plain /\ ~RemoveStale
  <2>1. pc \in Cloning
    BY <1>2 DEF Plain, Preflight, OpenParent, CheckCanonical, ScanStale, KeepName, OpenRoot, Bind,
       OpenSource, EndCopy, CloseRoot, VerifyClone, RegisterOwner, Commit, EndStages, Finalize,
       UndoFactory, DropSnapshot, ReleaseParent, Go, Goto, Raise, Cloning
  <2>2. QED
    BY <1>2, <2>1, PlainFrame
<1>3. CASE QuarantineTree \/ EmptyTree \/ RemoveRoot
  BY <1>3, RemovalFrame DEF Asker, Cloning
<1>4. CASE Begin \/ MakeDirectory \/ CopyFile \/ EndRun \/ Kill
  BY <1>4 DEF Begin, MakeDirectory, CopyFile, EndRun, Kill, Goto, Go, Raise, Cloning, factory
<1>5. CASE ReplaceRoot \/ EditFile \/ Swap \/ OrphanWrites \/ OrphanEnds
  BY <1>5, ElsewhereFrame
<1>6. QED
  BY <1>1, <1>2, <1>3, <1>4, <1>5, OtherFrame

\* Every step keeps what is known of the directories of dead runs.
LEMMA SweptKept ==
    ASSUME Inv, Next
    PROVE  Swept'
<1>1. Swept /\ Removal /\ Types
  BY DEF Inv
<1>2. ASSUME pc' \in Cloning \/ Good', NEW d \in Runs, place'[d] \in Names
      PROVE  d = run'
  <2>1. run' = run
    BY <1>2, CloningStep, GoodStep
  <2>2. CASE MakeDirectory /\ d = run
    BY <2>1, <2>2
  <2>3. CASE ~(MakeDirectory /\ d = run)
    <3>1. Prefixed(d)
      BY <1>2, <2>3, NoNewNames DEF Prefixed, Names
    <3>2. CASE pc \in Cloning \/ Good
      BY <1>1, <2>1, <3>1, <3>2 DEF Swept
    <3>3. CASE RemoveStale /\ pc = "stale" /\ stale = {}
      BY <1>1, <2>1, <3>1, <3>3 DEF Swept, Removal, Removing
    <3>4. QED
      BY <1>2, <3>2, <3>3, CloningStep, GoodStep DEF Cloning
  <2>4. QED
    BY <2>2, <2>3
<1>3. ASSUME pc' = "stale" \/ (pc' \in Removing /\ calls' = 0), NEW d \in Runs,
             place'[d] \in Names, d # run'
      PROVE  (\E c \in stale' : c[1] = d) \/ (\E v \in victim' : v.dir = d)
  <2>1. CASE ScanStale
    <3>1. place' = place
      BY <2>1, PlainFrame DEF Plain
    <3>2. d \in Candidates
      BY <1>3, <3>1 DEF Candidates, Prefixed, Dirs, Names
    <3>3. <<d, place[d]>> \in stale'
      BY <2>1, <3>2 DEF ScanStale
    <3>4. QED
      BY <3>3
  <2>2. CASE RemoveStale
    <3>1. place' = place /\ run' = run /\ pc = "stale" /\ Prefixed(d)
      BY <1>3, <2>2, PlainFrame DEF RemoveStale, Plain, Prefixed, Names
    <3>2. PICK c \in stale : c[1] = d
      BY <1>1, <1>3, <3>1 DEF Swept, Removal, Removing
    <3>3. PICK b \in stale : stale' = stale \ {b} /\ victim' = {[dir |-> b[1], name |-> b[2]]}
      BY <1>3, <2>2 DEF RemoveStale, Go, Raise, Removing
    <3>4. CASE b = c
      BY <3>2, <3>3, <3>4
    <3>5. CASE b # c
      BY <3>2, <3>3, <3>5
    <3>6. QED
      BY <3>4, <3>5
  <2>3. CASE QuarantineTree \/ EmptyTree \/ RemoveRoot
    <3>1. UNCHANGED <<run, stale, calls>> /\ pc \in Removing /\ calls = 0
      <4>1. calls \in {0, 1, 2}
        BY <1>1 DEF Removal
      <4>2. UNCHANGED <<run, stale, calls>> /\ pc \in Removing
        BY <2>3, RemovalFrame
      <4>3. pc' = "stale" => calls = 0
        BY <2>3, <4>1, <4>2, RemovalFrame DEF Asker
      <4>4. QED
        BY <1>3, <4>2, <4>3
    <3>2. Prefixed(d)
      BY <1>3, <2>3, NoNewNames DEF MakeDirectory, QuarantineTree, EmptyTree, RemoveRoot, Prefixed, Names
    <3>3. (\E c \in stale : c[1] = d) \/ (\E v \in victim : v.dir = d)
      BY <1>1, <1>3, <3>1, <3>2 DEF Swept
    <3>4. CASE victim' = victim
      BY <3>1, <3>3, <3>4
    <3>5. CASE victim' # victim
      <4>1. pc' = Asker /\ failed' = failed /\ pc = "rmdir" /\ pc' = "stale"
        BY <1>3, <2>3, <3>1, <3>5, RemovalFrame DEF Asker, Removing
      <4>2. RemoveRoot
        BY <2>3, <4>1 DEF QuarantineTree, EmptyTree
      <4>3. PICK v \in victim : place'[v.dir] = "nowhere"
        BY <2>3, <4>1, <4>2, RemovalEffect
      <4>4. d # v.dir
        BY <1>3, <4>3, SnapshotAssumption DEF Names
      <4>5. QED
        BY <1>1, <3>1, <3>3, <4>4 DEF Removal
    <3>6. QED
      BY <3>4, <3>5
  <2>4. CASE ~(ScanStale \/ RemoveStale \/ QuarantineTree \/ EmptyTree \/ RemoveRoot)
    <3>1. ReplaceRoot \/ EditFile \/ Swap \/ OrphanWrites \/ OrphanEnds
      BY <1>1, <1>3, <2>4 DEF Next, Analyzer, Environment, Begin, Preflight, OpenParent,
         CheckCanonical, MakeDirectory, KeepName, OpenRoot, Bind, OpenSource, CopyFile, EndCopy,
         CloseRoot, VerifyClone, RegisterOwner, Commit, EndStages, Finalize, UndoFactory,
         DropSnapshot, ReleaseParent, EndRun, Kill, Go, Goto, Raise, Removing, Removal
    <3>2. UNCHANGED <<pc, run, stale, victim, calls>>
      BY <3>1, ElsewhereFrame
    <3>3. Prefixed(d)
      BY <1>3, <3>1, <3>2, NoNewNames DEF Prefixed, Names, MakeDirectory, Removing
    <3>4. QED
      BY <1>1, <1>3, <3>2, <3>3 DEF Swept
  <2>5. QED
    BY <2>1, <2>2, <2>3, <2>4
<1>4. QED
  BY <1>2, <1>3 DEF Swept, Prefixed, Names

-----------------------------------------------------------------------------
(* The factory.                                                            *)

\* Only a removal quarantines.
LEMMA NewQuarantine ==
    ASSUME Inv, Next, NEW d \in Dirs, place'[d] = "quarantine", ~QuarantineTree
    PROVE  place[d] = "quarantine"
<1>1. "quarantine" \notin Runs
  BY SnapshotAssumption
<1>2. CASE Plain
  BY <1>2, PlainFrame
<1>3. CASE EmptyTree \/ RemoveRoot
  BY <1>3, RemovalEffect
<1>4. CASE MakeDirectory
  BY <1>1, <1>4 DEF MakeDirectory, Inv, Types, Dirs, Live
<1>5. CASE Begin \/ CopyFile \/ EndRun \/ ReplaceRoot \/ EditFile \/ OrphanWrites \/ OrphanEnds \/ Kill
  BY <1>5 DEF Begin, CopyFile, EndRun, ReplaceRoot, EditFile, OrphanWrites, OrphanEnds, Kill,
     namespace
<1>6. CASE Swap
  <2>1. PICK e \in Runs :
           /\ place[e] \in Runs
           /\ \/ place' = [place EXCEPT ![e] = "away"]
              \/ \E f \in Foreign : place' = [place EXCEPT ![e] = "away", ![f] = place[e]]
    BY <1>6 DEF Swap
  <2>2. QED
    BY <1>1, <2>1 DEF Inv, Types
<1>7. QED
  BY <1>2, <1>3, <1>4, <1>5, <1>6, OtherFrame

\* Steps of a run that change neither its directory nor what it knows of it.
LEMMA FactoryFrame ==
    ASSUME Inv, UNCHANGED <<own, run, db, given>>, Live, Live',
           pc' \notin {"validate"} \cup Binding \cup {"bind"},
           pc' \in {"open"} \cup Sweeping \cup Cloning \/ (pc' \in Removing /\ calls' = 0) =>
              pc \in {"open"} \cup Sweeping \cup Cloning \/ (pc \in Removing /\ calls = 0),
           pc' # "ready" /\ ~Wrapping' => pc # "ready" /\ ~Wrapping,
           pc' = "undo" => failed'
    PROVE  Factory'
  BY DEF Inv, Factory, Live, Binding

\* Every step keeps what the factory knows.
LEMMA FactoryKept ==
    ASSUME Inv, Next
    PROVE  Factory'
<1>1. Factory /\ Types /\ Places /\ Removal
  BY DEF Inv
<1>2. CASE Begin
  <2>1. UNCHANGED <<locals, given>> /\ pc = "idle" /\ pc' = "validate"
    BY <1>2 DEF Begin, Goto, Go
  <2>2. Idle /\ Idle' /\ given = NoTree
    BY <1>1, <2>1 DEF Factory, Idle, locals, Wrapping, Removing
  <2>3. own' = "none" /\ own' \notin Runs
    BY <2>2, SnapshotAssumption DEF Idle
  <2>4. QED
    BY <2>1, <2>2, <2>3 DEF Factory, Binding, Sweeping, Cloning, Removing
<1>3. CASE Preflight
  <2>1. /\ pc = "validate" /\ UNCHANGED <<own, run, given>> /\ Idle /\ given = NoTree
        /\ \/ pc' = "open" /\ db' = DatabaseInfo(target) /\ target # "none"
           \/ pc' = "end"
    BY <1>1, <1>3 DEF Preflight, Go, Factory, Wrapping, Removing
  <2>2. pc' = "open" => db'.tree \in Trees
    BY <1>1, <2>1 DEF Types, DatabaseInfo
  <2>3. QED
    BY <1>1, <2>1, <2>2 DEF Factory, Binding, Sweeping, Cloning, Removing, Wrapping
<1>4. CASE OpenParent \/ CheckCanonical \/ ScanStale \/ RemoveStale \/ KeepName
  <2>1. UNCHANGED <<own, run, db, given, place, content>> /\ Live /\ Live'
    BY <1>4, PlainFrame DEF Plain, OpenParent, CheckCanonical, ScanStale, RemoveStale, KeepName,
       factory
  <2>2. CASE CheckCanonical /\ pc = "after"
    BY <1>1, <2>1, <2>2 DEF CheckCanonical, factory, Go, Raise, Factory, Binding, Sweeping,
       Cloning, Removing, Wrapping
  <2>3. CASE ~(CheckCanonical /\ pc = "after")
    <3>1. /\ pc \in {"open"} \cup Sweeping \cup Cloning
          /\ pc' \in {"before", "scan", "stale", "mkdir", "quarantine", "root", "undo"}
          /\ pc' = "undo" => failed'
      BY <1>4, <2>3 DEF OpenParent, CheckCanonical, ScanStale, RemoveStale, KeepName, Go, Raise,
         Sweeping, Cloning
    <3>2. QED
      BY <2>1, <3>1, FactoryFrame DEF Binding, Sweeping, Cloning, Removing, Wrapping
  <2>4. QED
    BY <2>2, <2>3
<1>5. CASE OpenRoot
  <2>1. /\ UNCHANGED <<run, db, given, place, content>> /\ run \in Runs /\ pc = "root"
    BY <1>1, <1>5, PlainFrame DEF Plain, OpenRoot, Types, Live
  <2>2. \/ own' \in Named /\ pc' = "bind"
        \/ (own' \in Named \/ own' = own) /\ pc' = "undo" /\ failed'
    BY <1>5 DEF OpenRoot, Go, Raise
  <2>3. own' \in Named => own' \in Dirs /\ (own' \in Runs => own' = run /\ place[run] = run)
    BY <1>1, <2>1 DEF Named, PrivatelyBound, Places
  <2>4. place[run] = run => place[run] # "quarantine"
    BY <2>1, SnapshotAssumption
  <2>5. QED
    BY <1>1, <2>1, <2>2, <2>3, <2>4 DEF Factory, Binding, Sweeping, Cloning, Removing, Wrapping
<1>6. CASE Bind \/ OpenSource \/ EndCopy
  <2>1. UNCHANGED <<run, db, given, place, content, own>>
    BY <1>6, PlainFrame DEF Plain, Bind, OpenSource, EndCopy, factory
  <2>2. \/ pc = "bind" /\ pc' = "source" /\ known' = "binding"
        \/ pc = "source" /\ pc' = "copy" /\ source' \in Roots /\ known' = known
        \/ pc = "copy" /\ pc' = "close" /\ known' = known /\ own \in Runs
        \/ pc \in {"bind", "source", "copy"} /\ pc' = "undo" /\ failed'
    BY <1>1, <1>6 DEF Bind, OpenSource, EndCopy, Go, Raise, factory, Types
  <2>3. QED
    BY <1>1, <2>1, <2>2 DEF Factory, Binding, Sweeping, Cloning, Removing, Wrapping
<1>7. CASE CloseRoot \/ VerifyClone \/ RegisterOwner
  <2>1. UNCHANGED <<run, db, given, place, content, own, known>>
    BY <1>7, PlainFrame DEF Plain, CloseRoot, VerifyClone, RegisterOwner, factory
  <2>2. \/ pc = "close" /\ pc' = "verify"
        \/ pc = "verify" /\ pc' = "after" /\ content[own] = db.tree
        \/ pc = "own" /\ pc' = "commit"
        \/ pc \in {"close", "verify", "own"} /\ pc' = "undo" /\ failed'
    BY <1>7 DEF CloseRoot, VerifyClone, RegisterOwner, CloneMatches, Go, Raise
  <2>3. QED
    BY <1>1, <2>1, <2>2 DEF Factory, Binding, Sweeping, Cloning, Removing, Wrapping
<1>8. CASE Commit
  <2>1. /\ UNCHANGED <<run, db, own>> /\ pc = "commit"
        /\ \/ pc' \in {"ready", "final"}
           \/ pc' = "undo" /\ failed' /\ given' = given
    BY <1>8 DEF Commit, Go, Raise
  <2>2. QED
    BY <1>1, <2>1 DEF Factory, Binding, Sweeping, Cloning, Removing, Wrapping
<1>9. CASE EndStages \/ Finalize \/ UndoFactory \/ DropSnapshot \/ ReleaseParent
  <2>1. UNCHANGED <<run, db, own, given>> /\ Live /\ Live'
    BY <1>9, PlainFrame DEF Plain, EndStages, Finalize, UndoFactory, DropSnapshot, ReleaseParent,
       factory
  <2>2. /\ pc' \in {"final", "drop", "release", "end", "quarantine"}
        /\ pc' = "quarantine" => calls' # 0 /\ calls' > 0
    BY <1>1, <1>9 DEF EndStages, Finalize, UndoFactory, DropSnapshot, ReleaseParent, Go, Goto, Removal
  <2>3. QED
    BY <2>1, <2>2, FactoryFrame DEF Binding, Sweeping, Cloning, Removing, Wrapping
<1>10. CASE QuarantineTree \/ EmptyTree \/ RemoveRoot
  <2>1. UNCHANGED <<run, db, own, given, calls>> /\ pc \in Removing /\ calls \in {0, 1, 2}
    BY <1>1, <1>10, RemovalFrame DEF Removal
  <2>2. QED
    BY <1>10, <2>1, RemovalLeads, FactoryFrame DEF Binding, Sweeping, Cloning, Removing, Wrapping, Live
<1>11. CASE MakeDirectory
  <2>1. UNCHANGED <<run, db, own, given>> /\ pc = "mkdir" /\ pc' \in {"name", "undo"}
        /\ (pc' = "undo" => failed')
    BY <1>11 DEF MakeDirectory, factory, Go, Raise
  <2>2. QED
    BY <2>1, FactoryFrame DEF Binding, Sweeping, Cloning, Removing, Wrapping, Live
<1>12. CASE CopyFile \/ OrphanWrites
  <2>1. /\ UNCHANGED <<run, db, own, given, known, source, place, calls, owned, stale, parent, root,
                       victim>>
        /\ \/ UNCHANGED <<pc, failed>>
           \/ pc = "copy" /\ pc' = "undo" /\ failed'
    BY <1>12, WriterEffect DEF CopyFile, Raise, Go
  <2>2. PICK d \in Runs : /\ pc = "copy" \/ d \in orphan
                          /\ \A e \in Dirs : e # d => content'[e] = content[e]
    BY <1>12, WriterEffect
  <2>3. pc \in {"after", "own", "commit"} => content'[own] = content[own]
    BY <1>1, <2>2 DEF Factory, Places, Types, Live, Dirs, Binding
  <2>4. QED
    BY <1>1, <2>1, <2>3 DEF Factory, Idle, Binding, Sweeping, Cloning, Removing, Wrapping
<1>13. CASE EndRun \/ Kill
  <2>1. pc' = "idle" /\ given' = NoTree /\ Idle'
    BY <1>13 DEF EndRun, Kill, Go, Goto, Forget, Idle
  <2>2. own' = "none" /\ own' \notin Runs
    BY <2>1, SnapshotAssumption DEF Idle
  <2>3. QED
    BY <2>1, <2>2 DEF Factory, Binding, Sweeping, Cloning, Removing
<1>14. CASE ReplaceRoot \/ EditFile \/ Swap \/ OrphanEnds
  <2>1. UNCHANGED <<pc, run, db, source, own, known, owned, stale, given, parent, root, victim,
                    calls, failed>>
    BY <1>14, ElsewhereFrame
  <2>2. content' = content
    BY <1>14 DEF ReplaceRoot, EditFile, Swap, OrphanEnds, namespace
  <2>3. run \in Runs => (place'[run] = "quarantine" => place[run] = "quarantine")
    <3>1. ~QuarantineTree
      BY <2>1 DEF QuarantineTree, RemovalRaises, Go
    <3>2. QED
      BY <3>1, NewQuarantine DEF Dirs
  <2>4. QED
    BY <1>1, <2>1, <2>2, <2>3 DEF Factory, Idle, Wrapping
<1>15. QED
  BY <1>2, <1>3, <1>4, <1>5, <1>6, <1>7, <1>8, <1>9, <1>10, <1>11, <1>12, <1>13, <1>14, OtherFrame
     DEF Plain

\* Every step keeps what a run that may still end well was given.
LEMMA GrantedKept ==
    ASSUME Inv, Next
    PROVE  Granted'
<1>1. Granted /\ Factory /\ Types /\ Places /\ Removal /\ Descriptors
  BY DEF Inv
<1>2. Good' => db'.tree \in Trees /\ given' = db'.tree /\ known' = "binding" /\ own' = run'
  <2>1. SUFFICES ASSUME Good'
                 PROVE  db'.tree \in Trees /\ given' = db'.tree /\ known' = "binding" /\ own' = run'
    OBVIOUS
  <2>2. UNCHANGED <<run, db, own, known>>
    BY <2>1, GoodStep
  <2>3. CASE Good /\ given' = given
    BY <1>1, <2>2, <2>3 DEF Granted
  <2>4. CASE pc = "commit" /\ given' = content[own]
    BY <1>1, <2>2, <2>4 DEF Factory, Binding, Cloning
  <2>5. QED
    BY <2>1, <2>3, <2>4, GoodStep
<1>3. ASSUME pc' \in {"release", "end"}, ~failed'
      PROVE  place'[run'] \notin Names
  <2>1. Good'
    BY <1>3 DEF Good, Wrapping
  <2>2. UNCHANGED <<run, own, known>> /\ Good /\ known = "binding" /\ own = run
    BY <1>1, <1>3, <2>1, GoodStep DEF Granted
  <2>3. run \in Runs /\ Live
    BY <1>1, <2>2 DEF Types, Good, Wrapping, Live, Removing
  <2>4. CASE Plain
    <3>1. place' = place
      BY <2>4, PlainFrame
    <3>2. CASE DropSnapshot
      <4>1. Named = {} /\ pc = "drop" /\ ~failed
        BY <1>1, <1>3, <2>2, <3>2 DEF DropSnapshot, Descriptors, Expected, Types, Go
      <4>2. place[run] # run
        BY <2>3, <4>1 DEF Named, PrivatelyBound, Dirs
      <4>3. place[run] \notin Runs
        BY <1>1, <2>3, <4>2 DEF Places
      <4>4. place[run] # "quarantine"
        BY <1>1, <4>1 DEF Granted
      <4>5. QED
        BY <2>2, <3>1, <4>3, <4>4 DEF Names
    <3>3. CASE ReleaseParent
      <4>1. pc = "release" /\ ~failed
        BY <1>1, <1>3, <3>3 DEF ReleaseParent, Types
      <4>2. QED
        BY <1>1, <2>2, <3>1, <4>1 DEF Granted, Prefixed, Names
    <3>4. CASE ~DropSnapshot /\ ~ReleaseParent
      BY <1>3, <2>4, <3>4 DEF Plain, Preflight, OpenParent, CheckCanonical, ScanStale, RemoveStale,
         KeepName, OpenRoot, Bind, OpenSource, EndCopy, CloseRoot, VerifyClone, RegisterOwner,
         Commit, EndStages, Finalize, UndoFactory, Go, Goto, Raise
    <3>5. QED
      BY <3>2, <3>3, <3>4
  <2>5. CASE QuarantineTree \/ EmptyTree \/ RemoveRoot
    <3>1. calls > 0 /\ RemoveRoot
      BY <1>3, <2>5, RemovalFrame DEF Asker, QuarantineTree, EmptyTree, Removing
    <3>2. PICK v \in victim : place'[v.dir] = "nowhere"
      BY <1>3, <2>5, <3>1, RemovalEffect
    <3>3. v.dir = run
      BY <1>1, <2>2, <2>5, <3>1, RemovalFrame DEF Removal
    <3>4. QED
      BY <2>2, <3>2, <3>3, SnapshotAssumption DEF Names
  <2>6. CASE Begin \/ MakeDirectory \/ CopyFile \/ EndRun \/ Kill
    BY <1>3, <2>6 DEF Begin, MakeDirectory, CopyFile, EndRun, Kill, Go, Goto, Raise
  <2>7. CASE ReplaceRoot \/ EditFile \/ Swap \/ OrphanWrites \/ OrphanEnds
    <3>1. UNCHANGED <<pc, failed, run>>
      BY <2>7, ElsewhereFrame
    <3>2. place[run] \notin Names
      BY <1>1, <1>3, <3>1 DEF Granted, Prefixed, Names
    <3>3. ~MakeDirectory
      BY <1>3, <3>1 DEF MakeDirectory
    <3>4. QED
      BY <2>3, <3>1, <3>2, <3>3, NoNewNames
  <2>8. QED
    BY <2>4, <2>5, <2>6, <2>7, OtherFrame
<1>4. ASSUME pc' = "ready" \/ (pc' \in {"final", "drop"} /\ ~failed')
      PROVE  place'[run'] # "quarantine"
  <2>1. Good'
    BY <1>4 DEF Good, Wrapping
  <2>2. run' = run /\ (Good \/ pc = "commit")
    BY <2>1, GoodStep
  <2>3. run \in Runs
    BY <1>1, <2>2 DEF Types, Good, Wrapping, Live, Removing
  <2>4. ~QuarantineTree
    BY <1>4 DEF QuarantineTree, RemovalRaises, Go
  <2>5. SUFFICES place[run] # "quarantine"
    BY <2>2, <2>3, <2>4, NewQuarantine DEF Dirs
  <2>6. CASE pc = "commit"
    BY <1>1, <2>3, <2>6 DEF Factory, Binding
  <2>7. CASE pc = "ready"
    BY <1>1, <2>7 DEF Granted
  <2>8. CASE pc \in {"release", "end"} /\ ~failed
    BY <1>1, <2>8 DEF Granted, Prefixed
  <2>9. CASE pc \in {"final", "drop"} /\ ~failed
    BY <1>1, <2>9 DEF Granted
  <2>10. CASE pc \in Removing
    <3>1. QuarantineTree \/ EmptyTree \/ RemoveRoot
      BY <1>4, <2>10 DEF Next, Analyzer, Environment, Begin, Preflight, OpenParent, CheckCanonical,
         ScanStale, RemoveStale, MakeDirectory, KeepName, OpenRoot, Bind, OpenSource, CopyFile,
         EndCopy, CloseRoot, VerifyClone, RegisterOwner, Commit, EndStages, Finalize, UndoFactory,
         DropSnapshot, ReleaseParent, EndRun, Kill, ReplaceRoot, EditFile, Swap, OrphanWrites,
         OrphanEnds, Go, Goto, Raise, Removing
    <3>2. QED
      BY <1>4, <3>1, RemovalFrame DEF Asker
  <2>11. QED
    BY <2>2, <2>6, <2>7, <2>8, <2>9, <2>10 DEF Good, Wrapping
<1>5. QED
  BY <1>2, <1>3, <1>4 DEF Granted, Prefixed, Names

-----------------------------------------------------------------------------
(* The descriptors.                                                        *)

\* Every step keeps what is known of them.
LEMMA DescriptorsKept ==
    ASSUME Inv, Next
    PROVE  Descriptors'
<1>1. Descriptors /\ Factory /\ Types /\ Removal
  BY DEF Inv
<1>2. CASE Begin
  BY <1>1, <1>2 DEF Begin, Goto, Go, locals, Descriptors, Factory, Idle, Good, Wrapping, Sweeping,
     Cloning, Removing
<1>3. CASE Preflight
  BY <1>1, <1>3 DEF Preflight, Go, Descriptors, Factory, Idle, Good, Wrapping, Sweeping,
     Cloning, Removing
<1>4. CASE OpenParent
  BY <1>1, <1>4 DEF OpenParent, Go, Raise, factory, Descriptors, Good, Wrapping, Sweeping,
     Cloning, Removing
<1>5. CASE CheckCanonical \/ ScanStale \/ KeepName \/ MakeDirectory \/ OpenSource
  BY <1>1, <1>5 DEF CheckCanonical, ScanStale, KeepName, MakeDirectory, OpenSource,
     Go, Raise, factory, Descriptors, Good, Wrapping, Sweeping, Cloning, Removing
<1>6. CASE RemoveStale
  <2>1. /\ UNCHANGED <<parent, root>> /\ calls' = calls /\ pc = "stale"
        /\ \/ pc' \in {"mkdir", "quarantine"} /\ failed' = failed
           \/ pc' = "undo" /\ failed'
    BY <1>6 DEF RemoveStale, Go, Raise
  <2>2. calls = 0
    BY <1>1, <2>1 DEF Removal, Removing
  <2>3. QED
    BY <1>1, <2>1, <2>2 DEF Descriptors, Good, Wrapping, Sweeping, Cloning, Removing
<1>7. CASE OpenRoot \/ Bind \/ EndCopy \/ CloseRoot
  <2>1. /\ parent' = parent
        /\ \/ pc = "root" /\ pc' = "bind" /\ root' = "open" /\ failed' = failed
           \/ pc = "bind" /\ pc' = "source" /\ root' = root /\ failed' = failed
           \/ pc = "copy" /\ pc' = "close" /\ root' = root /\ failed' = failed
           \/ pc = "close" /\ pc' = "verify" /\ root' = "released" /\ failed' = failed
           \/ pc \in {"root", "bind", "copy", "close"} /\ pc' = "undo" /\ failed'
    BY <1>7 DEF OpenRoot, Bind, EndCopy, CloseRoot, Go, Raise, factory
  <2>2. QED
    BY <1>1, <2>1 DEF Descriptors, Good, Wrapping, Sweeping, Cloning, Removing
<1>8. CASE VerifyClone \/ RegisterOwner \/ Commit \/ EndStages
  <2>1. /\ UNCHANGED <<parent, root>>
        /\ \/ pc = "verify" /\ pc' = "after" /\ failed' = failed
           \/ pc = "own" /\ pc' = "commit" /\ failed' = failed
           \/ pc = "commit" /\ pc' = "ready" /\ failed' = failed
           \/ pc \in {"verify", "own", "commit"} /\ pc' = "undo" /\ failed'
           \/ pc = "commit" /\ pc' = "final" /\ failed'
           \/ pc = "ready" /\ pc' = "final"
    BY <1>8 DEF VerifyClone, RegisterOwner, Commit, EndStages, Go, Goto, Raise, factory
  <2>2. QED
    BY <1>1, <2>1 DEF Descriptors, Good, Wrapping, Sweeping, Cloning, Removing
<1>9. CASE Finalize \/ UndoFactory
  <2>1. /\ parent' = parent /\ pc' = "drop" /\ (failed => failed')
        /\ \/ pc = "final" /\ root' = root
           \/ pc = "undo" /\ failed /\ failed' /\ root' # "open"
    BY <1>1, <1>9 DEF Finalize, UndoFactory, Go, Goto, Released, factory, Factory, Types
  <2>2. QED
    BY <1>1, <2>1 DEF Descriptors, Good, Wrapping, Sweeping, Cloning, Removing
<1>10. CASE DropSnapshot
  <2>1. /\ UNCHANGED <<parent, root, calls>> /\ pc = "drop" /\ (failed => failed')
        /\ pc' \in {"release", "quarantine"} /\ (pc' = "quarantine" => failed' = failed)
    BY <1>10 DEF DropSnapshot, Go, factory
  <2>2. calls \in {1, 2}
    BY <1>1, <2>1 DEF Removal
  <2>3. QED
    BY <1>1, <2>1, <2>2 DEF Descriptors, Good, Wrapping, Sweeping, Cloning, Removing
<1>11. CASE ReleaseParent
  <2>1. /\ root' = root /\ pc = "release" /\ pc' \in {"end", "drop"} /\ (failed => failed')
        /\ parent' # "open" /\ (parent' = "kept" => failed')
        /\ parent' = "unopened" => parent = "unopened" /\ failed' = failed
    BY <1>1, <1>11 DEF ReleaseParent, Go, Released, Consumed, factory, Descriptors, Types
  <2>2. QED
    BY <1>1, <2>1 DEF Descriptors, Good, Wrapping, Sweeping, Cloning, Removing
<1>12. CASE QuarantineTree \/ EmptyTree \/ RemoveRoot
  <2>1. UNCHANGED <<parent, root, calls>> /\ pc \in Removing /\ calls \in {0, 1, 2}
    BY <1>1, <1>12, RemovalFrame DEF Removal
  <2>2. QED
    BY <1>1, <1>12, <2>1, RemovalLeads DEF Descriptors, Good, Wrapping, Sweeping, Cloning, Removing
<1>13. CASE CopyFile
  <2>1. UNCHANGED <<parent, root>> /\ pc = "copy"
        /\ (UNCHANGED <<pc, failed>> \/ (pc' = "undo" /\ failed'))
    BY <1>13, WriterEffect DEF CopyFile, Raise, Go
  <2>2. QED
    BY <1>1, <2>1 DEF Descriptors, Good, Wrapping, Sweeping, Cloning, Removing
<1>14. CASE EndRun \/ Kill
  BY <1>14 DEF EndRun, Kill, Go, Goto, Forget, Descriptors, Good, Wrapping, Sweeping, Cloning,
     Removing
<1>15. CASE ReplaceRoot \/ EditFile \/ Swap \/ OrphanWrites \/ OrphanEnds
  <2>1. UNCHANGED <<pc, parent, root, calls, failed>>
    BY <1>15, ElsewhereFrame
  <2>2. QED
    BY <1>1, <2>1 DEF Descriptors, Good, Wrapping
<1>16. QED
  BY <1>2, <1>3, <1>4, <1>5, <1>6, <1>7, <1>8, <1>9, <1>10, <1>11, <1>12, <1>13, <1>14, <1>15,
     OtherFrame DEF Plain

-----------------------------------------------------------------------------
(* The theorems.                                                           *)

\* The analyzer starts with the invariant.
LEMMA InitInv == Init => Inv
<1>1. SUFFICES ASSUME Init PROVE Inv
  OBVIOUS
<1>2. PICK t \in {[f \in Files |-> v] : v \in Versions} :
         /\ tree = [r \in Roots |-> t]
         /\ content = [d \in Dirs |-> IF d \in Runs THEN NoTree ELSE t]
  BY <1>1 DEF Init
<1>3. t \in Trees /\ t \in [Files -> Versions \cup {"missing"}]
      /\ NoTree \in [Files -> Versions \cup {"missing"}]
  BY DEF Trees, NoTree
<1>4. tree \in [Roots -> Trees] /\ content \in [Dirs -> [Files -> Versions \cup {"missing"}]]
  BY <1>2, <1>3
<1>5. /\ target \in Roots /\ pc = "idle" /\ begun = {} /\ orphan = {} /\ Idle /\ given = NoTree
      /\ place = [d \in Dirs |-> "nowhere"]
  BY <1>1 DEF Init
<1>6. Types
  BY <1>4, <1>5 DEF Types, Idle, Labels, Live, Names
<1>7. Places
  BY <1>5, SnapshotAssumption DEF Places, Live, Dirs
<1>8. Removal /\ Swept
  BY <1>5 DEF Removal, Swept, Idle, Removing, Cloning, Good, Wrapping
<1>9. Factory /\ Granted
  BY <1>5, SnapshotAssumption DEF Factory, Granted, Idle, Removing, Cloning, Sweeping, Binding, Good,
     Wrapping
<1>10. Descriptors
  BY <1>5 DEF Descriptors, Idle, Removing, Cloning, Sweeping, Good, Wrapping
<1>11. QED
  BY <1>6, <1>7, <1>8, <1>9, <1>10 DEF Inv

\* A step that changes nothing keeps it.
LEMMA StutterInv ==
    ASSUME Inv, UNCHANGED vars
    PROVE  Inv'
<1>1. Types' /\ Places'
  BY DEF Inv, Types, Places, vars, Live
<1>2. Removal' /\ Swept'
  BY DEF Inv, Removal, Swept, Prefixed, Good, Wrapping, vars
<1>3. Factory' /\ Granted'
  BY DEF Inv, Factory, Granted, Idle, Prefixed, Good, Wrapping, vars
<1>4. Descriptors'
  BY DEF Inv, Descriptors, Good, Wrapping, vars
<1>5. QED
  BY <1>1, <1>2, <1>3, <1>4 DEF Inv

\* The invariant holds of every behaviour.
THEOREM Invariance == Spec => []Inv
<1>1. Inv /\ [Next]_vars => Inv'
  BY StutterInv, TypesKept, PlacesKept, RemovalKept, SweptKept, FactoryKept, GrantedKept,
     DescriptorsKept DEF Inv
<1>2. QED
  BY <1>1, InitInv, PTL DEF Spec

\* However the factory and the finalizer fail, no descriptor is still open at the end
\* of a run unless its release did not act, and then the run reports a failure.
THEOREM DescriptorsGivenBack == Spec => []DescriptorsReturned
<1>1. Inv => DescriptorsReturned
  BY DEF Inv, Descriptors, DescriptorsReturned, Wrapping
<1>2. QED
  BY <1>1, Invariance, PTL

\* The cleanup of a run touches no directory of somebody else that took the random
\* name, unless the run opened it as its own or had opened nothing yet.
THEOREM OthersUntouched == Spec => ForeignKept
<1>1. ASSUME Inv, Next, NEW f \in Foreign, place[f] # "nowhere",
             content'[f] # content[f] \/ place'[f] # place[f]
      PROVE  calls = 0 \/ own = f \/ known = "name"
  <2>1. f \in Dirs /\ f \notin Runs
    BY SnapshotAssumption DEF Dirs
  <2>2. CASE Plain
    BY <1>1, <2>2, PlainFrame
  <2>3. CASE QuarantineTree \/ EmptyTree \/ RemoveRoot
    <3>1. PICK v \in victim :
             \A d \in Dirs : d # v.dir => place'[d] = place[d] /\ content'[d] = content[d]
      BY <1>1, <2>3, RemovalEffect
    <3>2. v.dir = f /\ pc \in Removing
      BY <1>1, <2>1, <2>3, <3>1, RemovalFrame
    <3>3. QED
      BY <1>1, <3>2 DEF Inv, Removal
  <2>4. CASE MakeDirectory
    <3>1. run \in Runs
      BY <1>1, <2>4 DEF MakeDirectory, Inv, Types, Live
    <3>2. content' = content /\ (place' = place \/ place' = [place EXCEPT ![run] = run])
      BY <2>4 DEF MakeDirectory
    <3>3. QED
      BY <1>1, <2>1, <3>1, <3>2 DEF Inv, Types
  <2>5. CASE CopyFile \/ OrphanWrites
    BY <1>1, <2>1, <2>5, WriterEffect
  <2>6. CASE Begin \/ EndRun \/ ReplaceRoot \/ EditFile \/ OrphanEnds \/ Kill
    BY <1>1, <2>6 DEF Begin, EndRun, ReplaceRoot, EditFile, OrphanEnds, Kill, namespace
  <2>7. CASE Swap
    BY <1>1, <2>7, SwapEffect
  <2>8. QED
    BY <1>1, <2>2, <2>3, <2>4, <2>5, <2>6, <2>7, OtherFrame
<1>2. ASSUME Inv, [Next]_vars
      PROVE  [\A f \in Foreign :
                (content'[f] # content[f] \/ place'[f] # place[f]) /\ place[f] # "nowhere"
                => calls = 0 \/ own = f \/ known = "name"]_vars
  BY <1>1, <1>2
<1>3. QED
  BY <1>2, Invariance, PTL DEF Spec, ForeignKept

-----------------------------------------------------------------------------
(* The refinement.                                                         *)

\* What the refinement mapping says of the directories.
Left == \E d \in Runs : Prefixed(d) /\ ~(Live /\ d = run)

\* A step that hands nothing out and makes no new leftover.
LEMMA QuietStep ==
    ASSUME db'.tree = db.tree, given' = given, result' = result, Left' => Left
    PROVE  [Promise!Next]_(Promise!vars)
<1>1. CASE Left' = Left
  BY <1>1 DEF Promise!vars, Left
<1>2. CASE Left' # Left
  <2>1. ~Left'
    BY <1>2 DEF Left
  <2>2. Promise!Clean
    BY <2>1 DEF Promise!Clean, Left
  <2>3. QED
    BY <2>2 DEF Promise!Next
<1>3. QED
  BY <1>1, <1>2

\* A tree of a database is not the empty one.
LEMMA TreesAreTrees == NoTree \notin Trees
<1>1. PICK f \in Files : TRUE
  BY SnapshotAssumption
<1>2. NoTree[f] = "missing"
  BY DEF NoTree
<1>3. QED
  BY <1>2, SnapshotAssumption DEF Trees

\* Within a run no leftover is made.
LEMMA LeftShrinks ==
    ASSUME Inv, Next, run' = run, Live, Live'
    PROVE  Left' => Left
<1>1. SUFFICES ASSUME NEW d \in Runs, place'[d] \in Names, d # run
               PROVE  Prefixed(d) /\ d # run
  BY DEF Left, Prefixed, Names
<1>2. QED
  BY <1>1, NoNewNames DEF Prefixed, Names

\* A step of a run other than the validation, the commit and the end.
LEMMA InnerStep ==
    ASSUME Inv, Next, UNCHANGED <<db, given, result, run>>, Live, Live'
    PROVE  [Promise!Next]_(Promise!vars)
  BY QuietStep, LeftShrinks

\* Every step is a step of PrivateCopy or leaves its variables alone.
LEMMA StepRefines ==
    ASSUME Inv, [Next]_vars
    PROVE  [Promise!Next]_(Promise!vars)
<1>1. CASE UNCHANGED vars
  BY <1>1, QuietStep DEF vars, Left, Prefixed, Live
<1>2. CASE Begin
  <2>1. UNCHANGED <<db, given, result, place>> /\ pc = "idle"
    BY <1>2 DEF Begin, Goto, locals, namespace
  <2>2. Left' => Left
    BY <2>1 DEF Left, Prefixed, Live
  <2>3. QED
    BY <2>1, <2>2, QuietStep
<1>3. CASE Preflight
  <2>1. UNCHANGED <<given, result, place, run>> /\ Live /\ Live' /\ pc = "validate"
    BY <1>3, PlainFrame DEF Plain, Preflight
  <2>2. CASE db' = db
    BY <1>3, <2>1, <2>2, InnerStep DEF Next, Analyzer
  <2>3. CASE db' # db
    <3>1. db' = DatabaseInfo(target) /\ target # "none"
      BY <1>3, <2>3 DEF Preflight
    <3>2. db'.tree \in Trees
      BY <3>1 DEF DatabaseInfo, Inv, Types
    <3>3. db.tree = NoTree
      BY <2>1 DEF Inv, Factory, Idle, NoInfo
    <3>4. Left' = Left
      BY <2>1 DEF Left, Prefixed
    <3>5. Promise!Ask(db'.tree)
      BY <2>1, <3>3, <3>4 DEF Promise!Ask, Left
    <3>6. QED
      BY <3>2, <3>5 DEF Promise!Next
  <2>4. QED
    BY <2>2, <2>3
<1>4. CASE Commit
  <2>1. UNCHANGED <<db, result, place, run, content>> /\ Live /\ Live' /\ pc = "commit"
    BY <1>4, PlainFrame DEF Plain, Commit
  <2>2. CASE given' = given
    BY <1>4, <2>1, <2>2, InnerStep DEF Next, Analyzer
  <2>3. CASE given' # given
    <3>1. given' = content[own]
      BY <1>4, <2>3 DEF Commit
    <3>2. given = NoTree /\ content[own] = db.tree /\ db.tree \in Trees
      BY <2>1 DEF Inv, Factory, Wrapping, Cloning, Removing
    <3>3. ~Left /\ ~Left'
      BY <2>1 DEF Left, Inv, Swept, Cloning, Prefixed
    <3>4. Promise!Grant
      BY <2>1, <3>1, <3>2, <3>3, TreesAreTrees DEF Promise!Grant, Left
    <3>5. QED
      BY <3>4 DEF Promise!Next
  <2>4. QED
    BY <2>2, <2>3
<1>5. CASE EndRun
  <2>1. /\ db'.tree = NoTree /\ given' = NoTree /\ UNCHANGED <<place, run>>
        /\ pc = "end" /\ pc' = "idle" /\ result' = IF failed THEN "raised" ELSE "ok"
    BY <1>5 DEF EndRun, Forget, NoInfo, Goto, Go, namespace
  <2>2. CASE failed
    <3>1. Left => Left'
      BY <2>1 DEF Left, Prefixed, Live
    <3>2. Promise!EndBadly
      BY <2>1, <2>2, <3>1 DEF Promise!EndBadly, Left
    <3>3. QED
      BY <3>2 DEF Promise!Next
  <2>3. CASE ~failed
    <3>1. Good
      BY <2>1, <2>3 DEF Good, Wrapping
    <3>2. given # NoTree
      BY <3>1, TreesAreTrees DEF Inv, Granted
    <3>3. \A d \in Runs : ~Prefixed(d)
      BY <2>1, <2>3, <3>1 DEF Inv, Granted, Swept
    <3>4. ~Left'
      BY <2>1, <3>3 DEF Left, Prefixed
    <3>5. Promise!EndWell
      BY <2>1, <2>3, <3>2, <3>4 DEF Promise!EndWell, Left
    <3>6. QED
      BY <3>5 DEF Promise!Next
  <2>4. QED
    BY <2>2, <2>3
<1>6. CASE Kill
  <2>1. /\ db'.tree = NoTree /\ given' = NoTree /\ UNCHANGED <<place, run>>
        /\ pc' = "idle" /\ result' = "died"
    BY <1>6 DEF Kill, Forget, NoInfo, Go
  <2>2. Left => Left'
    BY <2>1 DEF Left, Prefixed, Live
  <2>3. Promise!EndBadly
    BY <2>1, <2>2 DEF Promise!EndBadly, Left
  <2>4. QED
    BY <2>3 DEF Promise!Next
<1>7. CASE Plain /\ ~Preflight /\ ~Commit
  <2>1. UNCHANGED <<run, result>> /\ Live /\ Live'
    BY <1>7, PlainFrame
  <2>2. UNCHANGED <<db, given>>
    BY <1>7 DEF Plain, OpenParent, CheckCanonical, ScanStale, RemoveStale, KeepName, OpenRoot, Bind,
       OpenSource, EndCopy, CloseRoot, VerifyClone, RegisterOwner, EndStages, Finalize,
       UndoFactory, DropSnapshot, ReleaseParent, factory
  <2>3. QED
    BY <1>7, <2>1, <2>2, InnerStep DEF Next, Analyzer, Plain
<1>8. CASE QuarantineTree \/ EmptyTree \/ RemoveRoot
  <2>1. UNCHANGED <<db, given, result, run>> /\ Live
    BY <1>8, RemovalFrame DEF Live, Removing
  <2>2. Live'
    BY <1>8, RemovalLeads DEF Live, Removing
  <2>3. QED
    BY <1>8, <2>1, <2>2, InnerStep DEF Next, Analyzer
<1>9. CASE MakeDirectory \/ CopyFile
  <2>1. UNCHANGED <<db, given, result, run>> /\ Live /\ Live'
    BY <1>9 DEF MakeDirectory, CopyFile, factory, Live, Raise, Go
  <2>2. QED
    BY <1>9, <2>1, InnerStep DEF Next, Analyzer
<1>10. CASE ReplaceRoot \/ EditFile \/ Swap \/ OrphanWrites \/ OrphanEnds
  <2>1. UNCHANGED <<pc, db, given, result, run>>
    BY <1>10, ElsewhereFrame
  <2>2. ~MakeDirectory
    BY <2>1 DEF MakeDirectory, Raise, Go
  <2>3. Next
    BY <1>10 DEF Next, Environment
  <2>4. \A d \in Runs : place'[d] \in Names => place[d] \in Names
    BY <2>2, <2>3, NoNewNames
  <2>5. Left' => Left
    BY <2>1, <2>4 DEF Left, Prefixed, Live, Names
  <2>6. QED
    BY <2>1, <2>5, QuietStep
<1>11. QED
  BY <1>1, <1>2, <1>3, <1>4, <1>5, <1>6, <1>7, <1>8, <1>9, <1>10, OtherFrame

\* The private database implements PrivateCopy: an analysis works on exactly the
\* files that were validated, starts with everything gone that dead runs left, and
\* when it ends well has removed its own copy.
THEOREM Implements == Spec => ImplementsPrivateCopy
<1>1. Init => Promise!Init
  <2>1. SUFFICES ASSUME Init PROVE Promise!Init
    OBVIOUS
  <2>2. db.tree = NoTree /\ given = NoTree /\ result = "none"
    BY <2>1 DEF Init, Idle, NoInfo
  <2>3. \A d \in Runs : ~Prefixed(d)
    BY <2>1, SnapshotAssumption DEF Init, Prefixed, Dirs
  <2>4. ~Left
    BY <2>3 DEF Left
  <2>5. QED
    BY <2>2, <2>4 DEF Promise!Init, Left
<1>2. QED
  BY <1>1, StepRefines, Invariance, PTL DEF Spec, ImplementsPrivateCopy, Promise!Spec
=============================================================================
