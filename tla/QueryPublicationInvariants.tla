--------------------- MODULE QueryPublicationInvariants ---------------------
(***************************************************************************)
(* What the proofs about a call of run_query are built from: how the state *)
(* after one part of the call may differ from the state before it, and the *)
(* three inductive invariants.  Held is about the descriptors and the      *)
(* lock, Smooth about a call that can still return, Backed about what is   *)
(* shown after a failure and about what somebody else has renamed.         *)
(***************************************************************************)
EXTENDS QueryPublication

\* The states of a call, without the bounds of a run.
States == [where : [Nodes -> Places], open : SUBSET Descriptors, set : SUBSET Flags,
           faults : Nat, edits : Nat]

-----------------------------------------------------------------------------
(* What the parts of the rollback and of the recovery leave alone.         *)

\* What a part of the call that neither opens nor closes may change of the flags.
Volatile == {"err", "started", "resolved", "required", "committed", "rollbackFailed"}

\* v has the descriptors of w, and its flags but for the volatile ones.
Like(w, v) == v \in States /\ v.open = w.open /\ v.set \ Volatile = w.set \ Volatile

\* A name holds one directory.
Unique(w) == \A x \in Nodes, y \in Nodes : w.where[x] = w.where[y] /\ w.where[x] \in Names => x = y

\* The generation has its normal name.
Shown(w) == w.where["generation"] = "normal"

\* The directories of somebody else are where he put them.
Tame(w) ==
    /\ w.edits = 0 => \A f \in Foreign : w.where[f] = "nowhere"
    /\ w.edits <= 1 /\ w.faults = 0 => \A f \in Foreign : w.where[f] \in Names \cup {"nowhere"}

\* From w to v nothing was published, a published generation was not taken for a hidden one,
\* and, unless somebody else renamed, his directories were left where they are.
Level(w, v) ==
    /\ w \in States /\ v \in States
    /\ v.faults >= w.faults /\ v.edits >= w.edits
    /\ "attempted" \in v.set <=> "attempted" \in w.set
    /\ "retired" \in w.set => "retired" \in v.set
    /\ Unique(w) => Unique(v)
    /\ Shown(v) => /\ Shown(w) /\ ("resolved" \in v.set => "resolved" \in w.set)
                   /\ "required" \in w.set => "required" \in v.set
    /\ Unique(w) /\ Tame(w) /\ v.edits = w.edits => Tame(v)

\* The slot of a generation that is still shown is where it was.
Firm(w, v) ==
    /\ Unique(w) /\ Shown(v) /\ v.edits = w.edits
    /\ "attempted" \in w.set /\ "resolved" \notin w.set /\ "retired" \notin v.set
    => v.where["slot"] = w.where["slot"]

\* A part that leaves all of this alone ...
Same(w, v) ==
    /\ v \in States /\ v.open = w.open /\ v.set \ Volatile = w.set \ Volatile
    /\ Level(w, v) /\ Firm(w, v)

\* ... in all of the states it may end in.
Stay(w, S) == \A v \in S : Same(w, v)

\* The directories of somebody else are left alone even if he renames.
Gentle(w, v) == Unique(w) /\ Tame(w) => Unique(v) /\ Tame(v)

\* The slot is not needed, or the directory is another.
Spare(w, n) == n = "normal" \/ "attempted" \notin w.set \/ "resolved" \in w.set \/ "retired" \in w.set

\* A check, then the removal of the placeholder.
CheckedRemoval(w) == Then(May(w), RemovePlaceholder)

\* What comes after the no-replace rename: nothing, or the exchange.
AfterRename(u) == IF ~Has(u, "err") \/ At(u, "normal") = "none" THEN {Raise(u)}
                  ELSE IF At(u, "normal") # "generation" THEN {u}
                  ELSE {u} \cup ExchangeSlot(Clear(u, {"err"}))

\* A started rollback is tried again.
RecoverStarted(v) == UNION {ResolveIfHidden(Clear(u, {"err"}), TRUE)
                            : u \in RollbackPublished(Set(v, {"started"}))}
\* The pending directory never left its name.
RecoverPending(v) == UNION {IF Has(u, "err") THEN ResolveIfHidden(Clear(u, {"err"}), TRUE)
                            ELSE {Resolve(u)} : u \in FinalizePending(v)}
\* recover_attempted_publication, by what the names hold.
RecoverFrom(v) == IF At(v, "normal") = "generation" \/ Has(v, "started") THEN RecoverStarted(v)
                  ELSE IF At(v, "pending") = "generation" /\ At(v, "normal") = "none" THEN RecoverPending(v)
                  ELSE IF At(v, "pending") # "none" THEN {Raise(v)}
                  ELSE ResolveIfHidden(v, FALSE)

\* A release closes its descriptor, once, and may remember that it failed.
Closed(w, v, ds) ==
    /\ v \in States
    /\ v.open = w.open \ ds
    /\ v.set \ (Volatile \cup {"releaseFailed"}) = w.set \ (Volatile \cup {"releaseFailed"})
    /\ "releaseFailed" \in w.set => "releaseFailed" \in v.set
    /\ Level(w, v) /\ Firm(w, v)

-----------------------------------------------------------------------------
(* The descriptors and the lock.                                           *)

\* The steps of the body.
BodyLabels == {"pin", "pending", "query", "decode", "seal", "anchors", "noreplace", "slot",
               "exchange", "replace", "commit"}

\* The steps of the finally, by what is released before them.
AfterIdentity == {"drain"}
\* ... the cleanup anchor, ...
AfterCleanup == {"identity"} \cup AfterIdentity
\* ... the slot, ...
AfterSlot == {"cleanup"} \cup AfterCleanup
\* ... the final anchor, ...
AfterAnchor == {"retire", "slotLate"} \cup AfterSlot
\* ... the pending directory, ...
AfterPending == {"anchor"} \cup AfterAnchor
\* ... the rollback descriptor, ...
AfterRollback == {"finalize", "pendingLate"} \cup AfterPending
\* ... and the descriptor of .generations.
AfterGenerations == {"cleanupAnchor", "rollback"} \cup AfterRollback
\* Where a call without the final anchor has given the pending directory back.
AfterEarly == {"generations", "cleanupAnchor", "rollback", "finalize"}
\* Every step until the final anchor is closed.
UntilAnchors == BodyLabels \cup {"housekeeping", "early", "slotEarly", "pendingEarly"} \cup AfterEarly

\* Without the final anchor there is no descriptor that is opened after it.
Anchored ==
    /\ pc \in {"noreplace", "slot", "exchange", "replace", "commit"} => "anchor" \in q.open
    /\ pc \in UntilAnchors /\ "anchor" \notin q.open =>
         /\ q.open \cap {"slot", "cleanup", "binding"} = {}
         /\ pc \in AfterEarly => q.open \cap {"pending", "identity"} = {}

\* What was released stays closed.
Released ==
    /\ pc \in AfterGenerations => "generations" \notin q.open
    /\ pc \in AfterRollback => "rollback" \notin q.open
    /\ pc \in AfterPending => "pending" \notin q.open
    /\ pc \in AfterAnchor => "anchor" \notin q.open
    /\ pc \in AfterSlot => "slot" \notin q.open
    /\ pc \in AfterCleanup => "cleanup" \notin q.open
    /\ pc \in AfterIdentity => "identity" \notin q.open

\* What is still open at the end is the binding of a call that returns.
Final ==
    pc \in {"conclude", "concluded"} =>
      /\ "lock" \notin q.set
      /\ q.open # {} => /\ q.open \subseteq {"binding", "decoded"} /\ "retain" \in q.set
                        /\ Clean(q) /\ "exitFailed" \notin q.set

\* The inductive invariant.
Held ==
    /\ q \in States /\ "err" \notin q.set
    /\ pc \in {"validate", "conclude", "concluded", "done"} \cup UntilAnchors \cup AfterGenerations
    /\ "binding" \in q.open => "retain" \in q.set
    /\ pc = "validate" => q.open = {} /\ "lock" \notin q.set
    /\ Anchored /\ Released /\ Final
    /\ NothingLeaks

\* A part of the body may open some descriptors.
Grown(w, v, ds) ==
    /\ v \in States /\ w.open \subseteq v.open /\ v.open \subseteq w.open \cup ds
    /\ "retain" \in v.set <=> "retain" \in w.set

\* The same for all of the states a part may end in.
Grows(w, S, ds) == \A v \in S : Grown(w, v, ds)

\* The same for what a part may end in that only leaves descriptors and flags alone.
Alike(w, S) == \A v \in S : Like(w, v)

\* The cases of ProbeExchange after the two exchanges.
KeptBoth(w, a, x, b, y) == Then(IsolateEmpty(w, a, x), LAMBDA u : IsolateEmpty(u, b, y))
\* The probe alone is kept.
KeptProbe(w) == Then(IsolateEmpty(w, "probe", "probe"), May)

-----------------------------------------------------------------------------
(* The steps of the finally.                                               *)

\* A failure that was noted stays noted, nothing is published, and a hidden generation stays so.
Lasting(w, v) ==
    /\ \A f \in {"releaseFailed", "stated"} : f \in w.set => f \in v.set
    /\ \A f \in {"exitFailed", "housekept"} : f \in v.set <=> f \in w.set
    /\ Level(w, v) /\ Firm(w, v)

\* v is w without the descriptors ds.
Without(w, v, ds) ==
    /\ v \in States /\ v.open = w.open \ ds
    /\ "retain" \in v.set <=> "retain" \in w.set
    /\ Lasting(w, v)

\* v has the descriptors of w.
Kept(w, v) == Without(w, v, {})

\* The temporary query is removed, and the publication undone when that fails.
Unlinked == IF Has(q, "tempQuery") THEN May(q) ELSE {q}
Undone(w) == {Raise(v) : v \in RollbackAttempted(Require(w), "generations")}
Cleaned == Except(Unlinked, Undone)

\* What lasts through this step, which notes that it worked.
Tended(w, v) ==
    /\ \A f \in {"releaseFailed", "stated"} : f \in w.set => f \in v.set
    /\ "exitFailed" \in v.set <=> "exitFailed" \in w.set
    /\ Level(w, v) /\ Firm(w, v)

-----------------------------------------------------------------------------
(* A call that returns.                                                    *)

\* The labels of a call that goes on, by where its directories are: before the pending
\* directory is made, ...
BeforePending == {"validate", "pin", "pending"}
\* ... before the rollback slot is, ...
BeforeSlot == {"query", "decode", "seal", "anchors", "noreplace", "slot"}
\* ... before the publication, ...
BeforeReplace == BeforePending \cup BeforeSlot \cup {"exchange", "replace"}
\* ... before the pending name is found free, ...
BeforeFinalize == {"commit", "housekeeping", "early", "slotEarly", "pendingEarly",
                   "generations", "cleanupAnchor", "rollback", "finalize"}
\* ... before the slot moves into the generation, ...
BeforeRetire == {"pendingLate", "anchor", "retire"}
\* ... and after that.
AfterRetire == {"slotLate", "cleanup", "identity", "drain", "conclude", "concluded"}

\* The call can only raise.
Doomed ==
    \/ q.set \cap {"exitFailed", "releaseFailed"} # {}
    \/ pc \notin BodyLabels \cup {"validate", "housekeeping"} /\ "housekept" \notin q.set

\* A rename by somebody else that the call is going to find.
Astray(w, g, s) ==
    \/ g # "nowhere" /\ w.where["generation"] = "away"
    \/ s # "nowhere" /\ w.where["slot"] = "away"
    \/ /\ g = "normal" /\ w.where["generation"] = "normal"
       /\ \E x \in Foreign : w.where[x] = "pending"

\* Where the directories are without such a rename.
Placed(w, g, s, p) ==
    /\ w.where["generation"] = g /\ w.where["slot"] = s /\ w.where["probe"] = p
    /\ \A x \in Foreign : w.where[x] = "nowhere"

\* Where they are after at most one.
Lay(w, g, s, p) ==
    /\ w.edits = 0 => Placed(w, g, s, p)
    /\ w.edits = 1 => Astray(w, g, s)

\* Where the directories of a call are that goes on.
Course(w, label) ==
    /\ label \in BeforePending => Lay(w, "nowhere", "nowhere", "nowhere")
    /\ label \in BeforeSlot => Lay(w, "pending", "nowhere", "nowhere")
    /\ label = "exchange" => Lay(w, "pending", "slot", "nowhere")
    /\ label = "replace" => Lay(w, "pending", "slot", "inside")
    /\ label \in BeforeFinalize \cup BeforeRetire => Lay(w, "normal", "slot", "inside")
    /\ label \in BeforeRetire /\ w.edits = 1 => "away" \in {w.where["generation"], w.where["slot"]}
    /\ label \in AfterRetire /\ w.edits = 0 => Placed(w, "normal", "inside", "inside")

\* What such a call has noted, and what it holds.
Noted(w, label) ==
    /\ w.set \cap {"resolved", "rollbackFailed"} = {}
    /\ "attempted" \in w.set <=> label \notin BeforeReplace
    /\ label \in BeforeReplace \cup {"commit", "housekeeping"} => "housekept" \notin w.set
    /\ label \notin BodyLabels \cup {"validate"} => "committed" \in w.set /\ "required" \notin w.set
    /\ label \in BeforeSlot \cup {"exchange", "replace"} \cup BeforeFinalize =>
         "bound" \in w.set /\ "identity" \in w.open
    /\ label \in BeforeFinalize \cup {"pendingLate", "anchor"} => "anchor" \in w.open

\* A call that goes on.
Fair(w, label) ==
    /\ w \in States /\ w.set \cap {"exitFailed", "releaseFailed", "err"} = {}
    /\ Course(w, label) /\ Noted(w, label)

\* The invariant.
Smooth ==
    /\ pc # "done" => outcome = "running"
    /\ pc \in BodyLabels \cup {"validate"} => ~Doomed
    /\ pc # "done" /\ ~Doomed =>
         /\ first = "none" /\ (q.edits = 0 => edited = "none")
         /\ pc \in AfterRetire /\ q.edits = 1 => edited = "retire"
         /\ Fair(q, pc)
    /\ ReturnedIsPublished

\* The labels of the finally after the housekeeping.
Later == (BeforeFinalize \ {"commit", "housekeeping"}) \cup BeforeRetire \cup AfterRetire

\* v is w without the descriptor x, or a failure is remembered.
Handed(w, v, x) ==
    /\ v \in States
    /\ \/ "releaseFailed" \in v.set
       \/ /\ v = Close(w, {x}) /\ v.where = w.where /\ v.edits = w.edits /\ v.set = w.set
          /\ v.open = w.open \ {x}

\* What somebody else may do, told by the number of his renames.
Onward(w, v) ==
    /\ v \in States /\ v.set = w.set /\ v.open = w.open /\ v.edits >= w.edits
    /\ v.edits = w.edits => v.where = w.where

-----------------------------------------------------------------------------
(* What it takes to leave a published generation under its normal name.    *)

\* Unless somebody else renamed, a generation that is still shown has cost a failure.
Costly(w, v) == Shown(v) /\ v.edits = w.edits => v.faults > w.faults

\* What can still be undone through the descriptor d.
Undoable(w, d) ==
    w \in States /\ ~Has(w, "err") /\ Unique(w) /\ Unresolved(w) /\ d \in w.open /\ Owned(w)

\* The slot is at hand, or not needed any more.
Rigged(w) == w.where["slot"] = "slot" \/ "retired" \in w.set

\* A rollback is required, or a failure was remembered.
Pressing(w) == w.set \cap {"required", "releaseFailed"} # {}

-----------------------------------------------------------------------------
(* A call that raises, and what somebody else has put under its names.     *)

\* The steps whose failure a rollback does not answer.
Excluded == {"commit", "anchor", "cleanup", "identity", "drain", "conclude"}

\* Few enough failures and renames.
Slight(w) == (w.edits = 0 /\ w.faults <= 3) \/ (w.faults = 0 /\ w.edits <= 1)

\* Nothing was published, and nothing has the normal name.
Vacant(w) == "attempted" \notin w.set /\ \A x \in Nodes : w.where[x] # "normal"

\* The name under which a directory is made.
Home(x) == IF x = "generation" THEN "pending" ELSE x

\* The directories of X are not made yet, and nobody has their names.
Lacking(w, X) == \A x \in X : w.where[x] = "nowhere" /\ \A y \in Nodes : w.where[y] # Home(x)

\* Before the publication.
Neat(w, X) == Unique(w) /\ Tame(w) /\ Vacant(w) /\ Lacking(w, X)

\* The directories a label of the body still has to make.
Missing(label) ==
    (IF label \in BeforePending THEN {"generation"} ELSE {})
      \cup (IF label \in BeforePending \cup BeforeSlot THEN {"slot"} ELSE {})
      \cup (IF label \in BeforePending \cup BeforeSlot \cup {"exchange"} THEN {"probe"} ELSE {})

\* A generation that is shown can be undone.
Afloat(w) ==
    Shown(w) =>
      /\ {"attempted", "stated"} \subseteq w.set /\ "resolved" \notin w.set
      /\ w.edits = 0 => Rigged(w)

\* A call of which nothing has failed goes on; after a failure there was one.
Told ==
    /\ pc # "done" /\ first = "none" => ~Doomed
    /\ "attempted" \in q.set /\ first # "none" /\ pc \in BeforeFinalize \cup BeforeRetire =>
         q.edits + q.faults >= 1
    /\ outcome = "raised" => first # "none"

\* The descriptors for the recovery are open as long as it may be needed.
Supplied ==
    /\ pc \in {"noreplace", "slot", "exchange", "replace"} => "rollback" \in q.open
    /\ "attempted" \in q.set /\ pc \in BeforeFinalize => {"anchor", "identity"} \subseteq q.open
    /\ first = "none" =>
         /\ pc \in BeforeFinalize \ {"rollback", "finalize"} => "rollback" \in q.open
         /\ pc \in {"rollback", "finalize", "slotLate"} \cup BeforeRetire =>
              q.open \cap {"binding", "cleanup"} # {}
         /\ pc \in {"slotLate"} \cup BeforeRetire => "identity" \in q.open
         /\ pc = "slotLate" => {"retiring", "retired"} \subseteq q.set

\* A generation that is still shown after a failure is going to be undone.
Sunk ==
    Shown(q) /\ Slight(q) /\ first \notin {"none"} \cup Excluded =>
      pc \in BeforeFinalize \ {"commit"} /\ Pressing(q)

\* The invariant.
Backed ==
    /\ Unique(q) /\ Tame(q)
    /\ pc \in BeforeReplace => Neat(q, Missing(pc))
    /\ Afloat(q) /\ Told /\ Supplied /\ Sunk

\* The directories that a call makes.
OwnNodes == {"generation", "slot", "probe"}

\* The states a part before the publication may end in; D stays open.
Tidy(S, X, D) == \A v \in S : v \in States /\ Neat(v, X) /\ D \subseteq v.open

\* After the rename, whether it took effect or not.
Borne(w) ==
    /\ w \in States /\ Unique(w) /\ Tame(w) /\ Afloat(w)
    /\ {"attempted", "stated"} \subseteq w.set /\ {"anchor", "identity", "rollback"} \subseteq w.open

\* A failure there is one that counts.
Counted(w) == Has(w, "err") => w.edits + w.faults >= 1

-----------------------------------------------------------------------------
(* The finally, and what is shown after a failure.                         *)

\* A step of the finally notes the first failure, and only that.
Moving ==
    /\ outcome' = outcome
    /\ first # "none" => first' = first
    /\ first = "none" => first' \in {"none", pc}
    /\ first' = "none" => first = "none" /\ q'.set \cap {"exitFailed", "releaseFailed"} = {}

\* Somebody else has not renamed, and what is remembered has cost a failure.
Priced(w, v) ==
    v.faults = 0 => v.edits = w.edits /\ ("releaseFailed" \in v.set => "releaseFailed" \in w.set)

\* A failure was paid for, or nothing happened.
Paid(w, v) ==
    /\ w \in States /\ v \in States
    /\ \/ v.faults > w.faults
       \/ v.edits = w.edits /\ ("releaseFailed" \in v.set => "releaseFailed" \in w.set)

\* With the final anchor: the pending name, before any recovery.
Checked == Except(FinalizePending(q), LAMBDA w : {Require(Remember(w))})

\* The retirement of the slot, before any recovery.
AtHand(w) == {IF At(w, "slot") = "slot" THEN w ELSE Raise(w)}
Again(w) == Then(RequirePublished(w), LAMBDA u : RequireAbsent(u, "slot"))
Ready == Then(RequirePublished(Set(q, {"retiring"})), AtHand)
Retired == Then(Then(Ready, MoveSlot), Again)
=============================================================================
