------------------------- MODULE QueryPublication -------------------------
(***************************************************************************)
(* One call of run_query (dosweb/codeql/runner.py): a CodeQL query is run  *)
(* and decoded in a pending directory below .generations, the directory is *)
(* renamed to its normal name, and everything the call holds is given back.*)
(* A failure after the rename hides the generation again: by a no-replace  *)
(* rename, else by an exchange with a rollback slot made beforehand, else  *)
(* by a last isolation; and all of that is tried again as the descriptors  *)
(* that allow it are closed one by one.                                    *)
(*                                                                         *)
(* Names of .generations are places, directories are nodes.  A part of the *)
(* code that may fail at several points is an operator from a state of the *)
(* call to the set of states it may end in; err says that it raised.  What *)
(* may fail is every call into the operating system, every validation and  *)
(* every deadline check: MaxFaults bounds them together.  Somebody else    *)
(* with the same user id may rename what a name holds and put a directory  *)
(* of his own there, between any two calls: MaxEdits bounds that.          *)
(*                                                                         *)
(* Fresh random names do not collide, so that no retry after EEXIST is     *)
(* modelled.                                                               *)
(***************************************************************************)
EXTENDS Naturals, FiniteSets

CONSTANTS
    Foreign,        \* directories of somebody else
    MaxFaults,      \* calls and checks that fail
    MaxEdits        \* renames by somebody else

ASSUME QueryAssumption ==
    /\ Foreign \cap {"generation", "slot", "probe", "none"} = {}
    /\ MaxFaults \in Nat /\ MaxEdits \in Nat

VARIABLES
    q,              \* the state of the call and of .generations
    pc,             \* the next step
    outcome,        \* "running", "returned" or "raised"
    first,          \* history: the step that failed first, or "none"
    edited          \* history: the step in which somebody else first renamed

vars == <<q, pc, outcome, first, edited>>

Nodes == {"generation", "slot", "probe"} \cup Foreign
Names == {"pending", "normal", "slot", "probe"}

\* "hidden" is any other hidden name of .generations, "inside" a tombstone
\* in the generation directory, "away" where somebody else renamed it to.
Places == Names \cup {"nowhere", "hidden", "inside", "away"}

Descriptors == {"generations", "pending", "identity", "decoded", "rollback", "anchor",
                "cleanup", "slot", "binding"}

\* _PublicationReplaceState and the locals of run_query.
Flags == {"retain",             \* retain_output_binding
          "bound",              \* pending_info is known
          "slotNamed",          \* rollback_slot_name and rollback_slot_info are known
          "tempQuery",          \* execution_query was written beside the query
          "stated",             \* publication_state exists
          "attempted", "required", "started", "retired", "resolved",
          "committed",
          "exitFailed",         \* publication_exit_failure
          "housekept",          \* housekeeping_succeeded
          "releaseFailed", "rollbackFailed",
          "retiring",           \* slot_recovery_anchor is set
          "lock",               \* binding.lock is held
          "err"}                \* the part of the code just run has raised

Calls == [where : [Nodes -> Places], open : SUBSET Descriptors, set : SUBSET Flags,
          faults : 0..MaxFaults, edits : 0..MaxEdits]

Has(w, f) == f \in w.set
Set(w, fs) == [w EXCEPT !.set = @ \cup fs]
Clear(w, fs) == [w EXCEPT !.set = @ \ fs]
Raise(w) == Set(w, {"err"})
Put(w, x, place) == [w EXCEPT !.where = [@ EXCEPT ![x] = place]]
Open(w, ds) == [w EXCEPT !.open = @ \cup ds]
Close(w, ds) == [w EXCEPT !.open = @ \ ds]

\* What os.stat(name, dir_fd=...) finds.
At(w, name) ==
    IF \E x \in Nodes : w.where[x] = name
    THEN CHOOSE x \in Nodes : w.where[x] = name ELSE "none"

\* A descriptor still identifies the generation directory.
Owned(w) == w.open \cap {"pending", "identity"} # {}

-----------------------------------------------------------------------------
(* Sequencing of parts that may raise.                                     *)

Then(S, Op(_)) == UNION {IF Has(w, "err") THEN {w} ELSE Op(w) : w \in S}

Except(S, Op(_)) == UNION {IF Has(w, "err") THEN Op(Clear(w, {"err"})) ELSE {w} : w \in S}

Faults(w) == IF w.faults < MaxFaults THEN {[w EXCEPT !.faults = @ + 1]} ELSE {}

\* A check or a call without effect on the names: it may raise.
May(w) == {w} \cup {Raise(v) : v \in Faults(w)}

\* Nobody knows a random name before it is there.
Known(w) ==
    {n \in {"pending", "normal", "slot"} :
       \/ n = "pending" /\ w.where["generation"] # "nowhere"
       \/ n = "slot" /\ w.where["slot"] # "nowhere"
       \/ n = "normal" /\ Has(w, "attempted")}

\* Somebody else renames what a name holds, takes a free name, or both.
Outside(w) ==
    LET freed(n) == IF At(w, n) = "none" THEN w ELSE Put(w, At(w, n), "away")
        taken(n) == ({freed(n)} \ {w}) \cup {Put(freed(n), f, n) : f \in {g \in Foreign : w.where[g] = "nowhere"}}
    IN  {w} \cup
        IF w.edits < MaxEdits
        THEN {[v EXCEPT !.edits = @ + 1] : v \in UNION {taken(n) : n \in Known(w)}}
        ELSE {}

\* A rename that reports what it did, fails, or takes effect and is then
\* interrupted.
Effect(w, moved) == {moved} \cup {Raise(v) : v \in Faults(w) \cup Faults(moved)}

\* renameat2_no_replace to a fresh name.
Rename(w, name, place) ==
    IF At(w, name) = "none" THEN {Raise(w)} ELSE Effect(w, Put(w, At(w, name), place))

\* renameat2_exchange.
Exchange(w, a, b) ==
    IF "none" \in {At(w, a), At(w, b)} THEN {Raise(w)}
    ELSE Effect(w, Put(Put(w, At(w, a), b), At(w, b), a))

\* _require_name_absent
RequireAbsent(w, name) ==
    {IF At(v, name) = "none" THEN v ELSE Raise(v) : v \in Outside(w)}

-----------------------------------------------------------------------------
(* Isolation of a leaf.                                                    *)

\* Mutant: what the rename caught stays where it is.
RestoreNothing(w, x, name) == {Raise(w)}

\* restore_unrelated: back to the name it came from, if the name is free.
Restore(w, x, name) ==
    {Raise(v) : v \in IF At(w, name) = "none" THEN Effect(w, Put(w, x, name)) ELSE {w}}

\* _isolate_bound_leaf_no_replace: what the rename moved decides, not
\* whether it raised.
IsolateLeaf(w, name, x, place) ==
    UNION {UNION {
        LET moved == {y \in Nodes : v.where[y] = name /\ u.where[y] = place} IN
          IF moved = {} THEN {Raise(u)}
          ELSE IF moved = {x} THEN RequireAbsent(Clear(u, {"err"}), name)
          ELSE Restore(Clear(u, {"err"}), CHOOSE y \in moved : TRUE, name)
        : u \in Rename(v, name, place)} : v \in Outside(w)}

\* _isolate_bound_empty_directory_no_replace: into the generation.
IsolateEmpty(w, name, x) ==
    Then({IF At(v, name) = x THEN v ELSE Raise(v) : v \in May(w)},
         LAMBDA v : Then(IsolateLeaf(v, name, x, "inside"), May))

\* _cleanup_bound_pending_generation: what is still there is kept and reported.
KeepBound(w, name) == RequireAbsent(w, name)

\* finalize_pending_generation
FinalizePending(w) ==
    IF Has(w, "bound") /\ Owned(w) THEN KeepBound(w, "pending") ELSE {w}

-----------------------------------------------------------------------------
(* Rollback of a published generation.                                     *)

\* exchange_phase
Phase(w) ==
    CASE At(w, "normal") = "generation" /\ At(w, "slot") = "slot" -> "prepared"
      [] At(w, "normal") = "slot" /\ At(w, "slot") = "generation" -> "exchanged"
      [] At(w, "normal") = "none" /\ At(w, "slot") = "generation" -> "removed"
      [] OTHER -> "ambiguous"

\* The placeholder that took the normal name is renamed to a hidden one; that
\* it is kept is then reported as an error.
RemovePlaceholder(w) == {Raise(v) : v \in IsolateLeaf(w, "normal", "slot", "hidden")}

\* The exchange with the slot, when the no-replace rename did not work.
ExchangeSlot(w) ==
    UNION {
      IF At(v, "slot") # "slot" THEN {Raise(v)}
      ELSE UNION {IF Phase(u) # "exchanged" THEN {Raise(u)}
                  ELSE Then(May(Clear(u, {"err"})), RemovePlaceholder)
                  : u \in Exchange(v, "normal", "slot")}
      : v \in Outside(w)}

\* The no-replace rename to a hidden name.  An OSError without effect leads to
\* the exchange, any other exception out.
HidePublished(w) ==
    UNION {UNION {
      IF ~Has(u, "err") \/ At(u, "normal") = "none" THEN {Raise(u)}
      ELSE IF At(u, "normal") # "generation" THEN {u}
      ELSE {u} \cup ExchangeSlot(Clear(u, {"err"}))
      : u \in Rename(v, "normal", "hidden")} : v \in Outside(w)}

\* _rollback_published_generation.  It always raises, at the latest to report
\* that the hidden generation is kept (_cleanup_rollback_quarantine).
RollbackPublished(w) ==
    Then(May(w), LAMBDA v :
      CASE Phase(v) = "prepared" -> HidePublished(v)
        [] Phase(v) = "exchanged" -> Then(May(v), RemovePlaceholder)
        [] OTHER -> {Raise(v)})

Resolve(w) == Clear(Set(w, {"resolved"}), {"required", "committed"})

\* Mutant: a failed rollback is taken for a hidden generation.
ResolveAnyway(w, raised) == {IF raised THEN Raise(Resolve(w)) ELSE Resolve(w)}

\* require_expected_generation_not_normal, then the state is settled; an
\* exception on the way out stays one.
ResolveIfHidden(w, raised) ==
    {IF Has(v, "err") THEN v ELSE IF raised THEN Raise(Resolve(v)) ELSE Resolve(v)
     : v \in RequireAbsent(w, "normal")}

\* force_descriptor_bound_recovery
ForceRecovery(w, d) ==
  IF d \notin w.open \/ ~Owned(w) THEN {Raise(w)} ELSE
    UNION {
      LET there == At(v, "normal") IN
        CASE there = "none" -> ResolveIfHidden(v, FALSE)
          [] there \in {"generation", "slot"} ->
               UNION {ResolveIfHidden(Clear(u, {"err"}), TRUE)
                      : u \in IsolateLeaf(v, "normal", there, "hidden")}
          [] OTHER -> ResolveIfHidden(v, TRUE)
      : v \in Outside(w)}

Unresolved(w) == Has(w, "attempted") /\ ~Has(w, "resolved")

\* rollback_attempted_publication
RollbackAttempted(w, d) ==
    IF ~Unresolved(w) THEN {w}
    ELSE IF Has(w, "retired") THEN ForceRecovery(w, d)
    ELSE IF d \notin w.open THEN {Raise(w)}
    ELSE IF Has(w, "started") THEN RollbackPublished(w)
    ELSE UNION {
           CASE At(v, "normal") = "generation" -> RollbackPublished(Set(v, {"started"}))
             [] At(v, "pending") = "generation" /\ At(v, "normal") = "none" -> {Resolve(v)}
             [] OTHER -> {Raise(v)}
           : v \in Outside(w)}

\* recover_attempted_publication
RecoverAttempted(w, d) ==
    IF ~Unresolved(w) THEN {w}
    ELSE IF Has(w, "retired") THEN ForceRecovery(w, d)
    ELSE IF d \notin w.open \/ ~Owned(w) THEN {Raise(w)}
    ELSE UNION {
           IF At(v, "normal") = "generation" \/ Has(v, "started")
           THEN UNION {ResolveIfHidden(Clear(u, {"err"}), TRUE)
                       : u \in RollbackPublished(Set(v, {"started"}))}
           ELSE IF At(v, "pending") = "generation" /\ At(v, "normal") = "none"
           THEN UNION {IF Has(u, "err") THEN ResolveIfHidden(Clear(u, {"err"}), TRUE)
                       ELSE {Resolve(u)} : u \in FinalizePending(v)}
           ELSE IF At(v, "pending") # "none" THEN {Raise(v)}
           ELSE ResolveIfHidden(v, FALSE)
           : v \in Outside(w)}

-----------------------------------------------------------------------------
(* What the release of the descriptors does about the publication; d is the *)
(* descriptor of .generations it works through.                            *)

\* attempt_rollback
AttemptRollback(w, d) ==
    {IF Has(v, "err") THEN Clear(Set(v, {"rollbackFailed"}), {"err"})
     ELSE Clear(v, {"rollbackFailed"}) : v \in RollbackAttempted(w, d)}

\* recover_with_anchor
RecoverWithAnchor(w, d) ==
    LET troubled(v, also) ==
          Unresolved(v) /\ (v.set \cap ({"required", "releaseFailed"} \cup also) # {}
                            \/ ~Has(v, "committed"))
    IN  UNION {
          IF troubled(v, {"rollbackFailed"})
          THEN {IF Has(u, "err") THEN Clear(Set(u, {"rollbackFailed"}), {"err"})
                ELSE Clear(u, {"rollbackFailed"}) : u \in RecoverAttempted(v, d)}
          ELSE {v}
          : v \in IF troubled(w, {}) THEN AttemptRollback(w, d) ELSE {w}}

\* Mutant: no last isolation.
ForceNever(w, d) == {w}

\* force_with_anchor
ForceWithAnchor(w, d) ==
    IF /\ Unresolved(w)
       /\ \/ w.set \cap {"required", "rollbackFailed", "releaseFailed"} # {}
          \/ ~Has(w, "committed")
    THEN Except(ForceRecovery(w, d), LAMBDA v : {Set(v, {"rollbackFailed"})})
    ELSE {w}

Recover(w, d) == UNION {ForceWithAnchor(v, d) : v \in RecoverWithAnchor(w, d)}

\* remember_release_failure, with the rollback that the state, if there is
\* one, now requires.
Require(w) == IF Has(w, "stated") THEN Set(w, {"required"}) ELSE w
Remember(w) == Set(w, {"releaseFailed"})

RequiredRollback(w, d) == IF Has(w, "stated") THEN AttemptRollback(Require(w), d) ELSE {w}
RequiredRecovery(w, d) == IF Has(w, "stated") THEN Recover(Require(w), d) ELSE {w}

\* What a failed close has done about the publication.
Undo(w, how, d) ==
    CASE how = "rollback" -> RequiredRollback(w, d)
      [] how = "recovery" -> RequiredRecovery(w, d)
      [] how = "nothing" -> {w}

\* release_descriptor: the descriptor x is closed once.  When the close fails
\* before it acts, before is done while x is still open and the fallback closes
\* it; when it fails after it acted, after is done; both through d.
Release(w, x, before, after, d) ==
    {Close(w, {x})}
      \cup {Remember(Close(v, {x})) : v \in UNION {Undo(u, before, d) : u \in Faults(w)}}
      \cup UNION {Undo(Remember(Close(u, {x})), after, d) : u \in Faults(w)}

-----------------------------------------------------------------------------
(* The body of run_query.                                                  *)

Init ==
    /\ \E retain \in SUBSET {"retain"} :
         q = [where |-> [x \in Nodes |-> "nowhere"], open |-> {}, set |-> retain,
              faults |-> 0, edits |-> 0]
    /\ pc = "validate"
    /\ outcome = "running"
    /\ first = "none" /\ edited = "none"

Failed(w) == w.set \cap {"exitFailed", "releaseFailed", "rollbackFailed"} # {}

\* A step of the call ends in one of the states S.
Step(S, next(_)) ==
    \E v \in S :
      /\ q' = Clear(v, {"err"})
      /\ pc' = next(v)
      /\ first' = IF first = "none" /\ (Has(v, "err") \/ Failed(v)) THEN pc ELSE first
      /\ edited' = IF edited = "none" /\ v.edits # q.edits THEN pc ELSE edited
      /\ UNCHANGED outcome

\* A step of the body: an exception leads to the finally of run_query.
Body(label, S, next) ==
    /\ pc = label
    /\ Step({IF Has(v, "err") THEN Set(v, {"exitFailed"}) ELSE v : v \in S},
            LAMBDA v : IF Has(v, "err") THEN "housekeeping" ELSE next)

\* The arguments, the query source, the output directory and the database,
\* before the call holds anything.
Validate ==
    /\ pc = "validate"
    /\ \E v \in May(q) :
         /\ q' = Clear(v, {"err"})
         /\ IF Has(v, "err")
            THEN pc' = "done" /\ outcome' = "raised" /\ first' = "validate"
            ELSE pc' = "pin" /\ UNCHANGED <<outcome, first>>
    /\ UNCHANGED edited

\* The lock of the execution database and the descriptor of .generations.
Pin == Body("pin", Then(May(Set(q, {"lock"})), LAMBDA w : {Open(w, {"generations"})}), "pending")

\* The pending directory, its descriptor and its identity anchor.  A directory
\* whose descriptor could not be opened is not looked at again.
MakePending ==
    LET made == Then(May(q), LAMBDA w : {Put(w, "generation", "pending")})
        opened == Then(Then(made, May), LAMBDA w : {Set(Open(w, {"pending"}), {"bound"})})
        current(w) == {IF At(v, "pending") = "generation" THEN v ELSE Raise(v) : v \in Outside(w)}
        anchored == Then(Then(Then(opened, current), May), LAMBDA w : {Open(w, {"identity"})})
    IN  Body("pending", anchored, "query")

\* The query snapshot, query run, and the databases and the query afterwards:
\* a failed query is reported after the databases are found unchanged.
RunQuery == Body("query", Then(May(q), LAMBDA w : May(Set(w, {"tempQuery"}))), "decode")

\* bqrs decode; the decoded file is pinned and read.
Decode == Body("decode", Then(May(q), LAMBDA w : May(Open(w, {"decoded"}))), "seal")

\* The databases again, the hash of the BQRS file, and fsync of every file.
Seal == Body("seal", May(q), "anchors")

\* acquire_rollback_anchors, and the pending directory is still the one.
AcquireAnchors ==
    LET both == Then(Then(Then(May(q), LAMBDA w : {Open(w, {"rollback"})}), May),
                     LAMBDA w : {Open(w, {"anchor"})})
        current(w) == {IF At(v, "pending") = "generation" THEN v ELSE Raise(v) : v \in Outside(w)}
    IN  Body("anchors", Then(both, current), "noreplace")

\* _probe_rename_noreplace: a directory of its own, renamed and then kept.
ProbeNoReplace == Body("noreplace", May(q), "slot")

\* The rollback slot, its inode and its descriptor.
MakeSlot ==
    LET made == Then(May(q), LAMBDA w : {Put(w, "slot", "slot")})
        named == Then(Then(made, May), LAMBDA w : {Set(w, {"slotNamed"})})
        opened == Then(Then(named, May), LAMBDA w : {Open(w, {"slot"})})
        current(w) == {IF At(v, "slot") = "slot" THEN v ELSE Raise(v) : v \in Outside(w)}
    IN  Body("slot", Then(opened, current), "exchange")

\* _probe_rename_exchange: slot and probe are exchanged and exchanged back.
\* Then the probe, and after a failure the slot too, is kept in the generation.
ProbeExchange ==
    LET swap(w) == Exchange(w, "slot", "probe")
        back(w) == IF At(w, "slot") = "probe" THEN swap(w) ELSE {Raise(w)}
        failing(w, S) == IF Has(w, "err") THEN {Raise(v) : v \in S} ELSE S
        clean(w) ==
          LET v == Clear(w, {"err"})
              both(a, x, b, y) == Then(IsolateEmpty(v, a, x), LAMBDA u : IsolateEmpty(u, b, y))
          IN  CASE At(w, "slot") = "slot" /\ At(w, "probe") = "probe" ->
                     failing(w, IF Has(w, "err") THEN both("slot", "slot", "probe", "probe")
                                ELSE Then(IsolateEmpty(v, "probe", "probe"), May))
                [] At(w, "slot") = "probe" /\ At(w, "probe") = "slot" ->
                     failing(w, both("slot", "probe", "probe", "slot"))
                [] OTHER -> {Raise(w)}
        made == Then(May(q), LAMBDA w : {Put(w, "probe", "probe")})
    IN  Body("exchange",
             Then(Then(made, May),
                  LAMBDA w : UNION {clean(v) : v \in Then(UNION {swap(u) : u \in Outside(w)}, back)}),
             "replace")

\* The last checks, then os.replace, which takes a name as it finds it; any
\* exception from here to the commit rolls the publication back.
Replace ==
    LET stated == Then(May(q), LAMBDA w : May(Set(w, {"stated"})))
        renamed(w) ==
          UNION {Rename(Set(v, {"attempted", "required"}), "pending", "normal") : v \in Outside(w)}
        confirmed(w) == May(w)
        undone(w) == {Raise(v) : v \in RollbackAttempted(Set(w, {"required"}), "generations")}
    IN  Body("replace",
             UNION {IF Has(w, "err") THEN {w}
                    ELSE Except(Then(renamed(w), confirmed), undone) : w \in stated},
             "commit")

\* _pin_query_output_binding: a descriptor of the generation found under its
\* normal name, and the decoded file, compared with what was published.
PinOutputBinding(w) ==
    LET current(v) == {IF At(u, "normal") = "generation" THEN u ELSE Raise(u) : u \in Outside(v)}
    IN  Then(Then(May(w), current), LAMBDA v : May(Open(v, {"binding"})))

\* committed, and the output binding if the caller wants it.
Commit ==
    LET w == Clear(Set(q, {"committed"}), {"required"})
    IN  Body("commit", IF Has(w, "retain") THEN PinOutputBinding(w) ELSE {w}, "housekeeping")

-----------------------------------------------------------------------------
(* The finally of run_query.                                               *)

\* A step of the finally, where no exception gets out of a part.
Finally(label, S, next) == pc = label /\ Step(S, LAMBDA v : next)

Reported(S) == Except(S, LAMBDA v : {Remember(v)})

\* The temporary query is removed; when that fails the publication goes too.
Housekeeping ==
    LET unlinked == IF Has(q, "tempQuery") THEN May(q) ELSE {q}
        undone(w) == {Raise(v) : v \in RollbackAttempted(Require(w), "generations")}
    IN  Finally("housekeeping",
                {IF Has(v, "err") THEN v ELSE Set(v, {"housekept"}) : v \in Except(unlinked, undone)},
                "early")

\* Without rollback anchors nothing was published: the pending directory is
\* kept and reported.
FinalizeEarly ==
    Finally("early",
            IF "anchor" \in q.open THEN {q} ELSE Reported(FinalizePending(q)), "slotEarly")

\* A slot that no publication needs any more is kept in the generation.
RetireSlotEarly ==
    LET kept(w) ==
          UNION {CASE At(v, "slot") = "none" -> {v}
                   [] At(v, "slot") = "slot" /\ Owned(v) /\ "slot" \in v.open ->
                        IsolateEmpty(v, "slot", "slot")
                   [] OTHER -> {Raise(v)}
                 : v \in Outside(w)}
    IN  Finally("slotEarly",
                IF ~Unresolved(q) /\ "generations" \in q.open /\ Has(q, "slotNamed")
                THEN Except(kept(q), LAMBDA v : RequiredRollback(Remember(v), "generations"))
                ELSE {q},
                "pendingEarly")

\* Without rollback anchors the descriptors of the pending directory go first.
ReleasePendingEarly ==
    LET release(w, d) == IF d \in w.open THEN Release(w, d, "nothing", "nothing", d) ELSE {w} IN
      Finally("pendingEarly",
              IF "anchor" \in q.open THEN {q}
              ELSE UNION {release(v, "identity") : v \in release(q, "pending")},
              "generations")

ReleaseGenerations ==
    Finally("generations",
            IF "generations" \in q.open
            THEN Release(q, "generations", "rollback", "rollback", "rollback") ELSE {q},
            "cleanupAnchor")

\* A last descriptor for the slot, when the output binding does not hold one.
DuplicateCleanupAnchor ==
    Finally("cleanupAnchor",
            IF {"rollback", "anchor"} \subseteq q.open /\ "binding" \notin q.open
            THEN {Open(q, {"cleanup"})}
                   \cup UNION {RequiredRollback(Remember(v), "anchor") : v \in Faults(q)}
            ELSE {q},
            "rollback")

ReleaseRollback ==
    Finally("rollback",
            IF "rollback" \in q.open
            THEN Release(q, "rollback", "rollback", "rollback", "anchor") ELSE {q},
            "finalize")

\* With the final anchor: the pending name is free, and whatever failed so far
\* has the publication recovered.
FinalizePublication ==
    /\ pc = "finalize"
    /\ \/ /\ "anchor" \in q.open
          /\ Step(UNION {Recover(v, "anchor")
                         : v \in Except(FinalizePending(q), LAMBDA w : {Require(Remember(w))})},
                  LAMBDA v : "pendingLate")
       \/ /\ "anchor" \notin q.open
          /\ Step({q}, LAMBDA v : "drain")

ReleasePending ==
    Finally("pendingLate",
            IF "pending" \in q.open
            THEN Release(q, "pending", "recovery", "recovery", "anchor") ELSE {q},
            "anchor")

\* The final anchor: after it is closed a failed close cannot be undone.
ReleaseAnchor ==
    Finally("anchor", Release(q, "anchor", "rollback", "nothing", "anchor"), "retire")

CleanupAnchor(w) == IF "binding" \in w.open THEN "binding" ELSE "cleanup"

\* The slot of a publication that succeeded so far moves into the generation.
MoveSlot(w) ==
    UNION {UNION {
      LET moved == {y \in Nodes : v.where[y] = "slot" /\ u.where[y] = "inside"}
          r == Set(Clear(u, {"err"}), {"retired"})
      IN  IF moved = {"slot"} THEN RequireAbsent(r, "slot")
          ELSE IF moved # {} THEN Restore(r, CHOOSE y \in moved : TRUE, "slot")
          ELSE IF At(u, "slot") = "slot" THEN {Raise(u)}
          ELSE {Raise(r)}
      : u \in Rename(v, "slot", "inside")} : v \in Outside(w)}

\* Mutant: whatever has the normal name will do.
RequireSomethingPublished(w) ==
    {IF At(v, "normal") # "none" THEN v ELSE Raise(v) : v \in UNION {May(u) : u \in Outside(w)}}

\* require_published_generation_binding
RequirePublished(w) ==
    {IF At(v, "normal") = "generation" THEN v ELSE Raise(v) : v \in UNION {May(u) : u \in Outside(w)}}

\* When nothing has failed yet.
RetireSlot ==
    LET w == Set(q, {"retiring"})
        ready(v) == {IF At(v, "slot") = "slot" THEN v ELSE Raise(v)}
        again(v) == Then(RequirePublished(v), LAMBDA u : RequireAbsent(u, "slot"))
        retired == Then(Then(Then(RequirePublished(w), ready), MoveSlot), again)
    IN  Finally("retire",
                IF /\ q.set \cap {"releaseFailed", "rollbackFailed", "required"} = {}
                   /\ Has(q, "committed") /\ Unresolved(q)
                THEN Except(retired, LAMBDA v : Recover(Require(Remember(v)), CleanupAnchor(v)))
                ELSE {q},
                "slotLate")

ReleaseSlot ==
    LET recovery == IF Has(q, "retiring") THEN "recovery" ELSE "nothing"
        again(w) == IF Has(w, "retired") /\ ~Has(w, "resolved")
                    THEN Undo(w, recovery, CleanupAnchor(w)) ELSE {w}
        closed == Close(q, {"slot"})
    IN  Finally("slotLate",
                IF "slot" \in q.open
                THEN UNION {IF v = closed THEN {v} ELSE again(v)
                            : v \in Release(q, "slot", recovery, "nothing", CleanupAnchor(q))}
                ELSE {q},
                "cleanup")

ReleaseCleanup ==
    Finally("cleanup",
            IF "cleanup" \in q.open
            THEN Release(q, "cleanup", "recovery", "nothing", "cleanup") ELSE {q},
            "identity")

ReleaseIdentity ==
    Finally("identity",
            IF "identity" \in q.open THEN Release(q, "identity", "nothing", "nothing", "identity") ELSE {q},
            "drain")

\* A published generation, and nothing that failed since.
Clean(w) ==
    /\ {"housekept", "committed"} \subseteq w.set
    /\ w.set \cap {"releaseFailed", "rollbackFailed"} = {}

\* Mutant: the binding of a call whose body failed after the commit is kept.
DrainAfterRelease ==
    LET held == IF "binding" \in q.open
                THEN IF ~Clean(q) THEN {"binding", "decoded"} ELSE {}
                ELSE q.open \cap {"decoded"}
    IN  Finally("drain", {Clear(Close(q, held), {"lock"})}, "conclude")

\* The output binding of a call that failed, else the decoded file if the
\* binding does not hold it; then the lock.
Drain ==
    LET held == IF "binding" \in q.open
                THEN IF Has(q, "exitFailed") \/ ~Clean(q) THEN {"binding", "decoded"} ELSE {}
                ELSE q.open \cap {"decoded"}
        closed == {Close(q, held)}
                    \cup IF held = {} THEN {} ELSE {Remember(Close(v, held)) : v \in Faults(q)}
    IN  Finally("drain", {Clear(v, {"lock"}) : v \in closed}, "conclude")

\* emergency_recover_publication
EmergencyRecover(w) ==
    LET d == IF "anchor" \in w.open THEN "anchor"
             ELSE IF "rollback" \in w.open THEN "rollback" ELSE "generations"
        calm(S) == {Clear(v, {"err"}) : v \in S}
        one == calm(RollbackAttempted(Set(w, {"required"}), d))
        two == UNION {IF Unresolved(v) THEN calm(RecoverAttempted(v, d)) ELSE {v} : v \in one}
        three == UNION {IF Unresolved(v) THEN calm(ForceRecovery(v, d)) ELSE {v} : v \in two}
    IN  IF ~Unresolved(w) THEN {w}
        ELSE IF d \notin w.open THEN {Set(w, {"required", "rollbackFailed"})}
        ELSE {IF Unresolved(v) THEN Set(v, {"rollbackFailed"})
              ELSE Clear(v, {"rollbackFailed"}) : v \in three}

\* run_with_deferred_interrupts fails before it starts release_owned_state:
\* the publication is recovered, then everything held is closed.
EscapeBefore ==
    /\ pc = "early"
    /\ \E v \in Faults(q) :
         Step({Clear(Close(u, Descriptors), {"lock"}) : u \in EmergencyRecover(Remember(v))},
              LAMBDA u : "concluded")

\* It fails after release_owned_state is complete: a clean publication stays
\* one, anything else is reported.
EscapeAfter ==
    /\ pc = "conclude"
    /\ \E v \in Faults(q) :
         Step(IF Clean(q) THEN {v}
              ELSE {Close(u, Descriptors) : u \in EmergencyRecover(Remember(v))},
              LAMBDA u : "concluded")

\* Mutant: the finally loses an exception of the housekeeping.
ConcludeUnkept ==
    /\ pc \in {"conclude", "concluded"}
    /\ outcome' = IF Failed(q) THEN "raised" ELSE "returned"
    /\ pc' = "done" /\ UNCHANGED <<q, first, edited>>

\* What the caller sees: an exception of the body, of the housekeeping or of
\* the release; else a last check of the output directory, then the result.
Conclude ==
    /\ pc \in {"conclude", "concluded"}
    /\ \E v \in IF Failed(q) \/ ~Has(q, "housekept") THEN {Raise(q)}
                ELSE {q} \cup {Raise(Close(w, {"binding", "decoded"})) : w \in Faults(q)} :
         /\ q' = Clear(v, {"err"})
         /\ outcome' = IF Has(v, "err") THEN "raised" ELSE "returned"
         /\ first' = IF first = "none" /\ Has(v, "err") THEN "conclude" ELSE first
    /\ pc' = "done" /\ UNCHANGED edited

Finalization ==
    \/ Housekeeping \/ FinalizeEarly \/ RetireSlotEarly \/ ReleasePendingEarly
    \/ ReleaseGenerations \/ DuplicateCleanupAnchor \/ ReleaseRollback
    \/ FinalizePublication \/ ReleasePending \/ ReleaseAnchor \/ RetireSlot \/ ReleaseSlot
    \/ ReleaseCleanup \/ ReleaseIdentity \/ Drain \/ EscapeBefore \/ EscapeAfter

Next ==
    \/ Validate \/ Pin \/ MakePending \/ RunQuery \/ Decode \/ Seal \/ AcquireAnchors
    \/ ProbeNoReplace \/ MakeSlot \/ ProbeExchange \/ Replace \/ Commit
    \/ Finalization \/ Conclude

Spec == Init /\ [][Next]_vars

-----------------------------------------------------------------------------
(* Properties.                                                             *)

\* The state of the call has its type, and a name of .generations holds at most
\* one directory: no rename of run_query or of its probes ever replaces one.
TypeOK ==
    /\ q \in Calls
    /\ \A n \in Names : Cardinality({x \in Nodes : q.where[x] = n}) <= 1
    /\ outcome \in {"running", "returned", "raised"}

\* A call that raises leaves no generation under its normal name, although up to
\* three renames, checks and closes fail on the way: rollback_attempted_publication,
\* recover_attempted_publication and force_descriptor_bound_recovery back each
\* other up, and a fourth failure may be that of the last of them.  What comes
\* after the last descriptor that allows a rename, or after the commit, is left
\* out: the close of the final anchor, of the cleanup and of the identity anchor,
\* of the decoded file, and the check of the output directory before the return.
\* A rename by somebody else is a failure to recover from of its own, and then no
\* other one is asked for.
FailureHides ==
    /\ pc = "done" /\ outcome = "raised"
    /\ (q.edits = 0 /\ q.faults <= 3) \/ (q.faults = 0 /\ q.edits <= 1)
    /\ first \notin {"commit", "anchor", "cleanup", "identity", "drain", "conclude"}
    => At(q, "normal") # "generation"

\* A call that returns has published the directory it made, queried and decoded, its
\* slot lies inside it, and nothing failed that was not undone: an interrupted rename
\* that took effect (_publication_replace_completed) is the only failure a caller does
\* not see.  A rename by somebody else of the pending, the normal or the slot name at
\* any point before the slot is retired makes the call raise, unless a second rename
\* undoes it (require_published_generation_binding, _require_name_absent).
ReturnedIsPublished ==
    outcome = "returned" =>
        /\ first = "none" /\ Has(q, "committed") /\ ~Has(q, "resolved")
        /\ q.edits <= 1 => edited \in {"none", "retire"}
        /\ q.edits = 0 => At(q, "normal") = "generation" /\ q.where["slot"] = "inside"

\* A directory of somebody else that a rename of run_query caught is put back
\* under the name it had (restore_unrelated in _isolate_bound_leaf_no_replace),
\* or was published under the name of the generation and stays there: if nothing
\* fails, and unless yet another rename comes between the two.
ForeignKept ==
    pc = "done" /\ q.faults = 0 /\ q.edits <= 1 =>
        \A x \in Foreign : q.where[x] \in Names \cup {"nowhere"}

\* At its end a call has closed every descriptor it opened, whichever step failed,
\* except those of the output binding it returns, and has released the lock of the
\* execution database (release_owned_state, emergency_drain_after_entry_escape).
NothingLeaks ==
    pc = "done" =>
        /\ "lock" \notin q.set
        /\ q.open \subseteq
             IF outcome = "returned" /\ Has(q, "retain") THEN {"binding", "decoded"} ELSE {}

\* README.md:139-142: drift after the replacement hides the generation, "cleanup
\* failure can leave hidden state but never a normal published generation".  Drift
\* that only the output binding finds (runner.py:3484-3512) does not.
DriftAfterReplacementHides ==
    pc = "done" /\ first = "commit" => At(q, "normal") # "generation"

=============================================================================
