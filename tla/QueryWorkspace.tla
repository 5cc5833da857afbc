--------------------------- MODULE QueryWorkspace ---------------------------
(***************************************************************************)
(* The CodeQL queries of one stage (dosweb/production.py:                  *)
(* _CodeqlQueryWorkspace, _run_workspace_query, _run_codeql_family and the *)
(* entries executor).  A private directory is made below the output root,  *)
(* every query of the plan runs in it and leaves one generation, its       *)
(* decoded bytes are read through the binding run_query captured, and the  *)
(* directory is moved to a quarantine name at the end.                     *)
(*                                                                         *)
(* A chain of descriptors binds the ancestors of the output root, the      *)
(* output root, the workspace and its results.  Somebody else moves or     *)
(* replaces any of them, the generations and the decoded files, and may    *)
(* put them back.  The CodeQL command of a query is BoundedProcess; what   *)
(* run_query does around it is QueryPublication, of which this module      *)
(* keeps the outcomes: a bound generation, or a failure that may leave a   *)
(* hidden one.                                                             *)
(***************************************************************************)
EXTENDS BoundedProcess, Sequences

CONSTANTS
    Plan,               \* the queries in order
    Sidecars,           \* those whose failure leaves no gap row
    Modes,              \* "family", "formal", "exploratory"
    MaxMishaps          \* calls that fail and changes by others

Queries == {Plan[i] : i \in 1..Len(Plan)}

\* _pin_lexical_output_ancestry to results, in the order they are opened.
Levels == <<"ancestors", "output", "workspace", "results">>
LevelSet == {Levels[i] : i \in 1..4}

\* A plan names a query once.
ASSUME PlanAssumption ==
    /\ Plan \in Seq(Queries)
    /\ \A i, j \in 1..Len(Plan) : Plan[i] = Plan[j] => i = j
    /\ Queries \cap LevelSet = {}
    /\ MaxMishaps \in Nat

VARIABLES
    mode,       \* which executor, and config.allow_partial_codeql
    pc, at,     \* where the executor is; the query it is at
    chain,      \* of each level: "unopened", "bound" or "moved"
    where,      \* the name of the workspace
    decoded,    \* of each query: what its decoded name holds now
    generations,\* the directory .generations names
    home,       \* of each query: the one its generation is in
    hidden,     \* a hidden generation is in .generations
    held,       \* descriptors that are open
    bound,      \* query_bindings
    rows,       \* what was read of each query
    gaps, told, \* queries with a gap row; those in query_diagnostics
    error,      \* the exception in flight
    cleanups,   \* what the calls of the cleanup returned
    safe, stuck,\* safe of the cleanup; failed of the descriptor owner
    kept,       \* history: the decoded files at the inventory that let it isolate
    mishaps

files == <<chain, where, decoded, generations, home, hidden>>
read == <<rows, gaps, told>>
ending == <<cleanups, safe, stuck, kept>>
vars == <<process, mode, pc, at, files, held, bound, read, error, ending, mishaps>>

query == Plan[at]

Fault == mishaps < MaxMishaps /\ mishaps' = mishaps + 1
NoFault == UNCHANGED mishaps
Unless(condition) == (~condition /\ NoFault) \/ Fault

-----------------------------------------------------------------------------
(* Bindings.                                                               *)

\* _workspace_bindings_current: every descriptor is open and every name
\* leads to what it was opened as.
ChainCurrent == LevelSet \subseteq held /\ \A n \in LevelSet : chain[n] = "bound"

\* _bounded_decoded_descriptor and the hash over what it reads
SameBytes(q) == decoded[q] = "published"

\* _query_output_binding_current: the chain, .generations, the generation,
\* the decoded file and its bytes.
BindingCurrent(q) ==
    /\ ChainCurrent /\ q \in held
    /\ generations = home[q] /\ SameBytes(q)

\* Mutant: the bindings of the queries are not checked again.
InventoryOfNames == ChainCurrent /\ ~hidden

\* _workspace_has_safe_generation_inventory: no hidden entry.
SafeInventory ==
    /\ ChainCurrent /\ ~hidden
    /\ \A q \in bound : BindingCurrent(q)

Init ==
    /\ ProcessInit
    /\ mode \in Modes /\ pc = "create" /\ at = 1
    /\ chain = [n \in LevelSet |-> "unopened"]
    /\ generations = "first" /\ home = [q \in Queries |-> "first"]
    /\ where = "nowhere" /\ decoded = [q \in Queries |-> "absent"] /\ hidden = FALSE
    /\ held = {} /\ bound = {}
    /\ rows = [q \in Queries |-> "absent"] /\ gaps = {} /\ told = {}
    /\ error = "none" /\ cleanups = <<>> /\ safe = FALSE /\ stuck = FALSE
    /\ kept = [q \in Queries |-> "absent"] /\ mishaps = 0

-----------------------------------------------------------------------------
(* What others do.                                                         *)

\* A command reads nothing of the workspace that is modelled, so that a
\* change while it runs is a change when it has returned.
Elsewhere == Fault /\ caller \in {"idle", "returned"}

Moved(state) == IF state = "bound" THEN "moved" ELSE "bound"

MoveLevel ==
    /\ Elsewhere
    /\ \E n \in DOMAIN chain : chain[n] # "unopened" /\ chain' = [chain EXCEPT ![n] = Moved(@)]
    /\ UNCHANGED <<process, mode, pc, at, where, decoded, generations, home, hidden, held, bound,
                   read, error, ending>>

\* Another .generations, or the first one again.
MoveGenerations ==
    /\ Elsewhere
    /\ \E q \in Queries : decoded[q] # "absent"
    /\ generations' = IF generations = "first" THEN "second" ELSE "first"
    /\ UNCHANGED <<process, mode, pc, at, chain, where, decoded, home, hidden, held, bound, read,
                   error, ending>>

EditDecoded ==
    /\ Elsewhere
    /\ \E q \in Queries :
         /\ decoded[q] # "absent"
         /\ decoded' = [decoded EXCEPT ![q] = IF @ = "edited" THEN "published" ELSE "edited"]
    /\ UNCHANGED <<process, mode, pc, at, chain, where, generations, home, hidden, held, bound,
                   read, error, ending>>

-----------------------------------------------------------------------------
(* _create_codeql_query_workspace                                          *)

\* The levels are opened one after the other; the workspace and its results
\* are made first.
OpenLevel ==
    /\ pc = "create"
    /\ \E i \in 1..4 :
         /\ \A j \in 1..4 : (Levels[j] \in held) <=> (j < i)
         /\ held' = held \cup {Levels[i]}
         /\ chain' = [chain EXCEPT ![Levels[i]] = "bound"]
         /\ where' = IF Levels[i] = "workspace" THEN "queries" ELSE where
         /\ pc' = IF i = 4 THEN "loop" ELSE pc
    /\ UNCHANGED <<process, mode, at, decoded, generations, home, hidden, bound, read, error,
                   ending, mishaps>>

\* Also when the owner cannot be registered.  The descriptors are released;
\* a workspace that was made stays.
CreationFails ==
    /\ pc = "create" /\ Fault
    /\ held' = {} /\ error' = "query_failed" /\ pc' = "ended"
    /\ where' \in IF "output" \in held THEN {where, "queries"} ELSE {where}
    /\ UNCHANGED <<process, mode, at, chain, decoded, generations, home, hidden, bound, read,
                   ending>>

-----------------------------------------------------------------------------
(* _run_workspace_query                                                    *)

StartQuery ==
    /\ pc = "loop" /\ at <= Len(Plan) /\ ChainCurrent
    /\ Start /\ pc' = "query"
    /\ UNCHANGED <<mode, at, files, held, bound, read, error, ending, mishaps>>

RefuseQuery ==
    /\ pc = "loop" /\ at <= Len(Plan) /\ ~ChainCurrent
    /\ error' = "query_failed" /\ pc' = "raised"
    /\ UNCHANGED <<process, mode, at, files, held, bound, read, ending, mishaps>>

Command == pc = "query" /\ UNCHANGED <<mode, pc, at, files, held, bound, read, error, ending,
                                      mishaps>>

RunCommand == Command /\ ProcessNext

\* The generation has its name and run_query hands out its binding.
Publish ==
    /\ pc = "query" /\ caller = "returned" /\ Succeeded
    /\ decoded' = [decoded EXCEPT ![query] = "published"]
    /\ home' = [home EXCEPT ![query] = generations]
    /\ held' = held \cup {query} /\ pc' = "own"
    /\ UNCHANGED <<process, mode, at, chain, where, generations, hidden, bound, read, error,
                   ending, mishaps>>

\* FailureHides of QueryPublication: what was made may stay, hidden.
QueryFails ==
    /\ pc = "query" /\ caller = "returned" /\ Unless(Succeeded)
    /\ hidden' \in {hidden, TRUE}
    /\ error' = IF failure = "interrupt" THEN "interrupt" ELSE "query_failed"
    /\ pc' = "raised"
    /\ UNCHANGED <<process, mode, at, chain, where, decoded, generations, home, held, bound, read,
                   ending>>

\* own_result, _capture_query_output_binding, _register_query_output_binding
OwnResult ==
    /\ pc = "own" /\ BindingCurrent(query)
    /\ bound' = bound \cup {query} /\ pc' = "returned"
    /\ UNCHANGED <<process, mode, at, files, held, read, error, ending, mishaps>>

\* The binding is released unless it is registered already.
OwnResultFails ==
    /\ pc = "own" /\ Unless(BindingCurrent(query))
    /\ hidden' \in {hidden, TRUE}
    /\ \/ held' = held \ {query} /\ UNCHANGED bound
       \/ BindingCurrent(query) /\ bound' = bound \cup {query} /\ UNCHANGED held
    /\ error' = "query_failed" /\ pc' = "raised"
    /\ UNCHANGED <<process, mode, at, chain, where, decoded, generations, home, read, ending>>

\* A drifted workspace replaces what run_query raised.
CaughtByRun ==
    /\ pc = "raised" /\ pc' = "caught" /\ Forget
    /\ error' = IF ChainCurrent THEN error ELSE "query_failed"
    /\ UNCHANGED <<mode, at, files, held, bound, read, ending, mishaps>>

\* _require_workspace_bindings after the runner
Returned ==
    /\ pc = "returned" /\ Forget
    /\ IF ChainCurrent THEN pc' = "payload" /\ UNCHANGED error
                       ELSE pc' = "caught" /\ error' = "query_failed"
    /\ UNCHANGED <<mode, at, files, held, bound, read, ending, mishaps>>

\* Only the exploratory entries stage goes on after a failed query.
Tolerated == mode = "exploratory" /\ error = "query_failed"

\* Mutant: a sidecar that failed is not in the diagnostics.
RecordGapRow ==
    /\ pc = "caught" /\ Tolerated
    /\ gaps' = IF query \in Sidecars THEN gaps ELSE gaps \cup {query}
    /\ told' = gaps' /\ error' = "none" /\ at' = at + 1 /\ pc' = "loop"
    /\ UNCHANGED <<process, mode, files, held, bound, rows, ending, mishaps>>

RecordGap ==
    /\ pc = "caught" /\ Tolerated
    /\ gaps' = IF query \in Sidecars THEN gaps ELSE gaps \cup {query}
    /\ told' = told \cup {query} /\ error' = "none" /\ at' = at + 1 /\ pc' = "loop"
    /\ UNCHANGED <<process, mode, files, held, bound, rows, ending, mishaps>>

GiveUp ==
    /\ pc = "caught" /\ ~Tolerated /\ pc' = "cleanup"
    /\ UNCHANGED <<process, mode, at, files, held, bound, read, error, ending, mishaps>>

-----------------------------------------------------------------------------
(* The payload.                                                            *)

\* Only the families look for hidden generations after every query.
Acceptable == (mode = "family" => SafeInventory) /\ BindingCurrent(query)

\* _bounded_json_file: the bytes are those of the binding.
Payload == "published"

ReadPayload ==
    /\ pc = "payload" /\ Acceptable
    /\ rows' = [rows EXCEPT ![query] = Payload] /\ pc' = "decode"
    /\ UNCHANGED <<process, mode, at, files, held, bound, gaps, told, error, ending, mishaps>>

Decode ==
    /\ pc = "decode" /\ BindingCurrent(query)
    /\ at' = at + 1 /\ pc' = "loop"
    /\ UNCHANGED <<process, mode, files, held, bound, read, error, ending, mishaps>>

\* Changed bindings, bytes that are no valid result, too many rows.
PayloadFails ==
    /\ \/ pc = "payload" /\ ~Acceptable /\ NoFault /\ error' = "query_failed"
       \/ pc = "decode" /\ ~BindingCurrent(query) /\ NoFault /\ error' = "query_failed"
       \/ pc \in {"payload", "decode"} /\ Fault /\ error' = "result_invalid"
    /\ pc' = "cleanup"
    /\ UNCHANGED <<process, mode, at, files, held, bound, read, ending>>

AllRead ==
    /\ pc = "loop" /\ at > Len(Plan) /\ pc' = "cleanup"
    /\ UNCHANGED <<process, mode, at, files, held, bound, read, error, ending, mishaps>>

-----------------------------------------------------------------------------
(* _cleanup_codeql_query_workspace, which is called twice                  *)

Inventory ==
    /\ pc = "cleanup" /\ SafeInventory /\ pc' = "isolate" /\ kept' = decoded
    /\ UNCHANGED <<process, mode, at, files, held, bound, read, error, cleanups, safe, stuck,
                   mishaps>>

InventoryFails ==
    /\ pc = "cleanup" /\ Unless(SafeInventory) /\ safe' = FALSE /\ pc' = "close"
    /\ UNCHANGED <<process, mode, at, files, held, bound, read, error, cleanups, stuck, kept>>

\* _isolate_codeql_query_workspace: what counts is where the names lead
\* after the rename, whatever it raised.
Isolate ==
    /\ pc = "isolate" /\ ChainCurrent
    /\ where' = "quarantine" /\ pc' = "close"
    /\ \/ safe' = TRUE /\ NoFault
       \/ safe' = FALSE /\ Fault
    /\ UNCHANGED <<process, mode, at, chain, decoded, generations, home, hidden, held, bound,
                   read, error, cleanups, stuck, kept>>

IsolateFails ==
    /\ pc = "isolate" /\ Unless(ChainCurrent) /\ safe' = FALSE /\ pc' = "close"
    /\ UNCHANGED <<process, mode, at, files, held, bound, read, error, cleanups, stuck, kept>>

\* What close leaves open.  The owner of the chain releases in reverse order
\* and stops at a descriptor whose release did not consume it; a binding
\* gives each of its descriptors up once.
ChainLeft == {{Levels[j] : j \in 1..i} : i \in 0..4} \cap SUBSET held
BindingsLeft == SUBSET (held \cap bound)

\* _CodeqlQueryWorkspace.close, both calls of it
Close ==
    /\ pc = "close" /\ bound' = {}
    /\ \/ NoFault /\ held' = held \ (bound \cup LevelSet) /\ UNCHANGED stuck
       \/ Fault /\ stuck' = TRUE /\
            \E levels \in ChainLeft, lost \in BindingsLeft :
               held' = (held \ (bound \cup LevelSet)) \cup levels \cup lost
    /\ cleanups' = Append(cleanups, safe /\ ~stuck' /\ held' \cap LevelSet = {})
    /\ pc' = IF Len(cleanups) = 0 THEN "cleanup" ELSE "conclude"
    /\ UNCHANGED <<process, mode, at, files, read, error, safe, kept>>

\* retained_hidden_output; only the exploratory stage returns with it.
Cleaned == \E i \in 1..Len(cleanups) : cleanups[i]

\* Mutant: the cleanup's answer is not looked at.
ConcludeAnyway ==
    /\ pc = "conclude" /\ pc' = "ended"
    /\ UNCHANGED <<process, mode, at, files, held, bound, read, error, ending, mishaps>>

Conclude ==
    /\ pc = "conclude" /\ pc' = "ended"
    /\ error' = IF Cleaned \/ (error = "none" /\ mode = "exploratory") THEN error
                ELSE "query_failed"
    /\ UNCHANGED <<process, mode, at, files, held, bound, read, ending, mishaps>>

-----------------------------------------------------------------------------
Executor ==
    \/ OpenLevel \/ CreationFails \/ StartQuery \/ RefuseQuery \/ Publish \/ QueryFails
    \/ OwnResult \/ OwnResultFails \/ CaughtByRun \/ Returned \/ RecordGap \/ GiveUp
    \/ ReadPayload \/ Decode \/ PayloadFails \/ AllRead
    \/ Inventory \/ InventoryFails \/ Isolate \/ IsolateFails \/ Close \/ Conclude

Next == Executor \/ RunCommand \/ MoveLevel \/ MoveGenerations
        \/ EditDecoded

\* Threads of one process and a clock that goes on; no command has to end.
Fairness ==
    /\ WF_vars(Executor)
    /\ WF_vars(Command /\ Caller)
    /\ WF_vars(Command /\ Expire)
    /\ \A s \in Streams : WF_vars(Command /\ (LoopReader(s) \/ ReadEnd(s)))

Spec == Init /\ [][Next]_vars /\ Fairness

-----------------------------------------------------------------------------
(* Properties.                                                             *)

Done == pc = "ended" /\ error = "none"

\* A formal stage that returns rows has read every query of its plan from
\* the bytes run_query published; its workspace is in quarantine with no
\* hidden generation in it, and no descriptor is left open.
FormalIsComplete ==
    Done /\ mode # "exploratory" =>
        /\ \A q \in Queries : rows[q] = "published"
        /\ where = "quarantine" /\ ~hidden /\ held = {}

\* What a formal stage keeps for an audit is what it read: when the last
\* inventory let the workspace be isolated, the decoded file of every query
\* held the bytes its rows come from, whatever was done to it meanwhile.
KeptIsWhatWasRead == Done /\ mode # "exploratory" => kept = rows

\* An exploratory stage may return without a query, but not silently: every
\* query was read or is in the diagnostics, and an entry query that was not
\* read has a gap row.
NothingUntold ==
    Done /\ mode = "exploratory" =>
        \A q \in Queries :
            \/ rows[q] = "published" /\ q \notin told
            \/ rows[q] = "absent" /\ q \in told /\ (q \in Sidecars \/ q \in gaps)

\* A command that _invoke accepts stayed below the output limit, whichever
\* of its readers and the polling caller was first, and no process is left
\* that could still write to its pipes.
SuccessIsQuiet == caller = "returned" /\ Succeeded => ~overflow /\ holds = {}

\* The stage ends although no CodeQL command has to: the deadline, the two
\* signals and the closing of the pipes see to it, unless the caller waits
\* forever for a process that the signals do not reach.
StageEnds == <>[]~Held => <>(pc = "ended")
=============================================================================
