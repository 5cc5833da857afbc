------------------------ MODULE QueryWorkspaceProofs ------------------------
(***************************************************************************)
(* For any plan, any processes a CodeQL command starts, any limit of its   *)
(* output and any number of mishaps: a formal stage that returns rows is   *)
(* complete and keeps what it read, an exploratory one tells what it did   *)
(* not read, and a command that is accepted is quiet.                      *)
(***************************************************************************)
EXTENDS QueryWorkspace, TLAPS

-----------------------------------------------------------------------------
(* The command.                                                            *)

ReadersEnded == \A s \in Streams : reader[s] = "ended"

\* The types, and what the caller of a command knows of its readers: one that has
\* ended by itself saw the end of the pipes, or too much output.
Quiet ==
    /\ reader \in [Streams -> {"blocked", "between", "ended"}]
    /\ chunks \in Nat
    /\ caller = "poll" =>
         /\ failure = "none" /\ closed = {}
         /\ \A s \in Streams : reader[s] = "ended" => overflow \/ holds = {}
    /\ caller \in {"terminate", "kill"} => failure # "none"
    /\ caller \in {"join", "close"} /\ failure = "none" => ReadersEnded /\ (overflow \/ holds = {})
    /\ caller = "returned" /\ failure = "none" => ReadersEnded /\ ~overflow /\ holds = {}

-----------------------------------------------------------------------------
(* The stage.                                                              *)

\* Where the executor works on the query at at, and where it cleans up.
AtQuery == {"query", "own", "returned", "raised", "caught", "payload", "decode"}
Ending == {"cleanup", "isolate", "close", "conclude", "ended"}

Types ==
    /\ pc \in {"create", "loop"} \cup AtQuery \cup Ending
    /\ at \in 1..(Len(Plan) + 1)
    /\ decoded \in [Queries -> {"absent", "published", "edited"}]
    /\ rows \in [Queries -> {"absent", "published"}]
    /\ kept \in [Queries -> {"absent", "published", "edited"}]
    /\ cleanups \in Seq(BOOLEAN)
    /\ safe \in BOOLEAN /\ stuck \in BOOLEAN /\ hidden \in BOOLEAN

\* What the position of the executor says of the error in flight, of the plan and
\* of the cleanup.
Position ==
    /\ pc \in AtQuery => at <= Len(Plan)
    /\ pc \in {"raised", "caught"} => error # "none"
    /\ pc \in {"create", "loop", "query", "own", "returned", "payload", "decode"} => error = "none"
    /\ pc \in Ending /\ error = "none" => at = Len(Plan) + 1
    /\ pc \notin Ending => cleanups = <<>>

\* Query q was read; or it was not, which only an exploratory stage survives, and
\* that has been told.
Read(q) == rows[q] = "published" /\ q \notin told
Missed(q) ==
    mode = "exploratory" /\ rows[q] = "absent" /\ q \in told /\ (q \in Sidecars \/ q \in gaps)
Untouched(q) == rows[q] = "absent" /\ q \notin told

Progress ==
    /\ \A i \in 1..Len(Plan) : i < at => Read(Plan[i]) \/ Missed(Plan[i])
    /\ pc \notin Ending => \A i \in 1..Len(Plan) : i > at => Untouched(Plan[i])
    /\ pc \in ({"create", "loop"} \cup AtQuery) \ {"decode"} /\ at <= Len(Plan) => Untouched(query)
    /\ pc = "decode" => Read(query)

\* Descriptors belong to the chain or to a registered binding, unless a release
\* failed; what was read is registered until the bindings are closed.
Owning ==
    /\ stuck \/ held \subseteq LevelSet \cup bound \cup (IF pc = "own" THEN {query} ELSE {})
    /\ pc \in {"returned", "payload", "decode"} => query \in bound
    /\ cleanups = <<>> => \A q \in Queries : rows[q] = "published" => q \in bound
    /\ cleanups # <<>> /\ ~stuck => held \cap LevelSet = {}

\* The workspace was isolated with every file as it was read.
KeptAll == error = "none" /\ mode # "exploratory" => \A q \in Queries : kept[q] = "published"

Sealing ==
    /\ pc = "isolate" => ~hidden /\ (~stuck => KeptAll)
    /\ pc = "close" /\ safe => where = "quarantine" /\ ~hidden /\ (~stuck => KeptAll)
    /\ Cleaned => where = "quarantine" /\ ~hidden /\ held = {} /\ bound = {} /\ KeptAll

Concluded == pc = "ended" /\ error = "none" => Cleaned \/ mode = "exploratory"

Inv == Quiet /\ Types /\ Position /\ Progress /\ Owning /\ Sealing /\ Concluded

-----------------------------------------------------------------------------
(* The command keeps what its caller knows.                                *)

\* The processes and the readers.
LEMMA ReadersKeepQuiet ==
    ASSUME Quiet, Fork \/ Leave \/ Exit \/ ReadChunk \/ Readers
    PROVE  Quiet'
<1>1. CASE Fork
  BY <1>1 DEF Fork, Quiet, ReadersEnded, overflow
<1>2. CASE Leave
  BY <1>2 DEF Leave, Quiet, ReadersEnded, overflow
<1>3. CASE Exit
  BY <1>3 DEF Exit, Quiet, ReadersEnded, overflow
<1>4. CASE ReadChunk
  <2>1. PICK s \in Streams : reader[s] = "blocked" /\ reader' = [reader EXCEPT ![s] = "between"]
    BY <1>4 DEF ReadChunk
  <2>2. /\ chunks' = chunks + 1 /\ UNCHANGED <<holds, closed, caller, failure>>
    BY <1>4 DEF ReadChunk
  <2>3. overflow => overflow'
    BY <2>2, ProcessAssumption DEF overflow, Quiet
  <2>4. QED
    BY <2>1, <2>2, <2>3 DEF Quiet, ReadersEnded
<1>5. CASE Readers
  <2>1. PICK s \in Streams : LoopReader(s) \/ ReadEnd(s)
    BY <1>5 DEF Readers
  <2>2. UNCHANGED <<holds, closed, chunks, caller, failure>>
    BY <2>1 DEF LoopReader, ReadEnd
  <2>3. CASE LoopReader(s)
    BY <2>2, <2>3 DEF LoopReader, Quiet, ReadersEnded, overflow
  <2>4. CASE ReadEnd(s)
    BY <2>2, <2>4 DEF ReadEnd, Quiet, ReadersEnded, overflow
  <2>5. QED
    BY <2>1, <2>3, <2>4
<1>6. QED
  BY <1>1, <1>2, <1>3, <1>4, <1>5

\* The caller: it leaves its loop without a failure only when both readers have
\* ended, and looks at the output once more before it returns.
LEMMA CallerKeepsQuiet ==
    ASSUME Quiet, Expire \/ Interrupted \/ Caller
    PROVE  Quiet'
<1>1. CASE Expire \/ Interrupted
  BY <1>1 DEF Expire, Interrupted, Quiet, ReadersEnded, overflow
<1>2. CASE Overflowed \/ TimedOut
  BY <1>2 DEF Overflowed, TimedOut, Terminating, Quiet, ReadersEnded, overflow
<1>3. CASE Collected
  BY <1>3, ProcessAssumption DEF Collected, Quiet, ReadersEnded, overflow
<1>4. CASE SendTerm
  BY <1>4 DEF SendTerm, Kill, Quiet, ReadersEnded, overflow
<1>5. CASE SendKill
  BY <1>5 DEF SendKill, Kill, Quiet, ReadersEnded, overflow
<1>6. CASE Join \/ CloseStream
  BY <1>6 DEF Join, CloseStream, Quiet, ReadersEnded, overflow
<1>7. CASE Return
  BY <1>7 DEF Return, Quiet, ReadersEnded, overflow
<1>8. QED
  BY <1>1, <1>2, <1>3, <1>4, <1>5, <1>6, <1>7 DEF Caller

\* A command that starts, or that nothing is left of.
LEMMA ResetQuiet ==
    ASSUME Quiet, Start \/ Forget
    PROVE  Quiet'
  BY DEF Start, Forget, Quiet, overflow

-----------------------------------------------------------------------------
(* The stage.                                                              *)

\* A query of the plan is one, and stands in it once.
LEMMA PlanFacts ==
    /\ Len(Plan) \in Nat
    /\ \A i \in 1..Len(Plan) : Plan[i] \in Queries
    /\ \A q \in Queries : \E i \in 1..Len(Plan) : q = Plan[i]
    /\ \A i, j \in 1..Len(Plan) : Plan[i] = Plan[j] => i = j
    /\ Queries \cap LevelSet = {} /\ LevelSet # {}
<1>1. Len(Plan) \in Nat
  BY PlanAssumption
<1>2. Levels[1] \in LevelSet
  BY DEF LevelSet
<1>3. QED
  BY <1>1, <1>2, PlanAssumption DEF Queries

\* A step that leaves the position, the rows, the descriptors and the cleanup
\* alone keeps all but the command.
LEMMA StageFrame ==
    ASSUME Inv, UNCHANGED <<mode, pc, at, where, hidden, held, bound, rows, gaps, told, error,
                            cleanups, safe, stuck, kept>>,
           decoded' \in [Queries -> {"absent", "published", "edited"}], Quiet'
    PROVE  Inv'
<1>1. Types' /\ Position'
  BY DEF Inv, Types, Position
<1>2. Progress'
  BY DEF Inv, Progress, Read, Missed, Untouched, query
<1>3. Owning'
  BY DEF Inv, Owning, query
<1>4. Sealing' /\ Concluded'
  BY DEF Inv, Sealing, Concluded, KeptAll, Cleaned
<1>5. QED
  BY <1>1, <1>2, <1>3, <1>4 DEF Inv

\* What others do to the files.
LEMMA OthersKeep ==
    ASSUME Inv, MoveLevel \/ MoveGenerations \/ EditDecoded
    PROVE  Inv'
<1>1. /\ UNCHANGED process
      /\ UNCHANGED <<mode, pc, at, where, hidden, held, bound, rows, gaps, told, error,
                     cleanups, safe, stuck, kept>>
  BY DEF MoveLevel, MoveGenerations, EditDecoded, read, ending
<1>2. Quiet'
  BY <1>1 DEF Inv, Quiet, ReadersEnded, overflow, process
<1>3. decoded' \in [Queries -> {"absent", "published", "edited"}]
  BY DEF Inv, Types, MoveLevel, MoveGenerations, EditDecoded
<1>4. QED
  BY <1>1, <1>2, <1>3, StageFrame

\* The command of a query goes on.
LEMMA RunCommandKeeps ==
    ASSUME Inv, RunCommand
    PROVE  Inv'
<1>1. Quiet'
  BY ReadersKeepQuiet, CallerKeepsQuiet DEF Inv, RunCommand, ProcessNext
<1>2. UNCHANGED <<mode, pc, at, where, hidden, held, bound, rows, gaps, told, error,
                  cleanups, safe, stuck, kept, decoded>>
  BY DEF RunCommand, Command, files, read, ending
<1>3. QED
  BY <1>1, <1>2, StageFrame DEF Inv, Types

\* A step of the executor that leaves the command alone.
LEMMA QuietFrame ==
    ASSUME Inv, UNCHANGED process
    PROVE  Quiet'
  BY DEF Inv, Quiet, ReadersEnded, overflow, process

\* _create_codeql_query_workspace: the levels, or a failure that releases them.
LEMMA CreateKeeps ==
    ASSUME Inv, OpenLevel \/ CreationFails
    PROVE  Inv'
<1>1. Quiet'
  BY QuietFrame DEF OpenLevel, CreationFails
<1>2. /\ pc = "create" /\ error = "none" /\ cleanups = <<>> /\ cleanups' = cleanups
      /\ UNCHANGED <<mode, at, decoded, hidden, bound, rows, gaps, told, safe, stuck, kept>>
  BY DEF OpenLevel, CreationFails, Inv, Position, read, ending, Ending
<1>3. \/ pc' \in {"create", "loop"} /\ error' = error /\ held' \subseteq held \cup LevelSet
      \/ pc' = "ended" /\ error' = "query_failed" /\ held' = {}
  BY DEF OpenLevel, CreationFails, LevelSet
<1>4. Types' /\ Position'
  BY <1>2, <1>3 DEF Inv, Types, Position, Ending, AtQuery
<1>5. Progress'
  BY <1>2, <1>3 DEF Inv, Progress, Read, Missed, Untouched, query, Ending, AtQuery
<1>6. Owning'
  BY <1>2, <1>3 DEF Inv, Owning, query
<1>7. ~Cleaned'
  BY <1>2 DEF Cleaned
<1>8. Sealing' /\ Concluded'
  BY <1>2, <1>3, <1>7 DEF Sealing, Concluded
<1>9. QED
  BY <1>1, <1>4, <1>5, <1>6, <1>8 DEF Inv

\* A step that leaves rows and cleanup alone and goes from one place at the query
\* to another, or to the loop at the same query.
LEMMA AtQueryKeeps ==
    ASSUME Inv, Quiet', pc \in {"loop"} \cup AtQuery, pc' \in ({"loop"} \cup AtQuery) \ {"decode"},
           pc # "decode", at <= Len(Plan),
           UNCHANGED <<mode, at, rows, gaps, told, cleanups, safe, stuck, kept>>,
           decoded' \in [Queries -> {"absent", "published", "edited"}], hidden' \in BOOLEAN,
           pc' \in {"raised", "caught"} => error' # "none",
           pc' \notin {"raised", "caught"} => error' = "none",
           bound \subseteq bound',
           pc' \in {"returned", "payload"} => query \in bound',
           stuck \/ held' \subseteq LevelSet \cup bound' \cup (IF pc' = "own" THEN {query} ELSE {})
    PROVE  Inv'
<1>0. cleanups = <<>> /\ cleanups' = <<>> /\ query' = query
  BY DEF Inv, Position, Ending, AtQuery, query
<1>1. Types' /\ Position'
  BY <1>0 DEF Inv, Types, Position, Ending, AtQuery
<1>2. Progress'
  BY <1>0 DEF Inv, Progress, Read, Missed, Untouched, query, Ending, AtQuery
<1>3. Owning'
  BY <1>0 DEF Inv, Owning, AtQuery
<1>4. ~Cleaned'
  BY <1>0 DEF Cleaned
<1>5. Sealing' /\ Concluded'
  BY <1>4 DEF Sealing, Concluded, AtQuery
<1>6. QED
  BY <1>1, <1>2, <1>3, <1>5 DEF Inv

\* _run_workspace_query and the runner.
LEMMA QueryKeeps ==
    ASSUME Inv, \/ StartQuery \/ RefuseQuery \/ Publish \/ QueryFails
                \/ OwnResult \/ OwnResultFails \/ CaughtByRun \/ Returned
    PROVE  Inv'
<1>1. /\ pc \in {"loop"} \cup AtQuery /\ pc # "decode" /\ at <= Len(Plan)
      /\ UNCHANGED <<mode, at, rows, gaps, told, cleanups, safe, stuck, kept>>
  BY DEF StartQuery, RefuseQuery, Publish, QueryFails, OwnResult, OwnResultFails, CaughtByRun,
         Returned, Inv, Position, AtQuery, read, ending
<1>2. Quiet'
  <2>1. CASE StartQuery \/ CaughtByRun \/ Returned
    BY <2>1, ResetQuiet DEF StartQuery, CaughtByRun, Returned, Inv
  <2>2. CASE ~(StartQuery \/ CaughtByRun \/ Returned)
    BY <2>2, QuietFrame DEF RefuseQuery, Publish, QueryFails, OwnResult, OwnResultFails
  <2>3. QED
    BY <2>1, <2>2
<1>3. stuck \/ held \subseteq LevelSet \cup bound \cup (IF pc = "own" THEN {query} ELSE {})
  BY DEF Inv, Owning
<1>4. CASE StartQuery \/ RefuseQuery
  BY <1>1, <1>2, <1>3, <1>4, AtQueryKeeps
     DEF StartQuery, RefuseQuery, AtQuery, files, Inv, Types, Position
<1>5. CASE Publish
  <2>1. decoded' = [decoded EXCEPT ![query] = "published"] /\ hidden' = hidden /\ bound' = bound
        /\ held' = held \cup {query} /\ pc = "query" /\ pc' = "own" /\ error' = error
    BY <1>5 DEF Publish
  <2>2. decoded' \in [Queries -> {"absent", "published", "edited"}] /\ hidden' \in BOOLEAN
    BY <2>1 DEF Inv, Types
  <2>3. QED
    BY <1>1, <1>2, <1>3, <2>1, <2>2, AtQueryKeeps DEF AtQuery, Inv, Position
<1>6. CASE QueryFails
  BY <1>1, <1>2, <1>3, <1>6, AtQueryKeeps DEF QueryFails, AtQuery, Inv, Types
<1>7. CASE OwnResult
  BY <1>1, <1>2, <1>3, <1>7, AtQueryKeeps DEF OwnResult, AtQuery, files, Inv, Types, Position
<1>8. CASE OwnResultFails
  <2>1. /\ pc = "own" /\ pc' = "raised" /\ error' = "query_failed" /\ decoded' = decoded
        /\ hidden' \in {hidden, TRUE}
        /\ \/ held' = held \ {query} /\ bound' = bound
           \/ held' = held /\ bound' = bound \cup {query}
    BY <1>8 DEF OwnResultFails
  <2>2. QED
    BY <1>1, <1>2, <1>3, <2>1, AtQueryKeeps DEF AtQuery, Inv, Types
<1>9. CASE CaughtByRun
  <2>1. pc = "raised" /\ pc' = "caught" /\ error # "none" /\ error' # "none"
        /\ UNCHANGED <<decoded, hidden, held, bound>>
    BY <1>9 DEF CaughtByRun, files, Inv, Position
  <2>2. QED
    BY <1>1, <1>2, <1>3, <2>1, AtQueryKeeps DEF AtQuery, Inv, Types
<1>10. CASE Returned
  <2>1. /\ pc = "returned" /\ UNCHANGED <<decoded, hidden, held, bound>> /\ query \in bound
        /\ \/ pc' = "payload" /\ error' = "none"
           \/ pc' = "caught" /\ error' = "query_failed"
    BY <1>10 DEF Returned, files, Inv, Position, Owning
  <2>2. QED
    BY <1>1, <1>2, <1>3, <2>1, AtQueryKeeps DEF AtQuery, Inv, Types
<1>11. QED
  BY <1>4, <1>5, <1>6, <1>7, <1>8, <1>9, <1>10

\* The query of the executor is one of the plan, and no earlier or later one.
LEMMA QueryOfPlan ==
    ASSUME Inv, at <= Len(Plan)
    PROVE  /\ query \in Queries
           /\ \A i \in 1..Len(Plan) : Plan[i] = query => i = at
  BY PlanFacts DEF Inv, Types, query

\* An exploratory stage tells a query that failed, and goes on.
LEMMA RecordGapKeeps ==
    ASSUME Inv, RecordGap
    PROVE  Inv'
<1>1. /\ pc = "caught" /\ mode = "exploratory" /\ pc' = "loop" /\ error' = "none"
      /\ at' = at + 1 /\ told' = told \cup {query}
      /\ gaps' = IF query \in Sidecars THEN gaps ELSE gaps \cup {query}
      /\ UNCHANGED <<mode, decoded, where, hidden, held, bound, rows, cleanups, safe, stuck, kept>>
  BY DEF RecordGap, Tolerated, files, ending
<1>2. Quiet'
  BY QuietFrame DEF RecordGap
<1>3. at \in 1..Len(Plan) /\ at' \in 1..(Len(Plan) + 1) /\ cleanups = <<>> /\ cleanups' = <<>>
  BY <1>1, PlanFacts DEF Inv, Types, Position, AtQuery, Ending
<1>4. Types' /\ Position'
  BY <1>1, <1>3 DEF Inv, Types, Position, AtQuery, Ending
<1>5. query \in Queries /\ \A i \in 1..Len(Plan) : Plan[i] = query => i = at
  BY <1>3, QueryOfPlan
<1>6. Untouched(query)
  BY <1>1, <1>3 DEF Inv, Progress, AtQuery
<1>8. Progress'
  <2>1. ASSUME NEW i \in 1..Len(Plan), i < at'
        PROVE  (Read(Plan[i]) \/ Missed(Plan[i]))'
    <3>1. CASE i = at
      BY <1>1, <1>6, <3>1 DEF Missed, Untouched, query
    <3>2. CASE i # at
      <4>1. i < at /\ Plan[i] # query
        BY <1>1, <1>3, <1>5, <2>1, <3>2
      <4>2. Read(Plan[i]) \/ Missed(Plan[i])
        BY <4>1 DEF Inv, Progress
      <4>3. QED
        BY <1>1, <4>1, <4>2 DEF Read, Missed
    <3>3. QED
      BY <3>1, <3>2
  <2>2. ASSUME NEW i \in 1..Len(Plan), i >= at'
        PROVE  Untouched(Plan[i])'
    <3>1. i > at /\ Plan[i] # query
      BY <1>1, <1>3, <1>5, <2>2
    <3>2. Untouched(Plan[i])
      BY <1>1, <3>1 DEF Inv, Progress, AtQuery, Ending
    <3>3. QED
      BY <1>1, <3>1, <3>2 DEF Untouched
  <2>3. at' <= Len(Plan) => Untouched(query)'
    BY <1>3, <2>2, PlanFacts DEF query, Untouched
  <2>4. QED
    BY <1>1, <1>3, <2>1, <2>2, <2>3 DEF Progress, Ending, AtQuery
<1>9. Owning'
  BY <1>1, <1>3 DEF Inv, Owning
<1>10. ~Cleaned'
  BY <1>3 DEF Cleaned
<1>11. Sealing' /\ Concluded'
  BY <1>1, <1>10 DEF Sealing, Concluded
<1>12. QED
  BY <1>2, <1>4, <1>8, <1>9, <1>11 DEF Inv

\* The bytes of the binding are read.
LEMMA ReadPayloadKeeps ==
    ASSUME Inv, ReadPayload
    PROVE  Inv'
<1>1. /\ pc = "payload" /\ pc' = "decode" /\ rows' = [rows EXCEPT ![query] = "published"]
      /\ UNCHANGED <<mode, at, decoded, where, hidden, held, bound, gaps, told, error, cleanups,
                     safe, stuck, kept>>
  BY DEF ReadPayload, Payload, files, ending
<1>2. Quiet'
  BY QuietFrame DEF ReadPayload
<1>3. /\ at \in 1..Len(Plan) /\ cleanups = <<>> /\ cleanups' = <<>> /\ query \in bound
      /\ query' = query
  BY <1>1, PlanFacts DEF Inv, Types, Position, Owning, AtQuery, Ending, query
<1>4. query \in Queries /\ \A i \in 1..Len(Plan) : Plan[i] = query => i = at
  BY <1>3, QueryOfPlan
<1>5. /\ rows' \in [Queries -> {"absent", "published"}] /\ rows'[query] = "published"
      /\ \A q \in Queries : q # query => rows'[q] = rows[q]
  BY <1>1, <1>4 DEF Inv, Types
<1>6. Types' /\ Position'
  BY <1>1, <1>3, <1>5 DEF Inv, Types, Position, AtQuery, Ending
<1>7. Progress'
  <2>1. Read(query)'
    BY <1>1, <1>3, <1>5 DEF Inv, Progress, Untouched, Read, AtQuery
  <2>2. ASSUME NEW i \in 1..Len(Plan), i # at
        PROVE  rows'[Plan[i]] = rows[Plan[i]]
    BY <1>4, <1>5, <2>2, PlanFacts
  <2>3. QED
    BY <1>1, <1>3, <2>1, <2>2
       DEF Inv, Types, Progress, Read, Missed, Untouched, AtQuery, Ending
<1>8. Owning'
  BY <1>1, <1>3, <1>5 DEF Inv, Owning
<1>9. ~Cleaned'
  BY <1>3 DEF Cleaned
<1>10. Sealing' /\ Concluded'
  BY <1>1, <1>9 DEF Sealing, Concluded
<1>11. QED
  BY <1>2, <1>6, <1>7, <1>8, <1>10 DEF Inv

\* The query has been read and the executor goes to the next one.
LEMMA DecodeKeeps ==
    ASSUME Inv, Decode
    PROVE  Inv'
<1>1. /\ pc = "decode" /\ pc' = "loop" /\ at' = at + 1
      /\ UNCHANGED <<mode, decoded, where, hidden, held, bound, rows, gaps, told, error, cleanups,
                     safe, stuck, kept>>
  BY DEF Decode, files, read, ending
<1>2. Quiet'
  BY QuietFrame DEF Decode
<1>3. at \in 1..Len(Plan) /\ at' \in 1..(Len(Plan) + 1) /\ cleanups = <<>> /\ cleanups' = <<>>
  BY <1>1, PlanFacts DEF Inv, Types, Position, AtQuery, Ending
<1>4. Types' /\ Position'
  BY <1>1, <1>3 DEF Inv, Types, Position, AtQuery, Ending
<1>5. Progress'
  <2>1. ASSUME NEW i \in 1..Len(Plan), i < at'
        PROVE  (Read(Plan[i]) \/ Missed(Plan[i]))'
    <3>1. Read(Plan[i]) \/ Missed(Plan[i])
      BY <1>1, <1>3, <2>1 DEF Inv, Progress, query
    <3>2. QED
      BY <1>1, <3>1 DEF Read, Missed
  <2>2. ASSUME NEW i \in 1..Len(Plan), i >= at'
        PROVE  Untouched(Plan[i])'
    <3>1. Untouched(Plan[i])
      BY <1>1, <1>3, <2>2 DEF Inv, Progress, AtQuery, Ending
    <3>2. QED
      BY <1>1, <3>1 DEF Untouched
  <2>3. at' <= Len(Plan) => Untouched(query)'
    BY <1>3, <2>2, PlanFacts DEF query, Untouched
  <2>4. QED
    BY <1>1, <1>3, <2>1, <2>2, <2>3 DEF Progress, Ending, AtQuery
<1>6. Owning'
  BY <1>1, <1>3 DEF Inv, Owning
<1>7. ~Cleaned'
  BY <1>3 DEF Cleaned
<1>8. Sealing' /\ Concluded'
  BY <1>1, <1>7 DEF Sealing, Concluded
<1>9. QED
  BY <1>2, <1>4, <1>5, <1>6, <1>8 DEF Inv

\* The executor leaves the plan, with a failure or at its end.
LEMMA LeavingKeeps ==
    ASSUME Inv, GiveUp \/ PayloadFails \/ AllRead
    PROVE  Inv'
<1>1. /\ pc \in {"caught", "payload", "decode", "loop"} /\ pc' = "cleanup"
      /\ UNCHANGED <<mode, at, decoded, where, hidden, held, bound, rows, gaps, told, cleanups,
                     safe, stuck, kept>>
  BY DEF GiveUp, PayloadFails, AllRead, files, read, ending
<1>2. Quiet'
  BY QuietFrame DEF GiveUp, PayloadFails, AllRead
<1>3. error' = "none" => at = Len(Plan) + 1
  <2>1. CASE GiveUp
    BY <2>1 DEF GiveUp, Inv, Position
  <2>2. CASE PayloadFails
    BY <2>2 DEF PayloadFails
  <2>3. CASE AllRead
    BY <2>3, PlanFacts DEF AllRead, Inv, Types
  <2>4. QED
    BY <2>1, <2>2, <2>3
<1>4. cleanups = <<>> /\ cleanups' = <<>>
  BY <1>1 DEF Inv, Position, Ending
<1>5. Types' /\ Position'
  BY <1>1, <1>3, <1>4 DEF Inv, Types, Position, AtQuery, Ending
<1>6. Progress'
  BY <1>1 DEF Inv, Progress, Read, Missed, AtQuery, Ending
<1>7. Owning'
  BY <1>1, <1>4 DEF Inv, Owning
<1>8. ~Cleaned'
  BY <1>4 DEF Cleaned
<1>9. Sealing' /\ Concluded'
  BY <1>1, <1>8 DEF Sealing, Concluded
<1>10. QED
  BY <1>2, <1>5, <1>6, <1>7, <1>9 DEF Inv

\* A formal stage whose plan is done has read every query.
LEMMA FormalHasRead ==
    ASSUME Inv, pc \in Ending, error = "none", mode # "exploratory"
    PROVE  \A q \in Queries : rows[q] = "published"
<1>1. at = Len(Plan) + 1
  BY DEF Inv, Position
<1>2. \A i \in 1..Len(Plan) : Read(Plan[i])
  BY <1>1, PlanFacts DEF Inv, Progress, Missed
<1>3. QED
  BY <1>2, PlanFacts DEF Read

\* While the chain is current no release was tried, unless one failed.
LEMMA CurrentIsOpen ==
    ASSUME Inv, ChainCurrent
    PROVE  ~Cleaned /\ (~stuck => cleanups = <<>>)
  BY PlanFacts DEF Inv, Owning, Sealing, ChainCurrent

\* A step of the cleanup before the workspace is closed.
LEMMA CleanupFrame ==
    ASSUME Inv, Quiet', pc \in {"cleanup", "isolate"}, pc' \in {"isolate", "close"},
           UNCHANGED <<mode, at, decoded, hidden, held, bound, rows, gaps, told, error, cleanups,
                       stuck>>,
           kept' \in [Queries -> {"absent", "published", "edited"}], safe' \in BOOLEAN, Sealing'
    PROVE  Inv'
<1>1. Types' /\ Position'
  BY DEF Inv, Types, Position, AtQuery, Ending
<1>2. Progress'
  BY DEF Inv, Progress, Read, Missed, AtQuery, Ending
<1>3. Owning'
  BY DEF Inv, Owning
<1>4. Concluded'
  BY DEF Concluded
<1>5. QED
  BY <1>1, <1>2, <1>3, <1>4 DEF Inv

\* The inventory: what is kept is what was read.
LEMMA InventoryKeeps ==
    ASSUME Inv, Inventory
    PROVE  Inv'
<1>1. /\ pc = "cleanup" /\ pc' = "isolate" /\ kept' = decoded /\ SafeInventory
      /\ UNCHANGED <<mode, at, decoded, where, hidden, held, bound, rows, gaps, told, error,
                     cleanups, safe, stuck>>
  BY DEF Inventory, files, read
<1>2. ChainCurrent /\ ~hidden /\ \A q \in bound : decoded[q] = "published"
  BY <1>1 DEF SafeInventory, BindingCurrent, SameBytes
<1>3. ~Cleaned /\ (~stuck => cleanups = <<>>)
  BY <1>2, CurrentIsOpen
<1>4. ~stuck => KeptAll'
  <2>1. SUFFICES ASSUME ~stuck, error = "none", mode # "exploratory", NEW q \in Queries
                 PROVE  kept'[q] = "published"
    BY <1>1 DEF KeptAll
  <2>2. rows[q] = "published"
    BY <1>1, <2>1, FormalHasRead DEF Ending
  <2>3. q \in bound
    BY <1>3, <2>1, <2>2 DEF Inv, Owning
  <2>4. QED
    BY <1>1, <1>2, <2>3
<1>5. ~Cleaned'
  BY <1>1, <1>3 DEF Cleaned
<1>6. Sealing'
  BY <1>1, <1>2, <1>4, <1>5 DEF Sealing
<1>7. Quiet'
  BY QuietFrame DEF Inventory
<1>8. QED
  BY <1>1, <1>6, <1>7, CleanupFrame DEF Inv, Types

\* The workspace is not, or not surely, moved to its quarantine name.
LEMMA CleanupFailureKeeps ==
    ASSUME Inv, InventoryFails \/ IsolateFails
    PROVE  Inv'
<1>1. /\ pc \in {"cleanup", "isolate"} /\ pc' = "close" /\ safe' = FALSE
      /\ UNCHANGED <<mode, at, decoded, where, hidden, held, bound, rows, gaps, told, error,
                     cleanups, stuck, kept>>
  BY DEF InventoryFails, IsolateFails, files, read
<1>2. Sealing'
  BY <1>1 DEF Inv, Sealing, Cleaned, KeptAll
<1>3. Quiet'
  BY QuietFrame DEF InventoryFails, IsolateFails
<1>4. QED
  BY <1>1, <1>2, <1>3, CleanupFrame DEF Inv, Types

\* It is moved.
LEMMA IsolateKeeps ==
    ASSUME Inv, Isolate
    PROVE  Inv'
<1>1. /\ pc = "isolate" /\ pc' = "close" /\ safe' \in BOOLEAN /\ where' = "quarantine"
      /\ ChainCurrent
      /\ UNCHANGED <<mode, at, decoded, hidden, held, bound, rows, gaps, told, error,
                     cleanups, stuck, kept>>
  BY DEF Isolate, read
<1>2. ~Cleaned /\ ~Cleaned'
  BY <1>1, CurrentIsOpen DEF Cleaned
<1>3. ~hidden /\ (~stuck => KeptAll)
  BY <1>1 DEF Inv, Sealing
<1>4. Sealing'
  BY <1>1, <1>2, <1>3 DEF Sealing, KeptAll
<1>5. Quiet'
  BY QuietFrame DEF Isolate
<1>6. QED
  BY <1>1, <1>4, <1>5, CleanupFrame DEF Inv, Types

\* The descriptors are given up, and the cleanup says whether it was complete.
LEMMA CloseKeeps ==
    ASSUME Inv, Close
    PROVE  Inv'
<1>1. /\ pc = "close" /\ pc' \in {"cleanup", "conclude"} /\ bound' = {}
      /\ cleanups' = Append(cleanups, safe /\ ~stuck' /\ held' \cap LevelSet = {})
      /\ UNCHANGED <<mode, at, decoded, where, hidden, rows, gaps, told, error, safe, kept>>
  BY DEF Close, files, read
<1>2. \/ stuck' = stuck /\ held' = held \ (bound \cup LevelSet)
      \/ stuck' = TRUE /\ held' \subseteq held
  BY DEF Close, ChainLeft, BindingsLeft
<1>3. Quiet'
  BY QuietFrame DEF Close
<1>4. /\ cleanups' \in Seq(BOOLEAN) /\ cleanups' # <<>>
      /\ Cleaned' => Cleaned \/ (safe /\ ~stuck')
  <2>1. DEFINE b == safe /\ ~stuck' /\ held' \cap LevelSet = {}
  <2>2. cleanups \in Seq(BOOLEAN) /\ b \in BOOLEAN /\ cleanups' = Append(cleanups, b)
    BY <1>1 DEF Inv, Types
  <2>3. b => safe /\ ~stuck'
    OBVIOUS
  <2>4. HIDE DEF b
  <2>5. /\ Len(cleanups') = Len(cleanups) + 1 /\ Len(cleanups) \in Nat
        /\ cleanups'[Len(cleanups) + 1] = b
        /\ \A i \in 1..Len(cleanups) : cleanups'[i] = cleanups[i]
    BY <2>2
  <2>6. cleanups' \in Seq(BOOLEAN) /\ cleanups' # <<>>
    BY <2>2
  <2>7. QED
    BY <2>3, <2>5, <2>6 DEF Cleaned
<1>5. Types' /\ Position'
  BY <1>1, <1>2, <1>4 DEF Inv, Types, Position, AtQuery, Ending
<1>6. Progress'
  BY <1>1 DEF Inv, Progress, Read, Missed, AtQuery, Ending
<1>7. ~stuck' => held' = {}
  BY <1>1, <1>2 DEF Inv, Owning, Types
<1>8. Owning'
  BY <1>1, <1>4, <1>7 DEF Owning
<1>9. CASE Cleaned'
  <2>1. where = "quarantine" /\ ~hidden /\ KeptAll /\ held' = {}
    BY <1>1, <1>2, <1>4, <1>7, <1>9 DEF Inv, Sealing, Types
  <2>2. Sealing' /\ Concluded'
    BY <1>1, <2>1 DEF Sealing, Concluded, KeptAll
  <2>3. QED
    BY <1>3, <1>5, <1>6, <1>8, <2>2 DEF Inv
<1>10. CASE ~Cleaned'
  <2>1. Sealing' /\ Concluded'
    BY <1>1, <1>10 DEF Sealing, Concluded
  <2>2. QED
    BY <1>3, <1>5, <1>6, <1>8, <2>1 DEF Inv
<1>11. QED
  BY <1>9, <1>10

\* The stage returns, or replaces its result by a failure.
LEMMA ConcludeKeeps ==
    ASSUME Inv, Conclude
    PROVE  Inv'
<1>1. /\ pc = "conclude" /\ pc' = "ended"
      /\ error' = IF Cleaned \/ (error = "none" /\ mode = "exploratory") THEN error
                  ELSE "query_failed"
      /\ UNCHANGED <<mode, at, decoded, where, hidden, held, bound, rows, gaps, told, cleanups,
                     safe, stuck, kept>>
  BY DEF Conclude, files, read, ending
<1>2. error' = "none" => error = "none" /\ (Cleaned \/ mode = "exploratory")
  BY <1>1
<1>3. Cleaned' = Cleaned
  BY <1>1 DEF Cleaned
<1>4. Types' /\ Position'
  BY <1>1, <1>2 DEF Inv, Types, Position, AtQuery, Ending
<1>5. Progress'
  BY <1>1 DEF Inv, Progress, Read, Missed, AtQuery, Ending
<1>6. Owning'
  BY <1>1 DEF Inv, Owning
<1>7. Sealing' /\ Concluded'
  BY <1>1, <1>2, <1>3 DEF Inv, Sealing, Concluded, KeptAll
<1>8. Quiet'
  BY QuietFrame DEF Conclude
<1>9. QED
  BY <1>4, <1>5, <1>6, <1>7, <1>8 DEF Inv

-----------------------------------------------------------------------------
(* The theorems.                                                           *)

\* The stage starts with the invariant.
LEMMA InitInv == Init => Inv
<1>1. SUFFICES ASSUME Init PROVE Inv
  OBVIOUS
<1>2. Quiet
  BY <1>1 DEF Init, ProcessInit, Quiet
<1>3. Types /\ Position
  <2>1. /\ pc = "create" /\ at = 1 /\ error = "none" /\ cleanups = <<>>
        /\ safe = FALSE /\ stuck = FALSE /\ hidden = FALSE
    BY <1>1 DEF Init
  <2>2. /\ decoded \in [Queries -> {"absent", "published", "edited"}]
        /\ rows \in [Queries -> {"absent", "published"}]
        /\ kept \in [Queries -> {"absent", "published", "edited"}]
    BY <1>1 DEF Init
  <2>3. cleanups \in Seq(BOOLEAN) /\ at \in 1..(Len(Plan) + 1)
    BY <2>1, PlanFacts
  <2>4. QED
    BY <2>1, <2>2, <2>3 DEF Types, Position, AtQuery, Ending
<1>4. Progress
  BY <1>1, PlanFacts DEF Init, Progress, Untouched, query
<1>5. ~Cleaned
  <2>1. cleanups = <<>>
    BY <1>1 DEF Init
  <2>2. QED
    BY <2>1 DEF Cleaned
<1>6. Owning
  <2>1. held = {} /\ pc = "create" /\ \A q \in Queries : rows[q] # "published"
    BY <1>1 DEF Init
  <2>2. QED
    BY <2>1 DEF Owning
<1>7. Sealing /\ Concluded
  BY <1>1, <1>5 DEF Init, Sealing, Concluded
<1>8. QED
  BY <1>2, <1>3, <1>4, <1>6, <1>7 DEF Inv

\* Every step keeps it.
LEMMA NextInv == Inv /\ [Next]_vars => Inv'
<1>1. SUFFICES ASSUME Inv, [Next]_vars PROVE Inv'
  OBVIOUS
<1>2. CASE UNCHANGED vars
  <2>1. /\ UNCHANGED process
        /\ UNCHANGED <<mode, pc, at, where, hidden, held, bound, rows, gaps, told, error,
                       cleanups, safe, stuck, kept, decoded>>
    BY <1>2 DEF vars, files, read, ending
  <2>2. QED
    BY <1>1, <2>1, QuietFrame, StageFrame DEF Inv, Types
<1>3. CASE Executor
  BY <1>1, <1>3, CreateKeeps, QueryKeeps, RecordGapKeeps, ReadPayloadKeeps, DecodeKeeps,
     LeavingKeeps, InventoryKeeps, CleanupFailureKeeps, IsolateKeeps, CloseKeeps, ConcludeKeeps
     DEF Executor
<1>4. CASE ~Executor /\ Next
  BY <1>1, <1>4, RunCommandKeeps, OthersKeep DEF Next
<1>5. QED
  BY <1>1, <1>2, <1>3, <1>4

\* The invariant holds of every behaviour.
THEOREM Invariance == Spec => []Inv
  BY InitInv, NextInv, PTL DEF Spec

\* A formal stage that returns rows has read every query of its plan from the bytes
\* run_query published, left its workspace in quarantine with nothing hidden in it
\* and no descriptor open.
THEOREM ReturnedIsComplete == Spec => []FormalIsComplete
<1>1. Inv => FormalIsComplete
  <2>1. SUFFICES ASSUME Inv, Done, mode # "exploratory"
                 PROVE  /\ \A q \in Queries : rows[q] = "published"
                        /\ where = "quarantine" /\ ~hidden /\ held = {}
    BY DEF FormalIsComplete
  <2>2. \A q \in Queries : rows[q] = "published"
    BY <2>1, FormalHasRead DEF Done, Ending
  <2>3. Cleaned
    BY <2>1 DEF Done, Inv, Concluded
  <2>4. QED
    BY <2>1, <2>2, <2>3 DEF Inv, Sealing
<1>2. QED
  BY <1>1, Invariance, PTL

\* What it keeps for an audit is what it read.
THEOREM AuditKeepsWhatWasRead == Spec => []KeptIsWhatWasRead
<1>1. Inv => KeptIsWhatWasRead
  <2>1. SUFFICES ASSUME Inv, Done, mode # "exploratory"
                 PROVE  kept = rows
    BY DEF KeptIsWhatWasRead
  <2>2. \A q \in Queries : rows[q] = "published"
    BY <2>1, FormalHasRead DEF Done, Ending
  <2>3. Cleaned
    BY <2>1 DEF Done, Inv, Concluded
  <2>4. \A q \in Queries : kept[q] = "published"
    BY <2>1, <2>3 DEF Inv, Sealing, KeptAll, Done
  <2>5. QED
    BY <2>1, <2>2, <2>4 DEF Inv, Types
<1>2. QED
  BY <1>1, Invariance, PTL

\* An exploratory stage that returns tells every query it did not read.
THEOREM ExploratoryTells == Spec => []NothingUntold
<1>1. Inv => NothingUntold
  <2>1. SUFFICES ASSUME Inv, Done, NEW q \in Queries
                 PROVE  \/ rows[q] = "published" /\ q \notin told
                        \/ rows[q] = "absent" /\ q \in told /\ (q \in Sidecars \/ q \in gaps)
    BY DEF NothingUntold
  <2>2. at = Len(Plan) + 1
    BY <2>1 DEF Done, Inv, Position, Ending
  <2>3. PICK i \in 1..Len(Plan) : q = Plan[i]
    BY PlanFacts
  <2>4. Read(q) \/ Missed(q)
    BY <2>1, <2>2, <2>3, PlanFacts DEF Inv, Progress
  <2>5. QED
    BY <2>4 DEF Read, Missed
<1>2. QED
  BY <1>1, Invariance, PTL

\* A command that is accepted stayed below its limit and left no writer.
THEOREM AcceptedIsQuiet == Spec => []SuccessIsQuiet
<1>1. Inv => SuccessIsQuiet
  BY DEF Inv, Quiet, SuccessIsQuiet, Succeeded
<1>2. QED
  BY <1>1, Invariance, PTL
=============================================================================
