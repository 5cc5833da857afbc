------------------------- MODULE BatchRunnerProofs -------------------------
(***************************************************************************)
(* Proofs about the batch runner, for any plan, any number of targets,     *)
(* workers and attempts, and any number of signals, kills, lost            *)
(* publications, outside edits and invocations.                            *)
(***************************************************************************)
EXTENDS BatchRunner, FiniteSetTheorems, SequenceTheorems, TLAPS

-----------------------------------------------------------------------------
(* The inductive invariant.                                                *)

\* The stages of run before the pool exists, and those with it.
Outside == {"off", "load"}
Before == {"off", "load", "normalize", "running"}

Elements(s) == {s[i] : i \in DOMAIN s}
Distinct(s) == \A i, j \in DOMAIN s : s[i] = s[j] => i = j

\* The target waits for its attempt to be counted.
Fresh(t) == t \in Elements(pending) \/ wpc[t] = "begin"

\* The target is still to be looked at.
Ahead(t) == pc = "list" /\ \E j \in (listed + 1)..Len(Plan) : Plan[j] = t

\* The record in memory says that the target needs no further attempt.
SettledInMemory(t) ==
    \/ state.rec[t].state \in {"paused", "completed_with_gaps"}
    \/ state.rec[t].state = "failed" /\ state.rec[t].code # "retryable"
    \/ state.rec[t].state = "completed" /\ dir[t] = "completed"

\* Before the pool nothing was scheduled and nobody asked for an interrupt.
Early ==
    pc \in Before => /\ ~flag /\ ids = {}
                     /\ pending = <<>> /\ active = {} /\ listed = 0

\* What the main thread has in memory and how far the file is behind it.
Documented ==
    /\ pc \in Outside <=> state = Absent
    /\ pc \in {"normalize", "running"} => disk = state
    /\ pc \notin Outside => disk \in States
    /\ pc \notin Before => state.status = "running"
    /\ pc \notin Outside =>
         \A t \in Targets : disk.rec[t].attempt <= state.rec[t].attempt

\* Workers belong to submitted targets, and the pool is left empty.
Threads ==
    /\ \A t \in Targets : wpc[t] # "idle" => t \in active
    /\ \A t \in Targets : wpc[t] = "escape" => t \in ids
    /\ pc \in {"list", "lastMark", "gaps", "finish"} => active = {}
    /\ pc \in {"mark", "lastMark"} => flag

\* The deque holds no target twice, and none that is with a worker.
Queue ==
    /\ Distinct(pending)
    /\ \A t \in Elements(pending) : t \notin active
    /\ pc = "list" =>
         \A t \in Elements(pending) : \E j \in 1..listed : Plan[j] = t

\* A target that waits may run, and one that runs is not settled.
Wanted ==
    /\ \A t \in Targets : Fresh(t) =>
         state.rec[t].attempt < MaxAttempts /\ ~SettledInMemory(t)
    /\ \A t \in Targets : wpc[t] \in {"setup", "running", "complete", "escape"} =>
         state.rec[t].state \in {"running", "retrying", "interrupted"}

\* The record the holder of the state lock decided on is still right.
Holding ==
    held.by # NoTarget =>
      LET t == held.by IN
        /\ wpc[t] \in UpdateSteps
        /\ \/ held.rec.attempt = state.rec[t].attempt
           \/ wpc[t] = "begin" /\ held.rec.attempt = state.rec[t].attempt + 1
        /\ wpc[t] = "begin" =>
             /\ held.rec.state \in {"running", "retrying", "interrupted"}
             /\ flag \/ held.rec.attempt = state.rec[t].attempt + 1
        /\ t \in ids /\ state.rec[t].state = "interrupted" => held.rec.state = "interrupted"

\* An interrupt was asked for, or came out of a pipeline.
Alarm == flag \/ ids # {}

\* An execution the target may still have for its counted attempt, and one it
\* may have without counting because an interrupt arrived before it started.
Due(t) == IF wpc[t] = "setup" THEN 1 ELSE 0
Spare(t) == IF Alarm /\ (flag => Fresh(t) \/ Ahead(t)) THEN 1 ELSE 0

Accounts ==
    /\ Recorded(disk) =>
         \A t \in Targets :
           executions[t] + Due(t) + Spare(t) <= disk.rec[t].attempt + signals
    /\ ~flag => \A t \in ids :
         \/ wpc[t] \in {"escape", "raised"}
         \/ pc = "drain" /\ wpc[t] = "idle" /\ t \notin Elements(pending)

\* Nobody who may run is forgotten while nobody asked for an interrupt.
Coverage ==
    /\ pc \in {"list", "fill", "wait", "reap"} /\ ~flag =>
         \A t \in Targets : Eligible(t) =>
           \/ t \in Elements(pending) \cup active
           \/ Ahead(t)
    /\ pc \in {"gaps", "finish"} /\ ~flag => \A t \in Targets : ~Eligible(t)
    /\ pc = "finish" =>
         \A t \in Targets :
           state.rec[t].state = "completed" /\ state.rec[t].attempt >= MaxAttempts
             => dir[t] = "completed"

Inv ==
    /\ TypeOK /\ Early /\ Documented /\ Threads /\ Queue /\ Wanted /\ Holding
    /\ Accounts /\ Coverage

-----------------------------------------------------------------------------
(* The deque.                                                              *)

\* What Append leaves in the deque (pending.append).
LEMMA AppendElements ==
    ASSUME NEW s \in Seq(Targets), NEW t \in Targets
    PROVE  /\ Append(s, t) \in Seq(Targets)
           /\ Elements(Append(s, t)) = Elements(s) \cup {t}
           /\ Distinct(s) /\ t \notin Elements(s) => Distinct(Append(s, t))
<1> DEFINE n == Len(s)
           a == Append(s, t)
<1>1. n \in Nat /\ DOMAIN s = 1..n
  OBVIOUS
<1>2. a \in Seq(Targets) /\ Len(a) = n + 1 /\ DOMAIN a = 1..(n + 1)
  OBVIOUS
<1>3. (\A i \in 1..n : a[i] = s[i]) /\ a[n + 1] = t
  OBVIOUS
<1> HIDE DEF n, a
<1>4. Elements(a) = Elements(s) \cup {t}
  <2>1. ASSUME NEW x \in Elements(a) PROVE x \in Elements(s) \cup {t}
    <3>1. PICK i \in 1..(n + 1) : x = a[i]
      BY <2>1, <1>2 DEF Elements
    <3>2. i \in 1..n \/ i = n + 1
      BY <3>1, <1>1
    <3> QED
      BY <3>1, <3>2, <1>1, <1>3 DEF Elements
  <2>2. ASSUME NEW x \in Elements(s) PROVE x \in Elements(a)
    <3>1. PICK i \in 1..n : x = s[i]
      BY <2>2, <1>1 DEF Elements
    <3>2. i \in 1..(n + 1)
      BY <3>1, <1>1
    <3> QED
      BY <3>1, <3>2, <1>2, <1>3 DEF Elements
  <2>3. t \in Elements(a)
    <3>1. n + 1 \in 1..(n + 1)
      BY <1>1
    <3> QED
      BY <3>1, <1>2, <1>3 DEF Elements
  <2> QED
    BY <2>1, <2>2, <2>3
<1>5. ASSUME Distinct(s), t \notin Elements(s) PROVE Distinct(a)
  <2>1. \A i \in 1..n : s[i] # t
    BY <1>5, <1>1 DEF Elements
  <2>2. ASSUME NEW i \in 1..(n + 1), NEW j \in 1..(n + 1), a[i] = a[j] PROVE i = j
    <3>1. (i \in 1..n \/ i = n + 1) /\ (j \in 1..n \/ j = n + 1)
      BY <1>1
    <3>2. i \in 1..n /\ j \in 1..n => s[i] = s[j]
      BY <2>2, <1>3
    <3>3. i \in 1..n /\ j \in 1..n => i = j
      BY <3>2, <1>1, <1>5 DEF Distinct
    <3> QED
      BY <3>1, <3>3, <2>1, <2>2, <1>3
  <2> QED
    BY <2>2, <1>2 DEF Distinct
<1> QED
  BY <1>2, <1>4, <1>5 DEF a

\* What popleft takes from the deque and leaves in it.
LEMMA TailElements ==
    ASSUME NEW s \in Seq(Targets), s # <<>>, Distinct(s)
    PROVE  /\ Head(s) \in Elements(s)
           /\ Tail(s) \in Seq(Targets)
           /\ Distinct(Tail(s))
           /\ Elements(s) = Elements(Tail(s)) \cup {Head(s)}
           /\ Head(s) \notin Elements(Tail(s))
<1> DEFINE n == Len(s)
           r == Tail(s)
<1>1. n \in Nat \ {0} /\ DOMAIN s = 1..n
  OBVIOUS
<1>2. r \in Seq(Targets) /\ Len(r) = n - 1 /\ DOMAIN r = 1..(n - 1)
  OBVIOUS
<1>3. (\A i \in 1..(n - 1) : r[i] = s[i + 1]) /\ Head(s) = s[1]
  OBVIOUS
<1> HIDE DEF n, r
<1>4. Head(s) \in Elements(s)
  <2>1. 1 \in 1..n
    BY <1>1
  <2> QED
    BY <2>1, <1>1, <1>3 DEF Elements
<1>5. ASSUME NEW i \in 1..(n - 1), NEW j \in 1..(n - 1), r[i] = r[j] PROVE i = j
  <2>1. i + 1 \in 1..n /\ j + 1 \in 1..n /\ s[i + 1] = s[j + 1]
    BY <1>1, <1>3, <1>5
  <2>2. i + 1 = j + 1
    BY <2>1, <1>1 DEF Distinct
  <2> QED
    BY <2>2, <1>1
<1>6. ASSUME NEW x \in Elements(s) PROVE x \in Elements(r) \cup {Head(s)}
  <2>1. PICK i \in 1..n : x = s[i]
    BY <1>6, <1>1 DEF Elements
  <2>2. CASE i = 1
    BY <2>1, <2>2, <1>3
  <2>3. CASE i # 1
    <3>1. i - 1 \in 1..(n - 1) /\ (i - 1) + 1 = i
      BY <2>3, <1>1
    <3>2. r[i - 1] = x
      BY <3>1, <2>1, <1>3
    <3> QED
      BY <3>1, <3>2, <1>2 DEF Elements
  <2> QED
    BY <2>2, <2>3
<1>7. ASSUME NEW x \in Elements(r) PROVE x \in Elements(s) /\ x # Head(s)
  <2>1. PICK i \in 1..(n - 1) : x = r[i]
    BY <1>7, <1>2 DEF Elements
  <2>2. i + 1 \in 1..n /\ 1 \in 1..n /\ i + 1 # 1 /\ x = s[i + 1]
    BY <2>1, <1>1, <1>3
  <2>3. s[i + 1] # s[1]
    BY <2>2, <1>1 DEF Distinct
  <2> QED
    BY <2>2, <2>3, <1>1, <1>3 DEF Elements
<1>8. Distinct(r)
  BY <1>5, <1>2 DEF Distinct
<1> QED
  BY <1>2, <1>4, <1>6, <1>7, <1>8 DEF r

\* A deque holds targets only, and an empty one none.
LEMMA ElementsType ==
    ASSUME NEW s \in Seq(Targets)
    PROVE  Elements(s) \subseteq Targets /\ (s = <<>> <=> Elements(s) = {})
<1>1. DOMAIN s = 1..Len(s) /\ Len(s) \in Nat /\ \A i \in 1..Len(s) : s[i] \in Targets
  OBVIOUS
<1>2. Elements(s) \subseteq Targets
  BY <1>1 DEF Elements
<1>3. s # <<>> => 1 \in DOMAIN s
  OBVIOUS
<1>4. s = <<>> => DOMAIN s = {}
  OBVIOUS
<1> QED
  BY <1>2, <1>3, <1>4 DEF Elements

-----------------------------------------------------------------------------
(* Records and documents.                                                  *)

\* A record and its fields.
LEMMA RecordType ==
    ASSUME NEW r \in Records
    PROVE  /\ r.state \in TargetStates /\ r.attempt \in 0..MaxAttempts /\ r.code \in Codes
           /\ r.attempt \in Nat /\ MaxAttempts \in Nat /\ MaxAttempts >= 1
           /\ Interrupted(r) \in Records
           /\ Interrupted(r).state = "interrupted"
           /\ Interrupted(r).attempt = r.attempt
<1>1. MaxAttempts \in Nat /\ MaxAttempts >= 1
  BY LimitsAssumption
<1>2. r.state \in TargetStates /\ r.attempt \in 0..MaxAttempts /\ r.code \in Codes
  BY DEF Records
<1>3. Interrupted(r).state = "interrupted" /\ Interrupted(r).attempt = r.attempt
      /\ Interrupted(r) \in Records
  BY DEF Records, Interrupted, TargetStates, Codes
<1> QED
  BY <1>1, <1>2, <1>3

\* The first records of a plan (_initial_records).
LEMMA InitialType ==
    /\ InitialState \in States
    /\ InitialState.status = "pending"
    /\ \A t \in Targets : InitialState.rec[t].attempt = 0
<1> DEFINE first(t) == [state |-> IF t \in Paused THEN "paused" ELSE "queued",
                        attempt |-> 0, code |-> "none"]
<1>1. 0 \in 0..MaxAttempts
  BY LimitsAssumption
<1>2. \A t \in Targets : first(t) \in Records /\ first(t).attempt = 0
  BY <1>1 DEF Records, TargetStates, Codes
<1>3. InitialState = [status |-> "pending", rec |-> [t \in Targets |-> first(t)]]
  BY DEF InitialState
<1> HIDE DEF first
<1> QED
  BY <1>2, <1>3 DEF States, Statuses

\* A document that is there has a record of every target, and is not one of
\* the other contents of the file.
LEMMA DocumentType ==
    ASSUME NEW s \in States
    PROVE  /\ s # Absent /\ s # Malformed
           /\ \A t \in Targets : s.rec[t] \in Records
           /\ s.status \in Statuses
           /\ s.rec \in [Targets -> Records]
BY DEF States, Absent, Malformed, Statuses

\* What the file can hold when it is neither missing nor damaged.
LEMMA RecordedType ==
    ASSUME disk \in Documents
    PROVE  Recorded(disk) <=> disk \in States
BY DocumentType DEF Documents, Recorded

\* Inside run the runner has a document.
LEMMA InMemory ==
    ASSUME Inv, pc \notin Outside
    PROVE  /\ state \in States /\ disk \in States
           /\ Recorded(disk)
           /\ \A t \in Targets : state.rec[t] \in Records /\ disk.rec[t] \in Records
<1>1. state \in States /\ disk \in States
  BY DEF Inv, TypeOK, Documented
<1> QED
  BY <1>1, DocumentType DEF Recorded

-----------------------------------------------------------------------------
(* The beginning, and the end of an invocation.                            *)

\* Nothing is recorded and nothing runs at first.
LEMMA InitInv == Init => Inv
<1> SUFFICES ASSUME Init PROVE Inv
  OBVIOUS
<1>1. Elements(pending) = {} /\ pending \in Seq(Targets) /\ Distinct(pending)
  BY DEF Init, Elements, Distinct
<1>2. TypeOK
  <2>1. 0 \in 0..Len(Plan)
    BY PlanAssumption
  <2> QED
    BY <1>1, <2>1 DEF Init, TypeOK, Documents, Dirs, UpdateSteps, Codes
<1>3. Early /\ Threads /\ Holding /\ Coverage
  BY DEF Init, Early, Threads, Holding, Coverage, Before
<1>4. Documented
  BY DEF Init, Documented, Outside, Before
<1>5. Queue /\ Wanted
  BY <1>1 DEF Init, Queue, Wanted, Fresh
<1>6. Accounts
  BY DEF Init, Accounts, Recorded
<1> QED
  BY <1>2, <1>3, <1>4, <1>5, <1>6 DEF Inv

\* A process that is gone leaves only the file, the directories and the
\* history: what they promise each other is all there is to keep.
LEMMA GoneKept ==
    ASSUME Inv, Gone,
           disk' \in Documents, dir' \in [Targets -> Dirs],
           executions' \in [Targets -> Nat],
           invocations' \in Nat, faults' \in Nat, signals' \in Nat,
           disk' \in States =>
             \A t \in Targets : executions'[t] <= disk'.rec[t].attempt + signals'
    PROVE  Inv'
<1>1. Elements(<<>>) = {} /\ <<>> \in Seq(Targets) /\ Distinct(<<>>)
  BY DEF Elements, Distinct
<1>2. TypeOK'
  <2>1. 0 \in 0..Len(Plan)
    BY PlanAssumption
  <2> QED
    BY <1>1, <2>1 DEF Gone, TypeOK, Documents, Dirs, UpdateSteps, Codes
<1>3. Early' /\ Threads' /\ Holding' /\ Coverage'
  BY DEF Gone, Early, Threads, Holding, Coverage, Before
<1>4. Documented'
  BY DEF Gone, Documented, Outside, Before
<1>5. Queue' /\ Wanted'
  BY <1>1 DEF Gone, Queue, Wanted, Fresh
<1>6. Accounts'
  <2>1. \A t \in Targets : Due(t)' = 0 /\ Spare(t)' = 0
    BY DEF Gone, Due, Spare, Alarm
  <2>2. ids' = {}
    BY DEF Gone
  <2>3. ASSUME Recorded(disk)', NEW t \in Targets
        PROVE  executions'[t] + Due(t)' + Spare(t)' <= disk'.rec[t].attempt + signals'
    <3>1. disk' \in States
      BY <2>3 DEF Documents, Recorded
    <3>2. executions'[t] \in Nat
      OBVIOUS
    <3> QED
      BY <2>1, <3>1, <3>2
  <2> QED
    BY <2>2, <2>3 DEF Accounts
<1> QED
  BY <1>2, <1>3, <1>4, <1>5, <1>6 DEF Inv

\* The debts only add to what was executed.
LEMMA WithoutDebts ==
    ASSUME Inv, disk \in States, NEW t \in Targets
    PROVE  executions[t] <= disk.rec[t].attempt + signals
<1>1. executions[t] + Due(t) + Spare(t) <= disk.rec[t].attempt + signals
  BY RecordedType DEF Inv, TypeOK, Accounts
<1>2. Due(t) \in {0, 1} /\ Spare(t) \in {0, 1}
  BY DEF Due, Spare
<1>3. executions[t] \in Nat /\ signals \in Nat /\ disk.rec[t].attempt \in Nat
  BY RecordType, DocumentType DEF Inv, TypeOK
<1> QED
  BY <1>1, <1>2, <1>3

\* The history is never ahead of a document that repeats the attempts.
LEMMA PublishedOnTheWayOut ==
    ASSUME Inv, pc \notin Outside, Gone,
           NEW s \in States,
           \A t \in Targets : s.rec[t].attempt >= disk.rec[t].attempt,
           disk' = s \/ disk' = disk,
           faults' \in Nat, UNCHANGED <<dir, executions, invocations, signals>>
    PROVE  Inv'
<1>1. disk \in States /\ disk' \in States /\ disk' \in Documents
  BY InMemory DEF Documents
<1>2. \A t \in Targets : disk'.rec[t].attempt >= disk.rec[t].attempt
  <2>1. \A t \in Targets : disk.rec[t].attempt \in Nat
    BY <1>1, DocumentType, RecordType
  <2> QED
    BY <2>1
<1>3. ASSUME NEW t \in Targets PROVE executions'[t] <= disk'.rec[t].attempt + signals'
  <2>1. disk.rec[t].attempt \in Nat /\ disk'.rec[t].attempt \in Nat
    BY <1>1, DocumentType, RecordType
  <2>2. executions[t] \in Nat /\ signals \in Nat
    BY DEF Inv, TypeOK
  <2>3. executions[t] <= disk.rec[t].attempt + signals
    BY <1>1, WithoutDebts
  <2> QED
    BY <2>1, <2>2, <2>3, <1>2
<1>4. dir' \in [Targets -> Dirs] /\ executions' \in [Targets -> Nat]
      /\ invocations' \in Nat /\ signals' \in Nat
  BY DEF Inv, TypeOK
<1> QED
  BY <1>1, <1>3, <1>4, GoneKept

\* The same when nothing is published.
LEMMA GoneQuietly ==
    ASSUME Inv, Gone, faults' \in Nat,
           UNCHANGED <<disk, dir, executions, invocations, signals>>
    PROVE  Inv'
<1>1. disk' \in Documents /\ dir' \in [Targets -> Dirs] /\ executions' \in [Targets -> Nat]
      /\ invocations' \in Nat /\ signals' \in Nat
  BY DEF Inv, TypeOK
<1>2. disk' \in States =>
        \A t \in Targets : executions'[t] <= disk'.rec[t].attempt + signals'
  BY WithoutDebts
<1> QED
  BY <1>1, <1>2, GoneKept

-----------------------------------------------------------------------------
(* The steps of run before the pool.                                       *)

\* The outcomes of _publish: the document is there, or the call raised.
LEMMA PublishEffect ==
    ASSUME NEW s, NEW landed \in BOOLEAN, NEW raised \in BOOLEAN,
           Publish(s, landed, raised), faults \in Nat
    PROVE  /\ disk' = s \/ (raised /\ disk' = disk)
           /\ ~raised => disk' = s
           /\ faults' \in Nat
           /\ landed => disk' = s
           /\ ~landed => raised
BY DEF Publish, Fault

\* Starting an invocation.
LEMMA StartKept == Inv /\ Start => Inv'
<1> SUFFICES ASSUME Inv, Start PROVE Inv'
  OBVIOUS
<1>1. pc = "off" /\ pc' = "load" /\ resume' \in BOOLEAN /\ invocations' = invocations + 1
      /\ UNCHANGED <<disk, dir, state, flag, ids, listed, pending, active, done, wpc, err,
                     held, executions, faults, signals>>
  BY DEF Start, worker
<1>2. TypeOK'
  <2>1. invocations' \in Nat
    BY <1>1 DEF Inv, TypeOK
  <2> QED
    BY <1>1, <2>1 DEF Inv, TypeOK
<1>3. Early' /\ Threads' /\ Holding' /\ Coverage'
  <2>1. Early'
    BY <1>1 DEF Inv, Early, Before
  <2>2. Threads'
    BY <1>1 DEF Inv, Threads
  <2>3. Holding'
    BY <1>1 DEF Inv, Holding
  <2>4. Coverage'
    BY <1>1 DEF Coverage
  <2> QED
    BY <2>1, <2>2, <2>3, <2>4
<1>4. Documented'
  BY <1>1 DEF Inv, Documented, Outside, Before
<1>5. Queue'
  BY <1>1 DEF Inv, Queue
<1>6. Wanted'
  BY <1>1 DEF Inv, Wanted, Fresh, SettledInMemory
<1>7. Accounts'
  <2>1. \A t \in Targets : Due(t)' = Due(t) /\ Spare(t)' = Spare(t)
    BY <1>1 DEF Due, Spare, Alarm, Fresh, Ahead
  <2>2. ids' = {}
    BY <1>1 DEF Inv, Early, Before
  <2> QED
    BY <1>1, <2>1, <2>2 DEF Inv, Accounts
<1> QED
  BY <1>2, <1>3, <1>4, <1>5, <1>6, <1>7 DEF Inv

\* The shape of the steps that go on towards the pool with the document s.
Onwards(s, label) ==
    /\ pc' = label /\ state' = s /\ disk' = s
    /\ resume' \in BOOLEAN
    /\ UNCHANGED <<dir, flag, ids, listed, pending, active, done, wpc, err, held,
                   invocations, signals>>

\* Such a step keeps the invariant when the document counts the executions.
LEMMA OnwardsKept ==
    ASSUME Inv, pc \in Before,
           NEW s \in States, NEW label \in {"normalize", "running"},
           Onwards(s, label), faults' \in Nat,
           executions' \in [Targets -> Nat],
           \A t \in Targets : executions'[t] <= s.rec[t].attempt + signals
    PROVE  Inv'
<1>1. pc' = label /\ state' = s /\ disk' = s
      /\ UNCHANGED <<dir, flag, ids, listed, pending, active, done, wpc, err, held,
                     invocations, signals>>
  BY DEF Onwards
<1>2. ~flag /\ ids = {} /\ pending = <<>> /\ active = {} /\ listed = 0
  BY DEF Inv, Early
<1>3. Elements(pending) = {} /\ \A t \in Targets : wpc[t] = "idle"
  BY <1>2 DEF Elements, Inv, Threads
<1>4. held.by = NoTarget
  <2>1. held.by # NoTarget => held.by \in Targets
    BY DEF Inv, TypeOK
  <2> QED
    BY <2>1, <1>3 DEF Inv, Holding, UpdateSteps
<1>5. TypeOK'
  <2>1. disk' \in Documents /\ state' \in States \cup {Absent} /\ resume' \in BOOLEAN
    BY <1>1 DEF Documents, Onwards
  <2>2. pc' \in {"normalize", "running"}
    BY <1>1
  <2> QED
    BY <2>1, <2>2, <1>1 DEF Inv, TypeOK
<1>6. Early'
  BY <1>1, <1>2 DEF Early
<1>7. Threads'
  BY <1>1, <1>3 DEF Threads
<1>8. Holding'
  BY <1>1, <1>4 DEF Holding
<1>9. Coverage'
  BY <1>1 DEF Coverage
<1>10. Documented'
  <2>1. s # Absent /\ \A t \in Targets : s.rec[t].attempt \in Nat
    BY DocumentType, RecordType
  <2> QED
    BY <2>1, <1>1 DEF Documented, Outside, Before
<1>11. Queue' /\ Wanted'
  <2>1. Queue'
    BY <1>1, <1>2, <1>3 DEF Queue, Distinct
  <2>2. Wanted'
    BY <1>1, <1>3 DEF Wanted, Fresh
  <2> QED
    BY <2>1, <2>2
<1>12. Accounts'
  <2>1. \A t \in Targets : Due(t)' = 0 /\ Spare(t)' = 0
    BY <1>1, <1>2, <1>3 DEF Due, Spare, Alarm
  <2>2. \A t \in Targets : executions'[t] + 0 + 0 = executions'[t]
    OBVIOUS
  <2> QED
    BY <1>1, <1>2, <2>1, <2>2 DEF Accounts
<1> QED
  BY <1>5, <1>6, <1>7, <1>8, <1>9, <1>10, <1>11, <1>12 DEF Inv

\* Loading the state to resume, or refusing a damaged one.
LEMMA LoadStateKept == Inv /\ LoadState => Inv'
<1> SUFFICES ASSUME Inv, LoadState PROVE Inv'
  OBVIOUS
<1>1. CASE Gone
  <2>1. faults' \in Nat /\ UNCHANGED <<disk, dir, executions, invocations, signals>>
    BY DEF LoadState, bounds, Inv, TypeOK
  <2> QED
    BY <1>1, <2>1, GoneQuietly
<1>2. CASE ~Gone
  <2>1. /\ pc = "load" /\ disk # Absent /\ disk # Malformed
        /\ state' = disk /\ pc' = "normalize" /\ resume' = FALSE
        /\ UNCHANGED <<flag, ids, listed, pending, active, done, wpc, err, held,
                       disk, dir, executions, invocations, faults, signals>>
    BY <1>2 DEF LoadState, worker, bounds
  <2>2. disk \in States /\ pc \in Before
    BY <2>1 DEF Inv, TypeOK, Documents, Before
  <2>3. Onwards(disk, "normalize")
    BY <2>1 DEF Onwards
  <2>4. faults' \in Nat /\ executions' \in [Targets -> Nat]
    BY <2>1 DEF Inv, TypeOK
  <2>5. \A t \in Targets : executions'[t] <= disk.rec[t].attempt + signals
    BY <2>1, <2>2, WithoutDebts
  <2> QED
    BY <2>2, <2>3, <2>4, <2>5, OnwardsKept
<1> QED
  BY <1>1, <1>2

\* Creating a new state: its first publication starts the count again.
LEMMA CreateStateKept == Inv /\ CreateState => Inv'
<1> SUFFICES ASSUME Inv, CreateState PROVE Inv'
  OBVIOUS
<1>1. PICK landed \in BOOLEAN, raised \in BOOLEAN :
        /\ MainPublish(InitialState, landed, raised, "normalize")
        /\ executions' = IF landed THEN [t \in Targets |-> 0] ELSE executions
  BY DEF CreateState
<1>2. pc = "load" /\ pc \in Before /\ UNCHANGED <<dir, invocations, signals>>
  BY DEF CreateState, Before
<1>3. Publish(InitialState, landed, raised) /\ faults \in Nat
  BY <1>1 DEF MainPublish, Inv, TypeOK
<1>4. /\ disk' = InitialState \/ (raised /\ disk' = disk)
      /\ ~raised => disk' = InitialState
      /\ faults' \in Nat
      /\ landed => disk' = InitialState
      /\ ~landed => raised
  BY <1>3, PublishEffect
<1>5. landed => disk' = InitialState /\ \A t \in Targets : executions'[t] = 0
  BY <1>1, <1>4
<1>6. ~landed => disk' = disk /\ executions' = executions
  BY <1>1, <1>3 DEF Publish
<1>7. executions' \in [Targets -> Nat]
  <2>1. landed => executions' = [t \in Targets |-> 0]
    BY <1>1
  <2>2. executions \in [Targets -> Nat]
    BY DEF Inv, TypeOK
  <2> QED
    BY <2>1, <2>2, <1>6
<1>8. ASSUME disk' \in States, NEW t \in Targets
      PROVE  executions'[t] <= disk'.rec[t].attempt + signals'
  <2>1. CASE landed
    <3>1. disk'.rec[t].attempt = 0 /\ executions'[t] = 0 /\ signals' \in Nat
      BY <2>1, <1>2, <1>5, InitialType DEF Inv, TypeOK
    <3> QED
      BY <3>1
  <2>2. CASE ~landed
    BY <2>2, <1>2, <1>6, <1>8, WithoutDebts
  <2> QED
    BY <2>1, <2>2
<1>9. CASE raised
  <2>1. Gone
    BY <1>1, <1>9 DEF MainPublish
  <2>2. disk' \in Documents /\ dir' \in [Targets -> Dirs] /\ invocations' \in Nat
        /\ signals' \in Nat
    BY <1>2, <1>4, InitialType DEF Inv, TypeOK, Documents
  <2> QED
    BY <2>1, <2>2, <1>4, <1>7, <1>8, GoneKept
<1>10. CASE ~raised
  <2>1. /\ state' = InitialState /\ pc' = "normalize" /\ resume' = FALSE
        /\ UNCHANGED <<flag, ids, listed, pending, active, done, wpc, err, held>>
    BY <1>1, <1>10 DEF MainPublish, worker
  <2>2. Onwards(InitialState, "normalize")
    BY <2>1, <1>2, <1>4, <1>10 DEF Onwards
  <2>3. \A t \in Targets : executions'[t] <= InitialState.rec[t].attempt + signals
    BY <1>2, <1>4, <1>8, <1>10, InitialType
  <2> QED
    BY <2>2, <2>3, <1>2, <1>4, <1>7, InitialType, OnwardsKept
<1> QED
  BY <1>9, <1>10

\* What _normalize_completed_gaps does to the records: attempts stay, and only
\* a completed target without an attempt left is rewritten.
LEMMA NormalizedEffect ==
    ASSUME state \in States
    PROVE  /\ [state EXCEPT !.rec = Normalized(@)] \in States
           /\ [state EXCEPT !.rec = Normalized(@)].status = state.status
           /\ [state EXCEPT !.rec = Normalized(@)].rec = Normalized(state.rec)
           /\ \A t \in Targets :
                /\ Normalized(state.rec)[t].attempt = state.rec[t].attempt
                /\ \/ Normalized(state.rec)[t] = state.rec[t]
                   \/ /\ state.rec[t].state = "completed"
                      /\ state.rec[t].attempt >= MaxAttempts
                      /\ dir[t] # "completed"
                      /\ Normalized(state.rec)[t].state = "completed_with_gaps"
                /\ /\ Normalized(state.rec)[t].state = "completed"
                   /\ Normalized(state.rec)[t].attempt >= MaxAttempts
                   => dir[t] = "completed"
<1> DEFINE old(t) == state.rec[t]
           gap(t) == [old(t) EXCEPT !.state = "completed_with_gaps", !.code = "permanent"]
           hit(t) == old(t).state = "completed" /\ old(t).attempt >= MaxAttempts
                     /\ dir[t] # "completed"
<1>1. \A t \in Targets : old(t) \in Records
  BY DocumentType
<1>2. \A t \in Targets : gap(t) \in Records /\ gap(t).attempt = old(t).attempt
                         /\ gap(t).state = "completed_with_gaps"
  BY <1>1 DEF Records, TargetStates, Codes
<1>3. Normalized(state.rec) = [t \in Targets |-> IF hit(t) THEN gap(t) ELSE old(t)]
  BY DEF Normalized, ArtifactsReusable
<1> HIDE DEF gap, old
<1>4. Normalized(state.rec) \in [Targets -> Records]
  BY <1>1, <1>2, <1>3
<1>5. [state EXCEPT !.rec = Normalized(@)] \in States
      /\ [state EXCEPT !.rec = Normalized(@)].status = state.status
      /\ [state EXCEPT !.rec = Normalized(@)].rec = Normalized(state.rec)
  BY <1>4 DEF States
<1>6. ASSUME NEW t \in Targets
      PROVE  /\ Normalized(state.rec)[t].attempt = old(t).attempt
             /\ \/ Normalized(state.rec)[t] = old(t)
                \/ hit(t) /\ Normalized(state.rec)[t].state = "completed_with_gaps"
             /\ /\ Normalized(state.rec)[t].state = "completed"
                /\ Normalized(state.rec)[t].attempt >= MaxAttempts
                => dir[t] = "completed"
  <2>1. hit(t) => Normalized(state.rec)[t] = gap(t)
    BY <1>3
  <2>2. ~hit(t) => Normalized(state.rec)[t] = old(t)
    BY <1>3
  <2> QED
    BY <2>1, <2>2, <1>2
<1> QED
  BY <1>5, <1>6 DEF old

\* The sums of the account, and what carries it over a step.
LEMMA DebtType ==
    ASSUME NEW t
    PROVE  Due(t) \in {0, 1} /\ Spare(t) \in {0, 1} /\ Due(t)' \in {0, 1} /\ Spare(t)' \in {0, 1}
BY DEF Due, Spare

\* An account that held still holds when no debt grew and the file only went
\* forward.
LEMMA AccountCarried ==
    ASSUME Inv, pc \notin Outside, disk' \in States, NEW t \in Targets,
           disk'.rec[t].attempt >= disk.rec[t].attempt,
           executions'[t] = executions[t], signals' = signals,
           Due(t)' <= Due(t), Spare(t)' <= Spare(t)
    PROVE  executions'[t] + Due(t)' + Spare(t)' <= disk'.rec[t].attempt + signals'
<1>1. executions[t] + Due(t) + Spare(t) <= disk.rec[t].attempt + signals
  BY InMemory DEF Inv, Accounts
<1>2. executions[t] \in Nat /\ signals \in Nat /\ disk.rec[t].attempt \in Nat
      /\ disk'.rec[t].attempt \in Nat
  BY InMemory, RecordType, DocumentType DEF Inv, TypeOK
<1> QED
  BY <1>1, <1>2, DebtType

\* When nothing is active no worker is anywhere and the lock is free.
LEMMA NobodyWorks ==
    ASSUME Inv, active = {}
    PROVE  held = [by |-> NoTarget] /\ held.by = NoTarget /\ \A t \in Targets : wpc[t] = "idle"
<1>1. \A t \in Targets : wpc[t] = "idle"
  BY DEF Inv, Threads
<1>2. held.by # NoTarget => held.by \in Targets
  BY DEF Inv, TypeOK
<1>3. held.by = NoTarget
  BY <1>1, <1>2 DEF Inv, Holding, UpdateSteps
<1>4. held \in [by : {NoTarget}]
  BY <1>3, TargetsAssumption DEF Inv, TypeOK
<1> QED
  BY <1>1, <1>3, <1>4

\* The normalisation after the pool.
LEMMA GapsKept ==
    ASSUME Inv, pc = "gaps", pc' = "finish",
           state' = [state EXCEPT !.rec = Normalized(@)],
           disk' = state' \/ (state' = state /\ disk' = disk),
           faults' \in Nat, resume' \in BOOLEAN,
           UNCHANGED <<dir, flag, ids, listed, pending, active, done, wpc, err, held,
                       executions, invocations, signals>>
    PROVE  Inv'
<1>1. state \in States /\ disk \in States /\ pc \notin Outside
      /\ \A t \in Targets : state.rec[t] \in Records /\ disk.rec[t] \in Records
  BY InMemory DEF Outside
<1>2. /\ state' \in States /\ state'.status = state.status
      /\ state'.rec = Normalized(state.rec)
  BY <1>1, NormalizedEffect
<1>3. ASSUME NEW t \in Targets
      PROVE  /\ state'.rec[t].attempt = state.rec[t].attempt
             /\ \/ state'.rec[t] = state.rec[t]
                \/ /\ state.rec[t].state = "completed" /\ state.rec[t].attempt >= MaxAttempts
                   /\ state'.rec[t].state = "completed_with_gaps"
             /\ state'.rec[t].state = "completed" /\ state'.rec[t].attempt >= MaxAttempts
                  => dir[t] = "completed"
  BY <1>1, <1>2, NormalizedEffect
<1>4. \A t \in Targets : state'.rec[t] \in Records
  BY <1>2, DocumentType
<1>5. disk' \in States /\ \A t \in Targets : /\ disk'.rec[t].attempt <= state'.rec[t].attempt
                                              /\ disk'.rec[t].attempt >= disk.rec[t].attempt
  <2>1. \A t \in Targets : disk.rec[t].attempt <= state.rec[t].attempt
    BY <1>1 DEF Inv, Documented
  <2>2. \A t \in Targets : disk.rec[t].attempt \in Nat /\ state.rec[t].attempt \in Nat
    BY <1>1, RecordType
  <2>3. CASE disk' = state'
    <3>1. \A t \in Targets : disk'.rec[t].attempt = state.rec[t].attempt
      BY <2>3, <1>3
    <3> QED
      BY <2>1, <2>2, <2>3, <3>1, <1>2, <1>3
  <2>4. CASE state' = state /\ disk' = disk
    <3>1. disk' \in States /\ \A t \in Targets : disk'.rec[t] = disk.rec[t]
      BY <2>4, <1>1
    <3>2. \A t \in Targets : state'.rec[t] = state.rec[t]
      BY <2>4
    <3>3. \A t \in Targets : disk.rec[t].attempt >= disk.rec[t].attempt
      BY <2>2
    <3> QED
      BY <2>1, <3>1, <3>2, <3>3
  <2> QED
    BY <2>3, <2>4
<1>6. active = {} /\ held.by = NoTarget /\ \A t \in Targets : wpc[t] = "idle"
  BY NobodyWorks DEF Inv, Threads
<1>7. TypeOK'
  BY <1>2, <1>5 DEF Inv, TypeOK, Documents
<1>8. Early' /\ Holding' /\ Threads'
  <2>1. Early'
    BY DEF Early, Before
  <2>2. Holding'
    BY <1>6 DEF Holding
  <2>3. Threads'
    BY <1>6 DEF Threads
  <2> QED
    BY <2>1, <2>2, <2>3
<1>9. Documented'
  <2>1. state'.status = "running" /\ state' # Absent
    BY <1>2, DocumentType DEF Inv, Documented, Before
  <2> QED
    BY <2>1, <1>2, <1>5 DEF Documented, Outside, Before
<1>10. Queue'
  BY DEF Inv, Queue
<1>11. Wanted'
  <2>1. ASSUME NEW t \in Targets, Fresh(t)'
        PROVE  state'.rec[t].attempt < MaxAttempts /\ ~SettledInMemory(t)'
    <3>1. Fresh(t)
      BY <2>1 DEF Fresh
    <3>2. state.rec[t].attempt < MaxAttempts /\ ~SettledInMemory(t)
      BY <3>1 DEF Inv, Wanted
    <3>3. state.rec[t].attempt \in Nat /\ MaxAttempts \in Nat
      BY <1>1, RecordType
    <3>4. state'.rec[t] = state.rec[t]
      BY <3>2, <3>3, <1>3
    <3> QED
      BY <3>2, <3>4 DEF SettledInMemory
  <2> QED
    BY <2>1, <1>6 DEF Wanted
<1>12. Accounts'
  <2>1. \A t \in Targets : Due(t)' = Due(t) /\ Spare(t)' = Spare(t)
    BY DEF Due, Spare, Alarm, Fresh, Ahead
  <2>2. ASSUME NEW t \in Targets
        PROVE  executions'[t] + Due(t)' + Spare(t)' <= disk'.rec[t].attempt + signals'
    <3>1. Due(t)' <= Due(t) /\ Spare(t)' <= Spare(t)
      BY <2>1, DebtType
    <3> QED
      BY <3>1, <1>1, <1>5, AccountCarried
  <2>3. ~flag => ids = {}
    BY <1>6 DEF Inv, Accounts, TypeOK
  <2> QED
    BY <2>2, <2>3 DEF Accounts
<1>13. Coverage'
  <2>1. ASSUME ~flag, NEW t \in Targets, Eligible(t)' PROVE FALSE
    <3>1. ~Eligible(t)
      BY <2>1 DEF Inv, Coverage
    <3>2. state'.rec[t] = state.rec[t]
      BY <2>1, <1>3 DEF Eligible
    <3> QED
      BY <3>1, <3>2, <2>1 DEF Eligible, ArtifactsReusable
  <2> QED
    BY <2>1, <1>3 DEF Coverage
<1> QED
  BY <1>7, <1>8, <1>9, <1>10, <1>11, <1>12, <1>13 DEF Inv

\* _normalize_completed_gaps, wherever it is called.
LEMMA NormalizeKept == Inv /\ Normalize => Inv'
<1> SUFFICES ASSUME Inv, Normalize PROVE Inv'
  OBVIOUS
<1> DEFINE s == [state EXCEPT !.rec = Normalized(@)]
           label == IF pc = "gaps" THEN "finish" ELSE "running"
<1>1. pc \in {"normalize", "gaps"} /\ UNCHANGED <<dir, executions, invocations, signals>>
  BY DEF Normalize
<1>2. state \in States /\ disk \in States /\ pc \notin Outside
      /\ \A t \in Targets : state.rec[t] \in Records /\ disk.rec[t] \in Records
  BY <1>1, InMemory DEF Outside
<1>3. s \in States /\ \A t \in Targets : s.rec[t].attempt = state.rec[t].attempt
  BY <1>2, NormalizedEffect
<1>4. \A t \in Targets : s.rec[t].attempt >= disk.rec[t].attempt
  <2>1. \A t \in Targets : disk.rec[t].attempt <= state.rec[t].attempt
    BY <1>2 DEF Inv, Documented
  <2>2. \A t \in Targets : disk.rec[t].attempt \in Nat /\ state.rec[t].attempt \in Nat
    BY <1>2, RecordType
  <2> QED
    BY <2>1, <2>2, <1>3
<1>5. \/ /\ s = state /\ pc' = label
         /\ UNCHANGED <<disk, state, flag, ids, resume, listed, pending, active, done,
                        wpc, err, held, faults>>
      \/ \E landed, raised \in BOOLEAN : MainPublish(s, landed, raised, label)
  BY DEF Normalize, worker
<1>6. \/ Gone /\ (disk' = s \/ disk' = disk) /\ faults' \in Nat
      \/ /\ pc' = label /\ state' = s /\ faults' \in Nat /\ resume' \in BOOLEAN
         /\ disk' = s \/ (s = state /\ disk' = disk)
         /\ UNCHANGED <<flag, ids, listed, pending, active, done, wpc, err, held>>
  <2> HIDE DEF s, label
  <2>1. faults \in Nat /\ resume \in BOOLEAN
    BY DEF Inv, TypeOK
  <2>2. CASE s = state /\ pc' = label
             /\ UNCHANGED <<disk, state, flag, ids, resume, listed, pending, active, done,
                            wpc, err, held, faults>>
    BY <2>1, <2>2
  <2>3. CASE \E landed, raised \in BOOLEAN : MainPublish(s, landed, raised, label)
    <3>1. PICK landed \in BOOLEAN, raised \in BOOLEAN : MainPublish(s, landed, raised, label)
      BY <2>3
    <3>2. Publish(s, landed, raised)
      BY <3>1 DEF MainPublish
    <3>3. /\ disk' = s \/ (raised /\ disk' = disk)
          /\ ~raised => disk' = s
          /\ faults' \in Nat
      BY <3>2, <2>1, PublishEffect
    <3>4. CASE raised
      BY <3>1, <3>3, <3>4 DEF MainPublish
    <3>5. CASE ~raised
      BY <3>1, <3>3, <3>5 DEF MainPublish, worker
    <3> QED
      BY <3>4, <3>5
  <2> QED
    BY <2>2, <2>3, <1>5
<1>7. CASE Gone /\ (disk' = s \/ disk' = disk) /\ faults' \in Nat
  <2> HIDE DEF s
  <2> QED
    BY <1>1, <1>2, <1>3, <1>4, <1>7, PublishedOnTheWayOut
<1>8. CASE /\ pc' = label /\ state' = s /\ faults' \in Nat /\ resume' \in BOOLEAN
           /\ disk' = s \/ (s = state /\ disk' = disk)
           /\ UNCHANGED <<flag, ids, listed, pending, active, done, wpc, err, held>>
  <2>1. CASE pc = "gaps"
    BY <2>1, <1>1, <1>8, GapsKept
  <2>2. CASE pc = "normalize"
    <3> HIDE DEF s
    <3>1. disk = state /\ pc \in Before /\ label = "running"
      BY <2>2 DEF Inv, Documented, Before
    <3>2. Onwards(s, "running")
      BY <3>1, <1>1, <1>8 DEF Onwards
    <3>3. executions' \in [Targets -> Nat] /\ executions' = executions
      BY <1>1 DEF Inv, TypeOK
    <3>4. \A t \in Targets : executions'[t] <= s.rec[t].attempt + signals
      <4>1. \A t \in Targets : executions[t] <= disk.rec[t].attempt + signals
        BY <1>2, WithoutDebts
      <4> QED
        BY <4>1, <3>1, <3>3, <1>3
    <3> QED
      BY <3>1, <3>2, <3>3, <3>4, <1>3, <1>8, OnwardsKept
  <2> QED
    BY <2>1, <2>2, <1>1
<1> QED
  BY <1>6, <1>7, <1>8

\* The plan lists every target once.
LEMMA PlanFacts ==
    /\ Len(Plan) \in Nat /\ DOMAIN Plan = 1..Len(Plan)
    /\ \A j \in 1..Len(Plan) : Plan[j] \in Targets
    /\ \A t \in Targets : \E j \in 1..Len(Plan) : Plan[j] = t
    /\ \A i, j \in 1..Len(Plan) : Plan[i] = Plan[j] => i = j
<1>1. Plan \in Seq(Targets)
  BY PlanAssumption
<1>2. Len(Plan) \in Nat /\ DOMAIN Plan = 1..Len(Plan)
  BY <1>1
<1>3. \A j \in 1..Len(Plan) : Plan[j] \in Targets
  BY <1>1
<1> QED
  BY <1>2, <1>3, PlanAssumption

\* The status running is published before the pool is made.
LEMMA RunningKept == Inv /\ Running => Inv'
<1> SUFFICES ASSUME Inv, Running PROVE Inv'
  OBVIOUS
<1> DEFINE s == [state EXCEPT !.status = "running"]
<1>1. pc = "running" /\ pc \notin Outside /\ UNCHANGED <<dir, executions, invocations, signals>>
  BY DEF Running, Outside
<1>2. state \in States /\ disk \in States /\ disk = state
      /\ \A t \in Targets : state.rec[t] \in Records /\ disk.rec[t] \in Records
  BY <1>1, InMemory DEF Inv, Documented
<1>3. s \in States /\ s.rec = state.rec /\ s.status = "running"
  BY <1>2 DEF States, Statuses
<1>4. \A t \in Targets : s.rec[t].attempt >= disk.rec[t].attempt
                         /\ s.rec[t].attempt <= s.rec[t].attempt
  <2>1. \A t \in Targets : disk.rec[t].attempt \in Nat
    BY <1>2, RecordType
  <2> QED
    BY <2>1, <1>2, <1>3
<1>5. PICK landed \in BOOLEAN, raised \in BOOLEAN :
        /\ Publish(s, landed, raised)
        /\ \/ raised /\ Gone
           \/ /\ ~raised
              /\ state' = s
              /\ pc' = "list"
              /\ UNCHANGED <<flag, ids, resume, listed, pending, active, done, worker>>
  BY DEF Running
<1> HIDE DEF s
<1>6. /\ disk' = s \/ (raised /\ disk' = disk)
      /\ ~raised => disk' = s
      /\ faults' \in Nat
  <2>1. faults \in Nat
    BY DEF Inv, TypeOK
  <2> QED
    BY <2>1, <1>5, PublishEffect
<1>7. CASE raised /\ Gone
  BY <1>1, <1>3, <1>4, <1>6, <1>7, PublishedOnTheWayOut
<1>8. CASE /\ ~raised
           /\ state' = s
           /\ pc' = "list"
           /\ UNCHANGED <<flag, ids, resume, listed, pending, active, done, worker>>
  <2>1. /\ state' = s /\ disk' = s /\ pc' = "list"
        /\ UNCHANGED <<flag, ids, resume, listed, pending, active, done, wpc, err, held>>
    BY <1>6, <1>8 DEF worker
  <2>2. ~flag /\ ids = {} /\ pending = <<>> /\ active = {} /\ listed = 0
    BY <1>1 DEF Inv, Early, Before
  <2>3. Elements(pending) = {} /\ held.by = NoTarget /\ \A t \in Targets : wpc[t] = "idle"
    BY <2>2, NobodyWorks DEF Elements
  <2>4. TypeOK'
    BY <2>1, <1>1, <1>3, <1>6 DEF Inv, TypeOK, Documents
  <2>5. Early'
    BY <2>1 DEF Early, Before
  <2>6. Documented'
    BY <2>1, <1>3, <1>4, DocumentType DEF Documented, Outside, Before
  <2>7. Threads'
    BY <2>1, <2>2, <2>3 DEF Threads
  <2>8. Queue'
    BY <2>1, <2>2, <2>3 DEF Queue, Distinct
  <2>9. Wanted'
    BY <2>1, <2>3 DEF Wanted, Fresh
  <2>10. Holding'
    BY <2>1, <2>3 DEF Holding
  <2>11. Accounts'
    <3>1. \A t \in Targets : Due(t)' = 0 /\ Spare(t)' = 0
      BY <2>1, <2>2, <2>3 DEF Due, Spare, Alarm
    <3>2. ASSUME NEW t \in Targets
          PROVE  executions'[t] + Due(t)' + Spare(t)' <= disk'.rec[t].attempt + signals'
      <4>1. disk'.rec[t].attempt >= disk.rec[t].attempt /\ disk' \in States
        BY <2>1, <1>3, <1>4
      <4>2. Due(t)' <= Due(t) /\ Spare(t)' <= Spare(t)
        BY <3>1, DebtType
      <4> QED
        BY <4>1, <4>2, <1>1, AccountCarried
    <3> QED
      BY <3>2, <2>1, <2>2 DEF Accounts
  <2>12. Coverage'
    <3>1. listed' + 1 = 1
      BY <2>1, <2>2
    <3>2. \A t \in Targets : \E j \in (listed' + 1)..Len(Plan) : Plan[j] = t
      BY <3>1, PlanFacts
    <3> QED
      BY <3>2, <2>1 DEF Coverage, Ahead
  <2> QED
    BY <2>4, <2>5, <2>6, <2>7, <2>8, <2>9, <2>10, <2>11, <2>12 DEF Inv
<1> QED
  BY <1>5, <1>7, <1>8

-----------------------------------------------------------------------------
(* The steps of the scheduler that leave the documents alone.              *)

\* What a step of the pool keeps when it touches neither document.
LEMMA SameDocuments ==
    ASSUME Inv, pc \notin Before, pc' \notin Before, UNCHANGED <<disk, state>>
    PROVE  Early' /\ Documented'
<1>1. Early'
  BY DEF Early
<1>2. pc \notin Outside /\ pc' \notin Outside /\ pc' \notin {"normalize", "running"}
  BY DEF Outside, Before
<1>3. Documented'
  BY <1>2 DEF Inv, Documented
<1> QED
  BY <1>1, <1>3

\* Looking at one target of the plan.
LEMMA ListTargetKept == Inv /\ ListTarget => Inv'
<1> SUFFICES ASSUME Inv, ListTarget PROVE Inv'
  OBVIOUS
<1>1. pc = "list" /\ UNCHANGED <<disk, dir, state, flag, ids, resume, active, done, wpc, err, held,
                                 executions, invocations, faults, signals>>
  BY DEF ListTarget, worker, bounds
<1>2. active = {} /\ held.by = NoTarget /\ \A t \in Targets : wpc[t] = "idle"
  BY <1>1, NobodyWorks DEF Inv, Threads
<1>3. listed \in Nat /\ listed <= Len(Plan) /\ pending \in Seq(Targets)
  BY PlanFacts DEF Inv, TypeOK
<1>4. pc \notin Before /\ pc' \notin Before /\ pc \notin Outside
  BY <1>1 DEF ListTarget, Before, Outside
<1>5. Early' /\ Documented'
  BY <1>1, <1>4, SameDocuments
<1>6. Holding'
  BY <1>1, <1>2 DEF Holding
<1>7. ASSUME NEW p \in Seq(Targets), pending' = p,
             \A t \in Elements(p) : t \notin Elements(pending) => Eligible(t) /\ Ahead(t),
             listed' \in 0..Len(Plan), pc' \in {"list", "fill"},
             Distinct(p),
             pc' = "list" => \A t \in Elements(p) : \E j \in 1..listed' : Plan[j] = t,
             \A t \in Elements(pending) : t \in Elements(p),
             \A t \in Targets : Ahead(t)' => Ahead(t),
             \A t \in Targets : Ahead(t) /\ Eligible(t) => t \in Elements(p) \/ Ahead(t)'
      PROVE  Inv'
  <2>1. TypeOK'
    BY <1>1, <1>7 DEF Inv, TypeOK
  <2>2. Threads'
    BY <1>1, <1>2, <1>7 DEF Threads
  <2>3. Queue'
    BY <1>1, <1>2, <1>7 DEF Queue
  <2>4. \A t \in Targets : Eligible(t)' <=> Eligible(t)
    BY <1>1 DEF Eligible, ArtifactsReusable
  <2>5. Wanted'
    <3>1. ASSUME NEW t \in Targets, Fresh(t)'
          PROVE  state'.rec[t].attempt < MaxAttempts /\ ~SettledInMemory(t)'
      <4>1. t \in Elements(p)
        BY <3>1, <1>1, <1>2, <1>7 DEF Fresh
      <4>2. CASE t \in Elements(pending)
        BY <4>2, <1>1 DEF Fresh, Inv, Wanted, SettledInMemory
      <4>3. CASE Eligible(t)
        BY <4>3, <1>1 DEF Eligible, SettledInMemory, ArtifactsReusable
      <4> QED
        BY <4>1, <4>2, <4>3, <1>7
    <3> QED
      BY <3>1, <1>1, <1>2 DEF Wanted
  <2>6. Coverage'
    <3>1. ASSUME ~flag, NEW t \in Targets, Eligible(t)'
          PROVE  t \in Elements(p) \cup active \/ Ahead(t)'
      <4>1. t \in Elements(pending) \cup active \/ Ahead(t)
        BY <3>1, <2>4, <1>1 DEF Inv, Coverage
      <4> QED
        BY <4>1, <3>1, <2>4, <1>7
    <3> QED
      BY <3>1, <1>1, <1>7 DEF Coverage
  <2>7. Accounts'
    <3>1. ~flag => ids = {}
      BY <1>1, <1>2 DEF Inv, Accounts, TypeOK
    <3>2. ASSUME NEW t \in Targets
          PROVE  executions'[t] + Due(t)' + Spare(t)' <= disk'.rec[t].attempt + signals'
      <4>1. Due(t)' = Due(t)
        BY <1>1 DEF Due
      <4>2. Fresh(t)' \/ Ahead(t)' => Fresh(t) \/ Ahead(t)
        BY <1>1, <1>7 DEF Fresh
      <4>3. Spare(t)' = 1 => Spare(t) = 1
        BY <4>2, <1>1 DEF Spare, Alarm
      <4>4. Due(t)' <= Due(t) /\ Spare(t)' <= Spare(t)
        BY <4>1, <4>3, DebtType
      <4>5. disk' \in States /\ disk'.rec[t].attempt >= disk.rec[t].attempt
        <5>1. disk \in States /\ disk.rec[t].attempt \in Nat
          BY <1>4, InMemory, RecordType
        <5> QED
          BY <5>1, <1>1
      <4> QED
        BY <4>4, <4>5, <1>1, <1>4, AccountCarried
    <3> QED
      BY <3>1, <3>2, <1>1 DEF Accounts
  <2> QED
    BY <2>1, <2>2, <2>3, <2>5, <2>6, <2>7, <1>5, <1>6 DEF Inv
<1>8. CASE listed = Len(Plan) /\ pc' = "fill" /\ UNCHANGED <<listed, pending>>
  <2>1. \A t \in Targets : ~Ahead(t)
    BY <1>8, <1>3 DEF Ahead
  <2>2. \A t \in Targets : ~Ahead(t)'
    BY <1>8 DEF Ahead
  <2>3. listed' \in 0..Len(Plan) /\ Distinct(pending)
    BY <1>8 DEF Inv, TypeOK, Queue
  <2> QED
    BY <2>1, <2>2, <2>3, <1>3, <1>7, <1>8
<1>9. CASE /\ listed < Len(Plan)
           /\ listed' = listed + 1
           /\ pending' = IF Eligible(Plan[listed']) THEN Append(pending, Plan[listed']) ELSE pending
           /\ UNCHANGED pc
  <2> DEFINE n == listed + 1
             x == Plan[n]
  <2>1. n \in 1..Len(Plan) /\ x \in Targets /\ listed' = n
    BY <1>3, <1>9, PlanFacts
  <2>2. pc' = "list" /\ listed' \in 0..Len(Plan)
    BY <2>1, <1>1, <1>3, <1>9
  <2>3. Distinct(pending) /\ \A t \in Elements(pending) : \E j \in 1..listed : Plan[j] = t
    BY <1>1 DEF Inv, Queue
  <2>4. x \notin Elements(pending)
    <3>1. \A j \in 1..listed : j \in 1..Len(Plan) /\ j # n
      BY <1>3
    <3> QED
      BY <3>1, <2>1, <2>3, PlanFacts
  <2>5. \A t \in Elements(pending) : \E j \in 1..n : Plan[j] = t
    <3>1. \A j \in 1..listed : j \in 1..n
      BY <1>3
    <3> QED
      BY <3>1, <2>3
  <2>6. \A t \in Targets : Ahead(t)' => Ahead(t)
    <3>1. \A j \in (n + 1)..Len(Plan) : j \in (listed + 1)..Len(Plan)
      BY <1>3, PlanFacts
    <3> QED
      BY <3>1, <2>1, <2>2, <1>1 DEF Ahead
  <2>7. \A t \in Targets : Ahead(t) => t = x \/ Ahead(t)'
    <3>1. \A j \in (listed + 1)..Len(Plan) : j = n \/ j \in (n + 1)..Len(Plan)
      BY <1>3, PlanFacts
    <3> QED
      BY <3>1, <2>1, <2>2, <1>1 DEF Ahead
  <2>8. Ahead(x)
    <3>1. n \in (listed + 1)..Len(Plan)
      BY <2>1, <1>3, PlanFacts
    <3> QED
      BY <3>1, <1>1 DEF Ahead
  <2>9. n \in 1..n
    BY <1>3
  <2> HIDE DEF x, n
  <2>10. CASE Eligible(x)
    <3>1. pending' = Append(pending, x)
      BY <2>1, <2>10, <1>9 DEF x
    <3>2. /\ pending' \in Seq(Targets) /\ Elements(pending') = Elements(pending) \cup {x}
          /\ Distinct(pending')
      BY <3>1, <2>1, <2>3, <2>4, <1>3, AppendElements
    <3>3. \A t \in Elements(pending') : \E j \in 1..listed' : Plan[j] = t
      BY <3>2, <2>1, <2>5, <2>9 DEF x
    <3> QED
      BY <3>2, <3>3, <2>2, <2>6, <2>7, <2>8, <2>10, <1>7
  <2>11. CASE ~Eligible(x)
    <3>1. pending' = pending
      BY <2>1, <2>11, <1>9 DEF x
    <3> QED
      BY <3>1, <2>1, <2>2, <2>3, <2>5, <2>6, <2>7, <2>11, <1>3, <1>7
  <2> QED
    BY <2>10, <2>11
<1> QED
  BY <1>8, <1>9 DEF ListTarget

\* An account still holds when neither of its debts is new.
LEMMA AccountSame ==
    ASSUME Inv, pc \notin Outside, UNCHANGED <<disk, executions, signals>>, NEW t \in Targets,
           Due(t)' = 1 => Due(t) = 1, Spare(t)' = 1 => Spare(t) = 1
    PROVE  executions'[t] + Due(t)' + Spare(t)' <= disk'.rec[t].attempt + signals'
<1>1. Due(t)' <= Due(t) /\ Spare(t)' <= Spare(t)
  BY DebtType
<1>2. disk' \in States /\ disk'.rec[t].attempt >= disk.rec[t].attempt
  <2>1. disk \in States /\ disk.rec[t].attempt \in Nat
    BY InMemory, RecordType
  <2> QED
    BY <2>1
<1> QED
  BY <1>1, <1>2, AccountCarried

\* submit_available submits the first target of the deque.
LEMMA SubmitKept == Inv /\ Submit => Inv'
<1> SUFFICES ASSUME Inv, Submit PROVE Inv'
  OBVIOUS
<1> DEFINE x == Head(pending)
<1>1. /\ pc = "fill" /\ pc' = "fill" /\ ~flag /\ pending # <<>>
      /\ active' = active \cup {x}
      /\ wpc' = [wpc EXCEPT ![x] = "begin"]
      /\ pending' = Tail(pending)
      /\ UNCHANGED <<disk, dir, state, flag, ids, resume, listed, done, err, held,
                     executions, invocations, faults, signals>>
  BY DEF Submit, bounds
<1>2. pending \in Seq(Targets) /\ Distinct(pending) /\ \A t \in Elements(pending) : t \notin active
  BY DEF Inv, TypeOK, Queue
<1>3. /\ x \in Elements(pending) /\ pending' \in Seq(Targets) /\ Distinct(pending')
      /\ Elements(pending) = Elements(pending') \cup {x} /\ x \notin Elements(pending')
  BY <1>1, <1>2, TailElements
<1>4. x \in Targets /\ x \notin active /\ wpc[x] = "idle"
  BY <1>2, <1>3, ElementsType DEF Inv, Threads
<1> HIDE DEF x
<1>5. wpc \in [Targets -> UpdateSteps \cup {"idle", "setup", "running", "done", "raised"}]
  BY DEF Inv, TypeOK
<1>6. wpc'[x] = "begin" /\ \A t \in Targets \ {x} : wpc'[t] = wpc[t]
  BY <1>1, <1>4, <1>5
<1>7. pc \notin Before /\ pc' \notin Before /\ pc \notin Outside
  BY <1>1 DEF Before, Outside
<1>8. Early' /\ Documented'
  BY <1>1, <1>7, SameDocuments
<1>9. TypeOK'
  <2>1. wpc' \in [Targets -> UpdateSteps \cup {"idle", "setup", "running", "done", "raised"}]
    BY <1>1, <1>4, <1>5 DEF UpdateSteps
  <2> QED
    BY <2>1, <1>1, <1>3, <1>4 DEF Inv, TypeOK
<1>10. Threads'
  <2>1. \A t \in Targets : wpc'[t] # "idle" => t \in active'
    BY <1>1, <1>6 DEF Inv, Threads
  <2>2. \A t \in Targets : wpc'[t] = "escape" => t \in ids'
    BY <1>1, <1>6 DEF Inv, Threads
  <2> QED
    BY <2>1, <2>2, <1>1 DEF Threads
<1>11. Queue'
  BY <1>1, <1>2, <1>3 DEF Queue
<1>12. \A t \in Targets : Fresh(t)' <=> Fresh(t)
  BY <1>3, <1>4, <1>6 DEF Fresh
<1>13. Wanted'
  <2>1. \A t \in Targets : SettledInMemory(t)' <=> SettledInMemory(t)
    BY <1>1 DEF SettledInMemory
  <2>2. \A t \in Targets : wpc'[t] \in {"setup", "running", "complete", "escape"} =>
          state'.rec[t].state \in {"running", "retrying", "interrupted"}
    BY <1>1, <1>6 DEF Inv, Wanted
  <2>3. \A t \in Targets : Fresh(t)' =>
          state'.rec[t].attempt < MaxAttempts /\ ~SettledInMemory(t)'
    BY <1>1, <1>12, <2>1 DEF Inv, Wanted
  <2> QED
    BY <2>2, <2>3 DEF Wanted
<1>14. Holding'
  <2>1. held.by # NoTarget => held.by \in Targets /\ held.by # x
    BY <1>4 DEF Inv, TypeOK, Holding, UpdateSteps
  <2>2. held.by # NoTarget => wpc'[held.by] = wpc[held.by]
    BY <2>1, <1>6
  <2> QED
    BY <2>2, <1>1 DEF Inv, Holding
<1>15. Accounts'
  <2>1. ASSUME NEW t \in Targets
        PROVE  executions'[t] + Due(t)' + Spare(t)' <= disk'.rec[t].attempt + signals'
    <3>1. Due(t)' = 1 => Due(t) = 1
      BY <1>6 DEF Due
    <3>2. Spare(t)' = 1 => Spare(t) = 1
      BY <1>1, <1>12 DEF Spare, Alarm
    <3> QED
      BY <3>1, <3>2, <1>1, <1>7, AccountSame
  <2>2. \A t \in ids : wpc'[t] \in {"escape", "raised"}
    BY <1>1, <1>4, <1>6 DEF Inv, Accounts, TypeOK
  <2> QED
    BY <2>1, <2>2, <1>1 DEF Accounts
<1>16. Coverage'
  <2>1. \A t \in Targets : Eligible(t)' <=> Eligible(t)
    BY <1>1 DEF Eligible, ArtifactsReusable
  <2>2. \A t \in Targets : Eligible(t) => t \in Elements(pending) \cup active
    BY <1>1 DEF Inv, Coverage, Ahead
  <2>3. \A t \in Targets : Eligible(t)' => t \in Elements(pending') \cup active'
    BY <2>1, <2>2, <1>1, <1>3
  <2> QED
    BY <2>3, <1>1 DEF Coverage
<1> QED
  BY <1>8, <1>9, <1>10, <1>11, <1>13, <1>14, <1>15, <1>16 DEF Inv

\* A step of the main thread that only moves on inside the pool, and perhaps
\* looks at the futures.
LEMMA MovesOn ==
    ASSUME Inv, pc \notin Before, pc # "list", pc # "drain", NEW label, pc' = label,
           label \in {"fill", "wait", "mark", "lastMark", "reap", "gaps"},
           done' \subseteq active,
           label \in {"lastMark", "gaps"} => active = {},
           label \in {"mark", "lastMark"} => flag,
           label \in {"fill", "wait", "reap"} /\ ~flag => pc \in {"fill", "wait", "reap"},
           label = "gaps" /\ ~flag => \A t \in Targets : ~Eligible(t),
           UNCHANGED <<disk, dir, state, flag, ids, resume, listed, pending, active,
                       wpc, err, held, executions, invocations, faults, signals>>
    PROVE  Inv'
<1>1. pc' \notin Before /\ pc \notin Outside
  BY DEF Before, Outside
<1>2. Early' /\ Documented'
  BY <1>1, SameDocuments
<1>3. TypeOK'
  BY DEF Inv, TypeOK
<1>4. Threads'
  BY DEF Inv, Threads
<1>5. Queue' /\ Holding'
  <2>1. Queue'
    BY DEF Inv, Queue
  <2>2. Holding'
    BY DEF Inv, Holding
  <2> QED
    BY <2>1, <2>2
<1>6. \A t \in Targets : (Fresh(t)' <=> Fresh(t)) /\ (Eligible(t)' <=> Eligible(t))
                         /\ (SettledInMemory(t)' <=> SettledInMemory(t))
  BY DEF Fresh, Eligible, ArtifactsReusable, SettledInMemory
<1>7. Wanted'
  BY <1>6 DEF Inv, Wanted
<1>8. Accounts'
  <2>1. ASSUME NEW t \in Targets
        PROVE  executions'[t] + Due(t)' + Spare(t)' <= disk'.rec[t].attempt + signals'
    <3>1. Due(t)' = 1 => Due(t) = 1
      BY DEF Due
    <3>2. Spare(t)' = 1 => Spare(t) = 1
      BY <1>6 DEF Spare, Alarm, Ahead
    <3> QED
      BY <3>1, <3>2, <1>1, AccountSame
  <2>2. ~flag => \A t \in ids : wpc[t] \in {"escape", "raised"}
    BY DEF Inv, Accounts
  <2> QED
    BY <2>1, <2>2 DEF Accounts
<1>9. Coverage'
  <2>1. ASSUME ~flag, pc' \in {"fill", "wait", "reap"}, NEW t \in Targets, Eligible(t)'
        PROVE  t \in Elements(pending) \cup active
    BY <2>1, <1>6 DEF Inv, Coverage, Ahead
  <2> QED
    BY <2>1, <1>6 DEF Coverage
<1> QED
  BY <1>2, <1>3, <1>4, <1>5, <1>7, <1>8, <1>9 DEF Inv

\* Nothing more can be submitted.
LEMMA FilledKept == Inv /\ Filled => Inv'
<1> SUFFICES ASSUME Inv, Filled PROVE Inv'
  OBVIOUS
<1>1. /\ pc = "fill"
      /\ flag \/ Cardinality(active) = MaxWorkers \/ pending = <<>>
      /\ pc' = IF active # {} THEN "wait" ELSE IF flag THEN "lastMark" ELSE "gaps"
      /\ UNCHANGED <<disk, dir, state, flag, ids, resume, listed, pending, active, done,
                     wpc, err, held, executions, invocations, faults, signals>>
  BY DEF Filled, worker, bounds
<1>2. \/ active # {} /\ pc' = "wait"
      \/ active = {} /\ flag /\ pc' = "lastMark"
      \/ active = {} /\ ~flag /\ pc' = "gaps"
  BY <1>1
<1>3. ASSUME active = {}, ~flag PROVE \A t \in Targets : ~Eligible(t)
  <2>1. Cardinality(active) = 0
    BY <1>3, FS_EmptySet
  <2>2. pending = <<>>
    BY <2>1, <1>1, <1>3, LimitsAssumption
  <2>3. Elements(pending) = {}
    BY <2>2 DEF Elements
  <2> QED
    BY <2>3, <1>1, <1>3 DEF Inv, Coverage, Ahead
<1>4. pc \notin Before /\ done' \subseteq active
  BY <1>1 DEF Before, Inv, TypeOK
<1>5. pc' \in {"wait", "lastMark", "gaps"}
  BY <1>2
<1> QED
  BY <1>1, <1>2, <1>3, <1>4, <1>5, MovesOn

\* wait returns.
LEMMA WaitKept == Inv /\ Wait => Inv'
<1> SUFFICES ASSUME Inv, Wait PROVE Inv'
  OBVIOUS
<1>1. /\ pc = "wait"
      /\ done' = {t \in active : Finished(t)}
      /\ pc' = IF flag THEN "mark" ELSE "reap"
      /\ UNCHANGED <<disk, dir, state, flag, ids, resume, listed, pending, active,
                     wpc, err, held, executions, invocations, faults, signals>>
  BY DEF Wait, worker, bounds
<1>2. \/ flag /\ pc' = "mark"
      \/ ~flag /\ pc' = "reap"
  <2>1. CASE flag
    BY <2>1, <1>1
  <2>2. CASE ~flag
    BY <2>2, <1>1
  <2> QED
    BY <2>1, <2>2
<1>3. pc \notin Before /\ done' \subseteq active
  BY <1>1 DEF Before
<1>4. pc' \in {"mark", "reap"}
  BY <1>2
<1> QED
  BY <1>1, <1>2, <1>3, <1>4, MovesOn

\* One future that is done is looked at.
LEMMA ReapOne ==
    ASSUME Inv, pc = "reap", NEW t \in done,
           active' = active \ {t}, done' = done \ {t}, wpc' = [wpc EXCEPT ![t] = "idle"],
           \/ wpc[t] = "raised" /\ pc' = "drain" /\ UNCHANGED pending
           \/ wpc[t] = "done" /\ UNCHANGED pc /\ Requeue(t),
           UNCHANGED <<disk, dir, state, flag, ids, resume, listed, err, held, executions,
                       invocations, faults, signals>>
    PROVE  Inv'
<1>1. t \in Targets /\ t \in active
  BY DEF Inv, TypeOK
<1>2. pending \in Seq(Targets) /\ Distinct(pending) /\ \A u \in Elements(pending) : u \notin active
  BY DEF Inv, TypeOK, Queue
<1>3. t \notin Elements(pending)
  BY <1>1, <1>2
<1>4. wpc'[t] = "idle" /\ (\A u \in Targets \ {t} : wpc'[u] = wpc[u])
      /\ wpc' \in [Targets -> UpdateSteps \cup {"idle", "setup", "running", "done", "raised"}]
  <2>1. wpc \in [Targets -> UpdateSteps \cup {"idle", "setup", "running", "done", "raised"}]
    BY DEF Inv, TypeOK
  <2> QED
    BY <2>1, <1>1
<1>5. \/ pending' = pending
      \/ /\ pc' = "reap" /\ ~flag /\ Eligible(t) /\ pending' = Append(pending, t)
  BY DEF Requeue
<1>6. /\ pending' \in Seq(Targets) /\ Distinct(pending')
      /\ Elements(pending) \subseteq Elements(pending')
      /\ \A u \in Elements(pending') :
           u \in Elements(pending) \/ (u = t /\ Eligible(t) /\ ~flag /\ pc' = "reap")
  <2>1. CASE pending' = pending
    BY <2>1, <1>2
  <2>2. CASE pc' = "reap" /\ ~flag /\ Eligible(t) /\ pending' = Append(pending, t)
    BY <2>2, <1>1, <1>2, <1>3, AppendElements
  <2> QED
    BY <2>1, <2>2, <1>5
<1>7. pc' \in {"reap", "drain"} /\ pc \notin Before /\ pc' \notin Before /\ pc \notin Outside
  BY DEF Before, Outside
<1>8. Early' /\ Documented'
  BY <1>7, SameDocuments
<1>9. TypeOK'
  BY <1>1, <1>4, <1>6, <1>7 DEF Inv, TypeOK
<1>10. Threads'
  <2>1. \A u \in Targets : wpc'[u] # "idle" => u \in active'
    BY <1>4 DEF Inv, Threads
  <2>2. \A u \in Targets : wpc'[u] = "escape" => u \in ids'
    BY <1>4 DEF Inv, Threads
  <2> QED
    BY <2>1, <2>2, <1>7 DEF Threads
<1>11. Queue'
  BY <1>2, <1>6, <1>7 DEF Queue
<1>12. \A u \in Targets : (Eligible(u)' <=> Eligible(u))
                         /\ (SettledInMemory(u)' <=> SettledInMemory(u))
  BY DEF Eligible, ArtifactsReusable, SettledInMemory
<1>13. Eligible(t) => state.rec[t].attempt < MaxAttempts /\ ~SettledInMemory(t)
  BY DEF Eligible, ArtifactsReusable, SettledInMemory
<1>14. \A u \in Targets : Fresh(u)' => Fresh(u) \/ (u = t /\ Eligible(t) /\ ~flag)
  BY <1>4, <1>6 DEF Fresh
<1>15. Wanted'
  <2>1. \A u \in Targets : Fresh(u)' =>
          state'.rec[u].attempt < MaxAttempts /\ ~SettledInMemory(u)'
    BY <1>12, <1>13, <1>14 DEF Inv, Wanted
  <2>2. \A u \in Targets : wpc'[u] \in {"setup", "running", "complete", "escape"} =>
          state'.rec[u].state \in {"running", "retrying", "interrupted"}
    BY <1>4 DEF Inv, Wanted
  <2> QED
    BY <2>1, <2>2 DEF Wanted
<1>16. Holding'
  <2>1. held.by # NoTarget => held.by \in Targets /\ held.by # t
    BY DEF Inv, TypeOK, Holding, UpdateSteps
  <2>2. held.by # NoTarget => wpc'[held.by] = wpc[held.by]
    BY <2>1, <1>4
  <2> QED
    BY <2>2 DEF Inv, Holding
<1>17. Accounts'
  <2>1. ASSUME NEW u \in Targets
        PROVE  executions'[u] + Due(u)' + Spare(u)' <= disk'.rec[u].attempt + signals'
    <3>1. Due(u)' = 1 => Due(u) = 1
      BY <1>4 DEF Due
    <3>2. Spare(u)' = 1 => Spare(u) = 1
      BY <1>7, <1>14 DEF Spare, Alarm, Ahead
    <3> QED
      BY <3>1, <3>2, <1>7, AccountSame
  <2>2. ASSUME ~flag, NEW u \in ids
        PROVE  \/ wpc'[u] \in {"escape", "raised"}
               \/ pc' = "drain" /\ wpc'[u] = "idle" /\ u \notin Elements(pending')
    <3>1. wpc[u] \in {"escape", "raised"} /\ u \in Targets
      BY <2>2 DEF Inv, Accounts, TypeOK
    <3>2. u = t => pc' = "drain" /\ pending' = pending
      BY <3>1
    <3> QED
      BY <3>1, <3>2, <1>3, <1>4
  <2> QED
    BY <2>1, <2>2 DEF Accounts
<1>18. Coverage'
  <2>1. ASSUME pc' = "reap", ~flag, NEW u \in Targets, Eligible(u)'
        PROVE  u \in Elements(pending') \cup active'
    <3>1. Eligible(u) /\ u \in Elements(pending) \cup active
      BY <2>1, <1>12 DEF Inv, Coverage, Ahead
    <3>2. u = t => pending' = Append(pending, t)
      BY <3>1, <2>1 DEF Requeue
    <3>3. u = t => u \in Elements(pending')
      BY <3>2, <1>1, <1>2, AppendElements
    <3> QED
      BY <3>1, <3>3, <1>6
  <2> QED
    BY <2>1, <1>7 DEF Coverage
<1> QED
  BY <1>8, <1>9, <1>10, <1>11, <1>15, <1>16, <1>17, <1>18 DEF Inv

\* The loop over the futures that are done.
LEMMA ReapKept == Inv /\ Reap => Inv'
<1> SUFFICES ASSUME Inv, Reap PROVE Inv'
  OBVIOUS
<1>1. pc = "reap" /\ UNCHANGED <<disk, dir, state, flag, ids, resume, listed, err, held, executions,
                                 invocations, faults, signals>>
  BY DEF Reap, bounds
<1>2. CASE done = {} /\ pc' = "fill" /\ UNCHANGED <<pending, active, done, wpc>>
  <2>1. pc \notin Before /\ done' \subseteq active
    BY <1>1, <1>2 DEF Before
  <2> QED
    BY <2>1, <1>1, <1>2, MovesOn
<1>3. CASE \E t \in done :
            /\ active' = active \ {t}
            /\ done' = done \ {t}
            /\ wpc' = [wpc EXCEPT ![t] = "idle"]
            /\ \/ wpc[t] = "raised" /\ pc' = "drain" /\ UNCHANGED pending
               \/ wpc[t] = "done" /\ UNCHANGED pc /\ Requeue(t)
  BY <1>1, <1>3, ReapOne
<1> QED
  BY <1>2, <1>3 DEF Reap

-----------------------------------------------------------------------------
(* Signals and the steps of a worker outside the state lock.               *)

\* The signal handler: what it grants is one uncounted execution per target.
LEMMA SignalKept == Inv /\ Signal => Inv'
<1> SUFFICES ASSUME Inv, Signal PROVE Inv'
  OBVIOUS
<1>1. /\ pc \in {"list", "fill", "wait", "mark", "lastMark", "reap", "drain", "gaps", "finish"}
      /\ flag' = TRUE
      /\ ids' = ids \cup {t \in Targets : state.rec[t].state \in Unsettled}
      /\ signals' = signals + 1
      /\ UNCHANGED <<disk, dir, state, pc, resume, listed, pending, active, done, wpc, err, held,
                     executions, invocations, faults>>
  BY DEF Signal, Signalled, main, worker
<1>2. pc \notin Before /\ pc' \notin Before /\ pc \notin Outside
  BY <1>1 DEF Before, Outside
<1>3. Early' /\ Documented'
  BY <1>1, <1>2, SameDocuments
<1>4. TypeOK'
  <2>1. ids' \subseteq Targets /\ signals' \in Nat /\ flag' \in BOOLEAN
    BY <1>1 DEF Inv, TypeOK
  <2> QED
    BY <2>1, <1>1 DEF Inv, TypeOK
<1>5. Threads' /\ Queue'
  <2>1. Threads'
    BY <1>1 DEF Inv, Threads
  <2>2. Queue'
    BY <1>1 DEF Inv, Queue
  <2> QED
    BY <2>1, <2>2
<1>6. Wanted'
  BY <1>1 DEF Inv, Wanted, Fresh, SettledInMemory
<1>7. Holding'
  <2>1. state.rec[held.by].state = "interrupted" => (held.by \in ids' => held.by \in ids)
    BY <1>1 DEF Unsettled
  <2> QED
    BY <2>1, <1>1 DEF Inv, Holding
<1>8. Accounts'
  <2>1. ASSUME NEW t \in Targets
        PROVE  executions'[t] + Due(t)' + Spare(t)' <= disk'.rec[t].attempt + signals'
    <3>1. Due(t)' = Due(t)
      BY <1>1 DEF Due
    <3>2. executions[t] + Due(t) + Spare(t) <= disk.rec[t].attempt + signals
      BY <1>2, InMemory DEF Inv, Accounts
    <3>3. executions[t] \in Nat /\ signals \in Nat /\ disk.rec[t].attempt \in Nat
      BY <1>2, InMemory, RecordType DEF Inv, TypeOK
    <3>4. executions[t] + Due(t)' + Spare(t)' <= disk.rec[t].attempt + (signals + 1)
      BY <3>1, <3>2, <3>3, DebtType
    <3> QED
      BY <3>4, <1>1
  <2> QED
    BY <2>1, <1>1 DEF Accounts
<1>9. Coverage'
  BY <1>1 DEF Inv, Coverage
<1> QED
  BY <1>3, <1>4, <1>5, <1>6, <1>7, <1>8, <1>9 DEF Inv

\* A target with a worker is in a pool that is not empty.
LEMMA AtWork ==
    ASSUME Inv, NEW t \in Targets, wpc[t] # "idle"
    PROVE  /\ t \in active /\ t \notin Elements(pending)
           /\ pc \in {"fill", "wait", "mark", "reap", "drain"}
           /\ pc \notin Before /\ pc \notin Outside
<1>1. t \in active
  BY DEF Inv, Threads
<1>2. pc \notin Before /\ pc \notin {"list", "lastMark", "gaps", "finish"}
  BY <1>1 DEF Inv, Early, Threads
<1>3. pc \in {"fill", "wait", "mark", "reap", "drain"}
  BY <1>2 DEF Inv, TypeOK, Before
<1> QED
  BY <1>1, <1>2, <1>3 DEF Inv, Queue, Outside, Before

\* A worker between its two updates keeps everything but the account, which
\* each of its steps has to show.
LEMMA WorkerMoves ==
    ASSUME Inv, NEW t \in Targets, wpc[t] \in {"setup", "running"},
           NEW label \in {"running", "complete", "fail", "escape"},
           wpc' = [wpc EXCEPT ![t] = label],
           dir' \in [Targets -> Dirs], \A u \in Targets \ {t} : dir'[u] = dir[u],
           err' \in [Targets -> Codes], executions' \in [Targets -> Nat],
           faults' \in Nat, signals' \in Nat,
           label = "escape" => ids' = ids \cup {t}, label # "escape" => ids' = ids,
           UNCHANGED <<disk, state, flag, pc, resume, listed, pending, active, done, held,
                       invocations>>,
           \A u \in Targets :
             executions'[u] + Due(u)' + Spare(u)' <= disk'.rec[u].attempt + signals'
    PROVE  Inv'
<1>1. /\ t \in active /\ t \notin Elements(pending)
      /\ pc \in {"fill", "wait", "mark", "reap", "drain"}
      /\ pc \notin Before /\ pc \notin Outside
  BY AtWork
<1>2. wpc'[t] = label /\ (\A u \in Targets \ {t} : wpc'[u] = wpc[u])
      /\ wpc' \in [Targets -> UpdateSteps \cup {"idle", "setup", "running", "done", "raised"}]
  <2>1. wpc \in [Targets -> UpdateSteps \cup {"idle", "setup", "running", "done", "raised"}]
    BY DEF Inv, TypeOK
  <2> QED
    BY <2>1 DEF UpdateSteps
<1>3. Early' /\ Documented'
  BY <1>1, SameDocuments
<1>4. TypeOK'
  <2>1. ids' \subseteq Targets
    BY DEF Inv, TypeOK
  <2> QED
    BY <2>1, <1>2 DEF Inv, TypeOK
<1>5. Threads'
  <2>1. \A u \in Targets : wpc'[u] # "idle" => u \in active
    BY <1>1, <1>2 DEF Inv, Threads
  <2>2. \A u \in Targets : wpc'[u] = "escape" => u \in ids'
    BY <1>2 DEF Inv, Threads
  <2> QED
    BY <2>1, <2>2 DEF Inv, Threads
<1>6. Queue'
  BY DEF Inv, Queue
<1>7. \A u \in Targets : Fresh(u)' => Fresh(u) /\ u # t
  BY <1>1, <1>2 DEF Fresh
<1>8. Wanted'
  <2>1. \A u \in Targets : Fresh(u)' =>
          state'.rec[u].attempt < MaxAttempts /\ ~SettledInMemory(u)'
    BY <1>7 DEF Inv, Wanted, SettledInMemory
  <2>2. \A u \in Targets : wpc'[u] \in {"setup", "running", "complete", "escape"} =>
          state'.rec[u].state \in {"running", "retrying", "interrupted"}
    BY <1>2 DEF Inv, Wanted
  <2> QED
    BY <2>1, <2>2 DEF Wanted
<1>9. Holding'
  <2>1. held.by # NoTarget => held.by \in Targets /\ held.by # t
    BY DEF Inv, TypeOK, Holding, UpdateSteps
  <2>2. held.by # NoTarget => wpc'[held.by] = wpc[held.by] /\ (held.by \in ids' <=> held.by \in ids)
    BY <2>1, <1>2
  <2> QED
    BY <2>2 DEF Inv, Holding
<1>10. Accounts'
  <2>1. ASSUME ~flag, NEW u \in ids'
        PROVE  \/ wpc'[u] \in {"escape", "raised"}
               \/ pc = "drain" /\ wpc'[u] = "idle" /\ u \notin Elements(pending)
    <3>1. u \in ids => u # t /\ u \in Targets
      BY <2>1 DEF Inv, Accounts, TypeOK
    <3>2. u \in ids => wpc'[u] = wpc[u]
      BY <3>1, <1>2
    <3>3. u \notin ids => wpc'[u] = "escape"
      BY <2>1, <1>2
    <3> QED
      BY <2>1, <3>2, <3>3 DEF Inv, Accounts
  <2> QED
    BY <2>1 DEF Accounts
<1>11. Coverage'
  <2>1. \A u \in Targets \ {t} : Eligible(u)' <=> Eligible(u)
    BY DEF Eligible, ArtifactsReusable
  <2>2. ASSUME ~flag, pc \in {"fill", "wait", "reap"}, NEW u \in Targets, Eligible(u)'
        PROVE  u \in Elements(pending) \cup active
    <3>1. u # t => u \in Elements(pending) \cup active
      BY <2>1, <2>2 DEF Inv, Coverage, Ahead
    <3> QED
      BY <3>1, <1>1
  <2> QED
    BY <2>2, <1>1 DEF Coverage
<1> QED
  BY <1>3, <1>4, <1>5, <1>6, <1>8, <1>9, <1>10, <1>11 DEF Inv

\* Neither debt of a target grows when its worker leaves the setup, nor when
\* another one moves.
LEMMA DebtsOfMove ==
    ASSUME Inv, NEW t \in Targets, wpc[t] \in {"setup", "running"},
           NEW label \in {"running", "complete", "fail", "escape"},
           wpc' = [wpc EXCEPT ![t] = label],
           UNCHANGED <<flag, pc, listed, pending>>
    PROVE  /\ Due(t)' = 0
           /\ \A u \in Targets \ {t} : Due(u)' = Due(u)
           /\ ids' = ids => \A u \in Targets : Spare(u)' = Spare(u)
<1>1. wpc'[t] = label /\ \A u \in Targets \ {t} : wpc'[u] = wpc[u]
  BY DEF Inv, TypeOK
<1>2. \A u \in Targets : Fresh(u)' <=> Fresh(u)
  BY <1>1 DEF Fresh
<1>3. Due(t)' = 0 /\ \A u \in Targets \ {t} : Due(u)' = Due(u)
  BY <1>1 DEF Due
<1>4. ids' = ids => \A u \in Targets : Spare(u)' = Spare(u)
  BY <1>2 DEF Spare, Alarm, Ahead
<1> QED
  BY <1>3, <1>4

\* The setup of a target: the execution it was due is one of the history.
LEMMA SetupKept == \A t \in Targets : Inv /\ Setup(t) => Inv'
<1> SUFFICES ASSUME NEW t \in Targets, Inv, Setup(t) PROVE Inv'
  OBVIOUS
<1>1. /\ wpc[t] = "setup"
      /\ UNCHANGED <<disk, state, flag, ids, pc, resume, listed, pending, active, done, held,
                     invocations, signals>>
  BY DEF Setup, main
<1>2. pc \notin Outside
  BY <1>1, AtWork
<1>3. dir \in [Targets -> Dirs] /\ err \in [Targets -> Codes] /\ executions \in [Targets -> Nat]
      /\ faults \in Nat /\ signals' \in Nat
  BY <1>1 DEF Inv, TypeOK
<1>4. \A u \in Targets :
        /\ executions[u] + Due(u) + Spare(u) <= disk.rec[u].attempt + signals
        /\ executions[u] \in Nat /\ signals \in Nat /\ disk.rec[u].attempt \in Nat
  BY <1>2, InMemory, RecordType DEF Inv, Accounts, TypeOK
<1>5. Due(t) = 1
  BY <1>1 DEF Due
<1>6. CASE /\ dir' = [dir EXCEPT ![t] = "unfinished"]
           /\ executions' = [executions EXCEPT ![t] = @ + 1]
           /\ wpc' = [wpc EXCEPT ![t] = "running"]
           /\ UNCHANGED <<err, faults>>
  <2>1. dir' \in [Targets -> Dirs] /\ \A u \in Targets \ {t} : dir'[u] = dir[u]
    BY <1>3, <1>6 DEF Dirs
  <2>2. executions' \in [Targets -> Nat] /\ executions'[t] = executions[t] + 1
        /\ \A u \in Targets \ {t} : executions'[u] = executions[u]
    BY <1>3, <1>6
  <2>3. /\ Due(t)' = 0 /\ \A u \in Targets \ {t} : Due(u)' = Due(u)
        /\ \A u \in Targets : Spare(u)' = Spare(u)
    BY <1>1, <1>6, DebtsOfMove
  <2>4. ASSUME NEW u \in Targets
        PROVE  executions'[u] + Due(u)' + Spare(u)' <= disk'.rec[u].attempt + signals'
    <3>1. executions'[u] + Due(u)' = executions[u] + Due(u)
      BY <2>2, <2>3, <1>4, <1>5, DebtType
    <3>2. executions'[u] + Due(u)' + Spare(u)' = executions[u] + Due(u) + Spare(u)
      BY <2>3, <3>1
    <3> QED
      BY <3>2, <1>1, <1>4
  <2> QED
    BY <2>1, <2>2, <2>4, <1>1, <1>3, <1>6, WorkerMoves
<1>7. CASE /\ err' \in {[err EXCEPT ![t] = c] :
                        c \in IF dir[t] = "foreign" THEN {"permanent"}
                              ELSE {"permanent", "retryable"}}
           /\ wpc' = [wpc EXCEPT ![t] = "fail"]
           /\ UNCHANGED <<dir, executions>>
  <2>1. err' \in [Targets -> Codes]
    <3>1. PICK c \in {"permanent", "retryable"} : err' = [err EXCEPT ![t] = c]
      BY <1>7
    <3> QED
      BY <3>1, <1>3 DEF Codes
  <2>2. faults' \in Nat
    BY <1>3 DEF Setup, Fault
  <2>3. /\ Due(t)' = 0 /\ \A u \in Targets \ {t} : Due(u)' = Due(u)
        /\ \A u \in Targets : Spare(u)' = Spare(u)
    BY <1>1, <1>7, DebtsOfMove
  <2>4. ASSUME NEW u \in Targets
        PROVE  executions'[u] + Due(u)' + Spare(u)' <= disk'.rec[u].attempt + signals'
    <3>1. (Due(u)' = 1 => Due(u) = 1) /\ (Spare(u)' = 1 => Spare(u) = 1)
      BY <2>3
    <3> QED
      BY <3>1, <1>1, <1>2, <1>7, AccountSame
  <2> QED
    BY <2>1, <2>2, <2>4, <1>1, <1>3, <1>7, WorkerMoves
<1> QED
  BY <1>6, <1>7 DEF Setup

\* The three ways the pipeline of a target ends.
LEMMA PipelineKept ==
    \A t \in Targets :
      Inv /\ (PipelineReturns(t) \/ PipelineFails(t) \/ PipelineEscapes(t)) => Inv'
<1> SUFFICES ASSUME NEW t \in Targets, Inv,
                    PipelineReturns(t) \/ PipelineFails(t) \/ PipelineEscapes(t)
             PROVE  Inv'
  OBVIOUS
<1>1. /\ wpc[t] = "running"
      /\ UNCHANGED <<disk, state, flag, pc, resume, listed, pending, active, done, held,
                     executions, invocations, faults>>
  BY DEF PipelineReturns, PipelineFails, PipelineEscapes, main, bounds
<1>2. pc \notin Outside
  BY <1>1, AtWork
<1>3. dir \in [Targets -> Dirs] /\ err \in [Targets -> Codes] /\ executions' \in [Targets -> Nat]
      /\ faults' \in Nat /\ signals \in Nat
  BY <1>1 DEF Inv, TypeOK
<1>4. CASE PipelineReturns(t) \/ PipelineFails(t)
  <2>1. UNCHANGED <<ids, signals>>
    BY <1>4 DEF PipelineReturns, PipelineFails, bounds
  <2>2. PICK label \in {"complete", "fail"} : wpc' = [wpc EXCEPT ![t] = label]
    BY <1>4 DEF PipelineReturns, PipelineFails
  <2>3. dir' \in [Targets -> Dirs] /\ \A u \in Targets \ {t} : dir'[u] = dir[u]
    <3>1. CASE PipelineReturns(t)
      <4>1. PICK d \in {"completed", "unfinished"} : dir' = [dir EXCEPT ![t] = d]
        BY <3>1 DEF PipelineReturns
      <4> QED
        BY <4>1, <1>3 DEF Dirs
    <3>2. CASE PipelineFails(t)
      BY <3>2, <1>3 DEF PipelineFails
    <3> QED
      BY <3>1, <3>2, <1>4
  <2>4. err' \in [Targets -> Codes]
    <3>1. CASE PipelineFails(t)
      <4>1. PICK c \in {"permanent", "retryable"} : err' = [err EXCEPT ![t] = c]
        BY <3>1 DEF PipelineFails
      <4> QED
        BY <4>1, <1>3 DEF Codes
    <3>2. CASE PipelineReturns(t)
      BY <3>2, <1>3 DEF PipelineReturns
    <3> QED
      BY <3>1, <3>2, <1>4
  <2>5. /\ Due(t)' = 0 /\ \A u \in Targets \ {t} : Due(u)' = Due(u)
        /\ \A u \in Targets : Spare(u)' = Spare(u)
    BY <2>1, <2>2, <1>1, DebtsOfMove
  <2>6. ASSUME NEW u \in Targets
        PROVE  executions'[u] + Due(u)' + Spare(u)' <= disk'.rec[u].attempt + signals'
    <3>1. (Due(u)' = 1 => Due(u) = 1) /\ (Spare(u)' = 1 => Spare(u) = 1)
      BY <2>5
    <3> QED
      BY <3>1, <2>1, <1>1, <1>2, AccountSame
  <2> QED
    BY <2>1, <2>2, <2>3, <2>4, <2>6, <1>1, <1>3, WorkerMoves
<1>5. CASE PipelineEscapes(t)
  <2>1. /\ ids' = ids \cup {t} /\ wpc' = [wpc EXCEPT ![t] = "escape"]
        /\ signals' = signals + 1 /\ UNCHANGED <<dir, err>>
    BY <1>5 DEF PipelineEscapes, Signalled
  <2>2. Due(t)' = 0 /\ \A u \in Targets \ {t} : Due(u)' = Due(u)
    BY <2>1, <1>1, DebtsOfMove
  <2>3. ASSUME NEW u \in Targets
        PROVE  executions'[u] + Due(u)' + Spare(u)' <= disk'.rec[u].attempt + signals'
    <3>1. Due(u)' <= Due(u)
      BY <2>2, DebtType
    <3>2. /\ executions[u] + Due(u) + Spare(u) <= disk.rec[u].attempt + signals
          /\ executions[u] \in Nat /\ signals \in Nat /\ disk.rec[u].attempt \in Nat
      BY <1>2, InMemory, RecordType DEF Inv, Accounts, TypeOK
    <3>3. executions[u] + Due(u)' + Spare(u)' <= disk.rec[u].attempt + (signals + 1)
      BY <3>1, <3>2, DebtType
    <3> QED
      BY <3>3, <2>1, <1>1
  <2>4. signals' \in Nat /\ dir' \in [Targets -> Dirs] /\ err' \in [Targets -> Codes]
        /\ \A u \in Targets \ {t} : dir'[u] = dir[u]
    BY <2>1, <1>3
  <2> QED
    BY <2>1, <2>3, <2>4, <1>1, <1>3, WorkerMoves
<1> QED
  BY <1>4, <1>5

-----------------------------------------------------------------------------
(* The state lock: _update and _mark_interrupted.                          *)

\* What _update is called with: a record, with one attempt more at the
\* beginning of a run and the same attempt at its end.
LEMMA FieldsType ==
    ASSUME Inv, NEW t \in Targets, wpc[t] \in UpdateSteps
    PROVE  /\ Fields(t) \in Records
           /\ wpc[t] = "begin" => /\ Fields(t).attempt = state.rec[t].attempt + 1
                                  /\ Fields(t).state \in {"running", "retrying"}
           /\ wpc[t] # "begin" => Fields(t).attempt = state.rec[t].attempt
<1> DEFINE r == state.rec[t]
<1>1. r \in Records /\ r.attempt \in Nat /\ MaxAttempts \in Nat
  <2>1. wpc[t] # "idle"
    BY DEF UpdateSteps
  <2>2. r \in Records
    BY <2>1, AtWork, InMemory
  <2> QED
    BY <2>2, RecordType
<1>2. err[t] \in Codes
  BY DEF Inv, TypeOK
<1>3. CASE wpc[t] = "begin"
  <2>1. r.attempt < MaxAttempts
    BY <1>3 DEF Inv, Wanted, Fresh
  <2>2. r.attempt + 1 \in 0..MaxAttempts
    BY <2>1, <1>1
  <2>3. Fields(t) = [state |-> IF r.attempt > 0 THEN "retrying" ELSE "running",
                     attempt |-> r.attempt + 1, code |-> "none"]
    BY <1>3 DEF Fields
  <2> HIDE DEF r
  <2> QED
    BY <2>2, <2>3, <1>3 DEF Records, TargetStates, Codes, r
<1>4. CASE wpc[t] = "complete"
  <2>1. Fields(t) = [r EXCEPT !.state = "completed"]
    BY <1>4 DEF Fields
  <2> QED
    BY <2>1, <1>1, <1>4 DEF Records, TargetStates
<1>5. CASE wpc[t] = "fail"
  <2>1. Fields(t) = [r EXCEPT !.state = "failed", !.code = err[t]]
    BY <1>5 DEF Fields
  <2> QED
    BY <2>1, <1>1, <1>2, <1>5 DEF Records, TargetStates
<1>6. CASE wpc[t] = "escape"
  <2>1. Fields(t) = Interrupted(r)
    BY <1>6 DEF Fields
  <2> QED
    BY <2>1, <1>1, <1>6, RecordType
<1> QED
  BY <1>3, <1>4, <1>5, <1>6 DEF UpdateSteps

\* The first half of _update.
LEMMA DecideKept == \A t \in Targets : Inv /\ Decide(t) => Inv'
<1> SUFFICES ASSUME NEW t \in Targets, Inv, Decide(t) PROVE Inv'
  OBVIOUS
<1> DEFINE stop == t \in ids \/ (flag /\ state.rec[t].state = "interrupted")
           r == IF stop THEN Interrupted(state.rec[t]) ELSE Fields(t)
<1>1. /\ wpc[t] \in UpdateSteps /\ held' = [by |-> t, rec |-> r]
      /\ UNCHANGED <<disk, dir, state, flag, ids, pc, resume, listed, pending, active, done,
                     wpc, err, executions, invocations, faults, signals>>
  BY DEF Decide, main, bounds
<1>2. wpc[t] # "idle"
  BY <1>1 DEF UpdateSteps
<1>3. /\ t \in active /\ t \notin Elements(pending)
      /\ pc \in {"fill", "wait", "mark", "reap", "drain"} /\ pc \notin Before /\ pc \notin Outside
  BY <1>2, AtWork
<1>4. state.rec[t] \in Records
  BY <1>3, InMemory
<1>5. Interrupted(state.rec[t]) \in Records /\ Interrupted(state.rec[t]).state = "interrupted"
      /\ Interrupted(state.rec[t]).attempt = state.rec[t].attempt
  BY <1>4, RecordType
<1>6. /\ Fields(t) \in Records
      /\ wpc[t] = "begin" => /\ Fields(t).attempt = state.rec[t].attempt + 1
                             /\ Fields(t).state \in {"running", "retrying"}
      /\ wpc[t] # "begin" => Fields(t).attempt = state.rec[t].attempt
  BY <1>1, FieldsType
<1>7. wpc[t] = "begin" /\ stop => flag
  <2>1. wpc[t] = "begin" /\ t \in ids => flag
    BY DEF Inv, Accounts
  <2> QED
    BY <2>1
<1>8. stop => r = Interrupted(state.rec[t])
  OBVIOUS
<1>9. ~stop => r = Fields(t)
  OBVIOUS
<1> HIDE DEF r
<1>10. r \in Records
  BY <1>5, <1>6, <1>8, <1>9
<1>11. Holding'
  <2>1. held'.by = t /\ held'.rec = r
    BY <1>1
  <2>2. \/ r.attempt = state.rec[t].attempt
        \/ wpc[t] = "begin" /\ r.attempt = state.rec[t].attempt + 1
    BY <1>5, <1>6, <1>8, <1>9
  <2>3. wpc[t] = "begin" =>
          /\ r.state \in {"running", "retrying", "interrupted"}
          /\ flag \/ r.attempt = state.rec[t].attempt + 1
    BY <1>5, <1>6, <1>7, <1>8, <1>9
  <2>4. t \in ids => r.state = "interrupted"
    BY <1>5, <1>8
  <2> QED
    BY <2>1, <2>2, <2>3, <2>4, <1>1 DEF Holding
<1> HIDE DEF stop
<1>12. TypeOK'
  <2>1. held' \in [by : Targets, rec : Records]
    BY <1>1, <1>10
  <2> QED
    BY <2>1, <1>1 DEF Inv, TypeOK
<1>13. Early' /\ Documented'
  BY <1>1, <1>3, SameDocuments
<1>14. Threads' /\ Queue'
  <2>1. Threads'
    BY <1>1 DEF Inv, Threads
  <2>2. Queue'
    BY <1>1 DEF Inv, Queue
  <2> QED
    BY <2>1, <2>2
<1>15. Wanted'
  BY <1>1 DEF Inv, Wanted, Fresh, SettledInMemory
<1>16. Accounts'
  <2>1. \A u \in Targets : Due(u)' = Due(u) /\ Spare(u)' = Spare(u)
    BY <1>1 DEF Due, Spare, Alarm, Fresh, Ahead
  <2> QED
    BY <2>1, <1>1 DEF Inv, Accounts
<1>17. Coverage'
  BY <1>1 DEF Inv, Coverage, Eligible, ArtifactsReusable, Ahead
<1> QED
  BY <1>11, <1>12, <1>13, <1>14, <1>15, <1>16, <1>17 DEF Inv

\* Where _run_target goes after _update.
LEMMA AfterUpdateEffect ==
    ASSUME NEW t \in Targets, wpc[t] \in UpdateSteps, NEW raised \in BOOLEAN
    PROVE  /\ AfterUpdate(t, raised) \in {"setup", "fail", "raised", "done"}
           /\ AfterUpdate(t, raised) = "setup" => wpc[t] = "begin" /\ ~raised
           /\ wpc[t] = "escape" /\ raised => AfterUpdate(t, raised) = "raised"
<1>1. CASE raised
  <2>1. CASE wpc[t] \in {"begin", "complete"}
    BY <1>1, <2>1 DEF AfterUpdate
  <2>2. CASE wpc[t] \in {"fail", "escape"}
    BY <1>1, <2>2 DEF AfterUpdate
  <2> QED
    BY <2>1, <2>2 DEF UpdateSteps
<1>2. CASE ~raised
  <2>1. CASE wpc[t] = "begin"
    BY <1>2, <2>1 DEF AfterUpdate
  <2>2. CASE wpc[t] # "begin"
    BY <1>2, <2>2 DEF AfterUpdate
  <2> QED
    BY <2>1, <2>2
<1> QED
  BY <1>1, <1>2

\* The second half of _update, once its parts are named.
LEMMA UpdateEffect ==
    ASSUME Inv, NEW t \in Targets, Update(t)
    PROVE  /\ wpc[t] \in UpdateSteps /\ held.rec \in Records /\ held.by = t /\ held.by # NoTarget
           /\ state' \in States /\ state'.status = state.status /\ state'.rec[t] = held.rec
           /\ \A u \in Targets \ {t} : state'.rec[u] = state.rec[u]
           /\ held' = [by |-> NoTarget]
           /\ \E raised \in BOOLEAN :
                /\ disk' = state' \/ (raised /\ disk' = disk)
                /\ faults' \in Nat
                /\ wpc' = [wpc EXCEPT ![t] = AfterUpdate(t, raised)]
                /\ flag' = (flag \/ (wpc[t] = "escape" /\ ~raised))
           /\ err' \in [Targets -> Codes]
           /\ UNCHANGED <<dir, ids, pc, resume, listed, pending, active, done, executions,
                          invocations, signals>>
<1>1. /\ held.by = t
      /\ state' = [state EXCEPT !.rec = [@ EXCEPT ![t] = held.rec]]
      /\ UNCHANGED <<dir, ids, pc, resume, listed, pending, active, done, executions,
                     invocations, signals>>
  BY DEF Update, main
<1>2. held.by # NoTarget
  BY <1>1, TargetsAssumption
<1>3. wpc[t] \in UpdateSteps /\ held.rec \in Records
  BY <1>1, <1>2 DEF Inv, Holding, TypeOK
<1>4. state \in States
  <2>1. wpc[t] # "idle"
    BY <1>3 DEF UpdateSteps
  <2> QED
    BY <2>1, AtWork, InMemory
<1>5. /\ state' \in States /\ state'.status = state.status
      /\ state'.rec = [state.rec EXCEPT ![t] = held.rec]
  BY <1>1, <1>3, <1>4 DEF States
<1>6. state'.rec[t] = held.rec /\ \A u \in Targets \ {t} : state'.rec[u] = state.rec[u]
  <2>1. state.rec \in [Targets -> Records]
    BY <1>4, DocumentType
  <2> QED
    BY <2>1, <1>5
<1>7. PICK landed \in BOOLEAN, raised \in BOOLEAN :
         /\ Publish(state', landed, raised)
         /\ held' = [by |-> NoTarget]
         /\ wpc' = [wpc EXCEPT ![t] = AfterUpdate(t, raised)]
         /\ err' = [err EXCEPT ![t] = IF AfterUpdate(t, raised) = "fail" THEN "permanent" ELSE "none"]
         /\ flag' = (flag \/ (wpc[t] = "escape" /\ ~raised))
  BY DEF Update
<1>8. (disk' = state' \/ (raised /\ disk' = disk)) /\ faults' \in Nat
  <2>1. faults \in Nat
    BY DEF Inv, TypeOK
  <2>2. CASE landed
    BY <2>1, <2>2, <1>7 DEF Publish, Fault
  <2>3. CASE ~landed
    BY <2>1, <2>3, <1>7 DEF Publish, Fault
  <2> QED
    BY <2>2, <2>3
<1>9. err' \in [Targets -> Codes]
  <2>1. err \in [Targets -> Codes]
    BY DEF Inv, TypeOK
  <2>2. PICK c \in {"permanent", "none"} : err' = [err EXCEPT ![t] = c]
    BY <1>7
  <2> QED
    BY <2>1, <2>2 DEF Codes
<1> QED
  BY <1>1, <1>2, <1>3, <1>5, <1>6, <1>7, <1>8, <1>9

\* The second half of _update: the memory and perhaps the file get the record
\* that was decided under the same lock.
LEMMA UpdateKept == \A t \in Targets : Inv /\ Update(t) => Inv'
<1> SUFFICES ASSUME NEW t \in Targets, Inv, Update(t) PROVE Inv'
  OBVIOUS
<1>1. /\ wpc[t] \in UpdateSteps /\ held.rec \in Records /\ held.by = t /\ held.by # NoTarget
      /\ state' \in States /\ state'.status = state.status /\ state'.rec[t] = held.rec
      /\ \A u \in Targets \ {t} : state'.rec[u] = state.rec[u]
      /\ held' = [by |-> NoTarget]
      /\ err' \in [Targets -> Codes]
      /\ UNCHANGED <<dir, ids, pc, resume, listed, pending, active, done, executions,
                     invocations, signals>>
  BY UpdateEffect
<1>2. PICK raised \in BOOLEAN :
        /\ disk' = state' \/ (raised /\ disk' = disk)
        /\ faults' \in Nat
        /\ wpc' = [wpc EXCEPT ![t] = AfterUpdate(t, raised)]
        /\ flag' = (flag \/ (wpc[t] = "escape" /\ ~raised))
  BY UpdateEffect
<1> DEFINE label == AfterUpdate(t, raised)
<1>3. /\ label \in {"setup", "fail", "raised", "done"}
      /\ label = "setup" => wpc[t] = "begin" /\ ~raised
      /\ wpc[t] = "escape" /\ raised => label = "raised"
  BY <1>1, AfterUpdateEffect
<1> HIDE DEF label
<1>4. wpc'[t] = label /\ (\A u \in Targets \ {t} : wpc'[u] = wpc[u])
      /\ wpc' \in [Targets -> UpdateSteps \cup {"idle", "setup", "running", "done", "raised"}]
  <2>1. wpc \in [Targets -> UpdateSteps \cup {"idle", "setup", "running", "done", "raised"}]
    BY DEF Inv, TypeOK
  <2>2. wpc' = [wpc EXCEPT ![t] = label]
    BY <1>2 DEF label
  <2>3. label \in UpdateSteps \cup {"idle", "setup", "running", "done", "raised"}
    BY <1>3 DEF UpdateSteps
  <2> QED
    BY <2>1, <2>2, <2>3
<1>5. /\ t \in active /\ t \notin Elements(pending)
      /\ pc \in {"fill", "wait", "mark", "reap", "drain"} /\ pc \notin Before /\ pc \notin Outside
  <2>1. wpc[t] # "idle"
    BY <1>1 DEF UpdateSteps
  <2> QED
    BY <2>1, AtWork
<1>6. /\ state \in States /\ disk \in States
      /\ \A u \in Targets : state.rec[u] \in Records /\ disk.rec[u] \in Records
  BY <1>5, InMemory
<1>7. /\ \/ held.rec.attempt = state.rec[t].attempt
         \/ wpc[t] = "begin" /\ held.rec.attempt = state.rec[t].attempt + 1
      /\ wpc[t] = "begin" =>
           /\ held.rec.state \in {"running", "retrying", "interrupted"}
           /\ flag \/ held.rec.attempt = state.rec[t].attempt + 1
  BY <1>1 DEF Inv, Holding
<1>8. \A u \in Targets :
        /\ disk.rec[u].attempt \in Nat /\ state.rec[u].attempt \in Nat
        /\ state'.rec[u].attempt \in Nat
        /\ disk.rec[u].attempt <= state.rec[u].attempt
        /\ state.rec[u].attempt <= state'.rec[u].attempt
  <2>1. \A u \in Targets : disk.rec[u].attempt \in Nat /\ state.rec[u].attempt \in Nat
    BY <1>6, RecordType
  <2>2. \A u \in Targets : state'.rec[u].attempt \in Nat
    BY <1>1, DocumentType, RecordType
  <2>3. \A u \in Targets : disk.rec[u].attempt <= state.rec[u].attempt
    BY <1>5 DEF Inv, Documented
  <2>4. state.rec[t].attempt <= state'.rec[t].attempt
    BY <2>1, <1>1, <1>7
  <2>5. \A u \in Targets : state.rec[u].attempt <= state'.rec[u].attempt
    BY <2>1, <2>4, <1>1
  <2> QED
    BY <2>1, <2>2, <2>3, <2>5
<1>9. disk' \in States
      /\ \A u \in Targets : disk'.rec[u].attempt <= state'.rec[u].attempt
                            /\ disk.rec[u].attempt <= disk'.rec[u].attempt
  <2>1. CASE disk' = state'
    <3>1. \A u \in Targets : disk'.rec[u] = state'.rec[u]
      BY <2>1
    <3> QED
      BY <2>1, <3>1, <1>1, <1>8
  <2>2. CASE disk' = disk
    <3>1. \A u \in Targets : disk'.rec[u] = disk.rec[u]
      BY <2>2
    <3> QED
      BY <2>2, <3>1, <1>6, <1>8
  <2> QED
    BY <2>1, <2>2, <1>2
<1>10. TypeOK'
  <2>1. flag' \in BOOLEAN
    BY <1>2
  <2>2. disk' \in Documents /\ state' \in States \cup {Absent}
    BY <1>1, <1>9 DEF Documents
  <2>3. held' \in [by : {NoTarget}]
    BY <1>1
  <2> QED
    BY <2>1, <2>2, <2>3, <1>1, <1>2, <1>4 DEF Inv, TypeOK
<1>11. Early'
  BY <1>1, <1>5 DEF Early
<1>12. Documented'
  <2>1. state' # Absent /\ state'.status = "running"
    BY <1>1, <1>5, DocumentType DEF Inv, Documented
  <2>2. pc' \notin Outside /\ pc' \notin {"normalize", "running"}
    BY <1>1, <1>5 DEF Before
  <2> QED
    BY <2>1, <2>2, <1>9 DEF Documented
<1>13. Threads'
  <2>1. \A u \in Targets : wpc'[u] # "idle" => u \in active'
    BY <1>1, <1>4, <1>5 DEF Inv, Threads
  <2>2. \A u \in Targets : wpc'[u] = "escape" => u \in ids'
    BY <1>1, <1>3, <1>4 DEF Inv, Threads
  <2>3. flag => flag'
    BY <1>2
  <2> QED
    BY <2>1, <2>2, <2>3, <1>1 DEF Inv, Threads
<1>14. Queue'
  BY <1>1 DEF Inv, Queue
<1>15. Holding'
  BY <1>1 DEF Holding
<1>16. \A u \in Targets : Fresh(u)' => Fresh(u) /\ u # t
  BY <1>1, <1>3, <1>4, <1>5 DEF Fresh
<1>17. \A u \in Targets \ {t} : Fresh(u) => Fresh(u)'
  BY <1>1, <1>4 DEF Fresh
<1>18. Wanted'
  <2>1. \A u \in Targets : Fresh(u)' =>
          state'.rec[u].attempt < MaxAttempts /\ ~SettledInMemory(u)'
    BY <1>1, <1>16 DEF Inv, Wanted, SettledInMemory
  <2>2. \A u \in Targets : wpc'[u] \in {"setup", "running", "complete", "escape"} =>
          state'.rec[u].state \in {"running", "retrying", "interrupted"}
    BY <1>1, <1>3, <1>4, <1>7 DEF Inv, Wanted
  <2> QED
    BY <2>1, <2>2 DEF Wanted
<1>19. \A u \in Targets : Spare(u)' <= Spare(u)
  <2>1. ASSUME NEW u \in Targets, Spare(u)' = 1 PROVE Spare(u) = 1
    <3>1. Alarm' /\ (flag' => Fresh(u)' \/ Ahead(u)')
      BY <2>1 DEF Spare
    <3>2. ~Ahead(u)' /\ pc' = pc
      BY <1>1, <1>5 DEF Ahead
    <3>3. Alarm
      <4>1. wpc[t] = "escape" => ids # {}
        BY DEF Inv, Threads
      <4>2. ids' = ids
        BY <1>1
      <4> QED
        BY <3>1, <4>1, <4>2, <1>2 DEF Alarm
    <3>4. flag => Fresh(u)
      BY <3>1, <3>2, <1>2, <1>16
    <3> QED
      BY <3>3, <3>4 DEF Spare
  <2> QED
    BY <2>1, DebtType
<1>20. Accounts'
  <2>1. ASSUME NEW u \in Targets, label # "setup" \/ u # t
        PROVE  executions'[u] + Due(u)' + Spare(u)' <= disk'.rec[u].attempt + signals'
    <3>1. Due(u)' = 1 => Due(u) = 1
      BY <2>1, <1>4 DEF Due
    <3>2. Due(u)' <= Due(u)
      BY <3>1, DebtType
    <3>3. disk'.rec[u].attempt >= disk.rec[u].attempt
      <4>1. disk'.rec[u].attempt \in Nat
        BY <1>9, DocumentType, RecordType
      <4> QED
        BY <4>1, <1>8, <1>9
    <3> QED
      BY <3>2, <3>3, <1>1, <1>5, <1>9, <1>19, AccountCarried
  <2>2. ASSUME label = "setup"
        PROVE  executions'[t] + Due(t)' + Spare(t)' <= disk'.rec[t].attempt + signals'
    <3>1. wpc[t] = "begin" /\ disk' = state' /\ Due(t) = 0
      BY <2>2, <1>2, <1>3 DEF Due
    <3>2. executions[t] + Due(t) + Spare(t) <= disk.rec[t].attempt + signals
      BY <1>5, InMemory DEF Inv, Accounts
    <3>3. executions[t] \in Nat /\ signals \in Nat
      BY DEF Inv, TypeOK
    <3>4. disk'.rec[t].attempt = held.rec.attempt /\ held.rec.attempt \in Nat
      BY <3>1, <1>1, RecordType
    <3>5. CASE held.rec.attempt = state.rec[t].attempt + 1
      <4>1. disk'.rec[t].attempt >= disk.rec[t].attempt + 1
        BY <3>4, <3>5, <1>8
      <4>2. executions[t] + Due(t)' + Spare(t)' <= disk'.rec[t].attempt + signals
        BY <4>1, <3>1, <3>2, <3>3, <3>4, <1>8, <1>19, DebtType
      <4> QED
        BY <4>2, <1>1
    <3>6. CASE flag
      <4>1. Spare(t) = 1
        BY <3>1, <3>6 DEF Spare, Alarm, Fresh
      <4>2. Spare(t)' = 0
        <5>1. flag' /\ ~Fresh(t)' /\ ~Ahead(t)'
          BY <3>6, <1>1, <1>2, <1>5, <1>16 DEF Ahead
        <5> QED
          BY <5>1 DEF Spare
      <4>3. disk'.rec[t].attempt >= disk.rec[t].attempt
        BY <3>4, <1>8, <1>9
      <4>4. executions[t] + Due(t)' + Spare(t)' <= disk'.rec[t].attempt + signals
        BY <4>1, <4>2, <4>3, <3>1, <3>2, <3>3, <3>4, <1>8, DebtType
      <4> QED
        BY <4>4, <1>1
    <3> QED
      BY <3>1, <3>5, <3>6, <1>7
  <2>3. ASSUME ~flag', NEW u \in ids'
        PROVE  \/ wpc'[u] \in {"escape", "raised"}
               \/ pc' = "drain" /\ wpc'[u] = "idle" /\ u \notin Elements(pending')
    <3>1. ~flag /\ (wpc[t] = "escape" => raised)
      BY <2>3, <1>2
    <3>2. u \in ids /\ u \in Targets
      BY <2>3, <1>1 DEF Inv, TypeOK
    <3>3. \/ wpc[u] \in {"escape", "raised"}
          \/ pc = "drain" /\ wpc[u] = "idle" /\ u \notin Elements(pending)
      BY <3>1, <3>2 DEF Inv, Accounts
    <3>4. u = t => wpc'[u] = "raised"
      BY <3>1, <3>3, <1>1, <1>3, <1>4 DEF UpdateSteps
    <3> QED
      BY <3>2, <3>3, <3>4, <1>1, <1>4
  <2> QED
    BY <2>1, <2>2, <2>3 DEF Accounts
<1>21. Coverage'
  <2>1. \A u \in Targets \ {t} : Eligible(u)' <=> Eligible(u)
    BY <1>1 DEF Eligible, ArtifactsReusable
  <2>2. ASSUME ~flag', pc \in {"fill", "wait", "reap"}, NEW u \in Targets, Eligible(u)'
        PROVE  u \in Elements(pending) \cup active
    <3>1. ~flag
      BY <2>2, <1>2
    <3>2. u # t => u \in Elements(pending) \cup active
      BY <3>1, <2>1, <2>2 DEF Inv, Coverage, Ahead
    <3> QED
      BY <3>2, <1>5
  <2> QED
    BY <2>2, <1>1, <1>5 DEF Coverage
<1> QED
  BY <1>10, <1>11, <1>12, <1>13, <1>14, <1>15, <1>18, <1>20, <1>21 DEF Inv

\* What _mark_interrupted does to the records: attempts stay, and a record
\* stays or becomes an interrupted one.
LEMMA MarkEffect ==
    ASSUME Inv, Mark
    PROVE  /\ state' \in States /\ state'.status = state.status
           /\ \A t \in Targets :
                /\ state'.rec[t].attempt = state.rec[t].attempt
                /\ t \notin ToMark => state'.rec[t] = state.rec[t]
                /\ t \in ToMark => state'.rec[t].state = "interrupted"
           /\ flag /\ held.by = NoTarget /\ pc \notin Outside /\ pc \notin Before
           /\ ids \subseteq ids' /\ ids' \subseteq Targets
           /\ faults' \in Nat
           /\ pc' = "drain" \/ (pc = "mark" /\ pc' = "reap") \/ (pc = "lastMark" /\ pc' = "gaps")
           /\ \/ disk' = state'
              \/ disk' = disk /\ (pc' = "drain" \/ ToMark = {})
           /\ UNCHANGED <<dir, flag, resume, listed, pending, active, done, wpc, err, held,
                          executions, invocations, signals>>
<1> DEFINE next == IF pc = "mark" THEN "reap" ELSE "gaps"
           new == [t \in Targets |-> IF t \in ToMark THEN Interrupted(state.rec[t]) ELSE state.rec[t]]
<1>1. /\ pc \in {"mark", "lastMark"} /\ held.by = NoTarget
      /\ ids' = ids \cup {t \in Targets : state.rec[t].state \in Unsettled}
      /\ state' = [state EXCEPT !.rec = new]
      /\ UNCHANGED <<dir, flag, resume, listed, pending, active, done, wpc, err, held,
                     executions, invocations, signals>>
  BY DEF Mark, MarkGuard, worker
<1>2. flag /\ pc \notin Outside /\ pc \notin Before
  BY <1>1 DEF Inv, Threads, Outside, Before
<1>3. state \in States /\ \A t \in Targets : state.rec[t] \in Records
  BY <1>2, InMemory
<1>4. \A t \in Targets : /\ Interrupted(state.rec[t]) \in Records
                         /\ Interrupted(state.rec[t]).state = "interrupted"
                         /\ Interrupted(state.rec[t]).attempt = state.rec[t].attempt
  BY <1>3, RecordType
<1>5. new \in [Targets -> Records]
  BY <1>3, <1>4
<1>6. \A t \in Targets : /\ t \in ToMark => new[t] = Interrupted(state.rec[t])
                         /\ t \notin ToMark => new[t] = state.rec[t]
  OBVIOUS
<1> HIDE DEF new
<1>7. state' \in States /\ state'.status = state.status /\ state'.rec = new
  BY <1>1, <1>3, <1>5 DEF States
<1>8. ids \subseteq ids' /\ ids' \subseteq Targets
  BY <1>1 DEF Inv, TypeOK
<1>9. \A t \in Targets :
        /\ state'.rec[t].attempt = state.rec[t].attempt
        /\ t \notin ToMark => state'.rec[t] = state.rec[t]
        /\ t \in ToMark => state'.rec[t].state = "interrupted"
  BY <1>4, <1>6, <1>7
<1>10. \/ ToMark = {} /\ pc' = next /\ UNCHANGED <<disk, faults>>
       \/ \E landed, raised \in BOOLEAN :
            /\ Publish(state', landed, raised)
            /\ pc' = IF raised THEN "drain" ELSE next
  BY DEF Mark
<1>11. (pc = "mark" /\ next = "reap") \/ (pc = "lastMark" /\ next = "gaps")
  BY <1>1
<1> HIDE DEF next
<1>12. /\ faults' \in Nat
       /\ pc' = "drain" \/ pc' = next
       /\ \/ disk' = state'
          \/ disk' = disk /\ (pc' = "drain" \/ ToMark = {})
  <2>1. faults \in Nat
    BY DEF Inv, TypeOK
  <2>2. CASE ToMark = {} /\ pc' = next /\ UNCHANGED <<disk, faults>>
    BY <2>1, <2>2
  <2>3. CASE \E landed, raised \in BOOLEAN :
               /\ Publish(state', landed, raised)
               /\ pc' = IF raised THEN "drain" ELSE next
    <3>1. PICK landed \in BOOLEAN, raised \in BOOLEAN :
               /\ Publish(state', landed, raised)
               /\ pc' = IF raised THEN "drain" ELSE next
      BY <2>3
    <3>2. CASE landed
      BY <2>1, <3>1, <3>2 DEF Publish, Fault
    <3>3. CASE ~landed
      <4>1. raised /\ pc' = "drain" /\ disk' = disk
        BY <3>1, <3>3 DEF Publish
      <4> QED
        BY <4>1, <2>1, <3>1 DEF Publish, Fault
    <3> QED
      BY <3>2, <3>3
  <2> QED
    BY <2>2, <2>3, <1>10
<1> QED
  BY <1>1, <1>2, <1>7, <1>8, <1>9, <1>11, <1>12

\* _mark_interrupted, in the loop and after it.
LEMMA MarkKept == Inv /\ Mark => Inv'
<1> SUFFICES ASSUME Inv, Mark PROVE Inv'
  OBVIOUS
<1>1. /\ state' \in States /\ state'.status = state.status
      /\ flag /\ held.by = NoTarget /\ pc \notin Outside /\ pc \notin Before
      /\ ids \subseteq ids' /\ ids' \subseteq Targets
      /\ faults' \in Nat
      /\ pc' = "drain" \/ (pc = "mark" /\ pc' = "reap") \/ (pc = "lastMark" /\ pc' = "gaps")
      /\ disk' = state' \/ disk' = disk
      /\ UNCHANGED <<dir, flag, resume, listed, pending, active, done, wpc, err, held,
                     executions, invocations, signals>>
  BY MarkEffect
<1>2. \A t \in Targets :
        /\ state'.rec[t].attempt = state.rec[t].attempt
        /\ t \notin ToMark => state'.rec[t] = state.rec[t]
        /\ t \in ToMark => state'.rec[t].state = "interrupted"
  BY MarkEffect
<1>3. pc \in {"mark", "lastMark"}
  BY DEF Mark
<1>4. disk \in States /\ \A t \in Targets : state.rec[t] \in Records /\ disk.rec[t] \in Records
  BY <1>1, InMemory
<1>5. \A t \in Targets : /\ disk.rec[t].attempt <= state.rec[t].attempt
                         /\ disk.rec[t].attempt \in Nat /\ state.rec[t].attempt \in Nat
  BY <1>1, <1>4, RecordType DEF Inv, Documented
<1>6. disk' \in States
      /\ \A t \in Targets : disk'.rec[t].attempt <= state'.rec[t].attempt
                            /\ disk'.rec[t].attempt >= disk.rec[t].attempt
  <2>1. CASE disk' = state'
    <3>1. \A t \in Targets : disk'.rec[t].attempt = state.rec[t].attempt
      BY <2>1, <1>2
    <3> QED
      BY <2>1, <3>1, <1>1, <1>2, <1>5
  <2>2. CASE disk' = disk
    <3>1. \A t \in Targets : disk'.rec[t].attempt = disk.rec[t].attempt
      BY <2>2
    <3> QED
      BY <2>2, <3>1, <1>2, <1>4, <1>5
  <2> QED
    BY <2>1, <2>2, <1>1
<1>7. pc' \in {"drain", "reap", "gaps"} /\ pc' \notin Before /\ pc' \notin Outside
  BY <1>1 DEF Before, Outside
<1>8. TypeOK'
  BY <1>1, <1>6, <1>7 DEF Inv, TypeOK, Documents
<1>9. Early'
  BY <1>7 DEF Early
<1>10. Documented'
  <2>1. state' # Absent /\ state'.status = "running"
    BY <1>1, DocumentType DEF Inv, Documented
  <2> QED
    BY <2>1, <1>6, <1>7 DEF Documented
<1>11. Threads' /\ Queue'
  <2>1. \A t \in Targets : wpc'[t] = "escape" => t \in ids'
    BY <1>1 DEF Inv, Threads
  <2>2. pc' = "gaps" => active' = {}
    BY <1>1, <1>3 DEF Inv, Threads
  <2>3. Threads'
    BY <2>1, <2>2, <1>1, <1>7 DEF Inv, Threads
  <2>4. Queue'
    BY <1>1, <1>7 DEF Inv, Queue
  <2> QED
    BY <2>3, <2>4
<1>12. Wanted'
  <2>1. ASSUME NEW t \in Targets, Fresh(t)'
        PROVE  state'.rec[t].attempt < MaxAttempts /\ ~SettledInMemory(t)'
    <3>1. Fresh(t)
      BY <2>1, <1>1 DEF Fresh
    <3>2. state.rec[t].attempt < MaxAttempts /\ ~SettledInMemory(t)
      BY <3>1 DEF Inv, Wanted
    <3>3. CASE t \in ToMark
      BY <3>2, <3>3, <1>2 DEF SettledInMemory
    <3>4. CASE t \notin ToMark
      BY <3>2, <3>4, <1>1, <1>2 DEF SettledInMemory
    <3> QED
      BY <3>3, <3>4
  <2>2. \A t \in Targets : wpc'[t] \in {"setup", "running", "complete", "escape"} =>
          state'.rec[t].state \in {"running", "retrying", "interrupted"}
    BY <1>1, <1>2 DEF Inv, Wanted
  <2> QED
    BY <2>1, <2>2 DEF Wanted
<1>13. Holding'
  BY <1>1 DEF Holding
<1>14. Accounts'
  <2>1. ASSUME NEW t \in Targets
        PROVE  executions'[t] + Due(t)' + Spare(t)' <= disk'.rec[t].attempt + signals'
    <3>1. Due(t)' = Due(t)
      BY <1>1 DEF Due
    <3>2. Fresh(t)' \/ Ahead(t)' => Fresh(t)
      BY <1>1, <1>7 DEF Fresh, Ahead
    <3>3. Spare(t)' = 1 => Spare(t) = 1
      BY <3>2, <1>1 DEF Spare, Alarm
    <3>4. Due(t)' <= Due(t) /\ Spare(t)' <= Spare(t)
      BY <3>1, <3>3, DebtType
    <3> QED
      BY <3>4, <1>1, <1>6, AccountCarried
  <2> QED
    BY <2>1, <1>1 DEF Accounts
<1>15. Coverage'
  BY <1>1, <1>7 DEF Coverage
<1> QED
  BY <1>8, <1>9, <1>10, <1>11, <1>12, <1>13, <1>14, <1>15 DEF Inv

-----------------------------------------------------------------------------
(* The ends of an invocation, and what happens between two of them.        *)

\* The final status is one of the statuses, and says what it means.
LEMMA FinalStatusEffect ==
    /\ FinalStatus \in Statuses
    /\ FinalStatus # "interrupted" => ~flag
    /\ FinalStatus = "completed" => \A t \in Targets : state.rec[t].state = "completed"
<1> DEFINE found == {state.rec[t].state : t \in Targets}
<1>1. FinalStatus = IF flag \/ "interrupted" \in found THEN "interrupted"
                    ELSE IF "failed" \in found THEN "completed_with_failures"
                    ELSE IF found \subseteq {"completed"} THEN "completed"
                    ELSE "completed_with_gaps"
  BY DEF FinalStatus
<1>2. \A t \in Targets : state.rec[t].state \in found
  OBVIOUS
<1> HIDE DEF found
<1>3. FinalStatus \in Statuses
  BY <1>1 DEF Statuses
<1>4. FinalStatus # "interrupted" => ~flag
  <2>1. flag => FinalStatus = "interrupted"
    BY <1>1
  <2> QED
    BY <2>1
<1>5. FinalStatus = "completed" => found \subseteq {"completed"}
  <2>1. CASE flag \/ "interrupted" \in found
    BY <2>1, <1>1
  <2>2. CASE ~(flag \/ "interrupted" \in found)
    BY <2>2, <1>1
  <2> QED
    BY <2>1, <2>2
<1> QED
  BY <1>2, <1>3, <1>4, <1>5

\* The final document of run.
LEMMA FinishEffect ==
    ASSUME Inv, Finish
    PROVE  /\ Gone /\ pc = "finish"
           /\ [state EXCEPT !.status = FinalStatus] \in States
           /\ [state EXCEPT !.status = FinalStatus].rec = state.rec
           /\ [state EXCEPT !.status = FinalStatus].status = FinalStatus
           /\ disk' = [state EXCEPT !.status = FinalStatus] \/ disk' = disk
           /\ faults' \in Nat /\ UNCHANGED <<dir, executions, invocations, signals>>
<1> DEFINE s == [state EXCEPT !.status = FinalStatus]
<1>1. Gone /\ pc = "finish" /\ UNCHANGED <<dir, executions, invocations, signals>>
  BY DEF Finish
<1>2. state \in States
  BY <1>1, InMemory DEF Outside
<1>3. s \in States /\ s.rec = state.rec /\ s.status = FinalStatus
  BY <1>2, FinalStatusEffect DEF States
<1>4. PICK landed \in BOOLEAN, raised \in BOOLEAN : Publish(s, landed, raised)
  BY DEF Finish
<1> HIDE DEF s
<1>5. faults \in Nat
  BY DEF Inv, TypeOK
<1>6. (disk' = s \/ disk' = disk) /\ faults' \in Nat
  BY <1>4, <1>5, PublishEffect
<1> QED
  BY <1>1, <1>3, <1>6 DEF s

\* The main thread leaves run, or the process is killed.
LEMMA EndKept == Inv /\ (Drain \/ Finish \/ Kill) => Inv'
<1> SUFFICES ASSUME Inv, Drain \/ Finish \/ Kill PROVE Inv'
  OBVIOUS
<1>1. CASE Drain \/ Kill
  <2>1. faults \in Nat
    BY DEF Inv, TypeOK
  <2>2. Gone /\ faults' \in Nat /\ UNCHANGED <<disk, dir, executions, invocations, signals>>
    BY <2>1, <1>1 DEF Drain, Kill, Fault, bounds
  <2> QED
    BY <2>2, GoneQuietly
<1>2. CASE Finish
  <2> DEFINE s == [state EXCEPT !.status = FinalStatus]
  <2>1. /\ Gone /\ pc = "finish" /\ s \in States /\ s.rec = state.rec
        /\ disk' = s \/ disk' = disk
        /\ faults' \in Nat /\ UNCHANGED <<dir, executions, invocations, signals>>
    BY <1>2, FinishEffect
  <2> HIDE DEF s
  <2>2. pc \notin Outside
    BY <2>1 DEF Outside
  <2>3. \A t \in Targets : s.rec[t].attempt >= disk.rec[t].attempt
    <3>1. \A t \in Targets : disk.rec[t].attempt <= state.rec[t].attempt
      BY <2>2 DEF Inv, Documented
    <3>2. \A t \in Targets : disk.rec[t].attempt \in Nat /\ state.rec[t].attempt \in Nat
      BY <2>2, InMemory, RecordType
    <3> QED
      BY <3>1, <3>2, <2>1
  <2> QED
    BY <2>1, <2>2, <2>3, PublishedOnTheWayOut
<1> QED
  BY <1>1, <1>2

\* Somebody edits the output directory between two invocations.
LEMMA EditKept == Inv /\ Edit => Inv'
<1> SUFFICES ASSUME Inv, Edit PROVE Inv'
  OBVIOUS
<1>1. /\ pc = "off" /\ faults' = faults + 1
      /\ UNCHANGED <<state, flag, ids, pc, resume, listed, pending, active, done, wpc, err, held,
                     executions, invocations, signals>>
  BY DEF Edit, Fault, main, worker
<1>2. /\ disk' = disk \/ disk' = Malformed
      /\ dir' \in [Targets -> Dirs]
  <2>1. dir \in [Targets -> Dirs]
    BY DEF Inv, TypeOK
  <2>2. CASE /\ \E t \in Targets, d \in {"unfinished", "foreign"} :
                   dir[t] # d /\ dir' = [dir EXCEPT ![t] = d]
             /\ UNCHANGED disk
    <3>1. PICK t \in Targets, d \in {"unfinished", "foreign"} : dir' = [dir EXCEPT ![t] = d]
      BY <2>2
    <3> QED
      BY <3>1, <2>1, <2>2 DEF Dirs
  <2>3. CASE disk' = Malformed /\ UNCHANGED dir
    BY <2>1, <2>3
  <2> QED
    BY <2>2, <2>3 DEF Edit
<1>3. /\ ids = {} /\ pending = <<>> /\ active = {} /\ ~flag
  BY <1>1 DEF Inv, Early, Before
<1>4. Elements(pending) = {} /\ held.by = NoTarget /\ \A t \in Targets : wpc[t] = "idle"
  BY <1>3, NobodyWorks DEF Elements
<1>5. TypeOK'
  <2>1. disk' \in Documents /\ faults' \in Nat
    BY <1>1, <1>2 DEF Inv, TypeOK, Documents
  <2> QED
    BY <2>1, <1>1, <1>2 DEF Inv, TypeOK
<1>6. Early' /\ Threads'
  <2>1. Early'
    BY <1>1 DEF Inv, Early
  <2>2. Threads'
    BY <1>1 DEF Inv, Threads
  <2> QED
    BY <2>1, <2>2
<1>7. Documented'
  BY <1>1 DEF Inv, Documented, Outside, Before
<1>8. Queue' /\ Holding' /\ Coverage'
  <2>1. Queue'
    BY <1>1 DEF Inv, Queue
  <2>2. Holding'
    BY <1>1, <1>4 DEF Holding
  <2>3. Coverage'
    BY <1>1 DEF Coverage
  <2> QED
    BY <2>1, <2>2, <2>3
<1>9. Wanted'
  BY <1>1, <1>4 DEF Wanted, Fresh
<1>10. Accounts'
  <2>1. \A t \in Targets : Due(t)' = Due(t) /\ Spare(t)' = Spare(t)
    BY <1>1 DEF Due, Spare, Alarm, Fresh, Ahead
  <2>2. Recorded(disk)' => disk' = disk
    BY <1>2 DEF Recorded
  <2> QED
    BY <2>1, <2>2, <1>1, <1>3 DEF Inv, Accounts
<1> QED
  BY <1>5, <1>6, <1>7, <1>8, <1>9, <1>10 DEF Inv

\* A step that changes nothing.
LEMMA StutterKept == Inv /\ UNCHANGED vars => Inv'
<1> SUFFICES ASSUME Inv, UNCHANGED vars PROVE Inv'
  OBVIOUS
<1>1. UNCHANGED <<disk, dir, state, flag, ids, pc, resume, listed, pending, active, done, wpc, err,
                  held, executions, invocations, faults, signals>>
  BY DEF vars, main, worker, bounds
<1>2. TypeOK'
  BY <1>1 DEF Inv, TypeOK
<1>3. Early' /\ Documented' /\ Threads' /\ Queue' /\ Holding'
  <2>1. Early'
    BY <1>1 DEF Inv, Early
  <2>2. Documented'
    BY <1>1 DEF Inv, Documented
  <2>3. Threads'
    BY <1>1 DEF Inv, Threads
  <2>4. Queue'
    BY <1>1 DEF Inv, Queue
  <2>5. Holding'
    BY <1>1 DEF Inv, Holding
  <2> QED
    BY <2>1, <2>2, <2>3, <2>4, <2>5
<1>4. Wanted'
  BY <1>1 DEF Inv, Wanted, Fresh, SettledInMemory
<1>5. Accounts'
  <2>1. \A t \in Targets : Due(t)' = Due(t) /\ Spare(t)' = Spare(t)
    BY <1>1 DEF Due, Spare, Alarm, Fresh, Ahead
  <2> QED
    BY <2>1, <1>1 DEF Inv, Accounts, Recorded
<1>6. Coverage'
  BY <1>1 DEF Inv, Coverage, Eligible, ArtifactsReusable, Ahead
<1> QED
  BY <1>2, <1>3, <1>4, <1>5, <1>6 DEF Inv

\* Every step keeps the invariant.
LEMMA NextInv == Inv /\ [Next]_vars => Inv'
<1> SUFFICES ASSUME Inv, [Next]_vars PROVE Inv'
  OBVIOUS
<1>1. CASE Start
  BY <1>1, StartKept
<1>2. CASE LoadState \/ CreateState \/ Normalize \/ Running
  BY <1>2, LoadStateKept, CreateStateKept, NormalizeKept, RunningKept
<1>3. CASE ListTarget \/ Submit \/ Filled \/ Wait
  BY <1>3, ListTargetKept, SubmitKept, FilledKept, WaitKept
<1>4. CASE Mark \/ Reap
  BY <1>4, MarkKept, ReapKept
<1>5. CASE Drain \/ Finish \/ Kill
  BY <1>5, EndKept
<1>6. CASE Signal
  BY <1>6, SignalKept
<1>7. CASE Edit
  BY <1>7, EditKept
<1>8. ASSUME NEW t \in Targets, WorkerStep(t) PROVE Inv'
  BY <1>8, DecideKept, UpdateKept, SetupKept, PipelineKept DEF WorkerStep
<1>9. CASE UNCHANGED vars
  BY <1>9, StutterKept
<1> QED
  BY <1>1, <1>2, <1>3, <1>4, <1>5, <1>6, <1>7, <1>8, <1>9 DEF Next, MainStep

-----------------------------------------------------------------------------
(* The steps that write.                                                   *)

\* Only the normalisation, the status running, _mark_interrupted, _update and
\* the final status change a document that the runner has in memory.
LEMMA Writers ==
    ASSUME Inv, [Next]_vars
    PROVE  \/ disk' = disk /\ (state' = state \/ state = Absent \/ state' = Absent)
           \/ CreateState \/ Edit \/ Normalize \/ Running \/ Mark \/ Finish
           \/ \E t \in Targets : Update(t)
<1>1. CASE Start \/ LoadState
  <2>1. pc \in Outside /\ disk' = disk
    BY <1>1 DEF Start, LoadState, Outside
  <2> QED
    BY <2>1 DEF Inv, Documented
<1>2. CASE ListTarget \/ Submit \/ Filled \/ Wait \/ Reap \/ Signal
  BY <1>2 DEF ListTarget, Submit, Filled, Wait, Reap, Signal
<1>3. CASE Drain \/ Kill
  BY <1>3 DEF Drain, Kill, Gone
<1>4. ASSUME NEW t \in Targets, WorkerStep(t), ~Update(t)
      PROVE  disk' = disk /\ state' = state
  BY <1>4 DEF WorkerStep, Decide, Setup, PipelineReturns, PipelineFails, PipelineEscapes
<1>5. CASE UNCHANGED vars
  BY <1>5 DEF vars
<1> QED
  BY <1>1, <1>2, <1>3, <1>4, <1>5 DEF Next, MainStep

\* What the normalisation writes, if it goes on and if it fails.
LEMMA NormalizeWrites ==
    ASSUME Inv, Normalize
    PROVE  LET s == [state EXCEPT !.rec = Normalized(@)] IN
             /\ pc \in {"normalize", "gaps"}
             /\ state' = Absent \/ state' = s
             /\ disk' = s \/ disk' = disk
<1> DEFINE s == [state EXCEPT !.rec = Normalized(@)]
           label == IF pc = "gaps" THEN "finish" ELSE "running"
<1>1. pc \in {"normalize", "gaps"}
  BY DEF Normalize
<1>2. \/ s = state /\ state' = state /\ disk' = disk
      \/ \E landed, raised \in BOOLEAN : MainPublish(s, landed, raised, label)
  BY DEF Normalize
<1> HIDE DEF s, label
<1>3. ASSUME NEW landed \in BOOLEAN, NEW raised \in BOOLEAN, MainPublish(s, landed, raised, label)
      PROVE  (state' = Absent \/ state' = s) /\ (disk' = s \/ disk' = disk)
  BY <1>3 DEF MainPublish, Publish, Gone
<1>4. (state' = Absent \/ state' = s) /\ (disk' = s \/ disk' = disk)
  BY <1>2, <1>3
<1> QED
  BY <1>1, <1>4 DEF s

\* What the status running writes.
LEMMA RunningWrites ==
    ASSUME Inv, Running
    PROVE  LET s == [state EXCEPT !.status = "running"] IN
             /\ s.rec = state.rec /\ s.status = "running"
             /\ state \in States
             /\ state' = Absent \/ state' = s
             /\ disk' = s \/ disk' = disk
<1> DEFINE s == [state EXCEPT !.status = "running"]
<1>1. state \in States
  BY InMemory DEF Running, Outside
<1>2. s.rec = state.rec /\ s.status = "running"
  BY <1>1 DEF States
<1>3. PICK landed \in BOOLEAN, raised \in BOOLEAN :
        /\ Publish(s, landed, raised)
        /\ \/ raised /\ Gone
           \/ /\ ~raised
              /\ state' = s
              /\ pc' = "list"
              /\ UNCHANGED <<flag, ids, resume, listed, pending, active, done, worker>>
  BY DEF Running
<1> HIDE DEF s
<1>4. (state' = Absent \/ state' = s) /\ (disk' = s \/ disk' = disk)
  BY <1>3 DEF Publish, Gone
<1> QED
  BY <1>1, <1>2, <1>4 DEF s

-----------------------------------------------------------------------------
(* The theorems.                                                           *)

\* The invariant holds in every state of the runner: every variable keeps its
\* type, an attempt number never passes max_attempts, and so on.
THEOREM Invariance == Spec => []Inv
<1>1. Init => Inv
  BY InitInv
<1>2. Inv /\ [Next]_vars => Inv'
  BY NextInv
<1> QED
  BY <1>1, <1>2, PTL DEF Spec

\* The type of the variables; in particular attempt numbers stay between 0 and
\* max_attempts in memory and in batch_state.json, whatever _update writes.
THEOREM Types == Spec => []TypeOK
<1>1. Inv => TypeOK
  BY DEF Inv
<1> QED
  BY <1>1, Invariance, PTL

\* "Persist the attempt before any target-directory setup": whatever fails, dies
\* or is resumed, the pipeline of a target has run at most as often as
\* batch_state.json says, and once more for every interrupt (_run_target).
THEOREM AttemptsCounted == Spec => []AttemptsAccounted
<1>1. Inv => AttemptsAccounted
  <2>1. ASSUME Inv, Recorded(disk), NEW t \in Targets
        PROVE  executions[t] <= disk.rec[t].attempt + signals
    <3>1. disk \in States
      BY <2>1, RecordedType DEF Inv, TypeOK
    <3> QED
      BY <2>1, <3>1, WithoutDebts
  <2> QED
    BY <2>1 DEF AttemptsAccounted
<1> QED
  BY <1>1, Invariance, PTL

\* A batch that nobody interrupted ends only when no target may run again: the
\* loop of run forgets nobody.
THEOREM NobodyForgotten == Spec => []NothingLeftToRetry
<1>1. Inv => NothingLeftToRetry
  BY DEF Inv, Coverage, NothingLeftToRetry
<1> QED
  BY <1>1, Invariance, PTL

\* A late completion never overwrites the interruption of its target (_update).
THEOREM InterruptionStays == Spec => InterruptSticky
<1> DEFINE A == \A t \in ids :
                  state # Absent /\ state' # Absent /\ state.rec[t].state = "interrupted"
                     => state'.rec[t].state = "interrupted"
<1>1. ASSUME Inv, [Next]_vars
      PROVE  A
  <2> SUFFICES ASSUME NEW t \in ids, state # Absent, state' # Absent,
                      state.rec[t].state = "interrupted"
               PROVE  state'.rec[t].state = "interrupted"
    OBVIOUS
  <2>1. t \in Targets /\ pc \notin Outside /\ state \in States
    BY <1>1, InMemory DEF Inv, TypeOK, Documented
  <2>2. CASE state' = state
    BY <2>2
  <2>3. CASE CreateState \/ Edit
    BY <2>1, <2>3 DEF CreateState, Edit, Outside
  <2>4. CASE Normalize
    <3>1. state' = [state EXCEPT !.rec = Normalized(@)]
      BY <2>4, <1>1, NormalizeWrites
    <3>2. state'.rec = Normalized(state.rec)
      BY <3>1, <2>1, NormalizedEffect
    <3>3. Normalized(state.rec)[t] = state.rec[t] \/ state.rec[t].state = "completed"
      BY <2>1, NormalizedEffect
    <3> QED
      BY <3>2, <3>3
  <2>5. CASE Running
    BY <2>5, <1>1, RunningWrites
  <2>6. CASE Mark
    BY <2>1, <2>6, <1>1, MarkEffect
  <2>7. CASE Finish
    BY <2>7 DEF Finish, Gone
  <2>8. ASSUME NEW u \in Targets, Update(u)
        PROVE  state'.rec[t].state = "interrupted"
    <3>1. /\ held.by = u /\ held.by # NoTarget /\ state'.rec[u] = held.rec
          /\ \A v \in Targets \ {u} : state'.rec[v] = state.rec[v]
      BY <2>8, <1>1, UpdateEffect
    <3>2. u = t => held.rec.state = "interrupted"
      BY <3>1, <1>1 DEF Inv, Holding
    <3> QED
      BY <3>1, <3>2, <2>1
  <2> QED
    BY <2>2, <2>3, <2>4, <2>5, <2>6, <2>7, <2>8, <1>1, Writers
<1> QED
  BY <1>1, Invariance, PTL DEF Spec, InterruptSticky

\* A batch nobody interrupted is recorded as finished only when every target it
\* lists as completed has a directory with a completed run, and as completed only
\* when every target is (run, _eligible, _normalize_completed_gaps).
THEOREM FinishedIsBacked == Spec => CompletedIsBacked
<1> DEFINE A == disk'.status # disk.status
                  /\ disk'.status \in {"completed", "completed_with_gaps",
                                       "completed_with_failures"} =>
                    /\ \A t \in Targets : disk'.rec[t].state = "completed" => dir[t] = "completed"
                    /\ disk'.status = "completed" =>
                         \A t \in Targets : disk'.rec[t].state = "completed"
<1>1. ASSUME Inv, [Next]_vars
      PROVE  A
  <2> SUFFICES ASSUME disk'.status # disk.status,
                      disk'.status \in {"completed", "completed_with_gaps",
                                        "completed_with_failures"}
               PROVE  /\ \A t \in Targets : disk'.rec[t].state = "completed" => dir[t] = "completed"
                      /\ disk'.status = "completed" =>
                           \A t \in Targets : disk'.rec[t].state = "completed"
    OBVIOUS
  <2>1. disk' # disk
    OBVIOUS
  <2>2. CASE CreateState \/ Edit
    <3>1. disk' = InitialState \/ disk' = Malformed \/ disk' = disk
      BY <2>2 DEF CreateState, Edit, MainPublish, Publish
    <3> QED
      BY <2>1, <3>1, InitialType DEF Malformed
  <2>3. CASE Normalize
    <3>1. pc \in {"normalize", "gaps"} /\ disk' = [state EXCEPT !.rec = Normalized(@)]
      BY <2>1, <2>3, <1>1, NormalizeWrites
    <3>2. state \in States
      BY <3>1, <1>1, InMemory DEF Outside
    <3>3. disk'.status = state.status
      BY <3>1, <3>2, NormalizedEffect
    <3>4. state = disk \/ state.status = "running"
      BY <3>1, <1>1 DEF Inv, Documented, Before
    <3> QED
      BY <3>3, <3>4
  <2>4. CASE Running
    BY <2>1, <2>4, <1>1, RunningWrites
  <2>5. CASE Mark
    BY <2>1, <2>5, <1>1, MarkEffect DEF Inv, Documented
  <2>6. ASSUME NEW u \in Targets, Update(u) PROVE FALSE
    <3>1. wpc[u] \in UpdateSteps /\ state'.status = state.status /\ (disk' = state' \/ disk' = disk)
      BY <2>6, <1>1, UpdateEffect
    <3>2. pc \notin Before
      BY <3>1, <1>1, AtWork DEF UpdateSteps
    <3>3. state.status = "running"
      BY <3>2, <1>1 DEF Inv, Documented
    <3> QED
      BY <2>1, <3>1, <3>3
  <2>7. CASE Finish
    <3>1. /\ pc = "finish" /\ disk'.rec = state.rec /\ disk'.status = FinalStatus
      BY <2>1, <2>7, <1>1, FinishEffect
    <3>2. ~flag /\ (FinalStatus = "completed" =>
                      \A t \in Targets : state.rec[t].state = "completed")
      BY <3>1, FinalStatusEffect
    <3>3. ASSUME NEW t \in Targets, state.rec[t].state = "completed" PROVE dir[t] = "completed"
      <4>1. ~Eligible(t)
        BY <3>1, <3>2, <1>1 DEF Inv, Coverage
      <4>2. state.rec[t].attempt >= MaxAttempts => dir[t] = "completed"
        BY <3>1, <3>3, <1>1 DEF Inv, Coverage
      <4>3. state.rec[t].attempt \in Nat /\ MaxAttempts \in Nat
        BY <3>1, <1>1, InMemory, RecordType DEF Outside
      <4> QED
        BY <4>1, <4>2, <4>3, <3>3 DEF Eligible, ArtifactsReusable
    <3> QED
      BY <3>1, <3>2, <3>3
  <2> QED
    BY <2>1, <2>2, <2>3, <2>4, <2>5, <2>6, <2>7, <1>1, Writers
<1> QED
  BY <1>1, Invariance, PTL DEF Spec, CompletedIsBacked

\* A resumed batch leaves the record of a settled target as it is, also when the
\* publications of other targets rewrite the file (_eligible, _mark_interrupted,
\* _update).
THEOREM SettledStays == Spec => SettledKept
<1> DEFINE A == \A t \in Targets :
                  (/\ Recorded(disk) /\ Recorded(disk') /\ pc # "load"
                   /\ Settled(t) /\ Known(t) /\ wpc[t] # "fail" /\ t \notin ids)
                     => disk'.rec[t] = disk.rec[t]
<1>1. ASSUME Inv, [Next]_vars
      PROVE  A
  <2> SUFFICES ASSUME NEW t \in Targets, Recorded(disk'), pc # "load",
                      Settled(t), Known(t), wpc[t] # "fail", t \notin ids
               PROVE  disk'.rec[t] = disk.rec[t]
    OBVIOUS
  <2>1. CASE disk' = disk
    BY <2>1
  <2>2. CASE CreateState \/ Edit
    <3>1. Edit
      BY <2>2 DEF CreateState
    <3>2. disk' = disk \/ disk' = Malformed
      BY <3>1 DEF Edit
    <3> QED
      BY <3>2 DEF Recorded
  <2>3. CASE pc \in Outside
    <3>1. ~Mark /\ ~Normalize /\ ~Running /\ ~Finish
      BY <2>3 DEF Mark, Normalize, Running, Finish, Outside
    <3>2. \A u \in Targets : ~Update(u)
      BY <2>3, <1>1, UpdateEffect, AtWork DEF UpdateSteps
    <3> QED
      BY <2>1, <2>2, <3>1, <3>2, <1>1, Writers
  <2>4. CASE pc \notin Outside
    <3>1. state \in States /\ state # Absent /\ state.rec[t] = disk.rec[t]
      BY <2>4, <1>1, InMemory, DocumentType DEF Known
    <3>2. SettledInMemory(t)
      BY <3>1 DEF Settled, SettledInMemory
    <3>3. CASE Normalize /\ disk' # disk
      <4>1. disk' = [state EXCEPT !.rec = Normalized(@)]
        BY <3>3, <1>1, NormalizeWrites
      <4>2. disk'.rec = Normalized(state.rec)
        BY <4>1, <3>1, NormalizedEffect
      <4>3. \/ Normalized(state.rec)[t] = state.rec[t]
            \/ state.rec[t].state = "completed" /\ dir[t] # "completed"
        BY <3>1, NormalizedEffect
      <4> QED
        BY <4>2, <4>3, <3>1, <3>2 DEF SettledInMemory
    <3>4. CASE Running
      BY <3>1, <3>4, <1>1, RunningWrites
    <3>5. CASE Finish
      BY <3>1, <3>5, <1>1, FinishEffect
    <3>6. CASE Mark
      <4>1. t \notin ToMark
        BY <3>2 DEF ToMark, SettledInMemory, Unsettled
      <4> QED
        BY <4>1, <3>1, <3>6, <1>1, MarkEffect
    <3>7. ASSUME NEW u \in Targets, Update(u) PROVE disk'.rec[t] = disk.rec[t]
      <4>1. /\ wpc[u] \in UpdateSteps /\ (disk' = state' \/ disk' = disk)
            /\ \A v \in Targets \ {u} : state'.rec[v] = state.rec[v]
        BY <3>7, <1>1, UpdateEffect
      <4>2. u # t
        BY <4>1, <3>2, <1>1 DEF Inv, Wanted, Fresh, SettledInMemory, UpdateSteps
      <4> QED
        BY <4>1, <4>2, <3>1
    <3> QED
      BY <2>1, <2>2, <3>3, <3>4, <3>5, <3>6, <3>7, <1>1, Writers
  <2> QED
    BY <2>3, <2>4
<1> QED
  BY <1>1, Invariance, PTL DEF Spec, SettledKept
=============================================================================
