--------------------- MODULE AggregatePublicationProofs ---------------------
(***************************************************************************)
(* For any processes, files and formats, and any number of aggregations,   *)
(* crashes and edits: the pointer never precedes its view, what returns    *)
(* leaves a view of its own, foreign files survive, and refusals of an     *)
(* unedited root are explained.                                            *)
(***************************************************************************)
EXTENDS AggregatePublication, TLAPS, NaturalsInduction, WellFoundedInduction

Holding == {"recover", "check", "stage", "write", "point", "own", "return"}

\* What the current generation publishes.
Current == gens[pointer].out

\* Every file of the view is of a format that has it.
Named == \A n \in Names : view[n] \in Outputs => n \in NamesOf(view[n])

\* A repair is of files of the current generation.
Repairing(p) ==
    pc[p] = "recover" => /\ todo[p] # {} => pointer # 0
                         /\ pointer # 0 => todo[p] \subseteq NamesOf(Current)

\* What is about to be replaced was not written by anybody else.
Checked(p) == pc[p] \in {"stage", "write"} => \A n \in NamesOf(output[p]) : view[n] # Alien

\* The last generation is the one being published, and what is not to be written
\* any more is in the view.
Written(p) ==
    /\ pc[p] \in {"write", "point", "own"} => gens # <<>> /\ gens[Len(gens)].out = output[p]
    /\ pc[p] = "write" => todo[p] # {} /\ todo[p] \subseteq NamesOf(output[p])
    /\ pc[p] \in {"write", "point", "own", "return"} =>
         \A n \in NamesOf(output[p]) :
            view[n] = output[p] \/ (pc[p] = "write" /\ n \in todo[p])

\* An unedited root: the marker follows the pointer, generations stay as they are,
\* and the files of the current one are files of aggregations.
Unedited ==
    /\ owner # "foreign"
    /\ owner = "ours" => pointer # 0
    /\ \A i \in DOMAIN gens : gens[i].state = "intact"
    /\ pointer # 0 => \A n \in NamesOf(Current) : view[n] \in Outputs

\* In it a repair that is through left the current generation, and what is being
\* published leaves no file of the current generation behind.
Succeeding(p) ==
    /\ pc[p] \in {"recover", "check"} /\ pointer # 0 =>
         \A n \in NamesOf(Current) : view[n] = Current \/ n \in todo[p]
    /\ pc[p] \in {"stage", "write", "point"} /\ pointer # 0 =>
         NamesOf(Current) \subseteq NamesOf(output[p])
    /\ pc[p] \in {"own", "return"} => pointer # 0

\* In it a refusal stays explained: while the marker is missing, whoever publishes
\* has another format.
Explained(p) ==
    pc[p] = "refused" =>
        \/ \E n \in Names : view[n] = Alien
        \/ \E i \in DOMAIN gens : gens[i].out.format # output[p].format
        \/ todo[p] # {}
        \/ /\ owner = "absent"
           /\ pointer # 0 \/ Present(NamesOf(output[p])) # {}
           /\ \A q \in Procs : pc[q] \in {"stage", "write", "point", "own"} =>
                output[q].format # output[p].format

\* What holds of a process at any time, and of an unedited root.
Publishing(p) ==
    /\ pc[p] \in Holding => lock = p
    /\ Repairing(p) /\ Checked(p) /\ Written(p)

Inv ==
    /\ TypeOK
    /\ Named
    /\ \A p \in Procs : Publishing(p)
    /\ edits = 0 => Unedited /\ \A p \in Procs : Succeeding(p) /\ Explained(p)

-----------------------------------------------------------------------------
(* Facts about the operators of the model.                                 *)

\* The smallest of some names is one of them.
LEMMA LeastIn ==
    ASSUME NEW S, S \subseteq Names, S # {}
    PROVE  Least(S) \in S
<1> DEFINE R == OpToRel(<, Nat)
<1>1. IsWellFoundedOn(R, Nat)
  BY NatLessThanWellFounded
<1> HIDE DEF R
<1>2. S \subseteq Nat
  BY FilesAssumption
<1>3. PICK m \in S : \A n \in S : ~(<<n, m>> \in R)
  BY <1>1, <1>2, WFMin
<1>4. ASSUME NEW n \in S
      PROVE  m <= n
  <2>1. <<n, m>> \in R <=> n < m
    BY <1>2 DEF R, OpToRel
  <2>2. QED
    BY <1>2, <1>3, <2>1
<1>5. QED
  BY <1>4 DEF Least

\* The files of an output are names of the view, and any two share one.
LEMMA OutputNames ==
    ASSUME NEW o \in Outputs
    PROVE  /\ NamesOf(o) \subseteq Names
           /\ o.format \in Formats
           /\ \A c \in Outputs : NamesOf(o) \cap NamesOf(c) # {}
           /\ \A c \in Outputs : o.format = c.format => NamesOf(o) = NamesOf(c)
           /\ o # NoFile /\ o # Alien
  BY FilesAssumption, ValuesAssumption DEF NamesOf, Outputs

\* The current generation publishes an output.
LEMMA CurrentIn ==
    ASSUME TypeOK, pointer # 0
    PROVE  pointer \in 1..Len(gens) /\ Current \in Outputs
<1>1. gens \in Seq(Generations) /\ pointer \in 1..Len(gens)
  BY DEF TypeOK
<1>2. gens[pointer] \in Generations
  BY <1>1
<1>3. QED
  BY <1>1, <1>2 DEF Current, Generations

\* Only one process is at work.
LEMMA Alone ==
    ASSUME Inv, NEW p \in Procs, NEW q \in Procs, pc[p] \in Holding, pc[q] \in Holding
    PROVE  p = q
  BY DEF Inv, Publishing

\* The others have nothing to keep while one process is at work.
LEMMA Outsider ==
    ASSUME Inv, NEW p \in Procs, NEW q \in Procs \ {p}, pc[p] \in Holding, pc'[q] = pc[q]
    PROVE  Publishing(q)' /\ Succeeding(q)'
<1>1. pc'[q] \notin Holding
  BY Alone
<1>2. QED
  BY <1>1 DEF Publishing, Repairing, Checked, Written, Succeeding, Holding

\* A process keeps what it has while nothing of it and of the root changes.
LEMMA Frame ==
    ASSUME NEW q \in Procs, pc'[q] = pc[q], output'[q] = output[q], todo'[q] = todo[q],
           UNCHANGED <<view, gens, pointer, lock>>
    PROVE  /\ Publishing(q) => Publishing(q)'
           /\ Succeeding(q) => Succeeding(q)'
<1>1. Current' = Current
  BY DEF Current
<1>2. QED
  BY <1>1 DEF Publishing, Repairing, Checked, Written, Succeeding

\* A refusal stays explained while nothing is removed and nobody new publishes.
LEMMA ExplainedKept ==
    ASSUME NEW q \in Procs, Explained(q), output \in [Procs -> Outputs],
           pc'[q] = pc[q], output'[q] = output[q], todo'[q] = todo[q],
           \A n \in Names : view[n] = Alien => view'[n] = Alien,
           \A n \in Names : view[n] # NoFile => view'[n] # NoFile,
           \A i \in DOMAIN gens : i \in DOMAIN gens' /\ gens'[i].out = gens[i].out,
           pointer # 0 => pointer' # 0, owner' = owner,
           \A r \in Procs : pc'[r] \in {"stage", "write", "point", "own"} =>
             pc[r] \in {"stage", "write", "point", "own"} /\ output'[r] = output[r]
    PROVE  Explained(q)'
<1> SUFFICES ASSUME pc[q] = "refused"
             PROVE  Explained(q)'
  BY DEF Explained
<1>1. CASE \E n \in Names : view[n] = Alien
  BY <1>1 DEF Explained
<1>2. CASE \E i \in DOMAIN gens : gens[i].out.format # output[q].format
  BY <1>2 DEF Explained
<1>3. CASE todo[q] # {}
  BY <1>3 DEF Explained
<1>4. CASE /\ owner = "absent"
           /\ pointer # 0 \/ Present(NamesOf(output[q])) # {}
           /\ \A r \in Procs : pc[r] \in {"stage", "write", "point", "own"} =>
                output[r].format # output[q].format
  <2>1. Present(NamesOf(output[q])) # {} => (Present(NamesOf(output[q])) # {})'
    <3>1. NamesOf(output[q]) \subseteq Names /\ NamesOf(output'[q]) = NamesOf(output[q])
      BY OutputNames
    <3>2. QED
      BY <3>1 DEF Present
  <2>2. QED
    BY <1>4, <2>1 DEF Explained
<1>5. QED
  BY <1>1, <1>2, <1>3, <1>4 DEF Explained

-----------------------------------------------------------------------------
(* Outside of the lock.                                                    *)

\* aggregate reads the targets.
LEMMA StartKeeps ==
    ASSUME Inv, NEW p \in Procs, NEW f \in Formats, Start(p, f)
    PROVE  Inv'
<1>1. /\ pc' = [pc EXCEPT ![p] = "lock"]
      /\ output' = [output EXCEPT ![p] = [format |-> f, version |-> version]]
      /\ runs' = runs + 1
      /\ UNCHANGED <<view, gens, pointer, owner, lock, todo, version, faults, edits>>
  BY DEF Start, Goto
<1>2. [format |-> f, version |-> version] \in Outputs
  BY DEF Inv, TypeOK, Outputs
<1>3. TypeOK'
  BY <1>1, <1>2 DEF Inv, TypeOK
<1>4. /\ pc'[p] = "lock"
      /\ \A q \in Procs \ {p} : pc'[q] = pc[q] /\ output'[q] = output[q]
  BY <1>1 DEF Inv, TypeOK
<1>5. Named' /\ (edits' = 0 => Unedited')
  BY <1>1 DEF Inv, Named, Unedited, Current
<1>6. /\ Publishing(p)'
      /\ Succeeding(p)' /\ Explained(p)'
  BY <1>4 DEF Publishing, Repairing, Checked, Written, Succeeding, Explained, Holding
<1>7. ASSUME NEW q \in Procs \ {p}
      PROVE  Publishing(q)' /\ (edits' = 0 => Succeeding(q)' /\ Explained(q)')
  <2>1. Publishing(q)' /\ (edits' = 0 => Succeeding(q)')
    BY <1>1, <1>4, Frame DEF Inv
  <2>2. ASSUME edits' = 0
        PROVE  Explained(q)'
    <3>1. Explained(q) /\ output \in [Procs -> Outputs]
      BY <1>1, <2>2 DEF Inv, TypeOK
    <3>2. QED
      BY <1>1, <1>4, <3>1, ExplainedKept
  <2>3. QED
    BY <2>1, <2>2
<1>8. QED
  BY <1>3, <1>5, <1>6, <1>7 DEF Inv

\* The lock is free when it is taken, and what is to be repaired is of the
\* current generation.
LEMMA AcquireKeeps ==
    ASSUME Inv, NEW p \in Procs, Acquire(p)
    PROVE  Inv'
<1>1. /\ pc[p] = "lock" /\ lock = NoProc /\ lock' = p
      /\ pc' = [pc EXCEPT ![p] = "recover"]
      /\ todo' = [todo EXCEPT ![p] = Unrepaired]
      /\ UNCHANGED <<view, gens, pointer, owner, output, version, runs, faults, edits>>
  BY DEF Acquire, Goto, bounds
<1>2. /\ Unrepaired \subseteq Names
      /\ Unrepaired # {} => pointer # 0
      /\ pointer # 0 => Unrepaired \subseteq NamesOf(Current)
      /\ pointer # 0 /\ gens[pointer].state = "intact" =>
           \A n \in NamesOf(Current) : view[n] = Current \/ n \in Unrepaired
  BY CurrentIn, OutputNames DEF Inv, Unrepaired, Current
<1>3. TypeOK'
  BY <1>1, <1>2 DEF Inv, TypeOK
<1>4. /\ pc'[p] = "recover" /\ todo'[p] = Unrepaired
      /\ \A q \in Procs \ {p} : pc'[q] = pc[q] /\ todo'[q] = todo[q]
  BY <1>1 DEF Inv, TypeOK
<1>5. Named' /\ (edits' = 0 => Unedited') /\ Current' = Current
  BY <1>1 DEF Inv, Named, Unedited, Current
<1>6. Publishing(p)'
  BY <1>1, <1>2, <1>4, <1>5 DEF Publishing, Repairing, Checked, Written
<1>7. edits' = 0 => Succeeding(p)' /\ Explained(p)'
  <2>1. edits' = 0 /\ pointer # 0 => gens[pointer].state = "intact"
    BY <1>1, CurrentIn DEF Inv, TypeOK, Unedited
  <2>2. QED
    BY <1>1, <1>2, <1>4, <1>5, <2>1 DEF Succeeding, Explained
<1>8. ASSUME NEW q \in Procs \ {p}
      PROVE  Publishing(q)' /\ (edits' = 0 => Succeeding(q)' /\ Explained(q)')
  <2>1. pc'[q] \notin Holding
    BY <1>1, <1>4, ValuesAssumption DEF Inv, Publishing
  <2>2. Publishing(q)' /\ Succeeding(q)'
    BY <2>1 DEF Publishing, Repairing, Checked, Written, Succeeding, Holding
  <2>3. ASSUME edits' = 0
        PROVE  Explained(q)'
    <3>1. Explained(q) /\ output \in [Procs -> Outputs]
      BY <1>1, <2>3 DEF Inv, TypeOK
    <3>2. QED
      BY <1>1, <1>4, <3>1, ExplainedKept
  <2>4. QED
    BY <2>2, <2>3
<1>9. QED
  BY <1>3, <1>5, <1>6, <1>7, <1>8 DEF Inv

\* A crash or an error leaves the lock.
LEMMA AbortKeeps ==
    ASSUME Inv, NEW p \in Procs, Abort(p)
    PROVE  Inv'
<1>1. /\ pc[p] \in Holding
      /\ pc' = [pc EXCEPT ![p] = "failed"] /\ lock' = NoProc /\ faults' = faults + 1
      /\ UNCHANGED <<view, gens, pointer, owner, output, todo, version, runs, edits>>
  BY DEF Abort, Leave, Goto, Inv, TypeOK, Holding
<1>2. TypeOK'
  BY <1>1 DEF Inv, TypeOK
<1>3. pc'[p] = "failed" /\ \A q \in Procs \ {p} : pc'[q] = pc[q]
  BY <1>1 DEF Inv, TypeOK
<1>4. Named' /\ (edits' = 0 => Unedited')
  BY <1>1 DEF Inv, Named, Unedited, Current
<1>5. Publishing(p)' /\ Succeeding(p)' /\ Explained(p)'
  BY <1>3 DEF Publishing, Repairing, Checked, Written, Succeeding, Explained, Holding
<1>6. ASSUME NEW q \in Procs \ {p}, edits' = 0
      PROVE  Explained(q)'
  <2>1. Explained(q) /\ output \in [Procs -> Outputs]
    BY <1>1, <1>6 DEF Inv, TypeOK
  <2>2. QED
    BY <1>1, <1>3, <2>1, ExplainedKept
<1>7. QED
  BY <1>1, <1>2, <1>3, <1>4, <1>5, <1>6, Outsider DEF Inv

\* The batch goes on, whoever aggregates.
LEMMA ProgressKeeps ==
    ASSUME Inv, Progress
    PROVE  Inv'
<1>1. /\ version' \in 0..MaxVersions
      /\ UNCHANGED <<view, gens, pointer, owner, lock, pc, output, todo, runs, faults, edits>>
  BY BoundsAssumption DEF Inv, TypeOK, Progress, local, bounds
<1>2. TypeOK' /\ Named' /\ (edits' = 0 => Unedited')
  BY <1>1 DEF Inv, TypeOK, Named, Unedited, Current
<1>3. ASSUME NEW q \in Procs
      PROVE  Publishing(q)' /\ (edits' = 0 => Succeeding(q)' /\ Explained(q)')
  BY <1>1, Frame DEF Inv, Explained, Present
<1>4. QED
  BY <1>2, <1>3 DEF Inv

\* Somebody edits the root while nobody is at work.
LEMMA EditKeeps ==
    ASSUME Inv, Edit
    PROVE  Inv'
<1>1. /\ lock = NoProc /\ edits' = edits + 1
      /\ UNCHANGED <<lock, pc, output, todo, version, runs, faults>>
  BY DEF Edit, local
<1>2. /\ view' \in [Names -> Outputs \cup {NoFile, Alien}]
      /\ \A n \in Names : view'[n] \in {view[n], NoFile, Alien}
  BY DEF Edit, Inv, TypeOK
<1>3. gens' \in Seq(Generations) /\ Len(gens') = Len(gens)
  <2>1. CASE gens' = gens
    BY <2>1 DEF Inv, TypeOK
  <2>2. ASSUME NEW s \in {"damaged", "lost"}, pointer # 0, gens' = [gens EXCEPT ![pointer].state = s]
        PROVE  gens' \in Seq(Generations) /\ Len(gens') = Len(gens)
    <3>1. gens \in Seq(Generations) /\ pointer \in 1..Len(gens)
      BY <2>2, CurrentIn DEF Inv, TypeOK
    <3>2. gens[pointer] \in Generations
      BY <3>1
    <3>3. [gens[pointer] EXCEPT !.state = s] \in Generations
      BY <3>2 DEF Generations
    <3>4. gens' = [gens EXCEPT ![pointer] = [gens[pointer] EXCEPT !.state = s]]
      BY <2>2
    <3>5. QED
      BY <3>1, <3>3, <3>4
  <2>3. QED
    BY <2>1, <2>2 DEF Edit
<1>4. pointer' \in 0..Len(gens') /\ owner' \in {"absent", "ours", "foreign"}
  BY <1>3 DEF Edit, Inv, TypeOK
<1>5. TypeOK'
  BY <1>1, <1>2, <1>3, <1>4 DEF Inv, TypeOK
<1>6. Named'
  BY <1>2, OutputNames DEF Inv, Named
<1>7. ASSUME NEW q \in Procs
      PROVE  Publishing(q)'
  <2>1. pc'[q] \notin Holding
    BY <1>1, ValuesAssumption DEF Inv, Publishing
  <2>2. QED
    BY <2>1 DEF Publishing, Repairing, Checked, Written, Holding
<1>8. edits' # 0
  BY <1>1 DEF Inv, TypeOK
<1>9. QED
  BY <1>5, <1>6, <1>7, <1>8 DEF Inv

-----------------------------------------------------------------------------
(* Under the lock.                                                         *)

\* _recover_publication: a file of the current generation is put back, or the
\* repair is over.
LEMMA RecoverKeeps ==
    ASSUME Inv, NEW p \in Procs, Recover(p)
    PROVE  Inv'
<1>1. /\ pc[p] = "recover" /\ pc[p] \in Holding /\ lock = p
      /\ UNCHANGED <<gens, pointer, owner, lock, output, version, runs, edits>>
  BY DEF Recover, Holding, Inv, Publishing
<1>2. Current' = Current
  BY <1>1 DEF Current
<1>3. CASE \E n \in todo[p] : /\ view' = [view EXCEPT ![n] = gens[pointer].out]
                              /\ todo' = [todo EXCEPT ![p] = @ \ {n}]
                              /\ UNCHANGED <<pc, faults>>
  <2>1. PICK n \in todo[p] : /\ view' = [view EXCEPT ![n] = Current]
                             /\ todo' = [todo EXCEPT ![p] = todo[p] \ {n}]
                             /\ UNCHANGED <<pc, faults>>
    BY <1>3 DEF Current
  <2>2. pointer # 0 /\ n \in NamesOf(Current) /\ Current \in Outputs /\ n \in Names
    BY <1>1, CurrentIn, OutputNames DEF Inv, Publishing, Repairing
  <2>3. TypeOK'
    BY <1>1, <2>1, <2>2 DEF Inv, TypeOK
  <2>4. /\ view'[n] = Current /\ \A m \in Names \ {n} : view'[m] = view[m]
        /\ todo'[p] = todo[p] \ {n} /\ \A q \in Procs \ {p} : todo'[q] = todo[q]
    BY <2>1, <2>2 DEF Inv, TypeOK
  <2>5. Named'
    BY <2>2, <2>4 DEF Inv, Named
  <2>6. Publishing(p)'
    BY <1>1, <1>2, <2>1, <2>2, <2>4 DEF Inv, Publishing, Repairing, Checked, Written
  <2>7. ASSUME edits = 0
        PROVE  Unedited' /\ Succeeding(p)' /\ Explained(p)'
    <3>1. Unedited /\ Succeeding(p) /\ NamesOf(Current) \subseteq Names
      BY <2>2, <2>7, OutputNames DEF Inv
    <3>2. Unedited'
      BY <1>1, <1>2, <2>2, <2>4, <3>1 DEF Unedited
    <3>3. Succeeding(p)'
      BY <1>1, <1>2, <2>1, <2>4, <3>1 DEF Succeeding
    <3>4. QED
      BY <1>1, <2>1, <3>2, <3>3 DEF Explained
  <2>8. ASSUME NEW q \in Procs \ {p}, edits = 0
        PROVE  Explained(q)'
    <3>1. Explained(q) /\ output \in [Procs -> Outputs]
      BY <2>8 DEF Inv, TypeOK
    <3>2. view[n] \in Outputs
      BY <2>2, <2>8 DEF Inv, Unedited
    <3>3. /\ \A m \in Names : view[m] = Alien => view'[m] = Alien
          /\ \A m \in Names : view[m] # NoFile => view'[m] # NoFile
      BY <2>2, <2>4, <3>2, OutputNames
    <3>4. QED
      BY <1>1, <2>1, <2>4, <3>1, <3>3, ExplainedKept
  <2>9. QED
    BY <1>1, <2>1, <2>3, <2>5, <2>6, <2>7, <2>8, Outsider DEF Inv
<1>4. CASE pc' = [pc EXCEPT ![p] = "check"] /\ faults' \in Nat /\ UNCHANGED <<view, todo>>
  <2>1. TypeOK' /\ Named'
    BY <1>1, <1>4 DEF Inv, TypeOK, Named
  <2>2. pc'[p] = "check" /\ \A q \in Procs \ {p} : pc'[q] = pc[q]
    BY <1>4 DEF Inv, TypeOK
  <2>3. Publishing(p)'
    BY <1>1, <2>2 DEF Publishing, Repairing, Checked, Written
  <2>4. edits = 0 => Unedited' /\ Succeeding(p)' /\ Explained(p)'
    BY <1>1, <1>2, <1>4, <2>2 DEF Inv, Unedited, Succeeding, Explained
  <2>5. ASSUME NEW q \in Procs \ {p}, edits = 0
        PROVE  Explained(q)'
    <3>1. Explained(q) /\ output \in [Procs -> Outputs]
      BY <2>5 DEF Inv, TypeOK
    <3>2. QED
      BY <1>1, <1>4, <2>2, <3>1, ExplainedKept
  <2>6. QED
    BY <1>1, <2>1, <2>2, <2>3, <2>4, <2>5, Outsider DEF Inv
<1>5. QED
  BY <1>3, <1>4 DEF Recover, Goto, Inv, TypeOK

\* A publication that is not refused replaces no file of others, and in an
\* unedited root none of the current generation stays behind.
LEMMA NotRefused ==
    ASSUME Inv, NEW o \in Outputs, ~Refuses(o)
    PROVE  /\ \A n \in NamesOf(o) : view[n] # Alien
           /\ owner = "absent" => pointer = 0 /\ Present(NamesOf(o)) = {}
           /\ edits = 0 /\ pointer # 0 => NamesOf(Current) \subseteq NamesOf(o)
<1>1. owner \in {"absent", "ours"}
  BY DEF Refuses, Inv, TypeOK
<1>2. owner = "absent" => pointer = 0 /\ Present(NamesOf(o)) = {}
  BY DEF Refuses
<1>3. owner = "ours" /\ Present(NamesOf(o)) # {} =>
        pointer # 0 /\ ~Tampered(o) /\ ~LeftBehind(o)
  BY DEF Refuses
<1>4. \A n \in NamesOf(o) : view[n] # Alien
  <2> SUFFICES ASSUME NEW n \in NamesOf(o), view[n] = Alien
               PROVE  FALSE
    OBVIOUS
  <2>1. n \in Present(NamesOf(o))
    BY ValuesAssumption DEF Present
  <2>2. pointer # 0 /\ ~Tampered(o)
    BY <1>1, <1>2, <1>3, <2>1
  <2>3. Current \in Outputs
    BY <2>2, CurrentIn DEF Inv
  <2>4. QED
    BY <2>1, <2>2, <2>3, OutputNames DEF Tampered, Current
<1>5. ASSUME edits = 0, pointer # 0
      PROVE  NamesOf(Current) \subseteq NamesOf(o)
  <2>1. Current \in Outputs /\ \A n \in NamesOf(Current) : view[n] \in Outputs
    BY <1>5, CurrentIn DEF Inv, Unedited
  <2>2. \A n \in NamesOf(Current) : view[n] # NoFile
    BY <2>1, OutputNames
  <2>3. Present(NamesOf(o)) # {}
    BY <2>1, <2>2, OutputNames DEF Present
  <2>4. ~LeftBehind(o)
    BY <1>1, <1>2, <1>3, <1>5, <2>3
  <2>5. CASE Current.format = o.format
    BY <2>1, <2>5, OutputNames
  <2>6. CASE Current.format # o.format
    BY <2>2, <2>4, <2>6 DEF LeftBehind, Present, Current
  <2>7. QED
    BY <2>5, <2>6
<1>6. QED
  BY <1>2, <1>4, <1>5

\* A refusal of an unedited root is explained when it is made.
LEMMA RefusedExplained ==
    ASSUME Inv, NEW p \in Procs, pc[p] = "check", Refuses(output[p]), edits = 0
    PROVE  \/ \E n \in Names : view[n] = Alien
           \/ \E i \in DOMAIN gens : gens[i].out.format # output[p].format
           \/ todo[p] # {}
           \/ owner = "absent" /\ (pointer # 0 \/ Present(NamesOf(output[p])) # {})
<1> DEFINE o == output[p]
<1>1. o \in Outputs /\ Unedited /\ Succeeding(p)
  BY DEF Inv, TypeOK
<1> HIDE DEF o
<1>2. CASE owner = "absent"
  BY <1>2 DEF Refuses, o
<1>3. CASE owner # "absent"
  <2>1. /\ pointer # 0
        /\ gens[pointer].state = "lost" \/ Tampered(o) \/ LeftBehind(o)
    BY <1>1, <1>3 DEF Refuses, Unedited, o
  <2>2. pointer \in 1..Len(gens) /\ Current \in Outputs /\ gens \in Seq(Generations)
    BY <2>1, CurrentIn DEF Inv, TypeOK
  <2>3. gens[pointer].state = "intact" /\ pointer \in DOMAIN gens
    BY <1>1, <2>2 DEF Unedited
  <2>4. CASE Current.format # o.format
    BY <2>3, <2>4 DEF Current, o
  <2>5. CASE Current.format = o.format /\ todo[p] = {}
    <3>1. PICK n \in NamesOf(o) : /\ view[n] # NoFile /\ view[n] # o
                                  /\ n \in NamesOf(Current) => view[n] # Current
      BY <2>1, <2>3, <2>5 DEF Tampered, LeftBehind, Present, Current
    <3>2. n \in NamesOf(Current)
      BY <1>1, <2>2, <2>5, OutputNames
    <3>3. view[n] = Current
      BY <1>1, <2>1, <2>5, <3>2 DEF Succeeding
    <3>4. QED
      BY <3>1, <3>2, <3>3
  <2>6. QED
    BY <2>4, <2>5
<1>4. QED
  BY <1>2, <1>3

\* The tests before a publication.
LEMMA CheckKeeps ==
    ASSUME Inv, NEW p \in Procs, Check(p)
    PROVE  Inv'
<1>1. /\ pc[p] = "check" /\ pc[p] \in Holding /\ lock = p /\ output[p] \in Outputs
      /\ UNCHANGED <<view, gens, pointer, owner, output, todo, version, runs, faults, edits>>
  BY DEF Check, Holding, Inv, TypeOK, Publishing, bounds
<1>2. Current' = Current
  BY <1>1 DEF Current
<1>3. Named' /\ (edits' = 0 => Unedited')
  BY <1>1, <1>2 DEF Inv, Named, Unedited
<1>4. CASE Refuses(output[p]) /\ pc' = [pc EXCEPT ![p] = "refused"] /\ lock' = NoProc
  <2>1. TypeOK'
    BY <1>1, <1>4 DEF Inv, TypeOK
  <2>2. pc'[p] = "refused" /\ \A q \in Procs \ {p} : pc'[q] = pc[q]
    BY <1>4 DEF Inv, TypeOK
  <2>3. Publishing(p)' /\ Succeeding(p)'
    BY <2>2 DEF Publishing, Repairing, Checked, Written, Succeeding, Holding
  <2>4. ASSUME edits = 0
        PROVE  Explained(p)'
    <3>1. \A q \in Procs : pc'[q] \notin {"stage", "write", "point", "own"}
      BY <1>1, <2>2, Alone DEF Holding
    <3>2. Present(NamesOf(output[p]))' = Present(NamesOf(output[p]))
      BY <1>1 DEF Present
    <3>3. QED
      BY <1>1, <1>4, <2>4, <3>1, <3>2, RefusedExplained DEF Explained
  <2>5. ASSUME NEW q \in Procs \ {p}, edits = 0
        PROVE  Explained(q)'
    <3>1. Explained(q) /\ output \in [Procs -> Outputs]
      BY <2>5 DEF Inv, TypeOK
    <3>2. QED
      BY <1>1, <2>2, <3>1, ExplainedKept
  <2>6. QED
    BY <1>1, <1>3, <2>1, <2>2, <2>3, <2>4, <2>5, Outsider DEF Inv
<1>5. CASE ~Refuses(output[p]) /\ pc' = [pc EXCEPT ![p] = "stage"] /\ lock' = lock
  <2>1. TypeOK'
    BY <1>1, <1>5 DEF Inv, TypeOK
  <2>2. pc'[p] = "stage" /\ \A q \in Procs \ {p} : pc'[q] = pc[q]
    BY <1>5 DEF Inv, TypeOK
  <2>3. Publishing(p)'
    BY <1>1, <1>5, <2>2, NotRefused DEF Publishing, Repairing, Checked, Written
  <2>4. edits = 0 => Succeeding(p)' /\ Explained(p)'
    BY <1>1, <1>2, <1>5, <2>2, NotRefused DEF Succeeding, Explained
  <2>5. ASSUME NEW q \in Procs \ {p}, edits = 0
        PROVE  Explained(q)'
    <3>1. Explained(q) /\ output[q] \in Outputs
      BY <2>5 DEF Inv, TypeOK
    <3>2. Present(NamesOf(output[q]))' = Present(NamesOf(output[q]))
      BY <1>1 DEF Present
    <3>3. owner = "absent" /\ (pointer # 0 \/ Present(NamesOf(output[q])) # {})
            => output[p].format # output[q].format
      <4>1. output[p].format = output[q].format => NamesOf(output[p]) = NamesOf(output[q])
        BY <1>1, <3>1, OutputNames
      <4>2. QED
        BY <1>1, <1>5, <4>1, NotRefused
    <3>4. QED
      BY <1>1, <2>2, <3>1, <3>2, <3>3 DEF Explained
  <2>6. QED
    BY <1>1, <1>3, <2>1, <2>2, <2>3, <2>4, <2>5, Outsider DEF Inv
<1>6. QED
  BY <1>4, <1>5 DEF Check, Leave, Goto

\* A new generation directory leaves the older ones as they are.
LEMMA StageGenerationKeeps ==
    ASSUME Inv, NEW p \in Procs, StageGeneration(p)
    PROVE  Inv'
<1> DEFINE g == [out |-> output[p], state |-> "intact"]
<1>1. /\ pc[p] = "stage" /\ pc[p] \in Holding /\ lock = p /\ output[p] \in Outputs
      /\ gens' = Append(gens, g) /\ todo' = [todo EXCEPT ![p] = NamesOf(output[p])]
      /\ pc' = [pc EXCEPT ![p] = "write"]
      /\ UNCHANGED <<view, pointer, owner, lock, output, version, runs, faults, edits>>
  BY DEF StageGeneration, Goto, Holding, Inv, TypeOK, Publishing, bounds
<1>2. g \in Generations /\ g.out = output[p] /\ g.state = "intact" /\ gens \in Seq(Generations)
      /\ pointer \in 0..Len(gens)
  BY <1>1 DEF Generations, Inv, TypeOK
<1> HIDE DEF g
<1>3. /\ gens' \in Seq(Generations) /\ Len(gens') = Len(gens) + 1 /\ gens'[Len(gens')] = g
      /\ gens' # <<>> /\ pointer \in 0..Len(gens')
      /\ \A i \in DOMAIN gens : i \in DOMAIN gens' /\ gens'[i] = gens[i]
      /\ \A i \in DOMAIN gens' : i \in DOMAIN gens \/ gens'[i] = g
  BY <1>1, <1>2
<1>4. NamesOf(output[p]) \subseteq Names /\ NamesOf(output[p]) # {}
  BY <1>1, OutputNames
<1>5. TypeOK' /\ Named'
  BY <1>1, <1>3, <1>4 DEF Inv, TypeOK, Named
<1>6. /\ pc'[p] = "write" /\ todo'[p] = NamesOf(output[p])
      /\ \A q \in Procs \ {p} : pc'[q] = pc[q] /\ todo'[q] = todo[q]
  BY <1>1 DEF Inv, TypeOK
<1>7. pointer # 0 => pointer \in DOMAIN gens /\ Current' = Current
  BY <1>1, <1>2, <1>3 DEF Current
<1>8. Publishing(p)'
  BY <1>1, <1>2, <1>3, <1>4, <1>6 DEF Inv, Publishing, Repairing, Checked, Written
<1>9. edits = 0 => Unedited' /\ Succeeding(p)' /\ Explained(p)'
  BY <1>1, <1>2, <1>3, <1>6, <1>7 DEF Inv, Unedited, Succeeding, Explained
<1>10. ASSUME NEW q \in Procs \ {p}, edits = 0
       PROVE  Explained(q)'
  <2>1. Explained(q) /\ output \in [Procs -> Outputs]
    BY <1>10 DEF Inv, TypeOK
  <2>2. QED
    BY <1>1, <1>3, <1>6, <2>1, ExplainedKept
<1>11. QED
  BY <1>1, <1>5, <1>6, <1>8, <1>9, <1>10, Outsider DEF Inv

\* A file of the view is replaced.
LEMMA WriteKeeps ==
    ASSUME Inv, NEW p \in Procs, Write(p)
    PROVE  Inv'
<1> DEFINE n == Least(todo[p])
<1>1. /\ pc[p] = "write" /\ pc[p] \in Holding /\ lock = p /\ output[p] \in Outputs
      /\ view' = [view EXCEPT ![n] = output[p]]
      /\ todo' = [todo EXCEPT ![p] = todo[p] \ {n}]
      /\ pc' = [pc EXCEPT ![p] = IF todo[p] = {n} THEN "point" ELSE "write"]
      /\ UNCHANGED <<gens, pointer, owner, lock, output, version, runs, faults, edits>>
  BY DEF Write, AfterWrite, Goto, Holding, Inv, TypeOK, Publishing, bounds
<1>2. n \in todo[p] /\ n \in Names /\ n \in NamesOf(output[p])
  BY <1>1, LeastIn DEF Inv, TypeOK, Publishing, Written
<1> HIDE DEF n
<1>3. TypeOK'
  BY <1>1, <1>2 DEF Inv, TypeOK
<1>4. /\ view'[n] = output[p] /\ \A m \in Names \ {n} : view'[m] = view[m]
      /\ todo'[p] = todo[p] \ {n} /\ \A q \in Procs \ {p} : todo'[q] = todo[q] /\ pc'[q] = pc[q]
      /\ pc'[p] = IF todo[p] = {n} THEN "point" ELSE "write"
  BY <1>1, <1>2 DEF Inv, TypeOK
<1>5. Named'
  BY <1>2, <1>4 DEF Inv, Named
<1>6. NamesOf(output[p]) \subseteq Names /\ output[p] # Alien /\ output[p] # NoFile
  BY <1>1, OutputNames
<1>7. Publishing(p)'
  <2>1. Checked(p)' /\ Repairing(p)'
    BY <1>1, <1>4, <1>6 DEF Inv, Publishing, Checked, Repairing
  <2>2. Written(p)'
    BY <1>1, <1>2, <1>4, <1>6 DEF Inv, Publishing, Written
  <2>3. QED
    BY <1>1, <2>1, <2>2 DEF Publishing
<1>8. Current' = Current
  BY <1>1 DEF Current
<1>9. ASSUME edits = 0
      PROVE  Unedited' /\ Succeeding(p)' /\ Explained(p)'
  <2>1. Unedited /\ Succeeding(p)
    BY <1>9 DEF Inv
  <2>2. pointer # 0 => NamesOf(Current) \subseteq Names
    BY CurrentIn, OutputNames DEF Inv
  <2>3. QED
    BY <1>1, <1>4, <1>8, <2>1, <2>2 DEF Unedited, Succeeding, Explained
<1>10. ASSUME NEW q \in Procs \ {p}, edits = 0
       PROVE  Explained(q)'
  <2>1. Explained(q) /\ output \in [Procs -> Outputs]
    BY <1>10 DEF Inv, TypeOK
  <2>2. view[n] # Alien
    BY <1>1, <1>2 DEF Inv, Publishing, Checked
  <2>3. /\ \A m \in Names : view[m] = Alien => view'[m] = Alien
        /\ \A m \in Names : view[m] # NoFile => view'[m] # NoFile
    BY <1>4, <1>6, <2>2
  <2>4. QED
    BY <1>1, <1>4, <2>1, <2>3, ExplainedKept
<1>11. QED
  BY <1>1, <1>3, <1>4, <1>5, <1>7, <1>9, <1>10, Outsider DEF Inv

\* The pointer moves on to the generation whose view is there.
LEMMA PointKeeps ==
    ASSUME Inv, NEW p \in Procs, Point(p)
    PROVE  Inv'
<1>1. /\ pc[p] = "point" /\ pc[p] \in Holding /\ lock = p /\ output[p] \in Outputs
      /\ pc' = [pc EXCEPT ![p] = "own"] /\ pointer' = Len(gens)
      /\ UNCHANGED <<view, gens, owner, lock, output, todo, version, runs, faults, edits>>
  BY DEF Point, Goto, Holding, Inv, TypeOK, Publishing, bounds
<1>2. gens # <<>> /\ gens[Len(gens)].out = output[p]
      /\ \A m \in NamesOf(output[p]) : view[m] = output[p]
  BY <1>1 DEF Inv, Publishing, Written
<1>3. Len(gens) \in Nat \ {0}
  BY <1>2 DEF Inv, TypeOK
<1>4. TypeOK' /\ Named'
  BY <1>1, <1>3 DEF Inv, TypeOK, Named
<1>5. pc'[p] = "own" /\ \A q \in Procs \ {p} : pc'[q] = pc[q]
  BY <1>1 DEF Inv, TypeOK
<1>6. Publishing(p)'
  BY <1>1, <1>2, <1>5 DEF Publishing, Repairing, Checked, Written
<1>7. Current' = output[p]
  BY <1>1, <1>2 DEF Current
<1>8. edits = 0 => Unedited' /\ Succeeding(p)' /\ Explained(p)'
  BY <1>1, <1>2, <1>3, <1>5, <1>7 DEF Inv, Unedited, Succeeding, Explained
<1>9. ASSUME NEW q \in Procs \ {p}, edits = 0
      PROVE  Explained(q)'
  <2>1. Explained(q) /\ output \in [Procs -> Outputs]
    BY <1>9 DEF Inv, TypeOK
  <2>2. QED
    BY <1>1, <1>3, <1>5, <2>1, ExplainedKept
<1>10. QED
  BY <1>1, <1>4, <1>5, <1>6, <1>8, <1>9, Outsider DEF Inv

\* The marker: whoever was refused for want of it has another format.
LEMMA OwnKeeps ==
    ASSUME Inv, NEW p \in Procs, Own(p)
    PROVE  Inv'
<1>1. /\ pc[p] = "own" /\ pc[p] \in Holding /\ lock = p
      /\ pc' = [pc EXCEPT ![p] = "return"] /\ owner' = "ours"
      /\ UNCHANGED <<view, gens, pointer, lock, output, todo, version, runs, faults, edits>>
  BY DEF Own, Goto, Holding, Inv, Publishing, bounds
<1>2. TypeOK' /\ Named'
  BY <1>1 DEF Inv, TypeOK, Named
<1>3. pc'[p] = "return" /\ \A q \in Procs \ {p} : pc'[q] = pc[q]
  BY <1>1 DEF Inv, TypeOK
<1>4. Publishing(p)'
  BY <1>1, <1>3 DEF Inv, Publishing, Repairing, Checked, Written
<1>5. edits = 0 => Unedited' /\ Succeeding(p)' /\ Explained(p)'
  BY <1>1, <1>3 DEF Inv, Unedited, Succeeding, Explained, Current
<1>6. ASSUME NEW q \in Procs \ {p}, edits = 0
      PROVE  Explained(q)'
  <2>1. Explained(q)
    BY <1>6 DEF Inv
  <2>2. Len(gens) \in DOMAIN gens /\ gens[Len(gens)].out = output[p]
    BY <1>1 DEF Inv, TypeOK, Publishing, Written
  <2>3. QED
    BY <1>1, <1>3, <2>1, <2>2 DEF Explained
<1>7. QED
  BY <1>1, <1>2, <1>3, <1>4, <1>5, <1>6, Outsider DEF Inv

\* The lock is left.
LEMMA ReturnKeeps ==
    ASSUME Inv, NEW p \in Procs, Return(p)
    PROVE  Inv'
<1>1. /\ pc[p] \in Holding
      /\ pc' = [pc EXCEPT ![p] = "done"] /\ lock' = NoProc
      /\ UNCHANGED <<view, gens, pointer, owner, output, todo, version, runs, faults, edits>>
  BY DEF Return, Leave, Goto, Holding, bounds
<1>2. TypeOK' /\ Named' /\ (edits' = 0 => Unedited')
  BY <1>1 DEF Inv, TypeOK, Named, Unedited, Current
<1>3. pc'[p] = "done" /\ \A q \in Procs \ {p} : pc'[q] = pc[q]
  BY <1>1 DEF Inv, TypeOK
<1>4. Publishing(p)' /\ Succeeding(p)' /\ Explained(p)'
  BY <1>3 DEF Publishing, Repairing, Checked, Written, Succeeding, Explained, Holding
<1>5. ASSUME NEW q \in Procs \ {p}, edits = 0
      PROVE  Explained(q)'
  <2>1. Explained(q) /\ output \in [Procs -> Outputs]
    BY <1>5 DEF Inv, TypeOK
  <2>2. QED
    BY <1>1, <1>3, <2>1, ExplainedKept
<1>6. QED
  BY <1>1, <1>2, <1>3, <1>4, <1>5, Outsider DEF Inv

-----------------------------------------------------------------------------
(* The publication.                                                        *)

\* Nobody is at work at first, and no generation is there.
LEMMA InitInv ==
    ASSUME Init
    PROVE  Inv
<1>1. (CHOOSE o \in Outputs : TRUE) \in Outputs
  <2>1. PICK f \in Formats : TRUE
    BY FilesAssumption
  <2>2. [format |-> f, version |-> 0] \in Outputs
    BY BoundsAssumption DEF Outputs
  <2>3. QED
    BY <2>2
<1>2. output \in [Procs -> Outputs]
  BY <1>1 DEF Init
<1>3. gens \in Seq(Generations) /\ pointer \in 0..Len(gens) /\ DOMAIN gens = {}
  BY DEF Init
<1>4. TypeOK
  BY <1>2, <1>3, BoundsAssumption DEF Init, TypeOK
<1>5. Named
  BY ValuesAssumption DEF Init, Named
<1>6. ASSUME NEW p \in Procs
      PROVE  Publishing(p) /\ Succeeding(p) /\ Explained(p)
  BY DEF Init, Publishing, Repairing, Checked, Written, Succeeding, Explained, Holding
<1>7. Unedited
  BY <1>3 DEF Init, Unedited
<1>8. QED
  BY <1>4, <1>5, <1>6, <1>7 DEF Inv

\* The inductive invariant.
LEMMA Invariance == Spec => []Inv
<1>1. ASSUME Inv, Next
      PROVE  Inv'
  <2>1. ASSUME NEW p \in Procs, NEW f \in Formats, Start(p, f)
        PROVE  Inv'
    BY <1>1, <2>1, StartKeeps
  <2>2. ASSUME NEW p \in Procs, Step(p)
        PROVE  Inv'
    BY <1>1, <2>2, AcquireKeeps, RecoverKeeps, CheckKeeps, StageGenerationKeeps, WriteKeeps,
       PointKeeps, OwnKeeps, ReturnKeeps DEF Step
  <2>3. ASSUME NEW p \in Procs, Abort(p)
        PROVE  Inv'
    BY <1>1, <2>3, AbortKeeps
  <2>4. CASE Progress \/ Edit
    BY <1>1, <2>4, ProgressKeeps, EditKeeps
  <2>5. QED
    BY <1>1, <2>1, <2>2, <2>3, <2>4 DEF Next
<1>2. ASSUME Inv, UNCHANGED vars
      PROVE  Inv'
  <2>1. UNCHANGED <<view, gens, pointer, owner, lock, pc, output, todo, version, runs, faults, edits>>
    BY <1>2 DEF vars, local, bounds
  <2>2. TypeOK' /\ Named' /\ (edits' = 0 => Unedited')
    BY <1>2, <2>1 DEF Inv, TypeOK, Named, Unedited, Current
  <2>3. ASSUME NEW q \in Procs
        PROVE  Publishing(q)' /\ (edits' = 0 => Succeeding(q)' /\ Explained(q)')
    BY <1>2, <2>1, Frame DEF Inv, Explained, Present
  <2>4. QED
    BY <2>2, <2>3 DEF Inv
<1>3. QED
  BY <1>1, <1>2, InitInv, PTL DEF Spec

\* Every variable keeps its type; .aggregate-current.json points to a generation
\* that is there.
THEOREM Types == Spec => []TypeOK
  BY Invariance, PTL DEF Inv

\* _publish_outputs leaves a view of its own: every file of its format is the one
\* it made, whoever aggregated or crashed before.
THEOREM ReturnedViewIsOwn == Spec => []ViewIsOneGeneration
<1>1. Inv => ViewIsOneGeneration
  <2> SUFFICES ASSUME Inv, NEW p \in Procs, pc[p] = "return", NEW n \in Names,
                      n \in NamesOf(output[p]) \/
                        view[n] \in [format : {output[p].format}, version : 0..MaxVersions]
               PROVE  view[n] = output[p]
    BY DEF ViewIsOneGeneration
  <2>1. output[p] \in Outputs
    BY DEF Inv, TypeOK
  <2>2. n \in NamesOf(output[p])
    <3>1. CASE view[n] \in [format : {output[p].format}, version : 0..MaxVersions]
      <4>1. view[n] \in Outputs /\ view[n].format = output[p].format
        BY <2>1, <3>1 DEF Outputs
      <4>2. n \in NamesOf(view[n])
        BY <4>1 DEF Inv, Named
      <4>3. QED
        BY <2>1, <4>1, <4>2, OutputNames
    <3>2. QED
      BY <3>1
  <2>3. QED
    BY <2>2 DEF Inv, Publishing, Written
<1>2. QED
  BY <1>1, Invariance, PTL

\* An aggregation of a root that nobody edited is refused only for a file that was
\* there at first, a missing marker, another format or a repair that failed.
THEOREM RefusalsExplained == Spec => []RefusalsAreExplained
<1>1. Inv => RefusalsAreExplained
  BY DEF Inv, Explained, RefusalsAreExplained
<1>2. QED
  BY <1>1, Invariance, PTL

\* .aggregate-current.json moves on only to a generation whose files the view
\* shows already, and leaves no file of the one before beside them.
THEOREM PointerFollowsView == Spec => ViewBeforePointer
<1> DEFINE A == pointer' \notin {0, pointer} =>
                  /\ \A n \in NamesOf(gens[pointer'].out) : view[n] = gens[pointer'].out
                  /\ pointer # 0 /\ edits = 0 =>
                       NamesOf(gens[pointer].out) \subseteq NamesOf(gens[pointer'].out)
<1>1. ASSUME Inv, [Next]_vars
      PROVE  A
  <2>1. ASSUME NEW p \in Procs, Point(p)
        PROVE  A
    <3>1. /\ pointer' = Len(gens) /\ gens[Len(gens)].out = output[p]
          /\ \A n \in NamesOf(output[p]) : view[n] = output[p]
      BY <1>1, <2>1 DEF Point, Inv, Publishing, Written
    <3>2. pointer # 0 /\ edits = 0 => NamesOf(Current) \subseteq NamesOf(output[p])
      BY <1>1, <2>1 DEF Point, Inv, Succeeding
    <3>3. QED
      BY <3>1, <3>2 DEF Current
  <2>2. CASE pointer' \in {0, pointer}
    BY <2>2
  <2>3. CASE Next
    <3>1. (\E p \in Procs : Point(p)) \/ pointer' \in {0, pointer}
      BY <2>3 DEF Next, Start, Step, Acquire, Recover, Check, StageGeneration, Write, Own, Return,
           Abort, Progress, Edit
    <3>2. QED
      BY <2>1, <2>2, <3>1
  <2>4. QED
    BY <1>1, <2>2, <2>3 DEF vars
<1>2. QED
  BY <1>1, Invariance, PTL DEF Spec, ViewBeforePointer

\* While an aggregation is at work, a file that nobody here wrote is replaced only
\* under a name of the current generation, by _recover_publication.
THEOREM ForeignFilesSafe == Spec => NewFilesKept
<1> DEFINE A == \A n \in Names :
                  lock # NoProc /\ view[n] = Alien /\ view'[n] # Alien =>
                    pointer # 0 /\ n \in NamesOf(gens[pointer].out)
<1>1. ASSUME Inv, [Next]_vars
      PROVE  A
  <2>1. CASE UNCHANGED view
    BY <2>1
  <2>2. CASE lock = NoProc
    BY <2>2
  <2>3. ASSUME NEW p \in Procs, Recover(p), ~UNCHANGED view
        PROVE  A
    <3>1. PICK m \in todo[p] : view' = [view EXCEPT ![m] = gens[pointer].out]
      BY <2>3 DEF Recover
    <3>2. pointer # 0 /\ m \in NamesOf(gens[pointer].out)
      BY <1>1, <2>3, <3>1 DEF Recover, Inv, Publishing, Repairing, Current
    <3>3. QED
      BY <1>1, <3>1, <3>2 DEF Inv, TypeOK
  <2>4. ASSUME NEW p \in Procs, Write(p)
        PROVE  A
    <3>1. view' = [view EXCEPT ![Least(todo[p])] = output[p]] /\ pc[p] = "write"
      BY <2>4 DEF Write
    <3>2. Least(todo[p]) \in NamesOf(output[p])
      BY <1>1, <3>1, LeastIn DEF Inv, TypeOK, Publishing, Written
    <3>3. view[Least(todo[p])] # Alien
      BY <1>1, <3>1, <3>2 DEF Inv, Publishing, Checked
    <3>4. QED
      BY <1>1, <3>1, <3>3 DEF Inv, TypeOK
  <2>5. CASE Next
    <3>1. \/ UNCHANGED view \/ lock = NoProc
          \/ \E p \in Procs : Recover(p) \/ Write(p)
      BY <2>5 DEF Next, Start, Step, Acquire, Check, StageGeneration, Point, Own, Return,
           Abort, Progress, Edit
    <3>2. QED
      BY <2>1, <2>2, <2>3, <2>4, <3>1
  <2>6. QED
    BY <1>1, <2>1, <2>5 DEF vars
<1>2. QED
  BY <1>1, Invariance, PTL DEF Spec, NewFilesKept
=============================================================================
