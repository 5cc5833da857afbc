----------------------- MODULE QueryPublicationProofs -----------------------
(***************************************************************************)
(* For any number of failures and any renames by somebody else: at its end *)
(* a call of run_query has closed every descriptor it does not hand to its *)
(* caller, and has released the lock of the execution database; a call     *)
(* that returns has published the directory it made; and a call that       *)
(* raises leaves no generation under its normal name.                      *)
(*                                                                         *)
(* First, that every part of the rollback and of the recovery leaves the   *)
(* descriptors alone, and a release closes its own; then, which a step     *)
(* of the body may add to; then the finally, label by label.               *)
(*                                                                         *)
(* Then where the directories of a call are that can still return, one     *)
(* step after the other: where the call put them, or somebody else has     *)
(* renamed one and a later check finds it.                                 *)
(*                                                                         *)
(* Last what a rollback and a recovery must see fail before they leave a   *)
(* generation shown, and that each step after a failure still leads to     *)
(* them.                                                                   *)
(***************************************************************************)
EXTENDS QueryPublicationInvariants, TLAPS

\* The sequencing operators, without operators as arguments.
LEMMA FinallyStep ==
    ASSUME NEW label, NEW S, NEW next, Finally(label, S, next)
    PROVE  /\ pc = label /\ pc' = next /\ outcome' = outcome
           /\ \E v \in S : q' = Clear(v, {"err"})
  BY DEF Finally, Step

\* A part that raised leads to the finally.
LEMMA BodyStep ==
    ASSUME NEW label, NEW S, NEW next, Body(label, S, next), S \subseteq States
    PROVE  /\ pc = label /\ outcome' = outcome
           /\ \E v \in S :
                \/ ~Has(v, "err") /\ q' = Clear(v, {"err"}) /\ pc' = next
                \/ /\ Has(v, "err") /\ q' = Clear(Set(v, {"exitFailed"}), {"err"})
                   /\ pc' = "housekeeping"
  <1>1. PICK v \in {IF Has(w, "err") THEN Set(w, {"exitFailed"}) ELSE w : w \in S} :
            /\ q' = Clear(v, {"err"})
            /\ pc' = IF Has(v, "err") THEN "housekeeping" ELSE next
    BY DEF Body, Step
  <1>2. PICK u \in S : v = IF Has(u, "err") THEN Set(u, {"exitFailed"}) ELSE u
    BY <1>1
  <1>3. CASE Has(u, "err")
    BY <1>2, <1>3, <1>1 DEF Has, Set, States, Body, Step
  <1>4. CASE ~Has(u, "err")
    BY <1>2, <1>4, <1>1 DEF Body, Step
  <1> QED BY <1>3, <1>4

\* Setting and clearing flags touches nothing else.
LEMMA Flagged ==
    ASSUME NEW w \in States, NEW fs \in SUBSET Flags
    PROVE  /\ Set(w, fs) \in States /\ Clear(w, fs) \in States
           /\ Set(w, fs).set = w.set \cup fs /\ Clear(w, fs).set = w.set \ fs
           /\ Set(w, fs).open = w.open /\ Clear(w, fs).open = w.open
           /\ Set(w, fs).where = w.where /\ Clear(w, fs).where = w.where
  BY DEF Set, Clear, States

\* Setting and clearing flags changes neither names nor counts.
LEMMA FlaggedExact ==
    ASSUME NEW w \in States, NEW fs \in SUBSET Flags
    PROVE  /\ Set(w, fs).edits = w.edits /\ Set(w, fs).faults = w.faults
           /\ Clear(w, fs).edits = w.edits /\ Clear(w, fs).faults = w.faults
  BY DEF Set, Clear, States

\* What has raised has raised.
LEMMA RaiseRaises ==
    ASSUME NEW w \in States
    PROVE  Has(Raise(w), "err") /\ Raise(w) \in States /\ Raise(w).where = w.where
           /\ Raise(w).edits = w.edits /\ Raise(w).faults = w.faults
  BY DEF Has, Raise, Set, States, Flags

\* A call that fails changes nothing but the count of failures.
LEMMA FaultsExact ==
    ASSUME NEW w \in States, NEW v \in Faults(w)
    PROVE  /\ v \in States /\ v.where = w.where /\ v.open = w.open /\ v.set = w.set
           /\ v.edits = w.edits /\ v.faults = w.faults + 1 /\ w.faults < MaxFaults
  BY DEF Faults, States

\* A check that does not raise does nothing.
LEMMA MayClean ==
    ASSUME NEW w \in States, NEW v \in May(w), ~Has(v, "err")
    PROVE  v = w
  BY FaultsExact, RaiseRaises DEF May

\* The flags and the descriptors are not what a renamed directory changes.
LEMMA PutExact ==
    ASSUME NEW w \in States, NEW x \in Nodes, NEW p \in Places
    PROVE  /\ Put(w, x, p) \in States /\ Put(w, x, p).where = [w.where EXCEPT ![x] = p]
           /\ Put(w, x, p).where \in [Nodes -> Places]
           /\ Put(w, x, p).open = w.open /\ Put(w, x, p).set = w.set
           /\ Put(w, x, p).edits = w.edits /\ Put(w, x, p).faults = w.faults
  BY DEF Put, States

\* What a name holds is a directory, if anything.
LEMMA AtNode ==
    ASSUME NEW w, NEW n
    PROVE  At(w, n) \in Nodes \cup {"none"}
  BY DEF At

\* The names are places, and so is where a directory may be hidden.
LEMMA NamesPlaces == Names \subseteq Places /\ {"hidden", "inside", "away"} \subseteq Places
  BY DEF Places, Names

\* What os.stat finds is there; when it finds nothing, nothing is.
LEMMA AtHolds ==
    ASSUME NEW w, NEW n
    PROVE  /\ At(w, n) \in Nodes => w.where[At(w, n)] = n
           /\ At(w, n) = "none" => \A x \in Nodes : w.where[x] # n
           /\ "none" \notin Nodes
  BY QueryAssumption DEF At, Nodes

\* The same for a directory that is known.
LEMMA AtThere ==
    ASSUME NEW w, NEW n, NEW x \in Nodes, At(w, n) = x
    PROVE  w.where[x] = n
  BY AtHolds

\* It finds the only directory of that name.
LEMMA AtOnly ==
    ASSUME NEW w, NEW n, NEW x \in Nodes, w.where[x] = n,
           \A y \in Nodes : w.where[y] = n => y = x
    PROVE  At(w, n) = x
  BY DEF At

\* Three directories are of this call.
LEMMA Own ==
    /\ {"generation", "slot", "probe"} \subseteq Nodes /\ Foreign \subseteq Nodes
    /\ Foreign \cap {"generation", "slot", "probe", "none"} = {}
  BY QueryAssumption DEF Nodes

\* Somebody else moves what a known name holds away, and may take the name.
LEMMA OutsideExact ==
    ASSUME NEW w \in States, NEW v \in Outside(w)
    PROVE  /\ v \in States /\ v.set = w.set /\ v.open = w.open /\ v.faults = w.faults
           /\ v = w \/
              /\ v.edits = w.edits + 1 /\ w.edits < MaxEdits
              /\ \E n \in Known(w) :
                   \/ /\ At(w, n) \in Nodes
                      /\ v.where = [w.where EXCEPT ![At(w, n)] = "away"]
                   \/ \E f \in Foreign :
                        /\ w.where[f] = "nowhere"
                        /\ \/ At(w, n) = "none" /\ v.where = [w.where EXCEPT ![f] = n]
                           \/ /\ At(w, n) \in Nodes
                              /\ v.where = [[w.where EXCEPT ![At(w, n)] = "away"] EXCEPT ![f] = n]
  <1> DEFINE freed(n) == IF At(w, n) = "none" THEN w ELSE Put(w, At(w, n), "away")
             taken(n) == ({freed(n)} \ {w}) \cup
                                     {Put(freed(n), f, n)
                                       : f \in {g \in Foreign : w.where[g] = "nowhere"}}
  <1>1. Outside(w) = {w} \cup
          IF w.edits < MaxEdits
          THEN {[t EXCEPT !.edits = @ + 1] : t \in UNION {taken(n) : n \in Known(w)}}
          ELSE {}
    BY DEF Outside
  <1>2. ASSUME NEW n PROVE freed(n) \in States /\ freed(n).set = w.set /\ freed(n).open = w.open
                            /\ freed(n).faults = w.faults /\ freed(n).edits = w.edits
                            /\ freed(n).where = IF At(w, n) = "none" THEN w.where
                                                ELSE [w.where EXCEPT ![At(w, n)] = "away"]
    BY AtNode, PutExact, NamesPlaces
  <1>3. ASSUME NEW n PROVE freed(n) # w => At(w, n) \in Nodes
    BY AtNode
  <1>4. CASE v = w
    BY <1>4
  <1>5. CASE v # w
    <2> HIDE DEF freed
    <2>0. PICK n \in Known(w) :
             \E t \in taken(n) : v = [t EXCEPT !.edits = @ + 1] /\ w.edits < MaxEdits
      <3> HIDE DEF taken
      <3> QED BY <1>1, <1>5
    <2>1. PICK t \in taken(n) : v = [t EXCEPT !.edits = @ + 1] /\ w.edits < MaxEdits
      BY <2>0
    <2>2. n \in Places
      BY NamesPlaces DEF Known, Names
    <2>3. ASSUME t \in States, t.set = w.set, t.open = w.open, t.faults = w.faults, t.edits = w.edits
          PROVE  v \in States /\ v.set = w.set /\ v.open = w.open /\ v.faults = w.faults
                 /\ v.edits = w.edits + 1 /\ v.where = t.where
      BY <2>1, <2>3 DEF States
    <2>4. CASE t = freed(n) /\ t # w
      <3>1. At(w, n) \in Nodes /\ "none" \notin Nodes
        BY <1>3, <2>4, AtHolds
      <3> QED BY <1>2, <2>1, <2>3, <2>4, <3>1
    <2>5. CASE \E f \in Foreign : w.where[f] = "nowhere" /\ t = Put(freed(n), f, n)
      <3>1. PICK f \in Foreign : w.where[f] = "nowhere" /\ t = Put(freed(n), f, n)
        BY <2>5
      <3>2. /\ t \in States /\ t.set = w.set /\ t.open = w.open /\ t.faults = w.faults
            /\ t.edits = w.edits /\ t.where = [freed(n).where EXCEPT ![f] = n]
        <4> DEFINE b == freed(n)
        <4>1. /\ b \in States /\ b.set = w.set /\ b.open = w.open /\ b.faults = w.faults
              /\ b.edits = w.edits /\ f \in Nodes
          BY <1>2, Own
        <4>2. t = Put(b, f, n)
          BY <3>1
        <4> HIDE DEF b
        <4> QED BY <4>1, <2>2, <4>2, PutExact DEF b
      <3>3. /\ v \in States /\ v.set = w.set /\ v.open = w.open /\ v.faults = w.faults
            /\ v.edits = w.edits + 1 /\ v.where = [freed(n).where EXCEPT ![f] = n]
        BY <2>3, <3>2
      <3>4. CASE At(w, n) = "none"
        <4>1. v.where = [w.where EXCEPT ![f] = n]
          BY <1>2, <3>3, <3>4
        <4> QED BY <2>1, <3>1, <3>3, <3>4, <4>1
      <3>5. CASE At(w, n) \in Nodes
        <4>1. v.where = [[w.where EXCEPT ![At(w, n)] = "away"] EXCEPT ![f] = n]
          BY <1>2, <3>3, <3>5, AtHolds
        <4> QED BY <2>1, <3>1, <3>3, <3>5, <4>1
      <3> QED BY <3>4, <3>5, AtNode
    <2> QED BY <2>1, <2>4, <2>5
  <1> QED BY <1>4, <1>5

\* What a rename did when it reports success, and what it may have done.
LEMMA RenameExact ==
    ASSUME NEW w \in States, NEW n, NEW p \in Places, NEW u \in Rename(w, n, p)
    PROVE  /\ u \in States /\ u.open = w.open /\ u.set \ {"err"} = w.set \ {"err"}
           /\ u.edits = w.edits /\ u.faults \in {w.faults, w.faults + 1}
           /\ \/ u.where = w.where
              \/ At(w, n) \in Nodes /\ u.where = [w.where EXCEPT ![At(w, n)] = p]
           /\ ~Has(u, "err") => At(w, n) \in Nodes /\ u = Put(w, At(w, n), p)
           /\ Has(u, "err") /\ At(w, n) # "none" => Has(w, "err") \/ u.faults = w.faults + 1
           /\ At(w, n) # "none" =>
                \/ u = Put(w, At(w, n), p)
                \/ Has(u, "err") /\ u.faults = w.faults + 1
  <1>1. CASE At(w, n) = "none"
    <2>1. u = Raise(w)
      BY <1>1 DEF Rename
    <2> QED BY <1>1, <2>1, RaiseRaises DEF Raise, Set, States
  <1>2. CASE At(w, n) # "none"
    <2> DEFINE m == Put(w, At(w, n), p)
    <2>1. At(w, n) \in Nodes
      BY <1>2, AtNode
    <2>2. /\ m \in States /\ m.where = [w.where EXCEPT ![At(w, n)] = p] /\ m.open = w.open
          /\ m.set = w.set /\ m.edits = w.edits /\ m.faults = w.faults
      BY <2>1, PutExact
    <2>3. u = m \/ \E t \in Faults(w) \cup Faults(m) : u = Raise(t)
      BY <1>2 DEF Rename, Effect
    <2>4. CASE u = m
      BY <2>1, <2>2, <2>4 DEF Has
    <2> HIDE DEF m
    <2>5. CASE \E t \in Faults(w) \cup Faults(m) : u = Raise(t)
      <3>1. PICK t \in Faults(w) \cup Faults(m) : u = Raise(t)
        BY <2>5
      <3>2. /\ t \in States /\ t.open = w.open /\ t.set = w.set /\ t.edits = w.edits
            /\ t.faults = w.faults + 1 /\ t.where \in {w.where, m.where}
        BY <2>2, FaultsExact
      <3> QED BY <2>1, <2>2, <3>1, <3>2, RaiseRaises DEF Raise, Set, States
    <2> QED BY <2>3, <2>4, <2>5
  <1> QED BY <1>1, <1>2

\* What an exchange did, and what it may have done.
LEMMA ExchangeExact ==
    ASSUME NEW w \in States, NEW a \in Places, NEW b \in Places, NEW u \in Exchange(w, a, b)
    PROVE  /\ u \in States /\ u.open = w.open /\ u.set \ {"err"} = w.set \ {"err"}
           /\ u.edits = w.edits /\ u.faults \in {w.faults, w.faults + 1}
           /\ \/ u.where = w.where
              \/ /\ At(w, a) \in Nodes /\ At(w, b) \in Nodes
                 /\ u.where = [[w.where EXCEPT ![At(w, a)] = b] EXCEPT ![At(w, b)] = a]
  <1>1. CASE "none" \in {At(w, a), At(w, b)}
    BY <1>1, RaiseRaises DEF Exchange, Raise, Set, States
  <1>2. CASE "none" \notin {At(w, a), At(w, b)}
    <2> DEFINE half == Put(w, At(w, a), b)
               m == Put(half, At(w, b), a)
    <2>1. At(w, a) \in Nodes /\ At(w, b) \in Nodes
      BY <1>2, AtNode
    <2>2. /\ half \in States /\ half.where = [w.where EXCEPT ![At(w, a)] = b] /\ half.open = w.open
          /\ half.set = w.set /\ half.edits = w.edits /\ half.faults = w.faults
      BY <2>1, PutExact
    <2>3. u = m \/ \E t \in Faults(w) \cup Faults(m) : u = Raise(t)
      BY <1>2 DEF Exchange, Effect
    <2> HIDE DEF half
    <2>4. /\ m \in States /\ m.where = [half.where EXCEPT ![At(w, b)] = a] /\ m.open = w.open
          /\ m.set = w.set /\ m.edits = w.edits /\ m.faults = w.faults
      <3>1. half \in States /\ At(w, b) \in Nodes /\ a \in Places
        BY <2>1, <2>2
      <3>2. /\ Put(half, At(w, b), a) \in States
            /\ Put(half, At(w, b), a).where = [half.where EXCEPT ![At(w, b)] = a]
            /\ Put(half, At(w, b), a).open = half.open /\ Put(half, At(w, b), a).set = half.set
            /\ Put(half, At(w, b), a).edits = half.edits
            /\ Put(half, At(w, b), a).faults = half.faults
        BY <3>1, PutExact
      <3> QED BY <2>2, <3>2
    <2> HIDE DEF m
    <2>5. CASE u = m
      BY <2>1, <2>2, <2>4, <2>5
    <2>6. CASE \E t \in Faults(w) \cup Faults(m) : u = Raise(t)
      <3>1. PICK t \in Faults(w) \cup Faults(m) : u = Raise(t)
        BY <2>6
      <3>2. /\ t \in States /\ t.open = w.open /\ t.set = w.set /\ t.edits = w.edits
            /\ t.faults = w.faults + 1 /\ t.where \in {w.where, m.where}
        BY <2>4, FaultsExact
      <3> QED BY <2>1, <2>2, <2>4, <3>1, <3>2, RaiseRaises DEF Raise, Set, States
    <2> QED BY <2>3, <2>5, <2>6
  <1> QED BY <1>1, <1>2

\* What restore_unrelated did: it fails when the name is taken.
LEMMA RestoreExact ==
    ASSUME NEW w \in States, NEW x \in Nodes, NEW n \in Places, NEW v \in Restore(w, x, n)
    PROVE  /\ v \in States /\ v.open = w.open /\ v.set \ {"err"} = w.set \ {"err"} /\ Has(v, "err")
           /\ v.edits = w.edits /\ v.faults \in {w.faults, w.faults + 1}
           /\ v.where = w.where \/ (At(w, n) = "none" /\ v.where = [w.where EXCEPT ![x] = n])
           /\ At(w, n) = "none" =>
                v.where = [w.where EXCEPT ![x] = n] \/ v.faults = w.faults + 1
  <1> DEFINE m == Put(w, x, n)
  <1>1. /\ m \in States /\ m.where = [w.where EXCEPT ![x] = n] /\ m.open = w.open
        /\ m.set = w.set /\ m.edits = w.edits /\ m.faults = w.faults
    BY PutExact
  <1>2. PICK a \in IF At(w, n) = "none" THEN Effect(w, m) ELSE {w} : v = Raise(a)
    BY DEF Restore
  <1> HIDE DEF m
  <1>3. /\ a \in States /\ a.open = w.open /\ a.set \ {"err"} = w.set \ {"err"} /\ a.edits = w.edits
        /\ a.faults \in {w.faults, w.faults + 1}
        /\ a.where = w.where \/ (At(w, n) = "none" /\ a.where = [w.where EXCEPT ![x] = n])
        /\ At(w, n) = "none" =>
             a.where = [w.where EXCEPT ![x] = n] \/ a.faults = w.faults + 1
    <2>1. CASE At(w, n) # "none"
      BY <1>2, <2>1
    <2>2. CASE At(w, n) = "none"
      <3>2. CASE a = m
        BY <1>1, <2>2, <3>2
      <3>3. CASE \E t \in Faults(w) \cup Faults(m) : a = Raise(t)
        <4>1. PICK t \in Faults(w) \cup Faults(m) : a = Raise(t)
          BY <3>3
        <4>2. /\ t \in States /\ t.open = w.open /\ t.set = w.set /\ t.edits = w.edits
              /\ t.faults = w.faults + 1 /\ t.where \in {w.where, m.where}
          BY <1>1, FaultsExact
        <4> QED BY <1>1, <2>2, <4>1, <4>2, RaiseRaises DEF Raise, Set, States
      <3> QED BY <1>2, <2>2, <3>2, <3>3 DEF Effect
    <2> QED BY <2>1, <2>2
  <1> QED BY <1>2, <1>3, RaiseRaises DEF Raise, Set, States

-----------------------------------------------------------------------------
(* What the parts of the rollback and of the recovery leave alone.         *)

\* Parts follow each other.
LEMMA LevelTrans ==
    ASSUME NEW w, NEW u, NEW v, Level(w, u), Level(u, v)
    PROVE  /\ Level(w, v)
           /\ Firm(w, u) /\ Firm(u, v) => Firm(w, v)
  BY DEF Level, States, Firm

\* The same for all of it.
LEMMA Trans ==
    ASSUME NEW w, NEW u, NEW v, Same(w, u), Same(u, v)
    PROVE  Same(w, v)
  BY LevelTrans DEF Same

\* ... and for the descriptors and flags.
LEMMA LikeTrans ==
    ASSUME NEW w, NEW u, NEW v, Like(w, u), Like(u, v)
    PROVE  Like(w, v)
  BY DEF Like

\* What leaves everything alone leaves the descriptors alone.
LEMMA SameLike ==
    ASSUME NEW w, NEW v, Same(w, v)
    PROVE  Like(w, v) /\ v \in States
  BY DEF Same, Like

\* A part that renames nothing.
LEMMA LevelStill ==
    ASSUME NEW w \in States, NEW v \in States, v.where = w.where, v.faults >= w.faults,
           v.edits = w.edits, "attempted" \in v.set <=> "attempted" \in w.set,
           "retired" \in w.set => "retired" \in v.set,
           Shown(w) => ("resolved" \in v.set => "resolved" \in w.set)
                       /\ ("required" \in w.set => "required" \in v.set)
    PROVE  Level(w, v) /\ Firm(w, v) /\ Gentle(w, v)
  BY DEF States, Unique, Shown, Tame, Level, Firm, Gentle

\* The volatile flags do not count, but for those of a generation that is shown.
LEMMA VolatileSame ==
    ASSUME NEW w \in States, NEW fs \in SUBSET Volatile
    PROVE  /\ (Shown(w) => "resolved" \notin fs)
              => Same(w, Set(w, fs)) /\ Gentle(w, Set(w, fs))
           /\ (Shown(w) => "required" \notin fs)
              => Same(w, Clear(w, fs)) /\ Gentle(w, Clear(w, fs))
  BY Flagged, FlaggedExact, LevelStill DEF Volatile, Flags, States, Same

\* Raising and swallowing are changes of volatile flags.
LEMMA RaiseSame ==
    ASSUME NEW w \in States
    PROVE  /\ Same(w, w) /\ Same(w, Raise(w)) /\ Same(w, Clear(w, {"err"}))
           /\ Same(w, Clear(Set(w, {"rollbackFailed"}), {"err"}))
           /\ Same(w, Clear(w, {"rollbackFailed"}))
           /\ Gentle(w, Raise(w)) /\ Gentle(w, Clear(w, {"err"}))
  <1>1. {"err"} \in SUBSET Volatile /\ {"rollbackFailed"} \in SUBSET Volatile
    BY DEF Volatile
  <1>2. Same(w, w)
    BY LevelStill DEF States, Same
  <1>3. /\ Same(w, Set(w, {"err"})) /\ Same(w, Clear(w, {"err"}))
        /\ Same(w, Set(w, {"rollbackFailed"})) /\ Same(w, Clear(w, {"rollbackFailed"}))
        /\ Gentle(w, Set(w, {"err"})) /\ Gentle(w, Clear(w, {"err"}))
    BY <1>1, VolatileSame
  <1>4. Same(Set(w, {"rollbackFailed"}), Clear(Set(w, {"rollbackFailed"}), {"err"}))
    BY <1>1, <1>3, VolatileSame DEF Same
  <1> QED BY <1>2, <1>3, <1>4, Trans DEF Raise

\* Settling is one too, where the generation is hidden.
LEMMA ResolvedSame ==
    ASSUME NEW w \in States, ~Shown(w)
    PROVE  Same(w, Resolve(w)) /\ Same(w, Raise(Resolve(w)))
  BY VolatileSame, RaiseSame, Trans DEF Volatile, Same, Level, Resolve

\* Nor does a call that fails.
LEMMA FaultsSame ==
    ASSUME NEW w \in States
    PROVE  /\ Stay(w, Faults(w)) /\ Stay(w, May(w))
           /\ \A v \in May(w) : Gentle(w, v)
  <1>1. ASSUME NEW v \in Faults(w) PROVE Same(w, v) /\ Gentle(w, v)
    BY FaultsExact, LevelStill DEF States, Same
  <1>2. ASSUME NEW v \in Faults(w) PROVE Same(w, Raise(v)) /\ Gentle(w, Raise(v))
    BY FaultsExact, <1>1, RaiseSame, Trans DEF Gentle
  <1> QED BY <1>1, <1>2, RaiseSame DEF Stay, May, Gentle

\* Somebody else renames, but has no descriptor of this call, and publishes nothing of it.
LEMMA OutsideSame ==
    ASSUME NEW w \in States
    PROVE  Stay(w, Outside(w)) /\ \A v \in Outside(w) : Gentle(w, v)
  <1>1. ASSUME NEW v \in Outside(w), v # w PROVE Same(w, v) /\ Gentle(w, v)
    <2>1. /\ v \in States /\ v.set = w.set /\ v.open = w.open /\ v.faults = w.faults
          /\ v.edits = w.edits + 1 /\ w.edits \in Nat /\ w.faults \in Nat
          /\ w.where \in [Nodes -> Places]
      BY <1>1, OutsideExact DEF States
    <2>2. PICK n \in Known(w) :
             \/ /\ At(w, n) \in Nodes
                /\ v.where = [w.where EXCEPT ![At(w, n)] = "away"]
             \/ \E f \in Foreign :
                  /\ w.where[f] = "nowhere"
                  /\ \/ At(w, n) = "none" /\ v.where = [w.where EXCEPT ![f] = n]
                     \/ /\ At(w, n) \in Nodes
                        /\ v.where = [[w.where EXCEPT ![At(w, n)] = "away"] EXCEPT ![f] = n]
      BY <1>1, OutsideExact
    <2>3. n \in Names /\ n # "nowhere" /\ "away" \notin Names /\ "normal" # "away"
      BY DEF Known, Names
    <2>4. (Unique(w) => Unique(v)) /\ (Shown(v) => Shown(w))
          /\ ((\A f \in Foreign : w.where[f] = "nowhere") =>
                \A f \in Foreign : v.where[f] \in {"nowhere", n})
      <3>1. CASE At(w, n) \in Nodes /\ v.where = [w.where EXCEPT ![At(w, n)] = "away"]
        <4> DEFINE y == At(w, n)
        <4> HIDE DEF y
        <4> QED BY <2>3, <3>1, AtHolds, <2>1, Own DEF Unique, Shown, y
      <3>2. ASSUME NEW f \in Foreign, w.where[f] = "nowhere", At(w, n) = "none",
                   v.where = [w.where EXCEPT ![f] = n]
            PROVE  <2>4!:
        BY <3>2, AtHolds, <2>1, <2>3, Own DEF Unique, Shown
      <3>3. ASSUME NEW f \in Foreign, w.where[f] = "nowhere", At(w, n) \in Nodes,
                   v.where = [[w.where EXCEPT ![At(w, n)] = "away"] EXCEPT ![f] = n]
            PROVE  <2>4!:
        <4> DEFINE y == At(w, n)
        <4> HIDE DEF y
        <4> QED BY <2>3, <3>3, AtHolds, <2>1, Own DEF Unique, Shown, y
      <3> QED BY <2>2, <3>1, <3>2, <3>3
    <2> QED BY <2>1, <2>4, <2>3 DEF Same, Level, Firm, Gentle, Tame
  <1> QED BY <1>1, RaiseSame DEF Stay, Gentle

\* _require_name_absent.
LEMMA AbsentSame ==
    ASSUME NEW w \in States, NEW n
    PROVE  Stay(w, RequireAbsent(w, n)) /\ \A v \in RequireAbsent(w, n) : Gentle(w, v)
  BY OutsideSame, OutsideExact, RaiseSame, Trans DEF Stay, Gentle, RequireAbsent

\* A rename moves no descriptor, and sets no flag.
LEMMA PutLike ==
    ASSUME NEW t \in States, NEW y \in Nodes, NEW n \in Places
    PROVE  Like(t, Put(t, y, n))
  <1>1. Put(t, y, n) \in States /\ Put(t, y, n).open = t.open /\ Put(t, y, n).set = t.set
        /\ Put(t, y, n).where = [t.where EXCEPT ![y] = n]
    BY PutExact
  <1> QED BY <1>1 DEF Like

\* renameat2_no_replace.
LEMMA RenameLike ==
    ASSUME NEW w \in States, NEW n, NEW p \in Places, NEW u \in Rename(w, n, p)
    PROVE  Like(w, u)
  <1>1. u \in States /\ u.open = w.open /\ u.set \ {"err"} = w.set \ {"err"}
        /\ \/ u.where = w.where
           \/ At(w, n) \in Nodes /\ u.where = [w.where EXCEPT ![At(w, n)] = p]
    BY RenameExact
  <1> QED BY <1>1 DEF Like, Volatile

\* renameat2_exchange.
LEMMA ExchangeLike ==
    ASSUME NEW w \in States, NEW a \in Places, NEW b \in Places, NEW u \in Exchange(w, a, b)
    PROVE  Like(w, u)
  <1>1. u \in States /\ u.open = w.open /\ u.set \ {"err"} = w.set \ {"err"}
        /\ \/ u.where = w.where
           \/ /\ At(w, a) \in Nodes /\ At(w, b) \in Nodes
              /\ u.where = [[w.where EXCEPT ![At(w, a)] = b] EXCEPT ![At(w, b)] = a]
    BY ExchangeExact
  <1> QED BY <1>1 DEF Like, Volatile

\* A directory of this call is hidden, unless it is the slot of a generation that is shown.
LEMMA HiddenLevel ==
    ASSUME NEW t \in States, NEW v \in States, NEW n \in Names, NEW y \in Nodes, NEW p \in {"hidden", "inside"},
           t.where[y] = n, v.where = [t.where EXCEPT ![y] = p], v.set \ {"err"} = t.set \ {"err"},
           v.edits = t.edits, v.faults >= t.faults,
           \/ y \notin Foreign
           \/ v.faults > t.faults
           \/ ~Unique(t)
    PROVE  /\ Level(t, v) /\ Gentle(t, v)
           /\ (n = "normal" \/ "attempted" \notin t.set \/ "resolved" \in t.set \/ "retired" \in t.set)
                 => Firm(t, v)
  <1>1. /\ t.where \in [Nodes -> Places] /\ t.faults \in Nat /\ v.faults \in Nat /\ t.edits \in Nat
        /\ n \in {"pending", "normal", "slot", "probe"} /\ p \notin Names /\ n # "nowhere"
    BY DEF States, Names
  <1>2. \A x \in Nodes : v.where[x] = IF x = y THEN p ELSE t.where[x]
    BY <1>1
  <1>3. (Unique(t) => Unique(v)) /\ (Shown(v) => Shown(t) /\ y # "generation")
    BY <1>1, <1>2, Own DEF Unique, Shown, Names
  <1>4. Unique(t) /\ Tame(t) => Tame(v)
    <2> SUFFICES ASSUME Unique(t), Tame(t) PROVE Tame(v)
      OBVIOUS
    <2>1. CASE y \notin Foreign
      BY <1>1, <1>2, <2>1, Own DEF Tame
    <2>2. CASE y \in Foreign
      BY <2>2, <1>1 DEF Tame
    <2> QED BY <2>1, <2>2
  <1>6. ASSUME n = "normal" \/ "attempted" \notin t.set \/ "resolved" \in t.set \/ "retired" \in t.set,
               Unique(t), Shown(v), "attempted" \in t.set, "resolved" \notin t.set, "retired" \notin v.set
        PROVE  v.where["slot"] = t.where["slot"]
    BY <1>6, <1>3, Own DEF Shown, Unique, Names
  <1> QED BY <1>3, <1>4, <1>1, <1>6 DEF Firm, Gentle, Level

\* What somebody else took the name with is put back, or putting it back fails.
LEMMA RestoredLevel ==
    ASSUME NEW t \in States, NEW c \in States, NEW n \in Names, NEW y \in Nodes, NEW p \in {"hidden", "inside"},
           t.where[y] = n, c.where = [t.where EXCEPT ![y] = p], c.open = t.open,
           c.set \ {"err"} = t.set \ {"err"}, c.edits = t.edits, c.faults >= t.faults,
           NEW r \in Restore(c, y, n)
    PROVE  /\ Like(t, r) /\ Level(t, r) /\ Gentle(t, r) /\ Has(r, "err")
           /\ (n = "normal" \/ "attempted" \notin t.set \/ "resolved" \in t.set \/ "retired" \in t.set)
                 => Firm(t, r)
  <1> DEFINE H == n = "normal" \/ "attempted" \notin t.set \/ "resolved" \in t.set \/ "retired" \in t.set
  <1>1. /\ t.where \in [Nodes -> Places] /\ t.faults \in Nat /\ c.faults \in Nat
        /\ p \in Places /\ n \in Places /\ p # n /\ p \notin Names
    BY DEF Places, Names, States
  <1>2. /\ r \in States /\ r.open = c.open /\ r.set \ {"err"} = c.set \ {"err"}
        /\ r.edits = c.edits /\ r.faults \in {c.faults, c.faults + 1}
        /\ r.where = c.where \/ (At(c, n) = "none" /\ r.where = [c.where EXCEPT ![y] = n])
        /\ At(c, n) = "none" => r.where = [c.where EXCEPT ![y] = n] \/ r.faults = c.faults + 1
        /\ Has(r, "err")
    BY <1>1, RestoreExact
  <1>3. r.set \ {"err"} = t.set \ {"err"} /\ r.open = t.open
    BY <1>2
  <1>4. r.edits = t.edits /\ r.faults >= t.faults /\ (r.faults = c.faults + 1 => r.faults > t.faults)
    BY <1>1, <1>2
  <1>5. CASE r.where = [c.where EXCEPT ![y] = n]
    <2> HIDE DEF H
    <2> QED BY <1>2, <1>3, <1>4, <1>1, <1>5, LevelStill DEF Like, Volatile
  <1>6. CASE r.where # [c.where EXCEPT ![y] = n]
    <2>2. r.faults > t.faults \/ ~Unique(t)
      BY <1>2, <1>4, <1>6, AtNode, AtHolds, <1>1 DEF Unique
    <2> QED BY <1>2, <1>3, <1>4, <1>6, <2>2, HiddenLevel DEF Like, Volatile
  <1> QED BY <1>5, <1>6

\* _isolate_bound_leaf_no_replace: it hides the directory it is for, and puts back any other.
LEMMA IsolateLeafLevel ==
    ASSUME NEW w \in States, NEW n \in Names, NEW x \in Nodes \ Foreign, NEW p \in {"hidden", "inside"},
           NEW r \in IsolateLeaf(w, n, x, p)
    PROVE  /\ Like(w, r) /\ Level(w, r) /\ Gentle(w, r)
           /\ (n = "normal" \/ "attempted" \notin w.set \/ "resolved" \in w.set \/ "retired" \in w.set)
                 => Same(w, r)
  <1> DEFINE moved(t, u) == {y \in Nodes : t.where[y] = n /\ u.where[y] = p}
             S(t, u) == IF moved(t, u) = {} THEN {Raise(u)}
                        ELSE IF moved(t, u) = {x} THEN RequireAbsent(Clear(u, {"err"}), n)
                        ELSE Restore(Clear(u, {"err"}), CHOOSE y \in moved(t, u) : TRUE, n)
             H == n = "normal" \/ "attempted" \notin w.set \/ "resolved" \in w.set \/ "retired" \in w.set
  <1>1. IsolateLeaf(w, n, x, p) = UNION {UNION {S(t, u) : u \in Rename(t, n, p)} : t \in Outside(w)}
    BY DEF IsolateLeaf
  <1> HIDE DEF S
  <1>2. PICK t \in Outside(w) : \E u \in Rename(t, n, p) : r \in S(t, u)
    BY <1>1
  <1>3. PICK u \in Rename(t, n, p) : r \in S(t, u)
    BY <1>2
  <1>4. /\ t \in States /\ t.set = w.set /\ Same(w, t) /\ Gentle(w, t) /\ t.where \in [Nodes -> Places]
        /\ t.faults \in Nat
    BY OutsideExact, OutsideSame DEF Stay, States
  <1>5. p \in Places /\ n \in Places /\ p # n /\ p \notin Names
    BY DEF Places, Names
  <1>6. /\ u \in States /\ u.open = t.open /\ u.set \ {"err"} = t.set \ {"err"} /\ u.edits = t.edits
        /\ u.faults >= t.faults
        /\ \/ u.where = t.where
           \/ At(t, n) \in Nodes /\ u.where = [t.where EXCEPT ![At(t, n)] = p]
    BY <1>4, <1>5, RenameExact
  <1> DEFINE c == Clear(u, {"err"})
  <1>7. /\ c \in States /\ c.open = t.open /\ c.set = t.set \ {"err"} /\ c.edits = t.edits
        /\ c.where = u.where /\ c.faults = u.faults /\ "err" \notin c.set
    <2>1. {"err"} \in SUBSET Flags
      BY DEF Flags
    <2>2. /\ c \in States /\ c.open = u.open /\ c.set = u.set \ {"err"} /\ c.edits = u.edits
          /\ c.where = u.where /\ c.faults = u.faults
      BY <1>6, <2>1, Flagged, FlaggedExact
    <2> QED BY <1>6, <2>2
  <1> HIDE DEF c
  <1>8. SUFFICES Like(t, r) /\ Level(t, r) /\ Gentle(t, r) /\ (H => Firm(t, r))
    <2>1. Like(w, t) /\ Level(w, t) /\ Firm(w, t) /\ r \in States
      BY <1>4, <1>8, SameLike DEF Same, Like
    <2> QED BY <1>4, <1>8, <2>1, LikeTrans, LevelTrans DEF Same, Like, Gentle
  <1>9. CASE moved(t, u) = {}
    <2>1. u.where = t.where
      <3> SUFFICES ASSUME u.where # t.where PROVE FALSE
        OBVIOUS
      <3>1. At(t, n) \in moved(t, u)
        BY <1>4, <1>6, AtHolds
      <3> QED BY <1>9, <3>1
    <2>2. r = Raise(u)
      BY <1>3, <1>9 DEF S
    <2>3. r.open = u.open /\ r.set = u.set \cup {"err"}
      BY <1>6, <2>2 DEF Raise, Set, States
    <2>4. /\ r \in States /\ r.where = t.where /\ r.edits = t.edits /\ r.faults >= t.faults
          /\ r.set \ {"err"} = t.set \ {"err"} /\ r.open = t.open
      BY <1>6, <2>1, <2>2, <2>3, RaiseRaises
    <2> HIDE DEF moved, H
    <2> QED BY <1>4, <2>4, LevelStill DEF Like, Volatile
  <1>10. CASE moved(t, u) # {}
    <2> DEFINE y == At(t, n)
    <2>1. y \in Nodes /\ u.where = [t.where EXCEPT ![y] = p]
      BY <1>5, <1>6, <1>10
    <2>2. t.where[y] = n
      BY <2>1, AtHolds
    <2> HIDE DEF y
    <2>3. moved(t, u) = {y}
      BY <1>4, <1>5, <2>1, <2>2
    <2>4. CASE y = x
      <3>1. r \in RequireAbsent(c, n)
        BY <1>3, <2>3, <2>4 DEF S, c
      <3>2. Like(c, r) /\ Level(c, r) /\ Firm(c, r) /\ Gentle(c, r)
        BY <1>7, <3>1, AbsentSame, SameLike DEF Stay, Same
      <3>3. /\ Level(t, c) /\ Gentle(t, c) /\ (H => Firm(t, c)) /\ Like(t, c)
        <4>1. /\ c.where = [t.where EXCEPT ![y] = p] /\ c.set \ {"err"} = t.set \ {"err"}
              /\ c.faults >= t.faults /\ y \notin Foreign
          BY <1>6, <1>7, <2>1, <2>4
        <4> QED BY <1>4, <1>7, <2>1, <2>2, <4>1, HiddenLevel DEF Like, Volatile
      <3> QED BY <3>2, <3>3, LikeTrans, LevelTrans DEF Gentle
    <2>5. CASE y # x
      <3>1. (CHOOSE z \in moved(t, u) : TRUE) = y
        BY <2>3
      <3>2. r \in Restore(c, y, n)
        BY <1>3, <2>3, <2>5, <3>1 DEF S, c
      <3> HIDE DEF moved
      <3>3. c.where = [t.where EXCEPT ![y] = p] /\ c.set \ {"err"} = t.set \ {"err"} /\ c.faults >= t.faults
        BY <1>6, <1>7, <2>1
      <3> QED BY <1>4, <1>7, <2>1, <2>2, <3>2, <3>3, RestoredLevel
    <2> QED BY <2>4, <2>5
  <1> QED BY <1>9, <1>10
\* A check that may raise after what was found.
LEMMA MarkedSame ==
    ASSUME NEW w, NEW S, NEW T, Stay(w, S),
           \A v \in T : \E u \in S : v = u \/ v = Raise(u)
    PROVE  Stay(w, T)
  BY RaiseSame, Trans DEF Stay, Same

\* _isolate_bound_empty_directory_no_replace.
LEMMA IsolateEmptyLevel ==
    ASSUME NEW w \in States, NEW n \in Names, NEW x \in Nodes \ Foreign, NEW r \in IsolateEmpty(w, n, x)
    PROVE  Like(w, r) /\ Level(w, r) /\ Gentle(w, r) /\ (Spare(w, n) => Same(w, r))
  <1> DEFINE S == {IF At(v, n) = x THEN v ELSE Raise(v) : v \in May(w)}
             T(v) == Then(IsolateLeaf(v, n, x, "inside"), May)
  <1>1. PICK u \in S : r = u \/ r \in T(u)
    BY DEF IsolateEmpty, Then
  <1>2. PICK v \in May(w) : u = v \/ u = Raise(v)
    BY <1>1
  <1>3. Same(w, v) /\ Gentle(w, v) /\ v \in States /\ v.set \ {"err"} = w.set \ {"err"}
    <2>1. Same(w, v) /\ Gentle(w, v) /\ v \in States
      BY FaultsSame DEF Stay, Same
    <2>2. CASE v = w
      BY <2>1, <2>2
    <2>3. CASE \E t \in Faults(w) : v = Raise(t)
      <3>1. PICK t \in Faults(w) : v = Raise(t)
        BY <2>3
      <3> QED BY <2>1, FaultsExact, <3>1 DEF Raise, Set, States
    <2> QED BY <2>1, <2>2, <2>3 DEF May
  <1>4. Same(w, u) /\ Gentle(w, u) /\ u \in States /\ u.set \ {"err"} = w.set \ {"err"}
    <2>1. CASE u = v
      BY <1>3, <2>1
    <2>2. CASE u = Raise(v)
      <3>1. u.set = v.set \cup {"err"}
        BY <1>3, <2>2 DEF Raise, Set, States
      <3> QED BY <1>3, <3>1, <2>2, RaiseSame, Trans DEF Gentle, Same
    <2> QED BY <1>2, <2>1, <2>2
  <1> HIDE DEF S
  <1>5. CASE r = u
    BY <1>4, <1>5, SameLike DEF Same
  <1>6. CASE r \in T(u)
    <2>1. PICK t \in IsolateLeaf(u, n, x, "inside") : r = t \/ r \in May(t)
      BY <1>6 DEF Then
    <2>2. Like(u, t) /\ Level(u, t) /\ Gentle(u, t) /\ (Spare(u, n) => Same(u, t)) /\ t \in States
      BY <1>4, IsolateLeafLevel DEF Spare, Like
    <2> HIDE DEF T
    <2>4. Same(t, r) /\ Gentle(t, r)
      BY <2>1, <2>2, FaultsSame, RaiseSame DEF Stay, Gentle
    <2>5. Like(u, r) /\ Level(u, r) /\ Gentle(u, r) /\ (Spare(u, n) => Same(u, r))
      BY <2>2, <2>4, SameLike, LikeTrans, LevelTrans, Trans DEF Same, Gentle
    <2> QED BY <1>4, <2>5, SameLike, LikeTrans, LevelTrans, Trans DEF Gentle, Same, Spare
  <1> QED BY <1>1, <1>5, <1>6

\* finalize_pending_generation.
LEMMA FinalizePendingSame ==
    ASSUME NEW w \in States
    PROVE  Stay(w, FinalizePending(w)) /\ \A v \in FinalizePending(w) : Gentle(w, v)
  BY AbsentSame, RaiseSame DEF KeepBound, Gentle, Stay, FinalizePending

\* The placeholder is hidden, and that it is kept is reported.
LEMMA PlaceholderSame ==
    ASSUME NEW w \in States
    PROVE  Stay(w, RemovePlaceholder(w))
  <1>2. Stay(w, IsolateLeaf(w, "normal", "slot", "hidden"))
    BY Own, IsolateLeafLevel DEF Stay, Names
  <1> QED BY <1>2, MarkedSame DEF RemovePlaceholder

\* The same after a check that may raise.
LEMMA CheckedRemovalSame ==
    ASSUME NEW w \in States
    PROVE  Stay(w, CheckedRemoval(w))
  BY FaultsSame, PlaceholderSame, Trans DEF CheckedRemoval, Then, Stay, Same

\* The slot takes the normal name from whatever has it, and the generation is hidden in its place.
LEMMA ExchangedSame ==
    ASSUME NEW w \in States, At(w, "normal") = "generation",
           NEW v \in Outside(w), At(v, "slot") = "slot", NEW u \in Exchange(v, "normal", "slot")
    PROVE  Same(w, u)
  <1>1. v \in States /\ Same(w, v) /\ v.set = w.set /\ v.open = w.open /\ v.faults = w.faults
        /\ (v = w \/ v.edits = w.edits + 1) /\ w.edits \in Nat /\ w.faults \in Nat
    BY OutsideExact, OutsideSame DEF Stay, States
  <1>2. "normal" \in Places /\ "slot" \in Places /\ "slot" \in Names /\ "normal" \in Names
    BY DEF Places, Names
  <1>3. /\ u \in States /\ u.open = v.open /\ u.set \ {"err"} = v.set \ {"err"}
        /\ u.edits = v.edits /\ u.faults \in {v.faults, v.faults + 1}
        /\ \/ u.where = v.where
           \/ /\ At(v, "normal") \in Nodes /\ At(v, "slot") \in Nodes
              /\ u.where = [[v.where EXCEPT ![At(v, "normal")] = "slot"] EXCEPT ![At(v, "slot")] = "normal"]
    BY <1>1, <1>2, ExchangeExact
  <1>4. u.faults >= v.faults /\ u.faults >= w.faults /\ u.edits >= w.edits
    BY <1>1, <1>3
  <1>5. CASE u.where = v.where
    BY <1>1, <1>3, <1>4, <1>5, LevelStill, Trans DEF Same, Volatile
  <1>6. CASE u.where # v.where
    <2> DEFINE y == At(v, "normal")
    <2>1. y \in Nodes /\ u.where = [[v.where EXCEPT ![y] = "slot"] EXCEPT !["slot"] = "normal"]
      BY <1>3, <1>6
    <2>2. v.where[y] = "normal" /\ v.where["slot"] = "slot" /\ v.where \in [Nodes -> Places]
      BY <1>1, <2>1, AtHolds, Own DEF States
    <2>3. v = w => y = "generation"
      OBVIOUS
    <2> HIDE DEF y
    <2>4. \A x \in Nodes : u.where[x] = IF x = "slot" THEN "normal" ELSE IF x = y THEN "slot" ELSE v.where[x]
      BY <2>1, <2>2, Own
    <2>5. Unique(v) => Unique(u)
      BY <2>1, <2>2, <2>4, Own DEF Unique
    <2>6. Shown(u) => Shown(v) /\ v # w
      BY <2>1, <2>2, <2>3, <2>4, Own DEF Shown
    <2>8. v = w /\ Tame(w) => Tame(u)
      <3> SUFFICES ASSUME v = w, Tame(w) PROVE Tame(u)
        OBVIOUS
      <3> QED BY <1>1, <1>3, <1>4, <2>3, <2>4, Own DEF Tame
    <2>9. Level(w, u) /\ Firm(w, u)
      BY <1>1, <1>3, <1>4, <2>5, <2>6, <2>8 DEF Level, Firm, Same
    <2> QED BY <1>1, <1>3, <2>9 DEF Same, Volatile
  <1> QED BY <1>5, <1>6

\* The exchange with the slot.
LEMMA ExchangeSlotSame ==
    ASSUME NEW w \in States, At(w, "normal") = "generation"
    PROVE  Stay(w, ExchangeSlot(w))
  <1> DEFINE T(u) == IF Phase(u) # "exchanged" THEN {Raise(u)}
                     ELSE CheckedRemoval(Clear(u, {"err"}))
             S(v) == IF At(v, "slot") # "slot" THEN {Raise(v)}
                     ELSE UNION {T(u) : u \in Exchange(v, "normal", "slot")}
  <1>1. ASSUME NEW u \in States PROVE Stay(u, T(u))
    <2> DEFINE c == Clear(u, {"err"})
    <2>1. Same(u, c) /\ Same(u, Raise(u))
      BY RaiseSame
    <2> HIDE DEF c
    <2> QED BY <2>1, CheckedRemovalSame, Trans DEF Stay, c, Same
  <1>2. ExchangeSlot(w) = UNION {S(v) : v \in Outside(w)}
    BY DEF ExchangeSlot, CheckedRemoval
  <1> HIDE DEF T
  <1>3. ASSUME NEW v \in Outside(w) PROVE Stay(w, S(v))
    BY ExchangedSame, <1>1, Trans, OutsideSame, RaiseSame DEF Stay, Same
  <1> HIDE DEF S
  <1> QED BY <1>2, <1>3 DEF Stay

\* The generation, or what took its name meanwhile, is renamed to a hidden name.
LEMMA RenamedSame ==
    ASSUME NEW w \in States, At(w, "normal") = "generation",
           NEW v \in Outside(w), NEW u \in Rename(v, "normal", "hidden")
    PROVE  Same(w, u)
  <1>1. v \in States /\ Same(w, v) /\ v.set = w.set /\ v.open = w.open /\ v.faults = w.faults
        /\ (v = w \/ v.edits = w.edits + 1) /\ w.edits \in Nat /\ w.faults \in Nat
    BY OutsideExact, OutsideSame DEF Stay, States
  <1>2. /\ u \in States /\ u.open = v.open /\ u.set \ {"err"} = v.set \ {"err"}
        /\ u.edits = v.edits /\ u.faults \in {v.faults, v.faults + 1}
        /\ \/ u.where = v.where
           \/ At(v, "normal") \in Nodes /\ u.where = [v.where EXCEPT ![At(v, "normal")] = "hidden"]
    <2>1. v \in States /\ "hidden" \in Places /\ u \in Rename(v, "normal", "hidden")
      BY <1>1, NamesPlaces
    <2>2. /\ u \in States /\ u.open = v.open /\ u.set \ {"err"} = v.set \ {"err"}
          /\ u.edits = v.edits /\ u.faults \in {v.faults, v.faults + 1}
          /\ \/ u.where = v.where
             \/ At(v, "normal") \in Nodes /\ u.where = [v.where EXCEPT ![At(v, "normal")] = "hidden"]
          /\ ~Has(u, "err") => At(v, "normal") \in Nodes /\ u = Put(v, At(v, "normal"), "hidden")
          /\ Has(u, "err") /\ At(v, "normal") # "none" => Has(v, "err") \/ u.faults = v.faults + 1
          /\ At(v, "normal") # "none" =>
               \/ u = Put(v, At(v, "normal"), "hidden")
               \/ Has(u, "err") /\ u.faults = v.faults + 1
      BY ONLY <2>1, RenameExact
    <2> QED BY <2>2
  <1>3. u.faults >= v.faults /\ u.faults >= w.faults /\ u.edits >= w.edits
    BY <1>1, <1>2
  <1>4. CASE u.where = v.where
    BY <1>1, <1>2, <1>3, <1>4, LevelStill, Trans DEF Same, Volatile
  <1>5. CASE u.where # v.where
    <2> DEFINE y == At(v, "normal")
    <2>1. y \in Nodes /\ u.where = [v.where EXCEPT ![y] = "hidden"]
      BY <1>2, <1>5
    <2>3. v = w => y = "generation"
      OBVIOUS
    <2> HIDE DEF y
    <2>4. \A x \in Nodes : u.where[x] = IF x = y THEN "hidden" ELSE v.where[x]
      BY <2>1, <1>1, AtHolds DEF States
    <2>5. Unique(v) => Unique(u)
      BY <2>4 DEF Unique, Names
    <2>6. Shown(u) => Shown(v) /\ v # w
      BY <2>1, <2>3, <2>4, Own DEF Shown
    <2>8. v = w /\ Tame(w) => Tame(u)
      <3> SUFFICES ASSUME v = w, Tame(w) PROVE Tame(u)
        OBVIOUS
      <3> QED BY <1>1, <1>2, <1>3, <2>3, <2>4, Own DEF Tame
    <2>9. Level(w, u) /\ Firm(w, u)
      BY <1>1, <1>2, <1>3, <2>5, <2>6, <2>8 DEF Level, Firm, Same
    <2> QED BY <1>1, <1>2, <2>9 DEF Same, Volatile
  <1> QED BY <1>4, <1>5

\* Whatever the rename met.
LEMMA AfterRenameSame ==
    ASSUME NEW u \in States
    PROVE  Stay(u, AfterRename(u))
  <1> DEFINE c == Clear(u, {"err"})
  <1>1. Same(u, u) /\ Same(u, c) /\ Same(u, Raise(u)) /\ c.where = u.where
    BY RaiseSame, Flagged DEF Flags
  <1> HIDE DEF c
  <1> QED BY <1>1, ExchangeSlotSame, Trans DEF Stay, c, AfterRename, Same, At

\* The rename, and what comes after it.
LEMMA HideParts ==
    ASSUME NEW w, NEW r \in HidePublished(w)
    PROVE  \E v \in Outside(w) : \E u \in Rename(v, "normal", "hidden") : r \in AfterRename(u)
  BY DEF HidePublished, AfterRename

\* The no-replace rename, or else the exchange.
LEMMA HideSame ==
    ASSUME NEW w \in States, At(w, "normal") = "generation"
    PROVE  Stay(w, HidePublished(w))
  BY RenamedSame, HideParts, AfterRenameSame, Trans DEF Stay, Same

\* _rollback_published_generation in each of its phases.
LEMMA RollbackSame ==
    ASSUME NEW w \in States
    PROVE  Stay(w, RollbackPublished(w))
  <1> DEFINE T(v) == CASE Phase(v) = "prepared" -> HidePublished(v)
                       [] Phase(v) = "exchanged" -> CheckedRemoval(v)
                       [] OTHER -> {Raise(v)}
  <1>1. ASSUME NEW v \in States PROVE Stay(v, T(v))
    <2>3. CASE Phase(v) = "prepared"
      BY <2>3, HideSame DEF Phase
    <2>4. CASE Phase(v) # "prepared"
      <3>1. T(v) \in {CheckedRemoval(v), {Raise(v)}}
        BY <2>4
      <3> HIDE DEF T
      <3> QED BY CheckedRemovalSame, RaiseSame, <3>1 DEF Stay
    <2> QED BY <2>3, <2>4
  <1>2. \A t \in RollbackPublished(w) : \E v \in May(w) : t = v \/ t \in T(v)
    BY DEF RollbackPublished, CheckedRemoval, Then
  <1> HIDE DEF T
  <1> QED BY <1>1, <1>2, FaultsSame, Trans DEF Stay, Same

\* The state is settled if the normal name is free.
LEMMA ResolveSame ==
    ASSUME NEW w \in States, NEW raised
    PROVE  Stay(w, ResolveIfHidden(w, raised))
  <1> DEFINE mark(v) == IF At(v, "normal") = "none" THEN v ELSE Raise(v)
  <1>2. \A t \in ResolveIfHidden(w, raised) : \E v \in Outside(w) :
            \/ t = v \/ t = Raise(v)
            \/ At(v, "normal") = "none" /\ t \in {Raise(Resolve(v)), Resolve(v)}
    <2>1. ASSUME NEW v \in Outside(w), At(v, "normal") # "none" PROVE Has(mark(v), "err") /\ mark(v) = Raise(v)
      BY <2>1, OutsideExact, RaiseRaises
    <2>2. ASSUME NEW v \in Outside(w), At(v, "normal") = "none" PROVE mark(v) = v
      BY <2>2
    <2> HIDE DEF mark
    <2> QED BY <2>1, <2>2 DEF ResolveIfHidden, RequireAbsent
  <1>3. ASSUME NEW v \in Outside(w), At(v, "normal") = "none" PROVE ~Shown(v) /\ v \in States
    BY <1>3, AtHolds, Own, OutsideExact DEF Shown
  <1> HIDE DEF mark
  <1> QED BY <1>2, <1>3, OutsideSame, RaiseSame, ResolvedSame, Trans DEF Stay, Same

\* force_descriptor_bound_recovery.
LEMMA ForceSame ==
    ASSUME NEW w \in States, NEW d
    PROVE  Stay(w, ForceRecovery(w, d))
  <1> DEFINE I(v) == IsolateLeaf(v, "normal", At(v, "normal"), "hidden")
             S(v) == UNION {ResolveIfHidden(Clear(u, {"err"}), TRUE) : u \in I(v)}
             R(v) == CASE At(v, "normal") = "none" -> ResolveIfHidden(v, FALSE)
                       [] At(v, "normal") \in {"generation", "slot"} -> S(v)
                       [] OTHER -> ResolveIfHidden(v, TRUE)
  <1>1. ForceRecovery(w, d) = IF d \notin w.open \/ ~Owned(w) THEN {Raise(w)}
                      ELSE UNION {R(v) : v \in Outside(w)}
    BY DEF ForceRecovery
  <1>2. ASSUME NEW v \in States, At(v, "normal") \in {"generation", "slot"} PROVE Stay(v, S(v))
    <2>2. Stay(v, I(v))
      BY <1>2, Own, IsolateLeafLevel DEF Stay, Names
    <2> HIDE DEF I
    <2>3. ASSUME NEW u \in I(v) PROVE Stay(v, ResolveIfHidden(Clear(u, {"err"}), TRUE))
      BY <2>2, RaiseSame, Trans, ResolveSame DEF Stay, Same
    <2> QED BY <2>3 DEF Stay
  <1>3. ASSUME NEW v \in States PROVE Stay(v, R(v))
    <2>1. CASE At(v, "normal") \in {"generation", "slot"}
      BY <2>1, <1>2
    <2>2. CASE At(v, "normal") \notin {"generation", "slot"}
      <3>1. R(v) \in {ResolveIfHidden(v, FALSE), ResolveIfHidden(v, TRUE)}
        BY <2>2
      <3> HIDE DEF R, S
      <3> QED BY <3>1, ResolveSame
    <2> QED BY <2>1, <2>2
  <1> HIDE DEF R
  <1> QED BY <1>1, <1>3, OutsideSame, RaiseSame, Trans DEF Stay, Same

\* The flags that the recoveries set.
LEMMA StartedSame ==
    ASSUME NEW w \in States
    PROVE  Same(w, Set(w, {"started"})) /\ Same(w, Set(w, {"required"}))
  BY VolatileSame DEF Volatile

\* rollback_attempted_publication, by what the names hold.
LEMMA RollbackAttemptedSame ==
    ASSUME NEW w \in States, NEW d
    PROVE  Stay(w, RollbackAttempted(w, d))
  <1> DEFINE T(v) == CASE At(v, "normal") = "generation" -> RollbackPublished(Set(v, {"started"}))
                       [] At(v, "pending") = "generation" /\ At(v, "normal") = "none" -> {Resolve(v)}
                       [] OTHER -> {Raise(v)}
  <1>1. ASSUME NEW v \in States PROVE Stay(v, T(v))
    <2>2. CASE At(v, "normal") = "generation"
      BY StartedSame, RollbackSame, Trans, <2>2 DEF Stay, Same
    <2>3. CASE At(v, "normal") # "generation"
      BY RaiseSame, ResolvedSame, AtHolds, Own, <2>3 DEF Shown, Stay
    <2> QED BY <2>2, <2>3
  <1>2. RollbackAttempted(w, d) =
          IF ~Unresolved(w) THEN {w}
          ELSE IF Has(w, "retired") THEN ForceRecovery(w, d)
          ELSE IF d \notin w.open THEN {Raise(w)}
          ELSE IF Has(w, "started") THEN RollbackPublished(w)
          ELSE UNION {T(v) : v \in Outside(w)}
    BY DEF RollbackAttempted
  <1> HIDE DEF T
  <1>4. Stay(w, {w}) /\ Stay(w, {Raise(w)})
    BY RaiseSame DEF Stay
  <1> QED BY <1>2, <1>1, OutsideSame, Trans, <1>4, ForceSame, RollbackSame DEF Stay, Same

\* None of it publishes.
LEMMA RecoverFromSame ==
    ASSUME NEW v \in States
    PROVE  Stay(v, RecoverFrom(v))
  <1>1. ASSUME NEW u, Same(v, u)
        PROVE  Stay(v, ResolveIfHidden(Clear(u, {"err"}), TRUE)) /\ (~Shown(v) => Stay(v, {Resolve(u)}))
    <2>1. Same(v, Clear(u, {"err"})) /\ (~Shown(v) => Same(v, Resolve(u)))
      BY <1>1, RaiseSame, ResolvedSame, Trans DEF Same, Level
    <2> QED BY <2>1, ResolveSame, Trans DEF Stay, Same
  <1>2. Stay(v, RecoverStarted(v))
    <2>1. Stay(v, RollbackPublished(Set(v, {"started"})))
      BY StartedSame, RollbackSame, Trans DEF Stay, Same
    <2> QED BY <1>1, <2>1 DEF Stay, RecoverStarted
  <1>3. At(v, "normal") = "none" => Stay(v, RecoverPending(v))
    <2> SUFFICES ASSUME At(v, "normal") = "none" PROVE Stay(v, RecoverPending(v))
      OBVIOUS
    <2>1. ~Shown(v) /\ Stay(v, FinalizePending(v))
      BY FinalizePendingSame, AtHolds, Own DEF Shown
    <2> QED BY <1>1, <2>1 DEF Stay, RecoverPending
  <1> QED BY <1>2, <1>3, ResolveSame, RaiseSame DEF Stay, RecoverFrom

\* recover_attempted_publication in terms of these.
LEMMA RecoverAttemptedParts ==
    ASSUME NEW w, NEW d
    PROVE  RecoverAttempted(w, d) =
             IF ~Unresolved(w) THEN {w}
             ELSE IF Has(w, "retired") THEN ForceRecovery(w, d)
             ELSE IF d \notin w.open \/ ~Owned(w) THEN {Raise(w)}
             ELSE UNION {RecoverFrom(v) : v \in Outside(w)}
  BY DEF RecoverAttempted, RecoverFrom, RecoverStarted, RecoverPending

\* recover_attempted_publication.
LEMMA RecoverAttemptedSame ==
    ASSUME NEW w \in States, NEW d
    PROVE  Stay(w, RecoverAttempted(w, d))
  BY RecoverFromSame, OutsideSame, Trans, RaiseSame, ForceSame, RecoverAttemptedParts DEF Stay,
     Same

\* What becomes of the rollback is noted.
LEMMA NotedSame ==
    ASSUME NEW w, NEW S, Stay(w, S)
    PROVE  Stay(w, {IF Has(v, "err") THEN Clear(Set(v, {"rollbackFailed"}), {"err"})
                    ELSE Clear(v, {"rollbackFailed"}) : v \in S})
  BY RaiseSame, Trans DEF Stay, Same

\* attempt_rollback swallows the exception.
LEMMA AttemptSame ==
    ASSUME NEW w \in States, NEW d
    PROVE  Stay(w, AttemptRollback(w, d))
  BY RollbackAttemptedSame, NotedSame DEF AttemptRollback

\* recover_with_anchor: a rollback, and a recovery if that failed.
LEMMA RecoverWithAnchorSame ==
    ASSUME NEW w \in States, NEW d
    PROVE  Stay(w, RecoverWithAnchor(w, d))
  <1> DEFINE N(v) == {IF Has(u, "err") THEN Clear(Set(u, {"rollbackFailed"}), {"err"})
                      ELSE Clear(u, {"rollbackFailed"}) : u \in RecoverAttempted(v, d)}
             S == AttemptRollback(w, d) \cup {w}
  <1>1. \A t \in RecoverWithAnchor(w, d) : \E v \in S : t = v \/ t \in N(v)
    BY DEF RecoverWithAnchor
  <1>2. Stay(w, S)
    BY AttemptSame, RaiseSame DEF Stay
  <1>3. ASSUME NEW v \in States PROVE Stay(v, N(v))
    BY RecoverAttemptedSame, NotedSame
  <1> HIDE DEF N, S
  <1> QED BY <1>1, <1>2, <1>3, Trans DEF Stay, Same

\* force_with_anchor: the last isolation, if it is still needed.
LEMMA ForceWithAnchorSame ==
    ASSUME NEW w \in States, NEW d
    PROVE  Stay(w, ForceWithAnchor(w, d))
  <1>2. ASSUME NEW v \in States PROVE Same(v, Set(Clear(v, {"err"}), {"rollbackFailed"}))
    <2>1. Same(v, Clear(v, {"err"}))
      BY RaiseSame
    <2>2. Same(Clear(v, {"err"}), Set(Clear(v, {"err"}), {"rollbackFailed"}))
      BY <2>1, VolatileSame DEF Volatile, Same
    <2> QED BY <2>1, <2>2, Trans
  <1> QED BY <1>2, ForceSame, RaiseSame, Trans DEF Stay, Same, ForceWithAnchor, Except

\* Both.
LEMMA RecoverSame ==
    ASSUME NEW w \in States, NEW d
    PROVE  Stay(w, Recover(w, d))
  BY RecoverWithAnchorSame, ForceWithAnchorSame, Trans DEF Recover, Stay, Same

\* The same where the rollback is required from now on.
LEMMA RequiredSame ==
    ASSUME NEW w \in States, NEW d
    PROVE  /\ Same(w, Require(w)) /\ Require(w) \in States
           /\ Stay(w, RequiredRollback(w, d)) /\ Stay(w, RequiredRecovery(w, d))
  <1>1. Same(w, Require(w))
    BY StartedSame, RaiseSame DEF Require
  <1> QED
    BY <1>1, AttemptSame, RecoverSame, Trans, RaiseSame DEF RequiredRollback, RequiredRecovery,
       Stay, Same

\* Whatever a failed close has done about the publication.
LEMMA UndoSame ==
    ASSUME NEW w \in States, NEW how \in {"rollback", "recovery", "nothing"}, NEW d
    PROVE  Stay(w, Undo(w, how, d))
  BY RequiredSame, RaiseSame DEF Undo, Stay

\* Closing changes nothing else.
LEMMA CloseCloses ==
    ASSUME NEW w \in States, NEW ds
    PROVE  /\ Close(w, ds) \in States
           /\ Close(w, ds).open = w.open \ ds /\ Close(w, ds).set = w.set
           /\ Close(w, ds).where = w.where /\ Close(w, ds).faults = w.faults
           /\ Close(w, ds).edits = w.edits
           /\ Level(w, Close(w, ds)) /\ Firm(w, Close(w, ds)) /\ Gentle(w, Close(w, ds))
  BY LevelStill DEF Close, States

\* Nor does remembering that it failed.
LEMMA RememberLevel ==
    ASSUME NEW w \in States
    PROVE  /\ Remember(w) \in States /\ Remember(w).open = w.open
           /\ Remember(w).set = w.set \cup {"releaseFailed"}
           /\ Remember(w).where = w.where /\ Remember(w).faults = w.faults
           /\ Remember(w).edits = w.edits
           /\ Level(w, Remember(w)) /\ Firm(w, Remember(w)) /\ Gentle(w, Remember(w))
  BY Flagged, FlaggedExact, LevelStill DEF Flags, Remember, States

\* A failed close is a close, and is remembered.
LEMMA RememberClosed ==
    ASSUME NEW w \in States, NEW ds, NEW v, Same(w, v)
    PROVE  /\ Closed(w, Close(v, ds), ds) /\ Closed(w, Remember(Close(v, ds)), ds)
           /\ Closed(w, Remember(v), {})
  <1> DEFINE c == Close(v, ds)
  <1>1. v \in States /\ v.open = w.open /\ v.set \ Volatile = w.set \ Volatile
        /\ Level(w, v) /\ Firm(w, v)
    BY DEF Same
  <1>2. /\ c \in States /\ c.open = w.open \ ds /\ c.set = v.set
        /\ Level(w, c) /\ Firm(w, c)
    BY <1>1, CloseCloses, LevelTrans
  <1> HIDE DEF c
  <1>7. Closed(w, Remember(v), {})
    BY <1>1, RememberLevel, LevelTrans DEF Closed, Volatile
  <1> QED BY <1>1, <1>2, RememberLevel, LevelTrans, <1>7 DEF c, Closed, Volatile

\* What follows a close opens nothing again.
LEMMA ClosedSame ==
    ASSUME NEW w, NEW u, NEW v, NEW ds, Closed(w, u, ds), Same(u, v)
    PROVE  Closed(w, v, ds)
  BY LevelTrans DEF Closed, Same, Volatile

\* release_descriptor closes its descriptor, whether the close works, fails before it acts or
\* after it did, and whatever the recovery it starts meets.
LEMMA ReleaseCloses ==
    ASSUME NEW w \in States, NEW x, NEW d,
           NEW before \in {"rollback", "recovery", "nothing"},
           NEW after \in {"rollback", "recovery", "nothing"}
    PROVE  \A v \in Release(w, x, before, after, d) : Closed(w, v, {x})
  <1>2. ASSUME NEW u \in Faults(w), NEW v \in Undo(u, before, d)
        PROVE  Closed(w, Remember(Close(v, {x})), {x})
    BY FaultsSame, UndoSame, Trans, RememberClosed DEF Stay, Same
  <1>3. ASSUME NEW u \in Faults(w), NEW v \in Undo(Remember(Close(u, {x})), after, d)
        PROVE  Closed(w, v, {x})
    <2>2. Closed(w, Remember(Close(u, {x})), {x})
      BY FaultsSame, RememberClosed DEF Stay
    <2> QED BY <2>2, UndoSame, ClosedSame DEF Stay, Closed
  <1> QED BY RaiseSame, RememberClosed, <1>2, <1>3 DEF Release

\* emergency_recover_publication, all three attempts.
LEMMA EmergencySame ==
    ASSUME NEW w \in States
    PROVE  Stay(w, EmergencyRecover(w))
  <1> DEFINE d == IF "anchor" \in w.open THEN "anchor"
                  ELSE IF "rollback" \in w.open THEN "rollback" ELSE "generations"
             one == {Clear(v, {"err"}) : v \in RollbackAttempted(Set(w, {"required"}), d)}
             two == UNION {IF Unresolved(v) THEN {Clear(u, {"err"}) : u \in RecoverAttempted(v, d)}
                           ELSE {v} : v \in one}
             three == UNION {IF Unresolved(v) THEN {Clear(u, {"err"}) : u \in ForceRecovery(v, d)}
                             ELSE {v} : v \in two}
             last == {IF Unresolved(v) THEN Set(v, {"rollbackFailed"})
                      ELSE Clear(v, {"rollbackFailed"}) : v \in three}
  <1>1. EmergencyRecover(w) = IF ~Unresolved(w) THEN {w}
                              ELSE IF d \notin w.open THEN {Set(w, {"required", "rollbackFailed"})}
                              ELSE last
    BY DEF EmergencyRecover
  <1>2. ASSUME NEW v \in States
        PROVE  Same(v, Set(v, {"rollbackFailed"})) /\ Same(v, Set(v, {"required", "rollbackFailed"}))
    BY VolatileSame DEF Volatile
  <1> HIDE DEF d
  <1>3. Stay(w, one)
    BY StartedSame, RollbackAttemptedSame, Trans, RaiseSame DEF Stay, Same
  <1> HIDE DEF one
  <1>4. Stay(w, two)
    <2>1. ASSUME NEW v \in States, NEW u \in RecoverAttempted(v, d) PROVE Same(v, Clear(u, {"err"}))
      BY RecoverAttemptedSame, RaiseSame, Trans, ZenonT(20) DEF Stay, Same
    <2> QED BY <1>3, <2>1, Trans DEF Stay, Same
  <1> HIDE DEF two
  <1>5. Stay(w, three)
    BY ForceSame, RaiseSame, Trans, <1>4 DEF Stay, Same
  <1> HIDE DEF three
  <1>6. Stay(w, last)
    BY <1>2, <1>5, RaiseSame, Trans DEF Stay, Same
  <1> QED BY <1>1, <1>2, <1>6, RaiseSame DEF Stay

-----------------------------------------------------------------------------
(* The descriptors and the lock.                                           *)

\* Parts that open follow each other.
LEMMA GrowsOn ==
    ASSUME NEW w, NEW S, NEW T, NEW ds, Grows(w, S, ds),
           \A v \in T : v \in S \/ \E u \in S : Grown(u, v, ds)
    PROVE  Grows(w, T, ds)
  BY DEF Grows, Grown

\* A part that opens nothing is one of them.
LEMMA SameGrown ==
    ASSUME NEW w, NEW v, NEW ds, Same(w, v)
    PROVE  Grown(w, v, ds)
  BY DEF Same, Grown, Volatile

\* Nor is a rename.
LEMMA LikeGrown ==
    ASSUME NEW w, NEW v, NEW ds, Like(w, v)
    PROVE  Grown(w, v, ds)
  BY DEF Like, Grown, Volatile

\* The parts without a rename of this call.
LEMMA PartsLike ==
    ASSUME NEW w \in States
    PROVE  /\ Like(w, w) /\ Like(w, Raise(w)) /\ Like(w, Clear(w, {"err"}))
           /\ Alike(w, May(w)) /\ Alike(w, Outside(w))
  BY RaiseSame, FaultsSame, OutsideSame, SameLike DEF Alike, Stay

\* A check that may raise after what was found.
LEMMA MarkedLike ==
    ASSUME NEW w, NEW S, NEW T, Alike(w, S),
           \A v \in T : \E u \in S : v = u \/ v = Raise(u)
    PROVE  Alike(w, T)
  BY PartsLike, LikeTrans DEF Alike, Like

\* Parts follow each other.
LEMMA ChainLike ==
    ASSUME NEW w, NEW S, NEW T, Alike(w, S),
           \A v \in T : v \in S \/ \E u \in S : Like(u, v)
    PROVE  Alike(w, T)
  BY LikeTrans DEF Alike

\* So are opening and the flags of the body.
LEMMA Growing ==
    ASSUME NEW w \in States, NEW ds \in SUBSET Descriptors, NEW fs \in SUBSET (Flags \ {"retain"})
    PROVE  Grown(w, w, ds) /\ Grown(w, Open(w, ds), ds) /\ Grown(w, Set(w, fs), ds)
           /\ ds \subseteq Open(w, ds).open
  BY Flagged DEF Grown, Open, States

\* A step of the body that opens ds keeps what holds of the descriptors.
LEMMA BodyKeeps ==
    ASSUME Held, NEW label \in BodyLabels, NEW S, NEW next, NEW ds \in SUBSET Descriptors,
           Body(label, S, next), Grows(q, S, ds),
           next \in BodyLabels \cup {"housekeeping"},
           next \in {"noreplace", "slot", "exchange", "replace", "commit"} =>
              \A v \in S : ~Has(v, "err") => "anchor" \in v.open,
           ds \cap {"slot", "cleanup", "binding"} = {} \/ "anchor" \in q.open,
           "binding" \in ds => "retain" \in q.set
    PROVE  Held'
  <1>1. S \subseteq States
    BY DEF Grows, Grown
  <1>2. PICK v \in S :
            /\ \/ ~Has(v, "err") /\ q' = Clear(v, {"err"}) /\ pc' = next
               \/ /\ Has(v, "err") /\ q' = Clear(Set(v, {"exitFailed"}), {"err"})
                  /\ pc' = "housekeeping"
    BY <1>1, BodyStep
  <1>4. /\ q' \in States /\ q'.open = v.open
        /\ "err" \notin q'.set
        /\ "retain" \in q'.set <=> "retain" \in v.set
    BY <1>1, Flagged, <1>2 DEF Flags
  <1>5. Grown(q, v, ds)
    BY DEF Grows
  <1>6. pc' \in BodyLabels \cup {"housekeeping"}
    BY <1>2
  <1>7. pc' \notin AfterGenerations /\ pc' \notin AfterEarly
        /\ pc' \notin {"validate", "conclude", "concluded", "done"}
    BY <1>6 DEF BodyLabels, AfterGenerations, AfterEarly, AfterRollback, AfterPending, AfterAnchor,
                AfterSlot, AfterCleanup, AfterIdentity
  <1>8. Released'
    BY <1>7 DEF Released, AfterGenerations, AfterRollback, AfterPending, AfterAnchor,
                AfterSlot, AfterCleanup, AfterIdentity
  <1>9. Anchored'
    <2>1. pc \in UntilAnchors /\ pc' \in UntilAnchors
      BY <1>1, BodyStep, <1>6 DEF UntilAnchors
    <2> QED BY <1>2, <1>4, <1>7, <1>5, <2>1 DEF Anchored, Held, Grown
  <1>10. Final' /\ NothingLeaks'
    BY <1>7 DEF Final, NothingLeaks
  <1> QED BY <1>4, <1>5, <1>6, <1>7, <1>8, <1>9, <1>10 DEF Held, UntilAnchors, Grown

\* So is a check that may raise,
LEMMA MayGrows ==
    ASSUME NEW w \in States, NEW ds
    PROVE  Grows(w, May(w), ds)
  BY FaultsSame, SameGrown DEF Stay, Grows

\* also after another part.
LEMMA MayOn ==
    ASSUME NEW w, NEW S, NEW T, NEW ds, Grows(w, S, ds),
           \A v \in T : v \in S \/ \E u \in S : v \in May(u)
    PROVE  Grows(w, T, ds)
  <1>1. ASSUME NEW u \in S, NEW v \in May(u) PROVE Grown(u, v, ds)
    BY MayGrows DEF Grows, Grown
  <1> QED BY <1>1, GrowsOn

\* A directory is compared with what its name holds.
LEMMA CurrentSame ==
    ASSUME NEW w \in States, NEW n, NEW x
    PROVE  Stay(w, {IF At(v, n) = x THEN v ELSE Raise(v) : v \in Outside(w)})
  BY OutsideSame, MarkedSame

\* The lock and .generations.
LEMMA PinKeeps ==
    ASSUME Held, Pin
    PROVE  Held'
  <1> DEFINE l == Set(q, {"lock"})
             S == Then(May(l), LAMBDA w : {Open(w, {"generations"})})
             ds == {"generations"}
  <1>1. Body("pin", S, "pending")
    BY Zenon DEF Pin
  <1>2. \A v \in S : v \in May(l) \/ \E u \in May(l) : v = Open(u, ds)
    BY DEF Then
  <1>3. Grown(q, l, ds)
    BY Growing DEF Held, Flags, Descriptors
  <1>4. Grows(q, May(l), ds)
    BY <1>3, MayGrows DEF Grows, Grown
  <1> HIDE DEF S, l
  <1>5. \A u \in May(l) : Grown(u, Open(u, ds), ds)
    BY <1>4, Growing DEF Grows, Grown, Descriptors
  <1>6. Grows(q, S, ds)
    BY <1>2, <1>4, <1>5, GrowsOn
  <1> QED BY <1>1, <1>6, BodyKeeps DEF BodyLabels, Descriptors

\* The pending directory: the part may end after either of its descriptors.
LEMMA MakePendingKeeps ==
    ASSUME Held, MakePending
    PROVE  Held'
  <1> DEFINE S1 == Then(May(q), LAMBDA w : {Put(w, "generation", "pending")})
             S2 == Then(S1, May)
             S3 == Then(S2, LAMBDA w : {Set(Open(w, {"pending"}), {"bound"})})
             current(w) == {IF At(v, "pending") = "generation" THEN v ELSE Raise(v) : v \in Outside(w)}
             S4 == Then(S3, current)
             S5 == Then(S4, May)
             S6 == Then(S5, LAMBDA w : {Open(w, {"identity"})})
             ds == {"pending", "identity"}
  <1>1. Body("pending", S6, "query")
    BY Zenon DEF MakePending
  <1>2. \A v \in S1 : v \in May(q) \/ \E u \in May(q) : v = Put(u, "generation", "pending")
    BY DEF Then
  <1>3. \A v \in S2 : v \in S1 \/ \E u \in S1 : v \in May(u)
    BY DEF Then
  <1>4. \A v \in S3 : v \in S2 \/ \E u \in S2 : v = Set(Open(u, {"pending"}), {"bound"})
    BY DEF Then
  <1>5. \A v \in S4 : v \in S3 \/ \E u \in S3 : v \in current(u)
    BY DEF Then
  <1>6. \A v \in S5 : v \in S4 \/ \E u \in S4 : v \in May(u)
    BY DEF Then
  <1>7. \A v \in S6 : v \in S5 \/ \E u \in S5 : v = Open(u, {"identity"})
    BY DEF Then
  <1> HIDE DEF S1, S2, S3, S4, S5, S6
  <1>8. ASSUME NEW u \in States
        PROVE  /\ Grown(u, Put(u, "generation", "pending"), ds)
               /\ Grown(u, Open(u, {"identity"}), ds)
               /\ Grown(u, Set(Open(u, {"pending"}), {"bound"}), ds)
               /\ Grows(u, current(u), ds)
    <2>1. Grown(u, Put(u, "generation", "pending"), ds)
      BY Own, PutLike, LikeGrown DEF Places, Names
    <2>2. Grown(u, Open(u, {"identity"}), ds) /\ Grown(u, Open(u, {"pending"}), ds)
      <3>1. Grown(u, Open(u, {"identity"}), {"identity"}) /\ Grown(u, Open(u, {"pending"}), {"pending"})
        BY Growing DEF Descriptors
      <3> QED BY <3>1 DEF Grown
    <2>4. Grows(u, current(u), ds)
      BY CurrentSame, SameGrown DEF Grows, Stay
    <2> QED BY <2>1, <2>2, Growing, <2>4 DEF Grown, Descriptors, Flags
  <1> HIDE DEF current
  <1>9. Grows(q, May(q), ds)
    BY MayGrows DEF Held
  <1>10. Grows(q, S1, ds)
    BY <1>2, <1>8, <1>9, GrowsOn DEF Grows, Grown
  <1>11. Grows(q, S2, ds)
    BY <1>3, <1>10, MayOn
  <1>12. Grows(q, S3, ds)
    BY <1>4, <1>8, <1>11, GrowsOn DEF Grows, Grown
  <1>13. Grows(q, S4, ds)
    BY <1>5, <1>8, <1>12, GrowsOn DEF Grows, Grown
  <1>14. Grows(q, S5, ds)
    BY <1>6, <1>13, MayOn
  <1>15. Grows(q, S6, ds)
    BY <1>7, <1>8, <1>14, GrowsOn DEF Grows, Grown
  <1> QED BY <1>1, <1>15, BodyKeeps DEF BodyLabels, Descriptors

\* The query opens nothing.
LEMMA RunQueryKeeps ==
    ASSUME Held, RunQuery
    PROVE  Held'
  <1> DEFINE S == Then(May(q), LAMBDA w : May(Set(w, {"tempQuery"})))
  <1>1. Body("query", S, "decode")
    BY DEF RunQuery
  <1>2. \A v \in S : v \in May(q) \/ \E u \in May(q) : v \in May(Set(u, {"tempQuery"}))
    BY DEF Then
  <1> HIDE DEF S
  <1>3. ASSUME NEW u \in States PROVE Grows(u, May(Set(u, {"tempQuery"})), {})
    <2>1. Grown(u, Set(u, {"tempQuery"}), {})
      BY Growing DEF Flags
    <2> QED BY <2>1, MayGrows DEF Grows, Grown
  <1>4. Grows(q, May(q), {})
    BY MayGrows DEF Held
  <1>5. Grows(q, S, {})
    BY <1>2, <1>3, <1>4, GrowsOn DEF Grows, Grown
  <1> QED BY <1>1, <1>5, BodyKeeps DEF BodyLabels

\* The decoded file.
LEMMA DecodeKeeps ==
    ASSUME Held, Decode
    PROVE  Held'
  <1> DEFINE ds == {"decoded"}
             S == Then(May(q), LAMBDA w : May(Open(w, ds)))
  <1>1. Body("decode", S, "seal")
    BY DEF Decode
  <1>2. \A v \in S : v \in May(q) \/ \E u \in May(q) : v \in May(Open(u, ds))
    BY DEF Then
  <1> HIDE DEF S
  <1>3. ASSUME NEW u \in States PROVE Grows(u, May(Open(u, ds)), ds)
    <2>1. Grown(u, Open(u, ds), ds)
      BY Growing DEF Descriptors
    <2> QED BY <2>1, MayGrows DEF Grows, Grown
  <1>4. Grows(q, May(q), ds)
    BY MayGrows DEF Held
  <1>5. Grows(q, S, ds)
    BY <1>2, <1>3, <1>4, GrowsOn DEF Grows, Grown
  <1> QED BY <1>1, <1>5, BodyKeeps DEF BodyLabels, Descriptors

\* Neither the seal nor the first probe opens anything.
LEMMA ProbesKeep ==
    ASSUME Held, Seal \/ ProbeNoReplace
    PROVE  Held'
  <1>1. Grows(q, May(q), {})
    BY MayGrows DEF Held
  <1>2. CASE Seal
    BY <1>1, <1>2, BodyKeeps DEF Seal, BodyLabels
  <1>3. CASE ProbeNoReplace
    <2>3. \A v \in May(q) : "anchor" \in v.open
      BY <1>1, <1>3, BodyStep DEF Grows, Grown, Held, Anchored, ProbeNoReplace
    <2> QED BY <1>1, <2>3, <1>3, BodyKeeps DEF BodyLabels, ProbeNoReplace
  <1> QED BY <1>2, <1>3

\* After this step, if it did not raise, there is a final anchor.
LEMMA AcquireAnchorsKeeps ==
    ASSUME Held, AcquireAnchors
    PROVE  Held'
  <1> DEFINE S1 == Then(May(q), LAMBDA w : {Open(w, {"rollback"})})
             S2 == Then(S1, May)
             S3 == Then(S2, LAMBDA w : {Open(w, {"anchor"})})
             current(w) == {IF At(v, "pending") = "generation" THEN v ELSE Raise(v) : v \in Outside(w)}
             S4 == Then(S3, current)
             ds == {"rollback", "anchor"}
  <1>1. Body("anchors", S4, "noreplace")
    BY Zenon DEF AcquireAnchors
  <1>2. \A v \in S1 : v \in May(q) \/ \E u \in May(q) : v = Open(u, {"rollback"})
    BY DEF Then
  <1>3. \A v \in S2 : v \in S1 \/ \E u \in S1 : v \in May(u)
    BY DEF Then
  <1>4. \A v \in S3 : (v \in S2 /\ Has(v, "err")) \/ \E u \in S2 : v = Open(u, {"anchor"})
    BY DEF Then
  <1>5. \A v \in S4 : (v \in S3 /\ Has(v, "err")) \/ \E u \in S3 : ~Has(u, "err") /\ v \in current(u)
    BY DEF Then
  <1> HIDE DEF S1, S2, S3, S4
  <1>6. ASSUME NEW u \in States
        PROVE  /\ Grown(u, Open(u, {"rollback"}), ds)
               /\ Grown(u, Open(u, {"anchor"}), ds) /\ "anchor" \in Open(u, {"anchor"}).open
               /\ Stay(u, current(u))
    <2>1. /\ Grown(u, Open(u, {"rollback"}), {"rollback"})
          /\ Grown(u, Open(u, {"anchor"}), {"anchor"}) /\ "anchor" \in Open(u, {"anchor"}).open
      BY Growing DEF Descriptors
    <2>2. Stay(u, current(u))
      BY CurrentSame DEF Stay
    <2> HIDE DEF current
    <2> QED BY <2>1, <2>2 DEF Grown
  <1> HIDE DEF current
  <1>7. Grows(q, May(q), ds)
    BY MayGrows DEF Held
  <1>8. Grows(q, S1, ds)
    BY <1>2, <1>6, <1>7, GrowsOn DEF Grows, Grown
  <1>9. Grows(q, S2, ds)
    BY <1>3, <1>8, MayOn
  <1>10. Grows(q, S3, ds)
    BY <1>4, <1>6, <1>9, GrowsOn DEF Grows, Grown
  <1>11. Grows(q, S4, ds)
    <2>1. \A u \in S3 : u \in States
      BY <1>10 DEF Grows, Grown
    <2> QED BY <1>5, <1>10, <1>6, <2>1, SameGrown, GrowsOn DEF Stay
  <1>12. ASSUME NEW v \in S4, ~Has(v, "err") PROVE "anchor" \in v.open
    <2>1. PICK u \in S3 : ~Has(u, "err") /\ v \in current(u)
      BY <1>5, <1>12
    <2> QED BY <1>4, <1>6, <1>9, <2>1, <1>10 DEF Same, Grows, Grown, Stay
  <1> QED BY <1>1, <1>11, <1>12, BodyKeeps DEF BodyLabels, Descriptors

\* The slot is opened where there is a final anchor.
LEMMA MakeSlotKeeps ==
    ASSUME Held, MakeSlot
    PROVE  Held'
  <1> DEFINE S1 == Then(May(q), LAMBDA w : {Put(w, "slot", "slot")})
             S2 == Then(S1, May)
             S3 == Then(S2, LAMBDA w : {Set(w, {"slotNamed"})})
             S4 == Then(S3, May)
             S5 == Then(S4, LAMBDA w : {Open(w, {"slot"})})
             current(w) == {IF At(v, "slot") = "slot" THEN v ELSE Raise(v) : v \in Outside(w)}
             S6 == Then(S5, current)
             ds == {"slot"}
  <1>1. Body("slot", S6, "exchange")
    BY Zenon DEF MakeSlot
  <1>2. \A v \in S1 : v \in May(q) \/ \E u \in May(q) : v = Put(u, "slot", "slot")
    BY DEF Then
  <1>3. \A v \in S2 : v \in S1 \/ \E u \in S1 : v \in May(u)
    BY DEF Then
  <1>4. \A v \in S3 : v \in S2 \/ \E u \in S2 : v = Set(u, {"slotNamed"})
    BY DEF Then
  <1>5. \A v \in S4 : v \in S3 \/ \E u \in S3 : v \in May(u)
    BY DEF Then
  <1>6. \A v \in S5 : v \in S4 \/ \E u \in S4 : v = Open(u, {"slot"})
    BY DEF Then
  <1>7. \A v \in S6 : v \in S5 \/ \E u \in S5 : v \in current(u)
    BY DEF Then
  <1> HIDE DEF S1, S2, S3, S4, S5, S6
  <1>8. ASSUME NEW u \in States
        PROVE  /\ Grown(u, Put(u, "slot", "slot"), ds)
               /\ Grown(u, Open(u, ds), ds)
               /\ Grown(u, Set(u, {"slotNamed"}), ds)
               /\ Grows(u, current(u), ds)
    <2>2. Grows(u, current(u), ds)
      BY CurrentSame, SameGrown DEF Grows, Stay
    <2> HIDE DEF current
    <2> QED BY Own, PutLike, LikeGrown, <2>2, Growing DEF Descriptors, Flags, Places, Names
  <1> HIDE DEF current
  <1>9. Grows(q, May(q), ds)
    BY MayGrows DEF Held
  <1>10. Grows(q, S1, ds)
    BY <1>2, <1>8, <1>9, GrowsOn DEF Grows, Grown
  <1>11. Grows(q, S2, ds)
    BY <1>3, <1>10, MayOn
  <1>12. Grows(q, S3, ds)
    BY <1>4, <1>8, <1>11, GrowsOn DEF Grows, Grown
  <1>13. Grows(q, S4, ds)
    BY <1>5, <1>12, MayOn
  <1>14. Grows(q, S5, ds)
    BY <1>6, <1>8, <1>13, GrowsOn DEF Grows, Grown
  <1>15. Grows(q, S6, ds)
    BY <1>7, <1>8, <1>14, GrowsOn DEF Grows, Grown
  <1>16. "anchor" \in q.open
    BY <1>1, <1>15, BodyStep DEF Held, Anchored, Grows, Grown
  <1> QED BY <1>1, <1>15, <1>16, BodyKeeps DEF BodyLabels, Descriptors, Grows, Grown

\* Neither opens or closes anything.
LEMMA KeptLike ==
    ASSUME NEW w \in States, NEW a \in Names, NEW b \in Names,
           NEW x \in Nodes \ Foreign, NEW y \in Nodes \ Foreign
    PROVE  Alike(w, KeptBoth(w, a, x, b, y)) /\ Alike(w, KeptProbe(w))
  <1>1. ASSUME NEW v \in KeptBoth(w, a, x, b, y)
        PROVE  v \in IsolateEmpty(w, a, x)
               \/ \E u \in IsolateEmpty(w, a, x) : v \in IsolateEmpty(u, b, y)
    BY <1>1 DEF KeptBoth, Then
  <1>2. ASSUME NEW v \in KeptProbe(w)
        PROVE  \/ v \in IsolateEmpty(w, "probe", "probe")
               \/ \E u \in IsolateEmpty(w, "probe", "probe") : v \in May(u)
    BY <1>2 DEF KeptProbe, Then
  <1>3. Alike(w, IsolateEmpty(w, a, x)) /\ Alike(w, IsolateEmpty(w, "probe", "probe"))
    BY Own, IsolateEmptyLevel DEF Names, Alike
  <1>5. Alike(w, KeptProbe(w))
    BY <1>3, PartsLike, LikeTrans, <1>2 DEF Alike, Like
  <1> QED BY <1>3, IsolateEmptyLevel, LikeTrans, <1>1, <1>5 DEF Alike, Like

\* A probe is no descriptor that stays open.
LEMMA ProbeExchangeKeeps ==
    ASSUME Held, ProbeExchange
    PROVE  Held'
  <1> DEFINE swap(w) == Exchange(w, "slot", "probe")
             back(w) == IF At(w, "slot") = "probe" THEN swap(w) ELSE {Raise(w)}
             failing(w, S) == IF Has(w, "err") THEN {Raise(v) : v \in S} ELSE S
             clean(w) ==
               LET v == Clear(w, {"err"})
               IN  CASE At(w, "slot") = "slot" /\ At(w, "probe") = "probe" ->
                          failing(w, IF Has(w, "err") THEN KeptBoth(v, "slot", "slot", "probe", "probe")
                                     ELSE KeptProbe(v))
                     [] At(w, "slot") = "probe" /\ At(w, "probe") = "slot" ->
                          failing(w, KeptBoth(v, "slot", "probe", "probe", "slot"))
                     [] OTHER -> {Raise(w)}
             swapped(w) == UNION {swap(u) : u \in Outside(w)}
             probed(w) == Then(swapped(w), back)
             cleaned(w) == UNION {clean(v) : v \in probed(w)}
             S1 == Then(May(q), LAMBDA w : {Put(w, "probe", "probe")})
             S2 == Then(S1, May)
             S3 == Then(S2, cleaned)
  <1>1. Body("exchange", S3, "replace")
    BY Zenon DEF ProbeExchange, KeptBoth, KeptProbe
  <1>2. \A v \in S1 : v \in May(q) \/ \E u \in May(q) : v = Put(u, "probe", "probe")
    BY DEF Then
  <1>3. \A v \in S2 : v \in S1 \/ \E u \in S1 : v \in May(u)
    BY DEF Then
  <1>4. \A v \in S3 : v \in S2 \/ \E u \in S2 : v \in cleaned(u)
    BY DEF Then
  <1> HIDE DEF S1, S2, S3
  <1>5. ASSUME NEW w \in States PROVE Alike(w, swap(w)) /\ Alike(w, back(w))
    <2>1. Alike(w, swap(w))
      BY ExchangeLike, NamesPlaces DEF Names, Alike
    <2> HIDE DEF swap
    <2> QED BY <2>1, PartsLike DEF Alike
  <1>6. ASSUME NEW w \in States PROVE Alike(w, swapped(w))
    <2> HIDE DEF swap
    <2> QED BY <1>5, PartsLike, LikeTrans DEF Alike, Like
  <1>7. ASSUME NEW w \in States PROVE Alike(w, probed(w))
    <2>1. \A v \in probed(w) : v \in swapped(w) \/ \E u \in swapped(w) : v \in back(u)
      BY DEF Then
    <2> HIDE DEF probed, swapped, back
    <2> QED BY <1>5, <1>6, <2>1, LikeTrans DEF Alike, Like
  <1>8. ASSUME NEW w \in States PROVE Alike(w, clean(w))
    <2>1. Like(w, Clear(w, {"err"})) /\ Like(w, Raise(w))
      BY PartsLike
    <2> DEFINE c == Clear(w, {"err"})
    <2>2. /\ Alike(w, KeptBoth(c, "slot", "slot", "probe", "probe"))
          /\ Alike(w, KeptBoth(c, "slot", "probe", "probe", "slot")) /\ Alike(w, KeptProbe(c))
      <3> HIDE DEF c
      <3>3. Like(w, c)
        BY <2>1 DEF c
      <3> QED BY <2>1, KeptLike, Own, <3>3, LikeTrans DEF Alike, Names, Like
    <2>3. ASSUME NEW S, Alike(w, S) PROVE Alike(w, failing(w, S))
      BY <2>3, MarkedLike
    <2> HIDE DEF failing
    <2> QED BY <2>1, <2>2, <2>3 DEF Alike
  <1>9. ASSUME NEW w \in States PROVE Alike(w, cleaned(w))
    <2> HIDE DEF probed, clean
    <2> QED BY <1>7, <1>8, LikeTrans DEF Alike, Like
  <1> HIDE DEF cleaned
  <1>10. Alike(q, May(q)) /\ q \in States
    BY PartsLike DEF Held
  <1>11. Alike(q, S1)
    <2>1. ASSUME NEW u \in States PROVE Like(u, Put(u, "probe", "probe"))
      BY PutLike, NamesPlaces DEF Nodes, Names
    <2> QED BY <1>2, <1>10, <2>1, ChainLike DEF Alike, Like
  <1>13. Alike(q, S3)
    BY <1>4, <1>9, <1>3, <1>11, ChainLike, PartsLike DEF Alike, Like
  <1>14. Grows(q, S3, {})
    BY <1>13, LikeGrown DEF Alike, Grows
  <1>15. "anchor" \in q.open
    BY <1>1, <1>14, BodyStep DEF Held, Anchored, Grows, Grown
  <1> QED BY <1>1, <1>13, <1>14, <1>15, BodyKeeps DEF BodyLabels, Alike, Like

\* The publication itself opens nothing, also where it is undone at once.
LEMMA ReplaceKeeps ==
    ASSUME Held, Replace
    PROVE  Held'
  <1> DEFINE stated == Then(May(q), LAMBDA w : May(Set(w, {"stated"})))
             ready(w) == Set(w, {"attempted", "required"})
             renamed(w) == UNION {Rename(ready(v), "pending", "normal") : v \in Outside(w)}
             confirmed(w) == May(w)
             undone(w) == {Raise(v) : v \in RollbackAttempted(Set(w, {"required"}), "generations")}
             done(w) == Then(renamed(w), confirmed)
             kept(w) == Except(done(w), undone)
             S == UNION {IF Has(w, "err") THEN {w} ELSE kept(w) : w \in stated}
  <1>1. Body("replace", S, "commit")
    BY Zenon DEF Replace
  <1>2. \A v \in stated : v \in May(q) \/ \E u \in May(q) : v \in May(Set(u, {"stated"}))
    BY DEF Then
  <1>3. \A v \in S : v \in stated \/ \E u \in stated : v \in kept(u)
    BY Zenon
  <1>4. ASSUME NEW w
        PROVE \A v \in kept(w) : v \in done(w) \/ \E u \in done(w) : v \in undone(Clear(u, {"err"}))
    BY DEF Except
  <1>5. ASSUME NEW w PROVE \A v \in done(w) : v \in renamed(w) \/ \E u \in renamed(w) : v \in May(u)
    BY DEF Then
  <1> HIDE DEF S, stated, kept, done
  <1>6. ASSUME NEW w \in States PROVE Grows(w, renamed(w), {})
    <2>1. \A v \in Outside(w) : Grown(w, v, {})
      BY OutsideSame, SameGrown DEF Stay
    <2>2. ASSUME NEW v \in States PROVE Grown(v, ready(v), {})
      BY Growing DEF Flags
    <2>3. ASSUME NEW v \in States PROVE Grows(v, Rename(v, "pending", "normal"), {})
      BY RenameLike, LikeGrown, NamesPlaces DEF Names, Grows
    <2> HIDE DEF ready
    <2> QED BY <2>1, <2>2, <2>3 DEF Grows, Grown
  <1> HIDE DEF renamed
  <1>7. ASSUME NEW w \in States PROVE Grows(w, done(w), {})
    BY <1>5, <1>6, MayOn
  <1>8. ASSUME NEW w \in States PROVE Grows(w, undone(Clear(w, {"err"})), {})
    <2> DEFINE c == Set(Clear(w, {"err"}), {"required"})
    <2>1. Same(w, c) /\ c \in States
      BY RaiseSame, StartedSame, Trans DEF Same
    <2> HIDE DEF c
    <2>2. Stay(w, RollbackAttempted(c, "generations"))
      BY <2>1, RollbackAttemptedSame, Trans DEF Stay
    <2> QED BY <2>2, MarkedSame, SameGrown DEF Stay, Grows, c
  <1> HIDE DEF undone
  <1>9. ASSUME NEW w \in States PROVE Grows(w, kept(w), {})
    BY <1>4, <1>7, <1>8, GrowsOn DEF Grows, Grown
  <1>10. Grows(q, stated, {})
    <2>1. ASSUME NEW u \in States PROVE Grows(u, May(Set(u, {"stated"})), {})
      <3>1. Grown(u, Set(u, {"stated"}), {})
        BY Growing DEF Flags
      <3> QED BY <3>1, MayGrows DEF Grows, Grown
    <2>2. Grows(q, May(q), {})
      BY MayGrows DEF Held
    <2> QED BY <1>2, <2>1, <2>2, GrowsOn DEF Grows, Grown
  <1>11. Grows(q, S, {})
    BY <1>3, <1>9, <1>10, GrowsOn DEF Grows, Grown
  <1>13. \A v \in S : "anchor" \in v.open
    BY <1>11, <1>1, BodyStep DEF Grows, Grown, Held, Anchored
  <1> QED BY <1>1, <1>11, <1>13, BodyKeeps DEF BodyLabels

\* The output binding is opened only for a caller that wants it.
LEMMA CommitKeeps ==
    ASSUME Held, Commit
    PROVE  Held'
  <1> DEFINE w == Clear(Set(q, {"committed"}), {"required"})
             current(v) == {IF At(u, "normal") = "generation" THEN u ELSE Raise(u) : u \in Outside(v)}
             S1 == Then(May(w), current)
             S2 == Then(S1, LAMBDA v : May(Open(v, {"binding"})))
             ds == {"binding"}
             S == IF Has(w, "retain") THEN PinOutputBinding(w) ELSE {w}
  <1>1. Body("commit", S, "housekeeping")
    BY DEF Commit
  <1>2. Grown(q, w, {}) /\ w \in States
    <2>1. /\ Set(q, {"committed"}) \in States /\ Set(q, {"committed"}).open = q.open
          /\ Set(q, {"committed"}).set = q.set \cup {"committed"}
      BY Flagged DEF Held, Flags
    <2>2. /\ w \in States /\ w.open = q.open /\ w.set = (q.set \cup {"committed"}) \ {"required"}
      BY <2>1, Flagged DEF Flags
    <2> QED BY <2>2 DEF Grown
  <1>3. Grows(q, PinOutputBinding(w), ds)
    <2>1. PinOutputBinding(w) = S2
      BY Zenon DEF PinOutputBinding
    <2>2. \A v \in S1 : v \in May(w) \/ \E u \in May(w) : v \in current(u)
      BY DEF Then
    <2>3. \A v \in S2 : v \in S1 \/ \E u \in S1 : v \in May(Open(u, {"binding"}))
      BY DEF Then
    <2> HIDE DEF S1, S2
    <2>4. ASSUME NEW u \in States PROVE Grows(u, current(u), ds)
      BY CurrentSame, SameGrown DEF Stay, Grows
    <2>5. ASSUME NEW u \in States PROVE Grows(u, May(Open(u, ds)), ds)
      <3>1. Grown(u, Open(u, ds), ds)
        BY Growing DEF Descriptors
      <3> QED BY <3>1, MayGrows DEF Grows, Grown
    <2> HIDE DEF current, w
    <2>6. Grows(w, May(w), ds)
      BY <1>2, MayGrows
    <2>7. Grows(w, S1, ds)
      BY <2>2, <2>4, <2>6, GrowsOn DEF Grows, Grown
    <2>8. Grows(w, S2, ds)
      BY <2>3, <2>5, <2>7, GrowsOn DEF Grows, Grown
    <2> QED BY <1>2, <2>1, <2>8 DEF Grows, Grown
  <1>4. Has(w, "retain") <=> "retain" \in q.set
    BY <1>2 DEF Has, Grown
  <1> HIDE DEF w
  <1>5. S \subseteq States
    BY <1>2, <1>3 DEF Grows, Grown
  <1>6. "anchor" \in q.open
    BY <1>1, <1>5, BodyStep DEF Held, Anchored
  <1>7. CASE "retain" \in q.set
    <2>1. Grows(q, S, ds)
      BY <1>3, <1>4, <1>7
    <2> HIDE DEF S
    <2> QED BY <1>1, <1>6, <1>7, <2>1, BodyKeeps DEF BodyLabels, Descriptors
  <1>8. CASE "retain" \notin q.set
    <2>1. Grows(q, S, {})
      BY <1>2, <1>4, <1>8 DEF Grows
    <2> HIDE DEF S
    <2> QED BY <1>1, <2>1, BodyKeeps DEF BodyLabels
  <1> QED BY <1>7, <1>8

\* A call whose arguments are refused holds nothing.
LEMMA ValidateKeeps ==
    ASSUME Held, Validate
    PROVE  Held'
  <1>1. PICK v \in May(q) :
            /\ q' = Clear(v, {"err"})
            /\ IF Has(v, "err") THEN pc' = "done" /\ outcome' = "raised" /\ first' = "validate"
               ELSE pc' = "pin" /\ UNCHANGED <<outcome, first>>
    BY DEF Validate
  <1>2. Same(q, v)
    BY FaultsSame DEF Held, Stay
  <1>3. Same(q, q')
    BY <1>1, <1>2, RaiseSame, Trans DEF Same
  <1>5. q' \in States /\ q'.open = {} /\ q'.set \cap {"lock", "err"} = {}
    BY <1>1, <1>2, Flagged, <1>3 DEF Same, Flags, Volatile, Validate, Held
  <1>6. pc' \in {"done", "pin"}
    BY <1>1
  <1> QED BY <1>5, <1>6 DEF Held, Anchored, Released, Final, NothingLeaks, UntilAnchors, BodyLabels,
        AfterGenerations, AfterEarly, AfterRollback, AfterPending, AfterAnchor, AfterSlot,
        AfterCleanup, AfterIdentity

-----------------------------------------------------------------------------
(* The steps of the finally.                                               *)

USE DEF UntilAnchors, BodyLabels, AfterGenerations, AfterEarly, AfterRollback, AfterPending,
        AfterAnchor, AfterSlot, AfterCleanup, AfterIdentity

\* Fewer flags are compared here.
LEMMA SameKept ==
    ASSUME NEW w, NEW v, Same(w, v)
    PROVE  Kept(w, v)
  BY DEF Same, Kept, Without, Volatile, Lasting

\* The same for a close.
LEMMA ClosedWithout ==
    ASSUME NEW w, NEW v, NEW ds, Closed(w, v, ds)
    PROVE  Without(w, v, ds)
  BY DEF Closed, Without, Volatile, Lasting

\* What lasts, lasts from one part to the next.
LEMMA LastingTrans ==
    ASSUME NEW w, NEW u, NEW v, Lasting(w, u), Lasting(u, v)
    PROVE  Lasting(w, v)
  BY LevelTrans DEF Lasting

\* Parts that keep the descriptors follow each other.
LEMMA KeptTrans ==
    ASSUME NEW w, NEW u, NEW v, Kept(w, u), Kept(u, v)
    PROVE  Kept(w, v)
  BY LastingTrans DEF Kept, Without

\* So do parts that close some.
LEMMA WithoutTrans ==
    ASSUME NEW w, NEW u, NEW v, NEW ds, NEW es, Without(w, u, ds), Without(u, v, es)
    PROVE  Without(w, v, ds \cup es)
  BY LastingTrans DEF Without

\* No flag but retain, those that last, and those of a publication counts.
LEMMA KeptFlags ==
    ASSUME NEW w \in States, NEW fs \in SUBSET (Flags \ {"retain", "attempted", "housekept", "exitFailed"})
    PROVE  /\ Kept(w, w)
           /\ "resolved" \notin fs => Kept(w, Set(w, fs))
           /\ fs \cap {"exitFailed", "releaseFailed", "stated", "required", "retired"} = {}
                => Kept(w, Clear(w, fs))
  BY LevelStill, Flagged, FlaggedExact DEF States, Kept, Without, Lasting

\* Nothing is closed that is not open.
LEMMA NothingClosed ==
    ASSUME NEW w \in States, NEW x, x \notin w.open
    PROVE  Without(w, w, {x})
  BY RaiseSame, SameKept DEF Kept, Without

\* remember_release_failure.
LEMMA RequireKept ==
    ASSUME NEW w \in States
    PROVE  Kept(w, Remember(w)) /\ Kept(w, Require(w)) /\ Kept(w, Require(Remember(w)))
  BY KeptFlags, KeptTrans DEF Remember, Require, Flags, Kept, Without

\* What a step of the finally does to the descriptors is done when the call goes on.
LEMMA LaterStep ==
    ASSUME Held, NEW label, NEW next, NEW S, NEW ds, Finally(label, S, next),
           \A v \in S : Without(q, v, ds)
    PROVE  /\ pc = label /\ pc' = next
           /\ q' \in States /\ q'.open = q.open \ ds
           /\ ("retain" \in q'.set <=> "retain" \in q.set) /\ "err" \notin q'.set
           /\ Lasting(q, q')
  <1>1. PICK v \in S : q' = Clear(v, {"err"})
    BY FinallyStep
  <1>2. v \in States /\ Without(q, v, ds)
    BY DEF Without
  <1>3. Kept(v, q') /\ "err" \notin q'.set
    BY <1>1, <1>2, RaiseSame, SameKept, Flagged DEF Flags
  <1> QED BY <1>2, <1>3, LastingTrans, FinallyStep DEF Without, Kept

\* The labels of the finally that Held tells apart.
LEMMA LaterKeeps ==
    ASSUME Held, q' \in States, q'.open \subseteq q.open,
           "retain" \in q'.set <=> "retain" \in q.set, "err" \notin q'.set,
           pc' \in {"early", "slotEarly", "pendingEarly"} \cup AfterEarly \cup AfterRollback,
           pc \in UntilAnchors \/ pc \in AfterGenerations, Released',
           pc' \in UntilAnchors /\ "anchor" \notin q'.open =>
              pc \in UntilAnchors /\ "anchor" \notin q.open,
           pc' \in AfterEarly /\ "anchor" \notin q'.open => q'.open \cap {"pending", "identity"} = {}
    PROVE  Held'
  BY DEF Held, Anchored, Final, NothingLeaks

\* Only the removal that works does not raise, and then nothing else has happened.
LEMMA CleanedKept ==
    ASSUME Held, NEW v \in Cleaned
    PROVE  Kept(q, v) /\ (~Has(v, "err") => v = q)
  <1>3. ASSUME NEW u \in Unlinked PROVE Kept(q, u) /\ (~Has(u, "err") => u = q)
    BY FaultsSame, RaiseSame, SameKept, MayClean DEF Unlinked, Stay, Held, Has
  <1>4. ASSUME NEW u \in Unlinked, v \in Undone(Clear(u, {"err"})) PROVE Kept(q, v) /\ Has(v, "err")
    <2> DEFINE c == Clear(u, {"err"})
    <2>1. Kept(q, c) /\ c \in States
      BY <1>3, RaiseSame, SameKept, KeptTrans DEF Kept, Without
    <2>2. PICK x \in RollbackAttempted(Require(c), "generations") : v = Raise(x)
      BY <1>4 DEF Undone
    <2> HIDE DEF c
    <2>3. Kept(q, Require(c)) /\ Require(c) \in States
      BY <2>1, RequireKept, KeptTrans DEF Kept, Without
    <2>5. Same(Require(c), v) /\ Has(v, "err")
      BY <2>2, <2>3, RollbackAttemptedSame, RaiseSame, RaiseRaises, Trans DEF Stay, Same
    <2> QED BY <2>3, <2>5, SameKept, KeptTrans
  <1> QED BY <1>3, <1>4 DEF Cleaned, Except

\* So the temporary query leaves the descriptors alone.
LEMMA HousekeepingKeeps ==
    ASSUME Held, Housekeeping
    PROVE  Held' /\ Tended(q, q') /\ q'.open = q.open
  <1> DEFINE E == Cleaned
             S == {IF Has(v, "err") THEN v ELSE Set(v, {"housekept"}) : v \in E}
  <1>1. Finally("housekeeping", S, "early")
    BY Zenon DEF Housekeeping, Cleaned, Unlinked, Undone
  <1>2. \A v \in E : Kept(q, v)
    BY CleanedKept
  <1> HIDE DEF E
  <1>3. ASSUME NEW v \in S
        PROVE  /\ v \in States /\ v.open = q.open
               /\ "retain" \in v.set <=> "retain" \in q.set
               /\ Tended(q, v)
    <2>1. PICK x \in E : v = x \/ v = Set(x, {"housekept"})
      OBVIOUS
    <2> HIDE DEF S
    <2>2. /\ x \in States /\ x.open = q.open
          /\ "retain" \in x.set <=> "retain" \in q.set
          /\ Tended(q, x)
      BY <1>2 DEF Kept, Without, Lasting, Tended
    <2> DEFINE h == Set(x, {"housekept"})
    <2>3. /\ h \in States /\ h.open = x.open /\ h.set = x.set \cup {"housekept"}
          /\ h.where = x.where /\ h.faults = x.faults /\ h.edits = x.edits
      BY <2>2, Flagged, FlaggedExact DEF Flags
    <2> HIDE DEF h
    <2> QED BY <2>1, <2>2, <2>3, LevelStill, LevelTrans DEF h, Tended, States
  <1> HIDE DEF S
  <1>4. PICK v \in S : q' = Clear(v, {"err"}) /\ pc = "housekeeping" /\ pc' = "early"
    BY <1>1, FinallyStep
  <1>5. /\ q' \in States /\ q'.open = q.open /\ "err" \notin q'.set
        /\ "retain" \in q'.set <=> "retain" \in q.set
        /\ Tended(q, q')
    <2>1. Kept(v, q') /\ "err" \notin q'.set /\ Tended(q, v)
      BY <1>3, <1>4, RaiseSame, SameKept, Flagged DEF Flags
    <2> QED BY <1>3, <2>1, LevelTrans DEF Kept, Without, Lasting, Tended
  <1> QED BY <1>4, <1>5, LaterKeeps DEF Released

\* The pending name.
LEMMA FinalizeEarlyKeeps ==
    ASSUME Held, FinalizeEarly
    PROVE  Held' /\ Lasting(q, q') /\ q'.open = q.open
  <1> DEFINE R == Reported(FinalizePending(q))
             S == IF "anchor" \in q.open THEN {q} ELSE R
  <1>1. Finally("early", S, "slotEarly")
    BY DEF FinalizeEarly
  <1>2. \A v \in R : v \in FinalizePending(q) \/
          \E u \in FinalizePending(q) : v = Remember(Clear(u, {"err"}))
    BY DEF Reported, Except
  <1> HIDE DEF R
  <1>3. ASSUME NEW u \in FinalizePending(q) PROVE Kept(q, u) /\ Kept(q, Remember(Clear(u, {"err"})))
    BY FinalizePendingSame, RaiseSame, Trans, SameKept, RequireKept, KeptTrans DEF Held, Stay,
       Same
  <1>4. \A v \in S : Without(q, v, {})
    BY <1>2, <1>3, RaiseSame, SameKept DEF Kept, Held
  <1> HIDE DEF S
  <1> QED BY <1>1, <1>4, LaterStep, LaterKeeps DEF Released

\* A slot that no publication needs.
LEMMA RetireSlotEarlyKeeps ==
    ASSUME Held, RetireSlotEarly
    PROVE  Held' /\ Lasting(q, q') /\ q'.open = q.open
  <1> DEFINE kept(w) ==
               UNION {CASE At(v, "slot") = "none" -> {v}
                        [] At(v, "slot") = "slot" /\ Owned(v) /\ "slot" \in v.open ->
                             IsolateEmpty(v, "slot", "slot")
                        [] OTHER -> {Raise(v)}
                      : v \in Outside(w)}
             K == kept(q)
             E == Except(K, LAMBDA v : RequiredRollback(Remember(v), "generations"))
             S == IF ~Unresolved(q) /\ "generations" \in q.open /\ Has(q, "slotNamed") THEN E ELSE {q}
  <1>1. Finally("slotEarly", S, "pendingEarly")
    BY DEF RetireSlotEarly
  <1>2. \A v \in E : v \in K \/
          \E u \in K : v \in RequiredRollback(Remember(Clear(u, {"err"})), "generations")
    BY DEF Except
  <1>3. ~Unresolved(q) => Stay(q, K)
    <2> SUFFICES ASSUME ~Unresolved(q), NEW v \in Outside(q)
                 PROVE  /\ Same(q, v) /\ Same(q, Raise(v))
                        /\ Stay(q, IsolateEmpty(v, "slot", "slot"))
      BY DEF Stay
    <2>1. Same(q, v) /\ v \in States /\ v.set = q.set
      BY OutsideSame, OutsideExact DEF Held, Stay, Same
    <2>2. Same(v, Raise(v)) /\ Stay(v, IsolateEmpty(v, "slot", "slot"))
      BY <2>1, Own, RaiseSame, IsolateEmptyLevel DEF Spare, Unresolved, Has, Names, Stay
    <2> QED BY <2>1, <2>2, Trans DEF Stay
  <1> HIDE DEF E, K
  <1>4. ASSUME ~Unresolved(q), NEW u \in K
        PROVE \A v \in RequiredRollback(Remember(Clear(u, {"err"})), "generations") : Kept(q, v)
    <2> DEFINE c == Remember(Clear(u, {"err"}))
    <2>1. Kept(q, c) /\ c \in States
      <3>1. Same(q, u) /\ u \in States
        BY <1>3, <1>4 DEF Stay, Same
      <3> QED
        BY <3>1, RaiseSame, Trans, RequireKept, SameKept, KeptTrans DEF Kept, Without, Same
    <2> HIDE DEF c
    <2> QED BY <2>1, RequiredSame, SameKept, KeptTrans DEF c, Stay
  <1>5. \A v \in S : Without(q, v, {})
    BY <1>2, <1>3, <1>4, RaiseSame, SameKept DEF Kept, Held, Stay
  <1> HIDE DEF S
  <1>6. pc = "slotEarly" /\ pc' = "pendingEarly" /\ q' \in States /\ q'.open = q.open \ {}
        /\ ("retain" \in q'.set <=> "retain" \in q.set) /\ "err" \notin q'.set
        /\ Lasting(q, q')
    BY <1>1, <1>5, LaterStep
  <1> QED BY <1>6, LaterKeeps DEF Released

\* A descriptor that is released is closed, whatever else fails.
LEMMA ReleaseWithout ==
    ASSUME NEW w \in States, NEW x, NEW d,
           NEW before \in {"rollback", "recovery", "nothing"},
           NEW after \in {"rollback", "recovery", "nothing"}
    PROVE  \A v \in IF x \in w.open THEN Release(w, x, before, after, d) ELSE {w} : Without(w, v, {x})
  BY ReleaseCloses, ClosedWithout, NothingClosed

\* Without the final anchor the pending directory is given back here.
LEMMA ReleasePendingEarlyKeeps ==
    ASSUME Held, ReleasePendingEarly
    PROVE  Held' /\ Lasting(q, q') /\ ("anchor" \in q.open => q'.open = q.open)
  <1> DEFINE release(w, d) == IF d \in w.open THEN Release(w, d, "nothing", "nothing", d) ELSE {w}
             R == UNION {release(v, "identity") : v \in release(q, "pending")}
             S == IF "anchor" \in q.open THEN {q} ELSE R
             gone == IF "anchor" \in q.open THEN {} ELSE {"pending", "identity"}
  <1>1. Finally("pendingEarly", S, "generations")
    BY DEF ReleasePendingEarly
  <1>2. ASSUME NEW w \in States, NEW d PROVE \A v \in release(w, d) : Without(w, v, {d})
    BY ReleaseWithout
  <1> HIDE DEF release
  <1>3. \A v \in R : Without(q, v, {"pending", "identity"})
    <2>1. ASSUME NEW u \in release(q, "pending"), NEW v \in release(u, "identity")
          PROVE  Without(q, v, {"pending"} \cup {"identity"})
      <3>1. Without(q, u, {"pending"}) /\ Without(u, v, {"identity"})
        BY <1>2 DEF Without, Held
      <3> QED BY <3>1, WithoutTrans
    <2> QED BY <2>1
  <1> HIDE DEF R
  <1>4. \A v \in S : Without(q, v, gone)
    BY <1>3, RaiseSame, SameKept DEF Kept, Held
  <1> HIDE DEF S
  <1>5. pc = "pendingEarly" /\ pc' = "generations" /\ q' \in States /\ q'.open = q.open \ gone
        /\ ("retain" \in q'.set <=> "retain" \in q.set) /\ "err" \notin q'.set
        /\ Lasting(q, q')
    BY <1>1, <1>4, LaterStep
  <1> QED BY <1>5, LaterKeeps DEF Released

\* The descriptor of .generations.
LEMMA ReleaseGenerationsKeeps ==
    ASSUME Held, ReleaseGenerations
    PROVE  Held' /\ Lasting(q, q') /\ q'.open = q.open \ {"generations"}
  <1> DEFINE S == IF "generations" \in q.open
                  THEN Release(q, "generations", "rollback", "rollback", "rollback") ELSE {q}
  <1>1. Finally("generations", S, "cleanupAnchor")
    BY DEF ReleaseGenerations
  <1>2. \A v \in S : Without(q, v, {"generations"})
    BY ReleaseWithout DEF Held
  <1> HIDE DEF S
  <1>3. pc = "generations" /\ pc' = "cleanupAnchor" /\
        q' \in States /\ q'.open = q.open \ {"generations"}
        /\ ("retain" \in q'.set <=> "retain" \in q.set) /\ "err" \notin q'.set
        /\ Lasting(q, q')
    BY <1>1, <1>2, LaterStep
  <1> QED BY <1>3, LaterKeeps DEF Held, Anchored, Released

\* The one descriptor the finally opens, and only where there is a final anchor.
LEMMA DuplicateCleanupAnchorKeeps ==
    ASSUME Held, DuplicateCleanupAnchor
    PROVE  Held' /\ Lasting(q, q') /\ q.open \subseteq q'.open
  <1> DEFINE U == UNION {RequiredRollback(Remember(v), "anchor") : v \in Faults(q)}
             S == IF {"rollback", "anchor"} \subseteq q.open /\ "binding" \notin q.open
                  THEN {Open(q, {"cleanup"})} \cup U ELSE {q}
  <1>1. Finally("cleanupAnchor", S, "rollback")
    BY DEF DuplicateCleanupAnchor
  <1>2. \A v \in U : Kept(q, v)
    <2>1. ASSUME NEW v \in Faults(q) PROVE Kept(q, Remember(v)) /\ Remember(v) \in States
      BY FaultsSame, SameKept, RequireKept, KeptTrans DEF Held, Stay, Same, Kept, Without
    <2>2. ASSUME NEW c \in States, Kept(q, c) PROVE \A u \in RequiredRollback(c, "anchor") : Kept(q, u)
      BY <2>2, RequiredSame, SameKept, KeptTrans DEF Stay
    <2> QED BY <2>1, <2>2
  <1> HIDE DEF U
  <1>3. ASSUME NEW v \in S
        PROVE  /\ v \in States
               /\ "retain" \in v.set <=> "retain" \in q.set
               /\ v.open = q.open \/ (v.open = q.open \cup {"cleanup"} /\ "anchor" \in q.open)
               /\ Lasting(q, v)
    <2> DEFINE o == Open(q, {"cleanup"})
    <2>1. /\ o \in States /\ o.open = q.open \cup {"cleanup"} /\ o.set = q.set
          /\ o.where = q.where /\ o.faults = q.faults /\ o.edits = q.edits /\ q.faults \in Nat
      BY DEF Held, Open, States, Descriptors
    <2>2. (v = o /\ "anchor" \in q.open) \/ v \in U \/ v = q
      OBVIOUS
    <2> HIDE DEF o
    <2>4. Lasting(q, o) /\ Kept(q, q)
      BY <2>1, LevelStill, RaiseSame, SameKept DEF Held, Lasting
    <2>5. CASE v = o /\ "anchor" \in q.open
      BY <2>1, <2>4, <2>5
    <2>6. CASE Kept(q, v)
      BY <2>6 DEF Kept, Without
    <2> QED BY <1>2, <2>2, <2>4, <2>5, <2>6
  <1> HIDE DEF S
  <1>4. pc = "cleanupAnchor" /\ pc' = "rollback"
    BY <1>1, FinallyStep
  <1>5. PICK v \in S : q' = Clear(v, {"err"})
    BY <1>1, FinallyStep
  <1>6. /\ q' \in States /\ "err" \notin q'.set
        /\ "retain" \in q'.set <=> "retain" \in q.set
        /\ q'.open = q.open \/ (q'.open = q.open \cup {"cleanup"} /\ "anchor" \in q.open)
        /\ Lasting(q, q')
    <2>1. v \in States /\ Lasting(q, v)
      BY <1>3
    <2>2. Kept(v, q') /\ "err" \notin q'.set
      BY <1>5, <2>1, RaiseSame, SameKept, Flagged DEF Flags
    <2> QED BY <1>3, <2>2, <2>1, LastingTrans DEF Kept, Without
  <1>7. CASE q'.open = q.open
    BY <1>4, <1>6, <1>7, LaterKeeps DEF Held, Anchored, Released
  <1>8. CASE q'.open = q.open \cup {"cleanup"} /\ "anchor" \in q.open
    BY <1>4, <1>8, <1>6 DEF Anchored, Held, Released, Final, NothingLeaks
  <1> QED BY <1>6, <1>7, <1>8

\* The rollback descriptor.
LEMMA ReleaseRollbackKeeps ==
    ASSUME Held, ReleaseRollback
    PROVE  Held' /\ Lasting(q, q') /\ q'.open = q.open \ {"rollback"}
  <1> DEFINE S == IF "rollback" \in q.open
                  THEN Release(q, "rollback", "rollback", "rollback", "anchor") ELSE {q}
  <1>1. Finally("rollback", S, "finalize")
    BY DEF ReleaseRollback
  <1>2. \A v \in S : Without(q, v, {"rollback"})
    BY ReleaseWithout DEF Held
  <1> HIDE DEF S
  <1>3. pc = "rollback" /\ pc' = "finalize" /\ q' \in States /\ q'.open = q.open \ {"rollback"}
        /\ ("retain" \in q'.set <=> "retain" \in q.set) /\ "err" \notin q'.set
        /\ Lasting(q, q')
    BY <1>1, <1>2, LaterStep
  <1> QED BY <1>3, LaterKeeps DEF Held, Anchored, Released

\* Without the final anchor nothing is left for the rest of the finally.
LEMMA FinalizePublicationKeeps ==
    ASSUME Held, FinalizePublication
    PROVE  Held' /\ Lasting(q, q') /\ q'.open = q.open
  <1> DEFINE E == Except(FinalizePending(q), LAMBDA w : {Require(Remember(w))})
             S == IF "anchor" \in q.open THEN UNION {Recover(v, "anchor") : v \in E} ELSE {q}
             next == IF "anchor" \in q.open THEN "pendingLate" ELSE "drain"
  <1>1. Finally("finalize", S, next)
    BY Zenon DEF FinalizePublication, Finally, Step
  <1>2. \A v \in E : v \in FinalizePending(q) \/
          \E u \in FinalizePending(q) : v = Require(Remember(Clear(u, {"err"})))
    BY DEF Except
  <1> HIDE DEF E
  <1>3. ASSUME NEW u \in FinalizePending(q)
        PROVE Kept(q, u) /\ Kept(q, Require(Remember(Clear(u, {"err"}))))
    <2>1. Same(q, u) /\ Same(q, Clear(u, {"err"}))
      <3>1. Same(q, u) /\ u \in States
        BY FinalizePendingSame DEF Held, Stay, Same
      <3> QED BY <3>1, RaiseSame, Trans
    <2> QED BY <2>1, SameKept, RequireKept, KeptTrans DEF Same
  <1>4. ASSUME NEW u \in E PROVE \A v \in Recover(u, "anchor") : Kept(q, v)
    <2>1. Kept(q, u) /\ u \in States
      BY <1>2, <1>3 DEF Kept, Without
    <2> QED BY <2>1, RecoverSame, SameKept, KeptTrans DEF Stay
  <1>5. \A v \in S : Without(q, v, {})
    BY <1>4, RaiseSame, SameKept DEF Kept, Held
  <1> HIDE DEF S
  <1>6. /\ pc = "finalize" /\ pc' = next
        /\ q' \in States /\ q'.open = q.open \ {} /\ "err" \notin q'.set
        /\ "retain" \in q'.set <=> "retain" \in q.set
        /\ Lasting(q, q')
    <2> HIDE DEF next
    <2> QED BY <1>1, <1>5, LaterStep
  <1> QED BY <1>6, LaterKeeps DEF Held, Anchored, Released

\* The pending directory.
LEMMA ReleasePendingKeeps ==
    ASSUME Held, ReleasePending
    PROVE  Held' /\ Lasting(q, q') /\ q'.open = q.open \ {"pending"}
  <1> DEFINE S == IF "pending" \in q.open
                  THEN Release(q, "pending", "recovery", "recovery", "anchor") ELSE {q}
  <1>1. Finally("pendingLate", S, "anchor")
    BY DEF ReleasePending
  <1>2. \A v \in S : Without(q, v, {"pending"})
    BY ReleaseWithout DEF Held
  <1> HIDE DEF S
  <1>3. pc = "pendingLate" /\ pc' = "anchor" /\ q' \in States /\ q'.open = q.open \ {"pending"}
        /\ ("retain" \in q'.set <=> "retain" \in q.set) /\ "err" \notin q'.set
        /\ Lasting(q, q')
    BY <1>1, <1>2, LaterStep
  <1> QED BY <1>3, LaterKeeps DEF Held, Released

\* The final anchor.
LEMMA ReleaseAnchorKeeps ==
    ASSUME Held, ReleaseAnchor
    PROVE  Held' /\ Lasting(q, q') /\ q'.open = q.open \ {"anchor"}
  <1> DEFINE S == Release(q, "anchor", "rollback", "nothing", "anchor")
  <1>1. Finally("anchor", S, "retire")
    BY DEF ReleaseAnchor
  <1>2. \A v \in S : Without(q, v, {"anchor"})
    BY ReleaseCloses, ClosedWithout DEF Held
  <1> HIDE DEF S
  <1>3. pc = "anchor" /\ pc' = "retire" /\ q' \in States /\ q'.open = q.open \ {"anchor"}
        /\ ("retain" \in q'.set <=> "retain" \in q.set) /\ "err" \notin q'.set
        /\ Lasting(q, q')
    BY <1>1, <1>2, LaterStep
  <1> QED BY <1>3, LaterKeeps DEF Held, Released

\* The slot moves, or what was in its place is put back.
LEMMA MoveSlotKept ==
    ASSUME NEW w \in States
    PROVE  \A v \in MoveSlot(w) : Kept(w, v) /\ Gentle(w, v)
  <1> DEFINE moved(v, u) == {y \in Nodes : v.where[y] = "slot" /\ u.where[y] = "inside"}
             r(u) == Set(Clear(u, {"err"}), {"retired"})
             ends(v, u) ==
               IF moved(v, u) = {"slot"} THEN RequireAbsent(r(u), "slot")
               ELSE IF moved(v, u) # {} THEN Restore(r(u), CHOOSE y \in moved(v, u) : TRUE, "slot")
               ELSE IF At(u, "slot") = "slot" THEN {Raise(u)}
               ELSE {Raise(r(u))}
  <1>1. MoveSlot(w) = UNION {UNION {ends(v, u) : u \in Rename(v, "slot", "inside")} : v \in Outside(w)}
    BY DEF MoveSlot
  <1>2. ASSUME NEW u \in States
        PROVE  /\ r(u) \in States /\ r(u).open = u.open /\ r(u).where = u.where
               /\ r(u).faults = u.faults /\ r(u).edits = u.edits
               /\ r(u).set = (u.set \ {"err"}) \cup {"retired"}
    <2> DEFINE c == Clear(u, {"err"})
    <2> HIDE DEF c
    <2> QED BY Flagged, FlaggedExact DEF c, Flags
  <1> HIDE DEF r
  <1>3. ASSUME NEW v \in States, NEW u \in Rename(v, "slot", "inside")
        PROVE  \A z \in ends(v, u) : Kept(v, z) /\ Gentle(v, z)
    <2>1. /\ u \in States /\ u.open = v.open /\ u.set \ {"err"} = v.set \ {"err"}
          /\ u.edits = v.edits /\ u.faults \in {v.faults, v.faults + 1}
          /\ \/ u.where = v.where
             \/ At(v, "slot") \in Nodes /\ u.where = [v.where EXCEPT ![At(v, "slot")] = "inside"]
      BY RenameExact, NamesPlaces
    <2>2. u.faults >= v.faults /\ v.where \in [Nodes -> Places]
      BY <2>1 DEF States
    <2> DEFINE t == Set(v, {"retired"})
    <2>3. /\ t \in States /\ t.open = v.open /\ t.where = v.where /\ t.faults = v.faults
          /\ t.edits = v.edits /\ t.set = v.set \cup {"retired"}
      BY Flagged, FlaggedExact DEF Flags
    <2>4. Kept(v, t) /\ Gentle(v, t)
      BY KeptFlags, <2>3 DEF Flags, Gentle, Unique, Tame
    <2> HIDE DEF t
    <2>5. /\ r(u) \in States /\ r(u).open = t.open /\ r(u).set \ {"err"} = t.set \ {"err"}
          /\ r(u).edits = t.edits /\ r(u).faults >= t.faults /\ r(u).where = u.where
      BY <1>2, <2>1, <2>2, <2>3
    <2>6. ASSUME NEW z \in States, z.open = v.open, z.where = v.where,
                 z.set \ {"err", "retired"} = v.set \ {"err", "retired"},
                 "retired" \in v.set => "retired" \in z.set,
                 z.faults >= v.faults, z.edits = v.edits
          PROVE  Kept(v, z) /\ Gentle(v, z)
      BY <2>6, LevelStill DEF Flags, Kept, Without, Lasting
    <2>7. ASSUME NEW y \in moved(v, u)
          PROVE  /\ y \in Nodes /\ v.where[y] = "slot" /\ u.where = [v.where EXCEPT ![y] = "inside"]
                 /\ At(v, "slot") = y
      BY <2>1, <2>2
    <2>8. CASE moved(v, u) = {"slot"}
      <3>2. v.where["slot"] = "slot" /\ u.where = [v.where EXCEPT !["slot"] = "inside"]
        BY <2>7, <2>8
      <3>3. "slot" \in Names /\ "slot" \in Nodes /\ "slot" \notin Foreign
        BY Own DEF Names
      <3>4. Level(t, r(u)) /\ Gentle(t, r(u)) /\ Firm(t, r(u))
        <4>1. /\ t.where["slot"] = "slot" /\ r(u).where = [t.where EXCEPT !["slot"] = "inside"]
              /\ "retired" \in t.set
          BY <2>3, <2>5, <3>2
        <4> QED BY <2>3, <2>5, <3>3, <4>1, HiddenLevel
      <3>6. Kept(v, r(u)) /\ Gentle(v, r(u))
        BY <2>4, <3>4, <2>5, KeptTrans DEF Gentle, Kept, Without, Lasting
      <3> QED BY <2>8, <3>6, <2>5, AbsentSame, SameKept, KeptTrans DEF Gentle, Stay
    <2>9. CASE moved(v, u) # {} /\ moved(v, u) # {"slot"}
      <3> DEFINE y == CHOOSE x \in moved(v, u) : TRUE
      <3>1. y \in moved(v, u)
        BY <2>9
      <3> HIDE DEF y
      <3>4. ASSUME NEW z \in Restore(r(u), y, "slot")
            PROVE  Like(t, z) /\ Level(t, z) /\ Gentle(t, z) /\ Firm(t, z)
        BY <2>3, <2>5, <2>7, <3>1, RestoredLevel DEF Names
      <3>5. ASSUME NEW z \in Restore(r(u), y, "slot") PROVE Kept(v, z) /\ Gentle(v, z)
        BY <3>4, SameKept, <2>4, KeptTrans DEF Same, Like, Gentle
      <3> QED BY <3>5, <2>9 DEF y
    <2>10. CASE moved(v, u) = {}
      <3>1. u.where = v.where
        <4> SUFFICES ASSUME At(v, "slot") \in Nodes,
                            u.where = [v.where EXCEPT ![At(v, "slot")] = "inside"]
                     PROVE  FALSE
          BY <2>1
        <4> QED BY <2>10, <2>2, AtHolds
      <3>2. ASSUME NEW c \in {u, r(u)} PROVE Kept(v, Raise(c)) /\ Gentle(v, Raise(c))
        <4>1. /\ c \in States /\ c.open = v.open /\ c.where = v.where /\ c.edits = v.edits
              /\ c.faults >= v.faults /\ c.set \ {"err", "retired"} = v.set \ {"err", "retired"}
              /\ "retired" \in v.set => "retired" \in c.set
          BY <2>1, <2>2, <2>3, <2>5, <3>1
        <4> QED BY <2>6, <4>1, RaiseRaises, Flagged DEF Raise, Flags
      <3> QED BY <2>10, <3>2
    <2> QED BY <2>8, <2>9, <2>10
  <1> HIDE DEF ends
  <1>4. ASSUME NEW v \in Outside(w), NEW u \in Rename(v, "slot", "inside"), NEW z \in ends(v, u)
        PROVE  Kept(w, z) /\ Gentle(w, z)
    BY OutsideSame, SameKept, <1>3, KeptTrans DEF Stay, Same, Gentle
  <1> QED BY <1>1, <1>4

\* The last checks before and after the slot moves.
LEMMA RequirePublishedSame ==
    ASSUME NEW w \in States
    PROVE  Stay(w, RequirePublished(w))
  <1>1. Stay(w, UNION {May(u) : u \in Outside(w)})
    BY OutsideSame, FaultsSame, Trans DEF Stay, Same
  <1> QED BY <1>1, MarkedSame DEF RequirePublished

\* The retirement of the slot, and the recovery when it fails.
LEMMA RetireSlotKeeps ==
    ASSUME Held, RetireSlot
    PROVE  Held' /\ Lasting(q, q') /\ q'.open = q.open
  <1> DEFINE w == Set(q, {"retiring"})
             ready(v) == {IF At(v, "slot") = "slot" THEN v ELSE Raise(v)}
             again(v) == Then(RequirePublished(v), LAMBDA u : RequireAbsent(u, "slot"))
             S1 == RequirePublished(w)
             S2 == Then(S1, ready)
             S3 == Then(S2, MoveSlot)
             S4 == Then(S3, again)
             E == Except(S4, LAMBDA v : Recover(Require(Remember(v)), CleanupAnchor(v)))
             S == IF /\ q.set \cap {"releaseFailed", "rollbackFailed", "required"} = {}
                     /\ Has(q, "committed") /\ Unresolved(q)
                  THEN E ELSE {q}
  <1>1. Finally("retire", S, "slotLate")
    BY Zenon DEF RetireSlot
  <1>2. \A v \in S2 : v \in S1 \/ \E u \in S1 : v \in ready(u)
    BY DEF Then
  <1>3. \A v \in S3 : v \in S2 \/ \E u \in S2 : v \in MoveSlot(u)
    BY DEF Then
  <1>4. \A v \in S4 : v \in S3 \/ \E u \in S3 : v \in again(u)
    BY DEF Then
  <1>5. \A v \in E : v \in S4 \/ \E c : \E u \in S4 :
           c = Clear(u, {"err"}) /\ v \in Recover(Require(Remember(c)), CleanupAnchor(c))
    BY Zenon DEF Except
  <1>6. ASSUME NEW u \in States PROVE Stay(u, again(u))
    <2>1. \A v \in again(u) :
             v \in RequirePublished(u) \/ \E x \in RequirePublished(u) : v \in RequireAbsent(x, "slot")
      BY DEF Then
    <2> HIDE DEF again
    <2> QED BY <2>1, RequirePublishedSame, AbsentSame, Trans DEF Stay, Same
  <1> HIDE DEF S2, S3, S4, E, again
  <1>7. Kept(q, w) /\ w \in States
    BY KeptFlags DEF Held, Flags, Kept, Without
  <1> HIDE DEF w
  <1>8. \A v \in S1 : Kept(q, v) /\ v \in States
    BY <1>7, RequirePublishedSame, SameKept, KeptTrans DEF Stay, Same
  <1> HIDE DEF S1
  <1>9. \A v \in S2 : Kept(q, v) /\ v \in States
    <2>1. ASSUME NEW u \in S1, NEW v \in ready(u) PROVE Kept(u, v)
      BY <1>8, RaiseSame, SameKept
    <2> QED BY <1>2, <1>8, <2>1, KeptTrans DEF Kept, Without
  <1> HIDE DEF ready
  <1>10. \A v \in S3 : Kept(q, v) /\ v \in States
    BY <1>9, MoveSlotKept, <1>3, KeptTrans DEF Kept, Without
  <1>11. \A v \in S4 : Kept(q, v) /\ v \in States
    BY <1>6, <1>10, SameKept, <1>4, KeptTrans DEF Stay, Kept, Without
  <1>12. \A v \in E : Kept(q, v)
    <2>1. ASSUME NEW u \in S4, NEW v, NEW c, c = Clear(u, {"err"}),
                 v \in Recover(Require(Remember(c)), CleanupAnchor(c))
          PROVE  Kept(q, v)
      <3>1. Kept(q, c) /\ c \in States
        BY <1>11, <2>1, RaiseSame, SameKept, KeptTrans DEF Kept, Without
      <3> QED
        BY <3>1, RequireKept, KeptTrans, <2>1, RecoverSame, SameKept DEF Stay, Kept, Without
    <2> QED BY <1>5, <1>11, <2>1
  <1>13. \A v \in S : Without(q, v, {})
    BY <1>12, RaiseSame, SameKept DEF Kept, Held
  <1> HIDE DEF S
  <1>14. pc = "retire" /\ pc' = "slotLate" /\ q' \in States /\ q'.open = q.open \ {}
         /\ ("retain" \in q'.set <=> "retain" \in q.set) /\ "err" \notin q'.set
         /\ Lasting(q, q')
    BY <1>1, <1>13, LaterStep
  <1> QED BY <1>14, LaterKeeps DEF Held, Released

\* The slot, also where the recovery is tried a second time.
LEMMA ReleaseSlotKeeps ==
    ASSUME Held, ReleaseSlot
    PROVE  Held' /\ Lasting(q, q')
  <1> DEFINE recovery == IF Has(q, "retiring") THEN "recovery" ELSE "nothing"
             again(w) == IF Has(w, "retired") /\ ~Has(w, "resolved")
                         THEN Undo(w, recovery, CleanupAnchor(w)) ELSE {w}
             closed == Close(q, {"slot"})
             R == Release(q, "slot", recovery, "nothing", CleanupAnchor(q))
             S == IF "slot" \in q.open THEN UNION {IF v = closed THEN {v} ELSE again(v) : v \in R}
                  ELSE {q}
  <1>1. Finally("slotLate", S, "cleanup")
    BY DEF ReleaseSlot
  <1>2. recovery \in {"rollback", "recovery", "nothing"}
    OBVIOUS
  <1> HIDE DEF recovery
  <1>3. \A v \in R : Without(q, v, {"slot"}) /\ v \in States
    <2>1. \A v \in R : Closed(q, v, {"slot"})
      BY <1>2, ReleaseCloses DEF Held
    <2> HIDE DEF R
    <2> QED BY <2>1, ClosedWithout DEF Without
  <1>4. ASSUME NEW u \in States PROVE \A v \in again(u) : Kept(u, v)
    BY <1>2, UndoSame, RaiseSame, SameKept DEF Stay
  <1> HIDE DEF R, again, closed
  <1>5. \A v \in S : Without(q, v, {"slot"})
    <2>1. ASSUME NEW u \in R, NEW v \in again(u) PROVE Without(q, v, {"slot"})
      BY <1>3, <1>4, WithoutTrans DEF Kept
    <2> QED BY <1>3, <2>1, NothingClosed DEF Held
  <1> HIDE DEF S
  <1>6. pc = "slotLate" /\ pc' = "cleanup" /\ q' \in States /\ q'.open = q.open \ {"slot"}
        /\ ("retain" \in q'.set <=> "retain" \in q.set) /\ "err" \notin q'.set
        /\ Lasting(q, q')
    BY <1>1, <1>5, LaterStep
  <1> QED BY <1>6, LaterKeeps DEF Held, Released

\* The cleanup anchor.
LEMMA ReleaseCleanupKeeps ==
    ASSUME Held, ReleaseCleanup
    PROVE  Held' /\ Lasting(q, q')
  <1> DEFINE S == IF "cleanup" \in q.open
                  THEN Release(q, "cleanup", "recovery", "nothing", "cleanup") ELSE {q}
  <1>1. Finally("cleanup", S, "identity")
    BY DEF ReleaseCleanup
  <1>2. \A v \in S : Without(q, v, {"cleanup"})
    BY ReleaseWithout DEF Held
  <1> HIDE DEF S
  <1>3. pc = "cleanup" /\ pc' = "identity" /\ q' \in States /\ q'.open = q.open \ {"cleanup"}
        /\ ("retain" \in q'.set <=> "retain" \in q.set) /\ "err" \notin q'.set
        /\ Lasting(q, q')
    BY <1>1, <1>2, LaterStep
  <1> QED BY <1>3, LaterKeeps DEF Held, Released

\* The identity anchor.
LEMMA ReleaseIdentityKeeps ==
    ASSUME Held, ReleaseIdentity
    PROVE  Held' /\ Lasting(q, q')
  <1> DEFINE S == IF "identity" \in q.open
                  THEN Release(q, "identity", "nothing", "nothing", "identity") ELSE {q}
  <1>1. Finally("identity", S, "drain")
    BY DEF ReleaseIdentity
  <1>2. \A v \in S : Without(q, v, {"identity"})
    BY ReleaseWithout DEF Held
  <1> HIDE DEF S
  <1>3. pc = "identity" /\ pc' = "drain" /\ q' \in States /\ q'.open = q.open \ {"identity"}
        /\ ("retain" \in q'.set <=> "retain" \in q.set) /\ "err" \notin q'.set
        /\ Lasting(q, q')
    BY <1>1, <1>2, LaterStep
  <1> QED BY <1>3, LaterKeeps DEF Held, Released

\* At the drain only the output binding and the decoded file are left.
LEMMA DrainKeeps ==
    ASSUME Held, Drain
    PROVE  Held' /\ Lasting(q, q')
  <1> DEFINE held == IF "binding" \in q.open
                     THEN IF Has(q, "exitFailed") \/ ~Clean(q) THEN {"binding", "decoded"} ELSE {}
                     ELSE q.open \cap {"decoded"}
             failed == IF held = {} THEN {} ELSE {Remember(Close(v, held)) : v \in Faults(q)}
             closed == {Close(q, held)} \cup failed
             S == {Clear(v, {"lock"}) : v \in closed}
  <1>1. Finally("drain", S, "conclude")
    BY DEF Drain
  <1>2. pc = "drain" /\ pc' = "conclude"
    BY <1>1, FinallyStep
  <1>3. q \in States /\ q.open \subseteq {"binding", "decoded"} /\
        ("binding" \in q.open => "retain" \in q.set)
    BY <1>2 DEF Held, Released, States, Descriptors
  <1>4. /\ held \subseteq {"binding", "decoded"}
        /\ q.open \ held # {} => /\ held = {} /\ "binding" \in q.open
                                 /\ Clean(q) /\ "exitFailed" \notin q.set
    BY <1>3 DEF Has
  <1> HIDE DEF held
  <1>5. Closed(q, Close(q, held), held)
    BY <1>3, RaiseSame, RememberClosed
  <1>6. ASSUME NEW v \in failed PROVE Closed(q, v, held) /\ held # {}
    <2>1. PICK u \in Faults(q) : v = Remember(Close(u, held))
      BY <1>6
    <2>2. Same(q, u)
      BY <1>3, FaultsSame DEF Stay
    <2> QED BY <1>3, <1>6, <2>1, <2>2, RememberClosed
  <1> HIDE DEF failed
  <1>7. PICK v \in closed : q' = Clear(Clear(v, {"lock"}), {"err"})
    BY <1>1, FinallyStep
  <1>8. Closed(q, v, held) /\ (v = Close(q, held) \/ held # {})
    BY <1>5, <1>6, <1>7
  <1>9. /\ q' \in States /\ q'.open = v.open /\ q'.set = (v.set \ {"lock"}) \ {"err"}
    <2>1. v \in States
      BY <1>8 DEF Closed
    <2>2. Clear(v, {"lock"}) \in States /\ Clear(v, {"lock"}).open = v.open
          /\ Clear(v, {"lock"}).set = v.set \ {"lock"}
      BY <2>1, Flagged DEF Flags
    <2> QED BY <1>7, <2>2, Flagged DEF Flags
  <1>10. /\ "lock" \notin q'.set /\ q'.open = q.open \ held
         /\ "retain" \in q'.set <=> "retain" \in q.set
    BY <1>8, <1>9 DEF Closed, Volatile
  <1>11. Lasting(q, q')
    <2>1. v \in States /\ Without(q, v, held)
      BY <1>8, ClosedWithout DEF Closed
    <2>2. Kept(v, Clear(v, {"lock"})) /\ Clear(v, {"lock"}) \in States
      BY <2>1, KeptFlags DEF Flags, Kept, Without
    <2>3. Kept(Clear(v, {"lock"}), q')
      BY <1>7, <2>2, RaiseSame, SameKept
    <2> QED BY <2>1, <2>2, <2>3, LastingTrans DEF Kept, Without
  <1>12. Final'
    <2>1. ASSUME q'.open # {}
          PROVE  /\ q'.open \subseteq {"binding", "decoded"} /\ "retain" \in q'.set
                 /\ Clean(q') /\ "exitFailed" \notin q'.set
      <3>1. held = {} /\ "retain" \in q.set /\ Clean(q) /\ "exitFailed" \notin q.set
        BY <1>3, <1>4, <1>10, <2>1
      <3>2. v.set = q.set
        BY <1>3, <1>8, <3>1, CloseCloses
      <3> QED BY <1>3, <1>9, <1>10, <3>1, <3>2 DEF Clean
    <2> QED BY <1>10, <2>1 DEF Final
  <1> QED BY <1>2, <1>3, <1>9, <1>10, <1>11, <1>12 DEF Held, Anchored, Released, NothingLeaks

\* When the release could not be run as a whole, or was interrupted after it was complete,
\* everything that is still open is closed.
LEMMA EscapeKeeps ==
    ASSUME Held, EscapeBefore \/ EscapeAfter
    PROVE  Held' /\ Lasting(q, q')
  <1>1. ASSUME NEW v \in Faults(q)
        PROVE  Same(q, v) /\ v.set = q.set /\ v.open = q.open /\ v \in States
    BY FaultsSame DEF Held, Stay, Faults, States, Same
  <1>2. ASSUME NEW v \in Faults(q), NEW u \in EmergencyRecover(Remember(v))
        PROVE  /\ u \in States
               /\ "lock" \in u.set <=> "lock" \in q.set
               /\ Close(u, Descriptors) \in States /\ Close(u, Descriptors).open = {}
               /\ Close(u, Descriptors).set = u.set
               /\ Lasting(q, Close(u, Descriptors))
    <2>1. Closed(q, Remember(v), {})
      BY <1>1, RememberClosed DEF Held
    <2>3. Same(Remember(v), u)
      BY <2>1, EmergencySame DEF Stay, Closed
    <2>4. u \in States /\ ("lock" \in u.set <=> "lock" \in q.set)
      BY <2>1, <2>3 DEF Same, Closed, Volatile
    <2>5. Lasting(q, Close(u, Descriptors))
      BY <2>1, <2>3, ClosedSame, <2>4, RaiseSame, RememberClosed, ClosedWithout, LastingTrans
         DEF Without
    <2> QED BY <2>4, <2>5, CloseCloses DEF States
  <1>3. CASE EscapeBefore
    <2>0. PICK v \in Faults(q) : \E u \in EmergencyRecover(Remember(v)) :
             q' = Clear(Clear(Close(u, Descriptors), {"lock"}), {"err"}) /\ pc' = "concluded"
      BY <1>3 DEF EscapeBefore, Step
    <2>1. PICK u \in EmergencyRecover(Remember(v)) :
             q' = Clear(Clear(Close(u, Descriptors), {"lock"}), {"err"}) /\ pc' = "concluded"
      BY <2>0
    <2> DEFINE c == Close(u, Descriptors)
    <2>2. c \in States /\ c.open = {} /\ Lasting(q, c)
      BY <1>2
    <2>3. q' = Clear(Clear(c, {"lock"}), {"err"})
      BY <2>1
    <2> HIDE DEF c
    <2>4. Clear(c, {"lock"}) \in States /\ Clear(c, {"lock"}).open = {} /\
          "lock" \notin Clear(c, {"lock"}).set
      BY <2>2, Flagged DEF Flags
    <2>5. q' \in States /\ q'.open = {} /\ q'.set \cap {"lock", "err"} = {}
      BY <2>3, <2>4, Flagged DEF Flags
    <2>6. Lasting(q, q')
      <3>2. Kept(Clear(c, {"lock"}), q')
        BY <2>3, <2>4, RaiseSame, SameKept
      <3> QED BY <2>2, KeptFlags, <3>2, LastingTrans DEF Kept, Without, Flags
    <2> QED BY <2>1, <2>5, <2>6 DEF Held, Anchored, Released, Final, NothingLeaks
  <1>4. CASE EscapeAfter
    <2>1. pc = "conclude" /\ pc' = "concluded"
      BY <1>4 DEF EscapeAfter, Step
    <2>2. PICK v \in Faults(q) :
             \E u \in IF Clean(q) THEN {v}
                      ELSE {Close(x, Descriptors) : x \in EmergencyRecover(Remember(v))}
                       : q' = Clear(u, {"err"})
      BY <1>4 DEF EscapeAfter, Step
    <2>3. "lock" \notin q.set
      BY <2>1 DEF Held, Final
    <2>4. CASE Clean(q)
      <3>1. q' = Clear(v, {"err"})
        BY <2>2, <2>4
      <3>2. q' \in States /\ q'.open = q.open /\ q'.set = q.set \ {"err"}
        BY <1>1, <3>1, Flagged DEF Flags
      <3>3. Final'
        BY <2>1, <2>3, <3>2 DEF Held, Final, Clean
      <3>4. Lasting(q, q')
        BY <1>1, <3>1, RaiseSame, SameKept, LastingTrans DEF Kept, Without
      <3> QED BY <2>1, <3>2, <3>3, <3>4 DEF Held, Anchored, Released, NothingLeaks
    <2>5. CASE ~Clean(q)
      <3>1. PICK x \in EmergencyRecover(Remember(v)) : q' = Clear(Close(x, Descriptors), {"err"})
        BY <2>2, <2>5
      <3> DEFINE c == Close(x, Descriptors)
      <3>2. c \in States /\ c.open = {} /\ "lock" \notin c.set /\ Lasting(q, c)
        BY <1>2, <2>3
      <3>3. q' = Clear(c, {"err"})
        BY <3>1
      <3> HIDE DEF c
      <3>4. q' \in States /\ q'.open = {} /\ q'.set \cap {"lock", "err"} = {}
        BY <3>2, <3>3, Flagged DEF Flags
      <3>5. Lasting(q, q')
        BY <3>2, <3>3, RaiseSame, SameKept, LastingTrans DEF Kept, Without
      <3> QED BY <2>1, <3>4, <3>5 DEF Held, Anchored, Released, Final, NothingLeaks
    <2> QED BY <2>4, <2>5
  <1> QED BY <1>3, <1>4

\* Only a call that returns leaves anything open, and then its caller has asked for it.
LEMMA ConcludeKeeps ==
    ASSUME Held, Conclude
    PROVE  Held' /\ Lasting(q, q')
  <1>1. pc' = "done" /\ pc \in {"conclude", "concluded"}
    BY DEF Conclude
  <1> DEFINE ds == {"binding", "decoded"}
             last == {Raise(Close(w, ds)) : w \in Faults(q)}
  <1>2. PICK v \in IF Failed(q) \/ ~Has(q, "housekept") THEN {Raise(q)} ELSE {q} \cup last :
            q' = Clear(v, {"err"}) /\ outcome' = IF Has(v, "err") THEN "raised" ELSE "returned"
    BY DEF Conclude
  <1>3. /\ "lock" \notin q.set /\ q \in States
        /\ q.open # {} => /\ q.open \subseteq ds /\ "retain" \in q.set
                          /\ ~Failed(q) /\ Has(q, "housekept")
    BY <1>1 DEF Held, Final, Clean, Failed, Has
  <1>4. CASE v = Raise(q) /\ (Failed(q) \/ ~Has(q, "housekept"))
    <2>2. Same(q, v)
      BY <1>3, <1>4, RaiseSame
    <2>3. Same(q, q') /\ "err" \notin q'.set
      BY <2>2, <1>2, RaiseSame, Flagged, Trans DEF Same, Flags
    <2>4. q' \in States /\ q'.open = {} /\ q'.set \cap {"lock", "err"} = {}
      BY <1>3, <1>4, <2>3 DEF Same, Volatile
    <2>5. Lasting(q, q')
      BY <2>3, SameKept DEF Kept, Without
    <2> QED BY <1>1, <2>4, <2>5 DEF Held, Anchored, Released, Final, NothingLeaks
  <1>5. CASE v = q
    <2>1. Same(q, q') /\ "err" \notin q'.set
      BY <1>2, <1>3, <1>5, RaiseSame, Flagged DEF Flags
    <2>2. /\ q' \in States /\ q'.open = q.open /\ "lock" \notin q'.set
          /\ ("retain" \in q'.set <=> "retain" \in q.set) /\ "err" \notin q'.set
      BY <1>3, <2>1 DEF Same, Volatile
    <2>3. Lasting(q, q')
      BY <2>1, SameKept DEF Kept, Without
    <2>4. CASE q.open = {}
      BY <1>1, <2>2, <2>4, <2>3 DEF Held, Anchored, Released, Final, NothingLeaks
    <2>5. CASE q.open # {}
      <3>1. ~Has(q, "err")
        BY DEF Held, Has
      <3> QED BY <1>1, <1>2, <1>3, <1>5, <2>2, <2>5, <2>3, <3>1 DEF Held, Anchored, Released,
        Final, NothingLeaks,
        Has
    <2> QED BY <2>4, <2>5
  <1>6. CASE v \in last /\ ~Failed(q) /\ Has(q, "housekept")
    <2>1. PICK w \in Faults(q) : v = Raise(Close(w, ds))
      BY <1>6
    <2> DEFINE c == Close(w, ds)
    <2>3. Closed(q, c, ds)
      BY <1>3, FaultsSame, RememberClosed DEF Stay
    <2>4. v = Raise(c)
      BY <2>1
    <2> HIDE DEF c
    <2>5. Same(c, v) /\ Same(c, q') /\ "err" \notin q'.set
      <3>1. Same(c, v)
        BY <2>3, <2>4, RaiseSame DEF Closed
      <3>2. v \in States
        BY <3>1 DEF Same
      <3>3. Same(v, q')
        BY <1>2, <3>2, RaiseSame
      <3> QED BY <3>1, <3>3, <1>2, <3>2, Flagged, Trans DEF Flags
    <2>6. q' \in States /\ q'.open = q.open \ ds /\ q'.set \cap {"lock", "err"} = {}
      BY <1>3, <2>3, <2>5 DEF Same, Closed, Volatile
    <2>8. Lasting(q, q')
      BY <2>3, <2>5, ClosedWithout, SameKept, LastingTrans DEF Kept, Without
    <2> QED BY <1>1, <2>6, <1>3, <2>8 DEF Held, Anchored, Released, Final, NothingLeaks
  <1> QED BY <1>2, <1>4, <1>5, <1>6

\* A call begins with nothing.
LEMMA HeldInit == Init => Held
  <1> SUFFICES ASSUME Init PROVE Held
    OBVIOUS
  <1>1. PICK retain \in SUBSET {"retain"} :
           q = [where |-> [x \in Nodes |-> "nowhere"], open |-> {}, set |-> retain,
                faults |-> 0, edits |-> 0]
    BY DEF Init
  <1>2. q \in States
    BY <1>1 DEF States, Places, Flags
  <1> QED BY <1>2, <1>1 DEF Held, Anchored, Released, Final, NothingLeaks, Init

\* Each step keeps the invariant.
LEMMA HeldStep == Held /\ [Next]_vars => Held'
  <1> SUFFICES ASSUME Held, [Next]_vars PROVE Held'
    OBVIOUS
  <1>1. CASE Validate BY <1>1, ValidateKeeps
  <1>2. CASE Pin BY <1>2, PinKeeps
  <1>3. CASE MakePending BY <1>3, MakePendingKeeps
  <1>4. CASE RunQuery BY <1>4, RunQueryKeeps
  <1>5. CASE Decode BY <1>5, DecodeKeeps
  <1>6. CASE Seal \/ ProbeNoReplace BY <1>6, ProbesKeep
  <1>7. CASE AcquireAnchors BY <1>7, AcquireAnchorsKeeps
  <1>8. CASE MakeSlot BY <1>8, MakeSlotKeeps
  <1>9. CASE ProbeExchange BY <1>9, ProbeExchangeKeeps
  <1>10. CASE Replace BY <1>10, ReplaceKeeps
  <1>11. CASE Commit BY <1>11, CommitKeeps
  <1>12. CASE Finalization
    <2>1. CASE Housekeeping BY <2>1, HousekeepingKeeps
    <2>2. CASE FinalizeEarly BY <2>2, FinalizeEarlyKeeps
    <2>3. CASE RetireSlotEarly BY <2>3, RetireSlotEarlyKeeps
    <2>4. CASE ReleasePendingEarly BY <2>4, ReleasePendingEarlyKeeps
    <2>5. CASE ReleaseGenerations BY <2>5, ReleaseGenerationsKeeps
    <2>6. CASE DuplicateCleanupAnchor BY <2>6, DuplicateCleanupAnchorKeeps
    <2>7. CASE ReleaseRollback BY <2>7, ReleaseRollbackKeeps
    <2>8. CASE FinalizePublication BY <2>8, FinalizePublicationKeeps
    <2>9. CASE ReleasePending BY <2>9, ReleasePendingKeeps
    <2>10. CASE ReleaseAnchor BY <2>10, ReleaseAnchorKeeps
    <2>11. CASE RetireSlot BY <2>11, RetireSlotKeeps
    <2>12. CASE ReleaseSlot BY <2>12, ReleaseSlotKeeps
    <2>13. CASE ReleaseCleanup BY <2>13, ReleaseCleanupKeeps
    <2>14. CASE ReleaseIdentity BY <2>14, ReleaseIdentityKeeps
    <2>15. CASE Drain BY <2>15, DrainKeeps
    <2>16. CASE EscapeBefore \/ EscapeAfter BY <2>16, EscapeKeeps
    <2> QED BY <1>12, <2>1, <2>2, <2>3, <2>4, <2>5, <2>6, <2>7, <2>8, <2>9, <2>10, <2>11, <2>12,
               <2>13, <2>14, <2>15, <2>16 DEF Finalization
  <1>13. CASE Conclude BY <1>13, ConcludeKeeps
  <1>14. CASE UNCHANGED vars
    BY <1>14 DEF vars, Held, Anchored, Released, Final, NothingLeaks, Clean
  <1> QED BY <1>1, <1>2, <1>3, <1>4, <1>5, <1>6, <1>7, <1>8, <1>9, <1>10, <1>11, <1>12, <1>13,
             <1>14 DEF Next

\* Whichever calls fail and whatever somebody else renames: a call that has ended has
\* closed every descriptor that it does not hand to its caller, and released the lock.
THEOREM EverythingGivenBack == Spec => []NothingLeaks
  <1>1. Held => NothingLeaks
    BY DEF Held
  <1> QED BY <1>1, HeldInit, HeldStep, PTL DEF Spec

-----------------------------------------------------------------------------
(* The parts of a call, exactly.                                           *)

\* The isolation of a leaf that does not raise has moved the right one.
LEMMA LeafClean ==
    ASSUME NEW w \in States, ~Has(w, "err"), NEW n \in Places, NEW x \in Nodes, NEW p \in Places,
           p # n, NEW v \in IsolateLeaf(w, n, x, p), ~Has(v, "err")
    PROVE  \E t \in Outside(w), z \in States :
              /\ t.where[x] = n /\ z.where = [t.where EXCEPT ![x] = p]
              /\ z.edits = t.edits /\ z.set = t.set /\ z.open = t.open
              /\ v \in Outside(z) /\ At(v, n) = "none"
  <1> DEFINE moved(t, u) == {y \in Nodes : t.where[y] = n /\ u.where[y] = p}
             S(t, u) == IF moved(t, u) = {} THEN {Raise(u)}
                        ELSE IF moved(t, u) = {x} THEN RequireAbsent(Clear(u, {"err"}), n)
                        ELSE Restore(Clear(u, {"err"}), CHOOSE y \in moved(t, u) : TRUE, n)
  <1>1. IsolateLeaf(w, n, x, p) = UNION {UNION {S(t, u) : u \in Rename(t, n, p)} : t \in Outside(w)}
    BY DEF IsolateLeaf
  <1> HIDE DEF S
  <1>2. PICK t \in Outside(w) : \E u \in Rename(t, n, p) : v \in S(t, u)
    BY <1>1
  <1>3. PICK u \in Rename(t, n, p) : v \in S(t, u)
    BY <1>2
  <1>4. t \in States /\ t.set = w.set
    BY OutsideExact
  <1>5. /\ u \in States /\ u.open = t.open /\ u.set \ {"err"} = t.set \ {"err"} /\ u.edits = t.edits
        /\ \/ u.where = t.where
           \/ At(t, n) \in Nodes /\ u.where = [t.where EXCEPT ![At(t, n)] = p]
    <2>1. t \in States /\ p \in Places /\ u \in Rename(t, n, p)
      BY <1>4
    <2> HIDE DEF moved
    <2>2. /\ u \in States /\ u.open = t.open /\ u.set \ {"err"} = t.set \ {"err"}
          /\ u.edits = t.edits /\ u.faults \in {t.faults, t.faults + 1}
          /\ \/ u.where = t.where
             \/ At(t, n) \in Nodes /\ u.where = [t.where EXCEPT ![At(t, n)] = p]
          /\ ~Has(u, "err") => At(t, n) \in Nodes /\ u = Put(t, At(t, n), p)
          /\ Has(u, "err") /\ At(t, n) # "none" => Has(t, "err") \/ u.faults = t.faults + 1
          /\ At(t, n) # "none" =>
               \/ u = Put(t, At(t, n), p)
               \/ Has(u, "err") /\ u.faults = t.faults + 1
      BY ONLY <2>1, RenameExact
    <2> QED BY <2>2
  <1> DEFINE z == Clear(u, {"err"})
  <1>6. /\ z \in States /\ z.open = t.open /\ z.set = t.set /\ z.edits = t.edits /\ z.where = u.where
    <2>1. {"err"} \in SUBSET Flags
      BY DEF Flags
    <2>2. /\ z \in States /\ z.open = u.open /\ z.set = u.set \ {"err"} /\ z.edits = u.edits
          /\ z.where = u.where
      BY <1>5, <2>1, Flagged, FlaggedExact
    <2> QED BY <1>4, <1>5, <2>2 DEF Has
  <1>7. moved(t, u) # {}
    <2> SUFFICES ASSUME moved(t, u) = {} PROVE FALSE
      OBVIOUS
    <2> QED BY <1>3, <1>5, RaiseRaises DEF S
  <1>8. moved(t, u) = {x}
    <2> SUFFICES ASSUME moved(t, u) # {x} PROVE FALSE
      OBVIOUS
    <2> DEFINE y == CHOOSE a \in moved(t, u) : TRUE
    <2>1. y \in Nodes
      BY <1>7
    <2> HIDE DEF y
    <2>2. v \in Restore(z, y, n)
      BY <1>3, <1>7 DEF S, y
    <2> HIDE DEF z
    <2> QED BY <1>6, <2>1, <2>2, RestoreExact
  <1>9. v \in RequireAbsent(z, n)
    BY <1>3, <1>7, <1>8 DEF S
  <1> HIDE DEF z
  <1>10. v \in Outside(z) /\ At(v, n) = "none"
    <2>1. PICK a \in Outside(z) : v = IF At(a, n) = "none" THEN a ELSE Raise(a)
      BY <1>9 DEF RequireAbsent
    <2> QED BY <2>1, <1>6, OutsideExact, RaiseRaises
  <1>11. t.where[x] = n /\ u.where[x] = p
    BY <1>8
  <1>12. u.where = [t.where EXCEPT ![x] = p]
    BY <1>5, <1>11, <1>4 DEF States
  <1> QED BY <1>6, <1>10, <1>11, <1>12

-----------------------------------------------------------------------------
(* A call that returns.                                                    *)

\* A rename by somebody else leads the call astray.
LEMMA OutsideLay ==
    ASSUME NEW w \in States, NEW v \in Outside(w), NEW g, NEW s, NEW p, Lay(w, g, s, p),
           g \in {"nowhere", "pending", "normal"}, s \in {"nowhere", "slot"},
           p \in {"nowhere", "probe", "inside"},
           "attempted" \in w.set => g = "normal"
    PROVE  Lay(v, g, s, p)
  <1>1. CASE v = w
    BY <1>1
  <1>2. CASE w.edits # 0
    BY OutsideExact, <1>1, <1>2 DEF States, Lay
  <1>3. CASE v # w /\ w.edits = 0
    <2>1. v.edits = 1 /\ v.where \in [Nodes -> Places] /\ w.where \in [Nodes -> Places]
      BY <1>3, OutsideExact DEF States
    <2>2. Placed(w, g, s, p)
      BY <1>3 DEF Lay
    <2>3. PICK n \in Known(w) :
             \/ /\ At(w, n) \in Nodes
                /\ v.where = [w.where EXCEPT ![At(w, n)] = "away"]
             \/ \E f \in Foreign :
                  /\ w.where[f] = "nowhere"
                  /\ \/ At(w, n) = "none" /\ v.where = [w.where EXCEPT ![f] = n]
                     \/ /\ At(w, n) \in Nodes
                        /\ v.where = [[w.where EXCEPT ![At(w, n)] = "away"] EXCEPT ![f] = n]
      BY <1>3, OutsideExact
    <2>4. \A x \in Nodes : x \in {"generation", "slot", "probe"} \cup Foreign
      BY DEF Nodes
    <2>5. CASE n = "slot"
      <3>1. s = "slot" /\ g # "slot" /\ p # "slot"
        BY <2>2, <2>5 DEF Known, Placed
      <3>2. At(w, n) = "slot"
        BY <2>2, <2>4, <2>5, <3>1, AtOnly, Own DEF Placed
      <3>3. v.where["slot"] = "away"
        BY <2>1, <2>3, <3>2, Own, AtHolds
      <3> QED BY <2>1, <3>1, <3>3 DEF Lay, Astray
    <2>6. CASE n # "slot" /\ g = n
      <3>1. At(w, n) = "generation"
        BY <2>2, <2>4, <2>6, AtOnly, Own DEF Placed, Known
      <3>2. v.where["generation"] = "away"
        BY <2>1, <2>3, <3>1, Own, AtHolds
      <3> QED BY <2>1, <2>6, <3>2 DEF Lay, Astray, Known
    <2>7. CASE n # "slot" /\ g # n
      <3>1. n = "pending" /\ g = "normal"
        BY <2>2, <2>7 DEF Known, Placed, Has
      <3>3. PICK f \in Foreign : v.where = [w.where EXCEPT ![f] = n]
        BY <2>3, <2>2, <2>4, <3>1, AtHolds, AtNode DEF Placed
      <3> QED BY <2>1, <3>1, <2>2, <3>3, Own DEF Lay, Astray, Placed
    <2> QED BY <2>5, <2>6, <2>7
  <1> QED BY <1>1, <1>2, <1>3

\* So a call that goes on goes on with what somebody else has left it.
LEMMA OutsideFair ==
    ASSUME NEW label, label \notin AfterRetire \cup BeforeRetire, NEW w, Fair(w, label),
           NEW v \in Outside(w)
    PROVE  Fair(v, label) /\ (v.edits = 0 => w.edits = 0)
  BY OutsideExact, OutsideLay DEF Fair, States, Noted, Course, BeforeReplace

\* What has not raised is as it is.
LEMMA ClearNothing ==
    ASSUME NEW w \in States, ~Has(w, "err")
    PROVE  Clear(w, {"err"}) = w
  BY DEF Clear, Has, States

\* A step of the body either raises, which the call does not survive, or goes on.
LEMMA BodySmooth ==
    ASSUME Smooth, Held', NEW label \in BodyLabels, NEW S, NEW next, Body(label, S, next),
           next \in BodyLabels \cup {"housekeeping"},
           \A v \in S : ~Has(v, "err") => Fair(v, next) /\ (v.edits = 0 => q.edits = 0)
    PROVE  Smooth'
  <1>1. PICK u \in {IF Has(w, "err") THEN Set(w, {"exitFailed"}) ELSE w : w \in S} :
              /\ q' = Clear(u, {"err"})
              /\ pc' = IF Has(u, "err") THEN "housekeeping" ELSE next
              /\ first' = IF first = "none" /\ (Has(u, "err") \/ Failed(u)) THEN pc ELSE first
              /\ edited' = IF edited = "none" /\ u.edits # q.edits THEN pc ELSE edited
    BY DEF Body, Step
  <1>2. PICK v \in S : u = IF Has(v, "err") THEN Set(v, {"exitFailed"}) ELSE v
    BY <1>1
  <1>3. pc = label /\ outcome' = outcome /\ outcome = "running"
    BY DEF Body, Step, Smooth
  <1>4. pc' # "done" /\ pc' # "validate" /\ outcome' = "running" /\ ReturnedIsPublished'
    BY <1>1, <1>3 DEF ReturnedIsPublished
  <1>5. CASE Has(v, "err")
    <2>2. q' \in States
      BY DEF Held
    <2>4. "exitFailed" \in q'.set /\ Has(u, "err")
      BY <1>2, <1>5, <1>1, <2>2 DEF Clear, Set, Has, States
    <2> QED BY <1>1, <1>4, <2>4 DEF Smooth, Doomed
  <1>6. CASE ~Has(v, "err")
    <2>1. Fair(v, next) /\ (v.edits = 0 => q.edits = 0) /\ u = v
      BY <1>2, <1>6
    <2>2. q' = v
      BY <1>1, <1>6, <2>1, ClearNothing DEF Fair
    <2>4. ~Failed(v)
      BY <2>1 DEF Fair, Noted, Failed
    <2>5. Fair(q', pc') /\ first' = "none" /\ (q'.edits = 0 => edited' = "none")
      BY <1>1, <1>6, <2>1, <2>2, <1>3, <2>4 DEF Has, Smooth
    <2>6. pc' \notin AfterRetire /\ ~Doomed'
      BY <1>1, <1>6, <2>1, <2>2 DEF AfterRetire, Doomed, Fair
    <2> QED BY <1>4, <2>5, <2>6 DEF Smooth
  <1> QED BY <1>5, <1>6

\* The body is reached only by a call that goes on.
LEMMA BodyFair ==
    ASSUME Held, Smooth, pc \in BodyLabels \cup {"validate"}
    PROVE  Fair(q, pc) /\ q \in States /\ ~Has(q, "err")
  BY DEF Smooth, Held, Has

\* The flags and descriptors a step of the body adds do not count before the next label.
LEMMA Marking ==
    ASSUME NEW w, NEW label, Fair(w, label), NEW fs,
           fs \subseteq {"lock", "tempQuery", "stated", "slotNamed", "bound"},
           NEW ds \in SUBSET Descriptors
    PROVE  /\ Fair(Set(w, fs), label) /\ Fair(Open(w, ds), label)
           /\ Set(w, fs).edits = w.edits /\ Open(w, ds).edits = w.edits
           /\ Open(w, ds).open = w.open \cup ds /\ Set(w, fs).set = w.set \cup fs
           /\ Open(w, ds).set = w.set /\ Set(w, fs).open = w.open
  <1>2. /\ Set(w, fs) \in States /\ Set(w, fs).set = w.set \cup fs /\ Set(w, fs).open = w.open
        /\ Set(w, fs).where = w.where /\ Set(w, fs).edits = w.edits
    BY Flagged, FlaggedExact DEF Fair, Flags
  <1>3. /\ Open(w, ds) \in States /\ Open(w, ds).set = w.set /\ Open(w, ds).open = w.open \cup ds
        /\ Open(w, ds).where = w.where /\ Open(w, ds).edits = w.edits
    BY DEF Open, States, Fair
  <1> QED BY <1>2, <1>3 DEF Fair, Noted, Course, Lay, Placed, Astray

\* Labels between which nothing moves and nothing counts that they ask for.
LEMMA NextLabel ==
    ASSUME NEW w, NEW label, Fair(w, label)
    PROVE  /\ label = "validate" => Fair(w, "pin")
           /\ label = "pin" => Fair(w, "pending")
           /\ label = "query" => Fair(w, "decode")
           /\ label = "decode" => Fair(w, "seal")
           /\ label = "seal" => Fair(w, "anchors")
           /\ label = "anchors" => Fair(w, "noreplace")
           /\ label = "noreplace" => Fair(w, "slot")
  BY DEF Fair, Course, Noted, BeforePending, BeforeSlot, BeforeReplace, BeforeFinalize, BeforeRetire,
         AfterRetire

\* The lock and .generations.
LEMMA PinSmooth ==
    ASSUME Held, Smooth, Held', Pin
    PROVE  Smooth'
  <1> DEFINE l == Set(q, {"lock"})
             S == Then(May(l), LAMBDA w : {Open(w, {"generations"})})
  <1>1. Body("pin", S, "pending") /\ pc = "pin"
    BY Zenon DEF Pin, Body
  <1>2. Fair(q, "pin")
    BY <1>1, BodyFair, Zenon
  <1>3. Fair(l, "pin") /\ l \in States /\ l.edits = q.edits
    <2>1. Fair(l, "pin") /\ l.edits = q.edits
      BY <1>2, Marking DEF Descriptors
    <2> QED BY <2>1 DEF Fair
  <1>4. \A v \in S : (v \in May(l) /\ Has(v, "err"))
                     \/ \E u \in May(l) : ~Has(u, "err") /\ v = Open(u, {"generations"})
    BY DEF Then
  <1> HIDE DEF S, l
  <1>5. ASSUME NEW v \in S
         PROVE v \in States /\ (~Has(v, "err") => Fair(v, "pending") /\ v.edits = q.edits)
    <2>1. CASE v \in May(l) /\ Has(v, "err")
      BY <1>3, <2>1, FaultsSame DEF Stay, Same
    <2>2. CASE v = Open(l, {"generations"})
      <3>1. Fair(v, "pin") /\ v.edits = q.edits
        BY <1>3, <2>2, Marking DEF Descriptors
      <3> QED BY <3>1, NextLabel DEF Fair
    <2> QED BY <1>3, <1>4, <2>1, <2>2, MayClean
  <1> QED BY <1>1, <1>5, BodySmooth

\* The query, the decoder, the seal and the first probe move nothing.
LEMMA QuerySmooth ==
    ASSUME Held, Smooth, Held', RunQuery \/ Decode \/ Seal \/ ProbeNoReplace
    PROVE  Smooth'
  <1>1. q \in States /\ ~Has(q, "err") /\ (pc \in BodyLabels => Fair(q, pc))
    BY BodyFair DEF Held, Has
  <1>2. \A v \in May(q) : v \in States /\ (~Has(v, "err") => v = q)
    BY <1>1, MayClean, FaultsSame DEF Stay, Same
  <1>3. CASE RunQuery
    <2> DEFINE t == Set(q, {"tempQuery"})
               S == Then(May(q), LAMBDA w : May(Set(w, {"tempQuery"})))
    <2>1. Body("query", S, "decode") /\ Fair(q, "query")
      BY <1>1, <1>3, Zenon DEF RunQuery, Body
    <2>2. \A v \in S : (v \in May(q) /\ Has(v, "err")) \/ v \in May(t)
      BY <1>2 DEF Then
    <2>3. Fair(t, "query") /\ t.edits = q.edits
      BY <2>1, Marking DEF Descriptors
    <2> HIDE DEF S, t
    <2>4. Fair(t, "decode") /\ t \in States
      BY <2>3, NextLabel DEF Fair
    <2>5. \A v \in May(t) : v \in States /\ (~Has(v, "err") => v = t)
      BY <2>4, MayClean, FaultsSame DEF Stay, Same
    <2> QED BY <1>2, <2>1, <2>2, <2>3, <2>4, <2>5, BodySmooth
  <1>4. CASE Decode
    <2> DEFINE t == Open(q, {"decoded"})
               S == Then(May(q), LAMBDA w : May(Open(w, {"decoded"})))
    <2>1. Body("decode", S, "seal") /\ Fair(q, "decode")
      BY <1>1, <1>4, Zenon DEF Decode, Body
    <2>2. \A v \in S : (v \in May(q) /\ Has(v, "err")) \/ v \in May(t)
      BY <1>2 DEF Then
    <2>3. Fair(t, "decode") /\ t.edits = q.edits
      BY <2>1, Marking DEF Descriptors
    <2> HIDE DEF S, t
    <2>4. Fair(t, "seal") /\ t \in States
      BY <2>3, NextLabel DEF Fair
    <2>5. \A v \in May(t) : v \in States /\ (~Has(v, "err") => v = t)
      BY <2>4, MayClean, FaultsSame DEF Stay, Same
    <2> QED BY <1>2, <2>1, <2>2, <2>3, <2>4, <2>5, BodySmooth
  <1>5. CASE Seal
    <2>1. Body("seal", May(q), "anchors") /\ Fair(q, "seal")
      BY <1>1, <1>5, Zenon DEF Seal, Body
    <2> QED BY <1>2, <2>1, NextLabel, BodySmooth
  <1>6. CASE ProbeNoReplace
    <2>1. Body("noreplace", May(q), "slot") /\ Fair(q, "noreplace")
      BY <1>1, <1>6, Zenon DEF ProbeNoReplace, Body
    <2> QED BY <1>2, <2>1, NextLabel, BodySmooth
  <1> QED BY <1>3, <1>4, <1>5, <1>6

\* The pending directory is made, and is found under its name.
LEMMA MakePendingSmooth ==
    ASSUME Held, Smooth, Held', MakePending
    PROVE  Smooth'
  <1> DEFINE S1 == Then(May(q), LAMBDA w : {Put(w, "generation", "pending")})
             S2 == Then(S1, May)
             S3 == Then(S2, LAMBDA w : {Set(Open(w, {"pending"}), {"bound"})})
             current(w) == {IF At(v, "pending") = "generation" THEN v ELSE Raise(v) : v \in Outside(w)}
             S4 == Then(S3, current)
             S5 == Then(S4, May)
             S6 == Then(S5, LAMBDA w : {Open(w, {"identity"})})
             m == Put(q, "generation", "pending")
             b == Set(Open(m, {"pending"}), {"bound"})
  <1>1. Body("pending", S6, "query") /\ pc = "pending"
    BY Zenon DEF MakePending, Body
  <1>2. \A v \in S1 : (v \in May(q) /\ Has(v, "err"))
                      \/ \E u \in May(q) : ~Has(u, "err") /\ v = Put(u, "generation", "pending")
    BY DEF Then
  <1>3. \A v \in S2 : (v \in S1 /\ Has(v, "err")) \/ \E u \in S1 : ~Has(u, "err") /\ v \in May(u)
    BY DEF Then
  <1>4. \A v \in S3 : (v \in S2 /\ Has(v, "err"))
                      \/ \E u \in S2 : ~Has(u, "err") /\ v = Set(Open(u, {"pending"}), {"bound"})
    BY DEF Then
  <1>5. \A v \in S4 : (v \in S3 /\ Has(v, "err")) \/ \E u \in S3 : ~Has(u, "err") /\ v \in current(u)
    BY DEF Then
  <1>6. \A v \in S5 : (v \in S4 /\ Has(v, "err")) \/ \E u \in S4 : ~Has(u, "err") /\ v \in May(u)
    BY DEF Then
  <1>7. \A v \in S6 : (v \in S5 /\ Has(v, "err"))
                      \/ \E u \in S5 : ~Has(u, "err") /\ v = Open(u, {"identity"})
    BY DEF Then
  <1> HIDE DEF S1, S2, S3, S4, S5, S6
  <1>8. Fair(q, "pending") /\ q \in States /\ ~Has(q, "err")
    BY <1>1, BodyFair
  <1>9. /\ m \in States /\ m.set = q.set /\ m.open = q.open /\ m.edits = q.edits /\ ~Has(m, "err")
        /\ m.where = [q.where EXCEPT !["generation"] = "pending"] /\ q.where \in [Nodes -> Places]
    BY <1>8, PutExact, Own, NamesPlaces DEF Names, Has, States
  <1>10. Lay(m, "pending", "nowhere", "nowhere")
    BY <1>8, <1>9, Own DEF Fair, Course, BeforePending, Lay, Placed, Astray
  <1> HIDE DEF m
  <1>11. /\ b \in States /\ b.where = m.where /\ b.edits = q.edits
         /\ b.set = q.set \cup {"bound"} /\ b.open = q.open \cup {"pending"} /\ ~Has(b, "err")
    <2> DEFINE o == Open(m, {"pending"})
    <2>1. /\ o \in States /\ o.where = m.where /\ o.edits = m.edits /\ o.set = m.set
          /\ o.open = m.open \cup {"pending"}
      BY <1>9 DEF Open, States, Descriptors
    <2>2. b = Set(o, {"bound"})
      OBVIOUS
    <2> HIDE DEF o, b
    <2> QED BY <1>8, <1>9, <2>1, <2>2, Flagged, FlaggedExact DEF Flags, Has
  <1> HIDE DEF b
  <1>12. ASSUME NEW v \in S4, ~Has(v, "err") PROVE v \in Outside(b)
    <2>1. PICK u \in S3 : ~Has(u, "err") /\ v \in current(u)
      BY <1>5, <1>12
    <2>2. PICK x \in S2 : ~Has(x, "err") /\ u = Set(Open(x, {"pending"}), {"bound"})
      BY <1>4, <2>1
    <2>3. PICK y \in S1 : ~Has(y, "err") /\ x \in May(y)
      BY <1>3, <2>2
    <2>4. PICK z \in May(q) : ~Has(z, "err") /\ y = Put(z, "generation", "pending")
      BY <1>2, <2>3
    <2>7. PICK a \in Outside(b) : v = IF At(a, "pending") = "generation" THEN a ELSE Raise(a)
      BY <2>1, <1>9, <2>2, <2>3, <1>8, <2>4, MayClean DEF b, m
    <2> QED BY <1>11, <1>12, <2>7, OutsideExact, RaiseRaises
  <1>13. ASSUME NEW v \in Outside(b)
         PROVE  Fair(Open(v, {"identity"}), "query") /\ Open(v, {"identity"}).edits = v.edits
                /\ (v.edits = 0 => q.edits = 0)
    <2>2. Lay(b, "pending", "nowhere", "nowhere")
      BY <1>10, <1>11, <1>9 DEF Lay, Placed, Astray
    <2>3. /\ v \in States /\ v.set = b.set /\ v.open = b.open /\ v.edits \in {b.edits, b.edits + 1}
      BY <1>11, OutsideExact
    <2>4. Lay(v, "pending", "nowhere", "nowhere")
      BY <1>11, <1>8, <2>2, OutsideLay DEF Fair, Noted, BeforeReplace, BeforePending
    <2> DEFINE o == Open(v, {"identity"})
    <2>5. /\ o \in States /\ o.set = b.set /\ o.where = v.where /\ o.edits = v.edits
          /\ o.open = b.open \cup {"identity"}
      BY <2>3 DEF Open, States, Descriptors
    <2> HIDE DEF o
    <2>6. Course(o, "query")
      BY <2>4, <2>5 DEF Course, Lay, Placed, Astray, BeforePending, BeforeSlot, BeforeFinalize,
                        BeforeRetire, AfterRetire
    <2>7. Noted(o, "query")
      BY <1>8, <1>11, <2>5 DEF Fair, Noted, BeforePending, BeforeSlot, BeforeReplace, BeforeFinalize
    <2> QED BY <2>5, <2>6, <2>7, <1>8, <1>11, <2>3 DEF Fair, o, States
  <1>14. ASSUME NEW v \in S6, ~Has(v, "err") PROVE Fair(v, "query") /\ (v.edits = 0 => q.edits = 0)
    <2>1. PICK u \in S5 : ~Has(u, "err") /\ v = Open(u, {"identity"})
      BY <1>7, <1>14
    <2>2. PICK x \in S4 : ~Has(x, "err") /\ u \in May(x)
      BY <1>6, <2>1
    <2> QED BY <1>13, <2>1, <1>12, <2>2, <1>11, OutsideExact, MayClean
  <1> QED BY <1>1, <1>14, BodySmooth

\* The anchors; the pending directory is still the one.
LEMMA AcquireAnchorsSmooth ==
    ASSUME Held, Smooth, Held', AcquireAnchors
    PROVE  Smooth'
  <1> DEFINE S1 == Then(May(q), LAMBDA w : {Open(w, {"rollback"})})
             S2 == Then(S1, May)
             S3 == Then(S2, LAMBDA w : {Open(w, {"anchor"})})
             current(w) == {IF At(v, "pending") = "generation" THEN v ELSE Raise(v) : v \in Outside(w)}
             S4 == Then(S3, current)
             r == Open(q, {"rollback"})
             a == Open(r, {"anchor"})
  <1>1. Body("anchors", S4, "noreplace") /\ pc = "anchors"
    BY Zenon DEF AcquireAnchors, Body
  <1>2. \A v \in S1 : (v \in May(q) /\ Has(v, "err"))
                      \/ \E u \in May(q) : ~Has(u, "err") /\ v = Open(u, {"rollback"})
    BY DEF Then
  <1>3. \A v \in S2 : (v \in S1 /\ Has(v, "err")) \/ \E u \in S1 : ~Has(u, "err") /\ v \in May(u)
    BY DEF Then
  <1>4. \A v \in S3 : (v \in S2 /\ Has(v, "err"))
                      \/ \E u \in S2 : ~Has(u, "err") /\ v = Open(u, {"anchor"})
    BY DEF Then
  <1>5. \A v \in S4 : (v \in S3 /\ Has(v, "err")) \/ \E u \in S3 : ~Has(u, "err") /\ v \in current(u)
    BY DEF Then
  <1> HIDE DEF S1, S2, S3, S4
  <1>6. Fair(q, "anchors") /\ q \in States /\ ~Has(q, "err")
    BY <1>1, BodyFair
  <1>7. Fair(r, "anchors") /\ r.edits = q.edits
    BY <1>6, Marking DEF Descriptors
  <1> HIDE DEF r
  <1>8. Fair(a, "anchors") /\ a.edits = q.edits
    BY <1>7, Marking DEF Descriptors
  <1> HIDE DEF a
  <1>9. r \in States /\ a \in States
    BY <1>7, <1>8 DEF Fair
  <1>10. ASSUME NEW v \in S4, ~Has(v, "err") PROVE Fair(v, "noreplace") /\ (v.edits = 0 => q.edits = 0)
    <2>1. PICK u \in S3 : ~Has(u, "err") /\ v \in current(u)
      BY <1>5, <1>10
    <2>2. PICK x \in S2 : ~Has(x, "err") /\ u = Open(x, {"anchor"})
      BY <1>4, <2>1
    <2>3. PICK y \in S1 : ~Has(y, "err") /\ x \in May(y)
      BY <1>3, <2>2
    <2>6. PICK b \in Outside(a) : v = IF At(b, "pending") = "generation" THEN b ELSE Raise(b)
      BY <2>1, <1>9, <2>2, <2>3, <1>2, <1>6, MayClean DEF a, r
    <2>7. v = b
      BY <1>9, <1>10, <2>6, OutsideExact, RaiseRaises
    <2> QED BY <1>8, <2>7, OutsideFair, NextLabel DEF AfterRetire, BeforeRetire
  <1> QED BY <1>1, <1>10, BodySmooth

\* The rollback slot is made, and is found under its name.
LEMMA MakeSlotSmooth ==
    ASSUME Held, Smooth, Held', MakeSlot
    PROVE  Smooth'
  <1> DEFINE S1 == Then(May(q), LAMBDA w : {Put(w, "slot", "slot")})
             S2 == Then(S1, May)
             S3 == Then(S2, LAMBDA w : {Set(w, {"slotNamed"})})
             S4 == Then(S3, May)
             S5 == Then(S4, LAMBDA w : {Open(w, {"slot"})})
             current(w) == {IF At(v, "slot") = "slot" THEN v ELSE Raise(v) : v \in Outside(w)}
             S6 == Then(S5, current)
             m == Put(q, "slot", "slot")
             n == Set(m, {"slotNamed"})
             o == Open(n, {"slot"})
  <1>1. Body("slot", S6, "exchange") /\ pc = "slot"
    BY Zenon DEF MakeSlot, Body
  <1>2. \A v \in S1 : (v \in May(q) /\ Has(v, "err"))
                      \/ \E u \in May(q) : ~Has(u, "err") /\ v = Put(u, "slot", "slot")
    BY DEF Then
  <1>3. \A v \in S2 : (v \in S1 /\ Has(v, "err")) \/ \E u \in S1 : ~Has(u, "err") /\ v \in May(u)
    BY DEF Then
  <1>4. \A v \in S3 : (v \in S2 /\ Has(v, "err"))
                      \/ \E u \in S2 : ~Has(u, "err") /\ v = Set(u, {"slotNamed"})
    BY DEF Then
  <1>5. \A v \in S4 : (v \in S3 /\ Has(v, "err")) \/ \E u \in S3 : ~Has(u, "err") /\ v \in May(u)
    BY DEF Then
  <1>6. \A v \in S5 : (v \in S4 /\ Has(v, "err"))
                      \/ \E u \in S4 : ~Has(u, "err") /\ v = Open(u, {"slot"})
    BY DEF Then
  <1>7. \A v \in S6 : (v \in S5 /\ Has(v, "err")) \/ \E u \in S5 : ~Has(u, "err") /\ v \in current(u)
    BY DEF Then
  <1> HIDE DEF S1, S2, S3, S4, S5, S6
  <1>8. Fair(q, "slot") /\ q \in States /\ ~Has(q, "err")
    BY <1>1, BodyFair
  <1>9. Fair(m, "exchange") /\ m.edits = q.edits
    <2>1. /\ m \in States /\ m.set = q.set /\ m.open = q.open /\ m.edits = q.edits
          /\ m.where = [q.where EXCEPT !["slot"] = "slot"] /\ q.where \in [Nodes -> Places]
      BY <1>8, PutExact, Own, NamesPlaces DEF Names, States
    <2> HIDE DEF m
    <2>3. Lay(m, "pending", "slot", "nowhere")
      BY <2>1, <1>8, Own DEF Lay, Placed, Astray, Fair, Course, BeforeSlot
    <2>4. Course(m, "exchange")
      BY <2>3 DEF Course, BeforePending, BeforeSlot, BeforeFinalize, BeforeRetire, AfterRetire
    <2> QED BY <1>8, <2>1, <2>4 DEF Fair, Noted, BeforePending, BeforeSlot, BeforeReplace, BeforeFinalize
  <1> HIDE DEF m
  <1>10. Fair(n, "exchange") /\ n.edits = q.edits
    BY <1>9, Marking DEF Descriptors
  <1> HIDE DEF n
  <1>11. Fair(o, "exchange") /\ o.edits = q.edits
    BY <1>10, Marking DEF Descriptors
  <1> HIDE DEF o
  <1>12. m \in States /\ n \in States /\ o \in States
    BY <1>9, <1>10, <1>11 DEF Fair
  <1>13. ASSUME NEW v \in S6, ~Has(v, "err") PROVE Fair(v, "exchange") /\ (v.edits = 0 => q.edits = 0)
    <2>1. PICK u5 \in S5 : ~Has(u5, "err") /\ v \in current(u5)
      BY <1>7, <1>13
    <2>2. PICK u4 \in S4 : ~Has(u4, "err") /\ u5 = Open(u4, {"slot"})
      BY <1>6, <2>1
    <2>3. PICK u3 \in S3 : ~Has(u3, "err") /\ u4 \in May(u3)
      BY <1>5, <2>2
    <2>4. PICK u2 \in S2 : ~Has(u2, "err") /\ u3 = Set(u2, {"slotNamed"})
      BY <1>4, <2>3
    <2>5. PICK u1 \in S1 : ~Has(u1, "err") /\ u2 \in May(u1)
      BY <1>3, <2>4
    <2>6. u1 = m
      BY <1>2, <1>8, <2>5, MayClean DEF m
    <2>8. u5 = o
      BY <1>12, <2>2, <2>3, <2>4, <2>5, <2>6, MayClean DEF o, n
    <2>9. PICK b \in Outside(o) : v = IF At(b, "slot") = "slot" THEN b ELSE Raise(b)
      BY <2>1, <2>8
    <2>10. v = b
      BY <1>12, <1>13, <2>9, OutsideExact, RaiseRaises
    <2> QED BY <1>11, <2>10, OutsideFair DEF AfterRetire, BeforeRetire
  <1> QED BY <1>1, <1>13, BodySmooth

\* What an exchange did when it reports success.
LEMMA ExchangeClean ==
    ASSUME NEW w \in States, NEW a \in Places, NEW b \in Places, NEW u \in Exchange(w, a, b),
           ~Has(u, "err")
    PROVE  /\ At(w, a) \in Nodes /\ At(w, b) \in Nodes
           /\ u \in States /\ u.set = w.set /\ u.open = w.open /\ u.edits = w.edits
           /\ u.where = [[w.where EXCEPT ![At(w, a)] = b] EXCEPT ![At(w, b)] = a]
  <1>1. "none" \notin {At(w, a), At(w, b)}
    BY RaiseRaises DEF Exchange
  <1> DEFINE x == At(w, a)
             y == At(w, b)
             h == Put(w, x, b)
             m == Put(h, y, a)
  <1>3. u \in {m} \cup {Raise(v) : v \in Faults(w) \cup Faults(m)}
    BY <1>1 DEF Exchange, Effect
  <1>4. x \in Nodes /\ y \in Nodes
    BY <1>1, AtNode
  <1> HIDE DEF x, y
  <1>5. /\ h \in States /\ h.set = w.set /\ h.open = w.open /\ h.edits = w.edits
        /\ h.where = [w.where EXCEPT ![x] = b]
    BY <1>4, PutExact
  <1> HIDE DEF h
  <1>6. /\ m \in States /\ m.set = h.set /\ m.open = h.open /\ m.edits = h.edits
        /\ m.where = [h.where EXCEPT ![y] = a]
    <2>1. m = Put(h, y, a) /\ h \in States /\ y \in Nodes /\ a \in Places
      BY <1>4, <1>5
    <2> HIDE DEF m
    <2> QED BY <2>1, PutExact
  <1> HIDE DEF m
  <1> QED BY <1>4, <1>5, <1>6, <1>3, FaultsExact, RaiseRaises DEF x, y

\* Keeping an empty directory, if it does not raise, is the isolation of a leaf.
LEMMA EmptyClean ==
    ASSUME NEW w \in States, ~Has(w, "err"), NEW n \in Names, NEW x \in Nodes \ Foreign,
           NEW v \in IsolateEmpty(w, n, x), ~Has(v, "err")
    PROVE  v \in IsolateLeaf(w, n, x, "inside")
  <1> DEFINE S == {IF At(u, n) = x THEN u ELSE Raise(u) : u \in May(w)}
             T(u) == Then(IsolateLeaf(u, n, x, "inside"), May)
  <1>2. PICK u \in S : ~Has(u, "err") /\ v \in T(u)
    BY DEF IsolateEmpty, Then
  <1>3. PICK a \in May(w) : u = IF At(a, n) = x THEN a ELSE Raise(a)
    BY <1>2
  <1>6. u = w
    BY <1>2, <1>3, FaultsSame, RaiseRaises, MayClean DEF Stay, Same
  <1>7. PICK t \in IsolateLeaf(w, n, x, "inside") : ~Has(t, "err") /\ v \in May(t)
    BY <1>2, <1>6 DEF Then
  <1> QED BY <1>7, <1>6, IsolateLeafLevel, MayClean DEF Like

\* The probe of the exchange is kept, and the slot is where it was.
LEMMA ProbeExchangeSmooth ==
    ASSUME Held, Smooth, Held', ProbeExchange
    PROVE  Smooth'
  <1> DEFINE swap(w) == Exchange(w, "slot", "probe")
             back(w) == IF At(w, "slot") = "probe" THEN swap(w) ELSE {Raise(w)}
             failing(w, S) == IF Has(w, "err") THEN {Raise(v) : v \in S} ELSE S
             clean(w) ==
               LET v == Clear(w, {"err"})
               IN  CASE At(w, "slot") = "slot" /\ At(w, "probe") = "probe" ->
                          failing(w, IF Has(w, "err") THEN KeptBoth(v, "slot", "slot", "probe", "probe")
                                     ELSE KeptProbe(v))
                     [] At(w, "slot") = "probe" /\ At(w, "probe") = "slot" ->
                          failing(w, KeptBoth(v, "slot", "probe", "probe", "slot"))
                     [] OTHER -> {Raise(w)}
             swapped(w) == UNION {swap(u) : u \in Outside(w)}
             probed(w) == Then(swapped(w), back)
             cleaned(w) == UNION {clean(v) : v \in probed(w)}
             S1 == Then(May(q), LAMBDA w : {Put(w, "probe", "probe")})
             S2 == Then(S1, May)
             S3 == Then(S2, cleaned)
             m == Put(q, "probe", "probe")
  <1>1. Body("exchange", S3, "replace") /\ pc = "exchange"
    BY Zenon DEF ProbeExchange, KeptBoth, KeptProbe, Body
  <1>2. \A v \in S1 : (v \in May(q) /\ Has(v, "err"))
                      \/ \E u \in May(q) : ~Has(u, "err") /\ v = Put(u, "probe", "probe")
    BY DEF Then
  <1>3. \A v \in S2 : (v \in S1 /\ Has(v, "err")) \/ \E u \in S1 : ~Has(u, "err") /\ v \in May(u)
    BY DEF Then
  <1>4. \A v \in S3 : (v \in S2 /\ Has(v, "err")) \/ \E u \in S2 : ~Has(u, "err") /\ v \in cleaned(u)
    BY DEF Then
  <1>14. \A w \in probed(m) : (w \in swapped(m) /\ Has(w, "err"))
                                \/ \E x \in swapped(m) : ~Has(x, "err") /\ w \in back(x)
    BY DEF Then
  <1>15. \A v \in cleaned(m) : \E w \in probed(m) : v \in clean(w)
    BY Zenon
  <1>16. \A x \in swapped(m) : \E u \in Outside(m) : x \in Exchange(u, "slot", "probe")
    OBVIOUS
  <1>17. \A x : back(x) = IF At(x, "slot") = "probe" THEN Exchange(x, "slot", "probe") ELSE {Raise(x)}
    OBVIOUS
  <1> HIDE DEF S1, S2, S3, probed, cleaned, swapped, clean, back
  <1>5. Fair(q, "exchange") /\ q \in States /\ ~Has(q, "err")
    BY <1>1, BodyFair
  <1>6. /\ m \in States /\ m.set = q.set /\ m.open = q.open /\ m.edits = q.edits
        /\ Lay(m, "pending", "slot", "probe")
    <2>1. /\ m \in States /\ m.set = q.set /\ m.open = q.open /\ m.edits = q.edits
          /\ m.where = [q.where EXCEPT !["probe"] = "probe"] /\ q.where \in [Nodes -> Places]
      BY <1>5, PutExact, Own, NamesPlaces DEF Names, States
    <2> HIDE DEF m
    <2> QED BY <2>1, <1>5, Own DEF Lay, Placed, Astray, Fair, Course
  <1> HIDE DEF m
  <1>7. "attempted" \notin q.set /\ q.edits \in Nat
    BY <1>5 DEF Fair, Noted, BeforeReplace, States
  <1>13. /\ "slot" \in Places /\ "probe" \in Places /\ "inside" \in Places
         /\ "slot" \in Nodes /\ "probe" \in Nodes /\ "inside" # "probe"
    BY NamesPlaces, Own DEF Names
  <1>8. ASSUME NEW w \in probed(m), ~Has(w, "err")
        PROVE  /\ w \in States /\ w.set = q.set /\ w.open = q.open /\ (w.edits = 0 => q.edits = 0)
               /\ w.where["probe"] = "probe" /\ w.edits \in Nat
               /\ w.where["slot"] = "slot" => Lay(w, "pending", "slot", "probe")
    <2>1. PICK x \in swapped(m) : ~Has(x, "err") /\ w \in back(x)
      BY <1>8, <1>14
    <2>2. PICK u \in Outside(m) : x \in Exchange(u, "slot", "probe")
      BY <1>16, <2>1
    <2>3. /\ u \in States /\ u.set = q.set /\ u.open = q.open /\ u.edits \in {q.edits, q.edits + 1}
          /\ Lay(u, "pending", "slot", "probe")
      BY <1>6, <1>7, <2>2, OutsideExact, OutsideLay
    <2> DEFINE a == At(u, "slot")
               b == At(u, "probe")
    <2>4. /\ a \in Nodes /\ b \in Nodes /\ x \in States /\ x.set = u.set /\ x.open = u.open
          /\ x.edits = u.edits /\ x.where = [[u.where EXCEPT ![a] = "probe"] EXCEPT ![b] = "slot"]
      BY <2>1, <2>2, <2>3, <1>13, ExchangeClean
    <2>5. u.where[a] = "slot" /\ u.where[b] = "probe"
      BY <2>4, AtHolds
    <2> HIDE DEF a, b
    <2>6. At(x, "slot") = "probe" /\ w \in Exchange(x, "slot", "probe")
      BY <1>8, <1>17, <2>1, <2>4, RaiseRaises
    <2> DEFINE c == At(x, "probe")
    <2>7. /\ c \in Nodes /\ w \in States /\ w.set = x.set /\ w.open = x.open /\ w.edits = x.edits
          /\ w.where = [[x.where EXCEPT !["probe"] = "probe"] EXCEPT ![c] = "slot"]
      BY <1>8, <2>4, <2>6, <1>13, AtThere, ExchangeClean
    <2>8. x.where["probe"] = "slot" /\ x.where[c] = "probe"
      BY <2>6, <2>7, <1>13, AtThere
    <2> HIDE DEF c
    <2>9. /\ u.where \in [Nodes -> Places] /\ x.where \in [Nodes -> Places]
          /\ w.where \in [Nodes -> Places]
      BY <2>3, <2>4, <2>7 DEF States
    <2>10. w.where["probe"] = "probe"
      BY <2>7, <2>8, <2>9, Own
    <2>11. ASSUME NEW y \in Nodes, u.where[y] = "away" PROVE w.where[y] = "away"
      BY <2>4, <2>5, <2>9, <2>11, <2>8, <2>7
    <2>12. ASSUME w.edits = 0, w.where["slot"] = "slot" PROVE Placed(w, "pending", "slot", "probe")
      <3>1. Placed(u, "pending", "slot", "probe")
        BY <2>3, <2>4, <2>7, <2>12 DEF Lay
      <3>3. /\ x.where["slot"] = "probe" /\ x.where["generation"] = "pending"
            /\ \A f \in Foreign : x.where[f] = "nowhere"
        BY <2>4, <2>9, <3>1, <2>5, Own DEF Placed, Nodes
      <3> QED BY <2>10, <2>12, <2>7, <2>9, <3>3, <2>8, Own DEF Placed, Nodes
    <2>13. ASSUME w.edits = 1 PROVE Astray(w, "pending", "slot")
      BY <2>3, <2>4, <2>7, <2>13, Own, <2>11 DEF Lay, Astray
    <2>14. w.set = q.set /\ w.open = q.open /\ w.edits \in {q.edits, q.edits + 1}
      BY <2>3, <2>4, <2>7
    <2> QED BY <2>7, <2>10, <2>14, <2>12, <2>13, <1>7 DEF Lay
  <1>9. ASSUME NEW v \in cleaned(m), ~Has(v, "err")
        PROVE  \E w \in probed(m) : ~Has(w, "err") /\ w.where["slot"] = "slot" /\ v \in KeptProbe(w)
    <2>1. PICK w \in probed(m) : v \in clean(w)
      BY <1>9, <1>15
    <2> DEFINE kept == IF Has(w, "err")
                   THEN KeptBoth(Clear(w, {"err"}), "slot", "slot", "probe", "probe")
                       ELSE KeptProbe(Clear(w, {"err"}))
               other == KeptBoth(Clear(w, {"err"}), "slot", "probe", "probe", "slot")
    <2>2. w \in States
      <3>1. ASSUME NEW x \in States PROVE Alike(x, swap(x))
        BY ExchangeLike, NamesPlaces DEF Names, Alike
      <3>2. ASSUME NEW x \in States PROVE back(x) \subseteq States
        BY <1>17, <3>1, RaiseRaises DEF Alike, Like
      <3> QED BY <1>14, <2>1, <3>2, <1>16, <3>1, <1>6, PartsLike DEF Alike, Like
    <2>3. \/ At(w, "slot") = "slot" /\ At(w, "probe") = "probe" /\ v \in failing(w, kept)
          \/ At(w, "slot") = "probe" /\ At(w, "probe") = "slot" /\ v \in failing(w, other)
          \/ v = Raise(w)
      <3> HIDE DEF failing
      <3> QED BY <2>1 DEF clean
    <2>4. Alike(Clear(w, {"err"}), kept) /\ Alike(Clear(w, {"err"}), other)
      <3> DEFINE c == Clear(w, {"err"})
      <3>3. c \in States
        BY <2>2, RaiseSame DEF Same
      <3> HIDE DEF c
      <3> QED BY Own, <3>3, KeptLike DEF c, Names
    <2> HIDE DEF kept, other
    <2>5. ~Has(w, "err")
      <3> SUFFICES ASSUME Has(w, "err") PROVE FALSE
        OBVIOUS
      <3> QED BY <1>9, <2>2, <2>4, <2>3, RaiseRaises DEF Alike, Like
    <2>7. At(w, "slot") = "slot" /\ v \in failing(w, kept)
      BY AtThere, Own, <1>9, <2>2, <2>3, <1>8, <2>1, <2>5, RaiseRaises
    <2> QED BY <2>1, <2>5, <2>2, <2>7, ClearNothing, AtHolds, Own DEF kept
  <1>10. ASSUME NEW w \in States, ~Has(w, "err"), NEW v \in KeptProbe(w), ~Has(v, "err")
         PROVE  v \in IsolateLeaf(w, "probe", "probe", "inside")
    <2>1. PICK u \in IsolateEmpty(w, "probe", "probe") : ~Has(u, "err") /\ v \in May(u)
      BY <1>10 DEF KeptProbe, Then
    <2> QED BY <1>10, <2>1, EmptyClean, Own, IsolateLeafLevel, MayClean DEF Names, Like
  <1>11. ASSUME NEW v \in S3, ~Has(v, "err")
         PROVE  v \in cleaned(m)
    <2>1. PICK x \in S2 : ~Has(x, "err") /\ v \in cleaned(x)
      BY <1>4, <1>11
    <2>2. PICK y \in S1 : ~Has(y, "err") /\ x \in May(y)
      BY <1>3, <2>1
    <2> QED BY <2>1, <1>6, <2>2, <1>2, <1>5, MayClean DEF m
  <1>12. ASSUME NEW v \in S3, ~Has(v, "err")
         PROVE  Fair(v, "replace") /\ (v.edits = 0 => q.edits = 0)
    <2>1. PICK w \in probed(m) : ~Has(w, "err") /\ w.where["slot"] = "slot" /\ v \in KeptProbe(w)
      BY <1>9, <1>11, <1>12
    <2>2. /\ w \in States /\ w.set = q.set /\ w.open = q.open /\ (w.edits = 0 => q.edits = 0)
          /\ Lay(w, "pending", "slot", "probe") /\ w.edits \in Nat
      BY <1>8, <2>1
    <2>3. v \in IsolateLeaf(w, "probe", "probe", "inside")
      BY <1>10, <1>12, <2>1, <2>2
    <2>4. PICK t \in Outside(w) :
             \E z \in States :
              /\ t.where["probe"] = "probe" /\ z.where = [t.where EXCEPT !["probe"] = "inside"]
              /\ z.edits = t.edits /\ z.set = t.set /\ z.open = t.open
              /\ v \in Outside(z)
      <3>1. w \in States /\ ~Has(w, "err") /\ ~Has(v, "err")
        BY <1>12, <2>1, <2>2
      <3> HIDE DEF failing, swap
      <3> QED BY <1>13, <2>3, <3>1, LeafClean
    <2>5. PICK z \in States :
              /\ t.where["probe"] = "probe" /\ z.where = [t.where EXCEPT !["probe"] = "inside"]
              /\ z.edits = t.edits /\ z.set = t.set /\ z.open = t.open
              /\ v \in Outside(z)
      BY <2>4
    <2>6. /\ t \in States /\ t.set = q.set /\ t.open = q.open /\ t.edits \in {w.edits, w.edits + 1}
          /\ Lay(t, "pending", "slot", "probe")
      BY <1>7, <2>2, OutsideExact, OutsideLay
    <2>7. Lay(z, "pending", "slot", "inside")
      BY <2>6, <2>5, Own DEF States, Lay, Placed, Astray
    <2>8. /\ v \in States /\ v.set = q.set /\ v.open = q.open /\ v.edits \in {z.edits, z.edits + 1}
          /\ Lay(v, "pending", "slot", "inside")
      BY <1>7, <2>5, <2>6, <2>7, OutsideExact, OutsideLay
    <2>10. Course(v, "replace")
      BY <2>8 DEF Course, BeforePending, BeforeSlot, BeforeFinalize, BeforeRetire, AfterRetire
    <2>11. Noted(v, "replace")
      BY <1>5, <2>8 DEF Fair, Noted, BeforePending, BeforeSlot, BeforeReplace, BeforeFinalize
    <2> QED BY <1>5, <2>8, <2>2, <2>5, <2>6, <2>10, <2>11 DEF Fair
  <1> QED BY <1>1, <1>12, BodySmooth

\* The publication, where the rename is not undone.
LEMMA ReplaceSmooth ==
    ASSUME Held, Smooth, Held', Replace
    PROVE  Smooth'
  <1> DEFINE stated == Then(May(q), LAMBDA w : May(Set(w, {"stated"})))
             ready(w) == Set(w, {"attempted", "required"})
             renamed(w) == UNION {Rename(ready(v), "pending", "normal") : v \in Outside(w)}
             confirmed(w) == May(w)
             undone(w) == {Raise(v) : v \in RollbackAttempted(Set(w, {"required"}), "generations")}
             done(w) == Then(renamed(w), confirmed)
             kept(w) == Except(done(w), undone)
             S == UNION {IF Has(w, "err") THEN {w} ELSE kept(w) : w \in stated}
             a == Set(q, {"stated"})
  <1>1. Body("replace", S, "commit") /\ pc = "replace"
    BY Zenon DEF Replace, Body
  <1>2. \A v \in stated : (v \in May(q) /\ Has(v, "err"))
                          \/ \E u \in May(q) : ~Has(u, "err") /\ v \in May(Set(u, {"stated"}))
    BY DEF Then
  <1>3. \A v \in S : (v \in stated /\ Has(v, "err")) \/ \E u \in stated : ~Has(u, "err") /\ v \in kept(u)
    BY Zenon
  <1>4. \A v \in kept(a) : \E u \in done(a) :
           \/ Has(u, "err") /\ v \in undone(Clear(u, {"err"}))
           \/ ~Has(u, "err") /\ v = u
    BY DEF Except
  <1>5. \A v \in done(a) : (v \in renamed(a) /\ Has(v, "err"))
                           \/ \E u \in renamed(a) : ~Has(u, "err") /\ v \in May(u)
    BY DEF Then
  <1>6. \A v \in renamed(a) : \E t \in Outside(a) : v \in Rename(ready(t), "pending", "normal")
    OBVIOUS
  <1> HIDE DEF S, stated, kept, done, renamed
  <1>7. Fair(q, "replace") /\ q \in States /\ ~Has(q, "err") /\ "anchor" \in q.open
    BY <1>1, BodyFair DEF Held, Anchored
  <1>8. Fair(a, "replace") /\ a.edits = q.edits /\ a.open = q.open
    BY <1>7, Marking DEF Descriptors
  <1>9. a \in States /\ ~Has(a, "err")
    BY <1>8 DEF Fair, Has
  <1> HIDE DEF a
  <1>10. ASSUME NEW v \in S, ~Has(v, "err") PROVE v \in kept(a)
    <2>1. PICK w \in stated : ~Has(w, "err") /\ v \in kept(w)
      BY <1>3, <1>10
    <2>2. PICK u \in May(q) : ~Has(u, "err") /\ w \in May(Set(u, {"stated"}))
      BY <1>2, <2>1
    <2> QED BY <2>1, <1>9, <1>7, <2>2, MayClean DEF a
  <1>11. ASSUME NEW t \in Outside(a)
         PROVE  /\ Fair(t, "replace") /\ (t.edits = 0 => q.edits = 0) /\ t.open = q.open
                /\ ready(t) \in States /\ ready(t).set = t.set \cup {"attempted", "required"}
                /\ ready(t).open = t.open /\ ready(t).where = t.where /\ ready(t).edits = t.edits
    <2>1. Fair(t, "replace") /\ (t.edits = 0 => q.edits = 0)
      BY <1>8, OutsideFair DEF AfterRetire, BeforeRetire
    <2>2. t \in States /\ t.open = q.open
      BY <1>8, <1>9, OutsideExact
    <2> QED BY <2>1, <2>2, Flagged, FlaggedExact DEF Flags
  <1>12. ASSUME NEW u \in renamed(a) PROVE u \in States
    <2>1. PICK t \in Outside(a) : u \in Rename(ready(t), "pending", "normal")
      BY <1>6
    <2> QED BY <1>11, <2>1, RenameExact, NamesPlaces DEF Names
  <1>13. ASSUME NEW u \in done(a) PROVE u \in States
    BY <1>5, <1>12, FaultsSame DEF Stay, Same
  <1>14. ASSUME NEW v \in kept(a), ~Has(v, "err") PROVE v \in renamed(a)
    <2>1. PICK u \in done(a) : \/ Has(u, "err") /\ v \in undone(Clear(u, {"err"}))
                               \/ ~Has(u, "err") /\ v = u
      BY <1>4, <1>14
    <2>2. CASE Has(u, "err") /\ v \in undone(Clear(u, {"err"}))
      <3> DEFINE c == Set(Clear(u, {"err"}), {"required"})
      <3>1. c \in States
        BY <1>13, Flagged DEF Flags
      <3>2. PICK x \in RollbackAttempted(c, "generations") : v = Raise(x)
        BY <2>2
      <3> HIDE DEF c
      <3> QED BY <1>14, <3>2, <3>1, RollbackAttemptedSame, RaiseRaises DEF Stay, Same
    <2>3. CASE v = u
      <3>1. PICK x \in renamed(a) : ~Has(x, "err") /\ v \in May(x)
        BY <1>5, <1>14, <2>3
      <3> QED BY <3>1, <1>12, <1>14, MayClean
    <2> QED BY <2>1, <2>2, <2>3
  <1> HIDE DEF undone
  <1>15. ASSUME NEW v \in S, ~Has(v, "err")
         PROVE  Fair(v, "commit") /\ (v.edits = 0 => q.edits = 0)
    <2>2. PICK t \in Outside(a) : v \in Rename(ready(t), "pending", "normal")
      BY <1>6, <1>10, <1>14, <1>15
    <2> DEFINE y == ready(t)
               x == At(y, "pending")
    <2>3. /\ Fair(t, "replace") /\ (t.edits = 0 => q.edits = 0) /\ t.open = q.open
          /\ y \in States /\ y.set = t.set \cup {"attempted", "required"}
          /\ y.open = t.open /\ y.where = t.where /\ y.edits = t.edits
      BY <1>11
    <2>4. v \in Rename(y, "pending", "normal")
      BY <2>2
    <2> HIDE DEF y, ready
    <2>5. "normal" \in Places
      BY NamesPlaces DEF Names
    <2>6. x \in Nodes /\ v = Put(y, x, "normal")
      BY <1>15, <2>3, <2>4, <2>5, RenameExact
    <2>7. y.where[x] = "pending"
      BY <2>6, AtThere
    <2>8. /\ v \in States /\ v.where = [y.where EXCEPT ![x] = "normal"] /\ v.open = y.open
          /\ v.set = y.set /\ v.edits = y.edits
      BY <2>3, <2>5, <2>6, PutExact
    <2> HIDE DEF x
    <2>9. Lay(y, "pending", "slot", "inside") /\ y.where \in [Nodes -> Places]
      BY <2>3 DEF Fair, Course, Lay, Placed, Astray, States
    <2>10. Lay(v, "normal", "slot", "inside")
      BY <2>8, <2>9, <2>6, <2>7, Own DEF Lay, Placed, Nodes, Astray
    <2>11. Course(v, "commit")
      BY <2>10 DEF Course, BeforePending, BeforeSlot, BeforeRetire, AfterRetire
    <2>13. Noted(v, "commit") /\ v.set \cap {"exitFailed", "releaseFailed", "err"} = {}
      BY <1>7, <2>3, <2>8 DEF Fair, Noted, BeforePending, BeforeSlot, BeforeReplace,
         BeforeFinalize
    <2> QED BY <2>3, <2>8, <2>11, <2>13 DEF Fair
  <1> QED BY <1>1, <1>15, BodySmooth

\* The commit, and the output binding.
LEMMA CommitSmooth ==
    ASSUME Held, Smooth, Held', Commit
    PROVE  Smooth'
  <1> DEFINE c == Set(q, {"committed"})
             w == Clear(Set(q, {"committed"}), {"required"})
             current(v) == {IF At(u, "normal") = "generation" THEN u ELSE Raise(u) : u \in Outside(v)}
             S1 == Then(May(w), current)
             S2 == Then(S1, LAMBDA v : May(Open(v, {"binding"})))
             S == IF Has(w, "retain") THEN PinOutputBinding(w) ELSE {w}
  <1>1. Body("commit", S, "housekeeping") /\ pc = "commit"
    BY Zenon DEF Commit, Body
  <1>2. PinOutputBinding(w) = S2
    BY Zenon DEF PinOutputBinding
  <1>3. \A v \in S1 : (v \in May(w) /\ Has(v, "err"))
           \/ \E u \in May(w) : ~Has(u, "err") /\ v \in current(u)
    BY DEF Then
  <1>4. \A v \in S2 : (v \in S1 /\ Has(v, "err"))
                      \/ \E u \in S1 : ~Has(u, "err") /\ v \in May(Open(u, {"binding"}))
    BY DEF Then
  <1>5. \A v \in S : v = w \/ v \in S2
    BY <1>2, Zenon
  <1> HIDE DEF S, S1, S2
  <1>6. Fair(q, "commit") /\ q \in States
    BY <1>1, BodyFair
  <1>7. Fair(w, "housekeeping") /\ w.edits = q.edits /\ w \in States /\ ~Has(w, "err")
    <2>1. /\ c \in States /\ c.set = q.set \cup {"committed"} /\ c.open = q.open /\ c.where = q.where
          /\ c.edits = q.edits
      BY <1>6, Flagged, FlaggedExact DEF Flags
    <2>2. w = Clear(c, {"required"})
      OBVIOUS
    <2> HIDE DEF c, w
    <2>3. /\ w \in States /\ w.set = c.set \ {"required"} /\ w.open = c.open /\ w.where = c.where
          /\ w.edits = c.edits
      BY <2>1, <2>2, Flagged, FlaggedExact DEF Flags
    <2>4. Course(w, "housekeeping")
      BY <1>6, <2>1, <2>3 DEF Fair, Course, Lay, Placed, Astray, BeforePending, BeforeSlot,
                              BeforeFinalize, BeforeRetire, AfterRetire
    <2>5. Noted(w, "housekeeping")
      BY <1>6, <2>1, <2>3 DEF Fair, Noted, BeforePending, BeforeSlot, BeforeReplace, BeforeFinalize
    <2> QED BY <1>6, <2>1, <2>3, <2>4, <2>5 DEF Fair, Has
  <1> HIDE DEF w
  <1>8. ASSUME NEW v \in S2, ~Has(v, "err")
        PROVE  Fair(v, "housekeeping") /\ (v.edits = 0 => q.edits = 0)
    <2>1. PICK u \in S1 : ~Has(u, "err") /\ v \in May(Open(u, {"binding"}))
      BY <1>4, <1>8
    <2>2. PICK x \in May(w) : ~Has(x, "err") /\ u \in current(x)
      BY <1>3, <2>1
    <2>3. x = w
      BY <1>7, <2>2, MayClean
    <2>4. PICK y \in Outside(w) : u = IF At(y, "normal") = "generation" THEN y ELSE Raise(y)
      BY <2>2, <2>3
    <2>5. u = y
      BY <1>7, <2>1, <2>4, OutsideExact, RaiseRaises
    <2>6. Fair(u, "housekeeping") /\ (u.edits = 0 => q.edits = 0)
      BY <1>7, <2>5, OutsideFair DEF AfterRetire, BeforeRetire
    <2> DEFINE o == Open(u, {"binding"})
    <2>7. Fair(o, "housekeeping") /\ o.edits = u.edits
      BY <2>6, Marking DEF Descriptors
    <2>8. v \in May(o)
      BY <2>1
    <2> HIDE DEF o
    <2>9. o \in States
      BY <2>7 DEF Fair
    <2> QED BY <1>8, <2>6, <2>7, <2>8, <2>9, MayClean
  <1> QED BY <1>1, <1>5, <1>7, <1>8, BodySmooth

\* A call whose arguments are refused raises.
LEMMA ValidateSmooth ==
    ASSUME Held, Smooth, Held', Validate
    PROVE  Smooth'
  <1>1. PICK v \in May(q) :
            /\ q' = Clear(v, {"err"})
            /\ IF Has(v, "err") THEN pc' = "done" /\ outcome' = "raised" /\ first' = "validate"
               ELSE pc' = "pin" /\ UNCHANGED <<outcome, first>>
    BY DEF Validate
  <1>2. pc = "validate" /\ edited' = edited
    BY DEF Validate
  <1>3. Fair(q, "validate") /\ q \in States /\ outcome = "running" /\ first = "none"
        /\ (q.edits = 0 => edited = "none")
    BY <1>2, BodyFair DEF Smooth
  <1>4. CASE Has(v, "err")
    BY <1>1, <1>4 DEF Smooth, ReturnedIsPublished
  <1>5. CASE ~Has(v, "err")
    <2>1. q' = q
      BY <1>1, <1>3, <1>5, MayClean, ClearNothing
    <2>2. pc' = "pin" /\ outcome' = "running" /\ first' = "none"
      BY <1>1, <1>3, <1>5
    <2>3. Fair(q', pc')
      BY <1>3, <2>1, <2>2, NextLabel
    <2>4. pc' \notin AfterRetire /\ ReturnedIsPublished' /\ ~Doomed'
      BY <2>2, <2>3 DEF AfterRetire, ReturnedIsPublished, Doomed, Fair
    <2> QED BY <1>2, <1>3, <2>1, <2>2, <2>3, <2>4 DEF Smooth
  <1> QED BY <1>4, <1>5

\* A step of the finally: a failure that it notes the call does not survive.
LEMMA LaterSmooth ==
    ASSUME Held, Smooth, NEW label \in Later, NEW S, NEW next \in Later, Finally(label, S, next),
           Lasting(q, q'),
           ~Doomed => \A v \in S :
              \/ v \in States /\ "releaseFailed" \in v.set
              \/ /\ Fair(v, next) /\ (v.edits = 0 => q.edits = 0)
                 /\ next \in AfterRetire /\ v.edits = 1 =>
                      IF label \in AfterRetire THEN q.edits = 1 ELSE label = "retire" /\ q.edits = 0
    PROVE  Smooth'
  <1>1. PICK v \in S :
              /\ q' = Clear(v, {"err"}) /\ pc' = next
              /\ first' = IF first = "none" /\ (Has(v, "err") \/ Failed(v)) THEN pc ELSE first
              /\ edited' = IF edited = "none" /\ v.edits # q.edits THEN pc ELSE edited
    BY DEF Finally, Step
  <1>2. pc = label /\ outcome' = outcome
    BY DEF Finally, Step
  <1>3. /\ label \notin BodyLabels \cup {"validate", "housekeeping", "done"}
        /\ next \notin BodyLabels \cup {"validate", "housekeeping", "done"}
    BY DEF Later, BeforeFinalize, BeforeRetire, AfterRetire, BodyLabels
  <1>4. outcome' = "running" /\ ReturnedIsPublished'
    BY <1>2, <1>3 DEF Smooth, ReturnedIsPublished
  <1>5. CASE Doomed
    BY <1>1, <1>3, <1>5, <1>4 DEF Doomed, Lasting, Smooth
  <1>6. CASE v \in States /\ "releaseFailed" \in v.set
    BY <1>1, <1>6, Flagged, <1>3, <1>4 DEF Flags, Smooth, Doomed
  <1>7. CASE ~Doomed /\ ~(v \in States /\ "releaseFailed" \in v.set)
    <2>1. /\ Fair(v, next) /\ (v.edits = 0 => q.edits = 0)
          /\ next \in AfterRetire /\ v.edits = 1 =>
               IF label \in AfterRetire THEN q.edits = 1 ELSE label = "retire" /\ q.edits = 0
      BY <1>7
    <2>2. q' = v
      BY <1>1, <2>1, ClearNothing DEF Fair, Has
    <2>3. /\ first = "none" /\ (q.edits = 0 => edited = "none")
          /\ label \in AfterRetire /\ q.edits = 1 => edited = "retire"
      BY <1>2, <1>3, <1>7 DEF Smooth
    <2>5. first' = "none" /\ (q'.edits = 0 => edited' = "none")
      BY <1>1, <2>1, <2>2, <2>3 DEF Fair, Noted, Failed, Has
    <2> QED BY <1>1, <1>3, <1>4, <2>1, <2>2, <2>5, <1>2, <2>3 DEF Smooth
  <1> QED BY <1>5, <1>6, <1>7

\* What a call that goes on holds from one label to the next, when nothing moves.
LEMMA FairOn ==
    ASSUME NEW label, NEW next, NEW w, Fair(w, label), NEW v \in States, NEW ds,
           \/ label \in BeforeFinalize \ {"commit"} /\
              next \in BeforeFinalize \ {"commit", "housekeeping"}
           \/ label \in BeforeRetire /\ next \in BeforeRetire
           \/ label \in AfterRetire /\ next \in AfterRetire,
           v.where = w.where, v.edits = w.edits, v.set = w.set, w.open \ ds \subseteq v.open,
           "identity" \in ds => next \notin BeforeFinalize,
           "anchor" \in ds => next \notin BeforeFinalize \cup {"pendingLate", "anchor"},
           label \in {"anchor", "retire"} => next = "retire"
    PROVE  Fair(v, next)
  <1>1. Course(v, next)
    BY DEF Fair, Course, Lay, Placed, Astray, BeforePending, BeforeSlot, BeforeFinalize, BeforeRetire,
           AfterRetire
  <1>2. Noted(v, next)
    BY DEF Fair, Noted, BeforePending, BeforeSlot, BeforeReplace, BeforeFinalize, BeforeRetire,
           AfterRetire, BodyLabels
  <1> QED BY <1>1, <1>2 DEF Fair

\* So a step that gives descriptors back, and remembers each failure.
LEMMA GivenBack ==
    ASSUME Held, Smooth, NEW label \in Later, NEW S, NEW next \in Later, NEW ds,
           Finally(label, S, next), Lasting(q, q'),
           \/ label \in BeforeFinalize /\ next \in BeforeFinalize
           \/ label \in BeforeRetire /\ next \in BeforeRetire
           \/ label \in AfterRetire /\ next \in AfterRetire,
           "identity" \in ds => next \notin BeforeFinalize,
           "anchor" \in ds => next \notin BeforeFinalize \cup {"pendingLate", "anchor"},
           label \in {"anchor", "retire"} => next = "retire",
           Fair(q, label) => \A v \in S : v \in States /\
              \/ "releaseFailed" \in v.set
              \/ /\ v.where = q.where /\ v.edits = q.edits /\ v.set = q.set
                 /\ q.open \ ds \subseteq v.open
    PROVE  Smooth'
  <1>1. pc = label /\ label # "done" /\ label # "commit" /\ next \notin {"commit", "housekeeping"}
    BY DEF Finally, Later, BeforeFinalize, BeforeRetire, AfterRetire
  <1>2. ASSUME ~Doomed, NEW v \in S
        PROVE  \/ v \in States /\ "releaseFailed" \in v.set
               \/ /\ Fair(v, next) /\ (v.edits = 0 => q.edits = 0)
                  /\ next \in AfterRetire /\ v.edits = 1 =>
                       IF label \in AfterRetire THEN q.edits = 1 ELSE label = "retire" /\ q.edits = 0
    BY <1>1, <1>2, FairOn DEF Smooth, BeforeFinalize, BeforeRetire, AfterRetire
  <1> QED BY <1>2, LaterSmooth

\* A close that fails is remembered.
LEMMA ReleaseRemembers ==
    ASSUME NEW w \in States, NEW x, NEW d,
           NEW before \in {"rollback", "recovery", "nothing"},
           NEW after \in {"rollback", "recovery", "nothing"}
    PROVE  \A v \in Release(w, x, before, after, d) : Handed(w, v, x)
  <1> SUFFICES ASSUME NEW v \in Release(w, x, before, after, d) PROVE Handed(w, v, x)
    OBVIOUS
  <1>1. v \in States
    BY ReleaseCloses DEF Closed
  <1>2. CASE v = Close(w, {x})
    BY <1>1, <1>2 DEF Close, States, Handed
  <1>3. CASE \E u \in Faults(w) : \E t \in Undo(u, before, d) : v = Remember(Close(t, {x}))
    <2>0. PICK u \in Faults(w) : \E t \in Undo(u, before, d) : v = Remember(Close(t, {x}))
      BY <1>3
    <2>1. PICK t \in Undo(u, before, d) : v = Remember(Close(t, {x}))
      BY <2>0
    <2>3. t \in States
      BY <2>1, FaultsExact, UndoSame DEF Stay, Same
    <2> QED BY <1>1, <2>1, <2>3, CloseCloses, Flagged DEF Remember, Flags, Handed
  <1>4. CASE \E u \in Faults(w) : v \in Undo(Remember(Close(u, {x})), after, d)
    <2>1. PICK u \in Faults(w) : v \in Undo(Remember(Close(u, {x})), after, d)
      BY <1>4
    <2> DEFINE r == Remember(Close(u, {x}))
    <2>3. r \in States /\ "releaseFailed" \in r.set
      BY FaultsExact, CloseCloses, Flagged DEF Remember, Flags
    <2>4. v \in Undo(r, after, d)
      BY <2>1
    <2> HIDE DEF r
    <2> QED BY <1>1, <2>3, <2>4, UndoSame DEF Same, Volatile, Handed, Stay
  <1> QED BY <1>2, <1>3, <1>4 DEF Release

\* A failure that is remembered stays so, whatever is done about it.
LEMMA RememberStays ==
    ASSUME NEW w \in States, NEW v
    PROVE  /\ Remember(w) \in States /\ "releaseFailed" \in Remember(w).set
           /\ Require(w) \in States /\ "releaseFailed" \in Require(Remember(w)).set
           /\ Require(Remember(w)) \in States
           /\ Same(w, v) /\ "releaseFailed" \in w.set => "releaseFailed" \in v.set
  BY Flagged DEF Remember, Flags, Require, Same, Volatile

\* The labels of the finally, for the steps below.
LEMMA LaterLabels ==
    /\ {"early", "slotEarly", "pendingEarly", "generations", "cleanupAnchor", "rollback", "finalize"}
         \subseteq BeforeFinalize \cap Later
    /\ {"pendingLate", "anchor", "retire"} \subseteq BeforeRetire \cap Later
    /\ {"slotLate", "cleanup", "identity", "drain", "conclude", "concluded"}
         \subseteq AfterRetire \cap Later
    /\ Later \cap ({"done"} \cup BodyLabels) = {}
    /\ BeforeFinalize \cap (BeforeRetire \cup AfterRetire) = {} /\ BeforeRetire \cap AfterRetire = {}
  BY DEF Later, BeforeFinalize, BeforeRetire, AfterRetire, BodyLabels

\* The pending name, when nothing was published.
LEMMA FinalizeEarlySmooth ==
    ASSUME Held, Smooth, Lasting(q, q'), FinalizeEarly
    PROVE  Smooth'
  <1> DEFINE S == IF "anchor" \in q.open THEN {q} ELSE Reported(FinalizePending(q))
  <1>1. Finally("early", S, "slotEarly")
    BY DEF FinalizeEarly
  <1>2. ASSUME Fair(q, "early"), NEW v \in S PROVE v = q /\ v \in States
    BY <1>2, LaterLabels DEF Fair, Noted
  <1> HIDE DEF S
  <1> QED BY <1>1, <1>2, GivenBack, LaterLabels

\* The slot, when no publication needs it.
LEMMA RetireSlotEarlySmooth ==
    ASSUME Held, Smooth, Lasting(q, q'), RetireSlotEarly
    PROVE  Smooth'
  <1> DEFINE kept(w) ==
               UNION {CASE At(v, "slot") = "none" -> {v}
                        [] At(v, "slot") = "slot" /\ Owned(v) /\ "slot" \in v.open ->
                             IsolateEmpty(v, "slot", "slot")
                        [] OTHER -> {Raise(v)}
                      : v \in Outside(w)}
             E == Except(kept(q), LAMBDA v : RequiredRollback(Remember(v), "generations"))
             S == IF ~Unresolved(q) /\ "generations" \in q.open /\ Has(q, "slotNamed") THEN E ELSE {q}
  <1>1. Finally("slotEarly", S, "pendingEarly")
    BY DEF RetireSlotEarly
  <1> HIDE DEF E
  <1>2. ASSUME Fair(q, "slotEarly"), NEW v \in S PROVE v = q /\ v \in States
    BY <1>2 DEF Fair, Noted, Unresolved, Has, BeforeReplace, BeforePending, BeforeSlot
  <1> HIDE DEF S
  <1> QED BY <1>1, <1>2, GivenBack, LaterLabels

\* The descriptors of the pending directory, when nothing was published.
LEMMA ReleasePendingEarlySmooth ==
    ASSUME Held, Smooth, Lasting(q, q'), ReleasePendingEarly
    PROVE  Smooth'
  <1> DEFINE release(w, d) == IF d \in w.open THEN Release(w, d, "nothing", "nothing", d) ELSE {w}
             S == IF "anchor" \in q.open THEN {q}
                  ELSE UNION {release(v, "identity") : v \in release(q, "pending")}
  <1>1. Finally("pendingEarly", S, "generations")
    BY DEF ReleasePendingEarly
  <1>2. ASSUME Fair(q, "pendingEarly"), NEW v \in S PROVE v = q /\ v \in States
    BY <1>2, LaterLabels DEF Fair, Noted
  <1> HIDE DEF S
  <1> QED BY <1>1, <1>2, GivenBack, LaterLabels

\* A release.
LEMMA Releasing ==
    ASSUME Held, Smooth, Lasting(q, q'), NEW label \in Later, NEW next \in Later, NEW S, NEW x,
           Finally(label, S, next), \A v \in S : v = q \/ Handed(q, v, x),
           \/ label \in BeforeFinalize /\ next \in BeforeFinalize
           \/ label \in BeforeRetire /\ next \in BeforeRetire
           \/ label \in AfterRetire /\ next \in AfterRetire,
           x = "identity" => next \notin BeforeFinalize,
           x = "anchor" => next \notin BeforeFinalize \cup {"pendingLate", "anchor"},
           label \in {"anchor", "retire"} => next = "retire"
    PROVE  Smooth'
  <1> DEFINE ds == {x}
  <1>2. "identity" \in ds => next \notin BeforeFinalize
    OBVIOUS
  <1> HIDE DEF ds
  <1> QED BY <1>2, GivenBack DEF Held, Handed

\* The descriptor of .generations.
LEMMA ReleaseGenerationsSmooth ==
    ASSUME Held, Smooth, Lasting(q, q'), ReleaseGenerations
    PROVE  Smooth'
  <1> DEFINE R == Release(q, "generations", "rollback", "rollback", "rollback")
             S == IF "generations" \in q.open THEN R ELSE {q}
  <1>1. Finally("generations", S, "cleanupAnchor")
    BY DEF ReleaseGenerations
  <1>2. \A v \in R : Handed(q, v, "generations")
    BY ReleaseRemembers DEF Held
  <1> HIDE DEF R
  <1>3. \A v \in S : v = q \/ Handed(q, v, "generations")
    BY <1>2
  <1> HIDE DEF S
  <1> QED BY <1>1, <1>3, LaterLabels, Releasing

\* The descriptor for a rollback.
LEMMA ReleaseRollbackSmooth ==
    ASSUME Held, Smooth, Lasting(q, q'), ReleaseRollback
    PROVE  Smooth'
  <1> DEFINE R == Release(q, "rollback", "rollback", "rollback", "anchor")
             S == IF "rollback" \in q.open THEN R ELSE {q}
  <1>1. Finally("rollback", S, "finalize")
    BY DEF ReleaseRollback
  <1>2. \A v \in R : Handed(q, v, "rollback")
    BY ReleaseRemembers DEF Held
  <1> HIDE DEF R
  <1>3. \A v \in S : v = q \/ Handed(q, v, "rollback")
    BY <1>2
  <1> HIDE DEF S
  <1> QED BY <1>1, <1>3, LaterLabels, Releasing

\* The descriptor of the pending directory.
LEMMA ReleasePendingSmooth ==
    ASSUME Held, Smooth, Lasting(q, q'), ReleasePending
    PROVE  Smooth'
  <1> DEFINE R == Release(q, "pending", "recovery", "recovery", "anchor")
             S == IF "pending" \in q.open THEN R ELSE {q}
  <1>1. Finally("pendingLate", S, "anchor")
    BY DEF ReleasePending
  <1>2. \A v \in R : Handed(q, v, "pending")
    BY ReleaseRemembers DEF Held
  <1> HIDE DEF R
  <1>3. \A v \in S : v = q \/ Handed(q, v, "pending")
    BY <1>2
  <1> HIDE DEF S
  <1> QED BY <1>1, <1>3, LaterLabels, Releasing

\* The final anchor.
LEMMA ReleaseAnchorSmooth ==
    ASSUME Held, Smooth, Lasting(q, q'), ReleaseAnchor
    PROVE  Smooth'
  <1> DEFINE R == Release(q, "anchor", "rollback", "nothing", "anchor")
             S == R
  <1>1. Finally("anchor", S, "retire")
    BY DEF ReleaseAnchor
  <1>2. \A v \in R : Handed(q, v, "anchor")
    BY ReleaseRemembers DEF Held
  <1> HIDE DEF R
  <1>3. \A v \in S : v = q \/ Handed(q, v, "anchor")
    BY <1>2
  <1> HIDE DEF S
  <1> QED BY <1>1, <1>3, LaterLabels, Releasing

\* The cleanup anchor.
LEMMA ReleaseCleanupSmooth ==
    ASSUME Held, Smooth, Lasting(q, q'), ReleaseCleanup
    PROVE  Smooth'
  <1> DEFINE R == Release(q, "cleanup", "recovery", "nothing", "cleanup")
             S == IF "cleanup" \in q.open THEN R ELSE {q}
  <1>1. Finally("cleanup", S, "identity")
    BY DEF ReleaseCleanup
  <1>2. \A v \in R : Handed(q, v, "cleanup")
    BY ReleaseRemembers DEF Held
  <1> HIDE DEF R
  <1>3. \A v \in S : v = q \/ Handed(q, v, "cleanup")
    BY <1>2
  <1> HIDE DEF S
  <1> QED BY <1>1, <1>3, LaterLabels, Releasing

\* The identity anchor.
LEMMA ReleaseIdentitySmooth ==
    ASSUME Held, Smooth, Lasting(q, q'), ReleaseIdentity
    PROVE  Smooth'
  <1> DEFINE R == Release(q, "identity", "nothing", "nothing", "identity")
             S == IF "identity" \in q.open THEN R ELSE {q}
  <1>1. Finally("identity", S, "drain")
    BY DEF ReleaseIdentity
  <1>2. \A v \in R : Handed(q, v, "identity")
    BY ReleaseRemembers DEF Held
  <1> HIDE DEF R
  <1>3. \A v \in S : v = q \/ Handed(q, v, "identity")
    BY <1>2
  <1> HIDE DEF S
  <1> QED BY <1>1, <1>3, LaterLabels, Releasing

\* The slot, where only a failed close has the recovery tried again.
LEMMA ReleaseSlotSmooth ==
    ASSUME Held, Smooth, Lasting(q, q'), ReleaseSlot
    PROVE  Smooth'
  <1> DEFINE recovery == IF Has(q, "retiring") THEN "recovery" ELSE "nothing"
             again(w) == IF Has(w, "retired") /\ ~Has(w, "resolved")
                         THEN Undo(w, recovery, CleanupAnchor(w)) ELSE {w}
             closed == Close(q, {"slot"})
             R == Release(q, "slot", recovery, "nothing", CleanupAnchor(q))
             S == IF "slot" \in q.open THEN UNION {IF v = closed THEN {v} ELSE again(v) : v \in R}
                  ELSE {q}
  <1>1. Finally("slotLate", S, "cleanup")
    BY DEF ReleaseSlot
  <1>2. recovery \in {"rollback", "recovery", "nothing"}
    OBVIOUS
  <1> HIDE DEF recovery
  <1>3. \A v \in R : Handed(q, v, "slot")
    BY <1>2, ReleaseRemembers DEF Held
  <1>4. ASSUME NEW u \in States, "releaseFailed" \in u.set, NEW v \in again(u)
        PROVE  v \in States /\ "releaseFailed" \in v.set
    BY <1>2, UndoSame, RaiseSame, <1>4 DEF Stay, Same, Volatile
  <1> HIDE DEF R, again
  <1>5. \A v \in S : v = q \/ Handed(q, v, "slot")
    BY <1>3, <1>4 DEF Handed
  <1> HIDE DEF S, closed
  <1> QED BY <1>1, <1>5, Releasing, LaterLabels

\* The cleanup anchor is made, or that it could not be is remembered.
LEMMA DuplicateCleanupAnchorSmooth ==
    ASSUME Held, Smooth, Lasting(q, q'), DuplicateCleanupAnchor
    PROVE  Smooth'
  <1> DEFINE F == UNION {RequiredRollback(Remember(v), "anchor") : v \in Faults(q)}
             o == Open(q, {"cleanup"})
             S == IF {"rollback", "anchor"} \subseteq q.open /\ "binding" \notin q.open
                  THEN {o} \cup F ELSE {q}
  <1>1. Finally("cleanupAnchor", S, "rollback")
    BY DEF DuplicateCleanupAnchor
  <1>2. /\ o \in States /\ o.where = q.where /\ o.edits = q.edits /\ o.set = q.set
        /\ q.open \subseteq o.open
    BY DEF Open, Held, States, Descriptors
  <1>3. ASSUME NEW v \in F PROVE v \in States /\ "releaseFailed" \in v.set
    <2>1. PICK u \in Faults(q) : v \in RequiredRollback(Remember(u), "anchor")
      OBVIOUS
    <2> DEFINE r == Remember(u)
    <2>2. r \in States /\ "releaseFailed" \in r.set
      BY FaultsExact, RememberStays DEF Held
    <2>3. v \in RequiredRollback(r, "anchor")
      BY <2>1
    <2> HIDE DEF r
    <2> QED BY <2>2, <2>3, RequiredSame DEF Same, Volatile, Stay
  <1> HIDE DEF F, o
  <1>5. ASSUME NEW v \in S
        PROVE  /\ v \in States
               /\ "releaseFailed" \in v.set \/
                  /\ v.where = q.where /\ v.edits = q.edits /\ v.set = q.set
                  /\ q.open \ {} \subseteq v.open
    BY <1>2, <1>3 DEF Held
  <1> HIDE DEF S
  <1> QED BY <1>1, <1>5, GivenBack, LaterLabels

\* A temporary query that stays makes the call raise.
LEMMA HousekeepingSmooth ==
    ASSUME Held, Smooth, Tended(q, q'), Housekeeping
    PROVE  Smooth'
  <1> DEFINE S == {IF Has(v, "err") THEN v ELSE Set(v, {"housekept"}) : v \in Cleaned}
  <1>1. Finally("housekeeping", S, "early")
    BY Zenon DEF Housekeeping, Cleaned, Unlinked, Undone
  <1>2. PICK u \in S :
              /\ q' = Clear(u, {"err"}) /\ pc' = "early"
              /\ first' = IF first = "none" /\ (Has(u, "err") \/ Failed(u)) THEN pc ELSE first
              /\ edited' = IF edited = "none" /\ u.edits # q.edits THEN pc ELSE edited
    BY <1>1 DEF Finally, Step
  <1>3. PICK v \in Cleaned : u = IF Has(v, "err") THEN v ELSE Set(v, {"housekept"})
    OBVIOUS
  <1> HIDE DEF S
  <1>4. pc = "housekeeping" /\ outcome' = outcome
    BY <1>1 DEF Finally, Step
  <1>5. "early" \notin BodyLabels \cup {"validate", "housekeeping", "done"} \cup AfterRetire
    BY DEF BodyLabels, AfterRetire
  <1>6. outcome' = "running" /\ ReturnedIsPublished'
    BY <1>4 DEF Smooth, ReturnedIsPublished
  <1>7. Kept(q, v) /\ v \in States /\ q \in States
    BY CleanedKept DEF Kept, Without, Held
  <1>8. CASE Doomed
    BY <1>4, <1>8, <1>2, <1>5, <1>6 DEF Doomed, Smooth, Tended
  <1>9. CASE ~Doomed /\ Has(v, "err")
    <2>1. "housekept" \notin q.set
      BY <1>4, <1>9 DEF Smooth, Fair, Noted
    <2>3. q' = Clear(v, {"err"})
      BY <1>2, <1>3, <1>9
    <2>4. "housekept" \notin q'.set
      BY <1>7, <2>1, <2>3, Flagged DEF Flags, Kept, Without, Lasting
    <2> QED BY <1>2, <1>5, <1>6, <2>4 DEF Smooth, Doomed
  <1>10. CASE ~Doomed /\ ~Has(v, "err")
    <2>2. /\ u \in States /\ u.set = q.set \cup {"housekept"} /\ u.open = q.open
          /\ u.where = q.where /\ u.edits = q.edits
      BY <1>7, <1>3, <1>10, CleanedKept, Flagged, FlaggedExact DEF Flags
    <2>3. Fair(q, "housekeeping") /\ first = "none" /\ (q.edits = 0 => edited = "none")
      BY <1>4, <1>10 DEF Smooth
    <2>4. Course(u, "early")
      BY <2>2, <2>3 DEF Fair, Course, Lay, Placed, Astray, BeforePending, BeforeSlot, BeforeFinalize,
                        BeforeRetire, AfterRetire
    <2>5. Noted(u, "early") /\ u.set \cap {"exitFailed", "releaseFailed", "err"} = {}
      BY <2>2, <2>3 DEF Fair, Noted, BeforePending, BeforeSlot, BeforeReplace, BeforeFinalize,
                        BodyLabels
    <2>6. q' = u /\ ~Has(u, "err") /\ ~Failed(u)
      BY <1>2, <2>2, <2>5, ClearNothing DEF Has, Failed, Noted
    <2>7. Fair(q', pc')
      BY <1>2, <2>2, <2>4, <2>5, <2>6 DEF Fair
    <2> QED BY <1>2, <1>5, <1>6, <2>2, <2>3, <2>6, <2>7 DEF Smooth
  <1> QED BY <1>8, <1>9, <1>10

\* The binding of a call that goes on is kept, and the lock is released.
LEMMA DrainSmooth ==
    ASSUME Held, Smooth, Lasting(q, q'), Drain
    PROVE  Smooth'
  <1> DEFINE held == IF "binding" \in q.open
                     THEN IF Has(q, "exitFailed") \/ ~Clean(q) THEN {"binding", "decoded"} ELSE {}
                     ELSE q.open \cap {"decoded"}
             failed == IF held = {} THEN {} ELSE {Remember(Close(v, held)) : v \in Faults(q)}
             closed == {Close(q, held)} \cup failed
             S == {Clear(v, {"lock"}) : v \in closed}
             c == Close(q, held)
  <1>1. Finally("drain", S, "conclude")
    BY DEF Drain
  <1>2. \A u \in S : \E v \in closed : u = Clear(v, {"lock"})
    OBVIOUS
  <1>3. \A v \in closed : v = c \/ \E w \in Faults(q) : v = Remember(Close(w, held))
    OBVIOUS
  <1> HIDE DEF S, closed, failed
  <1>4. q \in States /\ "err" \notin q.set
    BY DEF Held
  <1>5. c \in States /\ c.set = q.set /\ c.where = q.where /\ c.edits = q.edits
    BY <1>4 DEF Close, States
  <1> HIDE DEF c, held
  <1>6. \A v \in closed : /\ v \in States
                          /\ \/ v = c
                             \/ "releaseFailed" \in v.set /\ v.set = q.set \cup {"releaseFailed"}
    BY <1>4, FaultsExact, CloseCloses, Flagged, <1>3, <1>5 DEF Remember, Flags
  <1>7. \A u \in S : /\ u \in States
                     /\ \/ /\ u.where = q.where /\ u.edits = q.edits /\ u.set = q.set \ {"lock"}
                        \/ /\ "releaseFailed" \in u.set
                           /\ u.set = (q.set \cup {"releaseFailed"}) \ {"lock"}
    BY <1>6, Flagged, FlaggedExact, <1>2, <1>5 DEF Flags
  <1>9. ASSUME ~Doomed, NEW v \in S, "releaseFailed" \notin v.set
         PROVE  Fair(v, "conclude") /\ v.edits = q.edits
    <2>1. Fair(q, "drain")
      BY <1>1, FinallyStep, <1>9 DEF Smooth
    <2>2. /\ v \in States /\ v.where = q.where /\ v.edits = q.edits /\ v.set = q.set \ {"lock"}
      BY <1>7, <1>9
    <2>3. Course(v, "conclude")
      BY <2>1, <2>2 DEF Fair, Course, Lay, Placed, Astray, BeforePending, BeforeSlot, BeforeFinalize,
                        BeforeRetire, AfterRetire
    <2>4. Noted(v, "conclude") /\ v.set \cap {"exitFailed", "releaseFailed", "err"} = {}
      BY <2>1, <2>2 DEF Fair, Noted, BeforePending, BeforeSlot, BeforeReplace, BeforeFinalize,
                        BodyLabels
    <2> QED BY <2>2, <2>3, <2>4 DEF Fair
  <1> QED BY <1>1, <1>7, <1>9, LaterSmooth, LaterLabels

\* A release that could not be run makes the call raise, and so does one that was interrupted
\* when it was complete, unless the publication is clean.
LEMMA EscapeSmooth ==
    ASSUME Held, Smooth, Lasting(q, q'), EscapeBefore \/ EscapeAfter
    PROVE  Smooth'
  <1> DEFINE label == IF pc = "early" THEN "early" ELSE "conclude"
  <1>1. q \in States /\ "err" \notin q.set
    BY DEF Held
  <1>2. ASSUME NEW v \in Faults(q), NEW u \in EmergencyRecover(Remember(v))
        PROVE  /\ u \in States /\ "releaseFailed" \in u.set
               /\ "housekept" \in u.set => "housekept" \in q.set
               /\ "exitFailed" \in q.set => "exitFailed" \in u.set
    <2> DEFINE r == Remember(v)
    <2>1. r \in States /\ r.set = q.set \cup {"releaseFailed"}
      BY <1>1, FaultsExact, Flagged DEF Remember, Flags
    <2>2. u \in EmergencyRecover(r)
      OBVIOUS
    <2> HIDE DEF r
    <2> QED BY <2>1, <2>2, EmergencySame DEF Same, Volatile, Stay
  <1>3. CASE EscapeBefore
    <2>1. PICK v \in Faults(q) :
             Step({Clear(Close(u, Descriptors), {"lock"}) : u \in EmergencyRecover(Remember(v))},
                  LAMBDA u : "concluded")
      BY <1>3, Zenon DEF EscapeBefore
    <2> DEFINE S == {Clear(Close(u, Descriptors), {"lock"}) : u \in EmergencyRecover(Remember(v))}
    <2>2. Finally("early", S, "concluded")
      BY <1>3, <2>1, Zenon DEF EscapeBefore, Finally
    <2>3. ASSUME NEW x \in S
          PROVE  /\ x \in States /\ "releaseFailed" \in x.set
                 /\ "housekept" \in x.set => "housekept" \in q.set
                 /\ "exitFailed" \in q.set => "exitFailed" \in x.set
      <3>1. PICK u \in EmergencyRecover(Remember(v)) : x = Clear(Close(u, Descriptors), {"lock"})
        OBVIOUS
      <3> DEFINE c == Close(u, Descriptors)
      <3>3. x = Clear(c, {"lock"})
        BY <3>1
      <3> HIDE DEF c
      <3> QED BY <1>2, CloseCloses, <3>3, Flagged DEF Flags
    <2> HIDE DEF S
    <2> QED BY <2>2, <2>3, LaterSmooth, LaterLabels
  <1>4. CASE EscapeAfter
    <2> DEFINE S(v) == IF Clean(q) THEN {v}
                       ELSE {Close(u, Descriptors) : u \in EmergencyRecover(Remember(v))}
    <2>1. PICK v \in Faults(q) : Step(S(v), LAMBDA u : "concluded")
      BY <1>4, Zenon DEF EscapeAfter
    <2>2. Finally("conclude", S(v), "concluded")
      BY <1>4, <2>1, Zenon DEF EscapeAfter, Finally
    <2>3. ASSUME NEW x \in S(v)
          PROVE  /\ x \in States
                 /\ "housekept" \in x.set => "housekept" \in q.set
                 /\ "exitFailed" \in q.set => "exitFailed" \in x.set
                 /\ \/ "releaseFailed" \in x.set
                    \/ x.where = q.where /\ x.edits = q.edits /\ x.set = q.set /\ x.open = q.open
      <3>1. CASE x = v
        BY <1>1, <3>1, FaultsExact
      <3>2. CASE \E u \in EmergencyRecover(Remember(v)) : x = Close(u, Descriptors)
        <4>1. PICK u \in EmergencyRecover(Remember(v)) : x = Close(u, Descriptors)
          BY <3>2
        <4> QED BY <1>2, <4>1, CloseCloses
      <3> QED BY <3>1, <3>2
    <2>4. \A x \in S(v) : "releaseFailed" \in q.set => "releaseFailed" \in x.set
      BY <2>3
    <2> HIDE DEF S
    <2> QED BY <2>2, <2>3, GivenBack, LaterLabels
  <1> QED BY <1>3, <1>4

\* A call returns only if it went on to the end.
LEMMA ConcludeSmooth ==
    ASSUME Held, Smooth, Conclude
    PROVE  Smooth'
  <1> DEFINE ds == {"binding", "decoded"}
             last == {Raise(Close(w, ds)) : w \in Faults(q)}
  <1>1. pc' = "done" /\ pc \in {"conclude", "concluded"} /\ edited' = edited
    BY DEF Conclude
  <1>2. PICK v \in IF Failed(q) \/ ~Has(q, "housekept") THEN {Raise(q)} ELSE {q} \cup last :
            /\ q' = Clear(v, {"err"}) /\ outcome' = IF Has(v, "err") THEN "raised" ELSE "returned"
            /\ first' = IF first = "none" /\ Has(v, "err") THEN "conclude" ELSE first
    BY DEF Conclude
  <1>3. q \in States /\ ~Has(q, "err")
    BY DEF Held, Has
  <1>4. "done" \notin BodyLabels \cup {"validate"}
    BY DEF BodyLabels
  <1>5. CASE Has(v, "err")
    BY <1>1, <1>2, <1>4, <1>5 DEF Smooth, ReturnedIsPublished
  <1>6. CASE ~Has(v, "err")
    <2>1. v = q /\ ~Failed(q) /\ Has(q, "housekept")
      BY <1>3, FaultsExact, CloseCloses, RaiseRaises, <1>2, <1>6
    <2>2. q' = q
      BY <1>2, <1>3, <2>1, ClearNothing
    <2>3. ~Doomed /\ pc # "done" /\ pc \in AfterRetire
      BY <1>1, <2>1 DEF Doomed, Failed, Has, AfterRetire
    <2>4. /\ first = "none" /\ (q.edits = 0 => edited = "none") /\ Fair(q, pc)
          /\ q.edits = 1 => edited = "retire"
      BY <2>3 DEF Smooth
    <2>5. "committed" \in q.set /\ "resolved" \notin q.set
      BY <1>1, <2>4 DEF Fair, Noted, BodyLabels
    <2>6. q.edits = 0 => At(q, "normal") = "generation" /\ q.where["slot"] = "inside"
      <3> SUFFICES ASSUME q.edits = 0
                   PROVE  At(q, "normal") = "generation" /\ q.where["slot"] = "inside"
        OBVIOUS
      <3> QED BY <2>3, <2>4, AtOnly, Own DEF Placed, Nodes, Fair, Course
    <2>8. first' = "none" /\ edited' = edited
      BY <1>1, <1>2, <1>6, <2>4
    <2>9. ReturnedIsPublished'
      BY <2>2, <2>5, <2>6, <1>3, <2>4, <2>8 DEF ReturnedIsPublished, Has, States
    <2> QED BY <1>1, <1>4, <2>9 DEF Smooth
  <1> QED BY <1>5, <1>6

\* A name that is found free was free when it was looked at.
LEMMA AbsentClean ==
    ASSUME NEW w \in States, NEW n, NEW v \in RequireAbsent(w, n), ~Has(v, "err")
    PROVE  v \in Outside(w) /\ At(v, n) = "none"
  <1>1. PICK a \in Outside(w) : v = IF At(a, n) = "none" THEN a ELSE Raise(a)
    BY DEF RequireAbsent
  <1> QED BY <1>1, OutsideExact, RaiseRaises

\* A recovery that has nothing to recover does nothing.
LEMMA RecoverNothing ==
    ASSUME NEW w \in States, NEW d, "committed" \in w.set,
           w.set \cap {"required", "releaseFailed", "rollbackFailed"} = {}
    PROVE  Recover(w, d) = {w}
  <1>1. RecoverWithAnchor(w, d) = {w}
    BY DEF RecoverWithAnchor, Has
  <1> QED BY <1>1 DEF Recover, ForceWithAnchor, Has

\* The pending name must be free.
LEMMA FinalizePublicationSmooth ==
    ASSUME Held, Smooth, Lasting(q, q'), FinalizePublication
    PROVE  Smooth'
  <1> DEFINE E == Except(FinalizePending(q), LAMBDA w : {Require(Remember(w))})
             S == IF "anchor" \in q.open THEN UNION {Recover(v, "anchor") : v \in E} ELSE {q}
             next == IF "anchor" \in q.open THEN "pendingLate" ELSE "drain"
  <1>1. Finally("finalize", S, next)
    BY Zenon DEF FinalizePublication, Finally, Step
  <1>2. next \in Later /\ "finalize" \in Later /\ pc = "finalize"
    BY <1>1, LaterLabels, FinallyStep, Zenon
  <1>3. \A v \in E : \/ v \in FinalizePending(q) /\ ~Has(v, "err")
                     \/ \E u \in FinalizePending(q) : v = Require(Remember(Clear(u, {"err"})))
    BY DEF Except
  <1> HIDE DEF E
  <1>4. q \in States
    BY DEF Held
  <1>5. ASSUME ~Doomed, NEW x \in S
        PROVE  \/ x \in States /\ "releaseFailed" \in x.set
               \/ Fair(x, "pendingLate") /\ (x.edits = 0 => q.edits = 0)
    <2>1. Fair(q, "finalize")
      BY <1>2, <1>5, LaterLabels DEF Smooth
    <2>2. "anchor" \in q.open /\ "identity" \in q.open /\ "bound" \in q.set
      BY <2>1 DEF Fair, Noted, BeforeFinalize
    <2>3. PICK v \in E : x \in Recover(v, "anchor")
      BY <1>5, <2>2
    <2>4. CASE \E u \in FinalizePending(q) : v = Require(Remember(Clear(u, {"err"})))
      <3>1. PICK u \in FinalizePending(q) : v = Require(Remember(Clear(u, {"err"})))
        BY <2>4
      <3>2. u \in States
        BY <1>4, FinalizePendingSame DEF Stay, Same
      <3>4. v \in States /\ "releaseFailed" \in v.set
        BY <3>1, <3>2, RaiseSame, RememberStays DEF Same
      <3> QED BY <3>4, <2>3, RecoverSame DEF Same, Volatile, Stay
    <2>5. CASE v \in FinalizePending(q) /\ ~Has(v, "err")
      <3>2. v \in Outside(q) /\ At(v, "pending") = "none"
        BY <1>4, <2>5, <2>2, AbsentClean DEF FinalizePending, KeepBound, Owned, Has
      <3>4. Fair(v, "finalize") /\ (v.edits = 0 => q.edits = 0)
        BY <2>1, <3>2, OutsideFair DEF AfterRetire, BeforeRetire
      <3>7. \A y \in Foreign : v.where[y] # "pending"
        BY <3>2, AtHolds, Own
      <3>8. Course(v, "pendingLate")
        BY <3>4, <3>7 DEF Fair, Course, Lay, Astray, BeforePending, BeforeSlot, BeforeFinalize,
                          BeforeRetire, AfterRetire
      <3>9. Noted(v, "pendingLate")
        BY <3>4 DEF Fair, Noted, BeforePending, BeforeSlot, BeforeReplace, BeforeFinalize,
                    BodyLabels
      <3> QED BY <3>4, <2>3, LaterLabels, RecoverNothing, <3>8, <3>9 DEF Fair, Noted, BodyLabels
    <2> QED BY <1>3, <2>4, <2>5
  <1>6. ~Doomed => "anchor" \in q.open
    BY <1>2, LaterLabels DEF Smooth, Fair, Noted
  <1> HIDE DEF S
  <1>8. ~Doomed => next = "pendingLate"
    BY <1>6
  <1> HIDE DEF next
  <1> QED BY <1>1, <1>2, <1>5, <1>6, LaterLabels, <1>8, LaterSmooth

\* He renames once at a time.
LEMMA OutsideOn ==
    ASSUME NEW w \in States, NEW v \in Outside(w)
    PROVE  Onward(w, v)
  BY OutsideExact DEF States, Onward

\* The published generation is found where it was published.
LEMMA PublishedClean ==
    ASSUME NEW w \in States, NEW v \in RequirePublished(w), ~Has(v, "err")
    PROVE  v \in Outside(w) /\ At(v, "normal") = "generation"
  <1>1. PICK u \in Outside(w) :
           \E a \in May(u) : v = IF At(a, "normal") = "generation" THEN a ELSE Raise(a)
    BY DEF RequirePublished
  <1>2. PICK a \in May(u) : v = IF At(a, "normal") = "generation" THEN a ELSE Raise(a)
    BY <1>1
  <1>3. u \in States
    BY OutsideExact
  <1> QED BY <1>2, <1>3, FaultsSame, RaiseRaises, MayClean DEF Stay, Same

\* A slot that moved without an exception moved into the generation.
LEMMA MoveSlotClean ==
    ASSUME NEW w \in States, ~Has(w, "err"), NEW v \in MoveSlot(w), ~Has(v, "err")
    PROVE  \E t \in Outside(w), z \in States :
              /\ z.where = [t.where EXCEPT !["slot"] = "inside"] /\ z.edits = t.edits
              /\ z.set = t.set \cup {"retired"} /\ v \in Outside(z)
  <1> DEFINE moved(t, u) == {y \in Nodes : t.where[y] = "slot" /\ u.where[y] = "inside"}
             r(u) == Set(Clear(u, {"err"}), {"retired"})
             ends(t, u) ==
               IF moved(t, u) = {"slot"} THEN RequireAbsent(r(u), "slot")
               ELSE IF moved(t, u) # {} THEN Restore(r(u), CHOOSE y \in moved(t, u) : TRUE, "slot")
               ELSE IF At(u, "slot") = "slot" THEN {Raise(u)}
               ELSE {Raise(r(u))}
  <1>1. MoveSlot(w) = UNION {UNION {ends(t, u) : u \in Rename(t, "slot", "inside")} : t \in Outside(w)}
    BY DEF MoveSlot
  <1> HIDE DEF ends
  <1>2. PICK t \in Outside(w) : \E u \in Rename(t, "slot", "inside") : v \in ends(t, u)
    BY <1>1
  <1>3. PICK u \in Rename(t, "slot", "inside") : v \in ends(t, u)
    BY <1>2
  <1>4. t \in States /\ t.set = w.set
    BY OutsideExact
  <1>5. "inside" \in Places
    BY NamesPlaces
  <1>6. /\ u \in States /\ u.open = t.open /\ u.set \ {"err"} = t.set \ {"err"} /\ u.edits = t.edits
        /\ \/ u.where = t.where
           \/ At(t, "slot") \in Nodes /\ u.where = [t.where EXCEPT ![At(t, "slot")] = "inside"]
    BY <1>5, <1>4, RenameExact
  <1> DEFINE z == r(u)
  <1>7. /\ z \in States /\ z.set = t.set \cup {"retired"} /\ z.edits = t.edits /\ z.where = u.where
    <2> DEFINE c == Clear(u, {"err"})
    <2>1. /\ c \in States /\ c.set = u.set \ {"err"} /\ c.edits = u.edits /\ c.where = u.where
      BY <1>6, Flagged, FlaggedExact DEF Flags
    <2>2. z = Set(c, {"retired"})
      OBVIOUS
    <2> HIDE DEF c, z
    <2> QED BY <1>4, <1>6, <2>1, <2>2, Flagged, FlaggedExact DEF Has, Flags
  <1>8. "slot" \in Places
    BY NamesPlaces DEF Names
  <1>9. moved(t, u) = {"slot"}
    <2> SUFFICES ASSUME moved(t, u) # {"slot"} PROVE FALSE
      OBVIOUS
    <2>1. CASE moved(t, u) # {}
      <3> DEFINE y == CHOOSE a \in moved(t, u) : TRUE
      <3>1. y \in Nodes
        BY <2>1
      <3> HIDE DEF y
      <3>2. v \in Restore(z, y, "slot")
        BY <1>3, <2>1 DEF ends, y
      <3> HIDE DEF z
      <3> QED BY <1>7, <1>8, <3>1, <3>2, RestoreExact
    <2>2. CASE moved(t, u) = {}
      <3>1. v = Raise(u) \/ v = Raise(z)
        BY <1>3, <2>2 DEF ends
      <3> HIDE DEF z
      <3> QED BY <1>6, <1>7, <3>1, RaiseRaises
    <2> QED BY <2>1, <2>2
  <1>10. v \in RequireAbsent(z, "slot")
    BY <1>3, <1>9 DEF ends
  <1> HIDE DEF z, r
  <1>13. u.where = [t.where EXCEPT !["slot"] = "inside"]
    BY <1>4, <1>6, <1>9 DEF States
  <1> QED BY <1>7, <1>10, AbsentClean, <1>13

\* Until the slot is retired a rename by somebody else is found; the retirement is the first
\* step where one is not.
LEMMA RetireSlotSmooth ==
    ASSUME Held, Smooth, Lasting(q, q'), RetireSlot
    PROVE  Smooth'
  <1> DEFINE w == Set(q, {"retiring"})
             ready(v) == {IF At(v, "slot") = "slot" THEN v ELSE Raise(v)}
             again(v) == Then(RequirePublished(v), LAMBDA u : RequireAbsent(u, "slot"))
             S1 == RequirePublished(w)
             S2 == Then(S1, ready)
             S3 == Then(S2, MoveSlot)
             S4 == Then(S3, again)
             E == Except(S4, LAMBDA v : Recover(Require(Remember(v)), CleanupAnchor(v)))
             S == IF /\ q.set \cap {"releaseFailed", "rollbackFailed", "required"} = {}
                     /\ Has(q, "committed") /\ Unresolved(q)
                  THEN E ELSE {q}
  <1>1. Finally("retire", S, "slotLate")
    BY Zenon DEF RetireSlot
  <1>2. \A v \in S2 : ~Has(v, "err") => \E u \in S1 : ~Has(u, "err") /\ v \in ready(u)
    BY DEF Then
  <1>3. \A v \in S3 : ~Has(v, "err") => \E u \in S2 : ~Has(u, "err") /\ v \in MoveSlot(u)
    BY DEF Then
  <1>4. \A v \in S4 : ~Has(v, "err") => \E u \in S3 : ~Has(u, "err") /\ v \in again(u)
    BY DEF Then
  <1>5. \A v \in E : (v \in S4 /\ ~Has(v, "err")) \/ \E c : \E u \in S4 :
           c = Clear(u, {"err"}) /\ v \in Recover(Require(Remember(c)), CleanupAnchor(c))
    BY Zenon DEF Except
  <1>6. \A u : \A v \in again(u) : ~Has(v, "err") =>
           \E x \in RequirePublished(u) : ~Has(x, "err") /\ v \in RequireAbsent(x, "slot")
    BY DEF Then
  <1>7. \A v \in S1 : v \in RequirePublished(w)
    OBVIOUS
  <1>8. \A v \in S2 : v \in S1 \/ \E u \in S1 : v = u \/ v = Raise(u)
    BY DEF Then
  <1>9. \A v \in S3 : v \in S2 \/ \E u \in S2 : v \in MoveSlot(u)
    BY DEF Then
  <1>10. \A v \in S4 : v \in S3 \/ \E u \in S3 : v \in again(u)
    BY DEF Then
  <1>11. \A u : \A v \in again(u) :
           v \in RequirePublished(u) \/ \E x \in RequirePublished(u) : v \in RequireAbsent(x, "slot")
    BY DEF Then
  <1> HIDE DEF S1, S2, S3, S4, E, again
  <1>12. pc = "retire" /\ q \in States /\ ~Has(q, "err")
    BY <1>1, FinallyStep DEF Held, Has
  <1>13. /\ w \in States /\ w.set = q.set \cup {"retiring"} /\ w.edits = q.edits /\ w.where = q.where
         /\ ~Has(w, "err")
    BY <1>12, Flagged, FlaggedExact DEF Flags, Has
  <1> HIDE DEF w
  <1>14. \A u \in S4 : u \in States
    <2>1. \A u \in S2 : u \in States
      BY <1>7, <1>8, <1>13, RequirePublishedSame, RaiseSame DEF Stay, Same
    <2>3. ASSUME NEW u \in States, NEW v \in again(u) PROVE v \in States
      BY <1>11, RequirePublishedSame, AbsentSame DEF Stay, Same
    <2> QED BY <1>10, <1>9, <2>1, MoveSlotKept, <2>3 DEF Kept, Without
  <1>15. ASSUME NEW v \in E, ~(v \in S4 /\ ~Has(v, "err"))
         PROVE  v \in States /\ "releaseFailed" \in v.set
    <2>1. PICK c : \E u \in S4 : c = Clear(u, {"err"}) /\
                                v \in Recover(Require(Remember(c)), CleanupAnchor(c))
      BY <1>5, <1>15
    <2> DEFINE r == Require(Remember(c))
    <2>3. r \in States /\ "releaseFailed" \in r.set
      BY <1>14, <2>1, RaiseSame, RememberStays DEF Same
    <2>4. v \in Recover(r, CleanupAnchor(c))
      BY <2>1
    <2> HIDE DEF r
    <2> QED BY <2>3, <2>4, RecoverSame DEF Same, Volatile, Stay
  <1>16. ASSUME Fair(q, "retire"), NEW v \in S4, ~Has(v, "err")
         PROVE  /\ Fair(v, "slotLate") /\ (v.edits = 0 => q.edits = 0)
                /\ v.edits = 1 => q.edits = 0
    <2>1. PICK u3 \in S3 : ~Has(u3, "err") /\ v \in again(u3)
      BY <1>4, <1>16
    <2>2. PICK u2 \in S2 : ~Has(u2, "err") /\ u3 \in MoveSlot(u2)
      BY <1>3, <2>1
    <2>3. PICK y \in S1 : ~Has(y, "err") /\ u2 \in ready(y)
      BY <1>2, <2>2
    <2>4. y \in Outside(w) /\ At(y, "normal") = "generation"
      BY <1>7, <1>13, <2>3, PublishedClean
    <2>5. Onward(w, y) /\ y \in States
      BY <1>13, <2>4, OutsideOn DEF Onward
    <2>6. u2 = y /\ At(y, "slot") = "slot"
      BY <2>2, <2>3, <2>5, RaiseRaises
    <2> HIDE DEF ready
    <2>7. PICK t \in Outside(y) : \E z \in States :
              /\ z.where = [t.where EXCEPT !["slot"] = "inside"] /\ z.edits = t.edits
              /\ z.set = t.set \cup {"retired"} /\ u3 \in Outside(z)
      BY <2>1, <2>2, <2>3, <2>5, <2>6, MoveSlotClean
    <2>8. PICK z \in States :
              /\ z.where = [t.where EXCEPT !["slot"] = "inside"] /\ z.edits = t.edits
              /\ z.set = t.set \cup {"retired"} /\ u3 \in Outside(z)
      BY <2>7
    <2>9. Onward(y, t) /\ Onward(z, u3) /\ u3 \in States
      BY <2>5, <2>8, OutsideOn DEF Onward
    <2>10. PICK x \in RequirePublished(u3) : ~Has(x, "err") /\ v \in RequireAbsent(x, "slot")
      BY <1>6, <1>16, <2>1
    <2>11. Onward(u3, x) /\ x \in States
      BY <2>9, <2>10, PublishedClean, OutsideOn DEF Onward
    <2>12. Onward(x, v)
      BY <1>16, <2>10, <2>11, AbsentClean, OutsideOn
    <2>13. v.set = q.set \cup {"retiring", "retired"} /\ v \in States
      BY <1>13, <2>5, <2>8, <2>9, <2>11, <2>12 DEF Onward
    <2>14. /\ q.edits \in Nat /\ y.edits \in Nat /\ t.edits \in Nat /\ u3.edits \in Nat
           /\ x.edits \in Nat /\ v.edits \in Nat
      BY <1>12, <2>5, <2>9, <2>11, <2>12 DEF Onward, States
    <2>15. /\ q.edits <= y.edits /\ y.edits <= t.edits /\ t.edits <= u3.edits
           /\ u3.edits <= x.edits /\ x.edits <= v.edits
      BY <1>13, <2>5, <2>8, <2>9, <2>11, <2>12, <2>14 DEF Onward
    <2>16. y.where["generation"] = "normal" /\ y.where["slot"] = "slot"
      BY <2>4, <2>6, AtThere, Own
    <2>17. v.edits = 1 => q.edits = 0
      <3> SUFFICES ASSUME v.edits = 1, q.edits # 0 PROVE FALSE
        OBVIOUS
      <3>1. q.edits = 1 /\ y.edits = 1
        BY <2>14, <2>15
      <3> QED BY <1>16, <2>16, <3>1, <1>13, <2>5, LaterLabels DEF Fair, Course, Onward
    <2>19. v.edits = 0 => Placed(v, "normal", "inside", "inside")
      <3> SUFFICES ASSUME v.edits = 0 PROVE Placed(v, "normal", "inside", "inside")
        OBVIOUS
      <3>1. q.edits = 0 /\ y.edits = 0 /\ t.edits = 0 /\ u3.edits = 0 /\ x.edits = 0
        BY <2>14, <2>15
      <3>2. v.where = [q.where EXCEPT !["slot"] = "inside"]
        BY <1>13, <2>5, <2>8, <2>9, <2>11, <2>12, <3>1 DEF Onward
      <3>3. Placed(q, "normal", "slot", "inside")
        BY <1>16, <3>1, LaterLabels DEF Fair, Course, Lay
      <3> QED BY <3>2, <3>3, <1>12, Own DEF Placed, States
    <2>20. Course(v, "slotLate")
      BY <2>19 DEF Course, BeforePending, BeforeSlot, BeforeFinalize, BeforeRetire, AfterRetire
    <2>21. Noted(v, "slotLate") /\ v.set \cap {"exitFailed", "releaseFailed", "err"} = {}
      BY <1>16, <2>13 DEF Fair, Noted, BeforePending, BeforeSlot, BeforeReplace, BeforeFinalize,
                          BodyLabels
    <2> QED BY <2>13, <2>17, <2>14, <2>15, <2>20, <2>21 DEF Fair
  <1>19. Fair(q, "retire") => \A v \in S : v \in E
    BY DEF Fair, Noted, Has, Unresolved, BodyLabels, BeforePending, BeforeSlot, BeforeReplace
  <1> HIDE DEF S
  <1>20. ASSUME ~Doomed, NEW v \in S
         PROVE  \/ v \in States /\ "releaseFailed" \in v.set
                \/ /\ Fair(v, "slotLate") /\ (v.edits = 0 => q.edits = 0)
                   /\ v.edits = 1 => q.edits = 0
    BY <1>15, <1>16, <1>12, <1>19, <1>20 DEF Smooth
  <1> QED BY <1>1, <1>20, LaterSmooth, LaterLabels DEF AfterRetire

\* A call begins as one that goes on.
LEMMA SmoothInit == Init => Smooth
  <1> SUFFICES ASSUME Init PROVE Smooth
    OBVIOUS
  <1>1. PICK retain \in SUBSET {"retain"} :
           q = [where |-> [x \in Nodes |-> "nowhere"], open |-> {}, set |-> retain,
                faults |-> 0, edits |-> 0]
    BY DEF Init
  <1>3. q \in States /\ q.edits = 0 /\ q.set \subseteq {"retain"}
    BY <1>1 DEF States, Places, Flags
  <1>4. \A x \in Nodes : q.where[x] = "nowhere"
    BY <1>1
  <1>5. Course(q, "validate")
    BY <1>3, <1>4, Own DEF Course, Lay, Placed, BeforePending, BeforeSlot, BeforeFinalize,
                           BeforeRetire, AfterRetire
  <1>6. Noted(q, "validate")
    BY <1>3 DEF Noted, BeforePending, BeforeSlot, BeforeReplace, BeforeFinalize
  <1> QED BY <1>3, <1>5, <1>6 DEF Smooth, Fair, ReturnedIsPublished, AfterRetire, Doomed, Init

\* Each step keeps it.
LEMMA SmoothStep == Held /\ Smooth /\ [Next]_vars => Smooth'
  <1> SUFFICES ASSUME Held, Smooth, [Next]_vars PROVE Smooth'
    OBVIOUS
  <1>1. Held'
    BY HeldStep
  <1>2. CASE Validate BY <1>1, <1>2, ValidateSmooth
  <1>3. CASE Pin BY <1>1, <1>3, PinSmooth
  <1>4. CASE MakePending BY <1>1, <1>4, MakePendingSmooth
  <1>5. CASE RunQuery \/ Decode \/ Seal \/ ProbeNoReplace BY <1>1, <1>5, QuerySmooth
  <1>6. CASE AcquireAnchors BY <1>1, <1>6, AcquireAnchorsSmooth
  <1>7. CASE MakeSlot BY <1>1, <1>7, MakeSlotSmooth
  <1>8. CASE ProbeExchange BY <1>1, <1>8, ProbeExchangeSmooth
  <1>9. CASE Replace BY <1>1, <1>9, ReplaceSmooth
  <1>10. CASE Commit BY <1>1, <1>10, CommitSmooth
  <1>11. CASE Finalization
    <2>1. CASE Housekeeping BY <2>1, HousekeepingKeeps, HousekeepingSmooth
    <2>2. CASE FinalizeEarly BY <2>2, FinalizeEarlyKeeps, FinalizeEarlySmooth
    <2>3. CASE RetireSlotEarly BY <2>3, RetireSlotEarlyKeeps, RetireSlotEarlySmooth
    <2>4. CASE ReleasePendingEarly BY <2>4, ReleasePendingEarlyKeeps, ReleasePendingEarlySmooth
    <2>5. CASE ReleaseGenerations BY <2>5, ReleaseGenerationsKeeps, ReleaseGenerationsSmooth
    <2>6. CASE DuplicateCleanupAnchor
      BY <2>6, DuplicateCleanupAnchorKeeps, DuplicateCleanupAnchorSmooth
    <2>7. CASE ReleaseRollback BY <2>7, ReleaseRollbackKeeps, ReleaseRollbackSmooth
    <2>8. CASE FinalizePublication BY <2>8, FinalizePublicationKeeps, FinalizePublicationSmooth
    <2>9. CASE ReleasePending BY <2>9, ReleasePendingKeeps, ReleasePendingSmooth
    <2>10. CASE ReleaseAnchor BY <2>10, ReleaseAnchorKeeps, ReleaseAnchorSmooth
    <2>11. CASE RetireSlot BY <2>11, RetireSlotKeeps, RetireSlotSmooth
    <2>12. CASE ReleaseSlot BY <2>12, ReleaseSlotKeeps, ReleaseSlotSmooth
    <2>13. CASE ReleaseCleanup BY <2>13, ReleaseCleanupKeeps, ReleaseCleanupSmooth
    <2>14. CASE ReleaseIdentity BY <2>14, ReleaseIdentityKeeps, ReleaseIdentitySmooth
    <2>15. CASE Drain BY <2>15, DrainKeeps, DrainSmooth
    <2>16. CASE EscapeBefore \/ EscapeAfter BY <2>16, EscapeKeeps, EscapeSmooth
    <2> QED BY <1>11, <2>1, <2>2, <2>3, <2>4, <2>5, <2>6, <2>7, <2>8, <2>9, <2>10, <2>11, <2>12,
               <2>13, <2>14, <2>15, <2>16 DEF Finalization
  <1>12. CASE Conclude BY <1>12, ConcludeSmooth
  <1>13. CASE UNCHANGED vars
    BY <1>13 DEF vars, Smooth, Doomed, ReturnedIsPublished, Fair, Course, Lay, Placed, Astray, Noted, At
  <1> QED BY <1>2, <1>3, <1>4, <1>5, <1>6, <1>7, <1>8, <1>9, <1>10, <1>11, <1>12, <1>13 DEF Next

\* Whichever calls fail: a call that returns has published the directory it made, its slot
\* lies inside it, nothing failed that was not undone, and a rename by somebody else came
\* when the slot was being retired, or was undone by another.
THEOREM ReturnsWhatItPublished == Spec => []ReturnedIsPublished
  <1>1. Smooth => ReturnedIsPublished
    BY DEF Smooth
  <1> QED BY <1>1, HeldInit, SmoothInit, HeldStep, SmoothStep, PTL DEF Spec

-----------------------------------------------------------------------------
(* What it takes to leave a published generation under its normal name.    *)

\* Whatever comes before or after.
LEMMA CostlyTrans ==
    ASSUME NEW w, NEW u, NEW v, Level(w, u), Level(u, v), Costly(w, u) \/ Costly(u, v)
    PROVE  Costly(w, v)
  BY DEF Level, States, Costly

\* Somebody else did nothing if he did not rename.
LEMMA OutsideQuiet ==
    ASSUME NEW w \in States, NEW v \in Outside(w)
    PROVE  v = w \/ v.edits > w.edits
  BY OutsideExact DEF States

\* The generation that a name holds is what stat finds there.
LEMMA AtUnique ==
    ASSUME NEW w \in States, Unique(w), NEW x \in Nodes, NEW n \in Names, w.where[x] = n
    PROVE  At(w, n) = x
  BY AtOnly DEF Unique

\* The isolation of a leaf leaves it where it is only if something fails.
LEMMA LeafCosts ==
    ASSUME NEW w \in States, Unique(w), NEW n \in Names, NEW x \in Nodes \ Foreign,
           NEW p \in {"hidden", "inside"}, w.where[x] = n,
           NEW r \in IsolateLeaf(w, n, x, p), r.edits = w.edits, r.where[x] = n
    PROVE  r.faults > w.faults
  <1> DEFINE moved(t, u) == {y \in Nodes : t.where[y] = n /\ u.where[y] = p}
             S(t, u) == IF moved(t, u) = {} THEN {Raise(u)}
                        ELSE IF moved(t, u) = {x} THEN RequireAbsent(Clear(u, {"err"}), n)
                        ELSE Restore(Clear(u, {"err"}), CHOOSE y \in moved(t, u) : TRUE, n)
  <1>1. IsolateLeaf(w, n, x, p) = UNION {UNION {S(t, u) : u \in Rename(t, n, p)} : t \in Outside(w)}
    BY DEF IsolateLeaf
  <1> HIDE DEF S
  <1>2. PICK t \in Outside(w) : \E u \in Rename(t, n, p) : r \in S(t, u)
    BY <1>1
  <1>3. PICK u \in Rename(t, n, p) : r \in S(t, u)
    BY <1>2
  <1>4. p \in Places /\ n \in Places /\ p # n /\ p \notin Names
    BY DEF Places, Names
  <1>5. t \in States /\ (t = w \/ t.edits > w.edits) /\ w.edits \in Nat /\ w.faults \in Nat
        /\ t.faults = w.faults
    BY OutsideQuiet, OutsideExact DEF States
  <1>6. /\ u \in States /\ u.edits = t.edits /\ u.faults \in {t.faults, t.faults + 1}
        /\ At(t, n) # "none" => u = Put(t, At(t, n), p) \/ u.faults = t.faults + 1
    <2>1. t \in States /\ p \in Places /\ u \in Rename(t, n, p)
      BY <1>4, <1>5
    <2> HIDE DEF moved
    <2>2. /\ u \in States /\ u.open = t.open /\ u.set \ {"err"} = t.set \ {"err"}
          /\ u.edits = t.edits /\ u.faults \in {t.faults, t.faults + 1}
          /\ \/ u.where = t.where
             \/ At(t, n) \in Nodes /\ u.where = [t.where EXCEPT ![At(t, n)] = p]
          /\ ~Has(u, "err") => At(t, n) \in Nodes /\ u = Put(t, At(t, n), p)
          /\ Has(u, "err") /\ At(t, n) # "none" => Has(t, "err") \/ u.faults = t.faults + 1
          /\ At(t, n) # "none" =>
               \/ u = Put(t, At(t, n), p)
               \/ Has(u, "err") /\ u.faults = t.faults + 1
      BY ONLY <2>1, RenameExact
    <2> QED BY <2>2
  <1> DEFINE c == Clear(u, {"err"})
  <1>7. /\ c \in States /\ c.edits = u.edits /\ c.where = u.where /\ c.faults = u.faults
    BY <1>6, Flagged, FlaggedExact DEF Flags
  <1>9. ASSUME NEW v \in RequireAbsent(c, n)
        PROVE  v \in States /\ v.edits >= u.edits /\ v.faults = u.faults /\ (v.edits = u.edits => v.where = u.where)
    <2>1. PICK z \in Outside(c) : v = z \/ v = Raise(z)
      BY DEF RequireAbsent
    <2> HIDE DEF c
    <2>4. c.edits \in Nat
      BY <1>7 DEF States
    <2> QED BY <1>7, OutsideExact, OutsideQuiet, <2>1, RaiseRaises, <2>4 DEF States
  <1>10. ASSUME NEW y \in Nodes, NEW v \in Restore(c, y, n)
        PROVE  v \in States /\ v.edits = u.edits /\ v.faults >= u.faults
    <2> HIDE DEF c, moved
    <2>1. c \in States /\ n \in Places /\ v \in Restore(c, y, n)
      BY <1>4, <1>7, <1>10
    <2>2. /\ v \in States /\ v.open = c.open /\ v.set \ {"err"} = c.set \ {"err"} /\ Has(v, "err")
          /\ v.edits = c.edits /\ v.faults \in {c.faults, c.faults + 1}
          /\ v.where = c.where \/ (At(c, n) = "none" /\ v.where = [c.where EXCEPT ![y] = n])
          /\ At(c, n) = "none" => v.where = [c.where EXCEPT ![y] = n] \/ v.faults = c.faults + 1
      BY ONLY <2>1, RestoreExact
    <2> QED BY <1>7, <2>2 DEF States
  <1> HIDE DEF c
  <1>11. r \in States /\ r.edits >= u.edits /\ r.faults >= u.faults
    <2>1. CASE moved(t, u) = {}
      BY <1>3, <1>6, RaiseRaises, <2>1 DEF S, States
    <2>2. CASE moved(t, u) = {x}
      BY <1>3, <2>2, <1>6, <1>9 DEF S, c, States
    <2>3. CASE moved(t, u) # {} /\ moved(t, u) # {x}
      <3> DEFINE y == CHOOSE z \in moved(t, u) : TRUE
      <3> HIDE DEF y
      <3> QED BY <1>6, <1>10, <1>3, <2>3 DEF States, S, c
    <2> QED BY <2>1, <2>2, <2>3
  <1>12. t = w
    BY <1>5, <1>6, <1>11 DEF States
  <1>14. CASE u.faults = t.faults + 1
    BY <1>6, <1>11, <1>5, <1>14 DEF States
  <1>15. CASE u = Put(t, x, p)
    <2>1. u.where = [t.where EXCEPT ![x] = p] /\ t.where \in [Nodes -> Places]
      BY <1>4, <1>5, <1>15, PutExact DEF States
    <2>2. u.where[x] = p /\ \A y \in Nodes : y # x => t.where[y] # n
      BY <1>12, <2>1 DEF Unique
    <2>5. r.where = u.where
      BY <1>6, <1>9, <1>12, <1>3, <2>1, <2>2 DEF S, c
    <2> QED BY <1>4, <2>2, <2>5
  <1> QED BY <1>6, <1>12, AtUnique, AtHolds, <1>14, <1>15

\* So does the last isolation.
LEMMA ForceCosts ==
    ASSUME NEW w, NEW d, Undoable(w, d), NEW r \in ForceRecovery(w, d)
    PROVE  Costly(w, r)
  <1> DEFINE I(v) == IsolateLeaf(v, "normal", At(v, "normal"), "hidden")
             S(v) == UNION {ResolveIfHidden(Clear(u, {"err"}), TRUE) : u \in I(v)}
             R(v) == CASE At(v, "normal") = "none" -> ResolveIfHidden(v, FALSE)
                       [] At(v, "normal") \in {"generation", "slot"} -> S(v)
                       [] OTHER -> ResolveIfHidden(v, TRUE)
  <1>2. PICK v \in Outside(w) : r \in R(v)
    BY DEF ForceRecovery, Undoable
  <1>3. w \in States /\ v \in States /\ Same(w, v)
    BY OutsideSame DEF Undoable, Stay, Same
  <1> SUFFICES ASSUME Shown(r), r.edits = w.edits PROVE r.faults > w.faults
    BY DEF Costly
  <1>4. Same(w, r) /\ r \in States
    BY <1>3, ForceSame DEF Stay, Same
  <1>5. Shown(w)
    BY <1>4 DEF Same, Level
  <1>7. Same(v, r)
    <2> HIDE DEF I
    <2>1. CASE At(v, "normal") \in {"generation", "slot"} /\ r \in S(v)
      <3>1. PICK u \in I(v) : r \in ResolveIfHidden(Clear(u, {"err"}), TRUE)
        BY <2>1
      <3>3. Same(v, u)
        BY <1>3, <3>1, <2>1, Own, IsolateLeafLevel DEF I, Names
      <3> QED BY <3>3, RaiseSame, <3>1, ResolveSame, Trans DEF Stay, Same
    <2>2. CASE r \in ResolveIfHidden(v, TRUE) \cup ResolveIfHidden(v, FALSE)
      BY <1>3, <2>2, ResolveSame DEF Stay
    <2> QED BY <1>2, <2>1, <2>2
  <1>8. v = w
    BY <1>3, <1>4, <1>7, OutsideQuiet DEF Same, Level, States
  <1>9. At(w, "normal") = "generation" /\ "normal" \in Names /\ "generation" \in Nodes \ Foreign
    BY Own, <1>3, <1>5, AtUnique DEF Names, Undoable, Shown
  <1>11. PICK u \in IsolateLeaf(w, "normal", "generation", "hidden") :
            r \in ResolveIfHidden(Clear(u, {"err"}), TRUE)
    BY <1>9, <1>2, <1>8
  <1>12. Level(w, u) /\ u \in States
    BY <1>3, <1>9, <1>11, IsolateLeafLevel DEF Like
  <1> DEFINE c == Clear(u, {"err"})
  <1>13. c.where = u.where /\ c.edits = u.edits /\ c.faults = u.faults /\ c \in States
    BY <1>12, Flagged, FlaggedExact DEF Flags
  <1>14. Level(c, r)
    BY <1>11, <1>13, ResolveSame DEF Stay, Same
  <1> HIDE DEF c
  <1>15. Shown(u) /\ u.edits = w.edits /\ r.faults >= u.faults
    BY <1>14, <1>12, <1>13 DEF Level, States, Shown
  <1>16. u.faults > w.faults
    BY <1>3, <1>5, <1>9, <1>11, <1>15, LeafCosts DEF Undoable, Shown
  <1> QED BY <1>15, <1>16, <1>4, <1>12, <1>3 DEF States

\* The no-replace rename of a published generation leaves it there only if something fails.
LEMMA HideCosts ==
    ASSUME NEW w \in States, Unique(w), At(w, "normal") = "generation", NEW r \in HidePublished(w)
    PROVE  Costly(w, r)
  <1> SUFFICES ASSUME Shown(r), r.edits = w.edits PROVE r.faults > w.faults
    BY DEF Costly
  <1>1. PICK v \in Outside(w) : \E u \in Rename(v, "normal", "hidden") : r \in AfterRename(u)
    BY HideParts
  <1>2. PICK u \in Rename(v, "normal", "hidden") : r \in AfterRename(u)
    BY <1>1
  <1>3. v \in States /\ v.faults = w.faults /\ (v = w \/ v.edits > w.edits)
    BY OutsideExact, OutsideQuiet
  <1>4. /\ u \in States /\ u.open = v.open /\ u.set \ {"err"} = v.set \ {"err"}
        /\ u.edits = v.edits /\ u.faults \in {v.faults, v.faults + 1}
        /\ \/ u.where = v.where
           \/ At(v, "normal") \in Nodes /\ u.where = [v.where EXCEPT ![At(v, "normal")] = "hidden"]
        /\ ~Has(u, "err") => At(v, "normal") \in Nodes /\ u = Put(v, At(v, "normal"), "hidden")
        /\ Has(u, "err") /\ At(v, "normal") # "none" => Has(v, "err") \/ u.faults = v.faults + 1
        /\ At(v, "normal") # "none" =>
             \/ u = Put(v, At(v, "normal"), "hidden")
             \/ Has(u, "err") /\ u.faults = v.faults + 1
    <2>1. "hidden" \in Places
      BY NamesPlaces
    <2> QED BY ONLY <1>3, <2>1, u \in Rename(v, "normal", "hidden"), RenameExact
  <1>6. /\ r.edits >= u.edits /\ r.faults >= u.faults /\ Shown(u)
        /\ r.edits \in Nat /\ u.edits \in Nat /\ r.faults \in Nat /\ u.faults \in Nat /\ w.edits \in Nat
        /\ w.faults \in Nat
    BY <1>2, <1>4, AfterRenameSame DEF Level, States, Stay, Same
  <1>7. v = w
    BY <1>3, <1>4, <1>6
  <1>8. u # Put(v, "generation", "hidden")
    <2>1. "generation" \in Nodes /\ "hidden" \in Places /\ w.where \in [Nodes -> Places]
      BY Own, NamesPlaces DEF States
    <2>2. Put(w, "generation", "hidden").where = [w.where EXCEPT !["generation"] = "hidden"]
      BY <2>1, PutExact
    <2> QED BY <1>6, <1>7, <2>1, <2>2 DEF Shown
  <1> QED BY <1>6, <1>4, <1>7, <1>8

\* _rollback_published_generation, where it finds the slot.
LEMMA RollbackCosts ==
    ASSUME NEW w \in States, ~Has(w, "err"), Unique(w), w.where["slot"] = "slot",
           NEW r \in RollbackPublished(w)
    PROVE  Costly(w, r)
  <1> SUFFICES ASSUME Shown(r), r.edits = w.edits PROVE r.faults > w.faults
    BY DEF Costly
  <1>3. At(w, "normal") = "generation" /\ At(w, "slot") = "slot"
    BY Own, RollbackSame, AtUnique DEF Names, Shown, Level, Stay, Same
  <1> DEFINE T(v) == CASE Phase(v) = "prepared" -> HidePublished(v)
                       [] Phase(v) = "exchanged" -> CheckedRemoval(v)
                       [] OTHER -> {Raise(v)}
  <1>5. \E v \in May(w) : IF Has(v, "err") THEN r = v ELSE r \in T(v)
    BY DEF RollbackPublished, CheckedRemoval, Then
  <1>6. T(w) = HidePublished(w)
    BY <1>3 DEF Phase
  <1> HIDE DEF T
  <1>7. PICK v \in May(w) : IF Has(v, "err") THEN r = v ELSE r \in T(v)
    BY <1>5
  <1>8. CASE Has(v, "err") /\ v # w
    <2>1. PICK u \in Faults(w) : v = Raise(u)
      BY <1>8 DEF May
    <2> QED BY <1>7, <1>8, <2>1, FaultsExact, RaiseRaises DEF States
  <1>9. CASE v = w
    BY <1>3, <1>6, <1>7, <1>9, HideCosts DEF Costly
  <1>10. CASE ~Has(v, "err")
    BY <1>9, <1>10, MayClean
  <1> QED BY <1>8, <1>9, <1>10

\* That a rollback was started, or is required, is no part of it.
LEMMA MarkedRigged ==
    ASSUME NEW w \in States, NEW f \in {"started", "required"}
    PROVE  /\ Set(w, {f}) \in States /\ Level(w, Set(w, {f})) /\ Set(w, {f}).where = w.where
           /\ Set(w, {f}).open = w.open /\ Set(w, {f}).set = w.set \cup {f}
           /\ (Has(Set(w, {f}), "err") <=> Has(w, "err"))
  <1>1. {f} \in SUBSET Flags /\ f # "err" /\ Level(w, Set(w, {f}))
    BY StartedSame DEF Flags, Same
  <1> QED BY <1>1, Flagged DEF Has

\* rollback_attempted_publication.
LEMMA AttemptedCosts ==
    ASSUME NEW w, NEW d, Undoable(w, d), Rigged(w), NEW r \in RollbackAttempted(w, d)
    PROVE  Costly(w, r)
  <1> DEFINE T(v) == CASE At(v, "normal") = "generation" -> RollbackPublished(Set(v, {"started"}))
                       [] At(v, "pending") = "generation" /\ At(v, "normal") = "none" -> {Resolve(v)}
                       [] OTHER -> {Raise(v)}
  <1>1. CASE "retired" \in w.set
    BY <1>1, ForceCosts DEF Undoable, RollbackAttempted, Has
  <1>2. CASE "retired" \notin w.set /\ Has(w, "started")
    BY <1>2, RollbackCosts DEF Undoable, RollbackAttempted, Rigged, Has
  <1>3. CASE "retired" \notin w.set /\ ~Has(w, "started")
    <2>1. PICK v \in Outside(w) : r \in T(v)
      BY <1>3 DEF Undoable, RollbackAttempted, Has
    <2>2. CASE v = w
      <3> SUFFICES ASSUME Shown(r) PROVE Costly(w, r)
        BY DEF Costly
      <3>1. Level(w, r)
        BY RollbackAttemptedSame DEF Undoable, Stay, Same
      <3> DEFINE s == Set(w, {"started"})
      <3>3. r \in RollbackPublished(s)
        BY <2>1, <2>2, Own, <3>1, AtUnique DEF Names, Undoable, Level, Shown
      <3>4. s \in States /\ Level(w, s) /\ s.where = w.where /\ ~Has(s, "err")
        BY MarkedRigged DEF Undoable
      <3> HIDE DEF s
      <3>6. Level(s, r)
        BY <3>3, <3>4, RollbackSame DEF Stay, Same
      <3> QED BY <3>4, <1>3, <3>3, RollbackCosts, <3>6, CostlyTrans DEF Undoable, Rigged, Unique
    <2>3. CASE v # w
      <3>1. v.edits > w.edits /\ Level(w, v)
        BY <2>3, OutsideQuiet, OutsideSame DEF Undoable, Stay, Same
      <3>2. Level(v, r)
        <4>1. CASE At(v, "normal") = "generation"
          <5> DEFINE s == Set(v, {"started"})
          <5>1. r \in RollbackPublished(s)
            BY <2>1, <4>1
          <5>2. Same(v, s)
            BY <3>1, StartedSame DEF Level
          <5> HIDE DEF s
          <5> QED BY <5>1, <5>2, RollbackSame, Trans DEF Stay, Same
        <4>2. CASE At(v, "normal") # "generation"
          <5>2. At(v, "normal") = "none" => ~Shown(v)
            BY AtHolds, Own DEF Shown
          <5> QED BY <3>1, <2>1, <4>2, <5>2, RaiseSame, ResolvedSame DEF Level, Same
        <4> QED BY <4>1, <4>2
      <3> QED BY <3>1, <3>2, CostlyTrans DEF Costly, Level, States
    <2> QED BY <2>2, <2>3
  <1> QED BY <1>1, <1>2, <1>3

\* recover_attempted_publication.
LEMMA RecoverCosts ==
    ASSUME NEW w, NEW d, Undoable(w, d), Rigged(w), NEW r \in RecoverAttempted(w, d)
    PROVE  Costly(w, r)
  <1>1. CASE "retired" \in w.set
    BY <1>1, ForceCosts DEF Undoable, RecoverAttempted, Has
  <1>2. CASE "retired" \notin w.set
    <2>1. PICK v \in Outside(w) : r \in RecoverFrom(v)
      BY <1>2, RecoverAttemptedParts DEF Undoable, Has
    <2>2. Level(w, v) /\ v \in States
      BY OutsideSame DEF Undoable, Stay, Same
    <2>3. CASE v = w
      <3> SUFFICES ASSUME Shown(r) PROVE Costly(w, r)
        BY DEF Costly
      <3>2. At(w, "normal") = "generation"
        BY Own, RecoverAttemptedSame, AtUnique DEF Names, Undoable, Level, Shown, Stay, Same
      <3> DEFINE s == Set(w, {"started"})
      <3>3. PICK u \in RollbackPublished(s) : r \in ResolveIfHidden(Clear(u, {"err"}), TRUE)
        BY <2>1, <2>3, <3>2 DEF RecoverFrom, RecoverStarted
      <3>4. s \in States /\ Level(w, s) /\ s.where = w.where /\ ~Has(s, "err")
        BY MarkedRigged DEF Undoable
      <3> HIDE DEF s
      <3>5. Costly(s, u)
        BY <1>2, <3>3, <3>4, RollbackCosts DEF Undoable, Rigged, Unique
      <3>6. Level(s, u) /\ u \in States
        BY <3>3, <3>4, RollbackSame DEF Stay, Same
      <3>7. Level(u, r)
        BY <3>6, RaiseSame, <3>3, ResolveSame, Trans DEF Stay, Same
      <3> QED BY <3>7, <3>4, <3>5, <3>6, CostlyTrans, LevelTrans
    <2>4. CASE v # w
      <3>3. Costly(w, v)
        BY <2>2, <2>4, OutsideQuiet DEF Costly, Level, States, Undoable
      <3> QED BY <2>2, <2>1, RecoverFromSame, <3>3, CostlyTrans DEF Stay, Same
    <2> QED BY <2>3, <2>4
  <1> QED BY <1>1, <1>2

\* What could be undone still can, and is still to be, while the generation is shown.
LEMMA UndoableStays ==
    ASSUME NEW w, NEW d, Undoable(w, d), NEW u, Same(w, u), ~Has(u, "err"), Shown(u), u.edits = w.edits
    PROVE  /\ Undoable(u, d) /\ (Pressing(w) => Pressing(u)) /\ (Rigged(w) => Rigged(u))
           /\ u.faults >= w.faults /\ w.faults \in Nat /\ u.faults \in Nat
  <1>1. /\ u \in States /\ u.open = w.open /\ Level(w, u) /\ Firm(w, u)
        /\ "releaseFailed" \in u.set <=> "releaseFailed" \in w.set
    BY DEF Same, Volatile
  <1>2. /\ Unique(u) /\ "attempted" \in u.set /\ "resolved" \notin u.set /\ u.faults >= w.faults
        /\ ("required" \in w.set => "required" \in u.set)
        /\ ("retired" \in w.set => "retired" \in u.set)
    BY <1>1 DEF Level, Undoable, Unresolved, Has
  <1>4. Rigged(w) => Rigged(u)
    BY <1>1, <1>2 DEF Firm, Undoable, Unresolved, Has, Rigged
  <1> QED BY <1>1, <1>2, <1>4 DEF Pressing, Undoable, States, Unresolved, Has, Owned

\* What becomes of a rollback is noted, and nothing else happens.
LEMMA NotedExact ==
    ASSUME NEW x \in States,
           NEW r \in {IF Has(x, "err") THEN Clear(Set(x, {"rollbackFailed"}), {"err"})
                      ELSE Clear(x, {"rollbackFailed"})}
    PROVE  ~Has(r, "err") /\ Same(x, r) /\ r.where = x.where /\ r.faults = x.faults /\ r.edits = x.edits
  <1> DEFINE s == Set(x, {"rollbackFailed"})
  <1>2. Same(x, Clear(s, {"err"})) /\ Same(x, Clear(x, {"rollbackFailed"}))
    BY RaiseSame
  <1> HIDE DEF s
  <1>3. CASE Has(x, "err")
    BY <1>3, Flagged, FlaggedExact, <1>2 DEF s, Flags, Has
  <1>4. CASE ~Has(x, "err")
    BY <1>4, Flagged, <1>2, FlaggedExact DEF Flags, Has
  <1> QED BY <1>3, <1>4

\* attempt_rollback.
LEMMA AttemptCosts ==
    ASSUME NEW w, NEW d, Undoable(w, d), Rigged(w), NEW r \in AttemptRollback(w, d)
    PROVE  Costly(w, r)
  <1>1. PICK x \in RollbackAttempted(w, d) :
            r \in {IF Has(x, "err") THEN Clear(Set(x, {"rollbackFailed"}), {"err"})
                   ELSE Clear(x, {"rollbackFailed"})}
    BY DEF AttemptRollback
  <1> QED
    BY AttemptedCosts, RollbackAttemptedSame, <1>1, NotedExact, CostlyTrans DEF Same, Stay,
       Undoable

\* A recovery of a publication that is to be undone leaves it only if the last isolation fails
\* and, where the slot is at hand, the rollback and the recovery before it too.
LEMMA RecoveryCosts ==
    ASSUME NEW w, NEW d, Undoable(w, d), Pressing(w), NEW v \in Recover(w, d),
           Shown(v), v.edits = w.edits
    PROVE  v.faults > w.faults /\ (Rigged(w) => v.faults >= w.faults + 3)
  <1>1. PICK t \in RecoverWithAnchor(w, d) : v \in ForceWithAnchor(t, d)
    BY DEF Recover
  <1>2. Unresolved(w) /\ w \in States
    BY DEF Undoable
  <1> DEFINE N(u) == {IF Has(x, "err") THEN Clear(Set(x, {"rollbackFailed"}), {"err"})
                      ELSE Clear(x, {"rollbackFailed"}) : x \in RecoverAttempted(u, d)}
  <1>3. PICK u \in AttemptRollback(w, d) :
            t \in IF /\ Unresolved(u)
                     /\ u.set \cap {"required", "releaseFailed", "rollbackFailed"} # {} \/ ~Has(u, "committed")
                  THEN N(u) ELSE {u}
    BY <1>2 DEF RecoverWithAnchor, Pressing
  <1>4. PICK y \in RollbackAttempted(w, d) :
            u \in {IF Has(y, "err") THEN Clear(Set(y, {"rollbackFailed"}), {"err"})
                   ELSE Clear(y, {"rollbackFailed"})}
    BY DEF AttemptRollback
  <1>5. Same(w, u) /\ ~Has(u, "err")
    BY <1>2, RollbackAttemptedSame, <1>4, NotedExact, Trans DEF Stay, Same
  <1>6. Same(w, t) /\ Same(u, t) /\ Same(t, v) /\ u \in States /\ t \in States
    <2>1. u \in States /\ Stay(w, RecoverWithAnchor(w, d))
      BY <1>2, <1>5, RecoverWithAnchorSame DEF Same
    <2>2. t \in States /\ Same(w, t)
      BY <2>1 DEF Stay, Same
    <2>3. Stay(u, N(u)) /\ Same(u, u)
      BY <2>1, RecoverAttemptedSame, NotedSame, RaiseSame
    <2> HIDE DEF N
    <2> QED BY <1>3, <2>1, <2>2, <2>3, <1>1, ForceWithAnchorSame DEF Stay
  <1>7. /\ Shown(t) /\ Shown(u) /\ u.edits = w.edits /\ t.edits = w.edits
        /\ t.faults >= u.faults /\ v.faults >= t.faults /\ v.faults \in Nat
    BY <1>5, <1>6 DEF Same, Level, States
  <1>8. /\ Undoable(u, d) /\ Pressing(u) /\ (Rigged(w) => Rigged(u))
        /\ w.faults \in Nat /\ u.faults \in Nat /\ u.faults >= w.faults
    BY <1>5, <1>7, UndoableStays
  <1>10. PICK x \in RecoverAttempted(u, d) :
            t \in {IF Has(x, "err") THEN Clear(Set(x, {"rollbackFailed"}), {"err"})
                   ELSE Clear(x, {"rollbackFailed"})}
    BY <1>3, <1>8 DEF Undoable, Pressing
  <1>12. ~Has(t, "err") /\ t.faults = x.faults /\ t.edits = x.edits /\ t.where = x.where
    BY <1>10, <1>6, RecoverAttemptedSame, NotedExact DEF Stay, Same
  <1>13. Undoable(t, d) /\ Pressing(t) /\ t.faults \in Nat
    BY <1>6, <1>7, <1>8, <1>12, UndoableStays
  <1>14. PICK z \in ForceRecovery(t, d) :
            v = z \/ v = Set(Clear(z, {"err"}), {"rollbackFailed"})
    BY <1>1, <1>13 DEF ForceWithAnchor, Except, Undoable, Pressing
  <1>15. v.where = z.where /\ v.faults = z.faults /\ v.edits = z.edits
    BY <1>6, ForceSame, Flagged, FlaggedExact, <1>14 DEF Stay, Same, Flags
  <1>17. Rigged(w) => u.faults > w.faults /\ t.faults > u.faults
    <2> SUFFICES ASSUME Rigged(w) PROVE u.faults > w.faults /\ t.faults > u.faults
      OBVIOUS
    <2> QED BY <1>12, <1>7, AttemptCosts, <1>8, RecoverCosts DEF Costly, Shown
  <1> QED BY <1>7, <1>8, <1>13, <1>15, ForceCosts, <1>17 DEF Costly, Shown

\* So does the recovery after an escape, all three attempts of which must fail.
LEMMA EmergencyCosts ==
    ASSUME NEW w, Undoable(w, "anchor"), Rigged(w), NEW v \in EmergencyRecover(w),
           Shown(v), v.edits = w.edits
    PROVE  v.faults >= w.faults + 3
  <1> DEFINE d == "anchor"
             m == Set(w, {"required"})
             one == {Clear(u, {"err"}) : u \in RollbackAttempted(m, d)}
             two == UNION {IF Unresolved(u) THEN {Clear(x, {"err"}) : x \in RecoverAttempted(u, d)}
                           ELSE {u} : u \in one}
             three == UNION {IF Unresolved(u) THEN {Clear(x, {"err"}) : x \in ForceRecovery(u, d)}
                             ELSE {u} : u \in two}
             last == {IF Unresolved(u) THEN Set(u, {"rollbackFailed"})
                      ELSE Clear(u, {"rollbackFailed"}) : u \in three}
  <1>1. v \in last
    BY DEF EmergencyRecover, Undoable
  <1>2. ASSUME NEW x \in States
        PROVE  /\ Same(x, Clear(x, {"err"})) /\ Clear(x, {"err"}).where = x.where
               /\ Clear(x, {"err"}).faults = x.faults /\ Clear(x, {"err"}).edits = x.edits
               /\ ~Has(Clear(x, {"err"}), "err") /\ Clear(x, {"err"}) \in States
    BY RaiseSame, Flagged, FlaggedExact DEF Flags, Has
  <1>3. Same(w, m) /\ ~Has(m, "err") /\ m \in States /\ m.where = w.where
        /\ m.faults = w.faults /\ m.edits = w.edits
    BY StartedSame, MarkedRigged, FlaggedExact DEF Undoable, Same, Flags
  <1> HIDE DEF m
  <1>4. PICK y \in three : v = Set(y, {"rollbackFailed"}) \/ v = Clear(y, {"rollbackFailed"})
    BY <1>1
  <1>5. PICK t \in two : y \in IF Unresolved(t) THEN {Clear(x, {"err"}) : x \in ForceRecovery(t, d)} ELSE {t}
    BY <1>4
  <1>6. PICK u \in one : t \in IF Unresolved(u) THEN {Clear(x, {"err"}) : x \in RecoverAttempted(u, d)} ELSE {u}
    BY <1>5
  <1>7. PICK a \in RollbackAttempted(m, d) : u = Clear(a, {"err"})
    BY <1>6
  <1> HIDE DEF one, two, three, last
  <1>9. Same(m, u) /\ ~Has(u, "err") /\ u \in States /\ u.where = a.where /\ u.faults = a.faults
        /\ u.edits = a.edits
    BY <1>2, <1>7, <1>3, RollbackAttemptedSame, Trans DEF Stay, Same
  <1>10. Same(u, t) /\ t \in States
    <2>1. ASSUME NEW x \in RecoverAttempted(u, d) PROVE Same(u, Clear(x, {"err"}))
      BY <1>9, RecoverAttemptedSame, RaiseSame, Trans DEF Stay, Same
    <2> QED BY <1>6, <1>9, <2>1, RaiseSame DEF Same
  <1>11. Same(t, y) /\ y \in States
    <2>1. ASSUME NEW x \in ForceRecovery(t, d) PROVE Same(t, Clear(x, {"err"}))
      BY <1>10, ForceSame, RaiseSame, Trans DEF Stay, Same
    <2> QED BY <1>5, <1>10, <2>1, RaiseSame DEF Same
  <1>12. v.where = y.where /\ v.faults = y.faults /\ v.edits = y.edits
    BY <1>4, <1>11, Flagged, FlaggedExact DEF Flags
  <1>13. /\ Shown(y) /\ Shown(t) /\ Shown(u) /\ u.edits = w.edits /\ t.edits = w.edits /\ y.edits = w.edits
    BY <1>9, <1>10, <1>11, <1>12, <1>3 DEF Same, Level, States, Shown
  <1>14. Undoable(m, d) /\ Rigged(m)
    BY <1>9, <1>13, <1>3, UndoableStays DEF Same, Level, Shown
  <1>15. Undoable(u, d) /\ Rigged(u) /\ m.faults \in Nat /\ u.faults \in Nat
    BY <1>3, <1>9, <1>13, <1>14, UndoableStays
  <1>16. PICK x \in RecoverAttempted(u, d) : t = Clear(x, {"err"})
    BY <1>6, <1>15 DEF Undoable
  <1>18. ~Has(t, "err") /\ t.faults = x.faults /\ t.edits = x.edits /\ t.where = x.where
    BY <1>2, <1>16, <1>9, RecoverAttemptedSame DEF Stay, Same
  <1>19. Undoable(t, d) /\ t.faults \in Nat
    BY <1>10, <1>13, <1>15, <1>18, UndoableStays
  <1>20. PICK z \in ForceRecovery(t, d) : y = Clear(z, {"err"})
    BY <1>5, <1>19 DEF Undoable
  <1>21. y.faults = z.faults /\ y.edits = z.edits /\ y.where = z.where
    BY <1>10, ForceSame, <1>2, <1>20 DEF Stay, Same
  <1>22. u.faults > m.faults
    BY <1>14, AttemptedCosts, <1>3, <1>9, <1>13 DEF Costly, Shown
  <1>23. t.faults > u.faults
    BY <1>15, RecoverCosts, <1>13, <1>18 DEF Costly, Shown
  <1>24. y.faults > t.faults
    BY <1>19, ForceCosts, <1>13, <1>21 DEF Costly, Shown
  <1> QED BY <1>3, <1>12, <1>15, <1>19, <1>22, <1>23, <1>24, <1>11 DEF States

-----------------------------------------------------------------------------
(* A call that raises, and what somebody else has put under its names.     *)

\* What renames nothing leaves it neat.
LEMMA NeatStill ==
    ASSUME NEW w \in States, NEW v \in States, NEW X, Neat(w, X), v.where = w.where,
           v.edits = w.edits, v.faults >= w.faults, "attempted" \in v.set => "attempted" \in w.set
    PROVE  Neat(v, X)
  BY DEF States, Neat, Unique, Tame, Vacant, Lacking

\* Fewer directories that are not made yet.
LEMMA NeatFewer ==
    ASSUME NEW w, NEW X, NEW Y \in SUBSET X, Neat(w, X)
    PROVE  Neat(w, Y)
  BY DEF Neat, Lacking

\* Somebody else knows no name that is not there yet.
LEMMA NeatOutside ==
    ASSUME NEW w \in States, NEW X \in SUBSET OwnNodes, Neat(w, X), NEW v \in Outside(w)
    PROVE  Neat(v, X)
  <1>1. CASE v = w
    BY <1>1
  <1>2. CASE v # w
    <2>1. /\ v \in States /\ v.set = w.set /\ Unique(v) /\ Tame(v)
          /\ w.where \in [Nodes -> Places]
      BY OutsideExact, OutsideSame DEF Gentle, Neat, States
    <2>2. PICK n \in Known(w) :
             \/ /\ At(w, n) \in Nodes
                /\ v.where = [w.where EXCEPT ![At(w, n)] = "away"]
             \/ \E f \in Foreign :
                  /\ w.where[f] = "nowhere"
                  /\ \/ At(w, n) = "none" /\ v.where = [w.where EXCEPT ![f] = n]
                     \/ /\ At(w, n) \in Nodes
                        /\ v.where = [[w.where EXCEPT ![At(w, n)] = "away"] EXCEPT ![f] = n]
      BY <1>2, OutsideExact
    <2>3. n \in {"pending", "slot"} /\ "attempted" \notin w.set /\ \A x \in Nodes : w.where[x] # "normal"
      BY DEF Known, Neat, Vacant, Has
    <2>4. n = "pending" => "generation" \notin X
      BY DEF Known, Neat, Lacking, Vacant, Has
    <2>5. n = "slot" => "slot" \notin X
      BY DEF Known, Neat, Lacking, Vacant, Has
    <2>6. \A x \in Nodes : v.where[x] \in {w.where[x], "away"} \/ (x \in Foreign /\ v.where[x] = n)
      BY <2>1, <2>2, Own
    <2>7. \A x \in OwnNodes : w.where[x] = "nowhere" => v.where[x] = "nowhere"
      <3>1. \A y \in Nodes : y = At(w, n) => w.where[y] = n
        BY AtHolds
      <3> QED BY <2>1, <2>2, <2>3, <3>1, Own DEF OwnNodes
    <2>10. Lacking(v, X)
      BY <2>6, <2>7, <2>3, <2>4, <2>5 DEF Lacking, Neat, OwnNodes, Home
    <2> QED BY <2>1, <2>3, <2>6, <2>10 DEF Neat, Vacant
  <1> QED BY <1>1, <1>2

\* A directory is made under a name that nobody has.
LEMMA NeatMade ==
    ASSUME NEW w \in States, NEW X \in SUBSET OwnNodes, NEW x \in X, Neat(w, X)
    PROVE  LET v == Put(w, x, Home(x)) IN
             v \in States /\ Neat(v, X \ {x}) /\ v.open = w.open /\ v.set = w.set
  <1> DEFINE v == Put(w, x, Home(x))
  <1>1. x \in Nodes /\ Home(x) \in Names /\ Home(x) \in Places /\ Home(x) # "normal" /\ x \notin Foreign
    BY Own, NamesPlaces DEF OwnNodes, Home, Names
  <1>2. /\ v \in States /\ v.where = [w.where EXCEPT ![x] = Home(x)]
        /\ v.where \in [Nodes -> Places] /\ v.open = w.open /\ v.set = w.set
        /\ v.edits = w.edits /\ v.faults = w.faults
    BY <1>1, PutExact
  <1> HIDE DEF v
  <1>3. w.where \in [Nodes -> Places] /\ \A y \in Nodes : w.where[y] # Home(x)
    BY DEF States, Neat, Lacking
  <1>4. \A y \in Nodes : v.where[y] = IF y = x THEN Home(x) ELSE w.where[y]
    BY <1>2, <1>3
  <1>5. Unique(v)
    BY <1>3, <1>4 DEF Unique, Neat
  <1>6. Tame(v)
    BY <1>1, <1>2, <1>4, Own DEF Tame, Neat
  <1>8. \A y \in X : y # x => Home(y) # Home(x)
    BY DEF OwnNodes, Home
  <1>10. Lacking(v, X \ {x})
    BY <1>4, <1>8, Own DEF Lacking, Neat, OwnNodes
  <1> QED BY <1>2, <1>5, <1>6, <1>1, <1>4, <1>10 DEF v, Neat, Vacant

\* What a check or a failed call leaves.
LEMMA NeatMay ==
    ASSUME NEW w \in States, NEW X, Neat(w, X)
    PROVE  Neat(Raise(w), X) /\ Raise(w).open = w.open
           /\ \A v \in May(w) : v \in States /\ Neat(v, X) /\ v.open = w.open
  BY Flagged, FlaggedExact, NeatStill, FaultsExact DEF Raise, Flags, States, May

\* A check, or what somebody else does meanwhile.
LEMMA TidyMay ==
    ASSUME NEW S, NEW T, NEW X \in SUBSET OwnNodes, NEW D, Tidy(S, X, D),
           \A v \in T : v \in S \/ \E u \in S : v \in May(u) \/ \E t \in Outside(u) : v = t \/ v = Raise(t)
    PROVE  Tidy(T, X, D)
  <1> SUFFICES ASSUME NEW v \in T, v \notin S PROVE v \in States /\ Neat(v, X) /\ D \subseteq v.open
    BY DEF Tidy
  <1>1. PICK u \in S : v \in May(u) \/ \E t \in Outside(u) : v = t \/ v = Raise(t)
    OBVIOUS
  <1>2. u \in States /\ Neat(u, X) /\ D \subseteq u.open
    BY DEF Tidy
  <1>3. CASE v \in May(u)
    BY <1>2, <1>3, NeatMay
  <1>4. CASE \E t \in Outside(u) : v = t \/ v = Raise(t)
    <2>1. PICK t \in Outside(u) : v = t \/ v = Raise(t)
      BY <1>4
    <2> QED BY <1>2, <2>1, NeatOutside, OutsideExact, NeatMay, RaiseRaises
  <1> QED BY <1>1, <1>3, <1>4

\* Flags and descriptors do not count.
LEMMA TidyMarked ==
    ASSUME NEW S, NEW T, NEW X, NEW D, Tidy(S, X, D),
           NEW fs \in SUBSET (Flags \ {"attempted"}), NEW ds \in SUBSET Descriptors,
           \A v \in T : v \in S \/ \E u \in S : v = Set(u, fs) \/ v = Open(u, ds) \/ v = Set(Open(u, ds), fs)
    PROVE  Tidy(T, X, D)
  <1>1. ASSUME NEW u \in States, Neat(u, X), D \subseteq u.open
        PROVE  Set(u, fs) \in States /\ Neat(Set(u, fs), X) /\ D \subseteq Set(u, fs).open
    BY Flagged, FlaggedExact, <1>1, NeatStill DEF States
  <1>2. ASSUME NEW u \in States, Neat(u, X), D \subseteq u.open
        PROVE  Open(u, ds) \in States /\ Neat(Open(u, ds), X) /\ D \subseteq Open(u, ds).open
    BY <1>2, NeatStill DEF Open, States
  <1> SUFFICES ASSUME NEW v \in T PROVE v \in States /\ Neat(v, X) /\ D \subseteq v.open
    BY DEF Tidy
  <1>3. CASE v \in S
    BY <1>3 DEF Tidy
  <1>4. CASE v \notin S
    <2>1. PICK u \in S : v = Set(u, fs) \/ v = Open(u, ds) \/ v = Set(Open(u, ds), fs)
      BY <1>4
    <2> QED BY <1>1, <1>2, <2>1 DEF Tidy
  <1> QED BY <1>3, <1>4

\* A directory is made.
LEMMA TidyMade ==
    ASSUME NEW S, NEW T, NEW X \in SUBSET OwnNodes, NEW D, Tidy(S, X, D), NEW x \in X,
           \A v \in T : v \in S \/ \E u \in S : v = Put(u, x, Home(x))
    PROVE  Tidy(T, X \ {x}, D)
  <1>1. ASSUME NEW u \in S PROVE u \in States /\ Neat(u, X) /\ D \subseteq u.open /\ Neat(u, X \ {x})
    BY NeatFewer DEF Tidy
  <1> QED BY <1>1, NeatMade DEF Tidy

\* A rename to another name.
LEMMA VacantRename ==
    ASSUME NEW w \in States, Vacant(w), NEW n, NEW p \in Places, p # "normal", NEW u \in Rename(w, n, p)
    PROVE  u \in States /\ Vacant(u)
  <1>1. /\ u \in States /\ u.open = w.open /\ u.set \ {"err"} = w.set \ {"err"}
        /\ u.edits = w.edits /\ u.faults \in {w.faults, w.faults + 1}
        /\ \/ u.where = w.where
           \/ At(w, n) \in Nodes /\ u.where = [w.where EXCEPT ![At(w, n)] = p]
    BY RenameExact
  <1>2. w.where \in [Nodes -> Places]
    BY DEF States
  <1> QED BY <1>1, <1>2 DEF Vacant

\* Nothing of the isolation of a leaf gives the normal name.
LEMMA VacantMoves ==
    ASSUME NEW w \in States, Vacant(w), NEW n \in {"slot", "probe"}
    PROVE  /\ Raise(w) \in States /\ Vacant(Raise(w)) /\ Clear(w, {"err"}) \in States /\ Vacant(Clear(w, {"err"}))
           /\ \A v \in Outside(w) : v \in States /\ Vacant(v)
           /\ \A v \in May(w) : v \in States /\ Vacant(v)
           /\ \A v \in Rename(w, n, "inside") : v \in States /\ Vacant(v)
           /\ \A y \in Nodes : \A v \in Restore(w, y, n) : v \in States /\ Vacant(v)
  <1>1. ASSUME NEW t \in States, Vacant(t) PROVE Raise(t) \in States /\ Vacant(Raise(t))
    BY Flagged, <1>1 DEF Flags, Raise, Vacant
  <1>3. ASSUME NEW v \in Outside(w) PROVE v \in States /\ Vacant(v)
    <2>1. CASE v = w
      BY <2>1
    <2>2. CASE v # w
      <3>1. v \in States /\ v.set = w.set /\ w.where \in [Nodes -> Places]
        BY OutsideExact DEF States
      <3>2. PICK m \in Known(w) :
               \/ /\ At(w, m) \in Nodes
                  /\ v.where = [w.where EXCEPT ![At(w, m)] = "away"]
               \/ \E f \in Foreign :
                    /\ w.where[f] = "nowhere"
                    /\ \/ At(w, m) = "none" /\ v.where = [w.where EXCEPT ![f] = m]
                       \/ /\ At(w, m) \in Nodes
                          /\ v.where = [[w.where EXCEPT ![At(w, m)] = "away"] EXCEPT ![f] = m]
        BY <2>2, OutsideExact
      <3>3. m \in {"pending", "slot"}
        BY DEF Known, Vacant, Has
      <3> QED BY <3>1, <3>3, <3>2, Own DEF Vacant
    <2> QED BY <2>1, <2>2
  <1>4. ASSUME NEW v \in May(w) PROVE v \in States /\ Vacant(v)
    BY FaultsExact, <1>1 DEF Vacant, May
  <1>5. ASSUME NEW v \in Rename(w, n, "inside") PROVE v \in States /\ Vacant(v)
    BY <1>5, VacantRename, NamesPlaces
  <1>6. ASSUME NEW y \in Nodes, NEW v \in Restore(w, y, n) PROVE v \in States /\ Vacant(v)
    <2>1. n \in Places /\ w.where \in [Nodes -> Places]
      BY DEF Places, States, Names
    <2>2. /\ v \in States /\ v.set \ {"err"} = w.set \ {"err"}
          /\ v.where = w.where \/ v.where = [w.where EXCEPT ![y] = n]
      BY <2>1, RestoreExact
    <2> QED BY <2>2, <2>1 DEF Vacant
  <1> QED BY <1>1, Flagged, <1>3, <1>4, <1>5, <1>6 DEF Flags, Vacant

\* So the isolation does not.
LEMMA VacantEmpty ==
    ASSUME NEW w \in States, Vacant(w), NEW n \in {"slot", "probe"}, NEW x, NEW r \in IsolateEmpty(w, n, x)
    PROVE  r \in States /\ Vacant(r)
  <1> DEFINE moved(t, u) == {y \in Nodes : t.where[y] = n /\ u.where[y] = "inside"}
             S(t, u) == IF moved(t, u) = {} THEN {Raise(u)}
                        ELSE IF moved(t, u) = {x} THEN RequireAbsent(Clear(u, {"err"}), n)
                        ELSE Restore(Clear(u, {"err"}), CHOOSE y \in moved(t, u) : TRUE, n)
             B == {IF At(v, n) = x THEN v ELSE Raise(v) : v \in May(w)}
             L(v) == IsolateLeaf(v, n, x, "inside")
             T(v) == Then(L(v), May)
  <1>1. PICK b \in B : r = b \/ r \in T(b)
    BY DEF IsolateEmpty, Then
  <1>2. b \in States /\ Vacant(b)
    BY VacantMoves
  <1>3. ASSUME NEW l \in L(b) PROVE l \in States /\ Vacant(l)
    <2>1. L(b) = UNION {UNION {S(t, u) : u \in Rename(t, n, "inside")} : t \in Outside(b)}
      BY DEF IsolateLeaf
    <2> HIDE DEF S
    <2>2. PICK t \in Outside(b) : \E u \in Rename(t, n, "inside") : l \in S(t, u)
      BY <1>3, <2>1
    <2>3. PICK u \in Rename(t, n, "inside") : l \in S(t, u)
      BY <2>2
    <2>5. u \in States /\ Vacant(u)
      BY <1>2, VacantMoves
    <2> DEFINE c == Clear(u, {"err"})
    <2>6. c \in States /\ Vacant(c)
      BY <2>5, VacantMoves
    <2> HIDE DEF c
    <2>7. CASE moved(t, u) = {}
      BY <2>3, <2>5, <2>7, VacantMoves DEF S
    <2>8. CASE moved(t, u) = {x} /\ moved(t, u) # {}
      <3>2. PICK a \in Outside(c) : l = a \/ l = Raise(a)
        BY <2>3, <2>8 DEF RequireAbsent, S, c
      <3> QED BY <3>2, <2>6, VacantMoves
    <2>9. CASE moved(t, u) # {x} /\ moved(t, u) # {}
      <3> DEFINE y == CHOOSE z \in moved(t, u) : TRUE
      <3> HIDE DEF y
      <3> QED BY <2>6, <2>9, <2>3, VacantMoves DEF S, c
    <2> QED BY <2>7, <2>8, <2>9
  <1>4. CASE r = b
    BY <1>2, <1>4
  <1>5. CASE r \in T(b)
    <2> HIDE DEF L
    <2>1. PICK l \in L(b) : r = l \/ r \in May(l)
      BY <1>5 DEF Then
    <2> QED BY <2>1, <1>3, VacantMoves
  <1> QED BY <1>1, <1>4, <1>5

\* ... and keeps what is neat neat.
LEMMA NeatEmpty ==
    ASSUME NEW w \in States, Neat(w, {}), NEW n \in {"slot", "probe"}, NEW x \in {"slot", "probe"},
           NEW r \in IsolateEmpty(w, n, x)
    PROVE  r \in States /\ Neat(r, {}) /\ r.open = w.open
  BY VacantEmpty, Own, IsolateEmptyLevel DEF Neat, Names, Lacking, Gentle, Like

\* The slot and the probe, or whatever has their names, change names.
LEMMA NeatExchange ==
    ASSUME NEW w \in States, Neat(w, {}), NEW u \in Exchange(w, "slot", "probe")
    PROVE  u \in States /\ Neat(u, {}) /\ u.open = w.open
  <1> DEFINE a == At(w, "slot")
             b == At(w, "probe")
  <1>0. "slot" \in Places /\ "probe" \in Places
    BY DEF Places, Names
  <1>1. /\ u \in States /\ u.open = w.open /\ u.set \ {"err"} = w.set \ {"err"}
        /\ u.edits = w.edits /\ u.faults \in {w.faults, w.faults + 1}
        /\ \/ u.where = w.where
           \/ /\ a \in Nodes /\ b \in Nodes
              /\ u.where = [[w.where EXCEPT ![a] = "probe"] EXCEPT ![b] = "slot"]
    BY <1>0, ExchangeExact
  <1>2. w.where \in [Nodes -> Places] /\ w.faults \in Nat /\ w.edits \in Nat
    BY DEF States
  <1>3. CASE u.where = w.where
    BY <1>1, <1>2, <1>3, NeatStill
  <1>4. CASE a \in Nodes /\ b \in Nodes
             /\ u.where = [[w.where EXCEPT ![a] = "probe"] EXCEPT ![b] = "slot"]
    <2>1. w.where[a] = "slot" /\ w.where[b] = "probe"
      BY <1>4, AtHolds
    <2> HIDE DEF a, b
    <2>2. a # b /\ \A x \in Nodes : u.where[x] = IF x = b THEN "slot" ELSE IF x = a THEN "probe" ELSE w.where[x]
      BY <1>2, <1>4, <2>1
    <2>4. Tame(u)
      BY <1>1, <1>2, <2>1, <2>2, Own DEF Tame, Neat, Names
    <2> QED BY <1>1, <1>4, <2>1, <2>2, <2>4 DEF Neat, Lacking, Vacant, Unique
  <1> QED BY <1>1, <1>3, <1>4

\* A step of the body before the publication.
LEMMA NeatBody ==
    ASSUME Held, Smooth, Held', Smooth', NEW label \in BodyLabels \cap BeforeReplace, NEW S,
           NEW next \in BodyLabels \cap BeforeReplace, Body(label, S, next),
           NEW D, Tidy(S, Missing(next), D),
           next \in {"noreplace", "slot", "exchange", "replace"} =>
              "rollback" \in D \/ \A v \in S : ~Has(v, "err") => "rollback" \in v.open
    PROVE  Backed'
  <1>1. PICK u \in {IF Has(w, "err") THEN Set(w, {"exitFailed"}) ELSE w : w \in S} :
              /\ q' = Clear(u, {"err"})
              /\ pc' = IF Has(u, "err") THEN "housekeeping" ELSE next
              /\ first' = IF first = "none" /\ (Has(u, "err") \/ Failed(u)) THEN pc ELSE first
    BY DEF Body, Step
  <1>2. PICK v \in S : u = IF Has(v, "err") THEN Set(v, {"exitFailed"}) ELSE v
    BY <1>1
  <1>3. pc = label /\ outcome' = outcome /\ outcome = "running" /\ first = "none"
    BY DEF Body, Step, Smooth
  <1>4. v \in States /\ Neat(v, Missing(next)) /\ D \subseteq v.open
    BY DEF Tidy
  <1>5. /\ Unique(v) /\ Tame(v) /\ Vacant(v) /\ Neat(v, {}) /\ ~Shown(v) /\ "attempted" \notin v.set
    BY <1>4, NeatFewer, Own DEF Neat, Vacant, Shown
  <1>6. CASE Has(v, "err")
    <2>1. u = Set(v, {"exitFailed"}) /\ {"exitFailed"} \in SUBSET Flags /\ {"err"} \in SUBSET Flags
      BY <1>2, <1>6 DEF Flags
    <2>2. /\ u \in States /\ u.set = v.set \cup {"exitFailed"} /\ u.open = v.open /\ u.where = v.where
          /\ u.edits = v.edits /\ u.faults = v.faults
      BY <1>4, <2>1, Flagged, FlaggedExact
    <2>5. pc' = "housekeeping" /\ first' = label
      BY <1>1, <1>3, <1>6, <2>2 DEF Has
    <2>6. Unique(q)' /\ Tame(q)' /\ ~Shown(q)' /\ "attempted" \notin q'.set
      BY <1>5, <2>2, <1>1, <2>1, Flagged, FlaggedExact DEF Unique, Tame, Shown
    <2>7. first' # "none" /\ pc' \notin BeforeReplace
      BY <2>5 DEF BodyLabels, BeforeReplace, BeforePending, BeforeSlot
    <2> QED BY <2>6, <2>7, <1>3, <2>5 DEF Backed, Told, Supplied, Sunk, Afloat
  <1>7. CASE ~Has(v, "err")
    <2>1. u = v /\ q' = v
      BY <1>1, <1>2, <1>4, <1>7, ClearNothing
    <2>2. pc' = next
      BY <1>1, <1>7, <2>1
    <2>3. pc' \notin BeforeFinalize \cup BeforeRetire \cup {"slotLate", "done"}
      BY <2>2 DEF BeforeReplace, BeforeFinalize, BeforeRetire, BeforePending, BeforeSlot
    <2>5. Told' /\ Sunk' /\ Afloat(q)'
      BY <1>3, <1>5, <2>1, <2>2 DEF Told, Sunk, Afloat, Smooth
    <2> QED BY <1>4, <1>5, <2>1, <2>2, <2>5, <1>7, <2>3 DEF Backed, Supplied
  <1> QED BY <1>6, <1>7

\* Such a step begins neatly.
LEMMA NeatBegin ==
    ASSUME Held, Backed, NEW label \in BeforeReplace, pc = label
    PROVE  /\ Neat(q, Missing(label)) /\ Missing(label) \in SUBSET OwnNodes
           /\ Tidy({q}, Missing(label), q.open) /\ Tidy(May(q), Missing(label), q.open)
           /\ label \in {"noreplace", "slot", "exchange", "replace"} => "rollback" \in q.open
  <1>1. Neat(q, Missing(label)) /\ q \in States
    BY DEF Held, Backed
  <1>2. Missing(label) \in SUBSET OwnNodes
    BY DEF Missing, OwnNodes
  <1> QED BY <1>1, <1>2, NeatMay DEF Backed, Supplied, Tidy

\* What is missing changes only where a directory is made.
LEMMA MissingSteps ==
    /\ Missing("pin") = OwnNodes /\ Missing("pending") = OwnNodes
    /\ \A label \in BeforeSlot : Missing(label) = OwnNodes \ {"generation"}
    /\ Missing("exchange") = {"probe"} /\ Missing("replace") = {}
    /\ Missing("exchange") = (OwnNodes \ {"generation"}) \ {"slot"}
    /\ BodyLabels \cap BeforeReplace = {"pin", "pending", "exchange", "replace"} \cup BeforeSlot
  BY DEF Missing, OwnNodes, BeforePending, BeforeSlot, BeforeReplace, BodyLabels

\* The lock and .generations.
LEMMA PinBacked ==
    ASSUME Held, Smooth, Backed, Held', Smooth', Pin
    PROVE  Backed'
  <1> DEFINE s == Set(q, {"lock"})
             S1 == May(s)
             S2 == Then(S1, LAMBDA w : {Open(w, {"generations"})})
  <1>1. Body("pin", S2, "pending") /\ pc = "pin"
    BY Zenon DEF Pin, Body
  <1>2. \A v \in S2 : v \in S1 \/ \E u \in S1 : v = Open(u, {"generations"})
    BY DEF Then
  <1> HIDE DEF S1, S2
  <1>4. Tidy({s}, OwnNodes, q.open)
    BY <1>1, NeatBegin, MissingSteps, TidyMarked DEF Flags, BeforeReplace, BeforePending
  <1>5. Tidy(S1, OwnNodes, q.open)
    <2> HIDE DEF s
    <2> QED BY <1>4, TidyMay DEF S1
  <1>6. Tidy(S2, OwnNodes, q.open)
    <2> DEFINE fs == {}
               ds == {"generations"}
    <2>1. fs \in SUBSET (Flags \ {"attempted"}) /\ ds \in SUBSET Descriptors
      BY DEF Descriptors
    <2>2. \A v \in S2 : v \in S1 \/ \E u \in S1 : v = Set(u, fs) \/ v = Open(u, ds) \/ v = Set(Open(u, ds), fs)
      BY <1>2
    <2> HIDE DEF fs, ds
    <2> QED BY <1>5, <2>1, <2>2, TidyMarked
  <1> QED BY <1>1, <1>6, NeatBody, MissingSteps

\* Neither the query nor what is read of it.
LEMMA QueryBacked ==
    ASSUME Held, Smooth, Backed, Held', Smooth', RunQuery \/ Decode \/ Seal \/ ProbeNoReplace
    PROVE  Backed'
  <1> DEFINE X == OwnNodes \ {"generation"}
  <1>1. /\ pc \in {"query", "decode", "seal", "noreplace"} /\ pc \in BeforeSlot /\ pc \in BeforeReplace
        /\ X \in SUBSET OwnNodes
    BY Zenon DEF RunQuery, Decode, Seal, ProbeNoReplace, Body, BeforeSlot, BeforeReplace
  <1>2. Tidy(May(q), X, q.open)
    BY <1>1, NeatBegin, MissingSteps
  <1>3. /\ {"query", "decode", "seal", "anchors", "noreplace", "slot"} \subseteq BodyLabels \cap BeforeReplace
        /\ \A label \in {"query", "decode", "seal", "anchors", "noreplace", "slot"} : Missing(label) = X
        /\ {"query", "decode", "seal", "anchors"} \cap {"noreplace", "slot", "exchange", "replace"} = {}
    BY MissingSteps DEF BeforeSlot
  <1> HIDE DEF X
  <1>4. ASSUME NEW T, NEW fs \in SUBSET (Flags \ {"attempted"}), NEW ds \in SUBSET Descriptors,
               \A v \in T : v \in May(q) \/ \E u \in May(q) : v \in May(Set(u, fs)) \/ v \in May(Open(u, ds))
        PROVE  Tidy(T, X, q.open)
    <2> DEFINE M == {Set(u, fs) : u \in May(q)} \cup {Open(u, ds) : u \in May(q)} \cup May(q)
    <2>1. \A v \in M : v \in May(q) \/ \E u \in May(q) : v = Set(u, fs) \/ v = Open(u, ds)
      OBVIOUS
    <2>2. \A v \in T : v \in M \/ \E u \in M : v \in May(u)
      BY <1>4
    <2> HIDE DEF M
    <2>3. Tidy(M, X, q.open)
      BY <1>2, <2>1, TidyMarked
    <2> QED BY <1>1, <2>2, <2>3, TidyMay
  <1>5. CASE RunQuery
    <2> DEFINE T == Then(May(q), LAMBDA w : May(Set(w, {"tempQuery"})))
    <2>1. \A v \in T : v \in May(q) \/ \E u \in May(q) : v \in May(Set(u, {"tempQuery"}))
      BY DEF Then
    <2>2. Body("query", T, "decode")
      BY <1>5 DEF RunQuery
    <2> HIDE DEF T
    <2>4. Tidy(T, X, q.open)
      BY <1>4, <2>1 DEF Flags
    <2> QED BY <1>3, <2>2, <2>4, NeatBody
  <1>6. CASE Decode
    <2> DEFINE T == Then(May(q), LAMBDA w : May(Open(w, {"decoded"})))
    <2>1. \A v \in T : v \in May(q) \/ \E u \in May(q) : v \in May(Open(u, {"decoded"}))
      BY DEF Then
    <2>2. Body("decode", T, "seal")
      BY <1>6 DEF Decode
    <2> HIDE DEF T
    <2>4. Tidy(T, X, q.open)
      BY <1>4, <2>1 DEF Descriptors
    <2> QED BY <1>3, <2>2, <2>4, NeatBody
  <1>7. CASE Seal
    BY <1>7, <1>2, <1>3, NeatBody DEF Seal
  <1>8. CASE ProbeNoReplace
    BY <1>8, NeatBegin, <1>2, <1>3, NeatBody DEF ProbeNoReplace, Body, BeforeReplace, BeforeSlot
  <1> QED BY <1>5, <1>6, <1>7, <1>8

\* The pending directory.
LEMMA MakePendingBacked ==
    ASSUME Held, Smooth, Backed, Held', Smooth', MakePending
    PROVE  Backed'
  <1> DEFINE S1 == Then(May(q), LAMBDA w : {Put(w, "generation", "pending")})
             S2 == Then(S1, May)
             S3 == Then(S2, LAMBDA w : {Set(Open(w, {"pending"}), {"bound"})})
             current(w) == {IF At(v, "pending") = "generation" THEN v ELSE Raise(v) : v \in Outside(w)}
             S4 == Then(S3, current)
             S5 == Then(S4, May)
             S6 == Then(S5, LAMBDA w : {Open(w, {"identity"})})
             X == OwnNodes \ {"generation"}
  <1>1. Body("pending", S6, "query") /\ pc = "pending"
    BY Zenon DEF MakePending, Body
  <1>2. \A v \in S1 : v \in May(q) \/ \E u \in May(q) : v = Put(u, "generation", "pending")
    BY DEF Then
  <1>3. \A v \in S2 : v \in S1 \/ \E u \in S1 : v \in May(u)
    BY DEF Then
  <1>4. \A v \in S3 : v \in S2 \/ \E u \in S2 : v = Set(Open(u, {"pending"}), {"bound"})
    BY DEF Then
  <1>5. \A v \in S4 : v \in S3 \/ \E u \in S3 : \E t \in Outside(u) : v = t \/ v = Raise(t)
    BY DEF Then
  <1>6. \A v \in S5 : v \in S4 \/ \E u \in S4 : v \in May(u)
    BY DEF Then
  <1>7. \A v \in S6 : v \in S5 \/ \E u \in S5 : v = Open(u, {"identity"})
    BY DEF Then
  <1> HIDE DEF S1, S2, S3, S4, S5, S6
  <1>8. Tidy(May(q), OwnNodes, q.open)
    BY <1>1, NeatBegin, MissingSteps DEF BeforeReplace, BeforePending
  <1>9. Tidy(S1, X, q.open) /\ X \in SUBSET OwnNodes
    BY <1>2, <1>8, TidyMade DEF OwnNodes, Home
  <1> HIDE DEF X
  <1>10. Tidy(S2, X, q.open)
    BY <1>3, <1>9, TidyMay
  <1>11. Tidy(S3, X, q.open)
    <2> DEFINE fs == {"bound"}
               ds == {"pending"}
    <2>1. fs \in SUBSET (Flags \ {"attempted"}) /\ ds \in SUBSET Descriptors
      BY DEF Flags, Descriptors
    <2>2. \A v \in S3 : v \in S2 \/ \E u \in S2 : v = Set(u, fs) \/ v = Open(u, ds) \/ v = Set(Open(u, ds), fs)
      BY <1>4
    <2> HIDE DEF fs, ds
    <2> QED BY <1>10, <2>1, <2>2, TidyMarked
  <1>13. Tidy(S5, X, q.open)
    BY <1>6, <1>9, <1>5, <1>11, TidyMay
  <1>14. Tidy(S6, X, q.open)
    <2> DEFINE fs == {}
               ds == {"identity"}
    <2>1. fs \in SUBSET (Flags \ {"attempted"}) /\ ds \in SUBSET Descriptors
      BY DEF Descriptors
    <2>2. \A v \in S6 : v \in S5 \/ \E u \in S5 : v = Set(u, fs) \/ v = Open(u, ds) \/ v = Set(Open(u, ds), fs)
      BY <1>7
    <2> HIDE DEF fs, ds
    <2> QED BY <1>13, <2>1, <2>2, TidyMarked
  <1>20. Missing("query") = X /\ {"pending", "query"} \subseteq BodyLabels \cap BeforeReplace
    BY MissingSteps DEF X, BeforeSlot
  <1> QED BY <1>1, <1>20, <1>14, NeatBody

\* The descriptors for a rollback.
LEMMA AcquireAnchorsBacked ==
    ASSUME Held, Smooth, Backed, Held', Smooth', AcquireAnchors
    PROVE  Backed'
  <1> DEFINE S1 == Then(May(q), LAMBDA w : {Open(w, {"rollback"})})
             S2 == Then(S1, May)
             S3 == Then(S2, LAMBDA w : {Open(w, {"anchor"})})
             current(w) == {IF At(v, "pending") = "generation" THEN v ELSE Raise(v) : v \in Outside(w)}
             S4 == Then(S3, current)
             X == OwnNodes \ {"generation"}
             C1 == {v \in S1 : ~Has(v, "err")}
             C2 == {v \in S2 : ~Has(v, "err")}
             C3 == {v \in S3 : ~Has(v, "err")}
             C4 == {v \in S4 : ~Has(v, "err")}
             r == {"rollback"}
  <1>1. Body("anchors", S4, "noreplace") /\ pc = "anchors"
    BY Zenon DEF AcquireAnchors, Body
  <1>2. \A v \in S1 : (v \in May(q) /\ Has(v, "err")) \/ \E u \in May(q) : v = Open(u, {"rollback"})
    BY DEF Then
  <1>3. \A v \in S2 : (v \in S1 /\ Has(v, "err")) \/ \E u \in C1 : v \in May(u)
    BY DEF Then
  <1>4. \A v \in S3 : (v \in S2 /\ Has(v, "err")) \/ \E u \in C2 : v = Open(u, {"anchor"})
    BY DEF Then
  <1>5. \A v \in S4 : (v \in S3 /\ Has(v, "err")) \/ \E u \in C3 : \E t \in Outside(u) : v = t \/ v = Raise(t)
    BY DEF Then
  <1>6. C1 \subseteq S1 /\ C2 \subseteq S2 /\ C3 \subseteq S3 /\ C4 \subseteq S4
        /\ \A v \in C1 \cup C2 \cup C3 \cup C4 : ~Has(v, "err")
    BY Zenon
  <1> HIDE DEF S1, S2, S3, S4, C1, C2, C3
  <1>7. Tidy(May(q), X, q.open) /\ X \in SUBSET OwnNodes
    BY <1>1, NeatBegin, MissingSteps DEF BeforeReplace, BeforeSlot
  <1> HIDE DEF X
  <1>8. Tidy(S1, X, {}) /\ Tidy(C1, X, r)
    <2>1. ASSUME NEW u \in May(q)
          PROVE  /\ Open(u, {"rollback"}) \in States /\ Neat(Open(u, {"rollback"}), X)
                 /\ "rollback" \in Open(u, {"rollback"}).open
      <3> DEFINE v == Open(u, {"rollback"})
      <3>1. u \in States /\ Neat(u, X)
        BY <1>7 DEF Tidy
      <3>2. /\ v \in States /\ v.set = u.set /\ v.open = u.open \cup {"rollback"} /\ v.where = u.where
            /\ v.edits = u.edits /\ v.faults = u.faults /\ v.faults \in Nat
        BY <3>1 DEF Open, States, Descriptors
      <3> HIDE DEF v
      <3> QED BY <3>2, <3>1, NeatStill DEF v
    <2> QED BY <1>6, <1>2, <1>7, <2>1 DEF Tidy
  <1> HIDE DEF r
  <1>9. Tidy(S2, X, {}) /\ Tidy(C2, X, r)
    BY <1>3, <1>6, <1>7, <1>8, TidyMay
  <1>10. Tidy(S3, X, {}) /\ Tidy(C3, X, r)
    <2> DEFINE fs == {}
               ds == {"anchor"}
    <2>1. fs \in SUBSET (Flags \ {"attempted"}) /\ ds \in SUBSET Descriptors
      BY DEF Descriptors
    <2>2. \A v \in S3 : v \in S2 \/ \E u \in S2 : v = Set(u, fs) \/ v = Open(u, ds) \/ v = Set(Open(u, ds), fs)
      BY <1>4, <1>6
    <2>3. \A v \in C3 : v \in C2 \/ \E u \in C2 : v = Set(u, fs) \/ v = Open(u, ds) \/ v = Set(Open(u, ds), fs)
      BY <1>4, <1>6
    <2> HIDE DEF fs, ds
    <2>5. Tidy(C3, X, r)
      BY <1>9, <2>1, <2>3, TidyMarked
    <2> QED BY <1>9, <2>1, <2>2, TidyMarked, <2>5
  <1>11. Tidy(S4, X, {})
    BY <1>5, <1>6, <1>7, <1>10, TidyMay
  <1>12. Tidy(C4, X, r)
    <2> HIDE DEF C4
    <2> QED BY <1>7, <1>10, <1>5, <1>6, TidyMay
  <1>13. \A v \in S4 : ~Has(v, "err") => "rollback" \in v.open
    BY <1>12 DEF C4, Tidy, r
  <1>20. Missing("noreplace") = X /\ {"anchors", "noreplace"} \subseteq BodyLabels \cap BeforeReplace
    BY MissingSteps DEF X, BeforeSlot
  <1> QED BY <1>1, <1>20, <1>11, <1>13, NeatBody

\* The rollback slot.
LEMMA MakeSlotBacked ==
    ASSUME Held, Smooth, Backed, Held', Smooth', MakeSlot
    PROVE  Backed'
  <1> DEFINE S1 == Then(May(q), LAMBDA w : {Put(w, "slot", "slot")})
             S2 == Then(S1, May)
             S3 == Then(S2, LAMBDA w : {Set(w, {"slotNamed"})})
             S4 == Then(S3, May)
             S5 == Then(S4, LAMBDA w : {Open(w, {"slot"})})
             current(w) == {IF At(v, "slot") = "slot" THEN v ELSE Raise(v) : v \in Outside(w)}
             S6 == Then(S5, current)
             W == OwnNodes \ {"generation"}
             X == W \ {"slot"}
  <1>1. Body("slot", S6, "exchange") /\ pc = "slot"
    BY Zenon DEF MakeSlot, Body
  <1>2. \A v \in S1 : v \in May(q) \/ \E u \in May(q) : v = Put(u, "slot", "slot")
    BY DEF Then
  <1>3. \A v \in S2 : v \in S1 \/ \E u \in S1 : v \in May(u)
    BY DEF Then
  <1>4. \A v \in S3 : v \in S2 \/ \E u \in S2 : v = Set(u, {"slotNamed"})
    BY DEF Then
  <1>5. \A v \in S4 : v \in S3 \/ \E u \in S3 : v \in May(u)
    BY DEF Then
  <1>6. \A v \in S5 : v \in S4 \/ \E u \in S4 : v = Open(u, {"slot"})
    BY DEF Then
  <1>7. \A v \in S6 : v \in S5 \/ \E u \in S5 : \E t \in Outside(u) : v = t \/ v = Raise(t)
    BY DEF Then
  <1> HIDE DEF S1, S2, S3, S4, S5, S6
  <1>8. Tidy(May(q), W, q.open) /\ "rollback" \in q.open
    BY <1>1, NeatBegin, MissingSteps DEF BeforeReplace, BeforeSlot
  <1>9. Tidy(S1, X, q.open) /\ X \in SUBSET OwnNodes
    <2>1. "slot" \in W /\ Home("slot") = "slot" /\ W \in SUBSET OwnNodes
      BY DEF OwnNodes, Home
    <2> HIDE DEF W
    <2> QED BY <2>1, <1>2, <1>8, TidyMade
  <1> HIDE DEF X
  <1>10. Tidy(S2, X, q.open)
    BY <1>3, <1>9, TidyMay
  <1>11. Tidy(S3, X, q.open)
    <2> DEFINE fs == {"slotNamed"}
               ds == {}
    <2>1. fs \in SUBSET (Flags \ {"attempted"}) /\ ds \in SUBSET Descriptors
      BY DEF Flags
    <2>2. \A v \in S3 : v \in S2 \/ \E u \in S2 : v = Set(u, fs) \/ v = Open(u, ds) \/ v = Set(Open(u, ds), fs)
      BY <1>4
    <2> HIDE DEF fs, ds
    <2> QED BY <1>10, <2>1, <2>2, TidyMarked
  <1>12. Tidy(S4, X, q.open)
    BY <1>5, <1>9, <1>11, TidyMay
  <1>13. Tidy(S5, X, q.open)
    <2> DEFINE fs == {}
               ds == {"slot"}
    <2>1. fs \in SUBSET (Flags \ {"attempted"}) /\ ds \in SUBSET Descriptors
      BY DEF Descriptors
    <2>2. \A v \in S5 : v \in S4 \/ \E u \in S4 : v = Set(u, fs) \/ v = Open(u, ds) \/ v = Set(Open(u, ds), fs)
      BY <1>6
    <2> HIDE DEF fs, ds
    <2> QED BY <1>12, <2>1, <2>2, TidyMarked
  <1>14. Tidy(S6, X, q.open)
    BY <1>7, <1>9, <1>13, TidyMay
  <1> QED BY <1>1, MissingSteps, <1>14, <1>8, NeatBody DEF X, BeforeSlot

\* Both are kept, or the probe alone.
LEMMA KeptNeat ==
    ASSUME NEW w \in States, Neat(w, {}), NEW D, D \subseteq w.open,
           NEW a \in {"slot", "probe"}, NEW b \in {"slot", "probe"},
           NEW x \in {"slot", "probe"}, NEW y \in {"slot", "probe"}
    PROVE  Tidy(KeptBoth(w, a, x, b, y), {}, D) /\ Tidy(KeptProbe(w), {}, D)
  <1> DEFINE A == IsolateEmpty(w, a, x)
             P == IsolateEmpty(w, "probe", "probe")
             next(u) == IsolateEmpty(u, b, y)
  <1>1. Tidy(A, {}, D) /\ Tidy(P, {}, D)
    BY NeatEmpty DEF Tidy
  <1>2. /\ \A v \in KeptBoth(w, a, x, b, y) : v \in A \/ \E u \in A : v \in next(u)
        /\ \A v \in KeptProbe(w) : v \in P \/ \E u \in P : v \in May(u)
    BY DEF KeptBoth, KeptProbe, Then
  <1> HIDE DEF A, P
  <1>3. Tidy(KeptBoth(w, a, x, b, y), {}, D)
    <2>1. ASSUME NEW u \in A, NEW v \in next(u) PROVE v \in States /\ Neat(v, {}) /\ v.open = u.open
      BY <1>1, <2>1, NeatEmpty DEF Tidy
    <2> HIDE DEF next
    <2> QED BY <1>1, <1>2, <2>1 DEF Tidy
  <1> QED BY <1>3, <1>1, <1>2, TidyMay

\* The probe of the exchange.
LEMMA ProbeExchangeBacked ==
    ASSUME Held, Smooth, Backed, Held', Smooth', ProbeExchange
    PROVE  Backed'
  <1> DEFINE swap(w) == Exchange(w, "slot", "probe")
             back(w) == IF At(w, "slot") = "probe" THEN swap(w) ELSE {Raise(w)}
             failing(w, S) == IF Has(w, "err") THEN {Raise(v) : v \in S} ELSE S
             clean(w) ==
               LET v == Clear(w, {"err"})
               IN  CASE At(w, "slot") = "slot" /\ At(w, "probe") = "probe" ->
                          failing(w, IF Has(w, "err") THEN KeptBoth(v, "slot", "slot", "probe", "probe")
                                     ELSE KeptProbe(v))
                     [] At(w, "slot") = "probe" /\ At(w, "probe") = "slot" ->
                          failing(w, KeptBoth(v, "slot", "probe", "probe", "slot"))
                     [] OTHER -> {Raise(w)}
             swapped(w) == UNION {swap(u) : u \in Outside(w)}
             probed(w) == Then(swapped(w), back)
             cleaned(w) == UNION {clean(v) : v \in probed(w)}
             S1 == Then(May(q), LAMBDA w : {Put(w, "probe", "probe")})
             S2 == Then(S1, May)
             S3 == Then(S2, cleaned)
             D == q.open
  <1>1. Body("exchange", S3, "replace") /\ pc = "exchange"
    BY Zenon DEF ProbeExchange, KeptBoth, KeptProbe, Body
  <1>2. \A v \in S1 : v \in May(q) \/ \E u \in May(q) : v = Put(u, "probe", "probe")
    BY DEF Then
  <1>3. \A v \in S2 : v \in S1 \/ \E u \in S1 : v \in May(u)
    BY DEF Then
  <1>4. \A v \in S3 : v \in S2 \/ \E u \in S2 : v \in cleaned(u)
    BY DEF Then
  <1> HIDE DEF S1, S2, S3, D
  <1>5. ASSUME NEW S, Tidy(S, {}, D) PROVE Tidy({Raise(v) : v \in S}, {}, D)
    BY <1>5, NeatMay, RaiseRaises DEF Tidy
  <1>6. ASSUME NEW w \in States, Neat(w, {}), D \subseteq w.open
        PROVE  Tidy(swap(w), {}, D) /\ Tidy(back(w), {}, D)
    <2>1. Tidy(swap(w), {}, D)
      BY <1>6, NeatExchange DEF Tidy
    <2>2. Tidy({w}, {}, D)
      BY <1>6 DEF Tidy
    <2> HIDE DEF swap
    <2> QED BY <2>1, <1>6, NeatMay, RaiseRaises DEF Tidy
  <1>7. ASSUME NEW w \in States, Neat(w, {}), D \subseteq w.open PROVE Tidy(swapped(w), {}, D)
    <2> HIDE DEF swap
    <2> QED BY <1>6, <1>7, NeatOutside, OutsideExact DEF Tidy
  <1>8. ASSUME NEW w \in States, Neat(w, {}), D \subseteq w.open PROVE Tidy(probed(w), {}, D)
    <2>1. \A v \in probed(w) : v \in swapped(w) \/ \E u \in swapped(w) : v \in back(u)
      BY DEF Then
    <2> HIDE DEF probed, swapped, back
    <2> QED BY <1>6, <1>7, <1>8, <2>1 DEF Tidy
  <1>9. ASSUME NEW w \in States, Neat(w, {}), D \subseteq w.open PROVE Tidy(clean(w), {}, D)
    <2> DEFINE c == Clear(w, {"err"})
    <2>1. c \in States /\ Neat(c, {}) /\ D \subseteq c.open
      <3>2. /\ c \in States /\ c.set = w.set \ {"err"} /\ c.open = w.open /\ c.where = w.where
            /\ c.edits = w.edits /\ c.faults = w.faults
        BY Flagged, FlaggedExact DEF Flags
      <3> HIDE DEF c
      <3> QED BY <1>9, <3>2, NeatStill DEF States
    <2> HIDE DEF c
    <2>3. Tidy({Raise(w)}, {}, D)
      BY <1>9, NeatMay, RaiseRaises DEF Tidy
    <2>4. ASSUME NEW S, Tidy(S, {}, D) PROVE Tidy(failing(w, S), {}, D)
      BY <1>5, <2>4
    <2> HIDE DEF failing
    <2> QED BY <2>1, KeptNeat, <2>3, <2>4 DEF c
  <1>10. ASSUME NEW w \in States, Neat(w, {}), D \subseteq w.open PROVE Tidy(cleaned(w), {}, D)
    <2> HIDE DEF probed, clean
    <2> QED BY <1>8, <1>9, <1>10 DEF Tidy
  <1> HIDE DEF cleaned
  <1>11. Tidy(May(q), {"probe"}, D) /\ "rollback" \in D /\ {"probe"} \in SUBSET OwnNodes
    BY <1>1, NeatBegin, MissingSteps DEF BeforeReplace, D, OwnNodes
  <1>12. Tidy(S1, {}, D) /\ {} \in SUBSET OwnNodes
    BY <1>2, <1>11, TidyMade DEF Home
  <1>13. Tidy(S2, {}, D)
    BY <1>3, <1>12, TidyMay
  <1>14. Tidy(S3, {}, D)
    BY <1>4, <1>10, <1>13 DEF Tidy
  <1> QED BY <1>1, <1>11, MissingSteps, <1>14, NeatBody

\* The arguments.
LEMMA ValidateBacked ==
    ASSUME Held, Smooth, Backed, Held', Smooth', Validate
    PROVE  Backed'
  <1>1. pc = "validate" /\ first = "none" /\ outcome = "running"
    BY DEF Validate, Smooth
  <1>2. PICK v \in May(q) :
          /\ q' = Clear(v, {"err"})
          /\ IF Has(v, "err")
             THEN pc' = "done" /\ outcome' = "raised" /\ first' = "validate"
             ELSE pc' = "pin" /\ UNCHANGED <<outcome, first>>
    BY DEF Validate
  <1>3. v \in States /\ Neat(v, OwnNodes)
    BY <1>1, NeatMay DEF Backed, BeforeReplace, BeforePending, Missing, OwnNodes, Held
  <1>4. q' \in States /\ Neat(q, OwnNodes)'
    <2> DEFINE c == Clear(v, {"err"})
    <2>2. /\ c \in States /\ c.set = v.set \ {"err"} /\ c.where = v.where
          /\ c.edits = v.edits /\ c.faults = v.faults
      BY <1>3, Flagged, FlaggedExact DEF Flags
    <2> HIDE DEF c
    <2> QED BY <1>2, <2>2, <1>3, NeatStill DEF c, States
  <1>5. /\ Unique(q)' /\ Tame(q)' /\ ~Shown(q)' /\ "attempted" \notin q'.set
    BY <1>4, Own DEF Neat, Vacant, Shown
  <1>7. pc' \in {"done", "pin"} /\ (pc' = "done" => first' # "none")
        /\ (pc' = "pin" => outcome' = "running" /\ first' = "none")
    BY <1>1, <1>2
  <1>9. Supplied' /\ (pc' \in BeforeReplace => Neat(q, Missing(pc))')
    <2>3. pc' = "done" => pc' \notin BeforeReplace
      BY DEF BeforeReplace, BeforePending, BeforeSlot
    <2> QED BY <1>4, <1>5, <1>7, MissingSteps, <2>3 DEF Supplied, BeforeFinalize, BeforeRetire
  <1> QED BY <1>5, <1>7, <1>9 DEF Backed, Afloat, Sunk, Smooth, BodyLabels, Told

\* What publishes nothing leaves a generation that is shown one that can be undone.
LEMMA AfloatOn ==
    ASSUME NEW w, NEW v, Unique(w), Afloat(w), Level(w, v), Firm(w, v),
           "stated" \in w.set => "stated" \in v.set
    PROVE  Afloat(v) /\ Unique(v)
  <1>1. Unique(v) /\ w.edits \in Nat /\ v.edits \in Nat /\ v.edits >= w.edits
    BY DEF Level, States
  <1>2. ASSUME Shown(v)
        PROVE  /\ {"attempted", "stated"} \subseteq v.set /\ "resolved" \notin v.set
               /\ v.edits = 0 => Rigged(v)
    BY <1>2, <1>1 DEF Level, Afloat, Rigged, Firm
  <1> QED BY <1>1, <1>2 DEF Afloat

\* The first states of the call after the rename.
LEMMA Landed ==
    ASSUME Unique(q)', Tame(q)', Afloat(q)', pc' \in {"commit", "housekeeping"}, outcome' = "running",
           first' = "none" => ~Doomed' /\ "rollback" \in q'.open,
           "attempted" \in q'.set =>
             /\ first' # "none" => q'.edits + q'.faults >= 1
             /\ {"anchor", "identity"} \subseteq q'.open,
           Sunk'
    PROVE  Backed'
  BY DEF BeforeFinalize, BeforeReplace, BeforePending, BeforeSlot, BeforeRetire, Told, Supplied,
     Backed

\* The rename that publishes.
LEMMA RenamedBorne ==
    ASSUME NEW t, Fair(t, "replace"), Neat(t, {}), "stated" \in t.set, {"anchor", "rollback"} \subseteq t.open,
           NEW u \in Rename(Set(t, {"attempted", "required"}), "pending", "normal")
    PROVE  Borne(u) /\ Counted(u)
  <1> DEFINE y == Set(t, {"attempted", "required"})
             x == At(y, "pending")
  <1>1. /\ t \in States /\ ~Has(t, "err") /\ "resolved" \notin t.set /\ "identity" \in t.open
        /\ Unique(t) /\ Tame(t) /\ (\A z \in Nodes : t.where[z] # "normal")
        /\ (t.edits = 0 => t.where["generation"] = "pending" /\ t.where["slot"] = "slot")
    BY DEF Fair, Noted, Course, Lay, Placed, Neat, Vacant, Has
  <1>2. /\ y \in States /\ y.set = t.set \cup {"attempted", "required"} /\ y.open = t.open
        /\ y.where = t.where /\ y.edits = t.edits /\ y.faults = t.faults
    BY <1>1, Flagged, FlaggedExact DEF Flags
  <1> HIDE DEF y
  <1>3. "pending" \in Places /\ "normal" \in Places
    BY DEF Places, Names
  <1>4. u \in Rename(y, "pending", "normal")
    BY DEF y
  <1>5. /\ u \in States /\ u.open = y.open /\ u.set \ {"err"} = y.set \ {"err"}
        /\ u.edits = y.edits /\ u.faults \in {y.faults, y.faults + 1}
        /\ \/ u.where = y.where
           \/ At(y, "pending") \in Nodes /\ u.where = [y.where EXCEPT ![At(y, "pending")] = "normal"]
        /\ ~Has(u, "err") => At(y, "pending") \in Nodes /\ u = Put(y, At(y, "pending"), "normal")
        /\ Has(u, "err") /\ At(y, "pending") # "none" => Has(y, "err") \/ u.faults = y.faults + 1
        /\ At(y, "pending") # "none" =>
             \/ u = Put(y, At(y, "pending"), "normal")
             \/ Has(u, "err") /\ u.faults = y.faults + 1
    BY ONLY <1>2, <1>3, <1>4, RenameExact
  <1>6. y.where \in [Nodes -> Places] /\ y.faults \in Nat /\ y.edits \in Nat
    BY <1>2 DEF States
  <1>8. /\ Unique(u) /\ Tame(u)
        /\ u.edits = 0 => u.where["slot"] = "slot"
    <2>1. CASE u.where = y.where
      BY <1>1, <1>2, <1>5, <1>6, <2>1 DEF Unique, Tame
    <2>2. CASE x \in Nodes /\ u.where = [y.where EXCEPT ![x] = "normal"]
      <3>1. y.where[x] = "pending"
        BY <2>2, AtHolds
      <3> HIDE DEF x
      <3>2. \A z \in Nodes : u.where[z] = IF z = x THEN "normal" ELSE y.where[z]
        BY <1>6, <2>2
      <3>4. Tame(u)
        BY <1>1, <1>2, <1>5, <1>6, <3>1, <3>2, Own DEF Tame, Names
      <3> QED BY <1>1, <1>2, <3>1, <3>2, <3>4, <1>5, Own DEF Unique
    <2> QED BY <1>5, <2>1, <2>2
  <1>10. Counted(u)
    <2> SUFFICES ASSUME Has(u, "err") PROVE u.edits + u.faults >= 1
      BY DEF Counted
    <2>1. u.edits \in Nat /\ u.faults \in Nat
      BY <1>5 DEF States
    <2>2. CASE u.edits = 0
      BY <1>1, <1>2, <1>5, <2>2, Own, AtHolds, <1>6, <2>1 DEF Has
    <2> QED BY <2>1, <2>2
  <1> QED BY <1>1, <1>2, <1>5, <1>8, <1>10 DEF Borne, Afloat, Rigged

\* A check after it.
LEMMA BorneMay ==
    ASSUME NEW w, Borne(w), Counted(w), NEW v \in May(w)
    PROVE  Borne(v) /\ Counted(v)
  <1>1. CASE v = w
    BY <1>1
  <1>2. CASE \E t \in Faults(w) : v = Raise(t)
    <2>1. PICK t \in Faults(w) : v = Raise(t)
      BY <1>2
    <2>2. /\ t \in States /\ t.where = w.where /\ t.open = w.open /\ t.set = w.set
          /\ t.edits = w.edits /\ t.faults = w.faults + 1 /\ w.faults \in Nat /\ w.edits \in Nat
      BY FaultsExact DEF Borne, States
    <2>3. /\ v \in States /\ v.where = w.where /\ v.open = w.open /\ v.set = w.set \cup {"err"}
          /\ v.edits = w.edits /\ v.faults = w.faults + 1
      BY <2>1, <2>2, Flagged, FlaggedExact DEF Flags, Raise
    <2> QED BY <2>2, <2>3 DEF Borne, Counted, Unique, Tame, Afloat, Shown, Rigged
  <1> QED BY <1>1, <1>2 DEF May

\* The rollback that follows a failure after it.
LEMMA UndoneBorne ==
    ASSUME NEW w, Borne(w), Counted(w), Has(w, "err"),
           NEW r \in RollbackAttempted(Set(Clear(w, {"err"}), {"required"}), "generations")
    PROVE  /\ Borne(r) /\ r.edits + r.faults >= 1
           /\ Shown(r) => "required" \in r.set
  <1> DEFINE c == Clear(w, {"err"})
             s == Set(c, {"required"})
  <1>0. w \in States /\ {"err"} \in SUBSET Flags /\ {"required"} \in SUBSET Flags
    BY DEF Borne, Flags
  <1>1. /\ c \in States /\ c.where = w.where /\ c.open = w.open /\ c.set = w.set \ {"err"}
        /\ c.edits = w.edits /\ c.faults = w.faults
    BY <1>0, Flagged, FlaggedExact
  <1> HIDE DEF c
  <1>2. /\ s \in States /\ s.where = c.where /\ s.open = c.open /\ s.set = c.set \cup {"required"}
        /\ s.edits = c.edits /\ s.faults = c.faults
    BY <1>0, <1>1, Flagged, FlaggedExact
  <1>3. r \in RollbackAttempted(s, "generations")
    BY DEF c
  <1> HIDE DEF s
  <1>5. /\ Unique(s) /\ Tame(s) /\ Afloat(s) /\ {"attempted", "stated", "required"} \subseteq s.set
        /\ {"anchor", "identity", "rollback"} \subseteq s.open /\ s.edits + s.faults >= 1
    BY <1>1, <1>2 DEF Borne, Counted, Unique, Tame, Afloat, Shown, Rigged
  <1>6. /\ r \in States /\ r.open = s.open /\ Level(s, r) /\ Firm(s, r)
        /\ "stated" \in r.set /\ "attempted" \in r.set
    BY <1>2, <1>3, RollbackAttemptedSame, <1>5 DEF Same, Level, Volatile, Stay
  <1>7. /\ s.faults \in Nat /\ s.edits \in Nat /\ r.faults \in Nat /\ r.edits \in Nat
        /\ r.faults >= s.faults /\ r.edits >= s.edits
    BY <1>2, <1>6 DEF States, Level
  <1>8. r.edits + r.faults >= 1
    BY <1>5, <1>7
  <1>10. Tame(r)
    BY <1>5, <1>6, <1>7 DEF Level, Tame
  <1> QED BY <1>5, <1>6, <1>8, AfloatOn, <1>10 DEF Borne, Level

\* The publication itself.
LEMMA ReplaceBacked ==
    ASSUME Held, Smooth, Backed, Held', Smooth', Replace
    PROVE  Backed'
  <1> DEFINE stated == Then(May(q), LAMBDA w : May(Set(w, {"stated"})))
             ready(w) == Set(w, {"attempted", "required"})
             renamed(w) == UNION {Rename(ready(v), "pending", "normal") : v \in Outside(w)}
             confirmed(w) == May(w)
             undone(w) == {Raise(v) : v \in RollbackAttempted(Set(w, {"required"}), "generations")}
             done(w) == Then(renamed(w), confirmed)
             kept(w) == Except(done(w), undone)
             S == UNION {IF Has(w, "err") THEN {w} ELSE kept(w) : w \in stated}
             a == Set(q, {"stated"})
  <1>1. Body("replace", S, "commit") /\ pc = "replace"
    BY Zenon DEF Replace, Body
  <1>2. \A v \in stated : (v \in May(q) /\ Has(v, "err"))
                          \/ \E u \in May(q) : ~Has(u, "err") /\ v \in May(Set(u, {"stated"}))
    BY DEF Then
  <1>3. \A v \in S : (v \in stated /\ Has(v, "err")) \/ \E u \in stated : ~Has(u, "err") /\ v \in kept(u)
    BY Zenon
  <1>4. \A v \in kept(a) : \E u \in done(a) :
           \/ Has(u, "err") /\ \E x \in RollbackAttempted(Set(Clear(u, {"err"}), {"required"}), "generations") :
                                  v = Raise(x)
           \/ ~Has(u, "err") /\ v = u
    BY DEF Except
  <1>5. \A v \in done(a) : (v \in renamed(a) /\ Has(v, "err"))
                           \/ \E u \in renamed(a) : ~Has(u, "err") /\ v \in May(u)
    BY DEF Then
  <1>6. \A v \in renamed(a) : \E t \in Outside(a) :
                                 v \in Rename(Set(t, {"attempted", "required"}), "pending", "normal")
    OBVIOUS
  <1> HIDE DEF S, stated, kept, done, renamed
  <1>7. Fair(q, "replace") /\ q \in States /\ ~Has(q, "err") /\ "anchor" \in q.open
    BY <1>1, BodyFair DEF Held, Anchored
  <1>8. Tidy({q}, {}, q.open) /\ Tidy(May(q), {}, q.open) /\ "rollback" \in q.open
    BY <1>1, NeatBegin, MissingSteps DEF BeforeReplace
  <1>9. Fair(a, "replace") /\ a.set = q.set \cup {"stated"} /\ a.open = q.open
    BY <1>7, Marking DEF Descriptors
  <1>10. Tidy({a}, {}, q.open) /\ \A v \in stated : v \in States /\ Neat(v, {})
    <2> DEFINE M == {Set(u, {"stated"}) : u \in May(q)}
               fs == {"stated"}
               ds == {}
    <2>1. fs \in SUBSET (Flags \ {"attempted"}) /\ ds \in SUBSET Descriptors
      BY DEF Flags
    <2>2. /\ \A v \in M : v \in May(q) \/ \E u \in May(q) : v = Set(u, fs) \/ v = Open(u, ds) \/ v = Set(Open(u, ds), fs)
          /\ \A v \in {a} : v \in {q} \/ \E u \in {q} : v = Set(u, fs) \/ v = Open(u, ds) \/ v = Set(Open(u, ds), fs)
      OBVIOUS
    <2>3. \A v \in stated : v \in M \/ v \in May(q) \/ \E u \in M : v \in May(u)
      BY <1>2
    <2> HIDE DEF M, fs, ds, a
    <2>4. Tidy(M, {}, q.open)
      BY <1>8, <2>1, <2>2, TidyMarked
    <2>5. Tidy({a}, {}, q.open)
      BY <1>8, <2>1, <2>2, TidyMarked
    <2> QED BY <1>8, <2>3, <2>4, <2>5, NeatMay DEF Tidy
  <1>11. a \in States /\ ~Has(a, "err") /\ Neat(a, {})
    BY <1>9, <1>10 DEF Fair, Has, Tidy
  <1> HIDE DEF a
  <1>12. ASSUME NEW w \in stated, ~Has(w, "err") PROVE w = a
    <2>1. PICK u \in May(q) : ~Has(u, "err") /\ w \in May(Set(u, {"stated"}))
      BY <1>2, <1>12
    <2> QED BY <1>11, <1>12, <1>7, <2>1, MayClean DEF a
  <1>13. ASSUME NEW u \in renamed(a) PROVE Borne(u) /\ Counted(u)
    <2>1. PICK t \in Outside(a) : u \in Rename(Set(t, {"attempted", "required"}), "pending", "normal")
      BY <1>6
    <2>2. Fair(t, "replace")
      BY <1>9, OutsideFair DEF AfterRetire, BeforeRetire
    <2> QED BY <1>7, <1>8, <1>9, <2>1, <2>2, <1>11, NeatOutside, OutsideExact, RenamedBorne
  <1>14. ASSUME NEW u \in done(a) PROVE Borne(u) /\ Counted(u)
    BY <1>5, <1>13, BorneMay
  <1>15. PICK u \in {IF Has(w, "err") THEN Set(w, {"exitFailed"}) ELSE w : w \in S} :
              /\ q' = Clear(u, {"err"})
              /\ pc' = IF Has(u, "err") THEN "housekeeping" ELSE "commit"
              /\ first' = IF first = "none" /\ (Has(u, "err") \/ Failed(u)) THEN pc ELSE first
    BY <1>1 DEF Body, Step
  <1>16. PICK v \in S : u = IF Has(v, "err") THEN Set(v, {"exitFailed"}) ELSE v
    BY <1>15
  <1>17. first = "none" /\ outcome' = "running"
    BY <1>1 DEF Smooth, Body, Step
  <1>18. ASSUME NEW x \in States, v = Raise(x)
         PROVE  /\ q'.where = x.where /\ q'.open = x.open /\ q'.edits = x.edits /\ q'.faults = x.faults
                /\ q'.set = (x.set \cup {"exitFailed"}) \ {"err"}
                /\ pc' = "housekeeping" /\ first' = "replace"
    <2>1. v = Set(x, {"err"}) /\ {"err"} \in SUBSET Flags /\ {"exitFailed"} \in SUBSET Flags
      BY <1>18 DEF Raise, Flags
    <2>2. /\ v \in States /\ v.where = x.where /\ v.open = x.open /\ v.set = x.set \cup {"err"}
          /\ v.edits = x.edits /\ v.faults = x.faults
      BY <2>1, Flagged, FlaggedExact
    <2> QED BY <1>1, <1>15, <1>17, <2>2, <2>1, <1>16, Flagged, FlaggedExact DEF Has
  <1>19. CASE v \in stated /\ Has(v, "err")
    <2>1. v \in States /\ Neat(v, {})
      BY <1>10, <1>19
    <2>3. /\ q'.where = v.where /\ q'.edits = v.edits /\ q'.faults = v.faults
          /\ q'.set = (v.set \cup {"exitFailed"}) \ {"err"}
          /\ pc' = "housekeeping" /\ first' = "replace"
      BY <1>18, <2>1, <1>19 DEF Raise, Set, Has, States
    <2>4. Unique(q)' /\ Tame(q)' /\ ~Shown(q)' /\ "attempted" \notin q'.set
      BY <2>1, <2>3, Own DEF Neat, Vacant, Unique, Tame, Shown
    <2> QED BY <1>17, <2>3, <2>4, Landed DEF Afloat, Sunk
  <1>20. CASE v \in kept(a)
    <2>1. PICK y \in done(a) :
              \/ Has(y, "err") /\ \E x \in RollbackAttempted(Set(Clear(y, {"err"}), {"required"}), "generations") :
                                    v = Raise(x)
              \/ ~Has(y, "err") /\ v = y
      BY <1>4, <1>20
    <2>2. Borne(y) /\ Counted(y)
      BY <1>14
    <2>3. CASE Has(y, "err")
      <3>1. PICK x \in RollbackAttempted(Set(Clear(y, {"err"}), {"required"}), "generations") : v = Raise(x)
        BY <2>1, <2>3
      <3>2. Borne(x) /\ x.edits + x.faults >= 1 /\ (Shown(x) => "required" \in x.set)
        BY <2>2, <2>3, UndoneBorne
      <3>3. /\ q'.where = x.where /\ q'.open = x.open /\ q'.edits = x.edits /\ q'.faults = x.faults
            /\ q'.set = (x.set \cup {"exitFailed"}) \ {"err"}
            /\ pc' = "housekeeping" /\ first' = "replace"
        BY <1>18, <3>1, <3>2 DEF Borne
      <3>4. Unique(q)' /\ Tame(q)' /\ Afloat(q)' /\ {"anchor", "identity"} \subseteq q'.open
        BY <3>2, <3>3 DEF Borne, Unique, Tame, Afloat, Shown, Rigged
      <3> QED BY <1>17, <3>2, <3>3, <3>4, Landed DEF Sunk, BeforeFinalize, Shown, Pressing
    <2>4. CASE ~Has(y, "err")
      <3>1. v = y /\ u = v /\ v \in States /\ ~Has(v, "err")
        BY <1>16, <2>1, <2>2, <2>4 DEF Borne
      <3>2. q' = v /\ pc' = "commit"
        BY <1>15, <3>1, ClearNothing
      <3>3. ~Doomed' /\ first' = "none"
        BY <3>2 DEF Smooth, BodyLabels
      <3> QED BY <1>17, <3>2, <3>3, <2>2, <3>1, Landed DEF Borne, Sunk
    <2> QED BY <2>3, <2>4
  <1> QED BY <1>3, <1>12, <1>16, <1>19, <1>20

\* What pinning the output binding does.
LEMMA PinExact ==
    ASSUME NEW w \in States, ~Has(w, "err"), NEW v \in PinOutputBinding(w)
    PROVE  /\ v \in States /\ Level(w, v) /\ Firm(w, v) /\ Gentle(w, v)
           /\ v.set \ {"err"} = w.set \ {"err"} /\ w.open \subseteq v.open
           /\ Has(v, "err") /\ v.faults = w.faults /\ v.edits = w.edits => At(w, "normal") # "generation"
  <1> DEFINE current(x) == {IF At(u, "normal") = "generation" THEN u ELSE Raise(u) : u \in Outside(x)}
             S1 == Then(May(w), current)
             S2 == Then(S1, LAMBDA x : May(Open(x, {"binding"})))
             Fine(x) == /\ x \in States /\ Same(w, x) /\ Gentle(w, x)
                        /\ x.set \ {"err"} = w.set \ {"err"}
                        /\ Has(x, "err") => x.faults > w.faults \/ x.edits > w.edits \/ At(w, "normal") # "generation"
  <1>2. \A x \in S1 : (x \in May(w) /\ Has(x, "err")) \/ \E u \in May(w) : ~Has(u, "err") /\ x \in current(u)
    BY DEF Then
  <1>3. (v \in S1 /\ Has(v, "err")) \/ \E u \in S1 : ~Has(u, "err") /\ v \in May(Open(u, {"binding"}))
    BY DEF Then, PinOutputBinding
  <1> HIDE DEF S1, S2
  <1>4. w.faults \in Nat /\ w.edits \in Nat /\ {"err"} \in SUBSET Flags
    BY DEF States, Flags
  <1>5. ASSUME NEW t \in States, NEW x \in May(t)
        PROVE  /\ x \in States /\ Same(t, x) /\ Gentle(t, x) /\ x.set \ {"err"} = t.set \ {"err"}
               /\ x.open = t.open /\ (Has(x, "err") => Has(t, "err") \/ x.faults > t.faults)
    <2>1. Same(t, x) /\ Gentle(t, x) /\ x \in States /\ x.open = t.open
      BY FaultsSame DEF Stay, Same
    <2>2. CASE x = t
      BY <2>1, <2>2
    <2>3. CASE \E f \in Faults(t) : x = Raise(f)
      <3>1. PICK f \in Faults(t) : x = Raise(f)
        BY <2>3
      <3>3. x = Set(f, {"err"})
        BY <3>1 DEF Raise
      <3> QED BY <2>1, FaultsExact, <1>4, <3>3, Flagged, FlaggedExact DEF States
    <2> QED BY <2>2, <2>3 DEF May
  <1>6. ASSUME NEW x \in S1 PROVE Fine(x)
    <2>1. CASE x \in May(w)
      BY <1>5, <2>1
    <2>2. CASE \E u \in May(w) : ~Has(u, "err") /\ x \in current(u)
      <3>2. PICK t \in Outside(w) : x = IF At(t, "normal") = "generation" THEN t ELSE Raise(t)
        BY <2>2, MayClean
      <3>3. t \in States /\ Same(w, t) /\ Gentle(w, t) /\ t.set = w.set
        BY OutsideSame, OutsideExact DEF Stay
      <3>4. x = t \/ x = Raise(t)
        BY <3>2
      <3>6. Raise(t).set = t.set \cup {"err"}
        BY <1>4, <3>3, Flagged DEF Raise
      <3>8. ASSUME Has(x, "err") PROVE x.edits > w.edits \/ At(w, "normal") # "generation"
        BY <3>2, <3>8, <3>3, <3>4, RaiseRaises, OutsideQuiet
      <3> QED BY <3>3, <3>4, RaiseSame, RaiseRaises, <3>6, Trans, <3>8 DEF Gentle
    <2> QED BY <1>2, <2>1, <2>2
  <1> HIDE DEF current
  <1>7. CASE v \in S1
    BY <1>4, <1>6, <1>7 DEF Same
  <1>8. CASE \E u \in S1 : ~Has(u, "err") /\ v \in May(Open(u, {"binding"}))
    <2>1. PICK u \in S1 : ~Has(u, "err") /\ v \in May(Open(u, {"binding"}))
      BY <1>8
    <2> DEFINE o == Open(u, {"binding"})
    <2>2. Fine(u)
      BY <1>6
    <2>3. /\ o \in States /\ o.where = u.where /\ o.open = u.open \cup {"binding"} /\ o.set = u.set
          /\ o.faults = u.faults /\ o.edits = u.edits
      BY <2>2 DEF Open, States, Descriptors
    <2>4. v \in May(o)
      BY <2>1
    <2> HIDE DEF o, Fine
    <2>5. Level(u, o) /\ Firm(u, o) /\ Gentle(u, o) /\ u \in States
      BY <2>2, <2>3, LevelStill DEF Fine, States
    <2>6. /\ v \in States /\ Same(o, v) /\ Gentle(o, v) /\ v.set \ {"err"} = o.set \ {"err"}
          /\ v.open = o.open /\ (Has(v, "err") => Has(o, "err") \/ v.faults > o.faults)
      BY <1>5, <2>3, <2>4
    <2>7. Level(w, u) /\ Firm(w, u) /\ Gentle(w, u) /\ u.open = w.open /\ u.set \ {"err"} = w.set \ {"err"}
      BY <2>2 DEF Fine, Same
    <2>9. Has(v, "err") => v.faults > w.faults
      BY <2>1, <2>3, <2>5, <2>6, <2>7, <1>4 DEF Has, Level, States
    <2> QED BY <1>4, <2>3, <2>6, <2>7, <2>5, LevelTrans, <2>9 DEF Same, Gentle
  <1> QED BY <1>3, <1>7, <1>8

\* The commit.
LEMMA CommitBacked ==
    ASSUME Held, Smooth, Backed, Held', Smooth', Commit
    PROVE  Backed'
  <1> DEFINE c == Set(q, {"committed"})
             w == Clear(c, {"required"})
             S == IF Has(w, "retain") THEN PinOutputBinding(w) ELSE {w}
  <1>1. Body("commit", S, "housekeeping") /\ pc = "commit"
    BY Zenon DEF Commit, Body
  <1>2. Fair(q, "commit") /\ q \in States /\ first = "none" /\ outcome' = "running"
    BY <1>1, BodyFair DEF Smooth, Body, Step
  <1>3. /\ w \in States /\ w.set = (q.set \cup {"committed"}) \ {"required"} /\ w.open = q.open
        /\ w.where = q.where /\ w.edits = q.edits /\ w.faults = q.faults
    <2>1. /\ c \in States /\ c.set = q.set \cup {"committed"} /\ c.open = q.open /\ c.where = q.where
          /\ c.edits = q.edits /\ c.faults = q.faults
      BY <1>2, Flagged, FlaggedExact DEF Flags
    <2> HIDE DEF c
    <2> QED BY <2>1, Flagged, FlaggedExact DEF Flags
  <1> HIDE DEF w
  <1>4. PICK u \in {IF Has(x, "err") THEN Set(x, {"exitFailed"}) ELSE x : x \in S} :
              /\ q' = Clear(u, {"err"}) /\ pc' = "housekeeping"
              /\ first' = IF first = "none" /\ (Has(u, "err") \/ Failed(u)) THEN pc ELSE first
    BY <1>1 DEF Body, Step
  <1>5. PICK v \in S : u = IF Has(v, "err") THEN Set(v, {"exitFailed"}) ELSE v
    BY <1>4
  <1>6. /\ Unique(q) /\ Tame(q) /\ Afloat(q) /\ {"anchor", "identity", "rollback"} \subseteq q.open
        /\ ~Has(w, "err") /\ "attempted" \in q.set
    <2>1. "attempted" \in q.set /\ "err" \notin w.set
      BY <1>2, <1>3 DEF Fair, Noted, BeforeReplace, BeforePending, BeforeSlot
    <2> QED BY <1>1, <1>2, <2>1 DEF Backed, Supplied, BeforeFinalize, Has
  <1>7. Unique(w) /\ Tame(w) /\ Afloat(w)
    BY <1>3, <1>6 DEF Unique, Tame, Afloat, Shown, Rigged
  <1>8. /\ v \in States /\ Level(w, v) /\ Firm(w, v) /\ Gentle(w, v)
        /\ v.set \ {"err"} = w.set \ {"err"} /\ w.open \subseteq v.open
        /\ Has(v, "err") /\ v.faults = w.faults /\ v.edits = w.edits => At(w, "normal") # "generation"
    BY <1>3, <1>6, LevelStill, PinExact DEF States
  <1>9. Unique(v) /\ Tame(v) /\ Afloat(v)
    BY <1>8, <1>7, AfloatOn DEF Gentle
  <1>10. /\ q'.where = v.where /\ q'.open = v.open /\ q'.edits = v.edits /\ q'.faults = v.faults
         /\ q'.set = (IF Has(v, "err") THEN v.set \cup {"exitFailed"} ELSE v.set) \ {"err"}
         /\ (Has(u, "err") <=> Has(v, "err")) /\ u.set \ {"exitFailed"} = v.set \ {"exitFailed"}
    <2>1. {"err"} \in SUBSET Flags /\ {"exitFailed"} \in SUBSET Flags
      BY DEF Flags
    <2> DEFINE e == Set(v, {"exitFailed"})
    <2>2. /\ e \in States /\ e.where = v.where /\ e.open = v.open /\ e.set = v.set \cup {"exitFailed"}
          /\ e.edits = v.edits /\ e.faults = v.faults
      BY <1>8, <2>1, Flagged, FlaggedExact
    <2> HIDE DEF e
    <2>3. u = IF Has(v, "err") THEN e ELSE v
      BY <1>5 DEF e
    <2> QED BY <1>8, <2>2, <2>3, <1>4, <2>1, Flagged, FlaggedExact DEF Has
  <1>11. Unique(q)' /\ Tame(q)' /\ Afloat(q)'
    BY <1>9, <1>10 DEF Unique, Tame, Afloat, Shown, Rigged
  <1>12. w.set \cap {"exitFailed", "releaseFailed", "rollbackFailed"} = {}
    BY <1>2, <1>3 DEF Fair, Noted
  <1>13. ~Has(v, "err") => first' = "none" /\ ~Doomed'
    BY <1>5, <1>8, <1>10, <1>12, <1>2, <1>4 DEF Failed, Has, Doomed
  <1>14. Has(v, "err") => first' = "commit" /\ q'.edits + q'.faults >= 1
    <2> SUFFICES ASSUME Has(v, "err") PROVE first' = "commit" /\ q'.edits + q'.faults >= 1
      OBVIOUS
    <2>2. /\ w.faults \in Nat /\ w.edits \in Nat /\ v.faults \in Nat /\ v.edits \in Nat
          /\ v.faults >= w.faults /\ v.edits >= w.edits
      BY <1>3, <1>8 DEF States, Level
    <2>3. ASSUME v.edits = 0, v.faults = 0 PROVE FALSE
      <3>1. w.edits = 0 /\ w.faults = 0
        BY <2>2, <2>3
      <3>2. w.where["generation"] = "normal" /\ "generation" \in Nodes /\ "normal" \in Names
        BY <1>2, <1>3, <3>1, Own DEF Fair, Course, Lay, Placed, BeforeFinalize, Names
      <3> QED BY <1>8, <2>3, <3>1, <1>3, <1>7, <3>2, AtUnique
    <2> QED BY <1>10, <1>1, <1>2, <1>4, <2>2, <2>3
  <1>15. {"anchor", "identity", "rollback"} \subseteq q'.open
    BY <1>3, <1>6, <1>8, <1>10
  <1>16. first' \in {"none", "commit"}
    BY <1>13, <1>14
  <1>17. Sunk'
    BY <1>16 DEF Sunk, Excluded
  <1> QED BY <1>2, <1>11, <1>13, <1>14, <1>15, <1>16, <1>17, <1>4, Landed

-----------------------------------------------------------------------------
(* The finally, and what is shown after a failure.                         *)

\* So does every step.
LEMMA Moves ==
    ASSUME Held, Held', NEW v, q' = Clear(v, {"err"}), outcome' = outcome,
           first' = IF first = "none" /\ (Has(v, "err") \/ Failed(v)) THEN pc ELSE first
    PROVE  Moving
  BY DEF Held, Clear, States, Failed, Moving

\* So does every step of the finally.
LEMMA FinallyMoves ==
    ASSUME Held, Held', NEW label, NEW S, NEW next, Finally(label, S, next)
    PROVE  Moving /\ pc = label /\ pc' = next
  <1>1. PICK v \in S :
          /\ q' = Clear(v, {"err"})
          /\ first' = IF first = "none" /\ (Has(v, "err") \/ Failed(v)) THEN pc ELSE first
          /\ pc' = next
    BY DEF Finally, Step
  <1> QED BY <1>1, Moves DEF Finally, Step

\* Few failures after a step were no more before it.
LEMMA SlightBack ==
    ASSUME NEW w, NEW v, Level(w, v), Shown(v), Slight(v)
    PROVE  Shown(w) /\ Slight(w)
  BY DEF Level, States, Slight

\* What a step of the finally must do for a generation that is still shown to go on to be undone.
LEMMA StepBacked ==
    ASSUME Held, Smooth, Backed, Held', Smooth', Tended(q, q'), Moving,
           pc # "done", pc' \notin BeforeReplace \cup {"commit", "done"},
           pc' \in BeforeFinalize => pc \in BeforeFinalize,
           pc' \in BeforeRetire => pc \in BeforeFinalize \cup BeforeRetire,
           first' = "none" => ~Doomed', Supplied',
           q.edits = 0 /\ q'.edits = 1 /\ q'.faults = 0 => Tame(q'),
           first = "none" /\ first' # "none" /\ "attempted" \in q'.set
             /\ pc' \in BeforeFinalize \cup BeforeRetire => q'.edits + q'.faults >= 1,
           first = "none" /\ first' # "none" /\ Shown(q') /\ pc' \in BeforeFinalize => Pressing(q'),
           pc' \notin BeforeFinalize /\ (pc \in BeforeFinalize \/ first = "none")
             /\ first' \notin {"none"} \cup Excluded => ~(Shown(q') /\ Slight(q'))
    PROVE  Backed'
  <1>1. /\ Level(q, q') /\ Firm(q, q') /\ Unique(q) /\ Tame(q) /\ Afloat(q)
        /\ "stated" \in q.set => "stated" \in q'.set
        /\ "releaseFailed" \in q.set => "releaseFailed" \in q'.set
    BY DEF Tended, Backed
  <1>2. /\ q.faults \in Nat /\ q'.faults \in Nat /\ q.edits \in Nat /\ q'.edits \in Nat
        /\ q'.faults >= q.faults /\ q'.edits >= q.edits
        /\ "attempted" \in q'.set <=> "attempted" \in q.set
    BY <1>1 DEF Level, States
  <1>4. Tame(q')
    BY <1>1, <1>2 DEF Level, Tame
  <1>5. Told'
    <2>1. ASSUME "attempted" \in q'.set, first' # "none", pc' \in BeforeFinalize \cup BeforeRetire
          PROVE  q'.edits + q'.faults >= 1
      BY <2>1, <1>2 DEF Backed, Told
    <2> QED BY <2>1 DEF Told, Moving, Backed
  <1>6. Sunk'
    <2> SUFFICES ASSUME Shown(q'), Slight(q'), first' \notin {"none"} \cup Excluded
                 PROVE  pc' \in BeforeFinalize \ {"commit"} /\ Pressing(q')
      BY DEF Sunk, Shown, Slight, Pressing
    <2>2. CASE first = "none"
      BY <2>2
    <2>3. CASE first # "none"
      BY <2>3, <1>1, SlightBack DEF Moving, Backed, Sunk, Level, Pressing
    <2> QED BY <2>2, <2>3
  <1>7. Unique(q)' /\ Tame(q)' /\ Afloat(q)'
    BY <1>1, AfloatOn, <1>4 DEF Unique, Tame, Afloat, Shown, Rigged
  <1> QED BY <1>5, <1>6, <1>7 DEF Backed

\* The same for what comes after the housekeeping.
LEMMA LaterBacked ==
    ASSUME Held, Smooth, Backed, Held', Smooth', NEW label \in Later, NEW next \in Later,
           pc = label, pc' = next, Moving, Lasting(q, q'),
           next \in BeforeFinalize => label \in BeforeFinalize,
           next \in BeforeRetire => label \in BeforeFinalize \cup BeforeRetire,
           Supplied',
           q.edits = 0 /\ q'.edits = 1 /\ q'.faults = 0 => Tame(q'),
           first = "none" /\ "releaseFailed" \in q'.set /\ "attempted" \in q'.set
             /\ next \in BeforeFinalize \cup BeforeRetire => q'.edits + q'.faults >= 1,
           next \notin BeforeFinalize /\ first' \notin {"none"} \cup Excluded
             /\ (label \in BeforeFinalize \/ first = "none") /\ (first = "none" => "releaseFailed" \in q'.set)
             => ~(Shown(q') /\ Slight(q'))
    PROVE  Backed'
  <1>1. pc # "done" /\ pc' \notin BeforeReplace \cup {"commit", "done"}
    BY LaterLabels DEF Later, BeforeReplace, BeforePending, BeforeSlot, BeforeFinalize, BeforeRetire, AfterRetire
  <1>3. pc' \notin BodyLabels \cup {"validate", "housekeeping"}
    BY DEF Later, BeforeFinalize, BeforeRetire, AfterRetire
  <1>4. first = "none" => "housekept" \in q'.set /\ "exitFailed" \notin q'.set /\ "releaseFailed" \notin q.set
    <2> SUFFICES ASSUME first = "none"
                 PROVE  "housekept" \in q'.set /\ "exitFailed" \notin q'.set /\ "releaseFailed" \notin q.set
      OBVIOUS
    <2>1. ~Doomed
      BY <1>1 DEF Backed, Told
    <2> QED BY <2>1 DEF Doomed, Lasting, Later, BeforeFinalize, BeforeRetire, AfterRetire
  <1>5. first' = "none" => ~Doomed'
    BY <1>4 DEF Moving, Doomed
  <1>6. first = "none" /\ first' # "none" => "releaseFailed" \in q'.set
    <2> SUFFICES ASSUME first = "none", first' # "none" PROVE "releaseFailed" \in q'.set
      OBVIOUS
    <2> QED BY <1>4, <1>1 DEF Doomed, Smooth
  <1>7. Tended(q, q')
    BY DEF Tended, Lasting
  <1>8. "releaseFailed" \in q'.set => Pressing(q')
    BY DEF Pressing
  <1> QED BY <1>1, <1>5, <1>6, <1>7, <1>8, StepBacked

\* So it is where nothing else happens.
LEMMA PricedBacked ==
    ASSUME Held, Smooth, Backed, Held', Smooth', NEW label \in Later, NEW next \in Later,
           pc = label, pc' = next, Moving, Lasting(q, q'),
           next \in BeforeFinalize => label \in BeforeFinalize,
           next \in BeforeRetire => label \in BeforeFinalize \cup BeforeRetire,
           Supplied', Priced(q, q'),
           next \notin BeforeFinalize /\ first' \notin {"none"} \cup Excluded
             /\ (label \in BeforeFinalize \/ first = "none") /\ (first = "none" => "releaseFailed" \in q'.set)
             => ~(Shown(q') /\ Slight(q'))
    PROVE  Backed'
  BY LaterLabels, LaterBacked DEF Priced, Backed, Told, Doomed, Held, States

\* The descriptors that are still needed stay open.
LEMMA SuppliedOn ==
    ASSUME Held, Smooth, Backed, NEW label \in Later, NEW next \in Later,
           pc = label, pc' = next, Moving, Lasting(q, q'), NEW ds, q.open \ ds \subseteq q'.open,
           next \in BeforeFinalize => label \in BeforeFinalize /\ ds \cap {"anchor", "identity"} = {},
           next \in BeforeFinalize \ {"rollback", "finalize"} =>
             label \in BeforeFinalize \ {"rollback", "finalize"} /\ "rollback" \notin ds,
           next \in {"rollback", "finalize"} \cup BeforeRetire =>
             label \in {"rollback", "finalize"} \cup BeforeRetire /\ ds \cap {"binding", "cleanup"} = {},
           next \in BeforeRetire => "identity" \notin ds, next # "slotLate"
    PROVE  Supplied'
  <1>2. pc' \notin {"noreplace", "slot", "exchange", "replace"} /\ pc # "done"
    BY DEF Later, BeforeFinalize, BeforeRetire, AfterRetire
  <1>3. ASSUME "attempted" \in q'.set, pc' \in BeforeFinalize PROVE {"anchor", "identity"} \subseteq q'.open
    BY <1>3 DEF Backed, Supplied, Lasting, Level
  <1>4. ASSUME first' = "none" PROVE first = "none" /\ Fair(q, pc)
    BY <1>2, <1>4 DEF Moving, Backed, Told, Smooth
  <1>5. ASSUME first' = "none", pc' \in BeforeFinalize \ {"rollback", "finalize"} PROVE "rollback" \in q'.open
    BY <1>4, <1>5 DEF Backed, Supplied
  <1>6. ASSUME first' = "none", pc' \in {"rollback", "finalize", "slotLate"} \cup BeforeRetire
        PROVE  q'.open \cap {"binding", "cleanup"} # {}
    BY <1>4, <1>6 DEF Backed, Supplied
  <1>7. ASSUME first' = "none", pc' \in {"slotLate"} \cup BeforeRetire PROVE "identity" \in q'.open
    BY <1>4, <1>7 DEF Backed, Supplied, Fair, Noted, BeforeFinalize
  <1> QED BY <1>2, <1>3, <1>5, <1>6, <1>7 DEF Supplied

\* The exception itself does not count.
LEMMA PaidStep ==
    ASSUME NEW w, NEW v, Paid(w, v), w.faults \in Nat
    PROVE  Priced(w, Clear(v, {"err"}))
  BY Flagged, FlaggedExact DEF Paid, Flags, States, Priced

\* A close that does not work is a failure.
LEMMA ReleasePaid ==
    ASSUME NEW w \in States, NEW x, NEW d,
           NEW before \in {"rollback", "recovery", "nothing"},
           NEW after \in {"rollback", "recovery", "nothing"}
    PROVE  /\ Paid(w, w)
           /\ \A v \in Release(w, x, before, after, d) :
                Paid(w, v) /\ (v = Close(w, {x}) \/ v.faults > w.faults)
  <1>2. Paid(w, Close(w, {x}))
    BY CloseCloses DEF Paid
  <1>3. ASSUME NEW u \in Faults(w), NEW v, Level(u, v)
        PROVE  Paid(w, v) /\ v.faults > w.faults
    BY FaultsExact, <1>3 DEF States, Level, Paid
  <1>4. ASSUME NEW u \in Faults(w), NEW v \in Undo(u, before, d)
        PROVE  Level(u, Remember(Close(v, {x})))
    BY FaultsExact, UndoSame, RememberClosed DEF Stay, Closed
  <1>5. ASSUME NEW u \in Faults(w), NEW v \in Undo(Remember(Close(u, {x})), after, d)
        PROVE  Level(u, v)
    <2>2. Closed(u, Remember(Close(u, {x})), {x})
      BY FaultsExact, RaiseSame, RememberClosed
    <2> QED BY <2>2, UndoSame, ClosedSame DEF Closed, Stay
  <1>6. ASSUME NEW v \in Release(w, x, before, after, d)
        PROVE  \/ v = Close(w, {x})
               \/ \E u \in Faults(w) : \E y \in Undo(u, before, d) : v = Remember(Close(y, {x}))
               \/ \E u \in Faults(w) : v \in Undo(Remember(Close(u, {x})), after, d)
    BY DEF Release
  <1>7. ASSUME NEW v \in Release(w, x, before, after, d)
        PROVE  Paid(w, v) /\ (v = Close(w, {x}) \/ v.faults > w.faults)
    BY <1>2, <1>3, <1>4, <1>5, <1>6
  <1> QED BY <1>7 DEF Paid

\* A step of the finally that only pays for its failures.
LEMMA PaidBacked ==
    ASSUME Held, Smooth, Backed, Held', Smooth', NEW label \in Later, NEW next \in Later, NEW S,
           Finally(label, S, next), \A v \in S : Paid(q, v), Lasting(q, q'),
           next \in BeforeFinalize => label \in BeforeFinalize,
           next \in BeforeRetire => label \in BeforeFinalize \cup BeforeRetire, Supplied',
           next \notin BeforeFinalize /\ first' \notin {"none"} \cup Excluded
             /\ (label \in BeforeFinalize \/ first = "none") /\ (first = "none" => "releaseFailed" \in q'.set)
             => ~(Shown(q') /\ Slight(q'))
    PROVE  Backed'
  <1>2. PICK v \in S : q' = Clear(v, {"err"})
    BY FinallyStep
  <1> QED BY FinallyMoves, <1>2, PaidStep, PricedBacked DEF Held, States

\* A failure there is not answered by a rollback.
LEMMA UnansweredBacked ==
    ASSUME Held, Smooth, Backed, Held', Smooth', NEW label \in Later \cap Excluded,
           NEW next \in Later \ BeforeFinalize, NEW S,
           Finally(label, S, next), \A v \in S : Paid(q, v), Lasting(q, q'),
           next \in BeforeRetire => label \in BeforeRetire, Supplied'
    PROVE  Backed'
  BY FinallyMoves, PaidBacked DEF Excluded, BeforeFinalize, Later, BeforeRetire, AfterRetire,
     Moving

\* The descriptor of .generations.
LEMMA ReleaseGenerationsBacked ==
    ASSUME Held, Smooth, Backed, Held', Smooth', ReleaseGenerations
    PROVE  Backed'
  <1> DEFINE S == IF "generations" \in q.open
                  THEN Release(q, "generations", "rollback", "rollback", "rollback") ELSE {q}
  <1>1. Finally("generations", S, "cleanupAnchor")
    BY DEF ReleaseGenerations
  <1>2. \A v \in S : Paid(q, v)
    BY ReleasePaid DEF Held
  <1> HIDE DEF S
  <1>3. Lasting(q, q') /\ q'.open = q.open \ {"generations"}
    BY ReleaseGenerationsKeeps
  <1>4. Moving /\ pc = "generations" /\ pc' = "cleanupAnchor"
    BY <1>1, FinallyMoves
  <1>5. {"generations", "cleanupAnchor"} \subseteq BeforeFinalize \cap Later
    BY LaterLabels
  <1>6. Supplied'
    <2>1. q.open \ {"generations"} \subseteq q'.open
      BY <1>3
    <2>2. /\ "generations" \in BeforeFinalize \ {"rollback", "finalize"}
          /\ "cleanupAnchor" \notin {"rollback", "finalize", "slotLate"} \cup BeforeRetire
          /\ {"generations"} \cap {"anchor", "identity"} = {} /\ "rollback" \notin {"generations"}
      BY DEF BeforeFinalize, BeforeRetire
    <2> QED BY <1>3, <1>4, <1>5, <2>1, <2>2, SuppliedOn
  <1> QED BY <1>1, <1>2, <1>3, <1>5, <1>6, LaterLabels, PaidBacked

\* The descriptor for a rollback.
LEMMA ReleaseRollbackBacked ==
    ASSUME Held, Smooth, Backed, Held', Smooth', ReleaseRollback
    PROVE  Backed'
  <1> DEFINE S == IF "rollback" \in q.open
                  THEN Release(q, "rollback", "rollback", "rollback", "anchor") ELSE {q}
  <1>1. Finally("rollback", S, "finalize")
    BY DEF ReleaseRollback
  <1>2. \A v \in S : Paid(q, v)
    BY ReleasePaid DEF Held
  <1> HIDE DEF S
  <1>3. Lasting(q, q') /\ q'.open = q.open \ {"rollback"}
    BY ReleaseRollbackKeeps
  <1>4. Moving /\ pc = "rollback" /\ pc' = "finalize"
    BY <1>1, FinallyMoves
  <1>5. {"rollback", "finalize"} \subseteq BeforeFinalize \cap Later
    BY LaterLabels
  <1>6. Supplied'
    <2>1. q.open \ {"rollback"} \subseteq q'.open
      BY <1>3
    <2>2. /\ "rollback" \in BeforeFinalize /\ "finalize" \notin {"slotLate"} \cup BeforeRetire
          /\ {"rollback"} \cap {"anchor", "identity"} = {} /\ {"rollback"} \cap {"binding", "cleanup"} = {}
      BY DEF BeforeFinalize, BeforeRetire
    <2> QED BY <1>3, <1>4, <1>5, <2>1, <2>2, SuppliedOn
  <1> QED BY <1>1, <1>2, <1>3, <1>5, <1>6, LaterLabels, PaidBacked

\* The final anchor.
LEMMA ReleaseAnchorBacked ==
    ASSUME Held, Smooth, Backed, Held', Smooth', ReleaseAnchor
    PROVE  Backed'
  <1> DEFINE S == Release(q, "anchor", "rollback", "nothing", "anchor")
  <1>1. Finally("anchor", S, "retire")
    BY DEF ReleaseAnchor
  <1>2. \A v \in S : Paid(q, v)
    BY ReleasePaid DEF Held
  <1> HIDE DEF S
  <1>3. Lasting(q, q') /\ q'.open = q.open \ {"anchor"}
    BY ReleaseAnchorKeeps
  <1>4. Moving /\ pc = "anchor" /\ pc' = "retire"
    BY <1>1, FinallyMoves
  <1>5. {"anchor", "retire"} \subseteq BeforeRetire \cap Later /\ "retire" \notin BeforeFinalize
    BY LaterLabels
  <1>6. Supplied'
    <2>1. q.open \ {"anchor"} \subseteq q'.open
      BY <1>3
    <2>2. /\ "anchor" \in BeforeRetire /\ "retire" \notin {"slotLate"} \cup BeforeFinalize
          /\ "identity" \notin {"anchor"} /\ {"anchor"} \cap {"binding", "cleanup"} = {}
      BY DEF BeforeFinalize, BeforeRetire
    <2> QED BY <1>3, <1>4, <1>5, <2>1, <2>2, SuppliedOn
  <1> QED BY <1>1, <1>2, <1>3, <1>5, <1>6, LaterLabels, UnansweredBacked DEF Excluded

\* Where nothing is asked for any more.
LEMMA NothingSupplied ==
    ASSUME pc' \in {"cleanup", "identity", "drain", "conclude", "concluded", "done"}
    PROVE  Supplied'
  BY DEF Supplied, BeforeFinalize, BeforeRetire

\* The cleanup anchor.
LEMMA ReleaseCleanupBacked ==
    ASSUME Held, Smooth, Backed, Held', Smooth', ReleaseCleanup
    PROVE  Backed'
  <1> DEFINE S == IF "cleanup" \in q.open
                  THEN Release(q, "cleanup", "recovery", "nothing", "cleanup") ELSE {q}
  <1>1. Finally("cleanup", S, "identity")
    BY DEF ReleaseCleanup
  <1>2. \A v \in S : Paid(q, v)
    BY ReleasePaid DEF Held
  <1> HIDE DEF S
  <1> QED
    BY <1>1, <1>2, ReleaseCleanupKeeps, FinallyStep, LaterLabels, NothingSupplied,
       UnansweredBacked DEF Excluded

\* The identity anchor.
LEMMA ReleaseIdentityBacked ==
    ASSUME Held, Smooth, Backed, Held', Smooth', ReleaseIdentity
    PROVE  Backed'
  <1> DEFINE S == IF "identity" \in q.open
                  THEN Release(q, "identity", "nothing", "nothing", "identity") ELSE {q}
  <1>1. Finally("identity", S, "drain")
    BY DEF ReleaseIdentity
  <1>2. \A v \in S : Paid(q, v)
    BY ReleasePaid DEF Held
  <1> HIDE DEF S
  <1> QED
    BY <1>1, <1>2, ReleaseIdentityKeeps, FinallyStep, LaterLabels, NothingSupplied,
       UnansweredBacked DEF Excluded

\* The output binding of a call that failed, or the decoded file.
LEMMA DrainBacked ==
    ASSUME Held, Smooth, Backed, Held', Smooth', Drain
    PROVE  Backed'
  <1> DEFINE held == IF "binding" \in q.open
                     THEN IF Has(q, "exitFailed") \/ ~Clean(q) THEN {"binding", "decoded"} ELSE {}
                     ELSE q.open \cap {"decoded"}
             failed == IF held = {} THEN {} ELSE {Remember(Close(v, held)) : v \in Faults(q)}
             closed == {Close(q, held)} \cup failed
             S == {Clear(v, {"lock"}) : v \in closed}
  <1>1. Finally("drain", S, "conclude")
    BY DEF Drain
  <1>2. q \in States
    BY DEF Held
  <1> HIDE DEF held
  <1>4. ASSUME NEW v \in failed PROVE Paid(q, v)
    <2>1. PICK u \in Faults(q) : v = Remember(Close(u, held))
      BY <1>4
    <2>2. u \in States /\ u.faults = q.faults + 1
      BY <1>2, FaultsExact
    <2> QED BY <1>2, <2>2, <2>1, CloseCloses, RememberLevel DEF Paid, States
  <1> HIDE DEF failed
  <1>5. ASSUME NEW v \in closed PROVE Paid(q, Clear(v, {"lock"}))
    BY <1>2, CloseCloses, <1>4, <1>5, Flagged, FlaggedExact DEF Paid, Flags
  <1>6. \A v \in S : Paid(q, v)
    BY <1>5
  <1> HIDE DEF S
  <1> QED
    BY <1>1, <1>6, DrainKeeps, FinallyStep, LaterLabels, NothingSupplied, UnansweredBacked DEF
       Excluded

\* A temporary query that stays is a failure, and has the publication undone.
LEMMA CleanedCosts ==
    ASSUME Held, NEW v \in Cleaned, Has(v, "err")
    PROVE  /\ v \in States /\ v.faults > q.faults
           /\ Shown(v) /\ "stated" \in q.set => "required" \in v.set
  <1>1. q \in States /\ ~Has(q, "err")
    BY DEF Held, Has
  <1>2. \E u \in Unlinked : Has(u, "err") /\ v \in Undone(Clear(u, {"err"}))
    BY DEF Cleaned, Except
  <1>3. PICK u \in Unlinked : Has(u, "err") /\ v \in Undone(Clear(u, {"err"}))
    BY <1>2
  <1>4. PICK y \in Faults(q) : u = Raise(y)
    BY <1>1, <1>3 DEF Unlinked, May
  <1>5. /\ y \in States /\ y.set = q.set /\ y.faults = q.faults + 1
    BY <1>1, <1>4, FaultsExact
  <1> DEFINE c == Clear(u, {"err"})
             p == Require(c)
  <1>6. /\ c \in States /\ c.set = q.set /\ c.faults = q.faults + 1
    <2>1. u \in States /\ u.set = y.set \cup {"err"} /\ u.faults = y.faults
      BY <1>4, <1>5, Flagged, FlaggedExact DEF Raise, Flags
    <2>2. c \in States /\ c.set = u.set \ {"err"} /\ c.faults = u.faults
      BY <2>1, Flagged, FlaggedExact DEF Flags
    <2> QED BY <1>1, <1>5, <2>1, <2>2 DEF Has
  <1> HIDE DEF c
  <1>7. p \in States /\ p.faults = c.faults /\ ("stated" \in q.set => "required" \in p.set)
    BY <1>6, Flagged, FlaggedExact DEF Flags, Require, Has
  <1> HIDE DEF p
  <1>8. PICK x \in RollbackAttempted(p, "generations") : v = Raise(x)
    BY <1>3 DEF Undone, p, c
  <1>10. v \in States /\ Level(p, v)
    BY <1>8, <1>7, RollbackAttemptedSame, RaiseSame, RaiseRaises, LevelTrans DEF Same, Stay
  <1> QED BY <1>7, <1>10, <1>1, <1>6 DEF Level, States

\* The first step of the finally.
LEMMA HousekeepingBacked ==
    ASSUME Held, Smooth, Backed, Held', Smooth', Housekeeping
    PROVE  Backed'
  <1> DEFINE S == {IF Has(v, "err") THEN v ELSE Set(v, {"housekept"}) : v \in Cleaned}
  <1>1. Finally("housekeeping", S, "early")
    BY Zenon DEF Housekeeping, Cleaned, Undone, Unlinked
  <1>2. Moving /\ pc = "housekeeping" /\ pc' = "early"
    BY <1>1, FinallyMoves
  <1>3. PICK u \in S :
          /\ q' = Clear(u, {"err"})
          /\ first' = IF first = "none" /\ (Has(u, "err") \/ Failed(u)) THEN pc ELSE first
    BY <1>1 DEF Finally, Step
  <1>4. PICK v \in Cleaned : u = IF Has(v, "err") THEN v ELSE Set(v, {"housekept"})
    BY <1>3
  <1> HIDE DEF S
  <1>5. Kept(q, v) /\ (~Has(v, "err") => v = q)
    BY <1>4, CleanedKept
  <1>6. Tended(q, q') /\ q'.open = q.open /\ q \in States /\ "err" \notin q.set /\ v \in States
    BY <1>5, HousekeepingKeeps DEF Held, Kept, Without
  <1>7. first = "none" => Fair(q, pc) /\ ~Doomed
    BY <1>2 DEF Backed, Told, Smooth
  <1>9. /\ pc # "done" /\ pc' \notin BeforeReplace \cup {"commit", "done"}
        /\ pc' \in BeforeFinalize /\ pc \in BeforeFinalize /\ pc' \notin BeforeRetire
    BY <1>2 DEF BeforeReplace, BeforePending, BeforeSlot, BeforeFinalize, BeforeRetire
  <1>10. Supplied'
    BY <1>6, <1>9, <1>2 DEF Tended, Level, Backed, Supplied, Moving
  <1>11. CASE ~Has(v, "err")
    <2> DEFINE h == Set(q, {"housekept"})
    <2>1. q' = Clear(h, {"err"}) /\ u = h
      BY <1>3, <1>4, <1>5, <1>11
    <2>2. h \in States /\ h.set = q.set \cup {"housekept"} /\ h.edits = q.edits
      BY <1>6, Flagged, FlaggedExact DEF Flags
    <2> HIDE DEF h
    <2>3. q'.edits = q.edits /\ q'.set = q.set \cup {"housekept"}
      BY <2>1, <2>2, Flagged, FlaggedExact, <1>6 DEF Flags
    <2>4. first = "none" => first' = "none"
      BY <1>6, <1>7, <2>1, <2>2, <1>3 DEF Fair, Noted, Failed, Has
    <2> QED BY <1>2, <1>6, <1>9, <1>10, <2>4, <2>3, StepBacked DEF Moving, Doomed
  <1>12. CASE Has(v, "err")
    <2>1. u = v /\ first' # "none"
      BY <1>2, <1>3, <1>4, <1>12
    <2>2. /\ q'.faults = v.faults /\ q'.where = v.where /\ q'.set = v.set \ {"err"}
      BY <1>3, <1>6, <2>1, Flagged, FlaggedExact DEF Flags
    <2>3. v.faults > q.faults /\ (Shown(v) /\ "stated" \in q.set => "required" \in v.set)
      BY <1>12, CleanedCosts
    <2>4. q'.faults # 0 /\ q'.edits + q'.faults >= 1
      BY <1>6, <2>2, <2>3 DEF Tended, Level, States
    <2>5. Shown(q') => Pressing(q')
      <3> SUFFICES ASSUME Shown(q') PROVE Pressing(q')
        OBVIOUS
      <3> QED BY <2>2, <2>3, <1>6 DEF Pressing, Backed, Afloat, Shown, Tended, Level
    <2> QED BY <1>2, <1>6, <1>9, <1>10, <2>1, <2>4, <2>5, StepBacked
  <1> QED BY <1>11, <1>12

\* Where nothing was published, somebody else's directories must only be left alone.
LEMMA GentleBacked ==
    ASSUME Held, Smooth, Backed, Held', Smooth', NEW label \in Later, NEW next \in Later \cap BeforeFinalize,
           NEW S, Finally(label, S, next), "attempted" \notin q.set,
           \A v \in S : v \in States /\ Gentle(q, v), Lasting(q, q'), label \in BeforeFinalize, Supplied'
    PROVE  Backed'
  <1>2. PICK v \in S : q' = Clear(v, {"err"})
    BY FinallyStep
  <1>4. Tame(q')
    BY <1>2, RaiseSame DEF Gentle, Backed
  <1> QED BY FinallyMoves, <1>4, LaterBacked DEF Lasting, Level

\* What neither renames nor fails is gentle, and so are gentle parts together.
LEMMA PlainGentle ==
    /\ \A w, v : v.where = w.where /\ v.edits = w.edits /\ v.faults = w.faults => Gentle(w, v)
    /\ \A w, u, v : Gentle(w, u) /\ Gentle(u, v) => Gentle(w, v)
  BY DEF Gentle, Unique, Tame

\* A rollback that is required where nothing was published.
LEMMA RequiredNothing ==
    ASSUME NEW w \in States, "attempted" \notin w.set, NEW d, NEW v \in RequiredRollback(w, d)
    PROVE  v \in States /\ Gentle(w, v)
  <1> DEFINE p == Set(w, {"required"})
  <1>1. /\ p \in States /\ p.where = w.where /\ p.edits = w.edits /\ p.faults = w.faults
        /\ "attempted" \notin p.set
    BY Flagged, FlaggedExact DEF Flags
  <1> HIDE DEF p
  <1>3. ASSUME v \in AttemptRollback(p, d) PROVE v \in States /\ Gentle(p, v)
    BY <1>1, <1>3, NotedExact, PlainGentle DEF RollbackAttempted, Unresolved, Has,
       AttemptRollback, Same
  <1> QED BY <1>3, <1>1, PlainGentle DEF RequiredRollback, Require, p

\* The descriptors at the first labels.
LEMMA EarlySupplied ==
    ASSUME Held, Smooth, Backed, NEW label \in (BeforeFinalize \ {"rollback", "finalize"}) \cap Later,
           NEW next \in (BeforeFinalize \ {"rollback", "finalize"}) \cap Later,
           pc = label, pc' = next, Moving, Lasting(q, q'), q.open \subseteq q'.open
    PROVE  Supplied'
  <1>1. next \notin {"rollback", "finalize", "slotLate"} \cup BeforeRetire
    BY LaterLabels
  <1>2. q.open \ {} \subseteq q'.open
    OBVIOUS
  <1>3. {} \cap {"anchor", "identity"} = {} /\ "rollback" \notin {} /\ "identity" \notin {}
    OBVIOUS
  <1> QED BY <1>1, <1>2, <1>3, SuppliedOn

\* The labels.
LEMMA EarlyLabels ==
    /\ {"early", "slotEarly", "pendingEarly", "generations"}
         \subseteq (BeforeFinalize \ {"rollback", "finalize"}) \cap Later
    /\ {"early", "slotEarly", "pendingEarly", "generations"} \cap BeforeRetire = {}
  BY DEF BeforeFinalize, BeforeRetire, Later

\* The pending name, when nothing was published.
LEMMA FinalizeEarlyBacked ==
    ASSUME Held, Smooth, Backed, Held', Smooth', FinalizeEarly
    PROVE  Backed'
  <1> DEFINE R == Reported(FinalizePending(q))
             S == IF "anchor" \in q.open THEN {q} ELSE R
  <1>1. Finally("early", S, "slotEarly")
    BY DEF FinalizeEarly
  <1>2. Moving /\ pc = "early" /\ pc' = "slotEarly"
    BY <1>1, FinallyMoves
  <1>3. Lasting(q, q') /\ q'.open = q.open /\ q \in States
    BY FinalizeEarlyKeeps DEF Held
  <1>4. Supplied'
    BY <1>2, <1>3, EarlyLabels, EarlySupplied
  <1>5. CASE "attempted" \in q.set
    <2>2. \A v \in S : Paid(q, v)
      BY <1>3, <1>2, <1>5, EarlyLabels DEF Paid, Backed, Supplied
    <2> HIDE DEF S
    <2> QED BY <1>1, <1>3, <1>4, <2>2, EarlyLabels, PaidBacked
  <1>6. CASE "attempted" \notin q.set
    <2>1. ASSUME NEW v \in R PROVE v \in States /\ Gentle(q, v)
      <3>2. \A u \in FinalizePending(q) : u \in States /\ Gentle(q, u)
        BY <1>3, FinalizePendingSame DEF Stay, Same
      <3>3. ASSUME NEW u \in FinalizePending(q) PROVE LET r == Remember(Clear(u, {"err"})) IN r \in States /\ Gentle(q, r)
        BY <3>2, RaiseSame, PlainGentle, RememberLevel DEF Same
      <3> QED BY <2>1, <3>2, <3>3 DEF Reported, Except
    <2> HIDE DEF R
    <2>3. \A v \in S : v \in States /\ Gentle(q, v)
      BY <1>3, <2>1, PlainGentle
    <2> HIDE DEF S
    <2> QED BY <1>1, <1>3, <1>4, <1>6, <2>3, EarlyLabels, GentleBacked
  <1> QED BY <1>5, <1>6

\* The slot, when no publication needs it.
LEMMA RetireSlotEarlyBacked ==
    ASSUME Held, Smooth, Backed, Held', Smooth', RetireSlotEarly
    PROVE  Backed'
  <1> DEFINE kept(w) ==
               UNION {CASE At(v, "slot") = "none" -> {v}
                        [] At(v, "slot") = "slot" /\ Owned(v) /\ "slot" \in v.open ->
                             IsolateEmpty(v, "slot", "slot")
                        [] OTHER -> {Raise(v)}
                      : v \in Outside(w)}
             K == kept(q)
             E == Except(K, LAMBDA v : RequiredRollback(Remember(v), "generations"))
             S == IF ~Unresolved(q) /\ "generations" \in q.open /\ Has(q, "slotNamed") THEN E ELSE {q}
  <1>1. Finally("slotEarly", S, "pendingEarly")
    BY DEF RetireSlotEarly
  <1>2. \A v \in E : v \in K \/
          \E u \in K : v \in RequiredRollback(Remember(Clear(u, {"err"})), "generations")
    BY DEF Except
  <1>3. \A v \in K : \E t \in Outside(q) : v = t \/ v = Raise(t) \/ v \in IsolateEmpty(t, "slot", "slot")
    OBVIOUS
  <1> HIDE DEF K, E
  <1>4. Moving /\ pc = "slotEarly" /\ pc' = "pendingEarly"
    BY <1>1, FinallyMoves
  <1>5. Lasting(q, q') /\ q'.open = q.open /\ q \in States
    BY RetireSlotEarlyKeeps DEF Held
  <1>6. Supplied'
    BY <1>4, <1>5, EarlyLabels, EarlySupplied
  <1>7. CASE "attempted" \in q.set /\ first = "none"
    <2>2. Unresolved(q)
      BY <1>7, <1>4 DEF Fair, Noted, Unresolved, Has, Backed, Told, Smooth
    <2>3. \A v \in S : Paid(q, v)
      BY <1>5, <2>2 DEF Paid
    <2> HIDE DEF S
    <2> QED BY <1>1, <1>5, <1>6, <2>3, EarlyLabels, PaidBacked
  <1>8. CASE "attempted" \in q.set /\ first # "none"
    <2>3. ~(q.edits = 0 /\ q'.edits = 1 /\ q'.faults = 0)
      BY <1>4, <1>8, EarlyLabels, <1>5 DEF Lasting, Level, States, Backed, Told
    <2> QED BY <1>4, <1>5, <1>6, <1>8, <2>3, EarlyLabels, LaterBacked
  <1>9. CASE "attempted" \notin q.set
    <2>1. ASSUME NEW v \in K PROVE v \in States /\ Gentle(q, v) /\ "attempted" \notin v.set
      <3>1. PICK t \in Outside(q) : v = t \/ v = Raise(t) \/ v \in IsolateEmpty(t, "slot", "slot")
        BY <1>3, <2>1
      <3>2. t \in States /\ t.set = q.set /\ Gentle(q, t)
        BY <1>5, OutsideExact, OutsideSame
      <3>4. v \in States /\ Gentle(t, v) /\ Level(t, v)
        BY <3>1, <3>2, Own, RaiseSame, IsolateEmptyLevel, PlainGentle DEF Same, Like, Names
      <3> QED BY <1>9, <3>2, <3>4, PlainGentle DEF Level
    <2>2. ASSUME NEW u \in K, NEW v \in RequiredRollback(Remember(Clear(u, {"err"})), "generations")
          PROVE  v \in States /\ Gentle(q, v)
      <3> DEFINE c == Clear(u, {"err"})
      <3>1. c \in States /\ Gentle(q, c) /\ "attempted" \notin c.set
        BY <2>1, RaiseSame, PlainGentle DEF Same, Level
      <3> HIDE DEF c
      <3> DEFINE r == Remember(c)
      <3>2. r \in States /\ Gentle(q, r) /\ "attempted" \notin r.set
        BY <3>1, RememberLevel, PlainGentle DEF Level
      <3>3. v \in RequiredRollback(r, "generations")
        BY <2>2 DEF c
      <3> HIDE DEF r
      <3> QED BY <3>2, <3>3, RequiredNothing, PlainGentle
    <2>4. Gentle(q, q)
      BY PlainGentle
    <2>5. \A v \in S : v \in States /\ Gentle(q, v)
      BY <1>5, <1>2, <2>1, <2>2, <2>4
    <2> HIDE DEF S
    <2> QED BY <1>1, <1>5, <1>6, <1>9, <2>5, EarlyLabels, GentleBacked
  <1> QED BY <1>7, <1>8, <1>9

\* The descriptors of the pending directory, when nothing was published.
LEMMA ReleasePendingEarlyBacked ==
    ASSUME Held, Smooth, Backed, Held', Smooth', ReleasePendingEarly
    PROVE  Backed'
  <1> DEFINE release(w, d) == IF d \in w.open THEN Release(w, d, "nothing", "nothing", d) ELSE {w}
             R == UNION {release(v, "identity") : v \in release(q, "pending")}
             S == IF "anchor" \in q.open THEN {q} ELSE R
  <1>1. Finally("pendingEarly", S, "generations")
    BY DEF ReleasePendingEarly
  <1>2. Moving /\ pc = "pendingEarly" /\ pc' = "generations"
    BY <1>1, FinallyMoves
  <1>3. Lasting(q, q') /\ ("anchor" \in q.open => q'.open = q.open) /\ q \in States
    BY ReleasePendingEarlyKeeps DEF Held
  <1>4. ASSUME NEW w \in States, NEW d, NEW v \in release(w, d) PROVE Paid(w, v) /\ v.faults >= w.faults
    <2>1. CASE v = w
      BY <1>4, <2>1 DEF Paid, States
    <2>2. CASE v \in Release(w, d, "nothing", "nothing", d)
      BY <1>4, <2>2, ReleasePaid, ReleaseCloses DEF Closed, Level
    <2> QED BY <1>4, <2>1, <2>2
  <1> HIDE DEF release
  <1>5. ASSUME NEW v \in R PROVE Paid(q, v)
    <2>1. PICK u \in release(q, "pending") : v \in release(u, "identity")
      BY <1>5
    <2>2. Paid(q, u) /\ u.faults >= q.faults /\ u \in States
      BY <1>3, <1>4 DEF Paid
    <2> QED BY <2>2, <1>4, <2>1, <1>3 DEF Paid, States
  <1> HIDE DEF R
  <1>7. \A v \in S : Paid(q, v)
    BY <1>5, <1>3 DEF Paid
  <1> HIDE DEF S
  <1>8. Supplied'
    <2>1. CASE "anchor" \in q.open
      BY <1>2, <1>3, <2>1, EarlyLabels, EarlySupplied
    <2>2. CASE "anchor" \notin q.open
      <3>2. "attempted" \notin q'.set
        BY <1>3, <1>2, <2>2, EarlyLabels DEF Lasting, Level, Backed, Supplied
      <3>3. first # "none"
        <4> SUFFICES ASSUME first = "none" PROVE FALSE
          OBVIOUS
        <4> QED BY <1>2, <2>2, EarlyLabels DEF Fair, Noted, Backed, Told, Smooth
      <3> QED BY <3>2, <1>2, <3>3 DEF Supplied, Moving
    <2> QED BY <2>1, <2>2
  <1> QED BY <1>1, <1>3, <1>7, <1>8, EarlyLabels, PaidBacked

\* A last descriptor for the slot, or that there is none is remembered.
LEMMA DuplicateCleanupAnchorBacked ==
    ASSUME Held, Smooth, Backed, Held', Smooth', DuplicateCleanupAnchor
    PROVE  Backed'
  <1> DEFINE failed == UNION {RequiredRollback(Remember(v), "anchor") : v \in Faults(q)}
             needed == {"rollback", "anchor"} \subseteq q.open /\ "binding" \notin q.open
             S == IF needed THEN {Open(q, {"cleanup"})} \cup failed ELSE {q}
  <1>1. Finally("cleanupAnchor", S, "rollback")
    BY DEF DuplicateCleanupAnchor
  <1>2. Moving /\ pc = "cleanupAnchor" /\ pc' = "rollback"
    BY <1>1, FinallyMoves
  <1>3. Lasting(q, q') /\ q.open \subseteq q'.open /\ q \in States /\ "err" \notin q.set
    BY DuplicateCleanupAnchorKeeps DEF Held
  <1>4. ASSUME NEW v \in failed
        PROVE  v \in States /\ "releaseFailed" \in v.set /\ v.faults > q.faults
    <2>1. PICK u \in Faults(q) : v \in RequiredRollback(Remember(u), "anchor")
      BY <1>4
    <2>2. u \in States /\ u.faults = q.faults + 1
      BY <1>3, FaultsExact
    <2> DEFINE r == Remember(u)
    <2>3. r \in States /\ r.faults = u.faults /\ "releaseFailed" \in r.set
      BY <2>2, RememberLevel
    <2>4. v \in RequiredRollback(r, "anchor")
      BY <2>1
    <2> HIDE DEF r
    <2>5. Same(r, v) /\ v \in States
      BY <2>3, <2>4, RequiredSame DEF Stay, Same
    <2>6. v.faults >= r.faults /\ v.faults \in Nat /\ q.faults \in Nat /\ r.faults = q.faults + 1
      BY <1>3, <2>2, <2>3, <2>5 DEF Same, Level, States
    <2> QED BY <2>3, <2>5, <2>6, RememberStays
  <1> DEFINE o == Open(q, {"cleanup"})
  <1>5. /\ o \in States /\ o.set = q.set /\ o.edits = q.edits /\ o.open = q.open \cup {"cleanup"}
    BY <1>3 DEF Open, States, Descriptors
  <1> HIDE DEF failed, o
  <1>6. \A v \in S : Paid(q, v)
    <2>1. S = IF needed THEN {o} \cup failed ELSE {q}
      BY DEF o
    <2> HIDE DEF S
    <2> QED BY <1>3, <1>4, <1>5, <2>1 DEF Paid
  <1>7. /\ {"cleanupAnchor", "rollback"} \subseteq Later \cap BeforeFinalize
        /\ "cleanupAnchor" \in BeforeFinalize \ {"rollback", "finalize"}
        /\ "rollback" \notin BeforeRetire \cup {"slotLate", "noreplace", "slot", "exchange", "replace"}
    BY DEF Later, BeforeFinalize, BeforeRetire
  <1>8. Supplied'
    <2>1. ASSUME "attempted" \in q'.set PROVE {"anchor", "identity"} \subseteq q'.open
      BY <1>3, <2>1, <1>2, <1>7 DEF Lasting, Level, Backed, Supplied
    <2>2. ASSUME first' = "none" PROVE q'.open \cap {"binding", "cleanup"} # {}
      <3>1. first = "none" /\ "releaseFailed" \notin q'.set
        BY <1>2, <2>2 DEF Moving
      <3>2. "rollback" \in q.open /\ "anchor" \in q.open
        BY <1>2, <3>1, <1>7 DEF Backed, Told, Smooth, Fair, Noted, Supplied
      <3>3. CASE "binding" \in q.open
        BY <1>3, <3>3
      <3>4. CASE "binding" \notin q.open
        <4>1. PICK v \in S : q' = Clear(v, {"err"})
          BY <1>1, FinallyStep
        <4>2. v = o \/ v \in failed
          BY <3>2, <3>4, <4>1 DEF o
        <4> QED BY <1>5, <4>1, <1>4, <4>2, Flagged, <3>1 DEF Flags
      <3> QED BY <3>3, <3>4
    <2> QED BY <1>2, <1>7, <2>1, <2>2 DEF Supplied
  <1> HIDE DEF S
  <1> QED BY <1>1, <1>3, <1>6, <1>7, <1>8, PaidBacked

\* The pending name is looked at, and nothing fails in that.
LEMMA PendingExact ==
    ASSUME NEW w \in States, ~Has(w, "err"), NEW v \in FinalizePending(w)
    PROVE  /\ v \in States /\ v.faults = w.faults /\ v.set \ {"err"} = w.set /\ v.open = w.open
           /\ v.edits = w.edits => v = w \/ At(w, "pending") # "none"
  <1>2. CASE v = w
    BY <1>2 DEF Has
  <1>3. CASE \E t \in Outside(w) : v = IF At(t, "pending") = "none" THEN t ELSE Raise(t)
    <2>1. PICK t \in Outside(w) : v = IF At(t, "pending") = "none" THEN t ELSE Raise(t)
      BY <1>3
    <2>2. t \in States /\ t.set = w.set /\ t.open = w.open /\ t.faults = w.faults
      BY OutsideExact
    <2>3. /\ Raise(t) \in States /\ Raise(t).set = t.set \cup {"err"} /\ Raise(t).open = t.open
          /\ Raise(t).faults = t.faults /\ Raise(t).edits = t.edits
      BY <2>2, Flagged, FlaggedExact DEF Raise, Flags
    <2>4. t = w \/ t.edits > w.edits
      BY OutsideQuiet
    <2> QED BY <2>1, <2>2, <2>3, <2>4 DEF Has, States
  <1> QED BY <1>2, <1>3 DEF FinalizePending, KeepBound, RequireAbsent

\* Nothing fails in that either.
LEMMA CheckedExact ==
    ASSUME Held, NEW u \in Checked
    PROVE  /\ u \in States /\ ~Has(u, "err") /\ u.faults = q.faults /\ u.open = q.open
           /\ Kept(q, u) /\ Gentle(q, u)
           /\ u.edits = q.edits => u = q \/ At(q, "pending") # "none"
  <1>1. q \in States /\ ~Has(q, "err")
    BY DEF Held, Has
  <1>2. \/ u \in FinalizePending(q) /\ ~Has(u, "err")
        \/ \E v \in FinalizePending(q) : u = Require(Remember(Clear(v, {"err"})))
    BY DEF Checked, Except
  <1>3. ASSUME NEW v \in FinalizePending(q)
        PROVE  /\ v \in States /\ v.faults = q.faults /\ v.set \ {"err"} = q.set /\ v.open = q.open
               /\ v.edits = q.edits => v = q \/ At(q, "pending") # "none"
               /\ Kept(q, v) /\ Gentle(q, v)
    BY <1>1, PendingExact, FinalizePendingSame, SameKept DEF Stay
  <1>4. CASE u \in FinalizePending(q) /\ ~Has(u, "err")
    BY <1>3, <1>4
  <1>5. CASE \E v \in FinalizePending(q) : u = Require(Remember(Clear(v, {"err"}))) /\ (Has(v, "err") \/ v # q)
    <2>1. PICK v \in FinalizePending(q) : u = Require(Remember(Clear(v, {"err"}))) /\ (Has(v, "err") \/ v # q)
      BY <1>5
    <2> DEFINE c == Clear(v, {"err"})
               r == Remember(c)
    <2>2. /\ c \in States /\ c.set = v.set \ {"err"} /\ c.open = v.open /\ c.where = v.where
          /\ c.faults = v.faults /\ c.edits = v.edits
      BY <1>3, Flagged, FlaggedExact DEF Flags
    <2>3. Kept(v, c)
      BY <1>3, RaiseSame, SameKept
    <2> HIDE DEF c
    <2>4. /\ r \in States /\ r.set = c.set \cup {"releaseFailed"} /\ r.open = c.open /\ r.where = c.where
          /\ r.faults = c.faults /\ r.edits = c.edits
      BY <2>2, RememberLevel
    <2>6. u = Require(r)
      BY <2>1 DEF c
    <2> HIDE DEF r
    <2>8. /\ u \in States /\ "err" \notin u.set /\ u.open = r.open /\ u.where = r.where
          /\ u.faults = r.faults /\ u.edits = r.edits
      BY <2>2, <2>4, <2>6, Flagged, FlaggedExact DEF Require, Flags
    <2>10. Kept(q, u)
      BY <1>3, <2>3, <2>1, <2>2, RequireKept, KeptTrans DEF c
    <2> QED BY <1>3, <2>2, <2>4, <2>8, PlainGentle, <2>10, <1>1, <2>1 DEF Has
  <1> QED BY <1>4, <1>5 DEF Checked, Except

\* Nothing to undo.
LEMMA RecoverResolved ==
    ASSUME NEW w \in States, ~Unresolved(w), NEW d
    PROVE  Recover(w, d) = {w}
  <1>1. RecoverWithAnchor(w, d) = {w}
    BY DEF RecoverWithAnchor
  <1> QED BY <1>1, Zenon DEF Recover, ForceWithAnchor

\* Where nothing happened so far nothing has the pending name.
LEMMA PendingFree ==
    ASSUME NEW label \in BeforeFinalize \cup BeforeRetire, Fair(q, label), q.edits = 0
    PROVE  At(q, "pending") = "none"
  BY AtNode, AtHolds DEF Fair, Course, Lay, Placed, Nodes

\* The pending name, and whatever failed so far has the publication recovered.
LEMMA FinalizePublicationBacked ==
    ASSUME Held, Smooth, Backed, Held', Smooth', FinalizePublication
    PROVE  Backed'
  <1> DEFINE S == IF "anchor" \in q.open THEN UNION {Recover(v, "anchor") : v \in Checked} ELSE {q}
             next == IF "anchor" \in q.open THEN "pendingLate" ELSE "drain"
  <1>1. Finally("finalize", S, next)
    BY Zenon DEF FinalizePublication, Finally, Step, Checked
  <1> HIDE DEF next
  <1>2. Moving /\ pc = "finalize" /\ pc' = next
    BY <1>1, FinallyMoves
  <1>3. Lasting(q, q') /\ q'.open = q.open /\ q \in States /\ ~Has(q, "err")
    BY FinalizePublicationKeeps DEF Held, Has
  <1>4. "finalize" \in Later \cap BeforeFinalize
    BY LaterLabels
  <1>5. PICK v \in S : q' = Clear(v, {"err"})
    BY <1>1, FinallyStep
  <1>6. CASE "anchor" \notin q.open
    <2>1. next = "drain" /\ \A x \in S : Paid(q, x)
      BY <1>3, <1>6 DEF Paid, next
    <2>5. ~Shown(q')
      BY <1>2, <1>4, <1>6, <1>3 DEF Backed, Afloat, Lasting, Level, Supplied
    <2> HIDE DEF S
    <2> QED BY <1>1, <1>3, <1>4, <2>1, LaterLabels, <1>2, NothingSupplied, <2>5, PaidBacked
  <1>7. CASE "anchor" \in q.open
    <2>1. next = "pendingLate"
      BY <1>7 DEF next
    <2>2. "pendingLate" \in (BeforeRetire \cap Later) \ BeforeFinalize
      BY LaterLabels
    <2>3. Supplied'
      <3>1. q.open \ {} \subseteq q'.open
        BY <1>3
      <3>2. /\ {} \cap {"binding", "cleanup"} = {} /\ "identity" \notin {} /\ "pendingLate" # "slotLate"
            /\ "finalize" \in {"rollback", "finalize"} \cup BeforeRetire
            /\ "pendingLate" \notin {"rollback", "finalize"}
        OBVIOUS
      <3> QED BY <1>2, <1>3, <1>4, <2>1, <2>2, <3>1, <3>2, SuppliedOn
    <2>4. PICK u \in Checked : v \in Recover(u, "anchor")
      BY <1>5, <1>7
    <2> HIDE DEF S
    <2>5. /\ u \in States /\ ~Has(u, "err") /\ u.faults = q.faults /\ u.open = q.open
          /\ Kept(q, u) /\ Gentle(q, u)
          /\ u.edits = q.edits => u = q \/ At(q, "pending") # "none"
      BY <2>4, CheckedExact
    <2>6. Same(u, v) /\ v \in States
      BY <2>4, <2>5, RecoverSame DEF Stay, Same
    <2>7. /\ q'.where = v.where /\ q'.edits = v.edits /\ q'.faults = v.faults
          /\ q'.set = v.set \ {"err"}
      BY <1>5, <2>6, Flagged, FlaggedExact DEF Flags
    <2>8. /\ q.edits \in Nat /\ u.edits \in Nat /\ v.edits \in Nat
          /\ q.faults \in Nat /\ u.faults \in Nat /\ v.faults \in Nat
          /\ u.edits >= q.edits /\ v.edits >= u.edits /\ v.faults >= u.faults
      BY <1>3, <2>5, <2>6 DEF States, Same, Kept, Without, Lasting, Level
    <2>9. Unique(q) /\ Tame(q) /\ Afloat(q) /\ Unique(u) /\ Tame(u) /\ Afloat(u)
      <3>1. Unique(q) /\ Tame(q) /\ Afloat(q)
        BY DEF Backed
      <3>2. Level(q, u) /\ Firm(q, u) /\ ("stated" \in q.set => "stated" \in u.set)
        BY <2>5 DEF Kept, Without, Lasting
      <3> QED BY <2>5, <3>1, <3>2, AfloatOn DEF Gentle
    \* Where nothing happened nothing is done.
    <2>10. ASSUME q.faults = 0, u.edits = 0, "attempted" \in q.set
           PROVE  v = q /\ first = "none" /\ "releaseFailed" \notin q.set
      <3>1. q.edits = 0
        BY <2>8, <2>10
      <3>2. first = "none"
        BY <1>2, <1>3, <1>4, <2>8, <2>10, <3>1 DEF Backed, Told
      <3>3. Fair(q, "finalize")
        BY <1>2, <3>2 DEF Backed, Told, Smooth
      <3>4. u = q
        BY <1>4, <2>5, <2>10, <3>1, <3>3, PendingFree
      <3> QED BY <3>2, <3>3, <1>3, <2>4, <3>4, RecoverNothing DEF Fair, Noted, BodyLabels
    <2>11. q.edits = 0 /\ q'.edits = 1 /\ q'.faults = 0 => Tame(q')
      <3> SUFFICES ASSUME q.edits = 0, q'.edits = 1, q'.faults = 0 PROVE Tame(q')
        OBVIOUS
      <3>1. CASE u.edits = v.edits
        BY <2>6, <2>9, <3>1, <2>7 DEF Same, Level, Tame
      <3>2. CASE u.edits # v.edits
        <4>2. "attempted" \notin q.set
          BY <2>7, <2>10, <2>5, <2>8, <3>2
        <4>3. ~Unresolved(u)
          BY <2>5, <4>2 DEF Unresolved, Has, Kept, Without, Lasting, Level
        <4> QED BY <3>2, <2>4, <2>5, <4>3, RecoverResolved
      <3> QED BY <3>1, <3>2
    <2>12. ASSUME first = "none", "releaseFailed" \in q'.set, "attempted" \in q'.set
           PROVE  q'.edits + q'.faults >= 1
      <3>1. "attempted" \in q.set
        BY <1>3, <2>12 DEF Lasting, Level
      <3>2. CASE q'.edits = 0 /\ q'.faults = 0
        BY <2>5, <2>7, <2>8, <3>2, <2>10, <2>12, <3>1
      <3> QED BY <2>7, <2>8, <3>2
    <2>13. ASSUME first' \notin {"none"} \cup Excluded, first = "none" => "releaseFailed" \in q'.set,
                  Shown(q'), Slight(q')
           PROVE  FALSE
      <3>1. Shown(v) /\ Shown(u) /\ Shown(q)
        BY <2>5, <2>6, <2>7, <2>13 DEF Shown, Same, Kept, Without, Lasting, Level
      <3>2. /\ {"attempted", "stated"} \subseteq u.set /\ "resolved" \notin u.set /\ "attempted" \in q.set
            /\ u.edits = 0 => Rigged(u)
        BY <2>9, <3>1 DEF Afloat
      <3>3. "identity" \in u.open
        BY <1>2, <1>4, <2>5, <3>2 DEF Backed, Supplied
      <3>4. Undoable(u, "anchor")
        BY <1>7, <2>5, <2>9, <3>2, <3>3 DEF Undoable, Unresolved, Owned, Has
      <3>5. Pressing(u)
        <4>1. CASE first = "none"
          BY <2>7, <2>13, <4>1, <2>6 DEF Same, Volatile, Pressing
        <4>2. CASE first # "none"
          <5>2. Slight(q)
            BY <1>3, <2>13, SlightBack DEF Lasting
          <5>3. Pressing(q)
            BY <3>1, <1>2, <2>13, <4>2, <5>2 DEF Backed, Sunk, Moving
          <5> QED BY <3>1, <5>3, <2>5 DEF Pressing, Level, Kept, Without, Lasting
        <4> QED BY <4>1, <4>2
      <3>6. v.edits = u.edits => v.faults > u.faults /\ (Rigged(u) => v.faults >= u.faults + 3)
        BY <2>4, <3>1, <3>4, <3>5, RecoveryCosts
      <3>7. ~(q.faults = 0 /\ u.edits = 0)
        <4> SUFFICES ASSUME q.faults = 0, u.edits = 0 PROVE FALSE
          OBVIOUS
        <4> QED BY <2>7, <2>13, <2>10, <3>2
      <3>8. CASE v.edits = 0 /\ v.faults <= 3
        BY <2>5, <2>8, <3>2, <3>6, <3>7, <3>8
      <3>9. CASE v.faults = 0 /\ v.edits <= 1
        BY <2>5, <2>8, <3>7, <3>9, <3>6
      <3> QED BY <2>7, <2>13, <3>8, <3>9 DEF Slight
    <2> QED BY <1>2, <1>3, <1>4, <2>1, <2>2, <2>3, <2>11, <2>12, <2>13, LaterBacked
  <1> QED BY <1>6, <1>7

\* A recovery that is required fails three times before it leaves the generation shown.
LEMMA RequiredCosts ==
    ASSUME NEW w \in States, ~Has(w, "err"), Unique(w), Afloat(w), NEW d \in w.open,
           "identity" \in w.open, NEW v \in RequiredRecovery(w, d), Shown(v), v.edits = 0
    PROVE  v.faults >= w.faults + 3
  <1>2. Shown(w) /\ w.edits = 0
    BY RequiredSame DEF Level, States, Stay, Same
  <1>3. {"attempted", "stated"} \subseteq w.set /\ "resolved" \notin w.set /\ Rigged(w)
    BY <1>2 DEF Afloat
  <1> DEFINE p == Set(w, {"required"})
  <1>4. /\ p \in States /\ p.set = w.set \cup {"required"} /\ p.open = w.open /\ p.where = w.where
        /\ p.faults = w.faults /\ p.edits = w.edits
    BY Flagged, FlaggedExact DEF Flags
  <1>5. v \in Recover(p, d)
    BY <1>3 DEF RequiredRecovery, Require, Has
  <1> HIDE DEF p
  <1>6. Undoable(p, d) /\ Pressing(p) /\ Rigged(p)
    BY <1>3, <1>4 DEF Undoable, Pressing, Rigged, Unresolved, Has, Owned, Unique
  <1> QED BY <1>4, <1>5, <1>6, <1>2, RecoveryCosts

\* What the recovery after a failed close costs.
LEMMA ReleaseCosts ==
    ASSUME NEW w \in States, ~Has(w, "err"), Unique(w), Afloat(w), NEW x, x # "identity",
           NEW d \in w.open, d # x, "identity" \in w.open, NEW u \in Faults(w)
    PROVE  /\ \A y \in RequiredRecovery(u, d) : \A v : v = Remember(Close(y, {x})) =>
                (Shown(v) /\ v.edits = 0 => v.faults >= w.faults + 4)
           /\ \A v \in RequiredRecovery(Remember(Close(u, {x})), d) :
                Shown(v) /\ v.edits = 0 => v.faults >= w.faults + 4
  <1>1. /\ u \in States /\ u.where = w.where /\ u.open = w.open /\ u.set = w.set
        /\ u.edits = w.edits /\ u.faults = w.faults + 1
    BY FaultsExact
  <1>2. ~Has(u, "err") /\ Unique(u) /\ Afloat(u) /\ d \in u.open /\ "identity" \in u.open
    BY <1>1 DEF Has, Unique, Afloat, Shown, Rigged
  <1>3. ASSUME NEW y \in RequiredRecovery(u, d), NEW v, v = Remember(Close(y, {x}))
        PROVE  Shown(v) /\ v.edits = 0 => v.faults >= w.faults + 4
    <2>1. y \in States
      BY <1>1, RequiredSame DEF Stay, Same
    <2> DEFINE c == Close(y, {x})
    <2> HIDE DEF c
    <2>4. Shown(y) /\ y.edits = 0 => y.faults >= u.faults + 3
      BY <1>1, <1>2, RequiredCosts
    <2>5. y.faults \in Nat /\ u.faults \in Nat /\ w.faults \in Nat
      BY <1>1, <2>1 DEF States
    <2> QED BY <1>1, <2>1, CloseCloses, <1>3, RememberLevel, <2>4, <2>5 DEF Shown, c
  <1>4. ASSUME NEW v \in RequiredRecovery(Remember(Close(u, {x})), d), Shown(v), v.edits = 0
        PROVE  v.faults >= w.faults + 4
    <2> DEFINE c == Close(u, {x})
               r == Remember(c)
    <2>1. /\ c \in States /\ c.where = u.where /\ c.open = u.open \ {x} /\ c.set = u.set
          /\ c.edits = u.edits /\ c.faults = u.faults
      BY <1>1, CloseCloses
    <2> HIDE DEF c
    <2>2. /\ r \in States /\ r.where = c.where /\ r.open = c.open /\ r.set = c.set \cup {"releaseFailed"}
          /\ r.edits = c.edits /\ r.faults = c.faults
      BY <2>1, RememberLevel
    <2>3. v \in RequiredRecovery(r, d)
      BY <1>4 DEF c
    <2> HIDE DEF r
    <2>4. ~Has(r, "err") /\ Unique(r) /\ Afloat(r) /\ d \in r.open /\ "identity" \in r.open
      BY <1>2, <2>1, <2>2 DEF Has, Unique, Afloat, Shown, Rigged
    <2>5. v.faults >= r.faults + 3
      BY <1>4, <2>2, <2>3, <2>4, RequiredCosts
    <2> QED BY <1>1, <2>1, <2>2, <2>5, <2>3, RequiredSame DEF Stay, Same, States
  <1> QED BY <1>3, <1>4

\* The parts of a release.
LEMMA ReleaseParts ==
    ASSUME NEW w, NEW x, NEW before, NEW after, NEW d, NEW v \in Release(w, x, before, after, d)
    PROVE  \/ v = Close(w, {x})
           \/ \E u \in Faults(w) : \E y \in Undo(u, before, d) : v = Remember(Close(y, {x}))
           \/ \E u \in Faults(w) : v \in Undo(Remember(Close(u, {x})), after, d)
  BY DEF Release

\* What a recovery does is part of it.
LEMMA UndoParts ==
    ASSUME NEW w, NEW d
    PROVE  Undo(w, "recovery", d) = RequiredRecovery(w, d) /\ Undo(w, "nothing", d) = {w}
  BY DEF Undo

\* The pending directory.
LEMMA ReleasePendingBacked ==
    ASSUME Held, Smooth, Backed, Held', Smooth', ReleasePending
    PROVE  Backed'
  <1> DEFINE S == IF "pending" \in q.open
                  THEN Release(q, "pending", "recovery", "recovery", "anchor") ELSE {q}
  <1>1. Finally("pendingLate", S, "anchor")
    BY DEF ReleasePending
  <1>2. Moving /\ pc = "pendingLate" /\ pc' = "anchor"
    BY <1>1, FinallyMoves
  <1>3. Lasting(q, q') /\ q'.open = q.open \ {"pending"} /\ q \in States /\ ~Has(q, "err")
    BY ReleasePendingKeeps DEF Held, Has
  <1>4. \A v \in S : Paid(q, v)
    BY <1>3, ReleasePaid
  <1>5. PICK v \in S : q' = Clear(v, {"err"})
    BY <1>1, FinallyStep
  <1>6. v = q \/ v \in Release(q, "pending", "recovery", "recovery", "anchor")
    OBVIOUS
  <1> HIDE DEF S
  <1>7. /\ {"pendingLate", "anchor"} \subseteq (BeforeRetire \cap Later) \ BeforeFinalize
    BY LaterLabels
  <1>8. Supplied'
    BY <1>3, <1>2, <1>7, SuppliedOn
  <1>9. /\ v \in States /\ q'.where = v.where /\ q'.edits = v.edits /\ q'.faults = v.faults
        /\ q'.set = v.set \ {"err"} /\ q.faults \in Nat /\ v.faults \in Nat
    BY <1>4, <1>5, <1>3, Flagged, FlaggedExact DEF Paid, Flags, States
  <1>10. ASSUME first = "none", "releaseFailed" \in q'.set, Shown(q'), Slight(q')
         PROVE  FALSE
    <2>1. Fair(q, "pendingLate") /\ "identity" \in q.open
      BY <1>2, <1>7, <1>10 DEF Backed, Told, Smooth, Supplied
    <2>2. "anchor" \in q.open /\ "releaseFailed" \notin q.set
      BY <2>1 DEF Fair, Noted
    <2>3. Unique(q) /\ Afloat(q)
      BY DEF Backed
    <2> DEFINE c == Close(q, {"pending"})
    <2>5. v # q /\ v # c
      BY <1>9, <1>10, <2>2, <1>3, CloseCloses
    <2>6. v \in Release(q, "pending", "recovery", "recovery", "anchor")
      BY <1>6, <2>5
    <2>7. v.faults > q.faults
      BY <1>3, <2>5, <2>6, ReleasePaid
    <2>8. v.edits = 0 /\ v.faults <= 3 /\ Shown(v)
      BY <1>9, <1>10, <2>7 DEF Slight, Shown
    <2>9. v.faults >= q.faults + 4
      <3>1. CASE \E u \in Faults(q) : \E y \in Undo(u, "recovery", "anchor") : v = Remember(Close(y, {"pending"}))
        <4>1. PICK u \in Faults(q) : \E y \in RequiredRecovery(u, "anchor") : v = Remember(Close(y, {"pending"}))
          BY <3>1, UndoParts
        <4> QED BY <2>8, <4>1, <1>3, <2>1, <2>2, <2>3, ReleaseCosts
      <3>2. CASE \E u \in Faults(q) : v \in Undo(Remember(Close(u, {"pending"})), "recovery", "anchor")
        <4>1. PICK u \in Faults(q) : v \in RequiredRecovery(Remember(Close(u, {"pending"})), "anchor")
          BY <3>2, UndoParts
        <4> QED BY <2>8, <4>1, <1>3, <2>1, <2>2, <2>3, ReleaseCosts
      <3> QED BY <2>5, <2>6, <3>1, <3>2, ReleaseParts
    <2> QED BY <1>9, <2>8, <2>9
  <1> QED BY <1>1, <1>3, <1>4, <1>7, <1>8, <1>10, PaidBacked

\* The slot: a failed close has the recovery tried, before or after.
LEMMA ReleaseSlotBacked ==
    ASSUME Held, Smooth, Backed, Held', Smooth', ReleaseSlot
    PROVE  Backed'
  <1> DEFINE recovery == IF Has(q, "retiring") THEN "recovery" ELSE "nothing"
             again(w) == IF Has(w, "retired") /\ ~Has(w, "resolved")
                         THEN Undo(w, recovery, CleanupAnchor(w)) ELSE {w}
             closed == Close(q, {"slot"})
             R == Release(q, "slot", recovery, "nothing", CleanupAnchor(q))
             S == IF "slot" \in q.open THEN UNION {IF v = closed THEN {v} ELSE again(v) : v \in R}
                  ELSE {q}
  <1>1. Finally("slotLate", S, "cleanup")
    BY DEF ReleaseSlot
  <1>2. Moving /\ pc = "slotLate" /\ pc' = "cleanup"
    BY <1>1, FinallyMoves
  <1>3. Lasting(q, q') /\ q \in States /\ ~Has(q, "err")
    BY ReleaseSlotKeeps DEF Held, Has
  <1>4. recovery \in {"rollback", "recovery", "nothing"}
    OBVIOUS
  <1>5. ASSUME NEW v \in S
        PROVE  v = q \/ v = closed \/ \E u \in R : u # closed /\ v \in again(u)
    OBVIOUS
  <1> HIDE DEF S
  <1>6. closed \in States /\ closed.set = q.set /\ closed.edits = q.edits
    BY <1>3, CloseCloses
  <1> HIDE DEF recovery, closed
  <1>7. ASSUME NEW u \in R, u # closed
        PROVE  u \in States /\ u.faults > q.faults
    <2>2. Paid(q, u) /\ (u = closed \/ u.faults > q.faults)
      BY <1>3, <1>4, <1>7, ReleasePaid DEF closed
    <2> QED BY <1>7, <2>2 DEF Paid
  <1>8. ASSUME NEW u \in States, NEW v \in again(u)
        PROVE  Level(u, v)
    BY <1>4, <1>8, UndoSame, RaiseSame DEF Stay, Same
  <1> HIDE DEF R, again
  <1>9. ASSUME NEW u \in R, u # closed, NEW v \in again(u)
        PROVE  Paid(q, v) /\ v.faults > q.faults
    BY <1>7, <1>8, <1>9, <1>3 DEF Level, States, Paid
  <1>10. \A v \in S : Paid(q, v)
    BY <1>3, <1>5, <1>6, <1>9 DEF Paid
  <1>11. PICK v \in S : q' = Clear(v, {"err"})
    BY <1>1, FinallyStep
  <1>12. /\ v \in States /\ q'.where = v.where /\ q'.edits = v.edits /\ q'.faults = v.faults
         /\ q'.set = v.set \ {"err"} /\ q.faults \in Nat /\ v.faults \in Nat
    BY <1>10, <1>11, <1>3, Flagged, FlaggedExact DEF Paid, Flags, States
  <1>13. ASSUME first = "none", "releaseFailed" \in q'.set, Shown(q'), Slight(q')
         PROVE  FALSE
    <2>2. /\ "releaseFailed" \notin q.set /\ "resolved" \notin q.set
      BY <1>2, <1>13 DEF Fair, Noted, Backed, Told, Smooth
    <2>3. /\ "identity" \in q.open /\ CleanupAnchor(q) \in q.open /\ CleanupAnchor(q) # "slot"
          /\ {"retiring", "retired"} \subseteq q.set
      BY <1>2, <1>13 DEF Backed, Supplied, CleanupAnchor
    <2>4. Unique(q) /\ Afloat(q)
      BY DEF Backed
    <2>5. recovery = "recovery"
      BY <2>3 DEF recovery, Has
    <2>7. PICK u \in R : u # closed /\ v \in again(u)
      BY <1>5, <1>6, <1>12, <1>13, <2>2
    <2>8. u \in States /\ Level(u, v) /\ v.faults > q.faults
      BY <1>7, <1>8, <1>9, <2>7
    <2>9. v.edits = 0 /\ v.faults <= 3 /\ Shown(v)
      BY <1>12, <1>13, <2>8 DEF Slight, Shown
    <2>10. Shown(u) /\ u.edits = 0 /\ u.faults \in Nat /\ v.faults >= u.faults
      BY <2>8, <2>9 DEF Level, States
    <2> DEFINE d == CleanupAnchor(q)
    <2>11. d \in q.open /\ d # "slot"
      BY <2>3
    <2>12. u \in Release(q, "slot", "recovery", "nothing", d)
      BY <2>5, <2>7 DEF R
    <2> HIDE DEF d
    <2>13. "slot" # "identity"
      OBVIOUS
    <2>14. CASE \E f \in Faults(q) : \E y \in Undo(f, "recovery", d) : u = Remember(Close(y, {"slot"}))
      <3>1. PICK f \in Faults(q) : \E y \in RequiredRecovery(f, d) : u = Remember(Close(y, {"slot"}))
        BY <2>14, UndoParts
      <3>3. u.faults >= q.faults + 4
        BY <2>10, <3>1, <1>3, <2>3, <2>4, <2>11, <2>13, ReleaseCosts
      <3> QED BY <1>12, <2>9, <2>10, <3>3
    <2>15. CASE \E f \in Faults(q) : u \in Undo(Remember(Close(f, {"slot"})), "nothing", d)
      <3>1. PICK f \in Faults(q) : u = Remember(Close(f, {"slot"}))
        BY <2>15, UndoParts
      <3> DEFINE c == Close(f, {"slot"})
      <3>3. c \in States /\ c.open = q.open \ {"slot"} /\ c.set = q.set
        BY <1>3, FaultsExact, CloseCloses
      <3> HIDE DEF c
      <3>5. Has(u, "retired") /\ ~Has(u, "resolved") /\ CleanupAnchor(u) = d
        BY <2>2, <2>3, <3>1, <3>3, RememberLevel DEF Has, CleanupAnchor, d, c
      <3>7. v \in RequiredRecovery(Remember(Close(f, {"slot"})), d)
        BY <3>1, <2>5, <2>7, <3>5, UndoParts DEF again
      <3>9. v.faults >= q.faults + 4
        BY <2>9, <3>7, <1>3, <2>3, <2>4, <2>11, <2>13, ReleaseCosts
      <3> QED BY <1>12, <2>9, <3>9
    <2> QED BY <2>7, <2>14, <2>15, <2>12, ReleaseParts DEF closed
  <1> QED BY <1>1, <1>3, <1>10, <1>13, LaterLabels, <1>2, NothingSupplied, PaidBacked

\* The emergency of a release that could not be run, or was interrupted when it was complete.
LEMMA EscapeBacked ==
    ASSUME Held, Smooth, Backed, Held', Smooth', EscapeBefore \/ EscapeAfter
    PROVE  Backed'
  <1>1. Lasting(q, q') /\ q \in States /\ ~Has(q, "err")
    BY EscapeKeeps DEF Held, Has
  <1>2. ASSUME NEW f \in Faults(q), NEW u \in EmergencyRecover(Remember(f))
        PROVE  /\ u \in States /\ u.faults > q.faults
               /\ Remember(f) \in States /\ Level(Remember(f), u)
    BY <1>1, FaultsExact, RememberLevel, EmergencySame DEF Stay, Same, Level, States
  <1>3. {"early", "conclude", "concluded"} \subseteq Later /\ "concluded" \notin BeforeFinalize \cup BeforeRetire
    BY LaterLabels
  <1>4. CASE EscapeBefore
    <2>1. PICK f \in Faults(q) : \E v \in {Clear(Close(u, Descriptors), {"lock"}) : u \in EmergencyRecover(Remember(f))} :
             /\ q' = Clear(v, {"err"}) /\ pc' = "concluded" /\ outcome' = outcome
             /\ first' = IF first = "none" /\ (Has(v, "err") \/ Failed(v)) THEN pc ELSE first
      BY <1>4 DEF EscapeBefore, Step
    <2>2. PICK v \in {Clear(Close(u, Descriptors), {"lock"}) : u \in EmergencyRecover(Remember(f))} :
             /\ q' = Clear(v, {"err"}) /\ pc' = "concluded" /\ outcome' = outcome
             /\ first' = IF first = "none" /\ (Has(v, "err") \/ Failed(v)) THEN pc ELSE first
      BY <2>1
    <2>3. PICK u \in EmergencyRecover(Remember(f)) : v = Clear(Close(u, Descriptors), {"lock"})
      BY <2>2
    <2>4. u \in States /\ u.faults > q.faults /\ Remember(f) \in States /\ Level(Remember(f), u)
      BY <1>2
    <2> DEFINE c == Close(u, Descriptors)
    <2>5. c \in States /\ c.where = u.where /\ c.faults = u.faults /\ c.edits = u.edits
      BY <2>4, CloseCloses
    <2>6. v = Clear(c, {"lock"})
      BY <2>3
    <2> HIDE DEF c
    <2>8. q'.where = u.where /\ q'.faults = u.faults /\ q'.edits = u.edits
      BY <2>2, <2>5, <2>6, Flagged, FlaggedExact DEF Flags
    <2>10. q.faults \in Nat /\ u.faults \in Nat
      BY <1>1, <2>4 DEF States
    <2>11. Priced(q, q') /\ q'.faults # 0
      BY <2>4, <2>8, <2>10 DEF Priced
    <2>12. pc = "early" /\ "early" \in BeforeFinalize
      BY <1>4, LaterLabels, Zenon DEF EscapeBefore
    <2>13. ASSUME Shown(q'), Slight(q') PROVE FALSE
      <3>1. u.edits = 0 /\ u.faults <= 3 /\ Shown(u)
        BY <2>8, <2>11, <2>13 DEF Slight, Shown
      <3> DEFINE r == Remember(f)
      <3>3. /\ r \in States /\ r.where = q.where /\ r.open = q.open /\ r.set = q.set \cup {"releaseFailed"}
            /\ r.edits = q.edits /\ r.faults = q.faults + 1
        BY <1>1, FaultsExact, RememberLevel
      <3>4. u \in EmergencyRecover(r) /\ Level(r, u)
        BY <2>3, <2>4
      <3> HIDE DEF r
      <3>5. Shown(r) /\ r.edits = 0
        BY <3>1, <3>3, <3>4 DEF Level, States
      <3>6. Unique(r) /\ Afloat(r) /\ ~Has(r, "err")
        BY <1>1, <3>3 DEF Backed, Unique, Afloat, Shown, Rigged, Has
      <3>7. {"attempted", "stated"} \subseteq r.set /\ "resolved" \notin r.set /\ Rigged(r)
        BY <3>5, <3>6 DEF Afloat
      <3>8. {"anchor", "identity"} \subseteq q.open
        BY <2>12, <3>3, <3>7 DEF Backed, Supplied
      <3>9. Undoable(r, "anchor")
        BY <3>3, <3>6, <3>7, <3>8 DEF Undoable, Unresolved, Owned, Has
      <3> QED BY <2>10, <3>1, <3>3, <3>4, <3>7, <3>9, <3>5, EmergencyCosts
    <2> QED BY <1>1, <1>3, <2>2, Moves, <2>11, <2>12, <2>13, NothingSupplied, PricedBacked
  <1>5. CASE EscapeAfter
    <2>1. PICK f \in Faults(q) : \E v \in IF Clean(q) THEN {f}
                                          ELSE {Close(u, Descriptors) : u \in EmergencyRecover(Remember(f))} :
             /\ q' = Clear(v, {"err"}) /\ pc' = "concluded" /\ outcome' = outcome
             /\ first' = IF first = "none" /\ (Has(v, "err") \/ Failed(v)) THEN pc ELSE first
      BY <1>5 DEF EscapeAfter, Step
    <2>2. PICK v : /\ v = f \/ \E u \in EmergencyRecover(Remember(f)) : v = Close(u, Descriptors)
                   /\ q' = Clear(v, {"err"}) /\ pc' = "concluded" /\ outcome' = outcome
                   /\ first' = IF first = "none" /\ (Has(v, "err") \/ Failed(v)) THEN pc ELSE first
      BY <2>1
    <2>3. v \in States /\ v.faults > q.faults
      BY <1>1, FaultsExact, <1>2, CloseCloses, <2>2 DEF States
    <2>4. Moving
      BY <2>2, Moves
    <2>6. Priced(q, q')
      BY <2>3, <1>1, <2>2, FlaggedExact DEF Priced, States, Flags
    <2>7. pc = "conclude" /\ "conclude" \notin BeforeFinalize /\ "conclude" \in Excluded
      BY <1>5, LaterLabels, Zenon DEF EscapeAfter, Excluded
    <2> QED BY <1>1, <1>3, <2>2, <2>4, <2>6, <2>7, NothingSupplied, PricedBacked DEF Moving
  <1> QED BY <1>4, <1>5

\* A call that raises at its end has failed somewhere.
LEMMA ConcludeBacked ==
    ASSUME Held, Smooth, Backed, Held', Smooth', Conclude
    PROVE  Backed'
  <1>1. PICK v \in IF Failed(q) \/ ~Has(q, "housekept") THEN {Raise(q)}
                   ELSE {q} \cup {Raise(Close(w, {"binding", "decoded"})) : w \in Faults(q)} :
         /\ q' = Clear(v, {"err"})
         /\ outcome' = IF Has(v, "err") THEN "raised" ELSE "returned"
         /\ first' = IF first = "none" /\ Has(v, "err") THEN "conclude" ELSE first
    BY DEF Conclude
  <1>2. pc \in {"conclude", "concluded"} /\ pc' = "done"
    BY DEF Conclude
  <1>3. Lasting(q, q') /\ q \in States
    BY ConcludeKeeps DEF Held
  <1>4. v \in States /\ v.edits = q.edits
    BY <1>3, FaultsExact, CloseCloses, RaiseRaises, <1>1
  <1>6. Unique(q') /\ Tame(q') /\ Afloat(q')
    BY <1>3, <1>1, <1>4, FlaggedExact, AfloatOn DEF Backed, Lasting, Level, Flags
  <1>7. Told'
    BY <1>1, <1>2 DEF Told, BeforeFinalize, BeforeRetire
  <1>9. Sunk'
    <2> SUFFICES ASSUME Shown(q'), Slight(q'), first' \notin {"none"} \cup Excluded
                 PROVE  FALSE
      BY DEF Sunk, Shown, Slight, Pressing
    <2>1. first' = first
      BY <1>1 DEF Excluded
    <2> QED BY <1>2, <2>1, <1>3, SlightBack DEF BeforeFinalize, Backed, Sunk, Lasting
  <1>10. Unique(q)' /\ Tame(q)' /\ Afloat(q)'
    BY <1>6 DEF Unique, Tame, Afloat, Shown, Rigged
  <1> QED
    BY <1>7, <1>2, NothingSupplied, <1>9, <1>10 DEF Backed, BeforeReplace, BeforePending,
       BeforeSlot

\* Nothing is there where nothing was, unless somebody else renames.
LEMMA AbsentQuiet ==
    ASSUME NEW w \in States, NEW n, At(w, n) = "none", NEW v \in RequireAbsent(w, n), v.edits = w.edits
    PROVE  v = w
  <1>1. PICK t \in Outside(w) : v = IF At(t, n) = "none" THEN t ELSE Raise(t)
    BY DEF RequireAbsent
  <1>2. t \in States
    BY OutsideExact
  <1>4. t = w
    BY <1>2, <1>1, RaiseRaises, OutsideQuiet DEF States
  <1> QED BY <1>1, <1>4

\* What is published is found to be so, unless something fails.
LEMMA PublishedCosts ==
    ASSUME NEW w \in States, At(w, "normal") = "generation", ~Has(w, "err"),
           NEW v \in RequirePublished(w), v.edits = w.edits
    PROVE  v \in States /\ (v = w \/ v.faults = w.faults + 1)
  <1>1. PICK t \in Outside(w) :
          \E a \in May(t) : v = IF At(a, "normal") = "generation" THEN a ELSE Raise(a)
    BY DEF RequirePublished
  <1>2. PICK a \in May(t) : v = IF At(a, "normal") = "generation" THEN a ELSE Raise(a)
    BY <1>1
  <1>3. t \in States
    BY OutsideExact
  <1>4. /\ a \in States /\ a.edits = t.edits /\ (a = t \/ a.faults = t.faults + 1)
    <2>1. CASE a = t
      BY <1>3, <2>1
    <2>2. CASE \E f \in Faults(t) : a = Raise(f)
      <3>1. PICK f \in Faults(t) : a = Raise(f)
        BY <2>2
      <3> QED BY <3>1, <1>3, FaultsExact, RaiseRaises
    <2> QED BY <1>2, <2>1, <2>2 DEF May
  <1>5. v \in States /\ v.edits = a.edits /\ v.faults = a.faults
    BY <1>2, <1>4, RaiseRaises
  <1> QED BY <1>2, <1>4, <1>5, <1>3, <1>1, OutsideQuiet DEF States

\* The check of the published generation is gentle.
LEMMA PublishedGentle ==
    ASSUME NEW w \in States, NEW v \in RequirePublished(w)
    PROVE  v \in States /\ Gentle(w, v)
  <1>1. PICK t \in Outside(w) :
          \E a \in May(t) : v = IF At(a, "normal") = "generation" THEN a ELSE Raise(a)
    BY DEF RequirePublished
  <1>2. PICK a \in May(t) : v = IF At(a, "normal") = "generation" THEN a ELSE Raise(a)
    BY <1>1
  <1>3. t \in States /\ Gentle(w, t)
    BY OutsideExact, OutsideSame DEF Stay
  <1>4. a \in States /\ Gentle(t, a)
    <2>1. CASE a = t
      BY <1>3, <2>1, PlainGentle
    <2>2. CASE \E f \in Faults(t) : a = Raise(f)
      <3>1. PICK f \in Faults(t) : a = Raise(f)
        BY <2>2
      <3>2. f \in States /\ f.edits = t.edits /\ f.faults = t.faults + 1 /\ f.where = t.where
            /\ t.faults \in Nat
        BY <1>3, FaultsExact DEF States
      <3> QED BY <3>1, <3>2, RaiseRaises, RaiseSame, PlainGentle DEF Gentle, Unique, Tame
    <2> QED BY <1>2, <2>1, <2>2 DEF May
  <1> QED BY <1>3, <1>4, <1>2, RaiseRaises, RaiseSame, PlainGentle

\* The slot moves into the generation, unless something fails.
LEMMA MoveSlotCosts ==
    ASSUME NEW w \in States, ~Has(w, "err"), w.where["slot"] = "slot",
           \A y \in Nodes : w.where[y] = "slot" => y = "slot",
           NEW v \in MoveSlot(w), v.edits = w.edits, Has(v, "err")
    PROVE  v.faults > w.faults
  <1> DEFINE moved(t, u) == {y \in Nodes : t.where[y] = "slot" /\ u.where[y] = "inside"}
             r(u) == Set(Clear(u, {"err"}), {"retired"})
             ends(t, u) ==
               IF moved(t, u) = {"slot"} THEN RequireAbsent(r(u), "slot")
               ELSE IF moved(t, u) # {} THEN Restore(r(u), CHOOSE y \in moved(t, u) : TRUE, "slot")
               ELSE IF At(u, "slot") = "slot" THEN {Raise(u)}
               ELSE {Raise(r(u))}
  <1>1. PICK t \in Outside(w) : \E u \in Rename(t, "slot", "inside") : v \in ends(t, u)
    BY DEF MoveSlot
  <1>2. PICK u \in Rename(t, "slot", "inside") : v \in ends(t, u)
    BY <1>1
  <1>3. t \in States /\ t.edits \in Nat /\ w.edits \in Nat /\ w.faults \in Nat
    BY OutsideExact DEF States
  <1>4. "inside" \in Places /\ "slot" \in Places /\ "slot" \in Nodes /\ "slot" # "none" /\ "slot" # "inside"
    BY Own, NamesPlaces DEF Names
  <1>5. /\ u \in States /\ u.edits = t.edits /\ u.faults \in {t.faults, t.faults + 1}
        /\ At(t, "slot") # "none" => u = Put(t, At(t, "slot"), "inside") \/ u.faults = t.faults + 1
    <2>1. u \in Rename(t, "slot", "inside") /\ t \in States /\ "inside" \in Places
      BY <1>2, <1>3, <1>4
    <2>2. /\ u \in States /\ u.open = t.open /\ u.set \ {"err"} = t.set \ {"err"}
          /\ u.edits = t.edits /\ u.faults \in {t.faults, t.faults + 1}
          /\ \/ u.where = t.where
             \/ At(t, "slot") \in Nodes /\ u.where = [t.where EXCEPT ![At(t, "slot")] = "inside"]
          /\ ~Has(u, "err") => At(t, "slot") \in Nodes /\ u = Put(t, At(t, "slot"), "inside")
          /\ Has(u, "err") /\ At(t, "slot") # "none" => Has(t, "err") \/ u.faults = t.faults + 1
          /\ At(t, "slot") # "none" =>
               \/ u = Put(t, At(t, "slot"), "inside")
               \/ Has(u, "err") /\ u.faults = t.faults + 1
      BY ONLY <2>1, RenameExact
    <2> QED BY <2>2
  <1>6. /\ r(u) \in States /\ r(u).edits = u.edits /\ r(u).faults = u.faults /\ r(u).where = u.where
        /\ ~Has(r(u), "err")
    BY <1>5, Flagged, FlaggedExact DEF Flags, Has
  <1>7. moved(t, u) \subseteq Nodes /\ \A y \in moved(t, u) : t.where[y] = "slot"
    OBVIOUS
  <1>10. \/ moved(t, u) = {"slot"} /\ v \in RequireAbsent(r(u), "slot")
         \/ moved(t, u) # {"slot"} /\ moved(t, u) # {} /\ \E y \in Nodes : v \in Restore(r(u), y, "slot")
         \/ moved(t, u) = {} /\ (v = Raise(u) \/ v = Raise(r(u)))
    BY <1>2, <1>7
  <1> HIDE DEF ends, moved
  <1>11. v.edits >= u.edits /\ v.faults >= u.faults
    <2>1. u.edits >= u.edits /\ u.faults >= u.faults
      BY <1>5 DEF States
    <2>2. CASE v \in RequireAbsent(r(u), "slot")
      <3>1. PICK z \in Outside(r(u)) : v = IF At(z, "slot") = "none" THEN z ELSE Raise(z)
        BY <2>2 DEF RequireAbsent
      <3> QED BY <1>6, <2>1, <3>1, OutsideExact, OutsideOn, RaiseRaises DEF Onward
    <2>3. CASE \E y \in Nodes : v \in Restore(r(u), y, "slot")
      <3>1. v.edits = r(u).edits /\ v.faults \in {r(u).faults, r(u).faults + 1}
        <4>1. PICK y \in Nodes : v \in Restore(r(u), y, "slot")
          BY <2>3
        <4>2. r(u) \in States /\ "slot" \in Places
          BY <1>4, <1>6
        <4> HIDE DEF r
        <4>3. /\ v \in States /\ v.open = r(u).open /\ v.set \ {"err"} = r(u).set \ {"err"} /\ Has(v, "err")
              /\ v.edits = r(u).edits /\ v.faults \in {r(u).faults, r(u).faults + 1}
              /\ v.where = r(u).where
                 \/ (At(r(u), "slot") = "none" /\ v.where = [r(u).where EXCEPT ![y] = "slot"])
              /\ At(r(u), "slot") = "none" =>
                   v.where = [r(u).where EXCEPT ![y] = "slot"] \/ v.faults = r(u).faults + 1
          BY ONLY <4>1, <4>2, RestoreExact
        <4> QED BY <4>3
      <3> QED BY <1>6, <2>1, <3>1 DEF States
    <2>4. CASE v = Raise(u) \/ v = Raise(r(u))
      BY <1>5, <1>6, <2>1, <2>4, RaiseRaises
    <2> QED BY <1>10, <2>2, <2>3, <2>4
  <1>12. t = w
    BY <1>5, <1>11, <1>1, <1>3, OutsideQuiet
  <1>14. CASE u = Put(w, "slot", "inside")
    <2>1. u.where["slot"] = "inside" /\ u.where = [w.where EXCEPT !["slot"] = "inside"]
          /\ u.edits = w.edits
      BY <1>4, <1>14, PutExact DEF States
    <2>2. moved(t, u) = {"slot"}
      BY <1>4, <1>7, <1>12, <2>1 DEF moved
    <2>6. v = r(u)
      BY <1>6, <2>1, <1>10, <2>2, <1>4, AbsentQuiet DEF At, States
    <2> QED BY <1>6, <2>6
  <1>15. CASE u.faults = w.faults + 1
    BY <1>11, <1>15, MoveSlotKept, <1>3 DEF Kept, Without, States
  <1> QED BY <1>14, <1>15, <1>4, <1>5, <1>12, AtOnly

\* It is a part of the step.
LEMMA RetireSlotParts ==
    ASSUME RetireSlot
    PROVE  Finally("retire",
                   IF /\ q.set \cap {"releaseFailed", "rollbackFailed", "required"} = {}
                      /\ Has(q, "committed") /\ Unresolved(q)
                   THEN Except(Retired, LAMBDA v : Recover(Require(Remember(v)), CleanupAnchor(v)))
                   ELSE {q},
                   "slotLate")
  BY Zenon DEF RetireSlot, Retired, Ready, AtHand, Again

\* It is done in this order.
LEMMA RetiredParts ==
    /\ \A v \in Ready :
         \E y \in RequirePublished(Set(q, {"retiring"})) :
            v = y \/ (~Has(y, "err") /\ At(y, "slot") # "slot" /\ v = Raise(y))
    /\ \A v \in Ready : ~Has(v, "err") => v \in RequirePublished(Set(q, {"retiring"}))
    /\ \A v \in Retired :
         \/ v \in Ready /\ Has(v, "err")
         \/ \E u \in Ready : ~Has(u, "err") /\ v \in MoveSlot(u) /\ Has(v, "err")
         \/ \E u \in Ready : \E t \in MoveSlot(u) : ~Has(u, "err") /\ ~Has(t, "err") /\ v \in Again(t)
    /\ \A w : \A v \in Again(w) :
         \/ v \in RequirePublished(w) /\ Has(v, "err")
         \/ \E x \in RequirePublished(w) : ~Has(x, "err") /\ v \in RequireAbsent(x, "slot")
  <1>1. ASSUME NEW v \in Ready
        PROVE  \E y \in RequirePublished(Set(q, {"retiring"})) :
                  v = y \/ (~Has(y, "err") /\ At(y, "slot") # "slot" /\ v = Raise(y))
    BY DEF Ready, Then, AtHand
  <1>2. ASSUME NEW v \in Ready, ~Has(v, "err")
        PROVE  v \in RequirePublished(Set(q, {"retiring"}))
    <2>1. PICK y \in RequirePublished(Set(q, {"retiring"})) : ~Has(y, "err") /\ v \in AtHand(y)
      BY <1>2 DEF Ready, Then
    <2>2. Has(Raise(y), "err")
      BY DEF Raise, Has, Set
    <2> QED BY <1>2, <2>1, <2>2 DEF AtHand
  <1>3. ASSUME NEW v \in Retired
        PROVE  \/ v \in Ready /\ Has(v, "err")
               \/ \E u \in Ready : ~Has(u, "err") /\ v \in MoveSlot(u) /\ Has(v, "err")
               \/ \E u \in Ready : \E t \in MoveSlot(u) : ~Has(u, "err") /\ ~Has(t, "err") /\ v \in Again(t)
    <2> DEFINE M == Then(Ready, MoveSlot)
    <2>1. \A t \in M : (t \in Ready /\ Has(t, "err")) \/ \E u \in Ready : ~Has(u, "err") /\ t \in MoveSlot(u)
      BY DEF Then
    <2> HIDE DEF M
    <2> QED BY <2>1 DEF Retired, Then
  <1>4. ASSUME NEW w, NEW v \in Again(w)
        PROVE  \/ v \in RequirePublished(w) /\ Has(v, "err")
               \/ \E x \in RequirePublished(w) : ~Has(x, "err") /\ v \in RequireAbsent(x, "slot")
    BY DEF Again, Then
  <1> QED BY <1>1, <1>2, <1>3, <1>4

\* Whatever somebody else renames meanwhile is left alone.
LEMMA RetiredGentle ==
    ASSUME Held, NEW v \in Retired
    PROVE  v \in States /\ Kept(q, v) /\ Gentle(q, v)
  <1> DEFINE w == Set(q, {"retiring"})
  <1>1. w \in States /\ Kept(q, w) /\ Gentle(q, w)
    BY Flagged, FlaggedExact, KeptFlags, PlainGentle DEF Held, Flags
  <1> HIDE DEF w
  <1>2. ASSUME NEW t \in States, NEW u \in RequirePublished(t)
        PROVE  u \in States /\ Kept(t, u) /\ Gentle(t, u)
    BY RequirePublishedSame, SameKept, PublishedGentle DEF Stay
  <1>3. ASSUME NEW u \in Ready
        PROVE  u \in States /\ Kept(q, u) /\ Gentle(q, u)
    <2>1. PICK y \in RequirePublished(w) : u = y \/ u = Raise(y)
      BY RetiredParts DEF w
    <2>2. y \in States /\ Kept(w, y) /\ Gentle(w, y)
      BY <1>1, <1>2
    <2>3. Kept(q, y) /\ Gentle(q, y)
      BY <1>1, <2>2, KeptTrans, PlainGentle
    <2> QED BY <2>1, <2>2, <2>3, RaiseRaises, RaiseSame, SameKept, KeptTrans, PlainGentle
  <1>4. ASSUME NEW u \in Ready, NEW t \in MoveSlot(u)
        PROVE  t \in States /\ Kept(q, t) /\ Gentle(q, t)
    BY <1>3, MoveSlotKept, KeptTrans, PlainGentle DEF Kept, Without
  <1>5. ASSUME NEW t \in States, NEW z \in Again(t)
        PROVE  z \in States /\ Kept(t, z) /\ Gentle(t, z)
    <2>1. CASE z \in RequirePublished(t)
      BY <1>2, <1>5, <2>1
    <2>2. CASE \E x \in RequirePublished(t) : z \in RequireAbsent(x, "slot")
      <3>1. PICK x \in RequirePublished(t) : z \in RequireAbsent(x, "slot")
        BY <2>2
      <3>2. x \in States /\ Kept(t, x) /\ Gentle(t, x)
        BY <1>2, <1>5
      <3> QED BY <3>2, <3>1, AbsentSame, SameKept, KeptTrans, PlainGentle DEF Same, Stay
    <2> QED BY <1>5, <2>1, <2>2, RetiredParts
  <1>6. CASE v \in Ready
    BY <1>3, <1>6
  <1>7. CASE \E u \in Ready : v \in MoveSlot(u)
    BY <1>4, <1>7
  <1>8. CASE \E u \in Ready : \E t \in MoveSlot(u) : v \in Again(t)
    <2>1. PICK u \in Ready : \E t \in MoveSlot(u) : v \in Again(t)
      BY <1>8
    <2>2. PICK t \in MoveSlot(u) : v \in Again(t)
      BY <2>1
    <2> QED BY <1>4, <1>5, <2>2, KeptTrans, PlainGentle
  <1> QED BY <1>6, <1>7, <1>8, RetiredParts

\* The retirement of the slot notes what it did.
LEMMA RetiredNoted ==
    ASSUME Held, NEW v \in Retired, ~Has(v, "err")
    PROVE  v.set = q.set \cup {"retiring", "retired"}
  <1> DEFINE w == Set(q, {"retiring"})
  <1>1. PICK u \in Ready : \E t \in MoveSlot(u) : ~Has(u, "err") /\ ~Has(t, "err") /\ v \in Again(t)
    BY RetiredParts
  <1>2. PICK t \in MoveSlot(u) : ~Has(u, "err") /\ ~Has(t, "err") /\ v \in Again(t)
    BY <1>1
  <1>3. w \in States /\ w.set = q.set \cup {"retiring"}
    BY Flagged DEF Held, Flags
  <1>4. u \in RequirePublished(w)
    BY <1>2, RetiredParts
  <1> HIDE DEF w
  <1>5. u \in States /\ u.set = w.set
    BY <1>2, <1>3, <1>4, PublishedClean, OutsideExact
  <1>6. PICK s \in Outside(u) : \E z \in States :
           /\ z.where = [s.where EXCEPT !["slot"] = "inside"] /\ z.edits = s.edits
           /\ z.set = s.set \cup {"retired"} /\ t \in Outside(z)
    BY <1>2, <1>5, MoveSlotClean
  <1>7. t \in States /\ t.set = u.set \cup {"retired"}
    <2>1. PICK z \in States : z.set = s.set \cup {"retired"} /\ t \in Outside(z)
      BY <1>6
    <2> QED BY <2>1, <1>5, OutsideExact
  <1>8. PICK x \in RequirePublished(t) : ~Has(x, "err") /\ v \in RequireAbsent(x, "slot")
    BY <1>2, RetiredParts
  <1>9. x \in States /\ x.set = t.set
    BY <1>7, <1>8, PublishedClean, OutsideExact
  <1> QED BY <1>3, <1>5, <1>7, <1>9, <1>8, AbsentClean, OutsideExact

\* Where nobody else renames, something must fail for it to fail.
LEMMA RetiredCosts ==
    ASSUME Held, Fair(q, "retire"), NEW v \in Retired, Has(v, "err"), v.edits = 0
    PROVE  v.faults > q.faults
  <1> DEFINE w == Set(q, {"retiring"})
  <1>1. /\ w \in States /\ w.set = q.set \cup {"retiring"} /\ w.where = q.where /\ w.edits = q.edits
        /\ w.faults = q.faults /\ ~Has(w, "err") /\ q \in States
    BY Flagged, FlaggedExact DEF Held, Has, Flags
  <1>2. \A u \in Ready : u \in States /\ \E y \in RequirePublished(w) :
           u = y \/ (~Has(y, "err") /\ At(y, "slot") # "slot" /\ u = Raise(y))
    <2>1. \A u \in Ready : \E y \in RequirePublished(w) :
            u = y \/ (~Has(y, "err") /\ At(y, "slot") # "slot" /\ u = Raise(y))
      BY RetiredParts
    <2> HIDE DEF w
    <2> QED BY <2>1, <1>1, PublishedGentle, RaiseRaises
  <1>3. \A u \in Ready : ~Has(u, "err") => u \in RequirePublished(w)
    BY RetiredParts
  <1> HIDE DEF w
  <1>4. v \in States /\ v.faults \in Nat /\ q.faults \in Nat /\ q.edits \in Nat
    BY <1>1, RetiredGentle DEF States
  \* Nothing so far.
  <1>5. ASSUME q.edits = 0
        PROVE  /\ At(w, "normal") = "generation" /\ At(w, "slot") = "slot" /\ w.edits = 0
               /\ w.where["slot"] = "slot" /\ \A y \in Nodes : w.where[y] = "slot" => y = "slot"
    <2>2. /\ w.where["generation"] = "normal" /\ w.where["slot"] = "slot" /\ w.where["probe"] = "inside"
          /\ \A y \in Foreign : w.where[y] = "nowhere"
      BY <1>1, <1>5, LaterLabels DEF Placed, Fair, Course, Lay
    <2> QED BY <1>1, <1>5, <2>2, AtOnly, Own DEF Nodes
  <1>6. ASSUME NEW u, Kept(q, u), u.edits = 0
        PROVE  q.edits = 0
    BY <1>6, <1>4 DEF Kept, Without, Lasting, Level
  <1>7. q.edits = 0
    BY <1>6, RetiredGentle
  <1>8. ASSUME NEW u \in Ready, u.edits = 0
        PROVE  u = w \/ u.faults > q.faults
    <2>1. PICK y \in RequirePublished(w) :
             u = y \/ (~Has(y, "err") /\ At(y, "slot") # "slot" /\ u = Raise(y))
      BY <1>2
    <2>3. y.edits = u.edits /\ y.faults = u.faults
      BY <2>1, <1>1, PublishedGentle, RaiseRaises
    <2>5. CASE y = w
      BY <1>5, <1>7, <2>1, <2>5
    <2>6. CASE y.faults = w.faults + 1
      BY <1>1, <1>4, <2>3, <2>6
    <2> QED BY <1>1, <1>5, <1>7, <1>8, <2>3, PublishedCosts, <2>5, <2>6
  <1>9. CASE v \in Ready
    BY <1>1, <1>8, <1>9
  <1>10. ASSUME NEW u \in Ready, ~Has(u, "err"), NEW t \in MoveSlot(u), t.edits = 0
         PROVE  /\ t \in States /\ u = w
                /\ Has(t, "err") => t.faults > q.faults
    <2>2. t \in States /\ u.edits = 0
      BY <1>2, MoveSlotKept, <1>10 DEF Kept, Without, Lasting, Level, States
    <2>4. u = w
      BY <1>1, <1>5, <1>7, <2>2, <1>3, <1>10, PublishedClean, OutsideQuiet
    <2>6. Has(t, "err") => t.faults > w.faults
      <3> SUFFICES ASSUME Has(t, "err") PROVE t.faults > w.faults
        OBVIOUS
      <3>1. t \in MoveSlot(w)
        BY <2>4
      <3> QED BY <1>1, <1>7, <1>10, <3>1, <1>5, MoveSlotCosts
    <2> QED BY <1>1, <2>2, <2>4, <2>6
  <1>11. CASE \E u \in Ready : ~Has(u, "err") /\ v \in MoveSlot(u)
    BY <1>10, <1>11
  <1>12. CASE \E u \in Ready : \E t \in MoveSlot(u) : ~Has(u, "err") /\ ~Has(t, "err") /\ v \in Again(t)
    <2>1. PICK u \in Ready : \E t \in MoveSlot(u) : ~Has(u, "err") /\ ~Has(t, "err") /\ v \in Again(t)
      BY <1>12
    <2>2. PICK t \in MoveSlot(u) : ~Has(u, "err") /\ ~Has(t, "err") /\ v \in Again(t)
      BY <2>1
    <2>3. t \in States /\ Kept(u, t) /\ u \in States
      BY <1>2, MoveSlotKept DEF Kept, Without
    <2>5. PICK x \in RequirePublished(t) :
             (v = x /\ Has(v, "err")) \/ (~Has(x, "err") /\ v \in RequireAbsent(x, "slot"))
      BY <2>2, RetiredParts
    <2>6. v.edits >= x.edits /\ x \in States /\ x.edits >= t.edits /\ x.edits \in Nat /\ t.edits \in Nat
      BY <2>3, RequirePublishedSame, <2>5, AbsentSame DEF Stay, Same, Level, States
    <2>7. x.edits = 0 /\ t.edits = 0
      BY <2>6
    <2>8. u = w
      BY <1>10, <2>2, <2>7
    <2>9. PICK s \in Outside(w) : \E z \in States :
             /\ z.where = [s.where EXCEPT !["slot"] = "inside"] /\ z.edits = s.edits
             /\ z.set = s.set \cup {"retired"} /\ t \in Outside(z)
      BY <1>1, <2>2, <2>8, MoveSlotClean
    <2>10. PICK z \in States :
             /\ z.where = [s.where EXCEPT !["slot"] = "inside"] /\ z.edits = s.edits
             /\ z.set = s.set \cup {"retired"} /\ t \in Outside(z)
      BY <2>9
    <2>12. t.where = [w.where EXCEPT !["slot"] = "inside"]
      BY <2>10, OutsideQuiet, <1>1, <1>5, <1>7, OutsideExact, <2>7 DEF States
    <2>13. /\ t.where["generation"] = "normal" /\ \A y \in Nodes : t.where[y] # "slot"
           /\ \A y \in Nodes : t.where[y] = "normal" => y = "generation"
      <3>2. w.where["generation"] = "normal" /\ w.where["slot"] = "slot" /\ w.where["probe"] = "inside"
            /\ (\A y \in Foreign : w.where[y] = "nowhere") /\ w.where \in [Nodes -> Places]
        BY <1>1, <1>7, LaterLabels DEF Placed, States, Fair, Course, Lay
      <3>4. \A y \in Nodes : w.where[y] = "slot" => y = "slot"
        BY <1>5, <1>7
      <3> QED BY <2>12, <3>2, Own, <3>4 DEF Nodes
    <2>14. At(t, "normal") = "generation" /\ At(t, "slot") = "none"
      BY <2>13, AtOnly, Own DEF At
    <2>15. x = t \/ x.faults = t.faults + 1
      BY <2>2, <2>3, <2>7, <2>14, PublishedCosts
    <2>16. t.faults \in Nat /\ x.faults \in Nat /\ t.faults >= w.faults
      BY <2>3, <2>8, <2>6 DEF Kept, Without, Lasting, Level, States
    <2>17. CASE v = x
      BY <1>1, <1>4, <2>2, <2>15, <2>16, <2>17
    <2>18. CASE v \in RequireAbsent(x, "slot")
      <3>1. v.faults >= x.faults
        BY <2>6, <2>18, AbsentSame DEF Stay, Same, Level
      <3>2. CASE x = t
        BY <2>2, <2>7, <2>14, <3>2, <2>6, <2>18, AbsentQuiet
      <3>3. CASE x.faults = t.faults + 1
        BY <1>1, <1>4, <2>16, <3>1, <3>3
      <3> QED BY <2>15, <3>2, <3>3
    <2> QED BY <2>5, <2>17, <2>18
  <1> QED BY <1>9, <1>11, <1>12, RetiredParts

\* The retirement of the slot, and the recovery when it fails.
LEMMA RetireSlotBacked ==
    ASSUME Held, Smooth, Backed, Held', Smooth', RetireSlot
    PROVE  Backed'
  <1> DEFINE E == Except(Retired, LAMBDA v : Recover(Require(Remember(v)), CleanupAnchor(v)))
             Asked == /\ q.set \cap {"releaseFailed", "rollbackFailed", "required"} = {}
                      /\ Has(q, "committed") /\ Unresolved(q)
             S == IF Asked THEN E ELSE {q}
  <1>1. Finally("retire", S, "slotLate")
    BY RetireSlotParts
  <1>2. Moving /\ pc = "retire" /\ pc' = "slotLate"
    BY <1>1, FinallyMoves
  <1>3. Lasting(q, q') /\ q'.open = q.open /\ q \in States /\ ~Has(q, "err")
    BY RetireSlotKeeps DEF Held, Has
  <1>4. /\ "retire" \in (BeforeRetire \cap Later) \ BeforeFinalize
        /\ "slotLate" \in (AfterRetire \cap Later) \ (BeforeFinalize \cup BeforeRetire)
    BY LaterLabels
  <1>5. PICK v \in S : q' = Clear(v, {"err"})
    <2> HIDE DEF S
    <2> QED BY <1>1, FinallyStep
  <1>7. Asked \/ v = q
    OBVIOUS
  <1>8. Asked => \/ v \in Retired /\ ~Has(v, "err")
                 \/ \E u \in Retired : \E c : /\ Has(u, "err") /\ c = Clear(u, {"err"})
                                              /\ v \in Recover(Require(Remember(c)), CleanupAnchor(c))
    BY DEF Except
  <1> HIDE DEF S, E
  <1>9. Asked => "attempted" \in q.set
    BY DEF Unresolved, Has
  <1>10. ASSUME first = "none"
         PROVE  Fair(q, "retire") /\ Asked /\ "identity" \in q.open /\ q.open \cap {"binding", "cleanup"} # {}
    <2>1. Fair(q, "retire") /\ "identity" \in q.open /\ q.open \cap {"binding", "cleanup"} # {}
      BY <1>2, <1>4, <1>10 DEF Backed, Told, Smooth, Supplied
    <2>2. /\ q.set \cap {"resolved", "rollbackFailed"} = {} /\ "attempted" \in q.set
          /\ "committed" \in q.set /\ "required" \notin q.set /\ "releaseFailed" \notin q.set
      BY <2>1, <1>4 DEF Fair, Noted, BeforeReplace, BeforePending, BeforeSlot, BodyLabels
    <2> QED BY <2>1, <2>2 DEF Has, Unresolved
  <1> HIDE DEF Asked
  <1>11. Unique(q) /\ Tame(q) /\ Afloat(q) /\ q.faults \in Nat /\ q.edits \in Nat
    BY <1>3 DEF Backed, States
  \* A retirement that failed, and what the recovery starts from.
  <1>12. ASSUME NEW u \in Retired, NEW c, Has(u, "err"), c = Clear(u, {"err"}),
                v \in Recover(Require(Remember(c)), CleanupAnchor(c))
         PROVE  \E r \in States :
                   /\ Kept(q, r) /\ ~Has(r, "err") /\ "releaseFailed" \in r.set
                   /\ Unique(r) /\ Tame(r) /\ Afloat(r)
                   /\ r.faults = u.faults /\ r.edits = u.edits /\ v \in Recover(r, CleanupAnchor(q))
                   /\ Same(r, v) /\ "releaseFailed" \in v.set
    <2> DEFINE m == Remember(c)
               r == Require(m)
    <2>1. u \in States /\ Kept(q, u) /\ Gentle(q, u)
      BY RetiredGentle
    <2>2. /\ c \in States /\ c.where = u.where /\ c.open = u.open /\ c.set = u.set \ {"err"}
          /\ c.edits = u.edits /\ c.faults = u.faults /\ Kept(u, c) /\ Gentle(u, c)
      BY <1>12, <2>1, Flagged, FlaggedExact, RaiseSame, SameKept DEF Flags
    <2>3. /\ m \in States /\ m.where = c.where /\ m.open = c.open /\ m.set = c.set \cup {"releaseFailed"}
          /\ m.edits = c.edits /\ m.faults = c.faults
      BY <2>2, RememberLevel
    <2>4. Kept(c, r) /\ r \in States
      BY <2>2, RequireKept DEF Kept, Without
    <2> HIDE DEF m
    <2>6. /\ r.where = m.where /\ r.edits = m.edits /\ r.faults = m.faults
          /\ "err" \notin r.set /\ "releaseFailed" \in r.set
      BY <2>2, <2>3, Flagged, FlaggedExact DEF Flags, Require
    <2>7. v \in Recover(r, CleanupAnchor(c))
      BY <1>12 DEF m
    <2> HIDE DEF r
    <2>8. Kept(q, c) /\ Kept(q, r)
      BY <2>1, <2>2, <2>4, KeptTrans
    <2>9. CleanupAnchor(c) = CleanupAnchor(q)
      BY <2>8 DEF CleanupAnchor, Kept, Without
    <2>11. Unique(r) /\ Tame(r)
      BY <1>11, <2>1, <2>2, <2>3, <2>6, PlainGentle DEF Gentle
    <2>12. Afloat(r)
      BY <1>11, <2>8, AfloatOn DEF Kept, Without, Lasting
    <2>13. Same(r, v)
      BY <2>4, <2>7, RecoverSame DEF Stay
    <2>14. "releaseFailed" \in v.set
      BY <2>6, <2>13 DEF Same, Volatile
    <2> QED BY <2>2, <2>3, <2>4, <2>6, <2>7, <2>8, <2>9, <2>11, <2>12, <2>13, <2>14 DEF Has
  <1>13. v \in States
    BY <1>3, <1>7, <1>8, <1>12, RetiredGentle DEF Same
  <1>14. /\ q'.where = v.where /\ q'.edits = v.edits /\ q'.faults = v.faults
         /\ q'.set = v.set \ {"err"} /\ v.edits \in Nat /\ v.faults \in Nat
    BY <1>5, <1>13, Flagged, FlaggedExact DEF Flags, States
  \* A failure of the retirement that nobody else caused.
  <1>15. ASSUME NEW u \in Retired, Has(u, "err"), u.edits = 0, Asked,
                first = "none" \/ q.edits = 0
         PROVE  u.faults >= 1
    <2>2. u.faults \in Nat /\ u.faults >= q.faults
      BY RetiredGentle DEF Level, States, Kept, Without, Lasting
    <2>3. CASE first = "none"
      BY <1>10, <1>15, <2>3, RetiredCosts, <1>11, <2>2
    <2>4. CASE first # "none" /\ q.edits = 0
      BY <1>2, <1>4, <1>9, <1>15, <2>4, <1>11, <2>2 DEF Backed, Told
    <2> QED BY <1>15, <2>3, <2>4
  <1>16. Supplied'
    <2> SUFFICES ASSUME first' = "none"
                 PROVE  /\ q'.open \cap {"binding", "cleanup"} # {} /\ "identity" \in q'.open
                        /\ {"retiring", "retired"} \subseteq q'.set
      BY <1>2, <1>4 DEF Supplied
    <2>1. first = "none" /\ "releaseFailed" \notin q'.set
      BY <1>2 DEF Moving
    <2>2. Asked /\ "identity" \in q.open /\ q.open \cap {"binding", "cleanup"} # {}
      BY <1>10, <2>1
    <2> QED BY <1>3, <1>14, <2>2, <1>8, <1>12, <2>1, RetiredNoted
  <1>17. q.edits = 0 /\ q'.edits = 1 /\ q'.faults = 0 => Tame(q')
    <2> SUFFICES ASSUME q.edits = 0, q'.edits = 1, q'.faults = 0 PROVE Tame(q')
      OBVIOUS
    <2>1. Tame(v) => Tame(q')
      BY <1>14 DEF Tame
    <2>2. CASE v = q
      BY <1>11, <2>1, <2>2
    <2>3. CASE v \in Retired
      BY <1>11, <2>1, <2>3, RetiredGentle DEF Gentle
    <2>4. CASE Asked /\ \E u \in Retired : \E c : /\ Has(u, "err") /\ c = Clear(u, {"err"})
                                                  /\ v \in Recover(Require(Remember(c)), CleanupAnchor(c))
      <3>1. PICK u \in Retired : \E c : /\ Has(u, "err") /\ c = Clear(u, {"err"})
                                        /\ v \in Recover(Require(Remember(c)), CleanupAnchor(c))
        BY <2>4
      <3>2. PICK r \in States : /\ Unique(r) /\ Tame(r) /\ r.faults = u.faults /\ r.edits = u.edits
                                /\ Same(r, v)
        BY <1>12, <3>1
      <3>3. Level(r, v) /\ r.faults \in Nat /\ r.edits \in Nat
        BY <3>2 DEF Same, States
      <3>4. v.edits = 1 /\ v.faults = 0
        BY <1>14
      <3>5. u.faults = 0 /\ u.edits <= 1
        BY <3>2, <3>3, <3>4 DEF Level
      <3>8. Tame(v)
        BY <3>2, <3>3, <3>4, <3>5, <1>15, <2>4, <3>1 DEF Level
      <3> QED BY <2>1, <3>8
    <2> QED BY <1>7, <1>8, <2>2, <2>3, <2>4
  <1>18. ASSUME first = "none", "releaseFailed" \in q'.set, Shown(q'), Slight(q')
         PROVE  FALSE
    <2>1. /\ Fair(q, "retire") /\ Asked /\ "identity" \in q.open /\ q.open \cap {"binding", "cleanup"} # {}
      BY <1>10, <1>18
    <2>2. Shown(v) /\ Slight(v) /\ "releaseFailed" \in v.set
      BY <1>14, <1>18 DEF Shown, Slight
    <2>3. ASSUME v \in Retired, ~Has(v, "err") PROVE FALSE
      BY <2>3, RetiredNoted, <2>1, <2>2 DEF Fair
    <2>4. PICK u \in Retired : \E c : /\ Has(u, "err") /\ c = Clear(u, {"err"})
                                      /\ v \in Recover(Require(Remember(c)), CleanupAnchor(c))
      BY <1>8, <2>1, <2>3
    <2>5. PICK r \in States :
                   /\ Kept(q, r) /\ ~Has(r, "err") /\ "releaseFailed" \in r.set
                   /\ Unique(r) /\ Tame(r) /\ Afloat(r)
                   /\ r.faults = u.faults /\ r.edits = u.edits /\ v \in Recover(r, CleanupAnchor(q))
                   /\ Same(r, v)
      BY <1>12, <2>4
    <2>6. Level(r, v) /\ r.faults \in Nat /\ r.edits \in Nat /\ v.faults >= r.faults /\ v.edits >= r.edits
      BY <2>5 DEF Same, States, Level
    <2>7. /\ {"attempted", "stated"} \subseteq r.set /\ "resolved" \notin r.set
          /\ r.edits = 0 => Rigged(r)
      BY <2>2, <2>6, <2>5 DEF Level, Afloat
    <2>8. Undoable(r, CleanupAnchor(q)) /\ Pressing(r)
      <3>1. r.open = q.open
        BY <2>5 DEF Kept, Without
      <3> QED BY <2>1, <2>5, <2>7, <3>1 DEF Undoable, Pressing, Unresolved, Owned, Has, CleanupAnchor
    <2>9. v.edits = r.edits => v.faults > r.faults /\ (Rigged(r) => v.faults >= r.faults + 3)
      BY <2>2, <2>5, <2>8, RecoveryCosts
    <2>10. u.edits = 0 => u.faults >= 1
      BY <1>15, <1>18, <2>1, <2>4
    <2>11. CASE v.edits = 0 /\ v.faults <= 3
      BY <2>6, <2>11, <1>14, <2>5, <2>7, <2>9, <2>10
    <2>12. CASE v.faults = 0 /\ v.edits <= 1
      BY <1>14, <2>5, <2>6, <2>9, <2>10, <2>12
    <2> QED BY <2>2, <2>11, <2>12 DEF Slight
  <1> QED BY <1>2, <1>3, <1>4, <1>16, <1>17, <1>18, LaterBacked

\* The invariant holds in the beginning.
LEMMA BackedInit == Init => Backed
  <1> SUFFICES ASSUME Init PROVE Backed
    OBVIOUS
  <1>1. PICK retain \in SUBSET {"retain"} :
           q = [where |-> [x \in Nodes |-> "nowhere"], open |-> {}, set |-> retain,
                faults |-> 0, edits |-> 0]
    BY DEF Init
  <1>3. q.edits = 0 /\ q.set \subseteq {"retain"} /\ \A x \in Nodes : q.where[x] = "nowhere"
    BY <1>1
  <1>4. Unique(q) /\ Tame(q) /\ ~Shown(q)
    BY <1>3, Own DEF Unique, Tame, Shown, Names
  <1>7. Lacking(q, Missing(pc))
    BY <1>3, Own DEF Lacking, Home, OwnNodes, Missing
  <1>8. Told /\ Supplied
    BY <1>3 DEF Told, Supplied, Doomed, BodyLabels, BeforeFinalize, BeforeRetire, Init
  <1> QED BY <1>4, <1>3, <1>7, <1>8 DEF Backed, Neat, Afloat, Sunk, Vacant

\* Each step keeps it.
LEMMA BackedStep == Held /\ Smooth /\ Backed /\ [Next]_vars => Backed'
  <1> SUFFICES ASSUME Held, Smooth, Backed, [Next]_vars PROVE Backed'
    OBVIOUS
  <1>1. Held' /\ Smooth'
    BY HeldStep, SmoothStep
  <1>2. CASE Validate BY <1>1, <1>2, ValidateBacked
  <1>3. CASE Pin BY <1>1, <1>3, PinBacked
  <1>4. CASE MakePending BY <1>1, <1>4, MakePendingBacked
  <1>5. CASE RunQuery \/ Decode \/ Seal \/ ProbeNoReplace BY <1>1, <1>5, QueryBacked
  <1>6. CASE AcquireAnchors BY <1>1, <1>6, AcquireAnchorsBacked
  <1>7. CASE MakeSlot BY <1>1, <1>7, MakeSlotBacked
  <1>8. CASE ProbeExchange BY <1>1, <1>8, ProbeExchangeBacked
  <1>9. CASE Replace BY <1>1, <1>9, ReplaceBacked
  <1>10. CASE Commit BY <1>1, <1>10, CommitBacked
  <1>11. CASE Finalization
    <2>1. CASE Housekeeping BY <1>1, <2>1, HousekeepingBacked
    <2>2. CASE FinalizeEarly BY <1>1, <2>2, FinalizeEarlyBacked
    <2>3. CASE RetireSlotEarly BY <1>1, <2>3, RetireSlotEarlyBacked
    <2>4. CASE ReleasePendingEarly BY <1>1, <2>4, ReleasePendingEarlyBacked
    <2>5. CASE ReleaseGenerations BY <1>1, <2>5, ReleaseGenerationsBacked
    <2>6. CASE DuplicateCleanupAnchor BY <1>1, <2>6, DuplicateCleanupAnchorBacked
    <2>7. CASE ReleaseRollback BY <1>1, <2>7, ReleaseRollbackBacked
    <2>8. CASE FinalizePublication BY <1>1, <2>8, FinalizePublicationBacked
    <2>9. CASE ReleasePending BY <1>1, <2>9, ReleasePendingBacked
    <2>10. CASE ReleaseAnchor BY <1>1, <2>10, ReleaseAnchorBacked
    <2>11. CASE RetireSlot BY <1>1, <2>11, RetireSlotBacked
    <2>12. CASE ReleaseSlot BY <1>1, <2>12, ReleaseSlotBacked
    <2>13. CASE ReleaseCleanup BY <1>1, <2>13, ReleaseCleanupBacked
    <2>14. CASE ReleaseIdentity BY <1>1, <2>14, ReleaseIdentityBacked
    <2>15. CASE Drain BY <1>1, <2>15, DrainBacked
    <2>16. CASE EscapeBefore \/ EscapeAfter BY <1>1, <2>16, EscapeBacked
    <2> QED BY <1>11, <2>1, <2>2, <2>3, <2>4, <2>5, <2>6, <2>7, <2>8, <2>9, <2>10, <2>11, <2>12,
               <2>13, <2>14, <2>15, <2>16 DEF Finalization
  <1>12. CASE Conclude BY <1>1, <1>12, ConcludeBacked
  <1>13. CASE UNCHANGED vars
    BY <1>13 DEF vars, Backed, Unique, Tame, Neat, Vacant, Lacking, Afloat, Shown, Rigged, Told, Doomed,
                 Supplied, Sunk, Slight, Pressing
  <1> QED BY <1>2, <1>3, <1>4, <1>5, <1>6, <1>7, <1>8, <1>9, <1>10, <1>11, <1>12, <1>13 DEF Next

\* A call that raises leaves no generation under its normal name, although up to three
\* renames, checks and closes fail on the way, or somebody else renames once.
THEOREM RaisesOnlyHidden == Spec => []FailureHides
  <1>1. Backed => FailureHides
    <2> SUFFICES ASSUME Backed, pc = "done", outcome = "raised",
                        (q.edits = 0 /\ q.faults <= 3) \/ (q.faults = 0 /\ q.edits <= 1),
                        first \notin {"commit", "anchor", "cleanup", "identity", "drain", "conclude"},
                        At(q, "normal") = "generation"
                 PROVE  FALSE
      BY DEF FailureHides
    <2>1. Shown(q)
      BY AtThere, Own DEF Shown
    <2>2. Slight(q)
      BY DEF Slight
    <2> QED BY <2>1, <2>2 DEF BeforeFinalize, Backed, Sunk, Excluded, Told
  <1> QED BY <1>1, HeldInit, SmoothInit, BackedInit, HeldStep, SmoothStep, BackedStep, PTL DEF Spec

\* If nothing fails, a directory of somebody else that a rename of run_query caught is put
\* back under the name it had, or was published and stays there.
THEOREM ForeignPutBack == Spec => []ForeignKept
  <1>1. Backed => ForeignKept
    BY DEF Backed, Tame, ForeignKept
  <1> QED BY <1>1, HeldInit, SmoothInit, BackedInit, HeldStep, SmoothStep, BackedStep, PTL DEF Spec
=============================================================================
