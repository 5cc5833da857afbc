------------------------ MODULE ProviderClientProofs ------------------------
(***************************************************************************)
(* For any threads, processes, keys, stripes, contracts and policies: a    *)
(* reserved slot stays free until its answer is published, every caller of *)
(* a key is given the published contract, or what its flight was answered  *)
(* when it asked again for an entry that stays, under its own policy, a    *)
(* conflict means an entry that could not be used, and entries stay.       *)
(***************************************************************************)
EXTENDS ProviderClient, TLAPS

\* Where a thread owns a flight, has its stripe and has reserved a slot.
Owning == {"stripe", "recheck", "authenticate", "reserve", "post", "publish", "finish",
           "unwind", "report"}
Striped == {"recheck", "authenticate", "reserve", "post", "publish", "finish", "release"}
Reserving == {"post", "publish"}

\* Where it may be asking for an entry again, or have failed to.
MayAsk == {"reserve", "post", "finish", "release", "unwind", "report"}

\* The locks a step relies on are held by the thread itself.
Locked(t) ==
    /\ pc[t] \in Striped => stripe[Stripe[key[t]]] = t
    /\ pc[t] \in Reserving => capacity = t

\* From the reservation to the publication there is a slot, and the key is free
\* or its entry authenticated.
Reserved(t) ==
    /\ pc[t] = "post" => Room /\ (~Exists(key[t]) \/ authentic[t])
    /\ pc[t] = "publish" => Room /\ ~Exists(key[t]) /\ answer[t] \in Contracts

\* A flight has an owner of the same process and key that is still to finish it;
\* the others wait, and what is mailed to them ends their part in it.
Flying(t) ==
    /\ flight[t] # None =>
         LET o == flight[t] IN
           /\ flight[o] = o /\ key[o] = key[t] /\ Process[o] = Process[t]
           /\ pc[o] \in Owning
    /\ flight[t] \notin {None, t} => pc[t] = "wait"
    /\ mail[t] # NoMail => pc[t] = "wait" /\ flight[t] = None

\* Contract c may be given to a caller of key k by a flight with n failed reads: it
\* is the published one, or the flight asked again for an entry that stays.
Published(c, k, n) == entry[k] = c \/ AskedAgain(k, n)

\* What a thread is about to hand out, or remembers, may be given.
Given(t) ==
    /\ pc[t] \in {"finish", "release"} =>
         answer[t] \in Contracts /\ Published(answer[t], key[t], misread[t])
    /\ \A k \in AuthKeys : memo[t][k] # None => entry[k] = memo[t][k]

\* So may what a finished flight left for it; an error in it is one that is shared.
Mailed(t) ==
    /\ mail[t].contract # None => Published(mail[t].contract, key[t], mail[t].misread)
    /\ mail[t].error \in Shareable \cup {None}

\* The reads under the lock: the second is of a Growth key that the first did not
\* give, what it authenticates is asked for again, and an entry that is there but
\* not authenticated cannot be used.
Asking(t) ==
    /\ pc[t] = "authenticate" =>
         /\ key[t] \notin AuthKeys /\ misread[t] \in 0..1
         /\ entry[key[t]] \in Contracts => misread[t] = 1
    /\ authentic[t] => pc[t] \in MayAsk /\ AskedAgain(key[t], misread[t])
    /\ pc[t] = "reserve" /\ Exists(key[t]) /\ ~authentic[t] => Unusable(key[t], misread[t])

\* A failure is on its way out, and a conflict is one over an unusable entry.
Failing(t) ==
    /\ failure[t] # None => pc[t] \in {"unwind", "report"}
    /\ failure[t] # "refused"
    /\ failure[t] = "conflict" => Unusable(key[t], misread[t])

\* What the last call of a thread ended with.
Ended(t) ==
    /\ result[t].contract # None => Published(result[t].contract, key[t], result[t].misread)
    /\ result[t].contract \notin Refused[t]
    /\ result[t].error = "refused" =>
         entry[key[t]] \in Refused[t] \/ AskedAgain(key[t], result[t].misread)
    /\ result[t].error = "conflict" => Unusable(key[t], result[t].misread)

Local(t) ==
    Locked(t) /\ Reserved(t) /\ Given(t) /\ Asking(t) /\ Failing(t) /\ Ended(t)

Sound(t) == Local(t) /\ Flying(t) /\ Mailed(t)

Inv == TypeOK /\ \A t \in Threads : Sound(t)

-----------------------------------------------------------------------------
(* Types.                                                                  *)

\* The end of a call gives its thread a result of the right type.
LEMMA ReturnType ==
    ASSUME TypeOK, NEW t \in Threads, NEW c \in Contracts \cup {None},
           NEW e \in Failures \cup {None}, NEW n \in 0..2, Return(t, c, e, n)
    PROVE  /\ pc' \in [Threads -> Steps]
           /\ result' \in [Threads -> [contract : Contracts \cup {None},
                                      error : Failures \cup {None}, misread : 0..2]]
  BY DEF TypeOK, Return, Goto, Steps

\* The policy of a client ends the call with the contract or with a refusal.
LEMMA AcceptType ==
    ASSUME TypeOK, NEW t \in Threads, NEW c \in Contracts, NEW n \in 0..2, Accept(t, c, n)
    PROVE  /\ pc' \in [Threads -> Steps]
           /\ result' \in [Threads -> [contract : Contracts \cup {None},
                                      error : Failures \cup {None}, misread : 0..2]]
  BY ReturnType DEF Accept, Failures

\* The memory of a client keeps its type.
LEMMA MemoType ==
    ASSUME TypeOK, NEW t \in Threads, NEW c \in Contracts, key[t] \in AuthKeys
    PROVE  [memo EXCEPT ![t][key[t]] = c] \in [Threads -> [AuthKeys -> Contracts \cup {None}]]
  BY DEF TypeOK

\* The locals that a failed or an ended call resets keep their types.
LEMMA ResetType ==
    ASSUME TypeOK
    PROVE  /\ \A t \in Threads : ResetLoop(t) =>
                /\ variant' \in [Threads -> 0..1]
                /\ tries' \in [Threads -> 0..(MaxRetries - 1)]
           /\ \A ts \in SUBSET Threads : Forget(ts) =>
                /\ variant' \in [Threads -> 0..1]
                /\ tries' \in [Threads -> 0..(MaxRetries - 1)]
                /\ answer' \in [Threads -> Contracts \cup {None}]
                /\ failure' \in [Threads -> Failures \cup {None}]
                /\ authentic' \in [Threads -> BOOLEAN]
                /\ misread' \in [Threads -> 0..2]
<1>1. 0 \in 0..1 /\ 0 \in 0..(MaxRetries - 1)
  BY ClientAssumption
<1>2. ASSUME NEW t \in Threads, ResetLoop(t)
      PROVE  /\ variant' \in [Threads -> 0..1]
             /\ tries' \in [Threads -> 0..(MaxRetries - 1)]
  BY <1>1, <1>2 DEF TypeOK, ResetLoop
<1>3. ASSUME NEW ts \in SUBSET Threads, Forget(ts)
      PROVE  /\ variant' \in [Threads -> 0..1]
             /\ tries' \in [Threads -> 0..(MaxRetries - 1)]
             /\ answer' \in [Threads -> Contracts \cup {None}]
             /\ failure' \in [Threads -> Failures \cup {None}]
             /\ authentic' \in [Threads -> BOOLEAN]
             /\ misread' \in [Threads -> 0..2]
  BY <1>1, <1>3 DEF TypeOK, Forget
<1>4. QED
  BY <1>2, <1>3

\* A call that fails is on its way out, with the locals of its loop reset.
LEMMA FailType ==
    ASSUME TypeOK, NEW t \in Threads, NEW e \in Failures, Fail(t, e)
    PROVE  /\ pc' \in [Threads -> Steps]
           /\ failure' \in [Threads -> Failures \cup {None}]
           /\ variant' \in [Threads -> 0..1]
           /\ tries' \in [Threads -> 0..(MaxRetries - 1)]
<1>1. ResetLoop(t)
  BY DEF Fail
<1>2. QED
  BY <1>1, ResetType DEF TypeOK, Fail, Goto, Steps

\* Before the locks every step keeps the types.
LEMMA ApproachType ==
    ASSUME TypeOK, NEW t \in Threads,
           ClassifyGrowth(t) \/ ClassifyAuth(t) \/ Lookup(t) \/ LookupAuth(t) \/ Join(t) \/ Wake(t)
    PROVE  TypeOK'
<1>0. None \in Contracts \cup {None} /\ None \in Failures \cup {None} /\ AuthKeys \subseteq Keys
  BY ClientAssumption
<1>1. ASSUME NEW k \in Keys, Call(t, k) PROVE TypeOK'
  <2>1. calls' \in 0..MaxCalls
    BY <1>1, ClientAssumption DEF TypeOK, Call
  <2>2. NoResult \in [contract : Contracts \cup {None}, error : Failures \cup {None},
                      misread : 0..2]
    BY <1>0 DEF NoResult
  <2>3. QED
    BY <1>1, <2>1, <2>2 DEF TypeOK, Call, Goto, Steps, shared
<1>2. ASSUME NEW k \in Keys, NEW c \in Contracts \cup {None}, Reads(k, c)
      PROVE  faults' \in 0..MaxFaults
  BY <1>2, ClientAssumption DEF TypeOK, Reads, Unopened
<1>3. CASE Lookup(t)
  <2>1. PICK c \in Contracts \cup {None} :
          /\ Reads(key[t], c)
          /\ IF c # None THEN Accept(t, c, 0) ELSE Goto(t, "join") /\ UNCHANGED result
    BY <1>3 DEF Lookup
  <2>2. faults' \in 0..MaxFaults
    BY <1>2, <2>1 DEF TypeOK
  <2>3. CASE c = None
    BY <1>3, <2>1, <2>2, <2>3 DEF TypeOK, Lookup, Goto, Steps, locals, shared
  <2>4. CASE c # None
    BY <1>3, <2>1, <2>2, <2>4, AcceptType DEF TypeOK, Lookup, locals, shared
  <2>5. QED
    BY <2>3, <2>4
<1>4. CASE LookupAuth(t)
  <2>1. PICK c \in Contracts \cup {None} :
          /\ Reads(key[t], c)
          /\ \/ c # None /\ AcceptAuth(t, c, 0)
             \/ /\ c = None /\ memo[t][key[t]] # None
                /\ Accept(t, memo[t][key[t]], 0) /\ UNCHANGED memo
             \/ /\ c = None /\ memo[t][key[t]] = None
                /\ Goto(t, "join") /\ UNCHANGED <<result, memo>>
    BY <1>4 DEF LookupAuth
  <2>2. faults' \in 0..MaxFaults /\ key[t] \in AuthKeys
    BY <1>2, <1>4, <2>1 DEF TypeOK, LookupAuth
  <2>3. CASE c # None /\ AcceptAuth(t, c, 0)
    BY <1>4, <2>2, <2>3, AcceptType, MemoType DEF TypeOK, LookupAuth, AcceptAuth, locals, shared
  <2>4. CASE c = None /\ memo[t][key[t]] # None /\ Accept(t, memo[t][key[t]], 0) /\ UNCHANGED memo
    <3>1. memo[t][key[t]] \in Contracts
      BY <2>2, <2>4 DEF TypeOK
    <3>2. QED
      BY <1>4, <2>2, <2>4, <3>1, AcceptType DEF TypeOK, LookupAuth, locals, shared
  <2>5. CASE c = None /\ Goto(t, "join") /\ UNCHANGED <<result, memo>>
    BY <1>4, <2>2, <2>5 DEF TypeOK, LookupAuth, Goto, Steps, locals, shared
  <2>6. QED
    BY <2>1, <2>3, <2>4, <2>5
<1>5. CASE Join(t)
  <2>1. \A S \in SUBSET Threads : S # {} => (CHOOSE u \in S : TRUE) \in Threads
    OBVIOUS
  <2>2. flight' \in [Threads -> Threads \cup {None}]
    BY <1>5, <2>1 DEF TypeOK, Join, Peers
  <2>3. QED
    BY <1>5, <2>2 DEF TypeOK, Join, Goto, Steps, shared
<1>6. CASE Wake(t)
  <2>1. /\ mail[t] \in [contract : Contracts \cup {None}, error : Failures \cup {None},
                        retry : BOOLEAN, misread : 0..2]
        /\ mail[t].misread \in 0..2 /\ 0 \in 0..2
    BY DEF TypeOK
  <2>2. mail' \in [Threads -> [contract : Contracts \cup {None}, error : Failures \cup {None},
                              retry : BOOLEAN, misread : 0..2]]
    BY <1>6 DEF TypeOK, Wake, NoMail
  <2>3. /\ pc' \in [Threads -> Steps]
        /\ result' \in [Threads -> [contract : Contracts \cup {None},
                                   error : Failures \cup {None}, misread : 0..2]]
        /\ memo' \in [Threads -> [AuthKeys -> Contracts \cup {None}]]
    <3>1. CASE mail[t].contract # None /\ AcceptEither(t, mail[t].contract, mail[t].misread)
      <4>1. mail[t].contract \in Contracts /\ Accept(t, mail[t].contract, mail[t].misread)
        BY <2>1, <3>1 DEF AcceptEither, AcceptAuth
      <4>2. memo' \in {memo, [memo EXCEPT ![t][key[t]] = mail[t].contract]}
            /\ (memo' # memo => key[t] \in AuthKeys)
        BY <3>1 DEF AcceptEither, AcceptAuth
      <4>3. memo' \in [Threads -> [AuthKeys -> Contracts \cup {None}]]
        <5>1. CASE memo' = memo
          BY <5>1 DEF TypeOK
        <5>2. CASE memo' # memo
          BY <4>1, <4>2, <5>2, MemoType
        <5>3. QED
          BY <5>1, <5>2
      <4>4. QED
        BY <2>1, <4>1, <4>3, AcceptType
    <3>2. CASE mail[t].error # None /\ Return(t, None, mail[t].error, 0) /\ UNCHANGED memo
      BY <1>0, <2>1, <3>2, ReturnType DEF TypeOK
    <3>3. CASE Goto(t, "lookup") /\ UNCHANGED <<result, memo>>
      BY <3>3 DEF TypeOK, Goto, Steps
    <3>4. QED
      BY <1>6, <3>1, <3>2, <3>3 DEF Wake
  <2>4. QED
    BY <1>6, <2>2, <2>3 DEF TypeOK, Wake, shared
<1>7. CASE ClassifyGrowth(t) \/ ClassifyAuth(t)
  <2>1. \E k \in Keys : Call(t, k)
    BY <1>7, ClientAssumption DEF ClassifyGrowth, ClassifyAuth
  <2>2. QED
    BY <1>1, <2>1
<1>8. QED
  BY <1>3, <1>4, <1>5, <1>6, <1>7

\* A finished flight leaves flights and mail of the right types.
LEMMA FinishType ==
    ASSUME TypeOK, NEW t \in Threads, NEW c \in Contracts \cup {None},
           NEW e \in Failures \cup {None}, NEW r \in BOOLEAN, NEW n \in 0..2,
           FinishInflight(t, [contract |-> c, error |-> e, retry |-> r, misread |-> n])
    PROVE  /\ flight' \in [Threads -> Threads \cup {None}]
           /\ mail' \in [Threads -> [contract : Contracts \cup {None},
                                     error : Failures \cup {None}, retry : BOOLEAN, misread : 0..2]]
  BY DEF TypeOK, FinishInflight

\* The freed locks have the right type.
LEMMA UnlockType ==
    ASSUME TypeOK, NEW t \in Threads, Unlock(t)
    PROVE  stripe' \in [Stripes -> Threads \cup {None}] /\ capacity' \in Threads \cup {None}
  BY DEF TypeOK, Unlock

\* The stripe of a key is one of the stripes.
LEMMA StripeIn == \A k \in Keys : Stripe[k] \in Stripes
  BY DEF Stripes

\* From the stripe lock to the answer every step keeps the types.
LEMMA RequestType ==
    ASSUME TypeOK, NEW t \in Threads, pc[t] = "authenticate" => misread[t] \in 0..1,
           LockStripe(t) \/ Recheck(t) \/ Authenticate(t) \/ Reserve(t) \/ Post(t)
    PROVE  TypeOK'
<1>1. CASE LockStripe(t)
  BY <1>1, StripeIn DEF TypeOK, LockStripe, Goto, Steps, locals
<1>2. CASE Recheck(t)
  <2>1. PICK c \in Contracts \cup {None} :
          /\ Reads(key[t], c)
          /\ answer' = [answer EXCEPT ![t] = c]
          /\ misread' = [misread EXCEPT ![t] = IF faults' # faults THEN 1 ELSE 0]
          /\ \E step \in {"finish", "reserve", "authenticate"} : Goto(t, step)
    BY <1>2 DEF Recheck
  <2>2. faults' \in 0..MaxFaults
    BY <2>1, ClientAssumption DEF TypeOK, Reads, Unopened
  <2>3. misread' \in [Threads -> 0..2]
    BY <2>1 DEF TypeOK
  <2>4. QED
    BY <1>2, <2>1, <2>2, <2>3 DEF TypeOK, Recheck, Goto, Steps, shared
<1>3. CASE Authenticate(t)
  <2>1. faults' \in 0..MaxFaults
    BY <1>3, ClientAssumption DEF TypeOK, Authenticate, Unopened
  <2>2. misread' \in [Threads -> 0..2]
    <3>1. misread' \in {misread, [misread EXCEPT ![t] = @ + 1]} /\ misread[t] \in 0..1
      BY <1>3 DEF Authenticate
    <3>2. misread[t] + 1 \in 0..2
      BY <3>1
    <3>3. misread \in [Threads -> 0..2]
      BY DEF TypeOK
    <3>4. QED
      BY <3>1, <3>2, <3>3
  <2>3. authentic' \in [Threads -> BOOLEAN]
    <3>1. /\ \/ authentic' = authentic
             \/ authentic' = [authentic EXCEPT ![t] = Authenticates(key[t])]
          /\ Authenticates(key[t]) \in BOOLEAN
      BY <1>3 DEF Authenticate, Authenticates
    <3>2. authentic \in [Threads -> BOOLEAN]
      BY DEF TypeOK
    <3>3. CASE authentic' = authentic
      BY <3>2, <3>3
    <3>4. CASE authentic' = [authentic EXCEPT ![t] = Authenticates(key[t])]
      BY <3>1, <3>2, <3>4
    <3>5. QED
      BY <3>1, <3>3, <3>4
  <2>4. QED
    BY <1>3, <2>1, <2>2, <2>3 DEF TypeOK, Authenticate, Goto, Steps, shared
<1>4. CASE Reserve(t)
  <2>1. \/ \E e \in {"conflict", "exhausted"} : Fail(t, e)
        \/ Goto(t, "post") /\ ResetLoop(t) /\ UNCHANGED failure
    BY <1>4 DEF Reserve
  <2>2. /\ pc' \in [Threads -> Steps]
        /\ failure' \in [Threads -> Failures \cup {None}]
        /\ variant' \in [Threads -> 0..1]
        /\ tries' \in [Threads -> 0..(MaxRetries - 1)]
    <3>1. CASE Goto(t, "post") /\ ResetLoop(t) /\ UNCHANGED failure
      BY <3>1, ResetType DEF TypeOK, Goto, Steps
    <3>2. ASSUME NEW e \in {"conflict", "exhausted"}, Fail(t, e)
          PROVE  /\ pc' \in [Threads -> Steps]
                 /\ failure' \in [Threads -> Failures \cup {None}]
                 /\ variant' \in [Threads -> 0..1]
                 /\ tries' \in [Threads -> 0..(MaxRetries - 1)]
      BY <3>2, FailType DEF Failures
    <3>3. QED
      BY <2>1, <3>1, <3>2
  <2>3. QED
    BY <1>4, <2>2 DEF TypeOK, Reserve
<1>5. CASE Post(t)
  <2>1. \/ \E c \in Contracts : /\ answer' = [answer EXCEPT ![t] = c]
                                /\ Goto(t, "finish") \/ Goto(t, "publish")
                                /\ ResetLoop(t) /\ UNCHANGED failure
        \/ TransportFailed(t)
        \/ Corrected(t)
        \/ (\E e \in {"request", "reply"} : Fail(t, e)) /\ UNCHANGED answer
    BY <1>5 DEF Post, Answered, AnsweredAuth
  <2> DEFINE Typed == /\ pc' \in [Threads -> Steps]
                      /\ failure' \in [Threads -> Failures \cup {None}]
                      /\ variant' \in [Threads -> 0..1]
                      /\ tries' \in [Threads -> 0..(MaxRetries - 1)]
                      /\ answer' \in [Threads -> Contracts \cup {None}]
  <2>2. Typed
    <3>1. ASSUME NEW c \in Contracts, answer' = [answer EXCEPT ![t] = c],
                 Goto(t, "finish") \/ Goto(t, "publish"), ResetLoop(t), UNCHANGED failure
          PROVE  Typed
      BY <3>1, ResetType DEF TypeOK, Goto, Steps
    <3>2. ASSUME NEW e \in Failures, Fail(t, e), UNCHANGED answer PROVE Typed
      BY <3>2, FailType DEF TypeOK
    <3>3. CASE TransportFailed(t)
      <4>1. CASE tries[t] + 1 < MaxRetries
        <5>1. tries' \in [Threads -> 0..(MaxRetries - 1)]
          <6>1. tries[t] + 1 \in 0..(MaxRetries - 1)
            BY <4>1, ClientAssumption DEF TypeOK
          <6>2. QED
            BY <3>3, <4>1, <6>1 DEF TypeOK, TransportFailed
        <5>2. QED
          BY <3>3, <4>1, <5>1 DEF TypeOK, TransportFailed
      <4>2. CASE ~(tries[t] + 1 < MaxRetries)
        BY <3>2, <3>3, <4>2 DEF TransportFailed, Failures
      <4>3. QED
        BY <4>1, <4>2
    <3>4. CASE Corrected(t)
      <4>1. CASE variant[t] = 0
        <5>1. 1 \in 0..1 /\ 0 \in 0..(MaxRetries - 1)
          BY ClientAssumption
        <5>2. QED
          BY <3>4, <4>1, <5>1 DEF TypeOK, Corrected
      <4>2. CASE variant[t] # 0
        BY <3>2, <3>4, <4>2 DEF Corrected, Failures, Shareable
      <4>3. QED
        BY <4>1, <4>2
    <3>5. QED
      BY <2>1, <3>1, <3>2, <3>3, <3>4 DEF Failures, Shareable
  <2>3. QED
    BY <1>5, <2>2 DEF TypeOK, Post, shared
<1>6. QED
  BY <1>1, <1>2, <1>3, <1>4, <1>5

\* A publication and the steps after it keep the types.
LEMMA AnswerType ==
    ASSUME TypeOK, NEW t \in Threads, pc[t] = "publish" => answer[t] \in Contracts,
           pc[t] = "release" => answer[t] \in Contracts,
           \/ Publish(t) \/ PublishAuth(t) \/ Finish(t) \/ Release(t) \/ ReleaseAuth(t)
           \/ Unwind(t) \/ Report(t)
    PROVE  TypeOK'
<1>0. /\ None \in Contracts \cup {None} /\ None \in Failures \cup {None}
      /\ Contracts \subseteq Entries /\ {t} \in SUBSET Threads
  BY ClientAssumption DEF Entries
<1>1. CASE Publish(t) \/ PublishAuth(t)
  <2>1. PICK possible : pc[t] = "publish" /\ Store(t, possible)
    BY <1>1 DEF Publish, PublishAuth
  <2>2. entry' \in [Keys -> Entries]
    BY <1>0, <2>1 DEF TypeOK, Store
  <2>3. /\ pc' \in [Threads -> Steps]
        /\ failure' \in [Threads -> Failures \cup {None}]
        /\ variant' \in [Threads -> 0..1]
        /\ tries' \in [Threads -> 0..(MaxRetries - 1)]
    <3>1. CASE Fail(t, "write")
      BY <3>1, FailType DEF Failures
    <3>2. CASE Goto(t, "finish") /\ UNCHANGED <<failure, variant, tries>>
      BY <3>2 DEF TypeOK, Goto, Steps
    <3>3. QED
      BY <2>1, <3>1, <3>2 DEF Store
  <2>4. QED
    BY <2>1, <2>2, <2>3 DEF TypeOK, Store
<1>2. CASE Finish(t)
  <2>1. answer[t] \in Contracts \cup {None} /\ misread[t] \in 0..2
    BY DEF TypeOK
  <2>2. /\ flight' \in [Threads -> Threads \cup {None}]
        /\ mail' \in [Threads -> [contract : Contracts \cup {None},
                                  error : Failures \cup {None}, retry : BOOLEAN, misread : 0..2]]
    BY <1>0, <1>2, <2>1, FinishType DEF Finish
  <2>3. QED
    BY <1>2, <2>2 DEF TypeOK, Finish, Goto, Steps, shared
<1>3. CASE Release(t) \/ ReleaseAuth(t)
  <2>1. Accept(t, answer[t], misread[t]) /\ answer[t] \in Contracts /\ Unlock(t) /\ Forget({t})
    BY <1>3 DEF Release, ReleaseAuth, AcceptAuth
  <2>2. memo' \in [Threads -> [AuthKeys -> Contracts \cup {None}]]
    <3>1. CASE memo' = memo
      BY <3>1 DEF TypeOK
    <3>2. CASE memo' # memo
      <4>1. key[t] \in AuthKeys /\ memo' = [memo EXCEPT ![t][key[t]] = answer[t]]
        BY <1>3, <3>2 DEF Release, ReleaseAuth, AcceptAuth
      <4>2. QED
        BY <2>1, <4>1, MemoType
    <3>3. QED
      BY <3>1, <3>2
  <2>3. /\ variant' \in [Threads -> 0..1]
        /\ tries' \in [Threads -> 0..(MaxRetries - 1)]
        /\ answer' \in [Threads -> Contracts \cup {None}]
        /\ failure' \in [Threads -> Failures \cup {None}]
        /\ authentic' \in [Threads -> BOOLEAN]
        /\ misread' \in [Threads -> 0..2]
    BY <1>0, <2>1, ResetType
  <2>4. UNCHANGED <<key, flight, mail, entry, calls, faults>>
    BY <1>3 DEF Release, ReleaseAuth
  <2>5. QED
    BY <2>1, <2>2, <2>3, <2>4, AcceptType, UnlockType DEF TypeOK
<1>4. CASE Unwind(t)
  BY <1>4, UnlockType DEF TypeOK, Unwind, Goto, Steps, locals
<1>5. CASE Report(t)
  <2>1. PICK e \in Failures \cup {None}, r \in BOOLEAN :
          FinishInflight(t, [contract |-> None, error |-> e, retry |-> r, misread |-> 0])
    BY <1>5, <1>0 DEF TypeOK, Report, NoMail
  <2>2. /\ flight' \in [Threads -> Threads \cup {None}]
        /\ mail' \in [Threads -> [contract : Contracts \cup {None},
                                  error : Failures \cup {None}, retry : BOOLEAN, misread : 0..2]]
    <3>1. 0 \in 0..2
      OBVIOUS
    <3>2. QED
      BY <1>0, <2>1, <3>1, FinishType
  <2>3. /\ failure[t] \in Failures \cup {None} /\ misread[t] \in 0..2
        /\ Return(t, None, failure[t], misread[t]) /\ Forget({t})
    BY <1>5 DEF TypeOK, Report
  <2>4. QED
    BY <1>0, <1>5, <2>2, <2>3, ReturnType, ResetType DEF TypeOK, Report, shared
<1>6. QED
  BY <1>1, <1>2, <1>3, <1>4, <1>5

\* Interrupts and kills keep the types.
LEMMA FaultType ==
    ASSUME TypeOK, NEW t \in Threads, Interrupt(t) \/ Kill(t)
    PROVE  TypeOK'
<1>0. None \in Contracts \cup {None} /\ None \in Failures \cup {None}
  OBVIOUS
<1>1. faults' \in 0..MaxFaults
  BY ClientAssumption DEF TypeOK, Interrupt, Kill
<1>2. CASE Interrupt(t)
  <2>1. CASE pc[t] = "wait"
    <3>1. Return(t, None, "interrupt", 0) /\ "interrupt" \in Failures
      BY <1>2, <2>1 DEF Interrupt, Failures
    <3>2. /\ pc' \in [Threads -> Steps]
          /\ result' \in [Threads -> [contract : Contracts \cup {None},
                                     error : Failures \cup {None}, misread : 0..2]]
      BY <3>1, ReturnType
    <3>3. mail' \in [Threads -> [contract : Contracts \cup {None},
                                error : Failures \cup {None}, retry : BOOLEAN, misread : 0..2]]
      <4>1. mail' = [mail EXCEPT ![t] = NoMail]
        BY <1>2, <2>1 DEF Interrupt
      <4>2. NoMail \in [contract : Contracts \cup {None}, error : Failures \cup {None},
                       retry : BOOLEAN, misread : 0..2]
        BY DEF NoMail
      <4>3. QED
        BY <4>1, <4>2 DEF TypeOK
    <3>4. QED
      BY <1>1, <1>2, <2>1, <3>2, <3>3 DEF TypeOK, Interrupt, shared
  <2>2. CASE Fail(t, "interrupt") /\ UNCHANGED <<flight, mail, result>>
    BY <1>1, <1>2, <2>2, FailType DEF TypeOK, Interrupt, Failures, shared
  <2>3. QED
    BY <1>2, <2>1, <2>2 DEF Interrupt
<1>3. CASE Kill(t)
  <2>1. Peers(t) \in SUBSET Threads /\ Forget(Peers(t))
    BY <1>3 DEF Kill, Peers
  <2>2. /\ pc' \in [Threads -> Steps]
        /\ flight' \in [Threads -> Threads \cup {None}]
        /\ stripe' \in [Stripes -> Threads \cup {None}]
        /\ capacity' \in Threads \cup {None}
        /\ mail' \in [Threads -> [contract : Contracts \cup {None},
                                  error : Failures \cup {None}, retry : BOOLEAN, misread : 0..2]]
    BY <1>3 DEF TypeOK, Kill, Steps, NoMail
  <2>3. memo' \in [Threads -> [AuthKeys -> Contracts \cup {None}]]
    BY <1>3 DEF TypeOK, Kill
  <2>4. QED
    BY <1>1, <1>3, <2>1, <2>2, <2>3, ResetType DEF TypeOK, Kill
<1>4. QED
  BY <1>2, <1>3

-----------------------------------------------------------------------------
(* What a step leaves alone.                                               *)

\* No field of the call of thread r, nor of its end, changes.
Same(r) ==
    /\ pc'[r] = pc[r] /\ key'[r] = key[r] /\ answer'[r] = answer[r] /\ failure'[r] = failure[r]
    /\ authentic'[r] = authentic[r] /\ misread'[r] = misread[r]
    /\ memo'[r] = memo[r] /\ result'[r] = result[r]

\* A thread whose call and locks a step leaves alone keeps its invariant, when
\* no entry changes.
LEMMA Frame ==
    ASSUME NEW r \in Threads, Local(r), Same(r), entry' = entry,
           pc[r] \in Striped => stripe'[Stripe[key[r]]] = stripe[Stripe[key[r]]],
           pc[r] \in Reserving => capacity' = capacity
    PROVE  Local(r)'
<1>1. Locked(r)'
  BY DEF Local, Locked, Same
<1>2. Reserved(r)'
  BY DEF Local, Reserved, Same, Room, Exists
<1>3. Given(r)'
  BY DEF Local, Given, Same, Published, AskedAgain
<1>4. Asking(r)'
  BY DEF Local, Asking, Same, AskedAgain, Unusable, Exists
<1>5. Failing(r)'
  BY DEF Local, Failing, Same, Unusable
<1>6. Ended(r)'
  BY DEF Local, Ended, Same, Published, AskedAgain, Unusable
<1>7. QED
  BY <1>1, <1>2, <1>3, <1>4, <1>5, <1>6 DEF Local

\* The mail of a thread that keeps its key stays good when no entry changes.
LEMMA MailFrame ==
    ASSUME NEW r \in Threads, Mailed(r), mail'[r] = mail[r], key'[r] = key[r], entry' = entry
    PROVE  Mailed(r)'
  BY DEF Mailed, Published, AskedAgain

\* A flight stays one while its owner goes on and nobody changes keys.
LEMMA FlightFrame ==
    ASSUME NEW r \in Threads, Flying(r), flight'[r] = flight[r], mail'[r] = mail[r],
           pc'[r] = pc[r], key'[r] = key[r],
           flight[r] # None => /\ flight'[flight[r]] = flight[flight[r]]
                               /\ key'[flight[r]] = key[flight[r]]
                               /\ pc'[flight[r]] \in Owning
    PROVE  Flying(r)'
  BY DEF Flying

\* Only one thread holds a lock, so only one may publish, and nobody else does
\* for the key of a thread with its stripe.
LEMMA Exclusion ==
    ASSUME Inv, NEW t \in Threads, NEW u \in Threads, t # u
    PROVE  /\ ~(pc[t] \in Reserving /\ pc[u] \in Reserving)
           /\ pc[t] \in Striped /\ pc[u] \in Striped => key[t] # key[u]
  BY DEF Inv, Sound, Local, Locked

\* Outside of a flight there is no flight, mail or failure, and no entry that is
\* asked for again; an owner has no mail.
LEMMA Outside ==
    ASSUME Inv, NEW t \in Threads
    PROVE  /\ pc[t] \notin Owning \cup {"wait"} => flight[t] = None /\ mail[t] = NoMail
           /\ pc[t] \in Owning => flight[t] \in {None, t} /\ mail[t] = NoMail
           /\ pc[t] \notin {"unwind", "report"} => failure[t] = None
           /\ pc[t] \notin MayAsk => ~authentic[t]
  BY DEF Inv, TypeOK, Sound, Flying, Local, Failing, Owning, Asking

\* A step of t that changes no entry, leaves the others their calls, mail and
\* locks, and does not leave a flight t owns, keeps the others sound.
LEMMA OthersKeep ==
    ASSUME Inv, NEW t \in Threads, entry' = entry,
           \A r \in Threads \ {t} : Same(r) /\ mail'[r] = mail[r] /\ flight'[r] = flight[r],
           \A r \in Threads \ {t} : \A s \in Stripes : stripe[s] = r => stripe'[s] = r,
           \A r \in Threads \ {t} : capacity = r => capacity' = r,
           pc[t] \in Owning => pc'[t] \in Owning /\ key'[t] = key[t] /\ flight'[t] = flight[t]
    PROVE  \A r \in Threads \ {t} : Sound(r)'
<1> SUFFICES ASSUME NEW r \in Threads \ {t}
             PROVE  Sound(r)'
  OBVIOUS
<1>1. Local(r) /\ Flying(r) /\ Mailed(r) /\ Same(r)
  BY DEF Inv, Sound
<1>2. Stripe[key[r]] \in Stripes
  BY StripeIn DEF Inv, TypeOK
<1>3. Local(r)'
  BY <1>1, <1>2, Frame DEF Local, Locked
<1>4. Mailed(r)'
  BY <1>1, MailFrame DEF Same
<1>5. Flying(r)'
  <2>1. pc'[r] = pc[r] /\ key'[r] = key[r] /\ \A u \in Threads \ {t} : pc'[u] = pc[u] /\ key'[u] = key[u]
    BY DEF Same
  <2>2. flight[r] # None => flight[r] \in Threads /\ pc[flight[r]] \in Owning
    BY <1>1 DEF Flying, Inv, TypeOK
  <2>3. QED
    BY <1>1, <2>1, <2>2, FlightFrame
<1>6. QED
  BY <1>3, <1>4, <1>5 DEF Sound

\* An owner that goes on with its flight keeps it.
LEMMA OwnerKeeps ==
    ASSUME Inv, NEW t \in Threads, entry' = entry, pc[t] \in Owning, pc'[t] \in Owning,
           key'[t] = key[t], flight'[t] = flight[t], mail'[t] = mail[t]
    PROVE  Flying(t)' /\ Mailed(t)'
  BY Outside, ClientAssumption DEF Inv, Sound, Flying, Mailed, Published, AskedAgain, Owning

-----------------------------------------------------------------------------
(* Before the locks.                                                       *)

\* A contract that may be given, run through the client's own policy, ends the
\* call well.
LEMMA AcceptEnds ==
    ASSUME Inv, NEW t \in Threads, NEW c \in Contracts, NEW n, Published(c, key[t], n),
           Accept(t, c, n), key' = key, entry' = entry
    PROVE  Ended(t)' /\ pc'[t] = "idle" /\ \A r \in Threads \ {t} :
              pc'[r] = pc[r] /\ result'[r] = result[r]
<1>1. Refused[t] \subseteq Contracts /\ None \notin Contracts /\ None # "refused" /\ None # "conflict"
  BY ClientAssumption DEF Failures
<1>2. pc'[t] = "idle" /\ \A r \in Threads \ {t} : pc'[r] = pc[r] /\ result'[r] = result[r]
  BY DEF Inv, TypeOK, Accept, Return, Goto
<1>3. CASE c \in Refused[t]
  <2>1. /\ result'[t].contract = None /\ result'[t].error = "refused"
        /\ result'[t].misread = n
    BY <1>3 DEF Inv, TypeOK, Accept, Return
  <2>2. QED
    BY <1>1, <1>2, <1>3, <2>1 DEF Ended, Published, AskedAgain
<1>4. CASE c \notin Refused[t]
  <2>1. result'[t].contract = c /\ result'[t].error = None /\ result'[t].misread = n
    BY <1>4 DEF Inv, TypeOK, Accept, Return
  <2>2. QED
    BY <1>1, <1>2, <1>4, <2>1 DEF Ended, Published, AskedAgain
<1>5. QED
  BY <1>3, <1>4

\* What a client keeps of an answer to an Auth key is published.
LEMMA MemoGiven ==
    ASSUME Inv, NEW t \in Threads, NEW c \in Contracts, NEW n, Published(c, key[t], n),
           entry' = entry, key[t] \in AuthKeys,
           memo' = IF c \in Refused[t] THEN memo ELSE [memo EXCEPT ![t][key[t]] = c]
    PROVE  /\ \A k \in AuthKeys : memo'[t][k] # None => entry'[k] = memo'[t][k]
           /\ \A r \in Threads \ {t} : memo'[r] = memo[r]
<1>1. \A k \in AuthKeys : memo[t][k] # None => entry[k] = memo[t][k]
  BY DEF Inv, Sound, Local, Given
<1>2. CASE c \in Refused[t]
  BY <1>1, <1>2
<1>3. CASE c \notin Refused[t]
  <2>1. /\ memo'[t] = [memo[t] EXCEPT ![key[t]] = c]
        /\ \A r \in Threads \ {t} : memo'[r] = memo[r]
    BY <1>3 DEF Inv, TypeOK
  <2>2. memo[t] \in [AuthKeys -> Contracts \cup {None}]
    BY DEF Inv, TypeOK
  <2>3. entry'[key[t]] = c
    BY DEF Published, AskedAgain
  <2>4. ASSUME NEW k \in AuthKeys, memo'[t][k] # None
        PROVE  entry'[k] = memo'[t][k]
    <3>1. CASE k = key[t]
      BY <2>1, <2>2, <2>3, <3>1
    <3>2. CASE k # key[t]
      BY <1>1, <2>1, <2>2, <2>4, <3>2
    <3>3. QED
      BY <3>1, <3>2
  <2>5. QED
    BY <2>1, <2>4
<1>4. QED
  BY <1>2, <1>3

\* A thread that is between the calls, looks into the cache or waits has neither
\* locks nor a failure to answer for.
LEMMA Early ==
    ASSUME Inv, NEW t \in Threads, pc'[t] \in {"idle", "lookup", "join", "wait", "dead"},
           failure'[t] = None, ~authentic'[t], Ended(t)',
           \A k \in AuthKeys : memo'[t][k] # None => entry'[k] = memo'[t][k]
    PROVE  Local(t)'
  BY ClientAssumption DEF Local, Locked, Reserved, Given, Asking, Failing, Striped, Reserving,
                          Failures

\* classify_growth, classify_auth: a new call has no result yet.
LEMMA CallKeeps ==
    ASSUME Inv, NEW t \in Threads, NEW k \in Keys, Call(t, k)
    PROVE  \A r \in Threads : Sound(r)'
<1>1. /\ flight[t] = None /\ mail[t] = NoMail /\ failure[t] = None /\ ~authentic[t]
      /\ pc[t] \notin Owning
  BY Outside DEF Call, Owning, MayAsk
<1>2. \A r \in Threads \ {t} : Sound(r)'
  BY <1>1, OthersKeep DEF Inv, TypeOK, Call, Goto, Same, shared
<1>3. Ended(t)'
  BY ClientAssumption DEF Inv, TypeOK, Call, Ended, NoResult, Failures
<1>4. Local(t)'
  <2>1. pc'[t] = "lookup" /\ failure'[t] = None /\ ~authentic'[t]
    BY <1>1 DEF Inv, TypeOK, Call, Goto
  <2>2. \A j \in AuthKeys : memo'[t][j] # None => entry'[j] = memo'[t][j]
    BY DEF Inv, Sound, Local, Given, Call, shared
  <2>3. QED
    BY <1>3, <2>1, <2>2, Early
<1>5. Flying(t)' /\ Mailed(t)'
  BY <1>1, ClientAssumption DEF Call, Flying, Mailed, NoMail
<1>6. QED
  BY <1>2, <1>4, <1>5 DEF Sound

\* The first look into the cache: an entry of the key is its published contract.
LEMMA LookupKeeps ==
    ASSUME Inv, NEW t \in Threads, Lookup(t) \/ LookupAuth(t)
    PROVE  \A r \in Threads : Sound(r)'
<1>1. /\ flight[t] = None /\ mail[t] = NoMail /\ failure[t] = None /\ ~authentic[t]
      /\ pc[t] \notin Owning
  BY Outside DEF Lookup, LookupAuth, Owning, MayAsk
<1>2. UNCHANGED <<locals, shared>>
  BY DEF Lookup, LookupAuth
<1>3. /\ pc'[t] \in {"idle", "join"} /\ Ended(t)'
      /\ \A r \in Threads \ {t} : pc'[r] = pc[r] /\ result'[r] = result[r] /\ memo'[r] = memo[r]
      /\ \A k \in AuthKeys : memo'[t][k] # None => entry'[k] = memo'[t][k]
  <2> DEFINE Goal ==
        /\ pc'[t] \in {"idle", "join"} /\ Ended(t)'
        /\ \A r \in Threads \ {t} : pc'[r] = pc[r] /\ result'[r] = result[r] /\ memo'[r] = memo[r]
        /\ \A k \in AuthKeys : memo'[t][k] # None => entry'[k] = memo'[t][k]
  <2>1. \A k \in AuthKeys : memo[t][k] # None => entry[k] = memo[t][k]
    BY DEF Inv, Sound, Local, Given
  <2>2. key' = key /\ entry' = entry
    BY <1>2 DEF locals, shared
  <2>3. PICK c \in Contracts \cup {None} :
          /\ Reads(key[t], c)
          /\ \/ c # None /\ Accept(t, c, 0) /\ UNCHANGED memo
             \/ c = None /\ Goto(t, "join") /\ UNCHANGED <<result, memo>>
             \/ c # None /\ key[t] \in AuthKeys /\ AcceptAuth(t, c, 0)
             \/ /\ c = None /\ key[t] \in AuthKeys /\ memo[t][key[t]] # None
                /\ Accept(t, memo[t][key[t]], 0) /\ UNCHANGED memo
    BY DEF Lookup, LookupAuth
  <2>4. c # None => c \in Contracts /\ Published(c, key[t], 0)
    BY <2>3, ClientAssumption DEF Reads, Usable, Published
  <2>5. CASE c # None /\ Accept(t, c, 0) /\ UNCHANGED memo
    BY <2>1, <2>2, <2>4, <2>5, AcceptEnds
  <2>6. CASE c = None /\ Goto(t, "join") /\ UNCHANGED <<result, memo>>
    <3>1. Ended(t)'
      BY <2>2, <2>6 DEF Inv, Sound, Local, Ended, Published, AskedAgain, Unusable
    <3>2. QED
      BY <2>1, <2>2, <2>6, <3>1 DEF Inv, TypeOK, Goto
  <2>7. CASE c # None /\ key[t] \in AuthKeys /\ AcceptAuth(t, c, 0)
    <3>1. /\ Accept(t, c, 0)
          /\ memo' = IF c \in Refused[t] THEN memo ELSE [memo EXCEPT ![t][key[t]] = c]
      BY <2>7 DEF AcceptAuth
    <3>2. QED
      BY <2>2, <2>4, <2>7, <3>1, AcceptEnds, MemoGiven
  <2>8. CASE /\ c = None /\ key[t] \in AuthKeys /\ memo[t][key[t]] # None
             /\ Accept(t, memo[t][key[t]], 0) /\ UNCHANGED memo
    <3>1. memo[t][key[t]] \in Contracts /\ Published(memo[t][key[t]], key[t], 0)
      BY <2>1, <2>8 DEF Inv, TypeOK, Published
    <3>2. QED
      BY <2>1, <2>2, <2>8, <3>1, AcceptEnds
  <2>9. QED
    BY <2>3, <2>5, <2>6, <2>7, <2>8
<1>4. \A r \in Threads \ {t} : Sound(r)'
  BY <1>1, <1>2, <1>3, OthersKeep DEF Same, locals, shared
<1>5. Local(t)'
  BY <1>1, <1>2, <1>3, Early DEF locals
<1>6. Flying(t)' /\ Mailed(t)'
  BY <1>1, <1>2, ClientAssumption DEF Flying, Mailed, NoMail, locals
<1>7. QED
  BY <1>4, <1>5, <1>6 DEF Sound

\* _join_inflight: whoever joins a flight finds its owner at work on the key.
LEMMA JoinKeeps ==
    ASSUME Inv, NEW t \in Threads, Join(t)
    PROVE  \A r \in Threads : Sound(r)'
<1> DEFINE owners == {u \in Peers(t) : Owns(u) /\ key[u] = key[t]}
<1>1. /\ flight[t] = None /\ mail[t] = NoMail /\ failure[t] = None /\ ~authentic[t]
      /\ pc[t] = "join"
  BY Outside DEF Join, Owning, MayAsk
<1>2. /\ flight' = [flight EXCEPT ![t] = IF owners = {} THEN t ELSE CHOOSE u \in owners : TRUE]
      /\ pc' = [pc EXCEPT ![t] = IF owners = {} THEN "stripe" ELSE "wait"]
      /\ UNCHANGED <<key, answer, failure, mail, authentic, misread, memo, stripe, capacity,
                     entry, result>>
  BY DEF Join, Goto, shared
<1>3. pc'[t] \in {"stripe", "wait"} /\ \A r \in Threads \ {t} : flight'[r] = flight[r] /\ pc'[r] = pc[r]
  BY <1>2 DEF Inv, TypeOK
<1>4. \A r \in Threads \ {t} : Sound(r)'
  BY <1>1, <1>2, <1>3, OthersKeep DEF Same, Owning
<1>5. Local(t)'
  <2>1. Given(t)' /\ Failing(t)' /\ Asking(t)'
    BY <1>1, <1>2, <1>3, ClientAssumption
       DEF Inv, Sound, Local, Given, Failing, Asking, Failures
  <2>2. Ended(t)'
    BY <1>2 DEF Inv, Sound, Local, Ended, Published, AskedAgain, Unusable
  <2>3. Locked(t)' /\ Reserved(t)'
    BY <1>3 DEF Locked, Reserved, Striped, Reserving
  <2>4. QED
    BY <2>1, <2>2, <2>3 DEF Local
<1>6. Mailed(t)'
  BY <1>1, <1>2, ClientAssumption DEF Mailed, NoMail
<1>7. Flying(t)'
  <2>1. CASE owners = {}
    <3>1. flight'[t] = t /\ pc'[t] = "stripe"
      BY <1>2, <2>1 DEF Inv, TypeOK
    <3>2. QED
      BY <1>1, <1>2, <3>1 DEF Flying, Owning
  <2>2. CASE owners # {}
    <3>1. PICK u \in owners : flight'[t] = u /\ pc'[t] = "wait"
      BY <1>2, <2>2 DEF Inv, TypeOK
    <3>2. u \in Threads /\ Process[u] = Process[t] /\ flight[u] = u /\ key[u] = key[t]
      BY <3>1 DEF Peers, Owns
    <3>3. u # t /\ pc[u] \in Owning
      BY <1>1, <3>2, ClientAssumption DEF Inv, Sound, Flying
    <3>4. QED
      BY <1>1, <1>2, <1>3, <3>1, <3>2, <3>3 DEF Flying
  <2>3. QED
    BY <2>1, <2>2
<1>8. QED
  BY <1>4, <1>5, <1>6, <1>7 DEF Sound

\* A waiter: the contract it is mailed may be given, the error is one that is
\* shared, and with its mail taken it is out of the flight.
LEMMA WakeKeeps ==
    ASSUME Inv, NEW t \in Threads, Wake(t)
    PROVE  \A r \in Threads : Sound(r)'
<1>1. /\ flight[t] = None /\ failure[t] = None /\ ~authentic[t]
      /\ pc[t] = "wait" /\ pc[t] \notin Owning
  BY Outside DEF Inv, Sound, Flying, Wake, Owning, MayAsk
<1>2. /\ mail' = [mail EXCEPT ![t] = NoMail]
      /\ UNCHANGED <<key, flight, answer, failure, authentic, misread, stripe, capacity, entry>>
  BY DEF Wake, shared
<1>3. /\ pc'[t] \in {"idle", "lookup"} /\ Ended(t)'
      /\ \A r \in Threads \ {t} : pc'[r] = pc[r] /\ result'[r] = result[r] /\ memo'[r] = memo[r]
      /\ \A k \in AuthKeys : memo'[t][k] # None => entry'[k] = memo'[t][k]
  <2>1. \A k \in AuthKeys : memo[t][k] # None => entry[k] = memo[t][k]
    BY DEF Inv, Sound, Local, Given
  <2>2. CASE mail[t].contract # None /\ AcceptEither(t, mail[t].contract, mail[t].misread)
    <3>1. /\ mail[t].contract \in Contracts
          /\ Published(mail[t].contract, key[t], mail[t].misread)
      BY <2>2 DEF Inv, TypeOK, Sound, Mailed
    <3>2. CASE key[t] \in AuthKeys
      <4>1. /\ Accept(t, mail[t].contract, mail[t].misread)
            /\ memo' = IF mail[t].contract \in Refused[t] THEN memo
                       ELSE [memo EXCEPT ![t][key[t]] = mail[t].contract]
        BY <2>2, <3>2 DEF AcceptEither, AcceptAuth
      <4>2. QED
        BY <1>2, <3>1, <3>2, <4>1, AcceptEnds, MemoGiven
    <3>3. CASE key[t] \notin AuthKeys
      <4>1. Accept(t, mail[t].contract, mail[t].misread) /\ UNCHANGED memo
        BY <2>2, <3>3 DEF AcceptEither
      <4>2. QED
        BY <1>2, <2>1, <3>1, <4>1, AcceptEnds
    <3>4. QED
      BY <3>2, <3>3
  <2>3. CASE mail[t].error # None /\ Return(t, None, mail[t].error, 0) /\ UNCHANGED memo
    <3>1. mail[t].error = "reply"
      BY <2>3 DEF Inv, Sound, Mailed, Shareable
    <3>2. result'[t].contract = None /\ result'[t].error = "reply"
      BY <2>3, <3>1 DEF Inv, TypeOK, Return
    <3>3. Ended(t)'
      BY <3>2, ClientAssumption DEF Ended
    <3>4. QED
      BY <1>2, <2>1, <2>3, <3>3 DEF Inv, TypeOK, Return, Goto
  <2>4. CASE mail[t].retry /\ Goto(t, "lookup") /\ UNCHANGED <<result, memo>>
    <3>1. Ended(t)'
      BY <1>2, <2>4 DEF Inv, Sound, Local, Ended, Published, AskedAgain, Unusable
    <3>2. QED
      BY <1>2, <2>1, <2>4, <3>1 DEF Inv, TypeOK, Goto
  <2>5. QED
    BY <2>2, <2>3, <2>4 DEF Wake
<1>4. \A r \in Threads \ {t} : mail'[r] = mail[r]
  BY <1>2 DEF Inv, TypeOK
<1>5. \A r \in Threads \ {t} : Sound(r)'
  BY <1>1, <1>2, <1>3, <1>4, OthersKeep DEF Same
<1>6. Local(t)'
  BY <1>1, <1>2, <1>3, Early
<1>7. mail'[t] = NoMail
  BY <1>2 DEF Inv, TypeOK
<1>8. Flying(t)' /\ Mailed(t)'
  BY <1>1, <1>2, <1>7, ClientAssumption DEF Flying, Mailed, NoMail
<1>9. QED
  BY <1>5, <1>6, <1>8 DEF Sound

-----------------------------------------------------------------------------
(* The owner of a flight.                                                  *)

\* What an owner remembers and how its last call ended do not change before its
\* flight is over.
LEMMA OwnerLocal ==
    ASSUME Inv, NEW t \in Threads, entry' = entry, key'[t] = key[t], memo'[t] = memo[t],
           result'[t] = result[t], Locked(t)', Reserved(t)', Asking(t)', Failing(t)',
           pc'[t] \in {"finish", "release"} =>
              answer'[t] \in Contracts /\ Published(answer'[t], key[t], misread'[t])
    PROVE  Local(t)'
<1>1. Given(t)'
  BY DEF Inv, Sound, Local, Given, Published, AskedAgain
<1>2. Ended(t)'
  BY DEF Inv, Sound, Local, Ended, Published, AskedAgain, Unusable
<1>3. QED
  BY <1>1, <1>2 DEF Local

\* A failed request is on its way out, and a conflict names its entry.
LEMMA FailKeeps ==
    ASSUME Inv, NEW t \in Threads, NEW e \in Failures \ {"refused"}, Fail(t, e),
           entry' = entry, key'[t] = key[t], memo'[t] = memo[t], result'[t] = result[t],
           authentic'[t] = authentic[t], misread'[t] = misread[t],
           e = "conflict" => Unusable(key[t], misread[t])
    PROVE  Local(t)' /\ pc'[t] = "unwind" /\ \A r \in Threads \ {t} :
              pc'[r] = pc[r] /\ failure'[r] = failure[r]
<1>1. /\ pc'[t] = "unwind" /\ failure'[t] = e
      /\ \A r \in Threads \ {t} : pc'[r] = pc[r] /\ failure'[r] = failure[r]
  BY DEF Inv, TypeOK, Fail, Goto
<1>2. Locked(t)' /\ Reserved(t)'
  BY <1>1 DEF Locked, Reserved, Striped, Reserving
<1>3. Asking(t)'
  BY <1>1 DEF Inv, Sound, Local, Asking, AskedAgain, MayAsk
<1>4. Failing(t)'
  BY <1>1 DEF Failing, Unusable
<1>5. Local(t)'
  BY <1>1, <1>2, <1>3, <1>4, OwnerLocal
<1>6. QED
  BY <1>1, <1>5

\* single_flight: the stripe is free when it is taken.
LEMMA LockStripeKeeps ==
    ASSUME Inv, NEW t \in Threads, LockStripe(t)
    PROVE  \A r \in Threads : Sound(r)'
<1>1. pc[t] = "stripe" /\ failure[t] = None /\ ~authentic[t] /\ pc[t] \in Owning
  BY Outside DEF LockStripe, Owning, MayAsk
<1>2. /\ stripe[Stripe[key[t]]] = None
      /\ stripe' = [stripe EXCEPT ![Stripe[key[t]]] = t]
      /\ pc' = [pc EXCEPT ![t] = "recheck"]
      /\ UNCHANGED <<key, flight, answer, failure, mail, authentic, misread, memo, capacity,
                     entry, result>>
  BY DEF LockStripe, Goto, locals
<1>3. /\ pc'[t] = "recheck" /\ pc'[t] \in Owning
      /\ \A r \in Threads \ {t} : pc'[r] = pc[r]
  BY <1>2 DEF Inv, TypeOK, Owning
<1>4. /\ stripe'[Stripe[key[t]]] = t
      /\ \A r \in Threads : \A s \in Stripes : stripe[s] = r => stripe'[s] = r
  BY <1>2, StripeIn, ClientAssumption DEF Inv, TypeOK
<1>5. \A r \in Threads \ {t} : Sound(r)'
  BY <1>1, <1>2, <1>3, <1>4, OthersKeep DEF Same
<1>6. Locked(t)' /\ Reserved(t)' /\ Asking(t)' /\ Failing(t)'
  BY <1>1, <1>2, <1>3, <1>4, ClientAssumption
     DEF Locked, Reserved, Asking, Failing, Reserving, Failures
<1>7. Local(t)'
  BY <1>2, <1>3, <1>6, OwnerLocal
<1>8. QED
  BY <1>1, <1>2, <1>3, <1>5, <1>7, OwnerKeeps DEF Sound

\* The second look: what is found is the published contract, and what is not
\* found, or could not be read, is remembered as such.
LEMMA RecheckKeeps ==
    ASSUME Inv, NEW t \in Threads, Recheck(t)
    PROVE  \A r \in Threads : Sound(r)'
<1>1. /\ pc[t] = "recheck" /\ failure[t] = None /\ ~authentic[t]
      /\ pc[t] \in Owning /\ pc[t] \in Striped
  BY Outside DEF Recheck, Owning, Striped, MayAsk
<1>2. PICK c \in Contracts \cup {None} :
        /\ Reads(key[t], c)
        /\ answer' = [answer EXCEPT ![t] = c]
        /\ misread' = [misread EXCEPT ![t] = IF faults' # faults THEN 1 ELSE 0]
        /\ pc' = [pc EXCEPT ![t] = IF c # None THEN "finish"
                                   ELSE IF key[t] \in AuthKeys THEN "reserve" ELSE "authenticate"]
  BY DEF Recheck, Goto
<1>3. UNCHANGED <<key, flight, failure, mail, authentic, memo, stripe, capacity, entry, result>>
  BY DEF Recheck, shared
<1>4. /\ answer'[t] = c /\ misread'[t] = (IF faults' # faults THEN 1 ELSE 0)
      /\ pc'[t] = (IF c # None THEN "finish"
                   ELSE IF key[t] \in AuthKeys THEN "reserve" ELSE "authenticate")
      /\ pc'[t] \in Owning
      /\ \A r \in Threads \ {t} :
            pc'[r] = pc[r] /\ answer'[r] = answer[r] /\ misread'[r] = misread[r]
  BY <1>2 DEF Inv, TypeOK, Owning
<1>5. \A r \in Threads \ {t} : Sound(r)'
  BY <1>1, <1>3, <1>4, OthersKeep DEF Same
<1>6. c # None => c \in Contracts /\ Published(c, key[t], misread'[t])
  BY <1>2, ClientAssumption DEF Reads, Usable, Published
<1>7. c = None /\ entry[key[t]] \in Contracts => misread'[t] = 1
  <2>1. CASE c = (IF Usable(key[t]) THEN entry[key[t]] ELSE None)
    BY <2>1, ClientAssumption DEF Usable
  <2>2. CASE Unopened
    BY <1>4, <2>2 DEF Unopened, Inv, TypeOK
  <2>3. QED
    BY <1>2, <2>1, <2>2 DEF Reads
<1>8. Locked(t)'
  BY <1>1, <1>3, <1>4 DEF Inv, Sound, Local, Locked, Reserving
<1>9. Reserved(t)' /\ Failing(t)'
  BY <1>1, <1>3, <1>4, ClientAssumption DEF Reserved, Failing, Failures
<1>10. Asking(t)'
  <2>1. c = None => entry[key[t]] \in Contracts \cup {None, Foreign, Stale}
    BY DEF Inv, TypeOK, Entries
  <2>2. QED
    BY <1>1, <1>3, <1>4, <1>7, <2>1 DEF Asking, Unusable, Exists
<1>11. Local(t)'
  BY <1>3, <1>4, <1>6, <1>8, <1>9, <1>10, OwnerLocal
<1>12. QED
  BY <1>1, <1>3, <1>4, <1>5, <1>11, OwnerKeeps DEF Sound

\* authenticated_snapshot: what it authenticates is asked for again, and what it
\* does not cannot be used.
LEMMA AuthenticateKeeps ==
    ASSUME Inv, NEW t \in Threads, Authenticate(t)
    PROVE  \A r \in Threads : Sound(r)'
<1>1. /\ pc[t] = "authenticate" /\ failure[t] = None /\ ~authentic[t]
      /\ pc[t] \in Owning /\ pc[t] \in Striped
  BY Outside DEF Authenticate, Owning, Striped, MayAsk
<1>2. /\ pc' = [pc EXCEPT ![t] = "reserve"]
      /\ UNCHANGED <<key, flight, answer, failure, mail, memo, stripe, capacity, entry, result>>
  BY DEF Authenticate, Goto, shared
<1>3. /\ key[t] \notin AuthKeys /\ misread[t] \in 0..1
      /\ entry[key[t]] \in Contracts => misread[t] = 1
      /\ entry[key[t]] \in Contracts \cup {None, Foreign, Stale}
  BY <1>1 DEF Inv, Sound, Local, Asking, TypeOK, Entries
<1>4. /\ pc'[t] = "reserve" /\ pc'[t] \in Owning
      /\ \A r \in Threads \ {t} :
            pc'[r] = pc[r] /\ authentic'[r] = authentic[r] /\ misread'[r] = misread[r]
  BY <1>2 DEF Inv, TypeOK, Authenticate, Owning
<1>5. \/ authentic'[t] = Authenticates(key[t]) /\ misread'[t] = misread[t]
      \/ ~authentic'[t] /\ misread'[t] = misread[t] + 1
  BY <1>1 DEF Inv, TypeOK, Authenticate
<1>6. \A r \in Threads \ {t} : Sound(r)'
  BY <1>1, <1>2, <1>4, OthersKeep DEF Same
<1>7. Asking(t)'
  <2>1. CASE authentic'[t] = Authenticates(key[t]) /\ misread'[t] = misread[t]
    BY <1>2, <1>3, <1>4, <2>1
       DEF Asking, MayAsk, Authenticates, AskedAgain, Unusable, Exists
  <2>2. CASE ~authentic'[t] /\ misread'[t] = misread[t] + 1
    BY <1>2, <1>3, <1>4, <2>2 DEF Asking, Unusable, Exists
  <2>3. QED
    BY <1>5, <2>1, <2>2
<1>8. Locked(t)'
  BY <1>1, <1>2, <1>4 DEF Inv, Sound, Local, Locked, Reserving
<1>9. Reserved(t)' /\ Failing(t)'
  BY <1>1, <1>2, <1>4, ClientAssumption DEF Reserved, Failing, Failures
<1>10. Local(t)'
  BY <1>2, <1>4, <1>7, <1>8, <1>9, OwnerLocal
<1>11. QED
  BY <1>1, <1>2, <1>4, <1>6, <1>10, OwnerKeeps DEF Sound

\* capacity_reservation: a conflict is over an entry that could not be used;
\* otherwise there is a slot, and the key is free or asked for again.
LEMMA ReserveKeeps ==
    ASSUME Inv, NEW t \in Threads, Reserve(t)
    PROVE  \A r \in Threads : Sound(r)'
<1>1. pc[t] = "reserve" /\ failure[t] = None /\ pc[t] \in Owning /\ pc[t] \in Striped
  BY Outside DEF Reserve, Owning, Striped
<1>2. /\ capacity = None /\ capacity' = t
      /\ UNCHANGED <<key, flight, answer, mail, authentic, misread, memo, stripe, entry, result>>
  BY DEF Reserve
<1>3. /\ Local(t)' /\ pc'[t] \in Owning
      /\ \A r \in Threads \ {t} : pc'[r] = pc[r] /\ failure'[r] = failure[r]
  <2>1. CASE Exists(key[t]) /\ ~authentic[t] /\ Fail(t, "conflict")
    <3>1. Unusable(key[t], misread[t])
      BY <1>1, <2>1 DEF Inv, Sound, Local, Asking
    <3>2. QED
      BY <1>2, <2>1, <3>1, FailKeeps DEF Failures, Owning
  <2>2. CASE Fail(t, "exhausted")
    BY <1>2, <2>2, FailKeeps DEF Failures, Owning
  <2>3. CASE /\ ~Exists(key[t]) \/ authentic[t]
             /\ Room
             /\ Goto(t, "post")
             /\ UNCHANGED failure
    <3>1. pc'[t] = "post" /\ pc'[t] \in Owning /\ \A r \in Threads \ {t} : pc'[r] = pc[r]
      BY <2>3 DEF Inv, TypeOK, Goto, Owning
    <3>2. Reserved(t)'
      BY <1>2, <2>3, <3>1 DEF Reserved, Room, Exists
    <3>3. Locked(t)'
      BY <1>1, <1>2, <3>1 DEF Inv, Sound, Local, Locked
    <3>4. Failing(t)'
      BY <1>1, <2>3, <3>1, ClientAssumption DEF Failing, Failures
    <3>5. Asking(t)'
      BY <1>2, <3>1 DEF Inv, Sound, Local, Asking, AskedAgain, MayAsk
    <3>6. Local(t)'
      BY <1>2, <3>1, <3>2, <3>3, <3>4, <3>5, OwnerLocal
    <3>7. QED
      BY <2>3, <3>1, <3>6
  <2>4. QED
    BY <2>1, <2>2, <2>3 DEF Reserve
<1>4. \A r \in Threads \ {t} : Sound(r)'
  BY <1>1, <1>2, <1>3, OthersKeep, ClientAssumption DEF Same
<1>5. QED
  BY <1>1, <1>2, <1>3, <1>4, OwnerKeeps DEF Sound

\* The request: an answer goes on with its slot, and is not published over an
\* entry that is asked for again.
LEMMA PostKeeps ==
    ASSUME Inv, NEW t \in Threads, Post(t)
    PROVE  \A r \in Threads : Sound(r)'
<1>1. /\ pc[t] = "post" /\ failure[t] = None /\ pc[t] \in Owning /\ pc[t] \in Striped
      /\ stripe[Stripe[key[t]]] = t /\ capacity = t
      /\ Room /\ (~Exists(key[t]) \/ authentic[t])
      /\ authentic[t] => AskedAgain(key[t], misread[t])
  BY Outside DEF Post, Owning, Striped, Reserving, Inv, Sound, Local, Locked, Reserved, Asking
<1>2. UNCHANGED <<key, flight, mail, authentic, misread, memo, stripe, capacity, entry, result>>
  BY DEF Post, shared
<1> DEFINE Kept ==
        /\ Local(t)' /\ pc'[t] \in Owning
        /\ \A r \in Threads \ {t} : pc'[r] = pc[r] /\ failure'[r] = failure[r]
                                    /\ answer'[r] = answer[r]
<1>3. ASSUME NEW e \in {"request", "reply"}, Fail(t, e), UNCHANGED answer
      PROVE  Kept
  BY <1>2, <1>3, FailKeeps DEF Failures, Shareable, Owning
<1>4. ASSUME UNCHANGED <<pc, failure, answer>>
      PROVE  Kept
  <2>1. Locked(t)' /\ Reserved(t)' /\ Failing(t)'
    BY <1>1, <1>2, <1>4, ClientAssumption
       DEF Locked, Reserved, Failing, Room, Exists, Failures
  <2>2. Asking(t)'
    BY <1>1, <1>2, <1>4 DEF Asking, AskedAgain, MayAsk
  <2>3. QED
    BY <1>1, <1>2, <1>4, <2>1, <2>2, OwnerLocal
<1>5. ASSUME NEW c \in Contracts, answer' = [answer EXCEPT ![t] = c], UNCHANGED failure,
             Goto(t, IF authentic[t] THEN "finish" ELSE "publish")
      PROVE  Kept
  <2>1. /\ answer'[t] = c /\ pc'[t] = (IF authentic[t] THEN "finish" ELSE "publish")
        /\ pc'[t] \in Owning
        /\ \A r \in Threads \ {t} : pc'[r] = pc[r] /\ answer'[r] = answer[r]
    BY <1>5 DEF Inv, TypeOK, Goto, Owning
  <2>2. Locked(t)'
    BY <1>1, <1>2, <2>1 DEF Locked
  <2>3. Reserved(t)'
    BY <1>1, <1>2, <2>1 DEF Reserved, Room, Exists
  <2>4. Failing(t)'
    BY <1>1, <1>5, <2>1, ClientAssumption DEF Failing, Failures
  <2>5. Asking(t)'
    BY <1>1, <1>2, <2>1 DEF Asking, AskedAgain, MayAsk
  <2>6. pc'[t] \in {"finish", "release"} =>
          answer'[t] \in Contracts /\ Published(answer'[t], key[t], misread'[t])
    BY <1>1, <1>2, <2>1 DEF Published
  <2>7. QED
    BY <1>2, <1>5, <2>1, <2>2, <2>3, <2>4, <2>5, <2>6, OwnerLocal
<1>6. Kept
  <2>1. ASSUME NEW c \in Contracts, Answered(t, c) \/ AnsweredAuth(t, c)
        PROVE  Kept
    <3>1. Goto(t, IF authentic[t] THEN "finish" ELSE "publish")
      BY <1>1, <2>1 DEF Answered, AnsweredAuth, AskedAgain
    <3>2. answer' = [answer EXCEPT ![t] = c] /\ UNCHANGED failure
      BY <2>1 DEF Answered, AnsweredAuth
    <3>3. QED
      BY <1>5, <3>1, <3>2
  <2>2. CASE TransportFailed(t)
    BY <1>3, <1>4, <2>2 DEF TransportFailed
  <2>3. CASE Corrected(t)
    BY <1>3, <1>4, <2>3 DEF Corrected
  <2>4. CASE (\E e \in {"request", "reply"} : Fail(t, e)) /\ UNCHANGED answer
    BY <1>3, <2>4
  <2>5. QED
    BY <2>1, <2>2, <2>3, <2>4 DEF Post
<1>7. \A r \in Threads \ {t} : Sound(r)'
  BY <1>1, <1>2, <1>6, OthersKeep DEF Same
<1>8. QED
  BY <1>1, <1>2, <1>6, <1>7, OwnerKeeps DEF Sound

\* A thread that releases its locks takes nobody else's.
LEMMA UnlockKeeps ==
    ASSUME Inv, NEW t \in Threads, Unlock(t)
    PROVE  /\ \A r \in Threads \ {t} : \A s \in Stripes : stripe[s] = r => stripe'[s] = r
           /\ \A r \in Threads \ {t} : capacity = r => capacity' = r
  BY DEF Unlock

\* Both context managers are left before the failure is reported.
LEMMA UnwindKeeps ==
    ASSUME Inv, NEW t \in Threads, Unwind(t)
    PROVE  \A r \in Threads : Sound(r)'
<1>1. pc[t] = "unwind" /\ pc[t] \in Owning
  BY DEF Unwind, Owning
<1>2. /\ Unlock(t) /\ pc' = [pc EXCEPT ![t] = "report"]
      /\ UNCHANGED <<key, flight, answer, failure, mail, authentic, misread, memo, entry,
                     result>>
  BY DEF Unwind, Goto, locals
<1>3. pc'[t] = "report" /\ pc'[t] \in Owning /\ \A r \in Threads \ {t} : pc'[r] = pc[r]
  BY <1>2 DEF Inv, TypeOK, Owning
<1>4. \A r \in Threads \ {t} : Sound(r)'
  BY <1>1, <1>2, <1>3, UnlockKeeps, OthersKeep DEF Same
<1>5. Locked(t)' /\ Reserved(t)'
  BY <1>3 DEF Locked, Reserved, Striped, Reserving
<1>6. Failing(t)'
  BY <1>2, <1>3 DEF Failing, Unusable, Inv, Sound, Local
<1>7. Asking(t)'
  BY <1>2, <1>3 DEF Asking, AskedAgain, MayAsk, Inv, Sound, Local
<1>8. Local(t)'
  BY <1>2, <1>3, <1>5, <1>6, <1>7, OwnerLocal
<1>9. QED
  BY <1>1, <1>2, <1>3, <1>4, <1>8, OwnerKeeps DEF Sound

\* The locals of a call that ends are gone, and those of the others stay.
LEMMA ForgetKeeps ==
    ASSUME NEW ts \in SUBSET Threads, Forget(ts)
    PROVE  /\ \A r \in ts : failure'[r] = None /\ ~authentic'[r]
           /\ \A r \in Threads \ ts : TypeOK =>
                /\ failure'[r] = failure[r] /\ answer'[r] = answer[r]
                /\ authentic'[r] = authentic[r] /\ misread'[r] = misread[r]
  BY DEF Forget, TypeOK

\* The owner ends its call: its answer may be given, and its locks go last.
LEMMA ReleaseKeeps ==
    ASSUME Inv, NEW t \in Threads, Release(t) \/ ReleaseAuth(t)
    PROVE  \A r \in Threads : Sound(r)'
<1>1. /\ pc[t] = "release" /\ pc[t] \notin Owning /\ flight[t] = None /\ mail[t] = NoMail
      /\ answer[t] \in Contracts /\ Published(answer[t], key[t], misread[t])
  BY Outside DEF Release, ReleaseAuth, Owning, Inv, Sound, Local, Given
<1>2. /\ Unlock(t) /\ Forget({t}) /\ Accept(t, answer[t], misread[t])
      /\ UNCHANGED <<key, flight, mail, entry>>
  BY DEF Release, ReleaseAuth, AcceptAuth
<1>3. /\ Ended(t)' /\ pc'[t] = "idle"
      /\ \A r \in Threads \ {t} : pc'[r] = pc[r] /\ result'[r] = result[r]
  BY <1>1, <1>2, AcceptEnds
<1>4. /\ \A k \in AuthKeys : memo'[t][k] # None => entry'[k] = memo'[t][k]
      /\ \A r \in Threads \ {t} : memo'[r] = memo[r]
  <2>1. CASE Release(t)
    BY <2>1 DEF Release, Inv, Sound, Local, Given, Published
  <2>2. CASE ReleaseAuth(t)
    <3>1. /\ key[t] \in AuthKeys
          /\ memo' = IF answer[t] \in Refused[t] THEN memo
                     ELSE [memo EXCEPT ![t][key[t]] = answer[t]]
      BY <2>2 DEF ReleaseAuth, AcceptAuth
    <3>2. QED
      BY <1>1, <1>2, <3>1, MemoGiven
  <2>3. QED
    BY <2>1, <2>2
<1>5. failure'[t] = None /\ ~authentic'[t] /\ \A r \in Threads \ {t} :
        /\ failure'[r] = failure[r] /\ answer'[r] = answer[r]
        /\ authentic'[r] = authentic[r] /\ misread'[r] = misread[r]
  BY <1>2, ForgetKeeps DEF Inv
<1>6. \A r \in Threads \ {t} : Sound(r)'
  BY <1>1, <1>2, <1>3, <1>4, <1>5, UnlockKeeps, OthersKeep DEF Same
<1>7. Local(t)'
  BY <1>3, <1>4, <1>5, Early
<1>8. Flying(t)' /\ Mailed(t)'
  BY <1>1, <1>2, ClientAssumption DEF Flying, Mailed, NoMail
<1>9. QED
  BY <1>6, <1>7, <1>8 DEF Sound

\* What was found in the cache stays true of it while entries are only added.
LEMMA EntriesAdded ==
    ASSUME Inv, NEW r \in Threads, \A k \in Keys : entry[k] # None => entry'[k] = entry[k],
           key'[r] = key[r], memo'[r] = memo[r], result'[r] = result[r]
    PROVE  /\ \A k \in AuthKeys : memo'[r][k] # None => entry'[k] = memo'[r][k]
           /\ Ended(r)'
           /\ mail'[r] = mail[r] => Mailed(r)'
<1>1. key[r] \in Keys /\ AuthKeys \subseteq Keys /\ Refused[r] \subseteq Contracts
      /\ None \notin Contracts \cup {Foreign, Stale}
  BY ClientAssumption DEF Inv, TypeOK
<1>2. \A k \in AuthKeys : memo'[r][k] # None => entry'[k] = memo'[r][k]
  BY <1>1 DEF Inv, TypeOK, Sound, Local, Given
<1>3. Ended(r) /\ Mailed(r)
  BY DEF Inv, Sound, Local
<1>4. result[r].contract \in Contracts \cup {None} /\ mail[r].contract \in Contracts \cup {None}
  BY DEF Inv, TypeOK
<1>5. Ended(r)'
  BY <1>1, <1>3, <1>4 DEF Ended, Published, AskedAgain, Unusable
<1>6. mail'[r] = mail[r] => Mailed(r)'
  BY <1>1, <1>3, <1>4 DEF Mailed, Published, AskedAgain
<1>7. QED
  BY <1>2, <1>5, <1>6

\* put, put_auth_record: the entry is of a key nobody else is about to publish or
\* to find missing, in a slot nobody else has reserved.
LEMMA StoreKeeps ==
    ASSUME Inv, NEW t \in Threads, NEW possible \in BOOLEAN, pc[t] = "publish",
           Store(t, possible), possible => ~Exists(key[t])
    PROVE  \A r \in Threads : Sound(r)'
<1>1. /\ pc[t] \in Owning /\ pc[t] \in Striped /\ pc[t] \in Reserving /\ failure[t] = None
      /\ stripe[Stripe[key[t]]] = t /\ answer[t] \in Contracts /\ ~authentic[t]
  BY Outside DEF Owning, Striped, Reserving, MayAsk, Inv, Sound, Local, Locked, Reserved
<1>2. UNCHANGED <<key, flight, answer, mail, authentic, misread, memo, stripe, capacity, result>>
  BY DEF Store
<1>3. /\ \A r \in Threads \ {t} : pc'[r] = pc[r] /\ failure'[r] = failure[r]
      /\ \/ /\ pc'[t] = "finish" /\ failure'[t] = None
            /\ entry'[key[t]] = answer[t]
         \/ pc'[t] = "unwind" /\ failure'[t] = "write"
  BY <1>1 DEF Store, Fail, Goto, Inv, TypeOK
<1>4. /\ \A k \in Keys : entry[k] # None => entry'[k] = entry[k]
      /\ \A k \in Keys \ {key[t]} : entry'[k] = entry[k]
  BY DEF Store, Exists, Inv, TypeOK
<1>5. ASSUME NEW r \in Threads \ {t}
      PROVE  Local(r)'
  <2>1. Same(r) /\ Local(r)
    BY <1>2, <1>3 DEF Same, Inv, Sound
  <2>2. pc[r] \notin Reserving /\ (pc[r] \in Striped => key[r] # key[t])
    BY <1>1, <1>5, Exclusion
  <2>3. Locked(r)' /\ Reserved(r)'
    BY <1>2, <2>1, <2>2 DEF Local, Locked, Reserved, Same, Reserving
  <2>4. key[r] \in Keys /\ None \notin Contracts \cup {Foreign, Stale}
    BY ClientAssumption DEF Inv, TypeOK
  <2>5. Given(r)'
    <3>1. pc'[r] \in {"finish", "release"} =>
            answer'[r] \in Contracts /\ Published(answer[r], key[r], misread[r])'
      BY <1>2, <1>4, <2>1, <2>4 DEF Local, Given, Same, Published, AskedAgain
    <3>2. QED
      BY <1>2, <1>4, <2>1, <3>1, EntriesAdded DEF Given, Same
  <2>6. pc[r] \in {"authenticate", "reserve"} => entry'[key[r]] = entry[key[r]]
    BY <1>4, <2>2, <2>4 DEF Striped
  <2>7. Asking(r)'
    BY <1>4, <2>1, <2>4, <2>6 DEF Local, Asking, Same, AskedAgain, Unusable, Exists
  <2>8. Failing(r)'
    BY <1>4, <2>1, <2>4 DEF Local, Failing, Same, Unusable
  <2>9. Ended(r)'
    BY <1>2, <1>4, EntriesAdded
  <2>10. QED
    BY <2>3, <2>5, <2>7, <2>8, <2>9 DEF Local
<1>6. Local(t)'
  <2>1. Locked(t)' /\ Reserved(t)'
    BY <1>1, <1>2, <1>3 DEF Locked, Reserved, Striped, Reserving
  <2>2. Given(t)' /\ Ended(t)'
    BY <1>1, <1>2, <1>3, <1>4, EntriesAdded DEF Given, Published
  <2>3. Asking(t)' /\ Failing(t)'
    BY <1>1, <1>2, <1>3, ClientAssumption DEF Asking, Failing, Failures
  <2>4. QED
    BY <2>1, <2>2, <2>3 DEF Local
<1>7. \A r \in Threads : Mailed(r)'
  BY <1>2, <1>4, EntriesAdded
<1>8. ASSUME NEW r \in Threads
      PROVE  Flying(r)'
  <2>1. pc'[t] \in Owning
    BY <1>3 DEF Owning
  <2>2. CASE r = t
    BY <1>1, <1>2, <2>1, <2>2, Outside, ClientAssumption DEF Flying, Inv, Sound, Owning
  <2>3. CASE r # t
    BY <1>2, <1>3, <2>1, <2>3, FlightFrame DEF Flying, Inv, TypeOK, Sound
  <2>4. QED
    BY <2>2, <2>3
<1>9. QED
  BY <1>5, <1>6, <1>7, <1>8 DEF Sound

\* put, which checks the slot again, and put_auth_record, which does not.
LEMMA PublishKeeps ==
    ASSUME Inv, NEW t \in Threads, Publish(t) \/ PublishAuth(t)
    PROVE  \A r \in Threads : Sound(r)'
<1>1. CASE Publish(t)
  BY <1>1, StoreKeeps DEF Publish, Exists, Room
<1>2. CASE PublishAuth(t)
  BY <1>2, StoreKeeps DEF PublishAuth, Exists
<1>3. QED
  BY <1>1, <1>2

\* _finish_inflight: its waiters leave the flight with mail that holds for their
\* key, which is the owner's, and nobody else is in it.
LEMMA FinishFlight ==
    ASSUME Inv, NEW t \in Threads, NEW m, FinishInflight(t, m), pc[t] \in Owning,
           entry' = entry, key' = key, \A r \in Threads \ {t} : pc'[r] = pc[r],
           m.contract # None => Published(m.contract, key[t], m.misread),
           m.error \in Shareable \cup {None}
    PROVE  \A r \in Threads : Flying(r)' /\ Mailed(r)'
<1> SUFFICES ASSUME NEW r \in Threads
             PROVE  Flying(r)' /\ Mailed(r)'
  OBVIOUS
<1>1. /\ flight' = [u \in Threads |-> IF flight[u] = t THEN None ELSE flight[u]]
      /\ mail' = [u \in Threads |-> IF u # t /\ flight[u] = t THEN m ELSE mail[u]]
  BY DEF FinishInflight
<1>2. Flying(r) /\ Mailed(r) /\ flight[r] \in Threads \cup {None} /\ None \notin Threads
  BY ClientAssumption DEF Inv, TypeOK, Sound
<1>3. CASE r = t
  <2>1. flight'[t] = None /\ mail'[t] = NoMail
    BY <1>1, Outside
  <2>2. QED
    BY <1>3, <2>1, ClientAssumption DEF Flying, Mailed, NoMail
<1>4. CASE r # t /\ flight[r] = t
  <2>1. flight'[r] = None /\ mail'[r] = m
    BY <1>1, <1>4
  <2>2. pc'[r] = "wait" /\ key[t] = key[r]
    BY <1>2, <1>4 DEF Flying
  <2>3. QED
    BY <1>2, <2>1, <2>2 DEF Flying, Mailed, Published, AskedAgain
<1>5. CASE r # t /\ flight[r] # t
  <2>1. flight'[r] = flight[r] /\ mail'[r] = mail[r]
    BY <1>1, <1>5
  <2>2. flight[r] # None => /\ flight'[flight[r]] = flight[flight[r]]
                            /\ pc'[flight[r]] \in Owning
    BY <1>1, <1>2, <1>5 DEF Flying
  <2>3. QED
    BY <1>2, <1>5, <2>1, <2>2, FlightFrame, MailFrame
<1>6. QED
  BY <1>3, <1>4, <1>5

\* The answer goes to the waiters with the locks still held.
LEMMA FinishKeeps ==
    ASSUME Inv, NEW t \in Threads, Finish(t)
    PROVE  \A r \in Threads : Sound(r)'
<1> DEFINE m == [contract |-> answer[t], error |-> None, retry |-> FALSE,
                 misread |-> misread[t]]
<1>1. /\ pc[t] = "finish" /\ pc[t] \in Owning /\ pc[t] \in Striped /\ failure[t] = None
      /\ answer[t] \in Contracts /\ Published(answer[t], key[t], misread[t])
  BY Outside DEF Finish, Owning, Striped, Inv, Sound, Local, Given
<1>2. /\ FinishInflight(t, m) /\ pc' = [pc EXCEPT ![t] = "release"]
      /\ UNCHANGED <<key, answer, failure, authentic, misread, memo, stripe, capacity, entry,
                     result>>
  BY DEF Finish, Goto, shared
<1>3. pc'[t] = "release" /\ \A r \in Threads \ {t} : pc'[r] = pc[r]
  BY <1>2 DEF Inv, TypeOK
<1>4. m.contract = answer[t] /\ m.error = None /\ m.misread = misread[t]
  OBVIOUS
<1>5. \A r \in Threads : Flying(r)' /\ Mailed(r)'
  <2> HIDE DEF m
  <2>1. QED
    BY <1>1, <1>2, <1>3, <1>4, FinishFlight
<1>6. \A r \in Threads \ {t} : Local(r)'
  BY <1>2, <1>3, Frame DEF Same, Inv, Sound
<1>7. Locked(t)'
  BY <1>1, <1>2, <1>3 DEF Locked, Reserving, Inv, Sound, Local
<1>8. Reserved(t)' /\ Failing(t)'
  BY <1>1, <1>2, <1>3, ClientAssumption DEF Reserved, Failing, Failures
<1>9. Asking(t)'
  BY <1>1, <1>2, <1>3 DEF Asking, AskedAgain, MayAsk, Inv, Sound, Local
<1>10. Local(t)'
  BY <1>1, <1>2, <1>3, <1>7, <1>8, <1>9, OwnerLocal
<1>11. QED
  BY <1>5, <1>6, <1>10 DEF Sound

\* The waiters are told of a failure they share, or to start again, and the
\* owner's call ends with the failure.
LEMMA ReportKeeps ==
    ASSUME Inv, NEW t \in Threads, Report(t)
    PROVE  \A r \in Threads : Sound(r)'
<1> DEFINE m == IF failure[t] \in Shareable
                THEN [NoMail EXCEPT !.error = failure[t]]
                ELSE [NoMail EXCEPT !.retry = TRUE]
<1>1. pc[t] = "report" /\ pc[t] \in Owning /\ pc[t] \notin Striped
  BY DEF Report, Owning, Striped
<1>2. /\ FinishInflight(t, m) /\ Return(t, None, failure[t], misread[t]) /\ Forget({t})
      /\ UNCHANGED <<key, memo, stripe, capacity, entry>>
  BY DEF Report, shared
<1>3. /\ pc'[t] = "idle" /\ result'[t] = [contract |-> None, error |-> failure[t],
                                            misread |-> misread[t]]
      /\ \A r \in Threads \ {t} : pc'[r] = pc[r] /\ result'[r] = result[r]
  BY <1>2 DEF Inv, TypeOK, Return, Goto
<1>4. m.contract = None /\ m.error \in Shareable \cup {None}
  BY DEF NoMail
<1>5. \A r \in Threads : Flying(r)' /\ Mailed(r)'
  <2> HIDE DEF m
  <2>1. QED
    BY <1>1, <1>2, <1>3, <1>4, FinishFlight
<1>6. failure'[t] = None /\ ~authentic'[t] /\ \A r \in Threads \ {t} :
        /\ failure'[r] = failure[r] /\ answer'[r] = answer[r]
        /\ authentic'[r] = authentic[r] /\ misread'[r] = misread[r]
  BY <1>2, ForgetKeeps DEF Inv
<1>7. \A r \in Threads \ {t} : Local(r)'
  BY <1>2, <1>3, <1>6, Frame DEF Same, Inv, Sound
<1>8. Ended(t)'
  <2>1. /\ result'[t].contract = None /\ result'[t].error = failure[t]
        /\ result'[t].misread = misread[t]
    BY <1>3
  <2>2. failure[t] # "refused"
        /\ (failure[t] = "conflict" => Unusable(key[t], misread[t]))
    BY DEF Inv, Sound, Local, Failing
  <2>3. None \notin Refused[t]
    BY ClientAssumption
  <2>4. QED
    BY <1>2, <2>1, <2>2, <2>3 DEF Ended, Unusable
<1>9. \A k \in AuthKeys : memo'[t][k] # None => entry'[k] = memo'[t][k]
  BY <1>2 DEF Inv, Sound, Local, Given, Published
<1>10. Local(t)'
  BY <1>3, <1>6, <1>8, <1>9, Early
<1>11. QED
  BY <1>5, <1>7, <1>10 DEF Sound

-----------------------------------------------------------------------------
(* Faults.                                                                 *)

\* A waiter leaves its flight, an owner fails.
LEMMA InterruptKeeps ==
    ASSUME Inv, NEW t \in Threads, Interrupt(t)
    PROVE  \A r \in Threads : Sound(r)'
<1>1. UNCHANGED <<key, answer, authentic, misread, memo, stripe, capacity, entry>>
  BY DEF Interrupt, shared
<1>2. CASE /\ pc[t] = "wait" /\ Return(t, None, "interrupt", 0)
           /\ flight' = [flight EXCEPT ![t] = None]
           /\ mail' = [mail EXCEPT ![t] = NoMail]
           /\ UNCHANGED failure
  <2>1. pc[t] \notin Owning /\ failure[t] = None /\ ~authentic[t]
    BY <1>2, Outside DEF Owning, MayAsk
  <2>2. /\ pc'[t] = "idle" /\ flight'[t] = None /\ mail'[t] = NoMail
        /\ result'[t] = [contract |-> None, error |-> "interrupt", misread |-> 0]
        /\ \A r \in Threads \ {t} : /\ pc'[r] = pc[r] /\ result'[r] = result[r]
                                    /\ flight'[r] = flight[r] /\ mail'[r] = mail[r]
    BY <1>2 DEF Inv, TypeOK, Return, Goto
  <2>3. \A r \in Threads \ {t} : Sound(r)'
    BY <1>1, <1>2, <2>1, <2>2, OthersKeep DEF Same
  <2>4. Ended(t)'
    <3>1. result'[t].contract = None /\ result'[t].error = "interrupt"
      BY <2>2
    <3>2. None \notin Refused[t]
      BY ClientAssumption
    <3>3. QED
      BY <3>1, <3>2 DEF Ended
  <2>5. \A k \in AuthKeys : memo'[t][k] # None => entry'[k] = memo'[t][k]
    BY <1>1 DEF Inv, Sound, Local, Given, Published
  <2>6. Local(t)'
    BY <1>1, <1>2, <2>1, <2>2, <2>4, <2>5, Early
  <2>7. Flying(t)' /\ Mailed(t)'
    BY <2>2, ClientAssumption DEF Flying, Mailed, NoMail
  <2>8. QED
    BY <2>3, <2>6, <2>7 DEF Sound
<1>3. CASE /\ pc[t] \in {"stripe", "reserve", "post"} /\ Fail(t, "interrupt")
           /\ UNCHANGED <<flight, mail, result>>
  <2>1. pc[t] \in Owning
    BY <1>3 DEF Owning
  <2>2. Local(t)' /\ pc'[t] = "unwind" /\ \A r \in Threads \ {t} :
          pc'[r] = pc[r] /\ failure'[r] = failure[r]
    BY <1>1, <1>3, FailKeeps DEF Failures
  <2>3. pc'[t] \in Owning
    BY <2>2 DEF Owning
  <2>4. \A r \in Threads \ {t} : Sound(r)'
    BY <1>1, <1>3, <2>1, <2>2, <2>3, OthersKeep DEF Same
  <2>5. Flying(t)' /\ Mailed(t)'
    BY <1>1, <1>3, <2>1, <2>3, OwnerKeeps
  <2>6. QED
    BY <2>2, <2>4, <2>5 DEF Sound
<1>4. QED
  BY <1>2, <1>3 DEF Interrupt

\* A kill takes a whole process, so no flight outlives its owner, and no lock
\* its holder.
LEMMA KillKeeps ==
    ASSUME Inv, NEW t \in Threads, Kill(t)
    PROVE  \A r \in Threads : Sound(r)'
<1>1. Peers(t) \in SUBSET Threads /\ Forget(Peers(t)) /\ UNCHANGED <<key, entry, result>>
  BY DEF Kill, Peers
<1>2. ASSUME NEW r \in Peers(t)
      PROVE  Sound(r)'
  <2>1. r \in Threads
    BY <1>1, <1>2
  <2>2. /\ pc'[r] = "dead" /\ flight'[r] = None /\ mail'[r] = NoMail
        /\ \A k \in AuthKeys : memo'[r][k] = None
    BY <1>2, <2>1 DEF Kill
  <2>3. failure'[r] = None /\ ~authentic'[r]
    BY <1>1, <1>2, ForgetKeeps
  <2>4. Ended(r)'
    BY <1>1, <2>1 DEF Inv, Sound, Local, Ended, Published, AskedAgain, Unusable
  <2>5. Local(r)'
    BY <2>1, <2>2, <2>3, <2>4, Early
  <2>6. Flying(r)' /\ Mailed(r)'
    BY <2>2, ClientAssumption DEF Flying, Mailed, NoMail
  <2>7. QED
    BY <2>5, <2>6 DEF Sound
<1>3. ASSUME NEW r \in Threads \ Peers(t)
      PROVE  Sound(r)'
  <2>1. Local(r) /\ Flying(r) /\ Mailed(r)
    BY DEF Inv, Sound
  <2>2. pc'[r] = pc[r] /\ flight'[r] = flight[r] /\ mail'[r] = mail[r]
    BY <1>3 DEF Kill
  <2>3. /\ failure'[r] = failure[r] /\ answer'[r] = answer[r]
        /\ authentic'[r] = authentic[r] /\ misread'[r] = misread[r]
    BY <1>1, <1>3, ForgetKeeps DEF Inv
  <2>4. memo'[r] = memo[r]
    <3>1. memo'[r] = [k \in AuthKeys |-> memo[r][k]]
      BY <1>3 DEF Kill
    <3>2. memo[r] \in [AuthKeys -> Contracts \cup {None}]
      BY DEF Inv, TypeOK
    <3>3. QED
      BY <3>1, <3>2
  <2>5. Same(r)
    BY <1>1, <2>2, <2>3, <2>4 DEF Same
  <2>6. Local(r)'
    <3>1. pc[r] \in Striped => stripe'[Stripe[key[r]]] = stripe[Stripe[key[r]]]
      BY <1>3, <2>1, StripeIn DEF Kill, Local, Locked, Inv, TypeOK
    <3>2. pc[r] \in Reserving => capacity' = capacity
      BY <1>3, <2>1 DEF Kill, Local, Locked
    <3>3. QED
      BY <1>1, <2>1, <2>5, <3>1, <3>2, Frame
  <2>7. Mailed(r)'
    BY <1>1, <2>1, <2>2, MailFrame
  <2>8. Flying(r)'
    <3>1. flight[r] # None => flight[r] \in Threads \ Peers(t)
      BY <1>3, <2>1 DEF Flying, Inv, TypeOK, Peers
    <3>2. flight[r] # None => flight'[flight[r]] = flight[flight[r]] /\ pc'[flight[r]] = pc[flight[r]]
      BY <3>1 DEF Kill
    <3>3. QED
      BY <1>1, <2>1, <2>2, <3>2, FlightFrame DEF Flying
  <2>9. QED
    BY <2>6, <2>7, <2>8 DEF Sound
<1>4. QED
  BY <1>2, <1>3

-----------------------------------------------------------------------------
(* The client.                                                             *)

\* The types hold at first.
LEMMA InitType ==
    ASSUME Init
    PROVE  TypeOK
<1>1. (CHOOSE k \in Keys : TRUE) \in Keys
  BY ClientAssumption
<1>2. key \in [Threads -> Keys] /\ entry \in [Keys -> Entries]
  BY <1>1, ClientAssumption DEF Init
<1>3. /\ NoMail \in [contract : Contracts \cup {None}, error : Failures \cup {None},
                     retry : BOOLEAN, misread : 0..2]
      /\ NoResult \in [contract : Contracts \cup {None}, error : Failures \cup {None},
                       misread : 0..2]
  BY DEF NoMail, NoResult
<1>4. 0 \in 0..1 /\ 0 \in 0..(MaxRetries - 1) /\ 0 \in 0..MaxCalls /\ 0 \in 0..MaxFaults
  BY ClientAssumption
<1>5. QED
  BY <1>2, <1>3, <1>4 DEF Init, TypeOK, Steps

\* Every thread is sound at first: no call, no lock, no flight.
LEMMA InitInv ==
    ASSUME Init
    PROVE  Inv
<1>1. TypeOK
  BY InitType
<1>2. ASSUME NEW t \in Threads
      PROVE  Sound(t)
  <2>1. /\ pc[t] = "idle" /\ flight[t] = None /\ failure[t] = None /\ mail[t] = NoMail
        /\ result[t] = NoResult /\ ~authentic[t] /\ \A k \in AuthKeys : memo[t][k] = None
    BY DEF Init
  <2>2. None \notin Refused[t] /\ None \notin Failures
    BY ClientAssumption
  <2>3. Locked(t) /\ Reserved(t) /\ Given(t) /\ Asking(t) /\ Failing(t)
    BY <2>1, <2>2 DEF Locked, Reserved, Given, Asking, Failing, Striped, Reserving, Failures
  <2>4. Ended(t)
    BY <2>1, <2>2 DEF Ended, NoResult, Failures
  <2>5. Flying(t) /\ Mailed(t)
    BY <2>1 DEF Flying, Mailed, NoMail
  <2>6. QED
    BY <2>3, <2>4, <2>5 DEF Sound, Local
<1>3. QED
  BY <1>1, <1>2 DEF Inv

\* Every step of every thread, and every fault, keeps the types.
LEMMA NextType ==
    ASSUME Inv, Next
    PROVE  TypeOK'
<1>1. PICK t \in Threads : \/ ClassifyGrowth(t) \/ ClassifyAuth(t)
                           \/ Step(t) \/ Interrupt(t) \/ Kill(t)
  BY DEF Next
<1>2. TypeOK
  BY DEF Inv
<1>3. /\ pc[t] = "publish" => answer[t] \in Contracts
      /\ pc[t] = "release" => answer[t] \in Contracts
  BY DEF Inv, Sound, Local, Reserved, Given
<1>4. pc[t] = "authenticate" => misread[t] \in 0..1
  BY DEF Inv, Sound, Local, Asking
<1>5. CASE ClassifyGrowth(t) \/ ClassifyAuth(t) \/ Lookup(t) \/ LookupAuth(t) \/ Join(t) \/ Wake(t)
  BY <1>2, <1>5, ApproachType
<1>6. CASE LockStripe(t) \/ Recheck(t) \/ Authenticate(t) \/ Reserve(t) \/ Post(t)
  BY <1>2, <1>4, <1>6, RequestType
<1>7. CASE \/ Publish(t) \/ PublishAuth(t) \/ Finish(t) \/ Release(t) \/ ReleaseAuth(t)
           \/ Unwind(t) \/ Report(t)
  BY <1>2, <1>3, <1>7, AnswerType
<1>8. CASE Interrupt(t) \/ Kill(t)
  BY <1>2, <1>8, FaultType
<1>9. QED
  BY <1>1, <1>5, <1>6, <1>7, <1>8 DEF Step

\* Every step of every thread, and every fault, keeps every thread sound.
LEMMA NextKeeps ==
    ASSUME Inv, Next
    PROVE  \A r \in Threads : Sound(r)'
<1>1. PICK t \in Threads : \/ ClassifyGrowth(t) \/ ClassifyAuth(t)
                           \/ Step(t) \/ Interrupt(t) \/ Kill(t)
  BY DEF Next
<1>2. CASE ClassifyGrowth(t) \/ ClassifyAuth(t)
  BY <1>2, CallKeeps, ClientAssumption DEF ClassifyGrowth, ClassifyAuth
<1>3. CASE Lookup(t) \/ LookupAuth(t) \/ Join(t) \/ Wake(t)
  BY <1>3, LookupKeeps, JoinKeeps, WakeKeeps
<1>4. CASE LockStripe(t) \/ Recheck(t) \/ Authenticate(t) \/ Reserve(t) \/ Post(t)
  BY <1>4, LockStripeKeeps, RecheckKeeps, AuthenticateKeeps, ReserveKeeps, PostKeeps
<1>5. CASE Publish(t) \/ PublishAuth(t) \/ Finish(t) \/ Release(t) \/ ReleaseAuth(t)
  BY <1>5, PublishKeeps, FinishKeeps, ReleaseKeeps
<1>6. CASE Unwind(t) \/ Report(t) \/ Interrupt(t) \/ Kill(t)
  BY <1>6, UnwindKeeps, ReportKeeps, InterruptKeeps, KillKeeps
<1>7. QED
  BY <1>1, <1>2, <1>3, <1>4, <1>5, <1>6 DEF Step

\* The inductive invariant.
LEMMA Invariance == Spec => []Inv
<1>1. Inv /\ [Next]_vars => Inv'
  <2> SUFFICES ASSUME Inv, [Next]_vars
               PROVE  Inv'
    OBVIOUS
  <2>1. CASE Next
    BY <2>1, NextType, NextKeeps DEF Inv
  <2>2. CASE UNCHANGED vars
    <3>1. TypeOK'
      BY <2>2 DEF Inv, TypeOK, vars, locals, shared
    <3>2. ASSUME NEW r \in Threads
          PROVE  Sound(r)'
      <4>1. Sound(r) /\ Same(r) /\ UNCHANGED <<key, flight, mail, stripe, capacity, entry, pc>>
        BY <2>2 DEF Inv, Same, vars, locals, shared
      <4>2. QED
        BY <4>1, Frame, MailFrame, FlightFrame DEF Sound, Flying
    <3>3. QED
      BY <3>1, <3>2 DEF Inv
  <2>3. QED
    BY <2>1, <2>2
<1>2. QED
  BY <1>1, InitInv, PTL DEF Spec

\* Every variable keeps its type, and a request of DeepSeekClient is posted at
\* most max_retries times for a prompt and its correction.
THEOREM Types == Spec => []TypeOK
  BY Invariance, PTL DEF Inv

\* capacity_reservation: whoever has an answer to publish finds the slot it
\* reserved and its key still free, whatever the other threads and processes do.
THEOREM ReservationIsKept == Spec => []ReservationHolds
<1>1. Inv => ReservationHolds
  BY DEF Inv, Sound, Local, Reserved, ReservationHolds
<1>2. QED
  BY <1>1, Invariance, PTL

\* classify_growth and classify_auth give a caller the published contract of its
\* key, through whichever flight, lookup or memory it got there.  The callers of a
\* flight that asked again for a Growth entry, out of date or missed by the first
\* of the two reads under the lock, may get what that flight was answered.
THEOREM OneContractPerKey == Spec => []AnswersArePublished
<1>1. Inv => AnswersArePublished
  BY DEF Inv, Sound, Local, Ended, Published, AnswersArePublished
<1>2. QED
  BY <1>1, Invariance, PTL

\* _accept_growth_snapshot, _accept_auth_snapshot: what a client is given or
\* refused is decided by its own policy, on the published contract or on the answer
\* of a flight that asked again.
THEOREM OwnPolicy == Spec => []PolicyIsOwn
<1>1. Inv => PolicyIsOwn
  BY DEF Inv, Sound, Local, Ended, PolicyIsOwn
<1>2. QED
  BY <1>1, Invariance, PTL

\* capacity_reservation reports a conflict only over an entry that cannot be
\* used, or that the owner of the flight failed to read as often as it tried:
\* never for losing a race.
THEOREM ConflictIsUnusable == Spec => []ConflictMeansUnusable
<1>1. Inv => ConflictMeansUnusable
  BY DEF Inv, Sound, Local, Ended, ConflictMeansUnusable
<1>2. QED
  BY <1>1, Invariance, PTL

\* The cache directory only grows: os.link never replaces an entry, and no
\* failure, interrupt or kill removes one.
THEOREM CacheOnlyGrows == Spec => EntriesStay
<1>1. ASSUME TypeOK, [Next]_vars
      PROVE  \A k \in Keys : entry[k] # None => entry'[k] = entry[k]
  <2>1. CASE UNCHANGED entry
    BY <2>1
  <2>2. ASSUME NEW t \in Threads, Publish(t) \/ PublishAuth(t)
        PROVE  \A k \in Keys : entry[k] # None => entry'[k] = entry[k]
    BY <1>1, <2>2 DEF TypeOK, Publish, PublishAuth, Store, Exists
  <2>3. ASSUME NEW t \in Threads, \/ ClassifyGrowth(t) \/ ClassifyAuth(t)
                                  \/ Step(t) \/ Interrupt(t) \/ Kill(t),
               ~(Publish(t) \/ PublishAuth(t))
        PROVE  UNCHANGED entry
    BY <2>3 DEF ClassifyGrowth, ClassifyAuth, Call, Step, Lookup, LookupAuth, Join, Wake,
         LockStripe, Recheck, Authenticate, Reserve, Post, Finish, Release, ReleaseAuth,
         Unwind, Report, Interrupt, Kill, shared
  <2>4. QED
    BY <1>1, <2>1, <2>2, <2>3 DEF Next, vars, shared
<1>2. QED
  BY <1>1, Types, PTL DEF Spec, EntriesStay
=============================================================================
