--------------------------- MODULE ProviderClient ---------------------------
(***************************************************************************)
(* The provider client and its contract cache: classify_growth and         *)
(* classify_auth of DeepSeekClient (dosweb/llm/deepseek.py) over           *)
(* ContractCache (dosweb/llm/cache.py).                                    *)
(*                                                                         *)
(* The workers of a batch, and several analyzer processes, share one cache *)
(* directory.  Within a process, callers of one key join the flight of the *)
(* first; across processes a stripe lock serialises the keys that hash to  *)
(* it, and the capacity lock is held from the reservation of a slot to the *)
(* publication of the entry.  Each of these two locks is a thread lock     *)
(* taken before an flock, together one lock over all the threads, which    *)
(* the end of its holder's process frees.                                  *)
(*                                                                         *)
(* A contract is a value the provider may answer with.  The transport,     *)
(* prompts, schemas and signatures are left out but for what they decide:  *)
(* whether an entry can be used, and how a request ends.  Each thread has  *)
(* a client of its own, with its own policy on what answers may contain:   *)
(* the request, the entry and the flight are shared, the policy is not.    *)
(***************************************************************************)
EXTENDS Naturals, FiniteSets

CONSTANTS
    Threads,     \* the threads that classify
    Process,     \* Process[t]: the process of a thread
    MainThreads, \* the threads that a signal may interrupt
    Keys,        \* cache identities
    AuthKeys,    \* the ones of Auth Contracts
    Asked,       \* the ones these threads ask for; others only take room
    Stripe,      \* Stripe[k]: the lock a key hashes to
    Contracts,   \* what the provider may answer
    Refused,     \* Refused[t]: the ones with content the policy of t forbids
    Capacity,    \* _MAX_CACHE_ENTRIES
    MaxRetries,  \* max_retries of the configuration
    Found,       \* the caches there may be at first
    MaxCalls,    \* bound: calls of all the threads
    MaxFaults,   \* bound: interrupts, kills and reads that fail
    None, Foreign, Stale

\* Foreign: a file that does not authenticate.  Stale: an authenticated entry
\* that cites facts the current slice does not have.
Entries == Contracts \cup {None, Foreign, Stale}

\* Failures the waiters of a flight share: _SHAREABLE_FAILURES, the ones of a reply.
Shareable == {"reply"}
Failures == Shareable \cup
    {"conflict", "exhausted", "request", "write", "interrupt", "refused"}

ASSUME ClientAssumption ==
    /\ Process \in [Threads -> {Process[t] : t \in Threads}]
    /\ Stripe \in [Keys -> {Stripe[k] : k \in Keys}]
    /\ MainThreads \subseteq Threads /\ Keys # {}
    /\ AuthKeys \subseteq Keys /\ Asked \subseteq Keys
    /\ Refused \in [Threads -> SUBSET Contracts]
    /\ Capacity \in Nat /\ MaxRetries \in Nat \ {0}
    /\ MaxCalls \in Nat /\ MaxFaults \in Nat
    /\ Found \subseteq [Keys -> Entries]
    /\ {None, Foreign, Stale} \cap Contracts = {}
    /\ None # Foreign /\ None # Stale /\ Foreign # Stale
    /\ None \notin Threads \cup Failures

VARIABLES
    pc,       \* the next step of each thread
    key,      \* the key it classifies
    flight,   \* flight[t]: the owner of the flight t joined, or None
    variant,  \* 0 the initial request, 1 the correction
    tries,    \* failed posts of this request
    answer,   \* the contract the provider sent
    failure,  \* the error the owner will report
    mail,     \* what a finished flight left for a waiter
    authentic, \* allow_existing: the entry under the lock authenticated, so it stays
    misread,  \* history: reads under the lock that failed
    memo,     \* _auth_cache of each client
    stripe,   \* holder of each stripe lock
    capacity, \* holder of the capacity lock
    entry,    \* the cache directory
    result,   \* history: how the last call of a thread ended
    calls,
    faults

locals == <<key, flight, variant, tries, answer, failure, mail, authentic, misread>>
shared == <<stripe, capacity, entry>>
vars == <<pc, locals, memo, shared, result, calls, faults>>

Steps == {"idle", "lookup", "join", "wait", "stripe", "recheck", "authenticate", "reserve",
          "post", "publish", "finish", "release", "unwind", "report", "dead"}

NoMail == [contract |-> None, error |-> None, retry |-> FALSE, misread |-> 0]
NoResult == [contract |-> None, error |-> None, misread |-> 0]

Stripes == {Stripe[k] : k \in Keys}
Peers(t) == {u \in Threads : Process[u] = Process[t]}

Init ==
    /\ pc = [t \in Threads |-> "idle"]
    /\ key \in [Threads -> {CHOOSE k \in Keys : TRUE}]
    /\ flight = [t \in Threads |-> None]
    /\ variant = [t \in Threads |-> 0]
    /\ tries = [t \in Threads |-> 0]
    /\ answer = [t \in Threads |-> None]
    /\ failure = [t \in Threads |-> None]
    /\ mail = [t \in Threads |-> NoMail]
    /\ authentic = [t \in Threads |-> FALSE]
    /\ misread = [t \in Threads |-> 0]
    /\ memo = [t \in Threads |-> [k \in AuthKeys |-> None]]
    /\ stripe = [s \in Stripes |-> None]
    /\ capacity = None
    /\ entry \in {e \in Found : Cardinality({k \in Keys : e[k] # None}) <= Capacity}
    /\ result = [t \in Threads |-> NoResult]
    /\ calls = 0
    /\ faults = 0

-----------------------------------------------------------------------------
(* The cache.                                                              *)

\* snapshot: an entry that authenticates and is valid for the slice.
Usable(k) == entry[k] \in Contracts

\* Mutant: what is authenticated is also checked against the slice.
AuthenticatesUsable(k) == Usable(k)

\* authenticated_snapshot: the slice is not asked about.
Authenticates(k) == entry[k] \in Contracts \cup {Stale}

\* Mutant: a file that does not authenticate counts as no entry.
ExistsAuthentic(k) == entry[k] \in Contracts \cup {Stale}

\* _entry_exists
Exists(k) == entry[k] # None

\* _open_cache_dir: no descriptor, no read.
Unopened == faults < MaxFaults /\ faults' = faults + 1

\* get_auth_record, as snapshot: the entry, or None, which is also what an error
\* of the directory or of the file comes to.
Reads(k, c) ==
    \/ c = (IF Usable(k) THEN entry[k] ELSE None) /\ UNCHANGED faults
    \/ c = None /\ Exists(k) /\ Unopened

\* _require_cache_capacity
Room == Cardinality({k \in Keys : Exists(k)}) < Capacity

-----------------------------------------------------------------------------
(* A call, up to the locks.                                                *)

Goto(t, step) == pc' = [pc EXCEPT ![t] = step]

Owns(t) == flight[t] = t

\* The locals of a call are gone when it ends.
Forget(ts) ==
    /\ variant' = [t \in Threads |-> IF t \in ts THEN 0 ELSE variant[t]]
    /\ tries' = [t \in Threads |-> IF t \in ts THEN 0 ELSE tries[t]]
    /\ answer' = [t \in Threads |-> IF t \in ts THEN None ELSE answer[t]]
    /\ failure' = [t \in Threads |-> IF t \in ts THEN None ELSE failure[t]]
    /\ authentic' = [t \in Threads |-> t \notin ts /\ authentic[t]]
    /\ misread' = [t \in Threads |-> IF t \in ts THEN 0 ELSE misread[t]]

\* The call of t ends, n the failed reads of the flight that its answer is from.
Return(t, contract, error, n) ==
    /\ Goto(t, "idle")
    /\ result' = [result EXCEPT ![t] = [contract |-> contract, error |-> error, misread |-> n]]

\* Mutant: an answer that was accepted once is accepted.
AcceptShared(t, c, n) == Return(t, c, None, n)

\* _accept_growth_snapshot: the policy of this client, on an answer that it, another
\* client or an earlier run asked for.
Accept(t, c, n) ==
    IF c \in Refused[t] THEN Return(t, None, "refused", n) ELSE Return(t, c, None, n)

\* _accept_auth_snapshot; what is accepted is kept by the client too.
AcceptAuth(t, c, n) ==
    /\ Accept(t, c, n)
    /\ memo' = IF c \in Refused[t] THEN memo ELSE [memo EXCEPT ![t][key[t]] = c]

AcceptEither(t, c, n) ==
    IF key[t] \in AuthKeys THEN AcceptAuth(t, c, n) ELSE Accept(t, c, n) /\ UNCHANGED memo

Call(t, k) ==
    /\ pc[t] = "idle"
    /\ calls < MaxCalls
    /\ calls' = calls + 1
    /\ key' = [key EXCEPT ![t] = k]
    /\ result' = [result EXCEPT ![t] = NoResult]
    /\ Goto(t, "lookup")
    /\ UNCHANGED <<flight, variant, tries, answer, failure, mail, authentic, misread, memo,
                   shared, faults>>

\* The identity of a request: the prompt, the model and the ownership of the facts.
ClassifyGrowth(t) == \E k \in Asked \ AuthKeys : Call(t, k)
ClassifyAuth(t) == \E k \in Asked \cap AuthKeys : Call(t, k)

\* The first look into the cache, without a lock.
Lookup(t) ==
    /\ pc[t] = "lookup" /\ key[t] \notin AuthKeys
    /\ \E c \in Contracts \cup {None} :
        /\ Reads(key[t], c)
        /\ IF c # None THEN Accept(t, c, 0) ELSE Goto(t, "join") /\ UNCHANGED result
    /\ UNCHANGED <<locals, memo, shared, calls>>

\* As Lookup, but what the client has accepted before serves when the cache does not.
LookupAuth(t) ==
    /\ pc[t] = "lookup" /\ key[t] \in AuthKeys
    /\ \E c \in Contracts \cup {None} :
        /\ Reads(key[t], c)
        /\ \/ c # None /\ AcceptAuth(t, c, 0)
           \/ /\ c = None /\ memo[t][key[t]] # None
              /\ Accept(t, memo[t][key[t]], 0) /\ UNCHANGED memo
           \/ /\ c = None /\ memo[t][key[t]] = None
              /\ Goto(t, "join") /\ UNCHANGED <<result, memo>>
    /\ UNCHANGED <<locals, shared, calls>>

\* _join_inflight
Join(t) ==
    LET owners == {u \in Peers(t) : Owns(u) /\ key[u] = key[t]} IN
      /\ pc[t] = "join"
      /\ flight' = [flight EXCEPT ![t] = IF owners = {} THEN t ELSE CHOOSE u \in owners : TRUE]
      /\ Goto(t, IF owners = {} THEN "stripe" ELSE "wait")
      /\ UNCHANGED <<key, variant, tries, answer, failure, mail, authentic, misread, memo, shared,
                     result, calls, faults>>

\* A waiter wakes up: the answer, the error, or a call from the start.
Wake(t) ==
    /\ pc[t] = "wait"
    /\ mail[t] # NoMail
    /\ \/ mail[t].contract # None /\ AcceptEither(t, mail[t].contract, mail[t].misread)
       \/ mail[t].error # None /\ Return(t, None, mail[t].error, 0) /\ UNCHANGED memo
       \/ mail[t].retry /\ Goto(t, "lookup") /\ UNCHANGED <<result, memo>>
    /\ mail' = [mail EXCEPT ![t] = NoMail]
    /\ UNCHANGED <<key, flight, variant, tries, answer, failure, authentic, misread, shared,
                   calls, faults>>

\* _finish_inflight: the flight leaves the table and every waiter gets m.
FinishInflight(t, m) ==
    /\ flight' = [u \in Threads |-> IF flight[u] = t THEN None ELSE flight[u]]
    /\ mail' = [u \in Threads |-> IF u # t /\ flight[u] = t THEN m ELSE mail[u]]

-----------------------------------------------------------------------------
(* The owner of a flight.                                                  *)

\* single_flight
LockStripe(t) ==
    /\ pc[t] = "stripe"
    /\ stripe[Stripe[key[t]]] = None
    /\ stripe' = [stripe EXCEPT ![Stripe[key[t]]] = t]
    /\ Goto(t, "recheck")
    /\ UNCHANGED <<locals, memo, capacity, entry, result, calls, faults>>

\* Mutant: the entry another process published while t waited is not looked for.
RecheckSkipped(t) ==
    /\ pc[t] = "recheck"
    /\ Goto(t, "reserve")
    /\ UNCHANGED <<locals, memo, shared, result, calls, faults>>

\* The second look, under the lock.
Recheck(t) ==
    /\ pc[t] = "recheck"
    /\ \E c \in Contracts \cup {None} :
        /\ Reads(key[t], c)
        /\ answer' = [answer EXCEPT ![t] = c]
        /\ misread' = [misread EXCEPT ![t] = IF faults' # faults THEN 1 ELSE 0]
        /\ Goto(t, IF c # None THEN "finish"
                   ELSE IF key[t] \in AuthKeys THEN "reserve" ELSE "authenticate")
    /\ UNCHANGED <<key, flight, variant, tries, failure, mail, authentic, memo, shared,
                   result, calls>>

\* authenticated_snapshot: another read, of a Growth key only, that fails or not
\* whatever the one before did.  An entry it authenticates is asked for again and stays.
Authenticate(t) ==
    /\ pc[t] = "authenticate"
    /\ \/ /\ authentic' = [authentic EXCEPT ![t] = Authenticates(key[t])]
          /\ UNCHANGED <<misread, faults>>
       \/ /\ Exists(key[t]) /\ Unopened
          /\ misread' = [misread EXCEPT ![t] = @ + 1]
          /\ UNCHANGED authentic
    /\ Goto(t, "reserve")
    /\ UNCHANGED <<key, flight, variant, tries, answer, failure, mail, memo, shared,
                   result, calls>>

\* The request loop of t begins, or is left.
ResetLoop(t) ==
    /\ variant' = [variant EXCEPT ![t] = 0]
    /\ tries' = [tries EXCEPT ![t] = 0]

Fail(t, code) ==
    /\ Goto(t, "unwind")
    /\ failure' = [failure EXCEPT ![t] = code]
    /\ ResetLoop(t)

\* Mutant: the capacity lock is held for the check only.
ReserveReleased(t) ==
    /\ pc[t] = "reserve"
    /\ capacity = None
    /\ \/ /\ Exists(key[t]) /\ ~authentic[t]
          /\ Fail(t, "conflict")
       \/ /\ ~Exists(key[t]) \/ authentic[t]
          /\ ~Room
          /\ Fail(t, "exhausted")
       \/ /\ ~Exists(key[t]) \/ authentic[t]
          /\ Room
          /\ Goto(t, "post")
          /\ ResetLoop(t)
          /\ UNCHANGED failure
    /\ UNCHANGED <<key, flight, answer, mail, authentic, misread, memo, shared, result, calls,
                   faults>>

\* capacity_reservation: the lock, then the checks.
Reserve(t) ==
    /\ pc[t] = "reserve"
    /\ capacity = None
    /\ capacity' = t
    /\ \/ /\ Exists(key[t]) /\ ~authentic[t]
          /\ Fail(t, "conflict")
       \/ /\ ~Exists(key[t]) \/ authentic[t]
          /\ ~Room
          /\ Fail(t, "exhausted")
       \/ /\ ~Exists(key[t]) \/ authentic[t]
          /\ Room
          /\ Goto(t, "post")
          /\ ResetLoop(t)
          /\ UNCHANGED failure
    /\ UNCHANGED <<key, flight, answer, mail, authentic, misread, memo, stripe, entry, result,
                   calls, faults>>

\* A reply that passes the validation.  put is skipped over an entry that stays: its
\* answer is this flight's alone.
Answered(t, c) ==
    /\ key[t] \notin AuthKeys
    /\ answer' = [answer EXCEPT ![t] = c]
    /\ Goto(t, IF authentic[t] THEN "finish" ELSE "publish")
    /\ ResetLoop(t)
    /\ UNCHANGED failure

AnsweredAuth(t, c) ==
    /\ key[t] \in AuthKeys
    /\ answer' = [answer EXCEPT ![t] = c]
    /\ Goto(t, "publish")
    /\ ResetLoop(t)
    /\ UNCHANGED failure

\* _post_with_retries
TransportFailed(t) ==
    /\ IF tries[t] + 1 < MaxRetries
       THEN tries' = [tries EXCEPT ![t] = @ + 1] /\ UNCHANGED <<pc, failure, variant>>
       ELSE Fail(t, "request")
    /\ UNCHANGED answer

\* A reply of the wrong schema, or with sensitive content, is corrected once.
Corrected(t) ==
    /\ IF variant[t] = 0
       THEN /\ variant' = [variant EXCEPT ![t] = 1]
            /\ tries' = [tries EXCEPT ![t] = 0]
            /\ UNCHANGED <<pc, failure>>
       ELSE Fail(t, "reply")
    /\ UNCHANGED answer

Post(t) ==
    /\ pc[t] = "post"
    /\ \/ \E c \in Contracts : Answered(t, c) \/ AnsweredAuth(t, c)
       \/ TransportFailed(t)
       \/ Corrected(t)
       \/ /\ \E code \in {"request", "reply"} : Fail(t, code)
          /\ UNCHANGED answer
    /\ UNCHANGED <<key, flight, mail, authentic, misread, memo, shared, result, calls, faults>>

\* Mutant: an answer that could not be stored is given all the same.
PublishIgnored(t) ==
    /\ pc[t] = "publish" /\ key[t] \notin AuthKeys
    /\ entry' \in {entry, [entry EXCEPT ![key[t]] = answer[t]]}
    /\ Goto(t, "finish")
    /\ UNCHANGED <<locals, memo, stripe, capacity, result, calls, faults>>

\* The entry appears with os.link.  An error before or after it, an interrupt
\* included, becomes LLM_CACHE_WRITE_FAILED.
Store(t, possible) ==
    /\ \/ /\ possible
          /\ entry' = [entry EXCEPT ![key[t]] = answer[t]]
          /\ \/ Goto(t, "finish") /\ UNCHANGED <<failure, variant, tries>>
             \/ Fail(t, "write")
       \/ /\ Fail(t, "write")
          /\ UNCHANGED entry
    /\ UNCHANGED <<key, flight, answer, mail, authentic, misread, memo, stripe, capacity,
                   result, calls, faults>>

\* put
Publish(t) ==
    /\ pc[t] = "publish" /\ key[t] \notin AuthKeys
    /\ Store(t, ~Exists(key[t]) /\ Room)

\* put_auth_record: the capacity is not checked again, its reservation is t's own.
PublishAuth(t) ==
    /\ pc[t] = "publish" /\ key[t] \in AuthKeys
    /\ Store(t, ~Exists(key[t]))

\* The answer goes to the waiters before the locks are released.
Finish(t) ==
    /\ pc[t] = "finish"
    /\ FinishInflight(t, [contract |-> answer[t], error |-> None, retry |-> FALSE,
                         misread |-> misread[t]])
    /\ Goto(t, "release")
    /\ UNCHANGED <<key, variant, tries, answer, failure, authentic, misread, memo, shared,
                   result, calls,
                   faults>>

\* The locks t holds are free.
Unlock(t) ==
    /\ stripe' = [s \in Stripes |-> IF stripe[s] = t THEN None ELSE stripe[s]]
    /\ capacity' = IF capacity = t THEN None ELSE capacity

\* The owner applies its policy last, with its flight over and its answer published.
Release(t) ==
    /\ pc[t] = "release" /\ key[t] \notin AuthKeys
    /\ Accept(t, answer[t], misread[t])
    /\ Unlock(t)
    /\ Forget({t})
    /\ UNCHANGED <<key, flight, mail, memo, entry, calls, faults>>

ReleaseAuth(t) ==
    /\ pc[t] = "release" /\ key[t] \in AuthKeys
    /\ AcceptAuth(t, answer[t], misread[t])
    /\ Unlock(t)
    /\ Forget({t})
    /\ UNCHANGED <<key, flight, mail, entry, calls, faults>>

\* A failure leaves both context managers before the waiters learn of it.
Unwind(t) ==
    /\ pc[t] = "unwind"
    /\ Unlock(t)
    /\ Goto(t, "report")
    /\ UNCHANGED <<locals, memo, entry, result, calls, faults>>

\* Mutant: the waiters are told of the failures they share and of no others.
ReportSilent(t) ==
    /\ pc[t] = "report"
    /\ FinishInflight(t, IF failure[t] \in Shareable
                         THEN [NoMail EXCEPT !.error = failure[t]]
                         ELSE NoMail)
    /\ Return(t, None, failure[t], misread[t])
    /\ Forget({t})
    /\ UNCHANGED <<key, memo, shared, calls, faults>>

Report(t) ==
    /\ pc[t] = "report"
    /\ FinishInflight(t, IF failure[t] \in Shareable
                         THEN [NoMail EXCEPT !.error = failure[t]]
                         ELSE [NoMail EXCEPT !.retry = TRUE])
    /\ Return(t, None, failure[t], misread[t])
    /\ Forget({t})
    /\ UNCHANGED <<key, memo, shared, calls, faults>>

-----------------------------------------------------------------------------
(* Faults.                                                                 *)

\* KeyboardInterrupt in a blocking call of a main thread.
Interrupt(t) ==
    /\ t \in MainThreads
    /\ faults < MaxFaults
    /\ faults' = faults + 1
    /\ \/ /\ pc[t] = "wait"
          /\ Return(t, None, "interrupt", 0)
          /\ flight' = [flight EXCEPT ![t] = None]
          /\ mail' = [mail EXCEPT ![t] = NoMail]
          /\ UNCHANGED <<failure, variant, tries>>
       \/ /\ pc[t] \in {"stripe", "reserve", "post"}
          /\ Fail(t, "interrupt")
          /\ UNCHANGED <<flight, mail, result>>
    /\ UNCHANGED <<key, answer, authentic, misread, memo, shared, calls>>

\* The process of t is killed: its threads, its flights and its locks are gone.
Kill(t) ==
    /\ pc[t] # "dead"
    /\ faults < MaxFaults
    /\ faults' = faults + 1
    /\ pc' = [u \in Threads |-> IF u \in Peers(t) THEN "dead" ELSE pc[u]]
    /\ flight' = [u \in Threads |-> IF u \in Peers(t) THEN None ELSE flight[u]]
    /\ stripe' = [s \in Stripes |-> IF stripe[s] \in Peers(t) THEN None ELSE stripe[s]]
    /\ capacity' = IF capacity \in Peers(t) THEN None ELSE capacity
    /\ mail' = [u \in Threads |-> IF u \in Peers(t) THEN NoMail ELSE mail[u]]
    /\ memo' = [u \in Threads |-> [k \in AuthKeys |-> IF u \in Peers(t) THEN None ELSE memo[u][k]]]
    /\ Forget(Peers(t))
    /\ UNCHANGED <<key, entry, result, calls>>

-----------------------------------------------------------------------------

Step(t) ==
    \/ Lookup(t) \/ LookupAuth(t) \/ Join(t) \/ Wake(t)
    \/ LockStripe(t) \/ Recheck(t) \/ Authenticate(t) \/ Reserve(t) \/ Post(t)
    \/ Publish(t) \/ PublishAuth(t) \/ Finish(t) \/ Release(t) \/ ReleaseAuth(t)
    \/ Unwind(t) \/ Report(t)

Next ==
    \E t \in Threads :
        \/ ClassifyGrowth(t) \/ ClassifyAuth(t)
        \/ Step(t) \/ Interrupt(t) \/ Kill(t)

Spec == Init /\ [][Next]_vars

\* A thread that can go on does: requests end at their deadline, the operating
\* system schedules every thread.
FairSpec == Spec /\ \A t \in Threads : WF_vars(Step(t))

-----------------------------------------------------------------------------
(* Properties.                                                             *)

\* Every variable has its type; a request is posted at most max_retries times
\* for a prompt and its correction.
TypeOK ==
    /\ pc \in [Threads -> Steps]
    /\ key \in [Threads -> Keys]
    /\ flight \in [Threads -> Threads \cup {None}]
    /\ variant \in [Threads -> 0..1]
    /\ tries \in [Threads -> 0..(MaxRetries - 1)]
    /\ answer \in [Threads -> Contracts \cup {None}]
    /\ failure \in [Threads -> Failures \cup {None}]
    /\ mail \in [Threads -> [contract : Contracts \cup {None}, error : Failures \cup {None},
                             retry : BOOLEAN, misread : 0..2]]
    /\ stripe \in [Stripes -> Threads \cup {None}]
    /\ capacity \in Threads \cup {None}
    /\ entry \in [Keys -> Entries]
    /\ result \in [Threads -> [contract : Contracts \cup {None},
                               error : Failures \cup {None}, misread : 0..2]]
    /\ authentic \in [Threads -> BOOLEAN]
    /\ misread \in [Threads -> 0..2]
    /\ memo \in [Threads -> [AuthKeys -> Contracts \cup {None}]]
    /\ calls \in 0..MaxCalls
    /\ faults \in 0..MaxFaults

\* A slot reserved before a request is still there when its answer is published:
\* no request is paid for whose answer then finds the cache full or the key taken.
ReservationHolds ==
    \A t \in Threads : pc[t] = "publish" => Room /\ ~Exists(key[t])

\* What the analyzer asks for again although there is an entry: a Growth contract
\* that is out of date, or that the owner of a flight failed to read under the
\* lock, n times, though the next read succeeded.
AskedAgain(k, n) ==
    k \notin AuthKeys /\ (entry[k] = Stale \/ (entry[k] \in Contracts /\ n = 1))

\* All the callers of a key get one contract, the published one, whichever flight
\* or process they are in.  The exception is a flight that asks for an entry again:
\* its own callers, and nobody else, get an answer that is not published.  No Auth
\* Contract is ever such an answer.
AnswersArePublished ==
    \A t \in Threads :
        result[t].contract # None =>
            entry[key[t]] = result[t].contract \/ AskedAgain(key[t], result[t].misread)

\* Clients share requests, entries and flights but never their policy: none is given
\* a contract that its own forbids, and none is refused one because another's does.
\* What a client refuses is the published contract or the answer of such a flight.
PolicyIsOwn ==
    \A t \in Threads :
        /\ result[t].contract \notin Refused[t]
        /\ result[t].error = "refused" =>
            entry[key[t]] \in Refused[t] \/ AskedAgain(key[t], result[t].misread)

\* What cannot be used: a file that does not authenticate, an Auth entry that is out
\* of date, or an entry that n reads under the lock failed on, all that could have
\* saved the call.
Unusable(k, n) ==
    \/ entry[k] = Foreign
    \/ entry[k] = Stale /\ (k \in AuthKeys \/ n >= 1)
    \/ entry[k] \in Contracts /\ n >= (IF k \in AuthKeys THEN 1 ELSE 2)

\* Callers that race for a key never see a conflict: that error means an entry that
\* the owner of the flight could not use.
ConflictMeansUnusable ==
    \A t \in Threads :
        result[t].error = "conflict" => Unusable(key[t], result[t].misread)

\* Entries are never replaced, nor lost to a failure, an interrupt or a kill.
EntriesStay ==
    [][\A k \in Keys : entry[k] # None => entry'[k] = entry[k]]_vars

\* Every call ends: no waiter is forgotten, no lock order blocks, and a killed
\* process leaves nothing held.  (The calls are bounded, so they all end together.)
CallsEnd == <>[](\A t \in Threads : pc[t] \in {"idle", "dead"})

=============================================================================
