-------------------------- MODULE MCProviderClient --------------------------
(***************************************************************************)
(* Instances of ProviderClient.                                            *)
(***************************************************************************)
EXTENDS ProviderClient, TLC

CONSTANTS t1, t2, t3, growth, auth, other, c1, c2

\* Two workers of a batch and the thread of another analyzer process.
TwoProcesses == (t1 :> "batch") @@ (t2 :> "batch") @@ (t3 :> "analyze")

\* The keys hash to a stripe each, but for one that nobody asks for.
TwoStripes == (growth :> 0) @@ (auth :> 1) @@ (other :> 1)

\* A full cache, with anything for the keys that are asked for, or one with a slot
\* left beside a Growth entry that authenticates or a key nobody asks for.
FoundAnything ==
    {e \in [Keys -> {None, Foreign, Stale, c1}] :
        /\ e[other] \in {None, Foreign}
        /\ \/ Cardinality({k \in Keys : e[k] # None}) = Capacity
           \/ e[auth] = None /\ e[growth] \in {Stale, c1}
           \/ e = [k \in Keys |-> IF k = other THEN Foreign ELSE None]}

\* One of the workers has a policy that forbids what is in c1.
OneRefuses == [t \in Threads |-> IF t = t2 THEN {c1} ELSE {}]

=============================================================================
