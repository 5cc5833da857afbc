----------------------------- MODULE Conclusion -----------------------------
(***************************************************************************)
(* How the analyzer reaches its verdict on one Growth candidate: the       *)
(* growth stage, whose decisions module GrowthStage defines, with the      *)
(* amplification, repeatability and reachability of the pair, the flow     *)
(* stage and the verification of the paths, the lifecycle decisions, and   *)
(* the conclude stage with its assertions, proof gate and certificate      *)
(* (dosweb/production.py, flows/verify.py, reachability/verify.py,         *)
(* lifecycle/*.py, conclude/*.py).                                         *)
(*                                                                         *)
(* The evidence is what CodeQL, the source extractors and the provider     *)
(* deliver; the stages are functions of it.  A lifecycle candidate is the  *)
(* set of reasons its own fields give against it, so the effective one is  *)
(* {}.  All candidates of a pair are anchored at its Growth site, so every *)
(* path is linked to the same ones.  The analyzer is then run again on     *)
(* weaker evidence, to see what a verdict owes to each part of it.         *)
(***************************************************************************)
EXTENDS GrowthStage

CONSTANTS
    Inputs,   \* families of evidence a first run may find
    MaxRuns   \* bound: how many times the analyzer is run

-----------------------------------------------------------------------------
(* Evidence.                                                               *)

Contexts == {"unauthenticated", "low_privilege", "privileged"}
DeploymentGates == {"default_enabled", "default_disabled", "optional"}
Families == {"guard", "bound", "release"}
GuardReasons == {"mismatch", "config", "coverage"}
BoundReasons == {"scope", "dimension", "mismatch", "config", "coverage"}
ReleaseReasons == {"async", "mismatch", "paths", "reduction", "transfer", "coverage"}

Evidence ==
    [candidate : Candidates,
     trigger : BOOLEAN,              \* registered protocol trigger
     contexts : SUBSET Contexts,     \* contexts that complete facts support
     authGap : BOOLEAN,              \* some security fact is partial
     gates : SUBSET DeploymentGates, \* statuses of the complete gates
     patterns : SUBSET {"own", "sibling"}, \* supported registration patterns
     guard : SUBSET (SUBSET GuardReasons),
     bound : SUBSET (SUBSET BoundReasons),
     release : SUBSET (SUBSET ReleaseReasons),
     domain : SUBSET Families]       \* modeled-domain coverage rows

ASSUME PathsAssumption == Paths # {}
ASSUME EntriesAssumption == Entries # {}
ASSUME InputsAssumption == \A family \in Inputs : family \subseteq Evidence
ASSUME RunsAssumption == MaxRuns \in Nat

VARIABLES
    ev,       \* the evidence of this run
    stage,    \* the stage to execute next, or how the run ended
    facts,    \* decisions of the growth stage
    flow,     \* the verified flows of the pair, by path
    life,     \* lifecycle_results.jsonl, by path
    coverage, \* lifecycle_coverage.jsonl: the complete families
    verdict,  \* verdict of the finding
    last,     \* history: verdict of the previous run
    runs

vars == <<ev, stage, facts, flow, life, coverage, verdict, last, runs>>

-----------------------------------------------------------------------------
(* The growth stage, about the pair of a linked candidate.                 *)

\* _amplification_decision_for_candidate
Amplification(c) ==
    IF "loop_gap" \in c.notes THEN "unknown"
    ELSE IF "loop_proven" \in c.notes THEN "proven"
    ELSE IF "single" \in c.notes \/ c.kind \in DirectKinds THEN "not_applicable"
    ELSE "unknown"

Repeatability(e, a) ==
    IF a.status = "complete" /\ e.trigger THEN "proven" ELSE "unknown"

\* The context an Auth Contract may claim: the unique supported one when it is
\* derived locally, anything when the provider is asked.
Claims(e) ==
    IF ~e.authGap /\ Cardinality(e.contexts) = 1 THEN e.contexts
    ELSE Contexts \cup {"unknown"}

\* Mutant: facts that conflict do not count against the claim.
AuthContextClaimed(e, claim) ==
    IF e.authGap \/ claim \notin e.contexts THEN "unknown" ELSE claim

\* The context verify_auth_contract accepts.
AuthContext(e, claim) ==
    IF e.authGap \/ Cardinality(e.contexts) > 1 \/ claim \notin e.contexts
    THEN "unknown" ELSE claim

\* Mutant: an Entry without a deployment gate is deployed by default.
DeploymentUngated(e) ==
    IF e.gates = {} THEN "default_enabled"
    ELSE IF Cardinality(e.gates) = 1 THEN CHOOSE g \in e.gates : TRUE ELSE "unknown"

\* resolve_deployment_status
Deployment(e) ==
    IF Cardinality(e.gates) = 1 THEN CHOOSE g \in e.gates : TRUE ELSE "unknown"

\* The status verify_auth_contract decides.
Reachability(e, claim) ==
    LET context == AuthContext(e, claim) IN
      IF e.authGap THEN "unknown"
      ELSE IF context = "privileged" \/ Deployment(e) \in {"default_disabled", "optional"}
           THEN "not_entry_reachable"
      ELSE IF context # "unknown" /\ Deployment(e) = "default_enabled"
           THEN "ordinary_attacker_reachable"
      ELSE "unknown"

-----------------------------------------------------------------------------
(* Flows.                                                                  *)

\* verify_flow: the reasons of the first check that fails, g the status of the
\* Growth.  The check of the attacker-controlled demand cannot fail here:
\* normalize_flow_rows refuses the row.
FlowReasons(c, g, p) ==
    LET gaps == Gaps(c, p) IN
      IF "entry" \in gaps THEN {"entry"}
      ELSE IF "edges" \in gaps THEN {"edges"}
      ELSE IF g # "verified" THEN {"growth"}
      ELSE IF "kind" \in gaps THEN {"kind"}
      ELSE gaps \cap {"coverage", "confidence"}

VerifyFlow(c, g, p) ==
    LET why == FlowReasons(c, g, p) IN
      [status |-> IF why = {} THEN "verified"
                  ELSE IF why = {"growth"} THEN "unresolved" ELSE "partial",
       reasons |-> why]

-----------------------------------------------------------------------------
(* Lifecycle.                                                              *)

Open(reasons) == reasons \cap {"config", "coverage"} # {}

\* evaluate_guard
EvaluateGuard(cs, complete) ==
    IF cs = {} THEN [status |-> IF complete THEN "ineffective" ELSE "unknown",
                     open |-> ~complete, reasons |-> {}]
    ELSE LET why == UNION cs IN
           [status |-> IF {} \in cs THEN "effective"
                       ELSE IF Open(why) THEN "unknown" ELSE "ineffective",
            open |-> Open(why),
            reasons |-> IF {} \in cs THEN {} ELSE why]

\* evaluate_bound
EvaluateBound(cs, complete) ==
    IF cs = {} THEN [status |-> IF complete THEN "absent" ELSE "unknown",
                     open |-> ~complete, reasons |-> {}]
    ELSE LET why == UNION cs IN
           [status |-> IF {} \in cs THEN "effective"
                       ELSE IF Open(why) THEN "unknown"
                       ELSE IF why = {"scope"} THEN "scope_mismatched"
                       ELSE IF why = {"dimension"} THEN "dimension_mismatched"
                       ELSE "possibly_over_budget",
            open |-> Open(why),
            reasons |-> IF {} \in cs THEN {} ELSE why]

\* _evaluate_path_bounds: each candidate alone first, since a framework limit has
\* a domain of its own.
EvaluatePathBounds(cs, complete) ==
    LET alone == {EvaluateBound({c}, TRUE) : c \in cs} IN
      IF \E d \in alone : d.status = "effective"
      THEN [status |-> "effective", open |-> \E d \in alone : d.open, reasons |-> {}]
      ELSE EvaluateBound(cs, complete)

\* evaluate_synchronous_release
EvaluateRelease(cs, complete) ==
    IF cs = {} THEN LET s == IF complete THEN "absent" ELSE "unknown" IN
                      [status |-> s, class |-> s, open |-> ~complete, reasons |-> {}]
    ELSE LET why == UNION cs
             unresolved == why \cap {"async", "transfer", "coverage"} # {}
             effective == {} \in cs /\ ~unresolved
             class == IF effective THEN "synchronous_effective"
                      ELSE IF "async" \in why THEN "potential_async"
                      ELSE IF unresolved THEN "unknown"
                      ELSE IF "mismatch" \in why THEN "receiver_or_key_mismatched"
                      ELSE IF "paths" \in why THEN "insufficient_path_coverage"
                      ELSE "not_effective"
         IN  [status |-> IF effective THEN "effective"
                         ELSE IF unresolved THEN "unknown" ELSE "ineffective",
              class |-> class, open |-> unresolved,
              reasons |-> IF effective THEN {} ELSE why]

\* The decisions of a path whose premise does not hold.
Unproven(w) ==
    LET why == w.reasons \cup {"premise"}
        d == [status |-> "unknown", open |-> TRUE, reasons |-> why]
    IN  [guard |-> d, bound |-> d,
         release |-> [status |-> "unknown", class |-> "unknown", open |-> TRUE,
                      reasons |-> why]]

\* The families complete for the anchor: a complete candidate or a row of the
\* modeled-domain query.
CompleteFamilies(e) ==
    {f \in Families : f \in e.domain \/ \E c \in e[f] : "coverage" \notin c}

\* Mutant: the bounds of another dimension than the path's demand are not linked.
DecisionsByDemand(e, w, p) ==
    IF w.status # "verified" THEN Unproven(w)
    ELSE [guard |-> EvaluateGuard(e.guard, "guard" \in CompleteFamilies(e)),
          bound |-> EvaluatePathBounds(IF e.candidate.target[p] = "size" THEN e.bound
                                       ELSE {c \in e.bound : "dimension" \notin c},
                                       "bound" \in CompleteFamilies(e)),
          release |-> EvaluateRelease(e.release, "release" \in CompleteFamilies(e))]

\* The decisions of a path whose verified flow is w.
Decisions(e, w, p) ==
    IF w.status # "verified" THEN Unproven(w)
    ELSE [guard |-> EvaluateGuard(e.guard, "guard" \in CompleteFamilies(e)),
          bound |-> EvaluatePathBounds(e.bound, "bound" \in CompleteFamilies(e)),
          release |-> EvaluateRelease(e.release, "release" \in CompleteFamilies(e))]

-----------------------------------------------------------------------------
(* Conclude: assertions, verdict, proof gate, certificate.  f holds the    *)
(* growth stage's decisions, w a verified flow, d the lifecycle decisions. *)

\* One request alone makes the demand of path p.
Unrestrained(c, f, p) ==
    IF c.kind \in DirectKinds THEN Target(c, p) = "size" ELSE f.amplification = "proven"

\* Mutant: demand of unknown amplification is demand without it.
EvaluateAssertion1Unamplified(e, f, w, p, d) ==
    IF f.reach # "ordinary_attacker_reachable"
    THEN IF f.reach = "not_entry_reachable" THEN "not_applicable" ELSE "unknown"
    ELSE IF ~Unrestrained(e.candidate, f, p)
    THEN "not_applicable"
    ELSE IF f.growth # "verified" \/ w.status # "verified" THEN "unknown"
    ELSE IF d.guard.status = "unknown" \/ d.guard.open THEN "unknown"
    ELSE IF d.guard.status = "effective" THEN "refuted"
    ELSE IF d.bound.status = "unknown" \/ d.bound.open THEN "unknown"
    ELSE IF d.bound.status = "effective" THEN "refuted"
    ELSE "matched"

\* evaluate_assertion_1
EvaluateAssertion1(e, f, w, p, d) ==
    IF f.reach # "ordinary_attacker_reachable"
    THEN IF f.reach = "not_entry_reachable" THEN "not_applicable" ELSE "unknown"
    ELSE IF ~Unrestrained(e.candidate, f, p)
    THEN IF e.candidate.kind \notin DirectKinds /\ f.amplification = "unknown"
         THEN "unknown" ELSE "not_applicable"
    ELSE IF f.growth # "verified" \/ w.status # "verified" THEN "unknown"
    ELSE IF d.guard.status = "unknown" \/ d.guard.open THEN "unknown"
    ELSE IF d.guard.status = "effective" THEN "refuted"
    ELSE IF d.bound.status = "unknown" \/ d.bound.open THEN "unknown"
    ELSE IF d.bound.status = "effective" THEN "refuted"
    ELSE "matched"

\* evaluate_assertion_2
EvaluateAssertion2(e, f, w, p, d) ==
    IF f.reach # "ordinary_attacker_reachable"
    THEN IF f.reach = "not_entry_reachable" THEN "not_applicable" ELSE "unknown"
    ELSE IF f.repeat # "proven" THEN "unknown"
    ELSE IF f.growth # "verified" \/ w.status # "verified" THEN "unknown"
    ELSE IF Target(e.candidate, p) \notin {"key", "value", "submission_count"} THEN "not_applicable"
    ELSE IF e.candidate.scope = "request" THEN "not_applicable"
    ELSE IF e.candidate.scope = "unknown" THEN "unknown"
    ELSE IF d.bound.status = "unknown" \/ d.bound.open THEN "unknown"
    ELSE IF d.bound.status = "effective" THEN "refuted"
    ELSE IF d.release.status = "unknown" \/ d.release.open
            \/ d.release.class \in {"potential_async", "unknown"} THEN "unknown"
    ELSE IF d.release.status = "effective" THEN "refuted"
    ELSE "matched"

\* CandidateCoverage.from_framework: the Entry's own pattern, and no sibling of it.
Covered(e) == "own" \in e.patterns

\* Mutant: a refuted assertion outweighs a matched one.
DeriveVerdictRefutedFirst(found, covered) ==
    IF "unknown" \in found \/ ~covered THEN "static_unknown"
    ELSE IF "refuted" \in found THEN "bounded_under_modeled_assumptions"
    ELSE IF "matched" \in found THEN "static_vulnerable"
    ELSE "static_unknown"

\* derive_verdict, on the statuses of all the assertions.
DeriveVerdict(found, covered) ==
    IF "unknown" \in found \/ ~covered THEN "static_unknown"
    ELSE IF "matched" \in found THEN "static_vulnerable"
    ELSE IF "refuted" \in found THEN "bounded_under_modeled_assumptions"
    ELSE "static_unknown"

\* Mutant: the candidates alone make the lifecycle families complete.
LifecycleCompleteUnchecked(status, families) == TRUE

\* assertion_1_lifecycle_complete and assertion_2_lifecycle_complete
LifecycleComplete(status, families) ==
    status = "not_applicable" \/ families \subseteq coverage

\* VerdictProofGate
ProofGate(a1, a2) ==
    /\ Covered(ev)
    /\ facts.reach = "ordinary_attacker_reachable"
    /\ facts.growth = "verified"
    /\ \A p \in DOMAIN flow : flow[p].status = "verified"
    /\ \A p \in DOMAIN flow : LifecycleComplete(a1[p], {"guard", "bound"})
    /\ \A p \in DOMAIN flow : LifecycleComplete(a2[p], {"bound", "release"})
    /\ facts.disposition.status = "formal_eligible"

\* apply_positive_proof_gate
Gated(v, a1, a2) == IF ProofGate(a1, a2) THEN v ELSE "static_unknown"

\* _eligible_conclusion_pairs: an eligible pair must have a path.
PairHasPath == DOMAIN flow # {}

\* The refusals of build_lifecycle_certificate that depend on the verdict.
CertificateAccepts(v) ==
    (\E p \in DOMAIN flow : flow[p].status # "verified") \/ ~Covered(ev)
        => v = "static_unknown"

-----------------------------------------------------------------------------
(* One run of the analyzer over the candidate.                             *)

NoFacts == [reach |-> "unknown", repeat |-> "unknown", amplification |-> "unknown",
            growth |-> "unresolved",
            disposition |-> [status |-> "inventory_unresolved", association |-> "missing",
                             links |-> {}, local |-> "partial"]]
NoPath == [p \in {} |-> {}]

Init ==
    /\ \E family \in Inputs : ev \in family
    /\ stage = "growth"
    /\ facts = NoFacts /\ flow = NoPath /\ life = NoPath /\ coverage = {}
    /\ verdict = "none" /\ last = "none"
    /\ runs = 1

\* The growth stage fails when the candidate's registrations have no canonical one.
AssociationFails ==
    /\ stage = "growth"
    /\ Association(ev.candidate).status = "failed"
    /\ stage' = "failed"
    /\ UNCHANGED <<ev, facts, flow, life, coverage, verdict, last, runs>>

\* The candidate leaves the pipeline without a look at its Entry.
Dismiss ==
    LET c == ev.candidate
        a == Association(c)
    IN  /\ stage = "growth"
        /\ a.status # "failed"
        /\ Maturation(c, a) \in {"rejected", "inventory_unresolved"}
        /\ facts' = [facts EXCEPT !.disposition = Mature(c, a, Maturation(c, a))]
        /\ stage' = Maturation(c, a)
        /\ UNCHANGED <<ev, flow, life, coverage, verdict, last, runs>>

\* The rest of the growth stage.  A pair proven out of an ordinary caller's reach
\* is rejected; one without a slice, or with a contract that does not fit the
\* slice, fails the stage.
Growth ==
    LET c == ev.candidate
        a == Association(c)
        x == (CHOOSE l \in a.links : TRUE).entry
        d == Mature(c, a, Maturation(c, a))
    IN  /\ stage = "growth"
        /\ a.status # "failed"
        /\ Maturation(c, a) \in {"formal_eligible", "gap_eligible"}
        /\ \E claim \in Claims(ev) :
             IF Reachability(ev, claim) = "not_entry_reachable"
             THEN /\ facts' = [facts EXCEPT !.reach = Reachability(ev, claim),
                                            !.disposition = Mature(c, a, "rejected")]
                  /\ stage' = "rejected"
             ELSE /\ facts' = [reach |-> Reachability(ev, claim),
                               repeat |-> Repeatability(ev, a),
                               amplification |-> Amplification(c),
                               growth |-> VerifyGrowth(c, x),
                               disposition |-> d]
                  /\ stage' = IF SliceBuilt(c, x) /\ Binds(c, x) /\ WellFormed(d)
                              THEN "flows" ELSE "failed"
        /\ UNCHANGED <<ev, flow, life, coverage, verdict, last, runs>>

\* The flow stage, and the verification of its paths by the stages after it.
Flows ==
    LET c == ev.candidate
        d == facts.disposition
        x == (CHOOSE l \in d.links : TRUE).entry
    IN  /\ stage = "flows"
        /\ IF /\ Reconciled(d)
              /\ RowsAccepted(c, x)
              /\ Supplemented(c, d) => c.roles \cap Roles # {}
           THEN /\ flow' = [p \in FlowPaths(c, d) |-> VerifyFlow(c, facts.growth, p)]
                /\ stage' = "lifecycle"
           ELSE stage' = "refused" /\ flow' = flow
        /\ UNCHANGED <<ev, facts, life, coverage, verdict, last, runs>>

Lifecycle ==
    /\ stage = "lifecycle"
    /\ life' = [p \in DOMAIN flow |-> Decisions(ev, flow[p], p)]
    /\ coverage' = CompleteFamilies(ev)
    /\ stage' = "conclude"
    /\ UNCHANGED <<ev, facts, flow, verdict, last, runs>>

\* The conclude stage refuses a pair without a path, and paths whose decisions
\* differ; the decisions of the first path stand for all.
Conclude ==
    LET d == life[CHOOSE p \in DOMAIN flow : TRUE]
        a1 == [p \in DOMAIN flow |-> EvaluateAssertion1(ev, facts, flow[p], p, d)]
        a2 == [p \in DOMAIN flow |-> EvaluateAssertion2(ev, facts, flow[p], p, d)]
        found == {a1[p] : p \in DOMAIN flow} \cup {a2[p] : p \in DOMAIN flow}
        v == Gated(DeriveVerdict(found, Covered(ev)), a1, a2)
        agree == \A p, q \in DOMAIN flow : life[p] = life[q]
    IN  /\ stage = "conclude"
        /\ IF PairHasPath /\ agree /\ CertificateAccepts(v)
           THEN stage' = "concluded" /\ verdict' = v
           ELSE stage' = "refused" /\ verdict' = verdict
        /\ UNCHANGED <<ev, facts, flow, life, coverage, last, runs>>

\* The ways evidence about the candidate gets weaker: something found before is
\* lost or contradicted.  The row that says that a direct allocation is in a loop
\* nobody modelled is a partial one.
WeakerCandidate(c) ==
    {[c EXCEPT !.complete = FALSE], [c EXCEPT !.named = FALSE], [c EXCEPT !.sourced = FALSE],
     [c EXCEPT !.notes = @ \cup {"loop_gap"}, !.complete = @ /\ c.kind \notin DirectKinds],
     [c EXCEPT !.answer.status = "unknown"], [c EXCEPT !.answer.mechanism = FALSE],
     [c EXCEPT !.answer.drivers = {}]}
    \cup {[c EXCEPT !.notes = @ \ {n}] : n \in {"origin", "driver", "demand", "cardinality", "field"}}
    \cup {[c EXCEPT !.supplement = @ \cup {x}] : x \in Entries}
    \cup {[c EXCEPT !.answer.required = @ \ {k}] : k \in {"space", "retention", "amplification"}}
    \cup {[c EXCEPT !.rows = (@ \ {r}) \cup {[r EXCEPT !.claimed = FALSE]}] : r \in c.rows}
    \cup {[c EXCEPT !.rows = @ \cup {[path |-> p, claimed |-> FALSE]}] : p \in Paths}
    \cup {[c EXCEPT !.gaps[p] = @ \cup {g}] : p \in Paths, g \in FlowGaps}

Weaker(e) ==
    {[e EXCEPT !.authGap = TRUE], [e EXCEPT !.gates = {}],
     [e EXCEPT !.trigger = FALSE], [e EXCEPT !.patterns = @ \ {"own"}]}
    \cup {[e EXCEPT !.candidate = c] : c \in WeakerCandidate(e.candidate)}
    \cup {[e EXCEPT !.contexts = @ \cup {c}] : c \in IF e.contexts = {} THEN {} ELSE Contexts}
    \cup {[e EXCEPT !.domain = @ \ {f}] : f \in Families}
    \cup {[e EXCEPT ![f] = @ \cup {{"coverage"}}] : f \in Families}
    \cup UNION {{[e EXCEPT ![f] = (@ \ {c}) \cup {c \cup {"coverage"}}] : c \in e[f]} :
                f \in Families}

Rerun ==
    /\ stage \in {"rejected", "inventory_unresolved", "failed", "refused", "concluded"}
    /\ runs < MaxRuns
    /\ ev' \in Weaker(ev)
    /\ stage' = "growth"
    /\ facts' = NoFacts /\ flow' = NoPath /\ life' = NoPath /\ coverage' = {}
    /\ last' = verdict
    /\ verdict' = "none"
    /\ runs' = runs + 1

Next ==
    AssociationFails \/ Dismiss \/ Growth \/ Flows \/ Lifecycle \/ Conclude \/ Rerun

Spec == Init /\ [][Next]_vars

-----------------------------------------------------------------------------
(* Properties.                                                             *)

Verdicts == {"static_vulnerable", "bounded_under_modeled_assumptions", "static_unknown"}
Determinate == Verdicts \ {"static_unknown"}

\* Every decision has a status and a classification of its record type, so that
\* the strict loaders of the next stage accept it.
TypeOK ==
    /\ ev \in Evidence
    /\ stage \in {"growth", "flows", "lifecycle", "conclude", "rejected",
                  "inventory_unresolved", "failed", "refused", "concluded"}
    /\ facts \in [reach : {"ordinary_attacker_reachable", "not_entry_reachable", "unknown"},
                  repeat : {"proven", "unknown"},
                  amplification : {"proven", "unknown", "not_applicable"},
                  growth : {"verified", "rejected", "unresolved"},
                  disposition :
                    [status : {"formal_eligible", "gap_eligible", "inventory_unresolved",
                               "rejected"},
                     association : {"complete", "partial", "ambiguous", "missing"},
                     links : SUBSET [entry : Entries, status : {"complete", "partial"},
                                     why : SUBSET {"claimed", "unclaimed", "row_missing",
                                                   "scan", "canonical"}],
                     local : {"complete", "partial", "rejected"}]]
    /\ DOMAIN flow \subseteq Paths \cup {GapPath} /\ DOMAIN life \subseteq DOMAIN flow
    /\ \A p \in DOMAIN life :
         /\ flow[p].status \in {"verified", "partial", "unresolved"}
         /\ life[p].guard.status \in {"effective", "ineffective", "unknown"}
         /\ life[p].bound.status \in
              {"effective", "absent", "scope_mismatched", "dimension_mismatched",
               "possibly_over_budget", "unknown"}
         /\ life[p].release.status \in {"effective", "ineffective", "unknown", "absent"}
         /\ life[p].release.class \in
              {"synchronous_effective", "potential_async", "unknown", "absent",
               "receiver_or_key_mismatched", "insufficient_path_coverage", "not_effective"}
    /\ coverage \subseteq Families
    /\ verdict \in Verdicts \cup {"none"}
    /\ last \in Verdicts \cup {"none"}
    /\ runs \in 1..MaxRuns

\* One request makes an unbounded demand; repeated requests accumulate.
SingleDemand(c, p) ==
    IF c.kind \in DirectKinds THEN c.target[p] = "size"
    ELSE "loop_proven" \in c.notes /\ "loop_gap" \notin c.notes
Accumulates(c, p) ==
    c.target[p] \in {"key", "value", "submission_count"} /\ c.scope \in {"session", "instance"}

\* A family is modelled for the Growth site, or has a complete candidate there.
Examined(f) == f \in ev.domain \/ \E c \in ev[f] : "coverage" \notin c

\* Nothing in an examined family holds, and nothing in it is open.
Ineffective(f) ==
    /\ Examined(f)
    /\ {} \notin ev[f]
    /\ \A c \in ev[f] : c \cap {"config", "coverage", "async", "transfer"} = {}

\* The growth queries, the association query and the flow query agree without a
\* gap: every association is claimed and has its flow, of one handler.
Traced(c) ==
    /\ c.complete /\ c.supplement = {} /\ ~c.testSite /\ ~Harmless(c)
    /\ c.rows # {}
    /\ \A r \in c.rows : r.claimed /\ r.path \in c.flows
    /\ \A p \in c.flows : c.gaps[p] = {} /\ c.target[p] \in c.roles
    /\ \A p, q \in c.flows : c.from[p] = c.from[q] \/ c.pattern # "distinct"

\* The provider says, citing flows there are, what the facts of the slice say.
Grounded(c) ==
    /\ c.named
    /\ c.answer.status = "dos_relevant"
    /\ c.answer.drivers # {} /\ c.answer.drivers \subseteq c.flows
    /\ c.answer.required = {"space", "retention", "amplification"}
    /\ c.answer.class = AmplificationFact(c) /\ c.answer.class # "low_amplification"

\* A determinate verdict rests on complete evidence: an ordinary caller in the
\* default deployment, a traced candidate, a grounded contract; a vulnerable one
\* on a path whose demand nothing in the examined families holds back, a bounded
\* one on an effective candidate for every demand there is, in examined families.
\* Whatever the provider claims about the Entry.
DeterminateIsProven ==
    verdict \in Determinate =>
      LET c == ev.candidate IN
      /\ ~ev.authGap
      /\ ev.contexts \in {{"unauthenticated"}, {"low_privilege"}}
      /\ ev.gates = {"default_enabled"}
      /\ Traced(c) /\ Grounded(c) /\ Covered(ev)
      /\ IF verdict = "static_vulnerable"
         THEN \E p \in c.flows :
                \/ SingleDemand(c, p) /\ Ineffective("guard") /\ Ineffective("bound")
                \/ /\ Accumulates(c, p) /\ ev.trigger
                   /\ Ineffective("bound") /\ Ineffective("release")
         ELSE /\ \E p \in c.flows : SingleDemand(c, p) \/ Accumulates(c, p)
              /\ \A p \in c.flows :
                   /\ SingleDemand(c, p) => /\ {} \in ev.guard \cup ev.bound
                                            /\ Examined("guard") /\ Examined("bound")
                   /\ Accumulates(c, p) => /\ {} \in ev.bound \cup ev.release
                                           /\ Examined("bound") /\ Examined("release")

\* The gates before the provider promise what the checks after it ask for: a
\* formal candidate of the usual dimension, whose inputs are named, is verified
\* when the contract says what its facts say, unless the facts themselves put it
\* at low amplification.
FormalIsVerifiable ==
    LET c == ev.candidate IN
      stage = "flows" /\ facts.disposition.status = "formal_eligible" =>
        LET x == (CHOOSE l \in facts.disposition.links : TRUE).entry
            faithful == [c EXCEPT !.answer = Faithful(c, x)]
        IN  c.named /\ c.usual /\ AmplificationFact(c) # "low_amplification"
              => Binds(faithful, x) /\ VerifyGrowth(faithful, x) = "verified"

\* Losing evidence never turns a verdict into another determinate one: the
\* weaker run repeats the verdict or ends without a determinate one.
FailClosed ==
    [][verdict' \in Determinate /\ runs > 1 => verdict' = last]_vars

\* What is lost is not held against a candidate: one that had a verdict is not rejected
\* when the evidence gets weaker.  The exception is a direct allocation with one row
\* that finds its size attacker-driven and one that finds it the server's: when the
\* first is gone, nothing tells it from an allocation that is harmless.
LossNeverRejects ==
    [][stage' = "rejected" /\ last # "none" =>
         /\ ev.candidate.kind = "direct_allocation"
         /\ ev.candidate.notes \ {"demand"} = {"server_sized"}]_vars

\* The handlers that the evidence about a candidate names.
Handlers(c) ==
    c.near \cup c.supplement \cup {c.from[p] : p \in c.flows \cup {r.path : r \in c.rows}}

\* A stage only fails for a reason that is in the evidence.  The growth stage:
\* several registrations of one handler without a common pattern, two flows with
\* one fact id, no excerpts, a contract that cites what is not there.  The stages
\* after it: a flow of another handler or of no demand, a gap that no demand can
\* stand for, or a pair with a path that is not proven.
FailuresExplained ==
    LET c == ev.candidate IN
      /\ stage = "failed" =>
           \/ c.pattern \in {"base", "other"} /\ (c.rows # {} \/ c.supplement # {})
           \/ Cardinality(c.twins \cap c.flows) > 1
           \/ ~c.sourced
           \/ \E p \in c.answer.drivers :
                p \notin c.flows \/ c.gaps[p] # {} \/ c.target[p] \notin c.roles
                  \/ (c.pattern = "distinct" /\ Handlers(c) # {c.from[p]})
           \/ c.answer.status = "dos_relevant" /\ {} \in {c.answer.drivers, c.answer.required}
      /\ stage = "refused" =>
           \/ \E p \in c.flows : c.target[p] \notin c.roles
           \/ c.pattern = "distinct" /\ Cardinality(Handlers(c)) > 1
           \/ c.flows = {} /\ c.roles \cap Roles = {}
           \/ \E p \in DOMAIN flow : flow[p].status # "verified"

\* The conclusion of a pair with a path that is not proven is static_unknown.
PartialSiblingIsUnknown ==
    /\ stage \in {"concluded", "refused"}
    /\ \E p \in DOMAIN flow : flow[p].status # "verified"
    => verdict = "static_unknown"

=============================================================================
