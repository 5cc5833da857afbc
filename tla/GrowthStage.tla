----------------------------- MODULE GrowthStage -----------------------------
(***************************************************************************)
(* How the growth stage makes up its mind about one Growth candidate, from *)
(* the raw rows to a retained, rejected or unresolved one: the candidate   *)
(* is grouped from its rows, linked to an Entry, gated for relevance, cut  *)
(* into a slice of facts, classified by the provider and verified against  *)
(* the facts (dosweb/production.py, growth/*.py).                          *)
(*                                                                         *)
(* A row of the association query names a flow path by the eight fields it *)
(* shares with a row of the flow query, so it stands for that path.  The   *)
(* notes of a candidate are the markers the code looks for in them, with   *)
(* what it compares names for: "field" is also a receiver that ends with   *)
(* the field, "demand" a demand named like an input of the Entry.          *)
(***************************************************************************)
EXTENDS Naturals, FiniteSets

CONSTANTS
    Paths,    \* the flow paths CodeQL may report for the candidate
    Entries   \* the entries of the program

\* CodeQL reports finitely many rows, and a program has finitely many entries.
ASSUME FiniteAssumption == IsFiniteSet(Paths) /\ IsFiniteSet(Entries)

Kinds == {"input_materialization", "direct_allocation", "container_growth",
          "async_work_growth"}
DirectKinds == {"input_materialization", "direct_allocation"}
\* global is treated like instance.
Scopes == {"request", "session", "instance", "unknown"}
Roles == {"size", "key", "value", "iteration_count", "submission_count"}
Markers == {"server_sized", "server_file", "fixed_key", "finite_keyspace", "origin",
            "read_all", "driver", "demand", "cardinality", "field",
            "loop_proven", "loop_gap", "single"}
FlowGaps == {"entry", "edges", "kind", "coverage", "confidence"}

ValueSpaces == {"stream", "unlimited", "large", "limited", "unknown"}
Retentions == {"request", "session", "process", "unknown"}
Classes == {"superlinear", "large_single_request", "concurrent_retention",
            "queue_instability", "high_cardinality_retention", "low_amplification"}

\* A Growth Contract: mechanism when it names a failure mechanism, pressure when
\* the number of requests is plausible, drivers the flow facts it cites, required
\* the semantic facts.
Answers ==
    [status : {"dos_relevant", "growth_not_dos_relevant", "unknown"},
     mechanism : BOOLEAN, pressure : BOOLEAN,
     space : ValueSpaces, retention : Retentions, class : Classes,
     drivers : SUBSET Paths, required : SUBSET {"space", "retention", "amplification"}]

Candidates ==
    [kind : Kinds, scope : Scopes, roles : SUBSET (Roles \cup {"unknown"}),
     notes : SUBSET Markers,
     complete : BOOLEAN,             \* every row of the growth query is
     testSite : BOOLEAN,
     usual : BOOLEAN,                \* the dimension is the usual one of the kind
     supplement : SUBSET Entries,    \* handlers the source scan finds the write in
     \* how the entries relate: handlers of their own, or routes of one handler
     \* whose registration patterns are the same, one the base, or just different
     pattern : {"distinct", "same", "base", "other"},
     near : SUBSET Entries,          \* entries of the same file, before the site
     rows : SUBSET [path : Paths, claimed : BOOLEAN],
     routed : BOOLEAN,               \* the rows carry a modelled route
     flows : SUBSET Paths,           \* rows of the flow query
     from : [Paths -> Entries],
     target : [Paths -> Roles],
     gaps : [Paths -> SUBSET FlowGaps],
     twins : SUBSET Paths,           \* differ in their phases only
     named : BOOLEAN,                \* the inputs are unique and of a known kind
     sourced : BOOLEAN,              \* the checkout has the excerpts
     answer : Answers]               \* what the provider says, and the cache keeps

-----------------------------------------------------------------------------
(* The candidate and its links.                                            *)

\* normalize_growth_rows: a partial row makes its group partial, and all rows of
\* the source scan are.
Complete(c) == c.complete /\ c.supplement = {}

SameHandler(c, x, y) == x = y \/ c.pattern # "distinct"

\* _formal_flow_witness
Witness(c, p) ==
    /\ p \in c.flows
    /\ c.target[p] \in c.roles
    /\ c.gaps[p] \cap {"kind", "coverage", "confidence"} = {}

\* _formal_flow_row_matches
RowMatches(c, p) ==
    /\ p \in c.flows
    /\ c.target[p] \in c.roles
    /\ "kind" \notin c.gaps[p]

\* Mutant: the claim of the association query is enough.
LinkClaimed(c, x, r) ==
    [entry |-> x, status |-> IF r.claimed THEN "complete" ELSE "partial",
     why |-> (IF r.claimed THEN {"claimed"} ELSE {"unclaimed"})
             \cup (IF RowMatches(c, r.path) THEN {} ELSE {"row_missing"})]

\* The link of Entry x that row r makes.  Its identity includes its reasons: the
\* note of the row, and that the flow query has no row for it.
Link(c, x, r) ==
    [entry |-> x,
     status |-> IF r.claimed /\ Witness(c, r.path) THEN "complete" ELSE "partial",
     why |-> (IF r.claimed THEN {"claimed"} ELSE {"unclaimed"})
             \cup (IF RowMatches(c, r.path) THEN {} ELSE {"row_missing"})]

\* Every row of the association query links the entries of the handler it names.
QueryLinks(c) ==
    UNION {{Link(c, x, r) :
              x \in {x \in Entries : IF c.routed THEN x = c.from[r.path]
                                     ELSE SameHandler(c, x, c.from[r.path])}} : r \in c.rows}

\* source_backed_same_handler_growth adds rows that are never complete.
ScanLinks(c) ==
    {[entry |-> x, status |-> "partial", why |-> {"scan"}] :
       x \in {x \in Entries : \E y \in c.supplement : SameHandler(c, x, y)}}

Links(c) == QueryLinks(c) \cup ScanLinks(c)

\* The Entry whose registration is the base of its handler's, if one is.
Base == CHOOSE x \in Entries : TRUE

OneLink(x, s) ==
    [links |-> {[entry |-> x, status |-> s, why |-> {"canonical"}]}, status |-> s]
NoLink(s) == [links |-> {}, status |-> s]

\* Without rows the order in the source links the nearest handler, never completely.
SourceOrder(c) ==
    IF c.near = {} THEN NoLink("missing")
    ELSE IF Cardinality(c.near) = 1 \/ c.pattern \in {"distinct", "same"}
         THEN OneLink(CHOOSE x \in c.near : TRUE, "partial")
    ELSE NoLink("ambiguous")

\* _canonical_entry: registrations of one handler are one when they have one pattern.
Agree(c, linked) == Cardinality(linked) = 1 \/ c.pattern = "same"

\* The canonical link of routes of one handler.  A base that is linked once stands
\* for all; other registrations must agree, or they fail the stage.
Canonicalized(c, links) ==
    LET linked == {l.entry : l \in links}
        status == (CHOOSE l \in links : TRUE).status
        base == {l \in links : c.pattern = "base" /\ l.entry = Base}
    IN  IF Cardinality(base) = 1 THEN OneLink(Base, status)
        ELSE IF Agree(c, linked) THEN OneLink(CHOOSE x \in linked : TRUE, status)
        ELSE NoLink("failed")

\* Mutant: routes of one handler are one link whatever their links' status.
AssociationMerged(c) ==
    LET links == Links(c)
        oneSite == \A l, m \in links : SameHandler(c, l.entry, m.entry)
    IN  CASE links = {} -> SourceOrder(c)
          [] Cardinality(links) = 1 ->
               [links |-> links, status |-> (CHOOSE l \in links : TRUE).status]
          [] Cardinality(links) > 1 /\ oneSite -> Canonicalized(c, links)
          [] OTHER -> [links |-> links, status |-> "ambiguous"]

\* _candidate_association: routes of one handler are one link when their links
\* have one status.
Association(c) ==
    LET links == Links(c)
        oneSite == \A l, m \in links : SameHandler(c, l.entry, m.entry)
        oneStatus == \A l, m \in links : l.status = m.status
    IN  CASE links = {} -> SourceOrder(c)
          [] Cardinality(links) = 1 ->
               [links |-> links, status |-> (CHOOSE l \in links : TRUE).status]
          [] Cardinality(links) > 1 /\ oneSite /\ oneStatus -> Canonicalized(c, links)
          [] OTHER -> [links |-> links, status |-> "ambiguous"]

-----------------------------------------------------------------------------
(* Relevance and disposition.                                              *)

\* Notes that reject a complete candidate, whatever it is linked to.
Harmless(c) ==
    \/ c.kind = "direct_allocation" /\ c.notes \ {"demand"} = {"server_sized"}
    \/ c.notes \cap {"server_file", "fixed_key", "finite_keyspace"} # {}

\* What the notes promise: growth that complete evidence makes eligible, growth
\* that stays partial, or nothing.
Promise(c) ==
    CASE c.kind = "input_materialization" ->
           IF "origin" \in c.notes THEN "full"
           ELSE IF "read_all" \in c.notes THEN "partial" ELSE "none"
      [] c.kind = "direct_allocation" ->
           IF c.notes \cap {"driver", "demand"} # {} THEN "full" ELSE "none"
      [] c.kind = "container_growth" /\ c.scope = "request" ->
           IF "cardinality" \in c.notes THEN "full" ELSE "none"
      [] c.kind = "container_growth" /\ c.scope = "instance" /\ "field" \in c.notes ->
           IF c.notes \cap {"driver", "demand"} # {} THEN "full" ELSE "partial"
      [] c.kind = "async_work_growth" ->
           IF "loop_proven" \in c.notes THEN "full" ELSE "partial"
      [] OTHER -> "none"

\* Mutant: a candidate whose notes promise nothing is rejected.
RelevanceRejectsSilence(c, a) ==
    IF c.testSite THEN "rejected"
    ELSE IF Harmless(c) THEN IF Complete(c) THEN "rejected" ELSE "unresolved"
    ELSE IF Complete(c) /\ Promise(c) = "none" THEN "rejected"
    ELSE IF Cardinality(a.links) # 1 \/ Promise(c) = "none" THEN "unresolved"
    ELSE IF Promise(c) = "full" /\ Complete(c) /\ a.status = "complete"
    THEN "contract_eligible"
    ELSE "dos_relevant_partial"

\* evaluate_candidate_relevance
Relevance(c, a) ==
    IF c.testSite THEN "rejected"
    ELSE IF Harmless(c) THEN IF Complete(c) THEN "rejected" ELSE "unresolved"
    ELSE IF Cardinality(a.links) # 1 \/ Promise(c) = "none" THEN "unresolved"
    ELSE IF Promise(c) = "full" /\ Complete(c) /\ a.status = "complete"
    THEN "contract_eligible"
    ELSE "dos_relevant_partial"

\* The status the executor gives a candidate before it asks about its Entry.
Maturation(c, a) ==
    LET relevance == Relevance(c, a) IN
      IF relevance = "rejected" THEN "rejected"
      ELSE IF relevance = "unresolved" \/ a.status \notin {"complete", "partial"}
      THEN "inventory_unresolved"
      ELSE IF relevance = "contract_eligible" /\ Complete(c) /\ a.status = "complete"
      THEN "formal_eligible"
      ELSE "gap_eligible"

\* Mutant: a gap keeps the local status of its candidate.
MatureKeepsLocal(c, a, status) ==
    [status |-> status, association |-> a.status, links |-> a.links,
     local |-> IF status = "rejected" THEN "rejected"
               ELSE IF Complete(c) THEN "complete" ELSE "partial"]

\* _mature_disposition; a rejected candidate has its negative proof.
Mature(c, a, status) ==
    [status |-> status, association |-> a.status, links |-> a.links,
     local |-> IF status = "rejected" THEN "rejected"
               ELSE IF /\ status = "gap_eligible"
                       /\ Relevance(c, a) = "dos_relevant_partial"
               THEN "partial"
               ELSE IF Complete(c) THEN "complete" ELSE "partial"]

\* What CandidateDisposition accepts.
WellFormed(d) ==
    /\ d.status \in {"formal_eligible", "gap_eligible"} => Cardinality(d.links) = 1
    /\ d.status = "formal_eligible" => d.local = "complete" /\ d.association = "complete"
    /\ d.status = "gap_eligible" =>
         /\ d.local \in {"complete", "partial"}
         /\ d.association \in {"complete", "partial"}
         /\ ~(d.local = "complete" /\ d.association = "complete")

\* What _canonical_flow_entry_ids accepts of a disposition and its links.
Reconciled(d) ==
    CASE d.association = "missing" -> d.links = {}
      [] d.association = "ambiguous" -> Cardinality(d.links) # 1
      [] OTHER -> /\ Cardinality(d.links) = 1
                  /\ \A l \in d.links : l.status = d.association

-----------------------------------------------------------------------------
(* The slice, the contract and its verification.                           *)

\* The rows adapt_growth_static_evidence makes flow facts of, for Entry x.
Matched(c, x) == {p \in Paths : Witness(c, p) /\ SameHandler(c, c.from[p], x)}

\* BoundedSlicePayload refuses a fact it has already, and flows that differ in
\* their phases only have one fact id.
FactsDistinct(c, x) == Cardinality(c.twins \cap Matched(c, x)) < 2

\* _slice_for
SliceBuilt(c, x) == c.sourced /\ FactsDistinct(c, x)

\* The semantic facts of the slice.
ValueSpaceFact(c) ==
    CASE c.kind = "input_materialization" -> IF c.usual THEN "stream" ELSE "large"
      [] c.kind = "container_growth" /\ "key" \in c.roles -> "unlimited"
      [] c.kind = "async_work_growth" /\ c.roles \cap {"iteration_count", "submission_count"} # {} ->
           "unlimited"
      [] OTHER -> "large"

RetentionFact(c) == IF c.scope = "instance" THEN "process" ELSE c.scope

AmplificationFact(c) ==
    CASE c.kind \in DirectKinds -> "large_single_request"
      [] c.kind = "container_growth" ->
           IF "key" \in c.roles THEN "high_cardinality_retention"
           ELSE IF c.scope # "request" THEN "concurrent_retention" ELSE "low_amplification"
      [] OTHER -> IF c.roles \cap {"iteration_count", "submission_count"} # {}
                  THEN "queue_instability" ELSE "low_amplification"

\* ProviderGrowthContract: relevance needs evidence.
SchemaAccepts(k) == k.status = "dos_relevant" => k.drivers # {} /\ k.required # {}

\* bind_provider_growth_contract: the contract cites facts of the slice.
Binds(c, x) == SchemaAccepts(c.answer) /\ c.answer.drivers \subseteq Matched(c, x)

\* What the contract says is in the facts it cites.
Attested(c, x) ==
    LET k == c.answer IN
      /\ c.named
      /\ "space" \in k.required /\ k.space = ValueSpaceFact(c) /\ Matched(c, x) # {}
      /\ "retention" \in k.required /\ k.retention = RetentionFact(c)
      /\ "amplification" \in k.required /\ k.class = AmplificationFact(c)

\* Mutant: the contract need not cite the facts.
VerifyGrowthOnTrust(c, x) ==
    LET k == c.answer IN
      IF ~Complete(c) THEN "unresolved"
      ELSE IF k.status = "growth_not_dos_relevant" THEN "rejected"
      ELSE IF /\ k.status = "dos_relevant" /\ c.usual /\ k.mechanism /\ k.pressure
              /\ k.space \in {"stream", "unlimited", "large"}
              /\ k.class # "low_amplification"
      THEN "verified"
      ELSE "unresolved"

\* verify_growth_contract
VerifyGrowth(c, x) ==
    LET k == c.answer IN
      IF ~Complete(c) THEN "unresolved"
      ELSE IF k.status = "growth_not_dos_relevant" THEN "rejected"
      ELSE IF /\ k.status = "dos_relevant" /\ c.usual /\ k.mechanism /\ k.pressure
              /\ k.space \in {"stream", "unlimited", "large"}
              /\ k.class # "low_amplification"
              /\ Attested(c, x)
      THEN "verified"
      ELSE "unresolved"

\* The contract that says what the facts say.
Faithful(c, x) ==
    [status |-> "dos_relevant", mechanism |-> TRUE, pressure |-> TRUE,
     space |-> ValueSpaceFact(c), retention |-> RetentionFact(c),
     class |-> AmplificationFact(c), drivers |-> Matched(c, x),
     required |-> {"space", "retention", "amplification"}]

-----------------------------------------------------------------------------
(* What the flow stage takes from the growth stage.                        *)

\* The path that stands for a partial association without a flow row.
GapPath == "candidate_relevant_partial"

Target(c, p) == IF p = GapPath THEN CHOOSE r \in c.roles \cap Roles : TRUE ELSE c.target[p]

\* normalize_flow_rows lowers the confidence of an uncovered or unmodelled row.
Gaps(c, p) ==
    IF p = GapPath THEN {"kind", "coverage", "confidence"}
    ELSE IF c.gaps[p] \cap {"kind", "coverage"} # {} THEN c.gaps[p] \cup {"confidence"}
    ELSE c.gaps[p]

\* The rows normalize_flow_rows accepts: of the canonical handler x, for a demand.
RowsAccepted(c, x) ==
    \A p \in c.flows : SameHandler(c, c.from[p], x) /\ c.target[p] \in c.roles

\* _candidate_relevant_partial_flow_rows
Supplemented(c, d) ==
    /\ c.flows = {}
    /\ d.status = "gap_eligible"
    /\ d.association = "partial"

FlowPaths(c, d) == IF Supplemented(c, d) THEN {GapPath} ELSE c.flows

=============================================================================
