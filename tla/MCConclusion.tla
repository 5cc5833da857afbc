---------------------------- MODULE MCConclusion ----------------------------
(***************************************************************************)
(* Instances of Conclusion.                                                *)
(***************************************************************************)
EXTENDS Conclusion

CONSTANTS p1, p2, e1, e2

TwoPaths == {p1, p2}
TwoEntries == {e1, e2}

NoAnswer ==
    [status |-> "unknown", mechanism |-> FALSE, pressure |-> FALSE, space |-> "unknown",
     retention |-> "unknown", class |-> "low_amplification", drivers |-> {}, required |-> {}]

\* The queries find everything there is to find about a candidate.
Found ==
    [kind |-> "direct_allocation", scope |-> "instance",
     roles |-> {"size", "key", "iteration_count"},
     notes |-> {"origin", "driver", "cardinality", "field"}, complete |-> TRUE,
     testSite |-> FALSE, usual |-> TRUE, supplement |-> {}, pattern |-> "distinct",
     near |-> {e1}, rows |-> {[path |-> p1, claimed |-> TRUE]}, routed |-> FALSE,
     flows |-> Paths, from |-> [p \in Paths |-> e1], target |-> [p \in Paths |-> "size"],
     gaps |-> [p \in Paths |-> {}], twins |-> {}, named |-> TRUE, sourced |-> TRUE,
     answer |-> NoAnswer]

\* All the evidence is there, and nothing holds the growth of c back.
Strong(c) ==
    [candidate |-> [c EXCEPT !.answer = Faithful(c, e1)],
     trigger |-> TRUE, contexts |-> {"unauthenticated"}, authGap |-> FALSE,
     gates |-> {"default_enabled"}, patterns |-> {"own"},
     guard |-> {}, bound |-> {}, release |-> {}, domain |-> Families]

\* Every shape of growth with every mixture of a few lifecycle candidates.
LifecycleInputs ==
    {[Strong([Found EXCEPT !.kind = k, !.scope = s, !.notes = @ \cup l,
                           !.target = [p \in Paths |-> t]])
        EXCEPT !.guard = g, !.bound = b, !.release = r] :
        k \in {"direct_allocation", "container_growth"}, s \in {"request", "instance"},
        l \in {{"loop_proven"}, {"single"}, {}}, t \in {"size", "key"},
        g \in {{}, {{}}, {{"mismatch"}}},
        b \in {{}, {{}}, {{"scope"}}, {{}, {"config"}}, {{"scope"}, {"config"}}},
        r \in {{}, {{}}, {{"mismatch"}}, {{}, {"async"}}, {{"mismatch"}, {"async"}}}}

\* Every mixture of security facts and deployment gates, on a growth that would
\* otherwise be found vulnerable.
ExposureInputs ==
    {[Strong(Found) EXCEPT !.contexts = c, !.gates = g, !.authGap = a, !.patterns = p] :
        c \in SUBSET Contexts, g \in SUBSET DeploymentGates, a \in BOOLEAN,
        p \in {{"own"}, {"sibling"}}}

\* Two paths with demands of their own, proven or not.
PathInputs ==
    {[Strong([Found EXCEPT !.kind = k, !.target = t, !.gaps = g])
        EXCEPT !.bound = b, !.release = r, !.candidate.answer.status = v] :
        k \in {"direct_allocation", "container_growth"}, t \in [Paths -> {"size", "key"}],
        g \in [Paths -> {{}, {"kind"}, {"edges"}}],
        b \in {{}, {{}}, {{"dimension"}}}, r \in {{}, {{}}},
        v \in {"dos_relevant", "growth_not_dos_relevant"}}

\* Every kind and scope with a few roles and every pair of notes.
RelevanceInputs ==
    {Strong([Found EXCEPT !.kind = k, !.scope = s, !.roles = r, !.notes = {m, n},
                          !.target = [p \in Paths |-> CHOOSE t \in r : TRUE]]) :
        k \in Kinds, s \in Scopes, r \in {{"size"}, {"key"}, {"submission_count"}},
        m \in Markers, n \in {"driver", "field", "loop_proven", "origin", "cardinality"}}

\* Rows of the three queries that agree or do not, for two entries that are
\* handlers or routes of one.
AssociationInputs ==
    {Strong([Found EXCEPT !.pattern = k, !.rows = r, !.flows = f, !.from = o, !.near = n,
                          !.routed = m, !.supplement = s]) :
        k \in {"distinct", "same", "base", "other"},
        r \in SUBSET [path : Paths, claimed : BOOLEAN], f \in SUBSET Paths,
        o \in {[p \in Paths |-> e1], [p \in Paths |-> IF p = p1 THEN e1 ELSE e2]},
        n \in {{}, Entries}, m \in BOOLEAN, s \in {{}, {e2}}}

\* Flows with one fact id, demands without a role, excerpts that are missing.
SliceInputs ==
    {Strong([Found EXCEPT !.twins = w, !.roles = d, !.flows = f, !.near = n, !.rows = r,
                          !.sourced = e]) :
        w \in {{}, Paths}, d \in {{"size"}, {"unknown"}}, f \in SUBSET Paths,
        n \in {{}, {e1}}, r \in {{}, {[path |-> p1, claimed |-> TRUE]}}, e \in BOOLEAN}

\* Test code, unusual dimensions, and contracts of every shape.
AnswerInputs ==
    {[Strong(Found) EXCEPT !.candidate.testSite = t, !.candidate.usual = u,
                           !.candidate.answer = [@ EXCEPT !.status = s, !.space = v,
                                                          !.class = c, !.drivers = d,
                                                          !.required = r]] :
        t \in BOOLEAN, u \in BOOLEAN,
        s \in {"dos_relevant", "growth_not_dos_relevant", "unknown"},
        v \in {"large", "limited"}, c \in {"large_single_request", "low_amplification"},
        d \in SUBSET Paths, r \in {{}, {"space", "retention", "amplification"}}}

AllInputs ==
    {LifecycleInputs, ExposureInputs, PathInputs, RelevanceInputs, AssociationInputs,
     SliceInputs, AnswerInputs}
OnlyPathInputs == {PathInputs}

=============================================================================
