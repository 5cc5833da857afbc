-------------------------- MODULE ConclusionProofs --------------------------
(***************************************************************************)
(* For any paths and entries, and for any evidence there may be about a    *)
(* candidate: a determinate verdict is proven, what the gates before the   *)
(* provider let through can be verified, a stage only fails for a reason   *)
(* that the evidence shows, and losing evidence never turns a verdict into *)
(* another determinate one and, but for one shape, into a rejection.       *)
(***************************************************************************)
EXTENDS Conclusion, TLAPS, FiniteSetTheorems

\* The Entry of the link that stands for the candidate.
Canonical(a) == (CHOOSE l \in a.links : TRUE).entry

\* The growth stage hands the decisions f on for the evidence e.
Grown(e, f) ==
    LET c == e.candidate
        a == Association(c)
    IN  /\ Maturation(c, a) \in {"formal_eligible", "gap_eligible"}
        /\ f.reach # "not_entry_reachable"
        /\ \E claim \in Claims(e) : f.reach = Reachability(e, claim)
        /\ f.repeat = Repeatability(e, a)
        /\ f.amplification = Amplification(c)
        /\ f.growth = VerifyGrowth(c, Canonical(a))
        /\ f.disposition = Mature(c, a, Maturation(c, a))
        /\ SliceBuilt(c, Canonical(a))
        /\ Binds(c, Canonical(a))

\* Each stage has its decisions from the stages before it.
Growing == stage \in {"flows", "lifecycle", "conclude"} => Grown(ev, facts)
Flowing ==
    stage \in {"lifecycle", "conclude"} =>
      /\ RowsAccepted(ev.candidate, Canonical(facts.disposition))
      /\ flow = [p \in FlowPaths(ev.candidate, facts.disposition) |->
                   VerifyFlow(ev.candidate, facts.growth, p)]
Living ==
    stage = "conclude" =>
      /\ life = [p \in DOMAIN flow |-> Decisions(ev, flow[p], p)]
      /\ coverage = CompleteFamilies(ev)
Concluding == verdict \in Determinate => stage = "concluded"

Inv ==
    /\ ev \in Evidence
    /\ Growing /\ Flowing /\ Living /\ Concluding
    /\ DeterminateIsProven /\ FailuresExplained

-----------------------------------------------------------------------------
(* Finite sets.                                                            *)

\* A finite set with one member is its member.
LEMMA One ==
    ASSUME NEW S, IsFiniteSet(S)
    PROVE  /\ Cardinality(S) \in Nat
           /\ Cardinality(S) = 0 <=> S = {}
           /\ Cardinality(S) = 1 <=> \E x \in S : S = {x}
  BY FS_CardinalityType, FS_EmptySet, FS_Singleton

\* A small set of constants is finite.
LEMMA Small ==
    \A x, y, z, w : /\ IsFiniteSet({x, y}) /\ IsFiniteSet({x, y, z})
                   /\ IsFiniteSet({x, y, z, w})
  <1> SUFFICES ASSUME NEW x, NEW y, NEW z, NEW w
               PROVE  /\ IsFiniteSet({x, y}) /\ IsFiniteSet({x, y, z})
                      /\ IsFiniteSet({x, y, z, w})
    OBVIOUS
  <1>1. IsFiniteSet({x})
    BY FS_Singleton
  <1>2. IsFiniteSet({x} \cup {y})
    BY <1>1, FS_AddElement
  <1>3. IsFiniteSet(({x} \cup {y}) \cup {z})
    BY <1>2, FS_AddElement
  <1>4. IsFiniteSet((({x} \cup {y}) \cup {z}) \cup {w})
    BY <1>3, FS_AddElement
  <1>5. {x} \cup {y} = {x, y} /\ ({x} \cup {y}) \cup {z} = {x, y, z}
    OBVIOUS
  <1>6. (({x} \cup {y}) \cup {z}) \cup {w} = {x, y, z, w}
    OBVIOUS
  <1> QED BY <1>2, <1>3, <1>4, <1>5, <1>6

\* The types of what a candidate is made of.
LEMMA CandidateFields ==
    ASSUME NEW c \in Candidates
    PROVE  /\ c.kind \in Kinds /\ c.scope \in Scopes
           /\ c.roles \subseteq Roles \cup {"unknown"} /\ c.notes \subseteq Markers
           /\ c.complete \in BOOLEAN /\ c.testSite \in BOOLEAN /\ c.usual \in BOOLEAN
           /\ c.supplement \subseteq Entries /\ c.near \subseteq Entries
           /\ c.pattern \in {"distinct", "same", "base", "other"}
           /\ c.rows \subseteq [path : Paths, claimed : BOOLEAN]
           /\ c.routed \in BOOLEAN /\ c.flows \subseteq Paths
           /\ c.from \in [Paths -> Entries] /\ c.target \in [Paths -> Roles]
           /\ c.gaps \in [Paths -> SUBSET FlowGaps] /\ c.twins \subseteq Paths
           /\ c.named \in BOOLEAN /\ c.sourced \in BOOLEAN
           /\ c.answer \in Answers
  BY DEF Candidates

\* The links a candidate can have, and their number, are limited by the entries.
LinkTypes ==
    [entry : Entries, status : {"complete", "partial"},
     why : SUBSET {"claimed", "unclaimed", "row_missing", "scan"}]

LEMMA LinkTypesFinite == IsFiniteSet(LinkTypes)
  <1> DEFINE Whys == SUBSET {"claimed", "unclaimed", "row_missing", "scan"}
             D == (Entries \X {"complete", "partial"}) \X Whys
             f == [t \in D |-> [entry |-> t[1][1], status |-> t[1][2], why |-> t[2]]]
  <1>1. IsFiniteSet(Whys)
    BY Small, FS_SUBSET
  <1>2. IsFiniteSet(D)
    BY <1>1, Small, FiniteAssumption, FS_Product
  <1>3. f \in Surjection(D, LinkTypes)
    <2>1. f \in [D -> LinkTypes]
      BY DEF LinkTypes
    <2>2. ASSUME NEW l \in LinkTypes PROVE \E t \in D : f[t] = l
      <3> DEFINE t == <<<<l.entry, l.status>>, l.why>>
      <3>1. t \in D
        BY DEF LinkTypes
      <3>2. l = [entry |-> l.entry, status |-> l.status, why |-> l.why]
        BY DEF LinkTypes
      <3>3. f[t] = l
        BY <3>1, <3>2
      <3> QED BY <3>1, <3>3
    <2> QED BY <2>1, <2>2 DEF Surjection
  <1> QED BY <1>2, <1>3, FS_Surjection

-----------------------------------------------------------------------------
(* Links and association.                                                  *)

\* The links of the queries and of the source scan.
LEMMA LinksTyped ==
    ASSUME NEW c \in Candidates
    PROVE  Links(c) \subseteq LinkTypes /\ IsFiniteSet(Links(c))
  <1>1. ASSUME NEW l \in QueryLinks(c) PROVE l \in LinkTypes
    <2>1. PICK r \in c.rows, x \in Entries : l = Link(c, x, r)
      BY <1>1 DEF QueryLinks
    <2> QED BY <2>1 DEF Link, LinkTypes
  <1>2. ScanLinks(c) \subseteq LinkTypes
    BY DEF ScanLinks, LinkTypes
  <1>3. Links(c) \subseteq LinkTypes
    BY <1>1, <1>2 DEF Links
  <1> QED BY <1>3, LinkTypesFinite, FS_Subset

\* Every row of the association query makes a link of the handler it names.
LEMMA RowLinks ==
    ASSUME NEW c \in Candidates, NEW r \in c.rows
    PROVE  /\ r.path \in Paths /\ c.from[r.path] \in Entries
           /\ Link(c, c.from[r.path], r) \in Links(c)
  <1>1. r.path \in Paths /\ c.from[r.path] \in Entries
    BY CandidateFields
  <1>2. Link(c, c.from[r.path], r) \in QueryLinks(c)
    BY <1>1 DEF QueryLinks, SameHandler
  <1> QED BY <1>1, <1>2 DEF Links

\* Handlers of their own are only linked when the evidence names them.
LEMMA LinkedHandlers ==
    ASSUME NEW c \in Candidates, c.pattern = "distinct", NEW l \in Links(c)
    PROVE  l.entry \in Handlers(c)
  <1>1. CASE l \in QueryLinks(c)
    <2>1. PICK r \in c.rows, x \in Entries :
            /\ l = Link(c, x, r)
            /\ IF c.routed THEN x = c.from[r.path] ELSE SameHandler(c, x, c.from[r.path])
      BY <1>1 DEF QueryLinks
    <2>2. l.entry = c.from[r.path]
      BY <2>1 DEF Link, SameHandler
    <2> QED BY <2>2 DEF Handlers
  <1>2. CASE l \in ScanLinks(c)
    BY <1>2 DEF ScanLinks, SameHandler, Handlers
  <1> QED BY <1>1, <1>2 DEF Links

\* Who has a link was linked by a row or by the source scan.
LEMMA NoLinks ==
    ASSUME NEW c \in Candidates, c.rows = {}, c.supplement = {}
    PROVE  Links(c) = {}
  BY DEF Links, QueryLinks, ScanLinks

\* What the links of one handler are merged to.
LEMMA Merged ==
    ASSUME NEW c \in Candidates, NEW links \in SUBSET LinkTypes, IsFiniteSet(links),
           links # {}, \A l, m \in links : SameHandler(c, l.entry, m.entry),
           NEW a, a = Canonicalized(c, links)
    PROVE  \/ /\ a.status = "failed" /\ a.links = {}
              /\ c.pattern \in {"base", "other"}
           \/ \E l, m \in links : \E w :
                /\ a.links = {[entry |-> m.entry, status |-> a.status, why |-> w]}
                /\ a.status = l.status
  <1> DEFINE linked == {l.entry : l \in links}
             first == CHOOSE l \in links : TRUE
             base == {l \in links : c.pattern = "base" /\ l.entry = Base}
  <1>1. first \in links
    OBVIOUS
  <1>2. a = IF Cardinality(base) = 1 THEN OneLink(Base, first.status)
            ELSE IF Agree(c, linked) THEN OneLink(CHOOSE x \in linked : TRUE, first.status)
            ELSE NoLink("failed")
    BY DEF Canonicalized
  <1>3. CASE Cardinality(base) = 1
    <2>1. IsFiniteSet(base)
      BY FS_Subset
    <2>2. PICK m \in links : m.entry = Base
      BY <1>3, <2>1, One
    <2>3. a = [links |-> {[entry |-> Base, status |-> first.status, why |-> {"canonical"}]},
               status |-> first.status]
      BY <1>2, <1>3 DEF OneLink
    <2>4. /\ a.links = {[entry |-> m.entry, status |-> a.status, why |-> {"canonical"}]}
          /\ a.status = first.status
      BY <2>2, <2>3
    <2> QED BY <1>1, <2>2, <2>4
  <1>4. CASE Cardinality(base) # 1 /\ Agree(c, linked)
    <2>1. a = [links |-> {[entry |-> CHOOSE x \in linked : TRUE, status |-> first.status,
                           why |-> {"canonical"}]},
               status |-> first.status]
      BY <1>2, <1>4 DEF OneLink
    <2>2. PICK m \in links : m.entry = CHOOSE x \in linked : TRUE
      BY <1>1
    <2>3. /\ a.links = {[entry |-> m.entry, status |-> a.status, why |-> {"canonical"}]}
          /\ a.status = first.status
      BY <2>1, <2>2
    <2> QED BY <1>1, <2>2, <2>3
  <1>5. CASE Cardinality(base) # 1 /\ ~Agree(c, linked)
    <2>1. a = [links |-> {}, status |-> "failed"]
      BY <1>2, <1>5 DEF NoLink
    <2>2. c.pattern # "same" /\ Cardinality(linked) # 1
      BY <1>5 DEF Agree
    <2>3. ASSUME c.pattern = "distinct" PROVE FALSE
      <3>1. linked = {first.entry}
        BY <1>1, <2>3 DEF SameHandler
      <3> QED BY <3>1, <2>2, FS_Singleton
    <2>4. c.pattern \in {"base", "other"}
      BY <2>2, <2>3, CandidateFields
    <2> QED BY <2>1, <2>4
  <1> QED BY <1>3, <1>4, <1>5

\* The four ways a candidate is associated.
LEMMA FourWays ==
    ASSUME NEW c \in Candidates, NEW a, a = Association(c)
    PROVE  \/ Links(c) = {} /\ a = SourceOrder(c)
           \/ \E l \in Links(c) : /\ Links(c) = {l}
                                  /\ a.links = {l} /\ a.status = l.status
           \/ /\ Links(c) # {} /\ a = Canonicalized(c, Links(c))
              /\ \A l, m \in Links(c) : SameHandler(c, l.entry, m.entry)
              /\ \A l, m \in Links(c) : l.status = m.status
           \/ a.status = "ambiguous"
  <1> DEFINE links == Links(c)
             oneSite == \A l, m \in links : SameHandler(c, l.entry, m.entry)
             oneStatus == \A l, m \in links : l.status = m.status
  <1>0. /\ Cardinality(links) \in Nat
        /\ Cardinality(links) = 0 <=> links = {}
        /\ Cardinality(links) = 1 <=> \E l \in links : links = {l}
    BY LinksTyped, One
  <1>1. CASE links = {}
    <2>1. Cardinality(links) = 0
      BY <1>0, <1>1
    <2>2. a = SourceOrder(c)
      BY <1>1, <2>1 DEF Association
    <2> QED BY <1>1, <2>2
  <1>2. CASE links # {} /\ Cardinality(links) = 1
    <2>1. a = [links |-> links, status |-> (CHOOSE l \in links : TRUE).status]
      BY <1>2 DEF Association
    <2>2. PICK l \in links : links = {l}
      BY <1>0, <1>2
    <2>3. (CHOOSE m \in links : TRUE) = l
      BY <2>2
    <2> QED BY <2>1, <2>2, <2>3
  <1>3. CASE links # {} /\ Cardinality(links) # 1 /\ oneSite /\ oneStatus
    <2>1. Cardinality(links) > 1
      BY <1>0, <1>3
    <2>2. a = Canonicalized(c, links)
      BY <1>3, <2>1 DEF Association
    <2> QED BY <1>3, <2>2
  <1>4. CASE links # {} /\ Cardinality(links) # 1 /\ ~(oneSite /\ oneStatus)
    <2>1. a = [links |-> links, status |-> "ambiguous"]
      BY <1>4 DEF Association
    <2> QED BY <2>1
  <1> QED BY <1>1, <1>2, <1>3, <1>4

\* What the order in the source makes of a candidate without links.
LEMMA InOrder ==
    ASSUME NEW c \in Candidates, NEW a, a = SourceOrder(c)
    PROVE  \/ a.status \in {"missing", "ambiguous"}
           \/ /\ a.status = "partial"
              /\ \E x \in c.near : \E w :
                   a.links = {[entry |-> x, status |-> "partial", why |-> w]}
  <1>1. CASE c.near = {}
    BY <1>1 DEF SourceOrder, NoLink
  <1>2. CASE c.near # {} /\ (Cardinality(c.near) = 1 \/ c.pattern \in {"distinct", "same"})
    <2>1. PICK x \in c.near : x = CHOOSE y \in c.near : TRUE
      BY <1>2
    <2>2. a = [links |-> {[entry |-> x, status |-> "partial", why |-> {"canonical"}]},
               status |-> "partial"]
      BY <1>2, <2>1 DEF SourceOrder, OneLink
    <2>3. /\ a.status = "partial"
          /\ a.links = {[entry |-> x, status |-> "partial", why |-> {"canonical"}]}
      BY <2>2
    <2> QED BY <2>3
  <1>3. CASE c.near # {} /\ ~(Cardinality(c.near) = 1 \/ c.pattern \in {"distinct", "same"})
    BY <1>3 DEF SourceOrder, NoLink
  <1> QED BY <1>1, <1>2, <1>3

\* The link that stands for the candidate, when there is one.
LEMMA OnlyLink ==
    ASSUME NEW a, NEW l, a.links = {l}
    PROVE  Canonical(a) = l.entry
  <1>1. (CHOOSE m \in {l} : TRUE) = l
    OBVIOUS
  <1> QED BY <1>1 DEF Canonical

\* A complete or partial association is one link, of its status, to a handler that
\* the evidence names (_candidate_association).
LEMMA OneCanonical ==
    ASSUME NEW c \in Candidates, NEW a, a = Association(c),
           a.status \in {"complete", "partial"}
    PROVE  \E w : /\ a.links = {[entry |-> Canonical(a), status |-> a.status, why |-> w]}
                  /\ Canonical(a) \in Entries
                  /\ c.pattern = "distinct" => Canonical(a) \in Handlers(c)
  <1>0. SUFFICES \E x \in Entries : \E w :
                   /\ a.links = {[entry |-> x, status |-> a.status, why |-> w]}
                   /\ c.pattern = "distinct" => x \in Handlers(c)
    <2>1. PICK x \in Entries : \E w :
            /\ a.links = {[entry |-> x, status |-> a.status, why |-> w]}
            /\ c.pattern = "distinct" => x \in Handlers(c)
      BY <1>0
    <2>0. PICK w :
            /\ a.links = {[entry |-> x, status |-> a.status, why |-> w]}
            /\ c.pattern = "distinct" => x \in Handlers(c)
      BY <2>1
    <2> DEFINE l == [entry |-> x, status |-> a.status, why |-> w]
    <2>2. a.links = {l} /\ l.entry = x
      BY <2>0
    <2> HIDE DEF l
    <2>3. Canonical(a) = x
      BY <2>2, OnlyLink
    <2> QED BY <2>0, <2>3
  <1>1. CASE Links(c) = {} /\ a = SourceOrder(c)
    <2>1. PICK x \in c.near : \E w : a.links = {[entry |-> x, status |-> "partial", why |-> w]}
      BY <1>1, InOrder
    <2>2. a.status = "partial"
      BY <1>1, InOrder
    <2>3. x \in Entries /\ x \in Handlers(c)
      BY CandidateFields DEF Handlers
    <2> QED BY <2>1, <2>2, <2>3
  <1>2. CASE \E l \in Links(c) : /\ Links(c) = {l}
                                 /\ a.links = {l} /\ a.status = l.status
    <2>1. PICK l \in Links(c) : a.links = {l} /\ a.status = l.status
      BY <1>2
    <2>2. l \in LinkTypes
      BY LinksTyped
    <2>3. l = [entry |-> l.entry, status |-> l.status, why |-> l.why] /\ l.entry \in Entries
      BY <2>2 DEF LinkTypes
    <2> QED BY <2>1, <2>3, LinkedHandlers
  <1>3. CASE /\ Links(c) # {} /\ a = Canonicalized(c, Links(c))
             /\ \A l, m \in Links(c) : SameHandler(c, l.entry, m.entry)
             /\ \A l, m \in Links(c) : l.status = m.status
    <2>1. \E l, m \in Links(c) : \E w :
             /\ a.links = {[entry |-> m.entry, status |-> a.status, why |-> w]}
             /\ a.status = l.status
      BY <1>3, LinksTyped, Merged
    <2>2. PICK m \in Links(c) : \E w :
             a.links = {[entry |-> m.entry, status |-> a.status, why |-> w]}
      BY <2>1
    <2>3. m.entry \in Entries
      BY LinksTyped DEF LinkTypes
    <2> QED BY <2>2, <2>3, LinkedHandlers
  <1> QED BY <1>1, <1>2, <1>3, FourWays

\* A complete association is claimed by every row of the association query, each
\* with its flow, of the handler that is linked.
LEMMA CompleteIsClaimed ==
    ASSUME NEW c \in Candidates, NEW a, a = Association(c), a.status = "complete"
    PROVE  /\ c.rows # {}
           /\ \A r \in c.rows : /\ r.claimed /\ Witness(c, r.path)
                                /\ SameHandler(c, c.from[r.path], Canonical(a))
  <1>0. PICK w : a.links = {[entry |-> Canonical(a), status |-> a.status, why |-> w]}
    BY OneCanonical
  <1>1. /\ Links(c) # {}
        /\ \A l \in Links(c) : l.status = "complete"
        /\ \A l \in Links(c) : SameHandler(c, l.entry, Canonical(a))
    <2>1. CASE Links(c) = {} /\ a = SourceOrder(c)
      BY <2>1, InOrder
    <2>2. CASE \E l \in Links(c) : /\ Links(c) = {l}
                                   /\ a.links = {l} /\ a.status = l.status
      <3>1. PICK l \in Links(c) : Links(c) = {l} /\ a.links = {l} /\ a.status = l.status
        BY <2>2
      <3>2. l.entry = Canonical(a)
        BY <3>1 DEF Canonical
      <3> QED BY <3>1, <3>2 DEF SameHandler
    <2>3. CASE /\ Links(c) # {} /\ a = Canonicalized(c, Links(c))
               /\ \A l, m \in Links(c) : SameHandler(c, l.entry, m.entry)
               /\ \A l, m \in Links(c) : l.status = m.status
      <3>1. \E l, m \in Links(c) : \E v :
               /\ a.links = {[entry |-> m.entry, status |-> a.status, why |-> v]}
               /\ a.status = l.status
        BY <2>3, LinksTyped, Merged
      <3>2. PICK l \in Links(c), m \in Links(c) : \E v :
               /\ a.links = {[entry |-> m.entry, status |-> a.status, why |-> v]}
               /\ a.status = l.status
        BY <3>1
      <3>4. PICK v : a.links = {[entry |-> m.entry, status |-> a.status, why |-> v]}
        BY <3>2
      <3>3. Canonical(a) = m.entry
        BY <3>4, OnlyLink
      <3> QED BY <2>3, <3>2, <3>3
    <2> QED BY <2>1, <2>2, <2>3, FourWays
  <1>2. \A r \in c.rows : r.claimed /\ Witness(c, r.path)
    <2> SUFFICES ASSUME NEW r \in c.rows PROVE r.claimed /\ Witness(c, r.path)
      OBVIOUS
    <2>1. Link(c, c.from[r.path], r).status = "complete"
      BY <1>1, RowLinks
    <2> QED BY <2>1 DEF Link
  <1>3. \A r \in c.rows : SameHandler(c, c.from[r.path], Canonical(a))
    <2> SUFFICES ASSUME NEW r \in c.rows
                 PROVE  SameHandler(c, c.from[r.path], Canonical(a))
      OBVIOUS
    <2>1. Link(c, c.from[r.path], r).entry = c.from[r.path]
      BY DEF Link
    <2> QED BY <1>1, <2>1, RowLinks
  <1>4. c.rows # {}
    <2>1. PICK l \in Links(c) : l.status = "complete"
      BY <1>1
    <2>2. l \in QueryLinks(c)
      BY <2>1 DEF Links, ScanLinks
    <2> QED BY <2>2 DEF QueryLinks
  <1> QED BY <1>2, <1>3, <1>4

\* The association only fails over registrations without a common pattern.
LEMMA FailedAssociation ==
    ASSUME NEW c \in Candidates, Association(c).status = "failed"
    PROVE  c.pattern \in {"base", "other"} /\ (c.rows # {} \/ c.supplement # {})
  <1> DEFINE a == Association(c)
  <1>0. \A l \in Links(c) : l.status # "failed"
    BY LinksTyped DEF LinkTypes
  <1>1. /\ Links(c) # {} /\ a = Canonicalized(c, Links(c))
        /\ \A l, m \in Links(c) : SameHandler(c, l.entry, m.entry)
    BY <1>0, FourWays, InOrder
  <1>2. c.pattern \in {"base", "other"}
    BY <1>0, <1>1, LinksTyped, Merged
  <1> QED BY <1>1, <1>2, NoLinks

-----------------------------------------------------------------------------
(* Relevance and disposition.                                              *)

\* What evaluate_candidate_relevance lets through.
LEMMA Relevant ==
    ASSUME NEW c \in Candidates, NEW a
    PROVE  \/ Relevance(c, a) = "rejected" /\ (c.testSite \/ (Harmless(c) /\ Complete(c)))
           \/ Relevance(c, a) = "unresolved"
           \/ /\ Relevance(c, a) = "contract_eligible"
              /\ ~c.testSite /\ ~Harmless(c) /\ Complete(c) /\ a.status = "complete"
           \/ /\ Relevance(c, a) = "dos_relevant_partial"
              /\ ~c.testSite /\ ~Harmless(c)
  <1>1. CASE c.testSite
    <2>1. Relevance(c, a) = "rejected"
      BY <1>1, Zenon DEF Relevance
    <2> QED BY <1>1, <2>1
  <1>2. CASE ~c.testSite /\ Harmless(c)
    BY <1>2 DEF Relevance
  <1>3. CASE ~c.testSite /\ ~Harmless(c)
    <2>1. CASE Cardinality(a.links) # 1 \/ Promise(c) = "none"
      BY <1>3, <2>1 DEF Relevance
    <2>2. CASE ~(Cardinality(a.links) # 1 \/ Promise(c) = "none")
      BY <1>3, <2>2 DEF Relevance
    <2> QED BY <2>1, <2>2
  <1> QED BY <1>1, <1>2, <1>3

\* A candidate is only rejected by test code or by a complete harmless note.
LEMMA RejectedCandidate ==
    ASSUME NEW c \in Candidates, NEW a, Maturation(c, a) = "rejected"
    PROVE  c.testSite \/ (Harmless(c) /\ Complete(c))
  BY Relevant DEF Maturation

\* A mature disposition is one that CandidateDisposition and
\* _canonical_flow_entry_ids accept; a formal one is complete throughout.
LEMMA Matured ==
    ASSUME NEW c \in Candidates, NEW a, a = Association(c),
           NEW s, s = Maturation(c, a), s \in {"formal_eligible", "gap_eligible"},
           NEW d, d = Mature(c, a, s)
    PROVE  /\ a.status \in {"complete", "partial"}
           /\ ~c.testSite /\ ~Harmless(c)
           /\ d.status = s /\ d.association = a.status /\ Canonical(d) = Canonical(a)
           /\ s = "formal_eligible" => Complete(c) /\ a.status = "complete"
           /\ WellFormed(d) /\ Reconciled(d)
  <1>1. /\ Relevance(c, a) \in {"contract_eligible", "dos_relevant_partial"}
        /\ a.status \in {"complete", "partial"}
    BY Relevant DEF Maturation
  <1>2. /\ ~c.testSite /\ ~Harmless(c)
        /\ Relevance(c, a) = "contract_eligible" => Complete(c) /\ a.status = "complete"
    BY <1>1, Relevant
  <1>3. /\ s = "formal_eligible" <=> Relevance(c, a) = "contract_eligible"
    BY <1>1, <1>2 DEF Maturation
  <1>4. /\ d.status = s /\ d.association = a.status /\ d.links = a.links
    BY DEF Mature
  <1>5. Canonical(d) = Canonical(a)
    BY <1>4 DEF Canonical
  <1>6. PICK w : a.links = {[entry |-> Canonical(a), status |-> a.status, why |-> w]}
    BY <1>1, OneCanonical
  <1>7. Cardinality(d.links) = 1 /\ \A l \in d.links : l.status = d.association
    <2> DEFINE l == [entry |-> Canonical(a), status |-> a.status, why |-> w]
    <2>1. d.links = {l} /\ l.status = d.association
      BY <1>4, <1>6
    <2> HIDE DEF l
    <2> QED BY <2>1, FS_Singleton
  <1>8. CASE s = "formal_eligible"
    <2>1. Complete(c) /\ a.status = "complete"
      BY <1>2, <1>3, <1>8
    <2>2. d.local = "complete"
      BY <1>8, <2>1 DEF Mature
    <2>3. WellFormed(d) /\ Reconciled(d)
      BY <1>4, <1>7, <1>8, <2>1, <2>2 DEF WellFormed, Reconciled
    <2> QED BY <1>1, <1>2, <1>4, <1>5, <2>1, <2>3
  <1>9. CASE s = "gap_eligible"
    <2>1. Relevance(c, a) = "dos_relevant_partial"
      BY <1>1, <1>3, <1>9
    <2>2. d.local = "partial"
      BY <1>9, <2>1 DEF Mature
    <2>3. WellFormed(d)
      BY <1>1, <1>4, <1>7, <1>9, <2>2 DEF WellFormed
    <2>4. Reconciled(d)
      BY <1>1, <1>4, <1>7 DEF Reconciled
    <2> QED BY <1>1, <1>2, <1>4, <1>5, <1>9, <2>3, <2>4
  <1> QED BY <1>8, <1>9

-----------------------------------------------------------------------------
(* Reachability.                                                           *)

\* The types of the evidence.
LEMMA EvidenceFields ==
    ASSUME NEW e \in Evidence
    PROVE  /\ e.candidate \in Candidates /\ e.trigger \in BOOLEAN /\ e.authGap \in BOOLEAN
           /\ e.contexts \subseteq Contexts /\ IsFiniteSet(e.contexts)
           /\ e.gates \subseteq DeploymentGates /\ IsFiniteSet(e.gates)
           /\ e.patterns \subseteq {"own", "sibling"}
           /\ e.guard \subseteq SUBSET GuardReasons /\ e.bound \subseteq SUBSET BoundReasons
           /\ e.release \subseteq SUBSET ReleaseReasons /\ e.domain \subseteq Families
  <1>1. /\ e.candidate \in Candidates /\ e.trigger \in BOOLEAN /\ e.authGap \in BOOLEAN
        /\ e.contexts \subseteq Contexts /\ e.gates \subseteq DeploymentGates
        /\ e.patterns \subseteq {"own", "sibling"}
        /\ e.guard \subseteq SUBSET GuardReasons /\ e.bound \subseteq SUBSET BoundReasons
        /\ e.release \subseteq SUBSET ReleaseReasons /\ e.domain \subseteq Families
    BY DEF Evidence
  <1>2. IsFiniteSet(Contexts) /\ IsFiniteSet(DeploymentGates)
    BY Small DEF Contexts, DeploymentGates
  <1> QED BY <1>1, <1>2, FS_Subset

\* resolve_deployment_status says what the only gate says.
LEMMA OneGate ==
    ASSUME NEW e \in Evidence
    PROVE  Deployment(e) = "unknown" \/ e.gates = {Deployment(e)}
  <1>1. CASE Cardinality(e.gates) = 1
    <2>1. PICK g \in e.gates : e.gates = {g}
      BY <1>1, EvidenceFields, One
    <2>2. (CHOOSE h \in e.gates : TRUE) = g
      BY <2>1
    <2> QED BY <1>1, <2>1, <2>2 DEF Deployment
  <1>2. CASE Cardinality(e.gates) # 1
    BY <1>2 DEF Deployment
  <1> QED BY <1>1, <1>2

\* A context is only accepted when it is the only one the facts support, whatever
\* is claimed (verify_auth_contract).
LEMMA OneContext ==
    ASSUME NEW e \in Evidence, NEW claim
    PROVE  AuthContext(e, claim) = "unknown"
             \/ (~e.authGap /\ e.contexts = {AuthContext(e, claim)})
  <1>1. CASE e.authGap \/ Cardinality(e.contexts) > 1 \/ claim \notin e.contexts
    <2>1. AuthContext(e, claim) = "unknown"
      BY <1>1, Zenon DEF AuthContext
    <2> QED BY <2>1
  <1>2. CASE ~(e.authGap \/ Cardinality(e.contexts) > 1 \/ claim \notin e.contexts)
    <2>1. /\ Cardinality(e.contexts) \in Nat
          /\ Cardinality(e.contexts) = 0 <=> e.contexts = {}
          /\ Cardinality(e.contexts) = 1 <=> \E x \in e.contexts : e.contexts = {x}
      BY EvidenceFields, One
    <2>2. Cardinality(e.contexts) # 0
      BY <1>2, <2>1
    <2>3. ~(Cardinality(e.contexts) > 1)
      BY <1>2
    <2>4. Cardinality(e.contexts) = 1
      BY <2>1, <2>2, <2>3
    <2>5. PICK x \in e.contexts : e.contexts = {x}
      BY <2>1, <2>4
    <2>6. claim \in e.contexts
      BY <1>2
    <2>7. e.contexts = {claim}
      BY <2>5, <2>6
    <2>8. AuthContext(e, claim) = claim
      BY <1>2 DEF AuthContext
    <2> QED BY <1>2, <2>7, <2>8
  <1> QED BY <1>1, <1>2

\* A pair out of reach is so by the only context or the only gate there is, and
\* an ordinary caller reaches one by the only context in the default deployment.
LEMMA ProvenReach ==
    ASSUME NEW e \in Evidence, NEW claim
    PROVE  /\ Reachability(e, claim) = "not_entry_reachable" =>
                /\ ~e.authGap
                /\ \/ e.contexts = {"privileged"}
                   \/ e.gates \in {{"default_disabled"}, {"optional"}}
           /\ Reachability(e, claim) = "ordinary_attacker_reachable" =>
                /\ ~e.authGap
                /\ e.contexts \in {{"unauthenticated"}, {"low_privilege"}}
                /\ e.gates = {"default_enabled"}
  <1> DEFINE context == AuthContext(e, claim)
  <1>1. /\ context = "unknown" \/ (~e.authGap /\ e.contexts = {context})
        /\ Deployment(e) = "unknown" \/ e.gates = {Deployment(e)}
        /\ e.contexts \subseteq Contexts
    BY OneContext, OneGate, EvidenceFields
  <1>2. ASSUME Reachability(e, claim) = "not_entry_reachable"
        PROVE  /\ ~e.authGap
               /\ context = "privileged" \/ Deployment(e) \in {"default_disabled", "optional"}
    BY <1>2 DEF Reachability
  <1>3. ASSUME Reachability(e, claim) = "ordinary_attacker_reachable"
        PROVE  /\ ~e.authGap
               /\ context \notin {"privileged", "unknown"}
               /\ Deployment(e) = "default_enabled"
    BY <1>3 DEF Reachability
  <1> HIDE DEF context
  <1>4. ASSUME Reachability(e, claim) = "not_entry_reachable"
        PROVE  /\ ~e.authGap
               /\ \/ e.contexts = {"privileged"}
                  \/ e.gates \in {{"default_disabled"}, {"optional"}}
    BY <1>1, <1>2, <1>4
  <1>5. ASSUME Reachability(e, claim) = "ordinary_attacker_reachable"
        PROVE  /\ ~e.authGap
               /\ e.contexts \in {{"unauthenticated"}, {"low_privilege"}}
               /\ e.gates = {"default_enabled"}
    BY <1>1, <1>3, <1>5 DEF Contexts
  <1> QED BY <1>4, <1>5

-----------------------------------------------------------------------------
(* The contract and the flows.                                             *)

\* verify_growth_contract only verifies what is grounded in the facts.
LEMMA VerifiedGrowth ==
    ASSUME NEW c \in Candidates, NEW x, VerifyGrowth(c, x) = "verified", Binds(c, x)
    PROVE  Complete(c) /\ Grounded(c)
  <1> DEFINE k == c.answer
  <1>1. k \in Answers
    BY CandidateFields
  <1>2. Complete(c)
    BY DEF VerifyGrowth
  <1>3. k.status = "dos_relevant" /\ k.class # "low_amplification" /\ Attested(c, x)
    BY <1>2 DEF VerifyGrowth
  <1>4. k.drivers # {} /\ k.drivers \subseteq Matched(c, x)
    BY <1>3 DEF Binds, SchemaAccepts
  <1>5. Matched(c, x) \subseteq c.flows
    BY DEF Matched, Witness
  <1>6. /\ c.named /\ k.class = AmplificationFact(c)
        /\ "space" \in k.required /\ "retention" \in k.required
        /\ "amplification" \in k.required
    BY <1>3 DEF Attested
  <1>7. k.required = {"space", "retention", "amplification"}
    BY <1>1, <1>6 DEF Answers
  <1> QED BY <1>2, <1>3, <1>4, <1>5, <1>6, <1>7 DEF Grounded

\* The contract that says what the facts say is bound and verified.
LEMMA FaithfulIsVerified ==
    ASSUME NEW c \in Candidates, NEW x, NEW g, g = [c EXCEPT !.answer = Faithful(c, x)],
           Complete(c), Matched(c, x) # {}, c.named, c.usual,
           AmplificationFact(c) # "low_amplification"
    PROVE  Binds(g, x) /\ VerifyGrowth(g, x) = "verified"
  <1>1. /\ g.kind = c.kind /\ g.scope = c.scope /\ g.roles = c.roles
        /\ g.complete = c.complete /\ g.supplement = c.supplement /\ g.flows = c.flows
        /\ g.pattern = c.pattern /\ g.from = c.from /\ g.target = c.target
        /\ g.gaps = c.gaps /\ g.named = c.named /\ g.usual = c.usual
        /\ g.answer = Faithful(c, x)
    BY DEF Candidates
  <1>2. /\ Complete(g) = Complete(c) /\ ValueSpaceFact(g) = ValueSpaceFact(c)
        /\ RetentionFact(g) = RetentionFact(c) /\ AmplificationFact(g) = AmplificationFact(c)
    BY <1>1 DEF Complete, ValueSpaceFact, RetentionFact, AmplificationFact
  <1>3. Matched(g, x) = Matched(c, x)
    BY <1>1 DEF Matched, Witness, SameHandler
  <1>4. /\ g.answer.status = "dos_relevant" /\ g.answer.mechanism /\ g.answer.pressure
        /\ g.answer.space = ValueSpaceFact(c) /\ g.answer.retention = RetentionFact(c)
        /\ g.answer.class = AmplificationFact(c) /\ g.answer.drivers = Matched(c, x)
        /\ g.answer.required = {"space", "retention", "amplification"}
    BY <1>1 DEF Faithful
  <1>5. ValueSpaceFact(c) \in {"stream", "unlimited", "large"}
    BY DEF ValueSpaceFact
  <1>6. Binds(g, x)
    BY <1>3, <1>4 DEF Binds, SchemaAccepts
  <1>7. Attested(g, x)
    BY <1>1, <1>2, <1>3, <1>4 DEF Attested
  <1>8. VerifyGrowth(g, x) = "verified"
    BY <1>1, <1>2, <1>4, <1>5, <1>7 DEF VerifyGrowth
  <1> QED BY <1>6, <1>8

\* A verified flow has no gap at all.
LEMMA VerifiedFlow ==
    ASSUME NEW c \in Candidates, NEW g, NEW p, VerifyFlow(c, g, p).status = "verified"
    PROVE  /\ g = "verified" /\ p # GapPath
           /\ p \in c.flows => c.gaps[p] = {}
  <1>1. FlowReasons(c, g, p) = {}
    BY DEF VerifyFlow
  <1>2. /\ "entry" \notin Gaps(c, p) /\ "edges" \notin Gaps(c, p) /\ g = "verified"
        /\ "kind" \notin Gaps(c, p) /\ Gaps(c, p) \cap {"coverage", "confidence"} = {}
    BY <1>1 DEF FlowReasons
  <1>3. p # GapPath
    BY <1>2 DEF Gaps
  <1>4. c.gaps[p] \subseteq Gaps(c, p)
    BY <1>3 DEF Gaps
  <1>5. ASSUME p \in c.flows PROVE c.gaps[p] = {}
    <2>1. c.gaps[p] \subseteq FlowGaps
      BY <1>5, CandidateFields
    <2> QED BY <1>2, <1>4, <2>1 DEF FlowGaps
  <1> QED BY <1>2, <1>3, <1>5

-----------------------------------------------------------------------------
(* The lifecycle decisions.                                                *)

\* A guard is effective through a candidate with nothing against it; it is only
\* ineffective when every candidate has something closed against it.
LEMMA GuardDecided ==
    ASSUME NEW e \in Evidence, NEW complete \in BOOLEAN,
           NEW d, d = EvaluateGuard(e.guard, complete)
    PROVE  /\ d.status = "effective" => {} \in e.guard
           /\ d.status \notin {"unknown", "effective"} /\ ~d.open =>
                /\ {} \notin e.guard
                /\ \A k \in e.guard : k \cap {"config", "coverage", "async", "transfer"} = {}
  <1>1. CASE e.guard = {}
    BY <1>1 DEF EvaluateGuard
  <1>2. CASE e.guard # {}
    <2> DEFINE why == UNION e.guard
    <2>1. d = [status |-> IF {} \in e.guard THEN "effective"
                          ELSE IF Open(why) THEN "unknown" ELSE "ineffective",
               open |-> Open(why),
               reasons |-> IF {} \in e.guard THEN {} ELSE why]
      BY <1>2 DEF EvaluateGuard
    <2>2. ASSUME ~Open(why), NEW k \in e.guard
          PROVE  k \cap {"config", "coverage", "async", "transfer"} = {}
      <3>1. k \subseteq why /\ k \subseteq GuardReasons
        BY EvidenceFields
      <3> QED BY <2>2, <3>1 DEF Open, GuardReasons
    <2>3. d.open = Open(why)
      BY <2>1
    <2>4. d.status = IF {} \in e.guard THEN "effective"
                     ELSE IF Open(why) THEN "unknown" ELSE "ineffective"
      BY <2>1
    <2> HIDE DEF why
    <2> QED BY <2>2, <2>3, <2>4
  <1> QED BY <1>1, <1>2

\* The same for a bound, alone or with others.
LEMMA SomeBoundDecided ==
    ASSUME NEW cs \in SUBSET SUBSET BoundReasons, NEW complete \in BOOLEAN,
           NEW d, d = EvaluateBound(cs, complete)
    PROVE  /\ d.status = "effective" <=> {} \in cs
           /\ d.status \notin {"unknown", "effective"} /\ ~d.open =>
                \A k \in cs : k \cap {"config", "coverage", "async", "transfer"} = {}
  <1>1. CASE cs = {}
    BY <1>1 DEF EvaluateBound
  <1>2. CASE cs # {}
    <2> DEFINE why == UNION cs
    <2>1. d = [status |-> IF {} \in cs THEN "effective"
                          ELSE IF Open(why) THEN "unknown"
                          ELSE IF why = {"scope"} THEN "scope_mismatched"
                          ELSE IF why = {"dimension"} THEN "dimension_mismatched"
                          ELSE "possibly_over_budget",
               open |-> Open(why),
               reasons |-> IF {} \in cs THEN {} ELSE why]
      BY <1>2 DEF EvaluateBound
    <2>2. ASSUME ~Open(why), NEW k \in cs
          PROVE  k \cap {"config", "coverage", "async", "transfer"} = {}
      <3>1. k \subseteq why /\ k \subseteq BoundReasons
        OBVIOUS
      <3> QED BY <2>2, <3>1 DEF Open, BoundReasons
    <2>3. d.open = Open(why)
      BY <2>1
    <2>4. d.status = IF {} \in cs THEN "effective"
                     ELSE IF Open(why) THEN "unknown"
                     ELSE IF why = {"scope"} THEN "scope_mismatched"
                     ELSE IF why = {"dimension"} THEN "dimension_mismatched"
                     ELSE "possibly_over_budget"
      BY <2>1
    <2> HIDE DEF why
    <2> QED BY <2>2, <2>3, <2>4
  <1> QED BY <1>1, <1>2

LEMMA BoundDecided ==
    ASSUME NEW e \in Evidence, NEW complete \in BOOLEAN,
           NEW d, d = EvaluatePathBounds(e.bound, complete)
    PROVE  /\ d.status = "effective" <=> {} \in e.bound
           /\ d.status \notin {"unknown", "effective"} /\ ~d.open =>
                \A k \in e.bound : k \cap {"config", "coverage", "async", "transfer"} = {}
  <1> DEFINE alone == {EvaluateBound({k}, TRUE) : k \in e.bound}
  <1>0. e.bound \in SUBSET SUBSET BoundReasons
    BY EvidenceFields
  <1>1. (\E b \in alone : b.status = "effective") <=> {} \in e.bound
    <2>1. \A k \in e.bound : EvaluateBound({k}, TRUE).status = "effective" <=> {} \in {k}
      BY <1>0, SomeBoundDecided
    <2> QED BY <2>1
  <1>2. CASE \E b \in alone : b.status = "effective"
    <2>1. d.status = "effective"
      BY <1>2 DEF EvaluatePathBounds
    <2> QED BY <1>1, <1>2, <2>1
  <1>3. CASE ~(\E b \in alone : b.status = "effective")
    <2>1. d = EvaluateBound(e.bound, complete)
      BY <1>3 DEF EvaluatePathBounds
    <2> QED BY <1>0, <2>1, SomeBoundDecided
  <1> QED BY <1>2, <1>3

\* The same for a synchronous release.
LEMMA ReleaseDecided ==
    ASSUME NEW e \in Evidence, NEW complete \in BOOLEAN,
           NEW d, d = EvaluateRelease(e.release, complete)
    PROVE  /\ d.status = "effective" => {} \in e.release
           /\ d.status \notin {"unknown", "effective"} /\ ~d.open =>
                /\ {} \notin e.release
                /\ \A k \in e.release : k \cap {"config", "coverage", "async", "transfer"} = {}
  <1>1. CASE e.release = {}
    <2>1. d.status \in {"absent", "unknown"}
      BY <1>1 DEF EvaluateRelease
    <2> QED BY <1>1, <2>1
  <1>2. CASE e.release # {}
    <2> DEFINE why == UNION e.release
               unresolved == why \cap {"async", "transfer", "coverage"} # {}
               effective == {} \in e.release /\ ~unresolved
    <2>1. /\ d.status = IF effective THEN "effective"
                        ELSE IF unresolved THEN "unknown" ELSE "ineffective"
          /\ d.open = unresolved
      BY <1>2 DEF EvaluateRelease
    <2>2. ASSUME ~unresolved, NEW k \in e.release
          PROVE  k \cap {"config", "coverage", "async", "transfer"} = {}
      <3>1. k \subseteq why /\ k \subseteq ReleaseReasons
        BY EvidenceFields
      <3> QED BY <2>2, <3>1 DEF ReleaseReasons
    <2>3. effective <=> {} \in e.release /\ ~unresolved
      OBVIOUS
    <2> HIDE DEF unresolved, effective
    <2> QED BY <2>1, <2>2, <2>3
  <1> QED BY <1>1, <1>2

-----------------------------------------------------------------------------
(* The assertions.                                                         *)

\* The demand of a path with a row of its own, in the words of the candidate.
LEMMA Demands ==
    ASSUME NEW c \in Candidates, NEW f, f.amplification = Amplification(c),
           NEW p, p # GapPath
    PROVE  /\ Unrestrained(c, f, p) <=> SingleDemand(c, p)
           /\ Target(c, p) = c.target[p]
  <1>1. Target(c, p) = c.target[p]
    BY DEF Target
  <1>2. ASSUME c.kind \notin DirectKinds
        PROVE  f.amplification = "proven" <=>
                 ("loop_proven" \in c.notes /\ "loop_gap" \notin c.notes)
    BY <1>2 DEF Amplification
  <1>3. CASE c.kind \in DirectKinds
    BY <1>1, <1>3 DEF Unrestrained, SingleDemand
  <1>4. CASE c.kind \notin DirectKinds
    <2>1. Unrestrained(c, f, p) <=> f.amplification = "proven"
      BY <1>4 DEF Unrestrained
    <2>2. SingleDemand(c, p) <=> ("loop_proven" \in c.notes /\ "loop_gap" \notin c.notes)
      BY <1>4 DEF SingleDemand
    <2> QED BY <1>1, <1>2, <1>4, <2>1, <2>2
  <1> QED BY <1>1, <1>3, <1>4

\* evaluate_assertion_1 about a demand that an ordinary caller makes on proven paths.
LEMMA FirstAssertion ==
    ASSUME NEW e, NEW f, NEW w, NEW p, NEW d,
           f.reach = "ordinary_attacker_reachable",
           f.growth = "verified", w.status = "verified",
           NEW a, a = EvaluateAssertion1(e, f, w, p, d)
    PROVE  /\ a \in {"matched", "refuted"} => Unrestrained(e.candidate, f, p)
           /\ a = "matched" => /\ d.guard.status \notin {"unknown", "effective"}
                               /\ ~d.guard.open
                               /\ d.bound.status \notin {"unknown", "effective"}
                               /\ ~d.bound.open
           /\ Unrestrained(e.candidate, f, p) =>
                /\ a \in {"matched", "refuted", "unknown"}
                /\ a = "refuted" => \/ d.guard.status = "effective"
                                    \/ d.bound.status = "effective"
  <1>1. CASE ~Unrestrained(e.candidate, f, p)
    <2>1. a \in {"unknown", "not_applicable"}
      BY <1>1 DEF EvaluateAssertion1
    <2> QED BY <1>1, <2>1
  <1>2. CASE Unrestrained(e.candidate, f, p)
    <2>1. a = IF d.guard.status = "unknown" \/ d.guard.open THEN "unknown"
              ELSE IF d.guard.status = "effective" THEN "refuted"
              ELSE IF d.bound.status = "unknown" \/ d.bound.open THEN "unknown"
              ELSE IF d.bound.status = "effective" THEN "refuted"
              ELSE "matched"
      BY <1>2 DEF EvaluateAssertion1
    <2> QED BY <1>2, <2>1
  <1> QED BY <1>1, <1>2

\* evaluate_assertion_2 about a demand that an ordinary caller makes on proven paths.
LEMMA SecondAssertion ==
    ASSUME NEW e \in Evidence, NEW f, NEW w, NEW p, NEW d,
           f.reach = "ordinary_attacker_reachable",
           f.growth = "verified", w.status = "verified",
           Target(e.candidate, p) = e.candidate.target[p],
           NEW a, a = EvaluateAssertion2(e, f, w, p, d)
    PROVE  /\ a \in {"matched", "refuted"} =>
                f.repeat = "proven" /\ Accumulates(e.candidate, p)
           /\ a = "matched" => /\ d.bound.status \notin {"unknown", "effective"}
                               /\ ~d.bound.open
                               /\ d.release.status \notin {"unknown", "effective"}
                               /\ ~d.release.open
           /\ Accumulates(e.candidate, p) =>
                /\ a \in {"matched", "refuted", "unknown"}
                /\ a = "refuted" => \/ d.bound.status = "effective"
                                    \/ d.release.status = "effective"
  <1> DEFINE c == e.candidate
  <1>0. c.scope \in Scopes
    BY EvidenceFields, CandidateFields
  <1>1. CASE f.repeat # "proven"
    <2>1. a = "unknown"
      BY <1>1 DEF EvaluateAssertion2
    <2> QED BY <2>1
  <1>2. CASE f.repeat = "proven" /\ ~Accumulates(c, p)
    <2>1. \/ Target(c, p) \notin {"key", "value", "submission_count"}
          \/ c.scope \in {"request", "unknown"}
      BY <1>0, <1>2 DEF Accumulates, Scopes
    <2>2. a \in {"unknown", "not_applicable"}
      BY <1>2, <2>1 DEF EvaluateAssertion2
    <2> QED BY <1>2, <2>2
  <1>3. CASE f.repeat = "proven" /\ Accumulates(c, p)
    <2>1. /\ Target(c, p) \in {"key", "value", "submission_count"}
          /\ c.scope \notin {"request", "unknown"}
      BY <1>3 DEF Accumulates
    <2>2. a = IF d.bound.status = "unknown" \/ d.bound.open THEN "unknown"
              ELSE IF d.bound.status = "effective" THEN "refuted"
              ELSE IF d.release.status = "unknown" \/ d.release.open
                      \/ d.release.class \in {"potential_async", "unknown"} THEN "unknown"
              ELSE IF d.release.status = "effective" THEN "refuted"
              ELSE "matched"
      BY <1>3, <2>1 DEF EvaluateAssertion2
    <2> QED BY <1>3, <2>2
  <1> QED BY <1>1, <1>2, <1>3

-----------------------------------------------------------------------------
(* The evidence of the next run.                                           *)

\* Losing something of a candidate leaves a candidate.
LEMMA WeakerCandidateTyped ==
    ASSUME NEW c \in Candidates, NEW d \in WeakerCandidate(c)
    PROVE  d \in Candidates
  <1>0. \A s \in SUBSET [path : Paths, claimed : BOOLEAN] : [c EXCEPT !.rows = s] \in Candidates
    BY DEF Candidates
  <1>1. CASE d \in {[c EXCEPT !.complete = FALSE], [c EXCEPT !.named = FALSE],
                    [c EXCEPT !.sourced = FALSE],
                    [c EXCEPT !.notes = @ \cup {"loop_gap"},
                              !.complete = @ /\ c.kind \notin DirectKinds]}
    <2>1. /\ [c EXCEPT !.complete = FALSE] \in Candidates
          /\ [c EXCEPT !.named = FALSE] \in Candidates
          /\ [c EXCEPT !.sourced = FALSE] \in Candidates
      BY DEF Candidates
    <2>2. \A s \in SUBSET Markers, v \in BOOLEAN :
            [c EXCEPT !.notes = s, !.complete = v] \in Candidates
      BY DEF Candidates
    <2>3. /\ c.notes \cup {"loop_gap"} \in SUBSET Markers
          /\ (c.complete /\ c.kind \notin DirectKinds) \in BOOLEAN
      BY CandidateFields DEF Markers
    <2>4. [c EXCEPT !.notes = c.notes \cup {"loop_gap"},
                    !.complete = c.complete /\ c.kind \notin DirectKinds] \in Candidates
      BY <2>2, <2>3
    <2> QED BY <1>1, <2>1, <2>4
  <1>2. CASE d \in {[c EXCEPT !.answer.status = "unknown"],
                    [c EXCEPT !.answer.mechanism = FALSE], [c EXCEPT !.answer.drivers = {}]}
    <2>1. /\ [c.answer EXCEPT !.status = "unknown"] \in Answers
          /\ [c.answer EXCEPT !.mechanism = FALSE] \in Answers
          /\ [c.answer EXCEPT !.drivers = {}] \in Answers
      BY CandidateFields DEF Answers
    <2>2. \A k \in Answers : [c EXCEPT !.answer = k] \in Candidates
      BY DEF Candidates
    <2> QED BY <1>2, <2>1, <2>2
  <1>3. CASE \E n \in {"origin", "driver", "demand", "cardinality", "field"} :
               d = [c EXCEPT !.notes = @ \ {n}]
    BY <1>3 DEF Candidates
  <1>4. CASE \E x \in Entries : d = [c EXCEPT !.supplement = @ \cup {x}]
    BY <1>4 DEF Candidates
  <1>5. CASE \E k \in {"space", "retention", "amplification"} :
               d = [c EXCEPT !.answer.required = @ \ {k}]
    <2>1. PICK k : d = [c EXCEPT !.answer.required = @ \ {k}]
      BY <1>5
    <2>2. [c.answer EXCEPT !.required = @ \ {k}] \in Answers
      BY CandidateFields DEF Answers
    <2>3. \A v \in Answers : [c EXCEPT !.answer = v] \in Candidates
      BY DEF Candidates
    <2> QED BY <2>1, <2>2, <2>3
  <1>6. CASE \E r \in c.rows : d = [c EXCEPT !.rows = (@ \ {r}) \cup {[r EXCEPT !.claimed = FALSE]}]
    <2>1. PICK r \in c.rows : d = [c EXCEPT !.rows = (@ \ {r}) \cup {[r EXCEPT !.claimed = FALSE]}]
      BY <1>6
    <2>2. r \in [path : Paths, claimed : BOOLEAN]
      BY CandidateFields
    <2>3. [r EXCEPT !.claimed = FALSE] \in [path : Paths, claimed : BOOLEAN]
      BY <2>2
    <2>4. (c.rows \ {r}) \cup {[r EXCEPT !.claimed = FALSE]}
            \in SUBSET [path : Paths, claimed : BOOLEAN]
      BY <2>3, CandidateFields
    <2> QED BY <1>0, <2>1, <2>4
  <1>7. CASE \E p \in Paths : d = [c EXCEPT !.rows = @ \cup {[path |-> p, claimed |-> FALSE]}]
    <2>1. PICK p \in Paths : d = [c EXCEPT !.rows = @ \cup {[path |-> p, claimed |-> FALSE]}]
      BY <1>7
    <2>2. [path |-> p, claimed |-> FALSE] \in [path : Paths, claimed : BOOLEAN]
      OBVIOUS
    <2>3. c.rows \in SUBSET [path : Paths, claimed : BOOLEAN]
      BY CandidateFields
    <2>4. \A S : \A s \in SUBSET S, r \in S : s \cup {r} \in SUBSET S
      OBVIOUS
    <2>5. c.rows \cup {[path |-> p, claimed |-> FALSE]} \in SUBSET [path : Paths, claimed : BOOLEAN]
      BY <2>2, <2>3, <2>4, Zenon
    <2> QED BY <1>0, <2>1, <2>5
  <1>8. CASE \E p \in Paths, g \in FlowGaps : d = [c EXCEPT !.gaps[p] = @ \cup {g}]
    <2>1. PICK p \in Paths, g \in FlowGaps : d = [c EXCEPT !.gaps[p] = @ \cup {g}]
      BY <1>8
    <2>2. [c.gaps EXCEPT ![p] = @ \cup {g}] \in [Paths -> SUBSET FlowGaps]
      BY CandidateFields
    <2> QED BY <2>1, <2>2 DEF Candidates
  <1> QED BY <1>1, <1>2, <1>3, <1>4, <1>5, <1>6, <1>7, <1>8 DEF WeakerCandidate

\* Losing evidence leaves evidence.
LEMMA WeakerTyped ==
    ASSUME NEW e \in Evidence, NEW w \in Weaker(e)
    PROVE  w \in Evidence
  <1>1. CASE w \in {[e EXCEPT !.authGap = TRUE], [e EXCEPT !.gates = {}],
                    [e EXCEPT !.trigger = FALSE], [e EXCEPT !.patterns = @ \ {"own"}]}
    <2>1. [e EXCEPT !.authGap = TRUE] \in Evidence /\ [e EXCEPT !.gates = {}] \in Evidence
      BY DEF Evidence
    <2>2. [e EXCEPT !.trigger = FALSE] \in Evidence /\ [e EXCEPT !.patterns = @ \ {"own"}] \in Evidence
      BY DEF Evidence
    <2> QED BY <1>1, <2>1, <2>2
  <1>2. CASE \E c \in WeakerCandidate(e.candidate) : w = [e EXCEPT !.candidate = c]
    <2>1. PICK c \in WeakerCandidate(e.candidate) : w = [e EXCEPT !.candidate = c]
      BY <1>2
    <2>2. c \in Candidates
      BY EvidenceFields, WeakerCandidateTyped
    <2> QED BY <2>1, <2>2 DEF Evidence
  <1>3. CASE \E c \in Contexts : w = [e EXCEPT !.contexts = @ \cup {c}]
    BY <1>3 DEF Evidence
  <1>4. CASE \E f \in Families : w = [e EXCEPT !.domain = @ \ {f}]
    BY <1>4 DEF Evidence
  <1>5. \A f \in Families : \A s :
          [e EXCEPT ![f] = s] = CASE f = "guard" -> [e EXCEPT !.guard = s]
                                  [] f = "bound" -> [e EXCEPT !.bound = s]
                                  [] OTHER -> [e EXCEPT !.release = s]
    BY DEF Families
  <1>6. /\ \A s \in SUBSET SUBSET GuardReasons : [e EXCEPT !.guard = s] \in Evidence
        /\ \A s \in SUBSET SUBSET BoundReasons : [e EXCEPT !.bound = s] \in Evidence
        /\ \A s \in SUBSET SUBSET ReleaseReasons : [e EXCEPT !.release = s] \in Evidence
    BY DEF Evidence
  <1>7. ASSUME NEW f \in Families, NEW s,
               \A k \in s : k \in e[f] \/ k = {"coverage"} \/ \E m \in e[f] : k = m \cup {"coverage"}
        PROVE  [e EXCEPT ![f] = s] \in Evidence
    <2>1. CASE f = "guard"
      <3>1. \A k \in e.guard : k \subseteq GuardReasons
        BY EvidenceFields
      <3>2. s \in SUBSET SUBSET GuardReasons
        BY <1>7, <2>1, <3>1 DEF GuardReasons
      <3> QED BY <1>5, <1>6, <2>1, <3>2
    <2>2. CASE f = "bound"
      <3>1. \A k \in e.bound : k \subseteq BoundReasons
        BY EvidenceFields
      <3>2. s \in SUBSET SUBSET BoundReasons
        BY <1>7, <2>2, <3>1 DEF BoundReasons
      <3> QED BY <1>5, <1>6, <2>2, <3>2
    <2>3. CASE f = "release"
      <3>1. \A k \in e.release : k \subseteq ReleaseReasons
        BY EvidenceFields
      <3>2. s \in SUBSET SUBSET ReleaseReasons
        BY <1>7, <2>3, <3>1 DEF ReleaseReasons
      <3> QED BY <1>5, <1>6, <2>3, <3>2
    <2> QED BY <2>1, <2>2, <2>3 DEF Families
  <1>8. CASE \E f \in Families : w = [e EXCEPT ![f] = @ \cup {{"coverage"}}]
    <2>1. PICK f \in Families : w = [e EXCEPT ![f] = @ \cup {{"coverage"}}]
      BY <1>8
    <2>2. w = [e EXCEPT ![f] = e[f] \cup {{"coverage"}}]
      BY <2>1
    <2> QED BY <1>7, <2>2
  <1>9. CASE \E f \in Families : \E c \in e[f] :
               w = [e EXCEPT ![f] = (@ \ {c}) \cup {c \cup {"coverage"}}]
    <2>1. PICK f \in Families : \E c \in e[f] :
               w = [e EXCEPT ![f] = (@ \ {c}) \cup {c \cup {"coverage"}}]
      BY <1>9
    <2>2. PICK c \in e[f] : w = [e EXCEPT ![f] = (@ \ {c}) \cup {c \cup {"coverage"}}]
      BY <2>1
    <2>3. w = [e EXCEPT ![f] = (e[f] \ {c}) \cup {c \cup {"coverage"}}]
      BY <2>2
    <2> QED BY <1>7, <2>3
  <1> QED BY <1>1, <1>2, <1>3, <1>4, <1>8, <1>9 DEF Weaker

-----------------------------------------------------------------------------
(* The decisions that a stage is given.                                    *)

\* Two handlers are two.
LEMMA TwoHandlers ==
    ASSUME NEW c \in Candidates, NEW x \in Handlers(c), NEW y \in Handlers(c), x # y
    PROVE  Cardinality(Handlers(c)) > 1
  <1>1. Handlers(c) \subseteq Entries
    BY CandidateFields DEF Handlers
  <1>2. IsFiniteSet(Handlers(c))
    BY <1>1, FiniteAssumption, FS_Subset
  <1>3. /\ Cardinality(Handlers(c)) \in Nat
        /\ Cardinality(Handlers(c)) # 0 /\ Cardinality(Handlers(c)) # 1
    BY <1>2, One
  <1> QED BY <1>3

\* What the stages after the growth stage may rely on.
LEMMA GrownFacts ==
    ASSUME NEW e \in Evidence, NEW f, Grown(e, f),
           NEW c, c = e.candidate, NEW d, d = f.disposition
    PROVE  /\ c \in Candidates /\ ~c.testSite /\ ~Harmless(c)
           /\ d.association = Association(c).status
           /\ Canonical(d) = Canonical(Association(c))
           /\ d.association \in {"complete", "partial"}
           /\ d.association = "partial" => d.status = "gap_eligible"
           /\ d.status = "formal_eligible" => Complete(c) /\ d.association = "complete"
           /\ Reconciled(d)
           /\ c.pattern = "distinct" => Canonical(d) \in Handlers(c)
           /\ Binds(c, Canonical(d))
           /\ f.growth = VerifyGrowth(c, Canonical(d))
           /\ f.amplification = Amplification(c)
           /\ f.repeat = "proven" => e.trigger
           /\ \E claim : f.reach = Reachability(e, claim)
  <1> DEFINE a == Association(c)
  <1>1. c \in Candidates /\ e.trigger \in BOOLEAN
    BY EvidenceFields
  <1>2. /\ Maturation(c, a) \in {"formal_eligible", "gap_eligible"}
        /\ d = Mature(c, a, Maturation(c, a))
        /\ f.growth = VerifyGrowth(c, Canonical(a)) /\ Binds(c, Canonical(a))
        /\ f.amplification = Amplification(c)
        /\ f.repeat = Repeatability(e, a)
        /\ \E claim \in Claims(e) : f.reach = Reachability(e, claim)
    BY DEF Grown
  <1>3. /\ a.status \in {"complete", "partial"}
        /\ ~c.testSite /\ ~Harmless(c)
        /\ d.status = Maturation(c, a) /\ d.association = a.status
        /\ Canonical(d) = Canonical(a)
        /\ Maturation(c, a) = "formal_eligible" => Complete(c) /\ a.status = "complete"
        /\ Reconciled(d)
    BY <1>1, <1>2, Matured
  <1>4. c.pattern = "distinct" => Canonical(a) \in Handlers(c)
    BY <1>1, <1>3, OneCanonical
  <1>5. f.repeat = "proven" => e.trigger
    BY <1>2 DEF Repeatability
  <1> HIDE DEF a
  <1>6. Canonical(d) = Canonical(Association(c)) /\ d.association = Association(c).status
    BY <1>3 DEF a
  <1> QED BY <1>1, <1>2, <1>3, <1>4, <1>5, <1>6

\* Every pair that the flow stage accepts has a path (_eligible_conclusion_pairs).
LEMMA SomePath ==
    ASSUME NEW e \in Evidence, NEW f, Grown(e, f)
    PROVE  FlowPaths(e.candidate, f.disposition) # {}
  <1> DEFINE c == e.candidate
             d == f.disposition
  <1>1. /\ c \in Candidates
        /\ d.association = Association(c).status
        /\ d.association \in {"complete", "partial"}
        /\ d.association = "partial" => d.status = "gap_eligible"
    BY GrownFacts
  <1>2. CASE d.association = "complete"
    <2>1. PICK r \in c.rows : Witness(c, r.path)
      BY <1>1, <1>2, CompleteIsClaimed
    <2>2. ~Supplemented(c, d)
      BY <1>2 DEF Supplemented
    <2> QED BY <2>1, <2>2 DEF FlowPaths, Witness
  <1>3. CASE d.association = "partial"
    BY <1>1, <1>3 DEF FlowPaths, Supplemented
  <1> QED BY <1>1, <1>2, <1>3

\* A formal candidate is traced when its flows are all verified and accepted.
LEMMA FormalIsTraced ==
    ASSUME NEW e \in Evidence, NEW f, Grown(e, f),
           f.disposition.status = "formal_eligible",
           RowsAccepted(e.candidate, Canonical(f.disposition)),
           \A p \in e.candidate.flows : e.candidate.gaps[p] = {}
    PROVE  Traced(e.candidate)
  <1> DEFINE c == e.candidate
             x == Canonical(f.disposition)
  <1>1. /\ c \in Candidates /\ ~c.testSite /\ ~Harmless(c)
        /\ Complete(c) /\ Association(c).status = "complete"
    BY GrownFacts
  <1>2. /\ c.rows # {}
        /\ \A r \in c.rows : r.claimed /\ Witness(c, r.path)
    BY <1>1, CompleteIsClaimed
  <1>3. \A r \in c.rows : r.claimed /\ r.path \in c.flows
    BY <1>2 DEF Witness
  <1>4. \A p \in c.flows : c.target[p] \in c.roles /\ SameHandler(c, c.from[p], x)
    BY DEF RowsAccepted
  <1>5. \A p, q \in c.flows : c.from[p] = c.from[q] \/ c.pattern # "distinct"
    BY <1>4 DEF SameHandler
  <1>6. c.complete /\ c.supplement = {}
    BY <1>1 DEF Complete
  <1> QED BY <1>1, <1>2, <1>3, <1>4, <1>5, <1>6 DEF Traced

-----------------------------------------------------------------------------
(* The steps.                                                              *)

\* The verdict is not determinate before the conclude stage.
LEMMA Undecided ==
    ASSUME Inv, stage # "concluded", verdict' = verdict
    PROVE  Concluding' /\ DeterminateIsProven'
  <1>1. verdict' \notin Determinate
    BY DEF Inv, Concluding
  <1> QED BY <1>1 DEF Concluding, DeterminateIsProven

\* A candidate that is dismissed has no verdict.
LEMMA DismissInv ==
    ASSUME Inv, Dismiss
    PROVE  Inv'
  <1>1. /\ stage = "growth" /\ ev' = ev /\ verdict' = verdict
        /\ stage' \in {"rejected", "inventory_unresolved"}
    BY DEF Dismiss
  <1>2. Concluding' /\ DeterminateIsProven'
    BY <1>1, Undecided
  <1> QED BY <1>1, <1>2
       DEF Inv, Growing, Flowing, Living, FailuresExplained

\* An association without a canonical registration is explained.
LEMMA AssociationFailsInv ==
    ASSUME Inv, AssociationFails
    PROVE  Inv'
  <1> DEFINE c == ev.candidate
  <1>1. /\ stage = "growth" /\ ev' = ev /\ verdict' = verdict /\ stage' = "failed"
        /\ Association(c).status = "failed"
    BY DEF AssociationFails
  <1>2. Concluding' /\ DeterminateIsProven'
    BY <1>1, Undecided
  <1>3. c.pattern \in {"base", "other"} /\ (c.rows # {} \/ c.supplement # {})
    BY <1>1, EvidenceFields, FailedAssociation DEF Inv
  <1>4. FailuresExplained'
    BY <1>1, <1>3 DEF FailuresExplained
  <1> QED BY <1>1, <1>2, <1>4
       DEF Inv, Growing, Flowing, Living

\* A slice that cannot be built or a contract that is not bound is explained.
LEMMA FailureExplained ==
    ASSUME NEW c \in Candidates, NEW x, c.pattern = "distinct" => x \in Handlers(c),
           ~(SliceBuilt(c, x) /\ Binds(c, x))
    PROVE  \/ Cardinality(c.twins \cap c.flows) > 1
           \/ ~c.sourced
           \/ \E p \in c.answer.drivers :
                p \notin c.flows \/ c.gaps[p] # {} \/ c.target[p] \notin c.roles
                  \/ (c.pattern = "distinct" /\ Handlers(c) # {c.from[p]})
           \/ c.answer.status = "dos_relevant" /\ {} \in {c.answer.drivers, c.answer.required}
  <1>1. CASE ~c.sourced
    BY <1>1
  <1>2. CASE ~FactsDistinct(c, x)
    <2>1. /\ c.twins \cap Matched(c, x) \subseteq c.twins \cap c.flows
          /\ c.twins \cap c.flows \subseteq Paths
      BY CandidateFields DEF Matched, Witness
    <2>2. IsFiniteSet(c.twins \cap c.flows)
      BY <2>1, FiniteAssumption, FS_Subset
    <2>3. /\ IsFiniteSet(c.twins \cap Matched(c, x))
          /\ Cardinality(c.twins \cap Matched(c, x)) <= Cardinality(c.twins \cap c.flows)
      BY <2>1, <2>2, FS_Subset
    <2>4. /\ Cardinality(c.twins \cap c.flows) \in Nat
          /\ Cardinality(c.twins \cap Matched(c, x)) \in Nat
      BY <2>2, <2>3, FS_CardinalityType
    <2>5. Cardinality(c.twins \cap c.flows) > 1
      BY <1>2, <2>3, <2>4 DEF FactsDistinct
    <2> QED BY <2>5
  <1>3. CASE ~SchemaAccepts(c.answer)
    BY <1>3 DEF SchemaAccepts
  <1>4. CASE ~(c.answer.drivers \subseteq Matched(c, x))
    <2>1. PICK p \in c.answer.drivers : p \notin Matched(c, x)
      BY <1>4
    <2>2. p \in Paths
      BY CandidateFields DEF Answers
    <2>3. ~Witness(c, p) \/ ~SameHandler(c, c.from[p], x)
      BY <2>1, <2>2 DEF Matched
    <2>4. CASE ~Witness(c, p)
      BY <2>4 DEF Witness
    <2>5. CASE ~SameHandler(c, c.from[p], x)
      <3>1. c.pattern = "distinct" /\ c.from[p] # x
        BY <2>5 DEF SameHandler
      <3>2. Handlers(c) # {c.from[p]}
        BY <3>1
      <3> QED BY <3>1, <3>2
    <2> QED BY <2>3, <2>4, <2>5
  <1> QED BY <1>1, <1>2, <1>3, <1>4 DEF SliceBuilt, Binds

\* The rest of the growth stage.
LEMMA GrowthInv ==
    ASSUME Inv, Growth
    PROVE  Inv'
  <1> DEFINE c == ev.candidate
             a == Association(c)
             x == (CHOOSE l \in a.links : TRUE).entry
             d == Mature(c, a, Maturation(c, a))
  <1>0. c \in Candidates /\ ev \in Evidence
    BY EvidenceFields DEF Inv
  <1>1. /\ stage = "growth" /\ ev' = ev /\ verdict' = verdict
        /\ Maturation(c, a) \in {"formal_eligible", "gap_eligible"}
    BY DEF Growth
  <1>2. PICK claim \in Claims(ev) :
             IF Reachability(ev, claim) = "not_entry_reachable"
             THEN stage' = "rejected"
             ELSE /\ facts' = [reach |-> Reachability(ev, claim),
                               repeat |-> Repeatability(ev, a),
                               amplification |-> Amplification(c),
                               growth |-> VerifyGrowth(c, x),
                               disposition |-> d]
                  /\ stage' = IF SliceBuilt(c, x) /\ Binds(c, x) /\ WellFormed(d)
                              THEN "flows" ELSE "failed"
    BY DEF Growth
  <1>3. Concluding' /\ DeterminateIsProven'
    BY <1>1, Undecided
  <1>4. x = Canonical(a)
    BY DEF Canonical
  <1>5. /\ a.status \in {"complete", "partial"} /\ WellFormed(d)
    BY <1>0, <1>1, Matured
  <1>6. c.pattern = "distinct" => x \in Handlers(c)
    BY <1>0, <1>4, <1>5, OneCanonical
  <1>7. CASE Reachability(ev, claim) = "not_entry_reachable"
    <2>1. stage' = "rejected"
      BY <1>2, <1>7
    <2> QED BY <1>0, <1>1, <1>3, <2>1
         DEF Inv, Growing, Flowing, Living, FailuresExplained
  <1>8. CASE /\ Reachability(ev, claim) # "not_entry_reachable"
             /\ SliceBuilt(c, x) /\ Binds(c, x)
    <2>1. stage' = "flows"
      BY <1>2, <1>5, <1>8
    <2>2. facts' = [reach |-> Reachability(ev, claim), repeat |-> Repeatability(ev, a),
                    amplification |-> Amplification(c), growth |-> VerifyGrowth(c, x),
                    disposition |-> d]
      BY <1>2, <1>8
    <2>3. /\ facts'.reach = Reachability(ev, claim) /\ facts'.repeat = Repeatability(ev, a)
          /\ facts'.amplification = Amplification(c) /\ facts'.growth = VerifyGrowth(c, x)
          /\ facts'.disposition = d
      BY <2>2
    <2>4. Grown(ev, facts')
      BY <1>1, <1>4, <1>8, <2>3 DEF Grown
    <2> QED BY <1>0, <1>1, <1>3, <2>1, <2>4
         DEF Inv, Growing, Flowing, Living, FailuresExplained
  <1>9. CASE /\ Reachability(ev, claim) # "not_entry_reachable"
             /\ ~(SliceBuilt(c, x) /\ Binds(c, x))
    <2>1. stage' = "failed"
      BY <1>2, <1>9
    <2>2. FailuresExplained'
      BY <1>0, <1>1, <1>6, <1>9, <2>1, FailureExplained DEF FailuresExplained
    <2> QED BY <1>0, <1>1, <1>3, <2>1, <2>2
         DEF Inv, Growing, Flowing, Living
  <1> QED BY <1>7, <1>8, <1>9

\* The flow stage refuses a flow of another handler or of no demand.
LEMMA FlowsInv ==
    ASSUME Inv, Flows
    PROVE  Inv'
  <1> DEFINE c == ev.candidate
             d == facts.disposition
             x == (CHOOSE l \in d.links : TRUE).entry
             accepted == /\ Reconciled(d)
                         /\ RowsAccepted(c, x)
                         /\ Supplemented(c, d) => c.roles \cap Roles # {}
  <1>1. /\ stage = "flows" /\ ev' = ev /\ verdict' = verdict /\ facts' = facts
        /\ ev \in Evidence /\ Grown(ev, facts)
    BY DEF Flows, Inv, Growing
  <1>2. /\ accepted => /\ flow' = [p \in FlowPaths(c, d) |-> VerifyFlow(c, facts.growth, p)]
                       /\ stage' = "lifecycle"
        /\ ~accepted => stage' = "refused"
    BY DEF Flows
  <1>3. Concluding' /\ DeterminateIsProven'
    BY <1>1, Undecided
  <1>4. x = Canonical(d)
    BY DEF Canonical
  <1>5. CASE accepted
    BY <1>1, <1>2, <1>3, <1>4, <1>5
       DEF Inv, Growing, Flowing, Living, FailuresExplained
  <1>6. CASE ~accepted
    <2>1. /\ c \in Candidates /\ Reconciled(d)
          /\ c.pattern = "distinct" => x \in Handlers(c)
      BY <1>1, <1>4, GrownFacts
    <2>2. \/ \E p \in c.flows : c.target[p] \notin c.roles
          \/ c.pattern = "distinct" /\ Cardinality(Handlers(c)) > 1
          \/ c.flows = {} /\ c.roles \cap Roles = {}
      <3>1. CASE ~RowsAccepted(c, x)
        <4>1. PICK p \in c.flows : ~SameHandler(c, c.from[p], x) \/ c.target[p] \notin c.roles
          BY <3>1 DEF RowsAccepted
        <4>2. CASE c.target[p] \notin c.roles
          BY <4>2
        <4>3. CASE ~SameHandler(c, c.from[p], x)
          <5>1. c.pattern = "distinct" /\ c.from[p] # x
            BY <4>3 DEF SameHandler
          <5>2. c.from[p] \in Handlers(c) /\ x \in Handlers(c)
            BY <2>1, <5>1 DEF Handlers
          <5> QED BY <2>1, <5>1, <5>2, TwoHandlers
        <4> QED BY <4>1, <4>2, <4>3
      <3>2. CASE Supplemented(c, d) /\ c.roles \cap Roles = {}
        BY <3>2 DEF Supplemented
      <3> QED BY <1>6, <2>1, <3>1, <3>2
    <2>3. stage' = "refused"
      BY <1>2, <1>6
    <2>4. FailuresExplained'
      BY <1>1, <2>2, <2>3 DEF FailuresExplained
    <2> QED BY <1>1, <1>3, <2>3, <2>4 DEF Inv, Growing, Flowing, Living
  <1> QED BY <1>5, <1>6

\* The lifecycle stage decides for every path.
LEMMA LifecycleInv ==
    ASSUME Inv, Lifecycle
    PROVE  Inv'
  <1>1. /\ stage = "lifecycle" /\ stage' = "conclude" /\ ev' = ev /\ verdict' = verdict
        /\ facts' = facts /\ flow' = flow
        /\ life' = [p \in DOMAIN flow |-> Decisions(ev, flow[p], p)]
        /\ coverage' = CompleteFamilies(ev)
    BY DEF Lifecycle
  <1>2. Concluding' /\ DeterminateIsProven'
    BY <1>1, Undecided
  <1> QED BY <1>1, <1>2
       DEF Inv, Growing, Flowing, Living, FailuresExplained

\* The next run starts without a decision.
LEMMA RerunInv ==
    ASSUME Inv, Rerun
    PROVE  Inv'
  <1>1. ev' \in Evidence /\ stage' = "growth" /\ verdict' = "none"
    BY WeakerTyped DEF Inv, Rerun
  <1>2. verdict' \notin Determinate
    BY <1>1 DEF Determinate, Verdicts
  <1> QED BY <1>1, <1>2
       DEF Inv, Growing, Flowing, Living, Concluding, DeterminateIsProven,
           FailuresExplained

\* What a positive proof gate has seen: every path is verified and formal, and an
\* ordinary caller reaches the pair.
LEMMA GatePassed ==
    ASSUME Inv, stage = "conclude", NEW a1, NEW a2, ProofGate(a1, a2),
           NEW c, c = ev.candidate
    PROVE  /\ c \in Candidates /\ DOMAIN flow = c.flows
           /\ \A p \in c.flows : flow[p].status = "verified" /\ p # GapPath
           /\ ~ev.authGap
           /\ ev.contexts \in {{"unauthenticated"}, {"low_privilege"}}
           /\ ev.gates = {"default_enabled"}
           /\ Traced(c) /\ Grounded(c) /\ Covered(ev)
           /\ facts.amplification = Amplification(c)
           /\ facts.repeat = "proven" => ev.trigger
  <1> DEFINE d == facts.disposition
             x == Canonical(d)
  <1>1. /\ ev \in Evidence /\ Grown(ev, facts)
        /\ RowsAccepted(c, x)
        /\ flow = [p \in FlowPaths(c, d) |-> VerifyFlow(c, facts.growth, p)]
    BY DEF Inv, Growing, Flowing
  <1>2. /\ Covered(ev) /\ facts.reach = "ordinary_attacker_reachable"
        /\ facts.growth = "verified" /\ \A p \in DOMAIN flow : flow[p].status = "verified"
        /\ facts.disposition.status = "formal_eligible"
    BY DEF ProofGate
  <1>3. /\ c \in Candidates /\ Binds(c, x) /\ facts.growth = VerifyGrowth(c, x)
        /\ facts.amplification = Amplification(c)
        /\ facts.repeat = "proven" => ev.trigger
    BY <1>1, GrownFacts
  <1>4. \E claim : facts.reach = Reachability(ev, claim)
    BY <1>1, GrownFacts
  <1>5. /\ ~ev.authGap
        /\ ev.contexts \in {{"unauthenticated"}, {"low_privilege"}}
        /\ ev.gates = {"default_enabled"}
    BY <1>1, <1>2, <1>4, ProvenReach
  <1>6. Grounded(c)
    BY <1>2, <1>3, VerifiedGrowth
  <1>7. DOMAIN flow = c.flows
    BY <1>1, <1>2 DEF FlowPaths, Supplemented
  <1>8. \A p \in c.flows : /\ flow[p].status = "verified"
                           /\ flow[p] = VerifyFlow(c, facts.growth, p)
    BY <1>1, <1>2, <1>7
  <1>9. \A p \in c.flows : p # GapPath /\ c.gaps[p] = {}
    BY <1>3, <1>8, VerifiedFlow
  <1>10. Traced(c)
    BY <1>1, <1>2, <1>9, FormalIsTraced
  <1> QED BY <1>2, <1>3, <1>5, <1>6, <1>7, <1>8, <1>9, <1>10

\* What a matched assertion about a path proves.
LEMMA MatchedIsProven ==
    ASSUME Inv, stage = "conclude", NEW a1, NEW a2, ProofGate(a1, a2),
           NEW c, c = ev.candidate, NEW p \in c.flows, NEW d,
           d = life[CHOOSE q \in DOMAIN flow : TRUE],
           a1[p] = EvaluateAssertion1(ev, facts, flow[p], p, d),
           a2[p] = EvaluateAssertion2(ev, facts, flow[p], p, d)
    PROVE  /\ a1[p] = "matched" =>
                SingleDemand(c, p) /\ Ineffective("guard") /\ Ineffective("bound")
           /\ a2[p] = "matched" =>
                /\ Accumulates(c, p) /\ ev.trigger
                /\ Ineffective("bound") /\ Ineffective("release")
           /\ a1[p] = "refuted" => SingleDemand(c, p)
           /\ a2[p] = "refuted" => Accumulates(c, p)
           /\ SingleDemand(c, p) /\ a1[p] \notin {"matched", "unknown"} =>
                /\ {} \in ev.guard \cup ev.bound
                /\ Examined("guard") /\ Examined("bound")
           /\ Accumulates(c, p) /\ a2[p] \notin {"matched", "unknown"} =>
                /\ {} \in ev.bound \cup ev.release
                /\ Examined("bound") /\ Examined("release")
  <1> DEFINE p0 == CHOOSE q \in DOMAIN flow : TRUE
             G == "guard" \in CompleteFamilies(ev)
             B == "bound" \in CompleteFamilies(ev)
             R == "release" \in CompleteFamilies(ev)
  <1>0. ev \in Evidence /\ c \in Candidates
    BY EvidenceFields DEF Inv
  <1>1. /\ DOMAIN flow = c.flows
        /\ \A q \in c.flows : flow[q].status = "verified" /\ q # GapPath
        /\ facts.amplification = Amplification(c)
        /\ facts.repeat = "proven" => ev.trigger
    BY GatePassed
  <1>2. /\ facts.reach = "ordinary_attacker_reachable" /\ facts.growth = "verified"
        /\ LifecycleComplete(a1[p], {"guard", "bound"})
        /\ LifecycleComplete(a2[p], {"bound", "release"})
    BY <1>1 DEF ProofGate
  <1>3. p0 \in DOMAIN flow /\ flow[p0].status = "verified"
    BY <1>1
  <1>4. /\ life[p0] = Decisions(ev, flow[p0], p0)
        /\ coverage = CompleteFamilies(ev)
    BY <1>3 DEF Inv, Living
  <1>5. d = [guard |-> EvaluateGuard(ev.guard, G),
             bound |-> EvaluatePathBounds(ev.bound, B),
             release |-> EvaluateRelease(ev.release, R)]
    BY <1>3, <1>4 DEF Decisions
  <1>6. /\ d.guard = EvaluateGuard(ev.guard, G)
        /\ d.bound = EvaluatePathBounds(ev.bound, B)
        /\ d.release = EvaluateRelease(ev.release, R)
    BY <1>5
  <1> G \in BOOLEAN /\ B \in BOOLEAN /\ R \in BOOLEAN
    OBVIOUS
  <1> HIDE DEF G, B, R
  <1>7. /\ Examined("guard") <=> "guard" \in coverage
        /\ Examined("bound") <=> "bound" \in coverage
        /\ Examined("release") <=> "release" \in coverage
    BY <1>4 DEF CompleteFamilies, Examined, Families
  <1>8. /\ d.guard.status = "effective" => {} \in ev.guard
        /\ d.guard.status \notin {"unknown", "effective"} /\ ~d.guard.open =>
             /\ {} \notin ev.guard
             /\ \A k \in ev.guard : k \cap {"config", "coverage", "async", "transfer"} = {}
    BY <1>0, <1>6, GuardDecided
  <1>9. /\ d.bound.status = "effective" <=> {} \in ev.bound
        /\ d.bound.status \notin {"unknown", "effective"} /\ ~d.bound.open =>
             \A k \in ev.bound : k \cap {"config", "coverage", "async", "transfer"} = {}
    BY <1>0, <1>6, BoundDecided
  <1>10. /\ d.release.status = "effective" => {} \in ev.release
         /\ d.release.status \notin {"unknown", "effective"} /\ ~d.release.open =>
              /\ {} \notin ev.release
              /\ \A k \in ev.release : k \cap {"config", "coverage", "async", "transfer"} = {}
    BY <1>0, <1>6, ReleaseDecided
  <1>11. /\ Unrestrained(c, facts, p) <=> SingleDemand(c, p)
         /\ Target(c, p) = c.target[p]
    BY <1>0, <1>1, Demands
  <1>12. /\ a1[p] \in {"matched", "refuted"} => SingleDemand(c, p)
         /\ a1[p] = "matched" => /\ d.guard.status \notin {"unknown", "effective"}
                                 /\ ~d.guard.open
                                 /\ d.bound.status \notin {"unknown", "effective"}
                                 /\ ~d.bound.open
         /\ SingleDemand(c, p) =>
              /\ a1[p] \in {"matched", "refuted", "unknown"}
              /\ a1[p] = "refuted" => \/ d.guard.status = "effective"
                                      \/ d.bound.status = "effective"
    BY <1>1, <1>2, <1>11, FirstAssertion
  <1>13. /\ a2[p] \in {"matched", "refuted"} => facts.repeat = "proven" /\ Accumulates(c, p)
         /\ a2[p] = "matched" => /\ d.bound.status \notin {"unknown", "effective"}
                                 /\ ~d.bound.open
                                 /\ d.release.status \notin {"unknown", "effective"}
                                 /\ ~d.release.open
         /\ Accumulates(c, p) =>
              /\ a2[p] \in {"matched", "refuted", "unknown"}
              /\ a2[p] = "refuted" => \/ d.bound.status = "effective"
                                      \/ d.release.status = "effective"
    BY <1>0, <1>1, <1>2, <1>11, SecondAssertion
  <1>14. /\ a1[p] # "not_applicable" => Examined("guard") /\ Examined("bound")
         /\ a2[p] # "not_applicable" => Examined("bound") /\ Examined("release")
    BY <1>2, <1>7 DEF LifecycleComplete
  <1>15. a1[p] = "matched" =>
           SingleDemand(c, p) /\ Ineffective("guard") /\ Ineffective("bound")
    BY <1>8, <1>9, <1>12, <1>14 DEF Ineffective
  <1>16. a2[p] = "matched" =>
           /\ Accumulates(c, p) /\ ev.trigger
           /\ Ineffective("bound") /\ Ineffective("release")
    BY <1>1, <1>9, <1>10, <1>13, <1>14 DEF Ineffective
  <1>17. SingleDemand(c, p) /\ a1[p] \notin {"matched", "unknown"} =>
           /\ {} \in ev.guard \cup ev.bound
           /\ Examined("guard") /\ Examined("bound")
    BY <1>8, <1>9, <1>12, <1>14
  <1>18. Accumulates(c, p) /\ a2[p] \notin {"matched", "unknown"} =>
           /\ {} \in ev.bound \cup ev.release
           /\ Examined("bound") /\ Examined("release")
    BY <1>9, <1>10, <1>13, <1>14
  <1> QED BY <1>12, <1>13, <1>15, <1>16, <1>17, <1>18

\* What the verdict says of the statuses that were found (derive_verdict).
LEMMA Derived ==
    ASSUME NEW found, NEW covered \in BOOLEAN, NEW v, v = DeriveVerdict(found, covered),
           v \in Determinate
    PROVE  /\ "unknown" \notin found
           /\ v = "static_vulnerable" => "matched" \in found
           /\ v # "static_vulnerable" => "refuted" \in found /\ "matched" \notin found
  BY DEF DeriveVerdict, Determinate, Verdicts

\* A conclusion is drawn from proven paths, and refused only over unproven ones.
LEMMA ConcludeInv ==
    ASSUME Inv, Conclude
    PROVE  Inv'
  <1> DEFINE c == ev.candidate
             P == DOMAIN flow
             d == life[CHOOSE p \in P : TRUE]
             a1 == [p \in P |-> EvaluateAssertion1(ev, facts, flow[p], p, d)]
             a2 == [p \in P |-> EvaluateAssertion2(ev, facts, flow[p], p, d)]
             found == {a1[p] : p \in P} \cup {a2[p] : p \in P}
             v == Gated(DeriveVerdict(found, Covered(ev)), a1, a2)
             agree == \A p, q \in P : life[p] = life[q]
             concluded == PairHasPath /\ agree /\ CertificateAccepts(v)
  <1>1. /\ stage = "conclude" /\ ev' = ev /\ facts' = facts /\ flow' = flow
        /\ concluded => stage' = "concluded" /\ verdict' = v
        /\ ~concluded => stage' = "refused" /\ verdict' = verdict
    BY DEF Conclude
  <1>2. \A p \in P : /\ a1[p] = EvaluateAssertion1(ev, facts, flow[p], p, d)
                     /\ a2[p] = EvaluateAssertion2(ev, facts, flow[p], p, d)
    OBVIOUS
  <1>3. ASSUME concluded, v \in Determinate PROVE DeterminateIsProven'
    <2> HIDE DEF a1, a2
    <2>1. ProofGate(a1, a2) /\ v = DeriveVerdict(found, Covered(ev))
      BY <1>3 DEF Gated, Determinate
    <2>2. /\ "unknown" \notin found
          /\ v = "static_vulnerable" => "matched" \in found
          /\ v # "static_vulnerable" => "refuted" \in found /\ "matched" \notin found
      <3>1. Covered(ev) \in BOOLEAN
        BY DEF Covered
      <3> HIDE DEF found, v
      <3> QED BY <1>3, <2>1, <3>1, Derived
    <2>3. /\ c \in Candidates /\ P = c.flows
          /\ ~ev.authGap
          /\ ev.contexts \in {{"unauthenticated"}, {"low_privilege"}}
          /\ ev.gates = {"default_enabled"}
          /\ Traced(c) /\ Grounded(c) /\ Covered(ev)
      BY <1>1, <2>1, GatePassed
    <2>4. ASSUME NEW p \in c.flows
          PROVE  /\ a1[p] = "matched" =>
                      SingleDemand(c, p) /\ Ineffective("guard") /\ Ineffective("bound")
                 /\ a2[p] = "matched" =>
                      /\ Accumulates(c, p) /\ ev.trigger
                      /\ Ineffective("bound") /\ Ineffective("release")
                 /\ a1[p] = "refuted" => SingleDemand(c, p)
                 /\ a2[p] = "refuted" => Accumulates(c, p)
                 /\ SingleDemand(c, p) /\ a1[p] \notin {"matched", "unknown"} =>
                      /\ {} \in ev.guard \cup ev.bound
                      /\ Examined("guard") /\ Examined("bound")
                 /\ Accumulates(c, p) /\ a2[p] \notin {"matched", "unknown"} =>
                      /\ {} \in ev.bound \cup ev.release
                      /\ Examined("bound") /\ Examined("release")
      BY <1>1, <1>2, <2>1, <2>3, MatchedIsProven
    <2>5. \A p \in c.flows : a1[p] \in found /\ a2[p] \in found
      BY <2>3
    <2>6. \A s \in found : \E p \in c.flows : s = a1[p] \/ s = a2[p]
      BY <2>3
    <2> HIDE DEF found, v
    <2>7. v = "static_vulnerable" =>
            \E p \in c.flows :
               \/ SingleDemand(c, p) /\ Ineffective("guard") /\ Ineffective("bound")
               \/ /\ Accumulates(c, p) /\ ev.trigger
                  /\ Ineffective("bound") /\ Ineffective("release")
      BY <2>2, <2>4, <2>6
    <2>8. v # "static_vulnerable" =>
            /\ \E p \in c.flows : SingleDemand(c, p) \/ Accumulates(c, p)
            /\ \A p \in c.flows :
                 /\ SingleDemand(c, p) => /\ {} \in ev.guard \cup ev.bound
                                          /\ Examined("guard") /\ Examined("bound")
                 /\ Accumulates(c, p) => /\ {} \in ev.bound \cup ev.release
                                         /\ Examined("bound") /\ Examined("release")
      <3> SUFFICES ASSUME v # "static_vulnerable"
                   PROVE  /\ \E p \in c.flows : SingleDemand(c, p) \/ Accumulates(c, p)
                          /\ \A p \in c.flows :
                               /\ SingleDemand(c, p) => /\ {} \in ev.guard \cup ev.bound
                                                        /\ Examined("guard") /\ Examined("bound")
                               /\ Accumulates(c, p) => /\ {} \in ev.bound \cup ev.release
                                                       /\ Examined("bound") /\ Examined("release")
        OBVIOUS
      <3>1. \E p \in c.flows : SingleDemand(c, p) \/ Accumulates(c, p)
        <4>1. PICK p \in c.flows : a1[p] = "refuted" \/ a2[p] = "refuted"
          BY <2>2, <2>6
        <4> QED BY <2>4, <4>1
      <3>2. \A p \in c.flows : /\ a1[p] \notin {"matched", "unknown"}
                               /\ a2[p] \notin {"matched", "unknown"}
        BY <2>2, <2>5
      <3> QED BY <2>4, <3>1, <3>2
    <2>9. ev' = ev /\ verdict' = v
      BY <1>1, <1>3
    <2>10. /\ \A p : SingleDemand(c, p)' <=> SingleDemand(c, p)
           /\ \A p : Accumulates(c, p)' <=> Accumulates(c, p)
           /\ \A f : Ineffective(f)' <=> Ineffective(f)
           /\ \A f : Examined(f)' <=> Examined(f)
      BY <2>9 DEF SingleDemand, Accumulates, Ineffective, Examined
    <2> QED BY <2>3, <2>7, <2>8, <2>9, <2>10 DEF DeterminateIsProven
  <1>4. ASSUME ~concluded PROVE \E p \in P : flow[p].status # "verified"
    <2> SUFFICES ASSUME \A p \in P : flow[p].status = "verified"
                 PROVE  concluded
      BY <1>4
    <2>1. PairHasPath
      <3>1. Grown(ev, facts) /\ ev \in Evidence /\ P = FlowPaths(c, facts.disposition)
        BY <1>1 DEF Inv, Growing, Flowing
      <3> QED BY <3>1, SomePath DEF PairHasPath
    <2>2. agree
      <3>1. \A p \in P : life[p] = Decisions(ev, flow[p], p)
        BY <1>1 DEF Inv, Living
      <3>2. \A p, q \in P : Decisions(ev, flow[p], p) = Decisions(ev, flow[q], q)
        BY DEF Decisions
      <3> QED BY <3>1, <3>2
    <2>3. CertificateAccepts(v)
      <3>1. ~Covered(ev) => v = "static_unknown"
        BY DEF Gated, ProofGate
      <3> QED BY <3>1 DEF CertificateAccepts
    <2> QED BY <2>1, <2>2, <2>3
  <1> HIDE DEF v, concluded
  <1>5. CASE concluded
    <2>1. DeterminateIsProven'
      BY <1>1, <1>3, <1>5 DEF DeterminateIsProven
    <2> QED BY <1>1, <1>5, <2>1
         DEF Inv, Growing, Flowing, Living, Concluding, FailuresExplained
  <1>6. CASE ~concluded
    <2>1. Concluding' /\ DeterminateIsProven'
      BY <1>1, <1>6, Undecided
    <2>2. stage' = "refused"
      BY <1>1, <1>6
    <2>3. FailuresExplained'
      BY <1>1, <1>4, <1>6, <2>2 DEF FailuresExplained
    <2> QED BY <1>1, <2>1, <2>2, <2>3
         DEF Inv, Growing, Flowing, Living
  <1> QED BY <1>5, <1>6

\* Every stage finds the decisions of the stages before it, in every run.
THEOREM Invariance == Spec => []Inv
  <1>1. Init => Inv
    BY InputsAssumption
       DEF Init, Inv, Growing, Flowing, Living, Concluding, Determinate, Verdicts,
           DeterminateIsProven, FailuresExplained
  <1>2. ASSUME Inv, [Next]_vars PROVE Inv'
    <2>1. CASE UNCHANGED vars
      BY <1>2, <2>1
         DEF vars, Inv, Growing, Flowing, Living, Concluding, DeterminateIsProven,
             FailuresExplained, SingleDemand, Accumulates,
             Ineffective, Examined
    <2> QED BY <1>2, <2>1, AssociationFailsInv, DismissInv, GrowthInv, FlowsInv,
               LifecycleInv, ConcludeInv, RerunInv DEF Next
  <1> QED BY <1>1, <1>2, PTL DEF Spec

-----------------------------------------------------------------------------
(* The theorems.                                                           *)

\* A determinate verdict rests on complete evidence throughout, whatever the
\* provider claims about the Entry (VerdictProofGate, derive_verdict).
THEOREM VerdictsAreProven == Spec => []DeterminateIsProven
  <1>1. Inv => DeterminateIsProven
    BY DEF Inv
  <1> QED BY <1>1, Invariance, PTL

\* A stage only fails for a reason that is in the evidence.
THEOREM FailuresAreExplained == Spec => []FailuresExplained
  <1>1. Inv => FailuresExplained
    BY DEF Inv
  <1> QED BY <1>1, Invariance, PTL

\* A contract that says what the facts say is bound to a formal candidate and
\* verified (bind_provider_growth_contract, verify_growth_contract).
THEOREM FormalCanBeVerified == Spec => []FormalIsVerifiable
  <1>1. Inv => FormalIsVerifiable
    <2> SUFFICES ASSUME Inv, stage = "flows",
                        facts.disposition.status = "formal_eligible"
                 PROVE  FormalIsVerifiable
      BY DEF FormalIsVerifiable
    <2> DEFINE c == ev.candidate
               x == (CHOOSE l \in facts.disposition.links : TRUE).entry
    <2>1. ev \in Evidence /\ Grown(ev, facts)
      BY DEF Inv, Growing
    <2>2. /\ c \in Candidates /\ Complete(c) /\ Association(c).status = "complete"
          /\ x = Canonical(Association(c))
      <3>1. x = Canonical(facts.disposition)
        BY DEF Canonical
      <3> QED BY <2>1, <3>1, GrownFacts
    <2>3. Matched(c, x) # {}
      <3>1. PICK r \in c.rows : /\ Witness(c, r.path)
                                /\ SameHandler(c, c.from[r.path], x)
        BY <2>2, CompleteIsClaimed
      <3>2. r.path \in Paths
        BY <2>2, RowLinks
      <3> QED BY <3>1, <3>2 DEF Matched
    <2>4. ASSUME c.named, c.usual, AmplificationFact(c) # "low_amplification"
          PROVE  /\ Binds([c EXCEPT !.answer = Faithful(c, x)], x)
                 /\ VerifyGrowth([c EXCEPT !.answer = Faithful(c, x)], x) = "verified"
      BY <2>2, <2>3, <2>4, FaithfulIsVerified
    <2> QED BY <2>4 DEF FormalIsVerifiable
  <1> QED BY <1>1, Invariance, PTL

-----------------------------------------------------------------------------
(* What a determinate verdict is a function of.                            *)

\* The verified flow of a path, and the lifecycle decisions about it.
Fine == [status |-> "verified", reasons |-> {}]
Held(e) ==
    [guard |-> EvaluateGuard(e.guard, "guard" \in CompleteFamilies(e)),
     bound |-> EvaluatePathBounds(e.bound, "bound" \in CompleteFamilies(e)),
     release |-> EvaluateRelease(e.release, "release" \in CompleteFamilies(e))]

\* The decisions of the growth stage about a pair that an ordinary caller reaches
\* and whose contract is verified.
Best(e) ==
    LET a == Association(e.candidate) IN
      [reach |-> "ordinary_attacker_reachable", repeat |-> Repeatability(e, a),
       amplification |-> Amplification(e.candidate), growth |-> "verified",
       disposition |-> Mature(e.candidate, a, "formal_eligible")]

First(e, p) == EvaluateAssertion1(e, Best(e), Fine, p, Held(e))
Second(e, p) == EvaluateAssertion2(e, Best(e), Fine, p, Held(e))
Found(e) ==
    {First(e, p) : p \in e.candidate.flows} \cup {Second(e, p) : p \in e.candidate.flows}
Outcome(e) == DeriveVerdict(Found(e), TRUE)

\* Everything up to the lifecycle is proven.
Strong(e) ==
    LET c == e.candidate
        a == Association(c)
        x == Canonical(a)
    IN  /\ ~e.authGap
        /\ e.contexts \in {{"unauthenticated"}, {"low_privilege"}}
        /\ e.gates = {"default_enabled"}
        /\ Covered(e)
        /\ Maturation(c, a) = "formal_eligible"
        /\ SliceBuilt(c, x) /\ Binds(c, x) /\ VerifyGrowth(c, x) = "verified"
        /\ RowsAccepted(c, x)
        /\ \A p \in c.flows : VerifyFlow(c, "verified", p) = Fine

\* So are the families that the assertions ask about.
Backed(e) ==
    \A p \in e.candidate.flows :
      /\ First(e, p) = "not_applicable" \/ {"guard", "bound"} \subseteq CompleteFamilies(e)
      /\ Second(e, p) = "not_applicable" \/ {"bound", "release"} \subseteq CompleteFamilies(e)

Good(e) == Strong(e) /\ Backed(e) /\ Outcome(e) \in Determinate

\* Candidates that differ in their notes, and in the gaps of paths without a flow.
Alike(c, k) ==
    /\ c.kind = k.kind /\ c.scope = k.scope /\ c.roles = k.roles
    /\ c.complete = k.complete /\ c.testSite = k.testSite /\ c.usual = k.usual
    /\ c.supplement = k.supplement /\ c.pattern = k.pattern /\ c.near = k.near
    /\ c.rows = k.rows /\ c.routed = k.routed /\ c.flows = k.flows
    /\ c.from = k.from /\ c.target = k.target /\ c.twins = k.twins
    /\ c.named = k.named /\ c.sourced = k.sourced /\ c.answer = k.answer
    /\ \A p \in c.flows : c.gaps[p] = k.gaps[p]

\* Their links, and so their associations, are the same.
LEMMA AlikeLinks ==
    ASSUME NEW c, NEW k, Alike(c, k)
    PROVE  Links(c) \subseteq Links(k)
  <1>1. /\ \A p : Witness(c, p) <=> Witness(k, p)
        /\ \A p : RowMatches(c, p) <=> RowMatches(k, p)
        /\ \A x, y : SameHandler(c, x, y) <=> SameHandler(k, x, y)
    BY DEF Alike, Witness, RowMatches, SameHandler
  <1>2. \A x, r : Link(c, x, r) = Link(k, x, r)
    BY <1>1, Zenon DEF Link
  <1>3. ASSUME NEW l \in QueryLinks(c) PROVE l \in QueryLinks(k)
    <2>1. PICK r \in c.rows :
            l \in {Link(c, x, r) :
                     x \in {x \in Entries : IF c.routed THEN x = c.from[r.path]
                                            ELSE SameHandler(c, x, c.from[r.path])}}
      BY <1>3 DEF QueryLinks
    <2>2. PICK x \in Entries : /\ l = Link(c, x, r)
                               /\ IF c.routed THEN x = c.from[r.path]
                                  ELSE SameHandler(c, x, c.from[r.path])
      BY <2>1
    <2>3. /\ l = Link(k, x, r) /\ r \in k.rows
          /\ IF k.routed THEN x = k.from[r.path] ELSE SameHandler(k, x, k.from[r.path])
      BY <1>1, <1>2, <2>2 DEF Alike
    <2> QED BY <2>3 DEF QueryLinks
  <1>4. ScanLinks(c) \subseteq ScanLinks(k)
    BY <1>1 DEF ScanLinks, Alike
  <1> QED BY <1>3, <1>4 DEF Links

LEMMA AlikeAssociated ==
    ASSUME NEW c, NEW k, Alike(c, k)
    PROVE  Association(c) = Association(k)
  <1>0. Alike(k, c)
    BY DEF Alike
  <1>1. Links(c) = Links(k)
    <2>1. Links(c) \subseteq Links(k)
      BY AlikeLinks
    <2>2. Links(k) \subseteq Links(c)
      BY <1>0, AlikeLinks
    <2> QED BY <2>1, <2>2
  <1>2. /\ c.pattern = k.pattern /\ c.near = k.near
        /\ \A x, y : SameHandler(c, x, y) <=> SameHandler(k, x, y)
    BY DEF Alike, SameHandler
  <1>3. SourceOrder(c) = SourceOrder(k)
    BY <1>2 DEF SourceOrder
  <1>4. ASSUME NEW links PROVE Canonicalized(c, links) = Canonicalized(k, links)
    <2>1. \A linked : Agree(c, linked) <=> Agree(k, linked)
      BY <1>2 DEF Agree
    <2> QED BY <1>2, <2>1 DEF Canonicalized
  <1>5. (\A l, m \in Links(c) : SameHandler(c, l.entry, m.entry))
          <=> (\A l, m \in Links(k) : SameHandler(k, l.entry, m.entry))
    BY <1>1, <1>2
  <1> QED BY <1>1, <1>3, <1>4, <1>5, Zenon DEF Association

\* What makes a candidate formal (evaluate_candidate_relevance, _mature_disposition).
LEMMA FormalWhen ==
    ASSUME NEW c, NEW a
    PROVE  Maturation(c, a) = "formal_eligible" <=>
             /\ ~c.testSite /\ ~Harmless(c) /\ Promise(c) = "full"
             /\ Complete(c) /\ a.status = "complete" /\ Cardinality(a.links) = 1
  <1>1. CASE c.testSite
    <2>1. Relevance(c, a) = "rejected"
      BY <1>1, Zenon DEF Relevance
    <2> QED BY <1>1, <2>1 DEF Maturation
  <1>2. CASE ~c.testSite /\ Harmless(c)
    <2>1. Relevance(c, a) \in {"rejected", "unresolved"}
      BY <1>2 DEF Relevance
    <2> QED BY <1>2, <2>1 DEF Maturation
  <1>3. CASE ~c.testSite /\ ~Harmless(c) /\ (Cardinality(a.links) # 1 \/ Promise(c) = "none")
    <2>1. Relevance(c, a) = "unresolved"
      BY <1>3 DEF Relevance
    <2> QED BY <1>3, <2>1 DEF Maturation
  <1>4. CASE ~c.testSite /\ ~Harmless(c) /\ Cardinality(a.links) = 1 /\ Promise(c) # "none"
    <2>1. CASE Promise(c) = "full" /\ Complete(c) /\ a.status = "complete"
      <3>1. Relevance(c, a) = "contract_eligible"
        BY <1>4, <2>1 DEF Relevance
      <3> QED BY <1>4, <2>1, <3>1 DEF Maturation
    <2>2. CASE ~(Promise(c) = "full" /\ Complete(c) /\ a.status = "complete")
      <3>1. Relevance(c, a) = "dos_relevant_partial"
        BY <1>4, <2>2 DEF Relevance
      <3> QED BY <2>2, <3>1 DEF Maturation
    <2> QED BY <2>1, <2>2
  <1> QED BY <1>1, <1>2, <1>3, <1>4

\* Their slices, contracts and flows are the same.
LEMMA AlikeVerified ==
    ASSUME NEW c, NEW k, Alike(c, k), NEW x
    PROVE  /\ Complete(c) <=> Complete(k)
           /\ SliceBuilt(c, x) <=> SliceBuilt(k, x)
           /\ Binds(c, x) <=> Binds(k, x)
           /\ VerifyGrowth(c, x) = VerifyGrowth(k, x)
           /\ RowsAccepted(c, x) <=> RowsAccepted(k, x)
           /\ \A g : \A p \in c.flows : VerifyFlow(c, g, p) = VerifyFlow(k, g, p)
  <1>1. /\ \A p : Witness(c, p) <=> Witness(k, p)
        /\ \A y, z : SameHandler(c, y, z) <=> SameHandler(k, y, z)
    BY DEF Alike, Witness, SameHandler
  <1>2. Matched(c, x) = Matched(k, x)
    BY <1>1 DEF Matched, Alike
  <1>3. Complete(c) <=> Complete(k)
    BY DEF Complete, Alike
  <1>4. SliceBuilt(c, x) <=> SliceBuilt(k, x)
    BY <1>2 DEF SliceBuilt, FactsDistinct, Alike
  <1>5. Binds(c, x) <=> Binds(k, x)
    BY <1>2 DEF Binds, Alike
  <1>6. Attested(c, x) <=> Attested(k, x)
    <2>1. ValueSpaceFact(c) = ValueSpaceFact(k)
      BY DEF ValueSpaceFact, Alike
    <2>2. RetentionFact(c) = RetentionFact(k)
      BY DEF RetentionFact, Alike
    <2>3. AmplificationFact(c) = AmplificationFact(k)
      BY DEF AmplificationFact, Alike
    <2> QED BY <1>2, <2>1, <2>2, <2>3 DEF Attested, Alike
  <1>7. VerifyGrowth(c, x) = VerifyGrowth(k, x)
    BY <1>3, <1>6 DEF VerifyGrowth, Alike
  <1>8. RowsAccepted(c, x) <=> RowsAccepted(k, x)
    BY <1>1 DEF RowsAccepted, Alike
  <1>9. ASSUME NEW g, NEW p \in c.flows PROVE VerifyFlow(c, g, p) = VerifyFlow(k, g, p)
    <2>1. Gaps(c, p) = Gaps(k, p)
      BY DEF Gaps, Alike
    <2>2. FlowReasons(c, g, p) = FlowReasons(k, g, p)
      BY <2>1 DEF FlowReasons
    <2> QED BY <2>2 DEF VerifyFlow
  <1> QED BY <1>3, <1>4, <1>5, <1>7, <1>8, <1>9

\* Evidence that is as good about the caller, with a candidate that is alike.
AsReachable(e, w) ==
    /\ e.authGap = w.authGap /\ e.contexts = w.contexts /\ e.gates = w.gates
    /\ e.patterns = w.patterns /\ e.trigger = w.trigger

LEMMA AsStrong ==
    ASSUME NEW e, NEW w, Strong(w), AsReachable(e, w),
           Alike(e.candidate, w.candidate),
           ~Harmless(w.candidate) => ~Harmless(e.candidate),
           Promise(w.candidate) = "full" => Promise(e.candidate) = "full"
    PROVE  Strong(e)
  <1> DEFINE c == e.candidate
             k == w.candidate
             a == Association(c)
             x == Canonical(a)
  <1>1. a = Association(k)
    BY AlikeAssociated
  <1>2. Maturation(k, a) = "formal_eligible"
    BY <1>1 DEF Strong
  <1>3. Maturation(c, a) = "formal_eligible"
    <2>1. c.testSite = k.testSite /\ (Complete(c) <=> Complete(k))
      BY DEF Alike, Complete
    <2> QED BY <1>2, <2>1, FormalWhen
  <1>4. /\ SliceBuilt(c, x) /\ Binds(c, x) /\ VerifyGrowth(c, x) = "verified"
        /\ RowsAccepted(c, x)
    BY <1>1, AlikeVerified DEF Strong
  <1>5. \A p \in c.flows : VerifyFlow(c, "verified", p) = Fine
    <2>1. c.flows = k.flows
      BY DEF Alike
    <2> QED BY <2>1, AlikeVerified DEF Strong
  <1>6. /\ ~e.authGap /\ e.contexts \in {{"unauthenticated"}, {"low_privilege"}}
        /\ e.gates = {"default_enabled"} /\ Covered(e)
    BY DEF Strong, AsReachable, Covered
  <1> QED BY <1>3, <1>4, <1>5, <1>6 DEF Strong

\* Whatever the weaker evidence w leaves closed is closed as it is in e.
Settled(e, w) ==
    /\ ~Held(w).guard.open => Held(e).guard = Held(w).guard
    /\ ~Held(w).bound.open => Held(e).bound = Held(w).bound
    /\ ~Held(w).release.open => Held(e).release = Held(w).release

\* evaluate_assertion_1 and evaluate_assertion_2 ask for closed decisions.
LEMMA AsAsserted ==
    ASSUME NEW e, NEW w, Alike(e.candidate, w.candidate),
           Best(e).repeat = Best(w).repeat, Best(e).amplification = Best(w).amplification,
           Settled(e, w), NEW p
    PROVE  /\ First(w, p) # "unknown" => First(e, p) = First(w, p)
           /\ Second(w, p) # "unknown" => Second(e, p) = Second(w, p)
  <1> DEFINE f == Best(e)
             g == Best(w)
             d == Held(e)
             h == Held(w)
  <1>1. /\ f.reach = "ordinary_attacker_reachable" /\ f.growth = "verified"
        /\ g.reach = "ordinary_attacker_reachable" /\ g.growth = "verified"
        /\ f.repeat = g.repeat /\ f.amplification = g.amplification
    BY DEF Best
  <1>2. /\ e.candidate.kind = w.candidate.kind /\ e.candidate.scope = w.candidate.scope
        /\ Target(e.candidate, p) = Target(w.candidate, p)
    BY DEF Alike, Target
  <1>3. Fine.status = "verified"
    BY DEF Fine
  <1>4. Unrestrained(e.candidate, f, p) <=> Unrestrained(w.candidate, g, p)
    BY <1>1, <1>2 DEF Unrestrained
  <1>5. /\ ~h.guard.open => d.guard = h.guard
        /\ ~h.bound.open => d.bound = h.bound
        /\ ~h.release.open => d.release = h.release
    BY DEF Settled
  <1> HIDE DEF f, g, d, h
  <1>6. ASSUME EvaluateAssertion1(w, g, Fine, p, h) # "unknown"
        PROVE  EvaluateAssertion1(e, f, Fine, p, d) = EvaluateAssertion1(w, g, Fine, p, h)
    <2>1. CASE ~Unrestrained(w.candidate, g, p)
      BY <1>1, <1>2, <1>3, <1>4, <2>1 DEF EvaluateAssertion1
    <2>2. CASE Unrestrained(w.candidate, g, p)
      <3>1. EvaluateAssertion1(w, g, Fine, p, h) =
              IF h.guard.status = "unknown" \/ h.guard.open THEN "unknown"
              ELSE IF h.guard.status = "effective" THEN "refuted"
              ELSE IF h.bound.status = "unknown" \/ h.bound.open THEN "unknown"
              ELSE IF h.bound.status = "effective" THEN "refuted"
              ELSE "matched"
        BY <1>1, <1>3, <2>2 DEF EvaluateAssertion1
      <3>2. EvaluateAssertion1(e, f, Fine, p, d) =
              IF d.guard.status = "unknown" \/ d.guard.open THEN "unknown"
              ELSE IF d.guard.status = "effective" THEN "refuted"
              ELSE IF d.bound.status = "unknown" \/ d.bound.open THEN "unknown"
              ELSE IF d.bound.status = "effective" THEN "refuted"
              ELSE "matched"
        BY <1>1, <1>3, <1>4, <2>2 DEF EvaluateAssertion1
      <3> QED BY <1>5, <1>6, <3>1, <3>2
    <2> QED BY <2>1, <2>2
  <1>7. ASSUME EvaluateAssertion2(w, g, Fine, p, h) # "unknown"
        PROVE  EvaluateAssertion2(e, f, Fine, p, d) = EvaluateAssertion2(w, g, Fine, p, h)
    <2> DEFINE asked(v) == Target(v.candidate, p) \in {"key", "value", "submission_count"}
                             /\ v.candidate.scope \notin {"request", "unknown"}
    <2>1. CASE g.repeat # "proven" \/ ~asked(w)
      BY <1>1, <1>2, <1>3, <2>1 DEF EvaluateAssertion2
    <2>2. CASE g.repeat = "proven" /\ asked(w)
      <3>1. EvaluateAssertion2(w, g, Fine, p, h) =
              IF h.bound.status = "unknown" \/ h.bound.open THEN "unknown"
              ELSE IF h.bound.status = "effective" THEN "refuted"
              ELSE IF h.release.status = "unknown" \/ h.release.open
                      \/ h.release.class \in {"potential_async", "unknown"} THEN "unknown"
              ELSE IF h.release.status = "effective" THEN "refuted"
              ELSE "matched"
        BY <1>1, <1>3, <2>2 DEF EvaluateAssertion2
      <3>2. EvaluateAssertion2(e, f, Fine, p, d) =
              IF d.bound.status = "unknown" \/ d.bound.open THEN "unknown"
              ELSE IF d.bound.status = "effective" THEN "refuted"
              ELSE IF d.release.status = "unknown" \/ d.release.open
                      \/ d.release.class \in {"potential_async", "unknown"} THEN "unknown"
              ELSE IF d.release.status = "effective" THEN "refuted"
              ELSE "matched"
        BY <1>1, <1>2, <1>3, <2>2 DEF EvaluateAssertion2
      <3> QED BY <1>5, <1>7, <3>1, <3>2
    <2> QED BY <2>1, <2>2
  <1> QED BY <1>6, <1>7 DEF First, Second, f, g, d, h

\* A good outcome on the weaker evidence is the outcome on the other.
LEMMA AsGood ==
    ASSUME NEW e, NEW w, Good(w), Strong(e), Alike(e.candidate, w.candidate),
           Best(e).repeat = Best(w).repeat, Best(e).amplification = Best(w).amplification,
           Settled(e, w), CompleteFamilies(w) \subseteq CompleteFamilies(e)
    PROVE  Good(e) /\ Outcome(e) = Outcome(w)
  <1> DEFINE P == e.candidate.flows
  <1>1. w.candidate.flows = P
    BY DEF Alike
  <1>2. Outcome(w) \in Determinate /\ "unknown" \notin Found(w)
    <2>1. Outcome(w) \in Determinate
      BY DEF Good
    <2> QED BY <2>1, Derived DEF Outcome
  <1>3. \A p \in P : First(w, p) # "unknown" /\ Second(w, p) # "unknown"
    BY <1>1, <1>2 DEF Found
  <1>4. \A p \in P : First(e, p) = First(w, p) /\ Second(e, p) = Second(w, p)
    BY <1>3, AsAsserted
  <1>5. Found(e) = Found(w)
    BY <1>1, <1>4 DEF Found
  <1>6. Outcome(e) = Outcome(w)
    BY <1>5 DEF Outcome
  <1>7. Backed(e)
    BY <1>1, <1>4 DEF Good, Backed
  <1> QED BY <1>2, <1>6, <1>7 DEF Good

-----------------------------------------------------------------------------
(* What a good outcome leaves no room for.                                 *)

\* A candidate that everything is known about.
Whole(c) ==
    /\ c.complete /\ c.supplement = {} /\ c.named /\ c.sourced
    /\ c.answer.status = "dos_relevant" /\ c.answer.mechanism /\ c.answer.drivers # {}
    /\ c.answer.required = {"space", "retention", "amplification"}
    /\ \A r \in c.rows : r.claimed
    /\ \A p \in c.flows : c.gaps[p] = {}

LEMMA StrongFacts ==
    ASSUME NEW e \in Evidence, Strong(e), NEW c, c = e.candidate
    PROVE  Whole(c) /\ c.flows # {}
  <1> DEFINE a == Association(c)
             x == Canonical(a)
  <1>0. c \in Candidates
    BY EvidenceFields
  <1>1. /\ Maturation(c, a) = "formal_eligible"
        /\ SliceBuilt(c, x) /\ Binds(c, x) /\ VerifyGrowth(c, x) = "verified"
        /\ \A p \in c.flows : VerifyFlow(c, "verified", p) = Fine
    BY DEF Strong
  <1>2. Complete(c) /\ a.status = "complete"
    BY <1>1, FormalWhen
  <1>3. /\ c.rows # {} /\ \A r \in c.rows : r.claimed /\ Witness(c, r.path)
    BY <1>0, <1>2, CompleteIsClaimed
  <1>4. Grounded(c)
    BY <1>0, <1>1, VerifiedGrowth
  <1>5. c.answer.mechanism
    BY <1>1 DEF VerifyGrowth
  <1>6. \A p \in c.flows : c.gaps[p] = {}
    <2>1. Fine.status = "verified"
      BY DEF Fine
    <2> QED BY <1>0, <1>1, <2>1, VerifiedFlow
  <1> QED BY <1>1, <1>2, <1>3, <1>4, <1>5, <1>6
       DEF Whole, Grounded, Complete, SliceBuilt, Witness

LEMMA GoodFacts ==
    ASSUME NEW e \in Evidence, Good(e), NEW c, c = e.candidate
    PROVE  e.trigger /\ (c.kind \in DirectKinds \/ "loop_gap" \notin c.notes)
  <1>1. PICK p : p \in c.flows
    BY StrongFacts DEF Good
  <1>2. First(e, p) # "unknown" /\ Second(e, p) # "unknown"
    <2>1. "unknown" \notin Found(e)
      <3>1. Outcome(e) \in Determinate
        BY DEF Good
      <3> QED BY <3>1, Derived DEF Outcome
    <2> QED BY <1>1, <2>1 DEF Found
  <1>3. /\ Best(e).reach = "ordinary_attacker_reachable"
        /\ Best(e).repeat = Repeatability(e, Association(c))
        /\ Best(e).amplification = Amplification(c)
    BY DEF Best
  <1>4. e.trigger
    <2> SUFFICES ASSUME ~e.trigger PROVE FALSE
      BY EvidenceFields
    <2>1. Best(e).repeat # "proven"
      BY <1>3 DEF Repeatability
    <2> QED BY <1>2, <1>3, <2>1 DEF Second, EvaluateAssertion2
  <1>5. ASSUME c.kind \notin DirectKinds, "loop_gap" \in c.notes PROVE FALSE
    <2>1. Best(e).amplification = "unknown"
      BY <1>3, <1>5 DEF Amplification
    <2>2. ~Unrestrained(c, Best(e), p)
      BY <1>5, <2>1 DEF Unrestrained
    <2> QED BY <1>2, <1>3, <1>5, <2>1, <2>2 DEF First, EvaluateAssertion1
  <1> QED BY <1>4, <1>5

-----------------------------------------------------------------------------
(* Losing evidence.                                                        *)

\* The notes that a candidate can lose.
Promises == {"origin", "driver", "demand", "cardinality", "field"}

\* A candidate that lost something is not whole any more, or is in a loop nobody
\* modelled, or promises less.
LEMMA Lost ==
    ASSUME NEW c \in Candidates, NEW d \in WeakerCandidate(c), Whole(d)
    PROVE  \/ d.kind \notin DirectKinds /\ "loop_gap" \in d.notes
           \/ /\ Alike(c, d) /\ d.notes \subseteq c.notes
              /\ c.notes \subseteq d.notes \cup Promises
  <1>0. c.rows \subseteq [path : Paths, claimed : BOOLEAN] /\ c.answer \in Answers
    BY CandidateFields
  <1>1. CASE d \in {[c EXCEPT !.complete = FALSE], [c EXCEPT !.named = FALSE],
                    [c EXCEPT !.sourced = FALSE]}
    <2>1. ~d.complete \/ ~d.named \/ ~d.sourced
      BY <1>1 DEF Candidates
    <2> QED BY <2>1 DEF Whole
  <1>2. CASE d = [c EXCEPT !.notes = @ \cup {"loop_gap"},
                           !.complete = @ /\ c.kind \notin DirectKinds]
    <2>1. /\ d.notes = c.notes \cup {"loop_gap"} /\ d.kind = c.kind
          /\ d.complete = (c.complete /\ c.kind \notin DirectKinds)
      BY <1>2 DEF Candidates
    <2> QED BY <2>1 DEF Whole
  <1>3. CASE d \in {[c EXCEPT !.answer.status = "unknown"],
                    [c EXCEPT !.answer.mechanism = FALSE], [c EXCEPT !.answer.drivers = {}]}
    <2>1. \/ d.answer = [c.answer EXCEPT !.status = "unknown"]
          \/ d.answer = [c.answer EXCEPT !.mechanism = FALSE]
          \/ d.answer = [c.answer EXCEPT !.drivers = {}]
      BY <1>3 DEF Candidates
    <2>2. d.answer.status = "unknown" \/ ~d.answer.mechanism \/ d.answer.drivers = {}
      BY <1>0, <2>1 DEF Answers
    <2> QED BY <2>2 DEF Whole
  <1>4. CASE \E n \in Promises : d = [c EXCEPT !.notes = @ \ {n}]
    <2>1. PICK n \in Promises : d = [c EXCEPT !.notes = c.notes \ {n}]
      BY <1>4
    <2>2. Alike(c, d) /\ d.notes = c.notes \ {n}
      BY <2>1 DEF Candidates, Alike
    <2> QED BY <2>1, <2>2
  <1>5. CASE \E x \in Entries : d = [c EXCEPT !.supplement = @ \cup {x}]
    <2>1. d.supplement # {}
      BY <1>5 DEF Candidates
    <2> QED BY <2>1 DEF Whole
  <1>6. CASE \E k \in {"space", "retention", "amplification"} :
               d = [c EXCEPT !.answer.required = @ \ {k}]
    <2>1. PICK k \in {"space", "retention", "amplification"} :
            d = [c EXCEPT !.answer.required = @ \ {k}]
      BY <1>6
    <2>2. d.answer = [c.answer EXCEPT !.required = @ \ {k}]
      BY <2>1 DEF Candidates
    <2>3. k \notin d.answer.required
      BY <1>0, <2>2 DEF Answers
    <2> QED BY <2>1, <2>3 DEF Whole
  <1>7. CASE \E r \in c.rows : d = [c EXCEPT !.rows = (@ \ {r}) \cup {[r EXCEPT !.claimed = FALSE]}]
    <2>1. PICK r \in c.rows : d = [c EXCEPT !.rows = (@ \ {r}) \cup {[r EXCEPT !.claimed = FALSE]}]
      BY <1>7
    <2> DEFINE s == [r EXCEPT !.claimed = FALSE]
    <2>2. s \in d.rows
      BY <2>1 DEF Candidates
    <2>3. ~s.claimed
      BY <1>0
    <2> QED BY <2>2, <2>3 DEF Whole
  <1>8. CASE \E p \in Paths : d = [c EXCEPT !.rows = @ \cup {[path |-> p, claimed |-> FALSE]}]
    <2>1. PICK p \in Paths : d = [c EXCEPT !.rows = @ \cup {[path |-> p, claimed |-> FALSE]}]
      BY <1>8
    <2>2. [path |-> p, claimed |-> FALSE] \in d.rows
      BY <2>1 DEF Candidates
    <2> QED BY <2>2 DEF Whole
  <1>9. CASE \E p \in Paths, g \in FlowGaps : d = [c EXCEPT !.gaps[p] = @ \cup {g}]
    <2>1. PICK p \in Paths, g \in FlowGaps : d = [c EXCEPT !.gaps[p] = @ \cup {g}]
      BY <1>9
    <2>2. /\ d = [c EXCEPT !.gaps = [c.gaps EXCEPT ![p] = c.gaps[p] \cup {g}]]
          /\ c.gaps \in [Paths -> SUBSET FlowGaps] /\ c.flows \subseteq Paths
      BY <2>1, CandidateFields
    <2>3. /\ d.gaps = [c.gaps EXCEPT ![p] = c.gaps[p] \cup {g}]
          /\ d.flows = c.flows /\ d.notes = c.notes
      BY <2>2 DEF Candidates
    <2>4. d.gaps[p] # {} /\ \A q \in Paths \ {p} : d.gaps[q] = c.gaps[q]
      BY <2>2, <2>3
    <2>5. p \notin c.flows
      BY <2>3, <2>4 DEF Whole
    <2>6. Alike(c, d)
      BY <2>2, <2>4, <2>5 DEF Candidates, Alike
    <2> QED BY <2>3, <2>6
  <1> QED BY <1>1, <1>2, <1>3, <1>4, <1>5, <1>6, <1>7, <1>8, <1>9 DEF WeakerCandidate, Promises

\* A candidate that promises less is not less harmless.
LEMMA Promised ==
    ASSUME NEW c, NEW d, c.kind = d.kind, c.scope = d.scope,
           d.notes \subseteq c.notes, c.notes \subseteq d.notes \cup Promises
    PROVE  /\ Harmless(c) => Harmless(d)
           /\ Promise(d) = "full" => Promise(c) = "full"
           /\ Amplification(c) = Amplification(d)
  <1>1. /\ \A n \in {"server_sized", "server_file", "fixed_key", "finite_keyspace", "read_all",
                     "loop_proven", "loop_gap", "single"} : n \in c.notes <=> n \in d.notes
        /\ \A n : n \in d.notes => n \in c.notes
    BY DEF Promises
  <1>2. Amplification(c) = Amplification(d)
    BY <1>1 DEF Amplification
  <1>3. ASSUME Harmless(c) PROVE Harmless(d)
    <2>1. CASE c.kind = "direct_allocation" /\ c.notes \ {"demand"} = {"server_sized"}
      <3>1. d.notes \ {"demand"} = {"server_sized"}
        BY <1>1, <2>1
      <3> QED BY <2>1, <3>1 DEF Harmless
    <2>2. CASE c.notes \cap {"server_file", "fixed_key", "finite_keyspace"} # {}
      BY <1>1, <2>2 DEF Harmless
    <2> QED BY <1>3, <2>1, <2>2 DEF Harmless
  <1>4. ASSUME Promise(d) = "full" PROVE Promise(c) = "full"
    <2>1. CASE d.kind = "input_materialization"
      <3>1. "origin" \in d.notes
        BY <1>4, <2>1 DEF Promise
      <3> QED BY <1>1, <2>1, <3>1 DEF Promise
    <2>2. CASE d.kind = "direct_allocation"
      <3>1. d.notes \cap {"driver", "demand"} # {}
        BY <1>4, <2>2 DEF Promise
      <3> QED BY <1>1, <2>2, <3>1 DEF Promise
    <2>3. CASE d.kind = "container_growth" /\ d.scope = "request"
      <3>1. "cardinality" \in d.notes
        BY <1>4, <2>3 DEF Promise
      <3> QED BY <1>1, <2>3, <3>1 DEF Promise
    <2>4. CASE d.kind = "container_growth" /\ d.scope = "instance" /\ "field" \in d.notes
      <3>1. d.notes \cap {"driver", "demand"} # {}
        BY <1>4, <2>4 DEF Promise
      <3>2. c.notes \cap {"driver", "demand"} # {} /\ "field" \in c.notes
        BY <1>1, <2>4, <3>1
      <3> QED BY <2>4, <3>2 DEF Promise
    <2>5. CASE d.kind = "async_work_growth"
      <3>1. "loop_proven" \in d.notes
        BY <1>4, <2>5 DEF Promise
      <3> QED BY <1>1, <2>5, <3>1 DEF Promise
    <2>6. CASE /\ d.kind \notin {"input_materialization", "direct_allocation", "async_work_growth"}
               /\ ~(d.kind = "container_growth" /\ d.scope = "request")
               /\ ~(d.kind = "container_growth" /\ d.scope = "instance" /\ "field" \in d.notes)
      <3>1. Promise(d) = "none"
        BY <2>6 DEF Promise
      <3> QED BY <1>4, <3>1
    <2> QED BY <2>1, <2>2, <2>3, <2>4, <2>5, <2>6
  <1> QED BY <1>2, <1>3, <1>4

\* The candidates of a family got weaker: they are the same but less is known of
\* the family, or one of them is uncovered.
Uncovered(cs) == \E k \in cs : "coverage" \in k

\* A family that closes all the same is decided as before.
LEMMA GuardKept ==
    ASSUME NEW cs, NEW ds, NEW m \in BOOLEAN, NEW n \in BOOLEAN,
           (ds = cs /\ (n => m)) \/ Uncovered(ds), ~EvaluateGuard(ds, n).open
    PROVE  EvaluateGuard(cs, m) = EvaluateGuard(ds, n)
  <1>1. CASE ds = {}
    <2>1. ds = cs /\ (n => m)
      BY <1>1 DEF Uncovered
    <2>2. n = TRUE
      BY <1>1 DEF EvaluateGuard
    <2> QED BY <2>1, <2>2
  <1>2. CASE ds # {}
    <2>1. ~Open(UNION ds)
      BY <1>2 DEF EvaluateGuard
    <2>2. ~Uncovered(ds)
      BY <2>1 DEF Open, Uncovered
    <2> QED BY <1>2, <2>2 DEF EvaluateGuard
  <1> QED BY <1>1, <1>2

LEMMA BoundKept ==
    ASSUME NEW cs, NEW ds, NEW m \in BOOLEAN, NEW n \in BOOLEAN,
           (ds = cs /\ (n => m)) \/ Uncovered(ds), ~EvaluatePathBounds(ds, n).open
    PROVE  EvaluatePathBounds(cs, m) = EvaluatePathBounds(ds, n)
  <1> DEFINE alone == {EvaluateBound({c}, TRUE) : c \in ds}
             effective == \E d \in alone : d.status = "effective"
  <1>1. ~Uncovered(ds)
    <2>1. CASE effective
      <3>1. ~\E d \in alone : d.open
        BY <2>1 DEF EvaluatePathBounds
      <3>2. \A k \in ds : ~EvaluateBound({k}, TRUE).open
        BY <3>1
      <3>3. \A k \in ds : ~Open(UNION {k})
        BY <3>2 DEF EvaluateBound
      <3> QED BY <3>3 DEF Open, Uncovered
    <2>2. CASE ~effective /\ ds # {}
      <3>1. ~EvaluateBound(ds, n).open
        BY <2>2 DEF EvaluatePathBounds
      <3>2. ~Open(UNION ds)
        BY <2>2, <3>1 DEF EvaluateBound
      <3> QED BY <3>2 DEF Open, Uncovered
    <2>3. CASE ds = {}
      BY <2>3 DEF Uncovered
    <2> QED BY <2>1, <2>2, <2>3
  <1>2. ds = cs /\ (n => m)
    BY <1>1
  <1>3. CASE effective
    BY <1>2, <1>3 DEF EvaluatePathBounds
  <1>4. CASE ~effective
    <2>1. /\ EvaluatePathBounds(ds, n) = EvaluateBound(ds, n)
          /\ EvaluatePathBounds(ds, m) = EvaluateBound(ds, m)
      BY <1>4 DEF EvaluatePathBounds
    <2>2. ASSUME ds = {} PROVE n = TRUE
      <3>1. EvaluateBound(ds, n).open = ~n
        BY <2>2 DEF EvaluateBound
      <3> QED BY <2>1, <3>1
    <2>3. ds # {} => EvaluateBound(ds, n) = EvaluateBound(ds, m)
      BY DEF EvaluateBound
    <2> QED BY <1>2, <2>1, <2>2, <2>3
  <1> QED BY <1>3, <1>4

LEMMA ReleaseKept ==
    ASSUME NEW cs, NEW ds, NEW m \in BOOLEAN, NEW n \in BOOLEAN,
           (ds = cs /\ (n => m)) \/ Uncovered(ds), ~EvaluateRelease(ds, n).open
    PROVE  EvaluateRelease(cs, m) = EvaluateRelease(ds, n)
  <1>1. CASE ds = {}
    <2>1. ds = cs /\ (n => m)
      BY <1>1 DEF Uncovered
    <2>2. n = TRUE
      BY <1>1 DEF EvaluateRelease
    <2> QED BY <2>1, <2>2
  <1>2. CASE ds # {}
    <2> DEFINE unresolved == (UNION ds) \cap {"async", "transfer", "coverage"} # {}
    <2>1. EvaluateRelease(ds, n).open = unresolved
      BY <1>2 DEF EvaluateRelease
    <2>2. ~Uncovered(ds)
      <3>1. \A k \in ds : "coverage" \in k => "coverage" \in UNION ds
        OBVIOUS
      <3> QED BY <2>1, <3>1 DEF Uncovered
    <2>3. EvaluateRelease(ds, m) = EvaluateRelease(ds, n)
      BY <1>2 DEF EvaluateRelease
    <2> QED BY <2>2, <2>3
  <1> QED BY <1>1, <1>2

\* How a family of the weaker evidence relates to the one before.
Loses(e, w, f) ==
    /\ f \in CompleteFamilies(w) => f \in CompleteFamilies(e)
    /\ w[f] = e[f] \/ Uncovered(w[f])

LEMMA LosesSettled ==
    ASSUME NEW e \in Evidence, NEW w \in Evidence, \A f \in Families : Loses(e, w, f)
    PROVE  Settled(e, w) /\ CompleteFamilies(w) \subseteq CompleteFamilies(e)
  <1> DEFINE M(f) == f \in CompleteFamilies(e)
             N(f) == f \in CompleteFamilies(w)
  <1>1. \A f \in Families : (w[f] = e[f] /\ (N(f) => M(f))) \/ Uncovered(w[f])
    BY DEF Loses
  <1>2. "guard" \in Families /\ "bound" \in Families /\ "release" \in Families
    BY DEF Families
  <1>3. /\ w["guard"] = w.guard /\ w["bound"] = w.bound /\ w["release"] = w.release
        /\ e["guard"] = e.guard /\ e["bound"] = e.bound /\ e["release"] = e.release
    OBVIOUS
  <1>4. \A f : M(f) \in BOOLEAN /\ N(f) \in BOOLEAN
    OBVIOUS
  <1>5. /\ Held(e).guard = EvaluateGuard(e.guard, M("guard"))
        /\ Held(e).bound = EvaluatePathBounds(e.bound, M("bound"))
        /\ Held(e).release = EvaluateRelease(e.release, M("release"))
        /\ Held(w).guard = EvaluateGuard(w.guard, N("guard"))
        /\ Held(w).bound = EvaluatePathBounds(w.bound, N("bound"))
        /\ Held(w).release = EvaluateRelease(w.release, N("release"))
    BY DEF Held
  <1>6. CompleteFamilies(w) \subseteq CompleteFamilies(e)
    BY DEF Loses, CompleteFamilies
  <1> HIDE DEF M, N
  <1>10. /\ (w.guard = e.guard /\ (N("guard") => M("guard"))) \/ Uncovered(w.guard)
         /\ (w.bound = e.bound /\ (N("bound") => M("bound"))) \/ Uncovered(w.bound)
         /\ (w.release = e.release /\ (N("release") => M("release"))) \/ Uncovered(w.release)
    BY <1>1, <1>2, <1>3
  <1>7. ASSUME ~Held(w).guard.open PROVE Held(e).guard = Held(w).guard
    <2>1. ~EvaluateGuard(w.guard, N("guard")).open
      BY <1>5, <1>7
    <2>2. EvaluateGuard(e.guard, M("guard")) = EvaluateGuard(w.guard, N("guard"))
      BY <1>4, <1>10, <2>1, GuardKept
    <2> QED BY <1>5, <2>2
  <1>8. ASSUME ~Held(w).bound.open PROVE Held(e).bound = Held(w).bound
    <2>1. ~EvaluatePathBounds(w.bound, N("bound")).open
      BY <1>5, <1>8
    <2>2. EvaluatePathBounds(e.bound, M("bound")) = EvaluatePathBounds(w.bound, N("bound"))
      BY <1>4, <1>10, <2>1, BoundKept
    <2> QED BY <1>5, <2>2
  <1>9. ASSUME ~Held(w).release.open PROVE Held(e).release = Held(w).release
    <2>1. ~EvaluateRelease(w.release, N("release")).open
      BY <1>5, <1>9
    <2>2. EvaluateRelease(e.release, M("release")) = EvaluateRelease(w.release, N("release"))
      BY <1>4, <1>10, <2>1, ReleaseKept
    <2> QED BY <1>5, <2>2
  <1> QED BY <1>6, <1>7, <1>8, <1>9 DEF Settled

\* Evidence that is the same but for what a good outcome does not need keeps it.
LEMMA Kept ==
    ASSUME NEW e \in Evidence, NEW w \in Evidence, Good(w), AsReachable(e, w),
           NEW c, c = e.candidate, NEW d, d = w.candidate,
           Alike(c, d), d.notes \subseteq c.notes, c.notes \subseteq d.notes \cup Promises,
           \A f \in Families : Loses(e, w, f)
    PROVE  Good(e) /\ Outcome(e) = Outcome(w)
  <1>1. /\ Harmless(c) => Harmless(d)
        /\ Promise(d) = "full" => Promise(c) = "full"
        /\ Amplification(c) = Amplification(d)
    BY Promised DEF Alike
  <1>2. Strong(e)
    BY <1>1, AsStrong DEF Good
  <1>3. Association(c) = Association(d)
    BY AlikeAssociated
  <1>4. e.trigger = w.trigger
    BY DEF AsReachable
  <1>5. Best(e).repeat = Best(w).repeat /\ Best(e).amplification = Best(w).amplification
    BY <1>1, <1>3, <1>4 DEF Best, Repeatability
  <1>6. Settled(e, w) /\ CompleteFamilies(w) \subseteq CompleteFamilies(e)
    BY LosesSettled
  <1> QED BY <1>2, <1>5, <1>6, AsGood

\* The same lifecycle evidence loses nothing.
LEMMA SameFamilies ==
    ASSUME NEW e, NEW w, w.domain = e.domain,
           w["guard"] = e["guard"], w["bound"] = e["bound"], w["release"] = e["release"]
    PROVE  \A f \in Families : Loses(e, w, f)
  <1>1. \A f \in Families : w[f] = e[f]
    BY DEF Families
  <1> QED BY <1>1 DEF Loses, CompleteFamilies

\* A family whose candidates are all from before, or uncovered ones instead.
LEMMA LostFamily ==
    ASSUME NEW e \in Evidence, NEW w \in Evidence, NEW f \in Families,
           w.domain = e.domain, \A g \in Families \ {f} : w[g] = e[g],
           Uncovered(w[f]), \A k \in w[f] : "coverage" \in k \/ k \in e[f]
    PROVE  \A g \in Families : Loses(e, w, g)
  <1>1. ASSUME NEW g \in Families \ {f} PROVE Loses(e, w, g)
    <2>1. w[g] = e[g]
      OBVIOUS
    <2> QED BY <2>1 DEF Loses, CompleteFamilies
  <1>2. Loses(e, w, f)
    BY DEF Loses, CompleteFamilies
  <1> QED BY <1>1, <1>2

\* Losing evidence about a candidate.
LEMMA MonotoneCandidate ==
    ASSUME NEW e \in Evidence, NEW d \in WeakerCandidate(e.candidate),
           NEW w \in Evidence, w = [e EXCEPT !.candidate = d], Good(w)
    PROVE  Good(e) /\ Outcome(e) = Outcome(w)
  <1> DEFINE c == e.candidate
  <1>1. w.candidate = d /\ c \in Candidates
    BY EvidenceFields DEF Evidence
  <1>2. Whole(d) /\ (d.kind \in DirectKinds \/ "loop_gap" \notin d.notes)
    BY <1>1, StrongFacts, GoodFacts DEF Good
  <1>3. Alike(c, d) /\ d.notes \subseteq c.notes /\ c.notes \subseteq d.notes \cup Promises
    BY <1>1, <1>2, Lost
  <1>4. /\ AsReachable(e, w) /\ w.domain = e.domain
        /\ w["guard"] = e["guard"] /\ w["bound"] = e["bound"] /\ w["release"] = e["release"]
    BY DEF Evidence, AsReachable
  <1>5. \A f \in Families : Loses(e, w, f)
    BY <1>4, SameFamilies
  <1> HIDE DEF c
  <1> QED BY <1>1, <1>3, <1>4, <1>5, Kept DEF c

\* Losing evidence about a lifecycle family.
LEMMA MonotoneFamily ==
    ASSUME NEW e \in Evidence, NEW w \in Evidence, Good(w),
           w.candidate = e.candidate, AsReachable(e, w),
           \A f \in Families : Loses(e, w, f)
    PROVE  Good(e) /\ Outcome(e) = Outcome(w)
  <1>1. Alike(e.candidate, w.candidate)
    BY DEF Alike
  <1>2. /\ w.candidate.notes \subseteq e.candidate.notes
        /\ e.candidate.notes \subseteq w.candidate.notes \cup Promises
    OBVIOUS
  <1> QED BY <1>1, <1>2, Kept

\* A verdict that survives the loss of evidence was the verdict before.
LEMMA Monotone ==
    ASSUME NEW e \in Evidence, NEW w \in Weaker(e), Good(w)
    PROVE  Good(e) /\ Outcome(e) = Outcome(w)
  <1>0. w \in Evidence
    BY WeakerTyped
  <1>1. /\ ~w.authGap /\ w.gates = {"default_enabled"} /\ "own" \in w.patterns
        /\ w.contexts \in {{"unauthenticated"}, {"low_privilege"}}
        /\ w.trigger
    BY <1>0, GoodFacts DEF Good, Strong, Covered
  <1>2. CASE w \in {[e EXCEPT !.authGap = TRUE], [e EXCEPT !.gates = {}],
                    [e EXCEPT !.trigger = FALSE], [e EXCEPT !.patterns = @ \ {"own"}]}
    <2>1. w.authGap \/ w.gates = {} \/ ~w.trigger \/ "own" \notin w.patterns
      BY <1>2 DEF Evidence
    <2> QED BY <1>1, <2>1
  <1>3. CASE \E c \in WeakerCandidate(e.candidate) : w = [e EXCEPT !.candidate = c]
    BY <1>0, <1>3, MonotoneCandidate
  <1>4. CASE \E c \in IF e.contexts = {} THEN {} ELSE Contexts :
               w = [e EXCEPT !.contexts = @ \cup {c}]
    <2>1. PICK c \in Contexts : e.contexts # {} /\ w = [e EXCEPT !.contexts = @ \cup {c}]
      BY <1>4
    <2>2. w.contexts = e.contexts \cup {c}
      BY <2>1 DEF Evidence
    <2>3. w.contexts = e.contexts
      BY <1>1, <2>1, <2>2
    <2>4. w = e
      BY <1>0, <2>1, <2>3 DEF Evidence
    <2> QED BY <2>4
  <1>5. CASE \E f \in Families : w = [e EXCEPT !.domain = @ \ {f}]
    <2>1. PICK f \in Families : w = [e EXCEPT !.domain = @ \ {f}]
      BY <1>5
    <2>2. /\ w.domain = e.domain \ {f} /\ w.candidate = e.candidate /\ AsReachable(e, w)
          /\ w.guard = e.guard /\ w.bound = e.bound /\ w.release = e.release
      BY <2>1 DEF Evidence, AsReachable
    <2>3. \A g \in Families : w[g] = e[g]
      BY <2>2 DEF Families
    <2>4. \A g \in Families : Loses(e, w, g)
      BY <2>2, <2>3 DEF Loses, CompleteFamilies
    <2> QED BY <1>0, <2>2, <2>4, MonotoneFamily
  <1>6. ASSUME NEW f \in Families, NEW s, w = [e EXCEPT ![f] = s],
               Uncovered(s), \A k \in s : "coverage" \in k \/ k \in e[f]
        PROVE  Good(e) /\ Outcome(e) = Outcome(w)
    <2>1. w = CASE f = "guard" -> [e EXCEPT !.guard = s]
                [] f = "bound" -> [e EXCEPT !.bound = s]
                [] OTHER -> [e EXCEPT !.release = s]
      BY <1>6 DEF Families
    <2>2. /\ w.domain = e.domain /\ w.candidate = e.candidate /\ AsReachable(e, w)
          /\ w[f] = s /\ \A g \in Families \ {f} : w[g] = e[g]
      <3>1. CASE f = "guard"
        BY <1>6, <3>1 DEF Evidence, AsReachable, Families
      <3>2. CASE f = "bound"
        BY <1>6, <3>2 DEF Evidence, AsReachable, Families
      <3>3. CASE f = "release"
        BY <1>6, <3>3 DEF Evidence, AsReachable, Families
      <3> QED BY <3>1, <3>2, <3>3 DEF Families
    <2>3. \A g \in Families : Loses(e, w, g)
      BY <1>0, <1>6, <2>2, LostFamily
    <2> QED BY <1>0, <2>2, <2>3, MonotoneFamily
  <1>7. CASE \E f \in Families : w = [e EXCEPT ![f] = @ \cup {{"coverage"}}]
    <2>1. PICK f \in Families : w = [e EXCEPT ![f] = @ \cup {{"coverage"}}]
      BY <1>7
    <2>2. w = [e EXCEPT ![f] = e[f] \cup {{"coverage"}}]
      BY <2>1
    <2>3. Uncovered(e[f] \cup {{"coverage"}})
      BY DEF Uncovered
    <2> QED BY <1>6, <2>2, <2>3
  <1>8. CASE \E f \in Families : \E c \in e[f] :
               w = [e EXCEPT ![f] = (@ \ {c}) \cup {c \cup {"coverage"}}]
    <2>1. PICK f \in Families : \E c \in e[f] :
               w = [e EXCEPT ![f] = (@ \ {c}) \cup {c \cup {"coverage"}}]
      BY <1>8
    <2>2. PICK c \in e[f] : w = [e EXCEPT ![f] = (@ \ {c}) \cup {c \cup {"coverage"}}]
      BY <2>1
    <2>3. w = [e EXCEPT ![f] = (e[f] \ {c}) \cup {c \cup {"coverage"}}]
      BY <2>2
    <2>4. Uncovered((e[f] \ {c}) \cup {c \cup {"coverage"}})
      BY DEF Uncovered
    <2> QED BY <1>6, <2>3, <2>4
  <1> QED BY <1>2, <1>3, <1>4, <1>5, <1>7, <1>8 DEF Weaker

-----------------------------------------------------------------------------
(* The way from good evidence to its outcome.                              *)

\* An ordinary caller is accepted whatever the Auth Contract claims.
LEMMA StrongReach ==
    ASSUME NEW e \in Evidence, Strong(e), NEW claim \in Claims(e)
    PROVE  Reachability(e, claim) = "ordinary_attacker_reachable"
  <1>1. /\ ~e.authGap /\ e.gates = {"default_enabled"}
        /\ e.contexts \in {{"unauthenticated"}, {"low_privilege"}}
    BY DEF Strong
  <1>2. PICK x \in {"unauthenticated", "low_privilege"} : e.contexts = {x}
    BY <1>1
  <1>3. Cardinality(e.contexts) = 1 /\ Cardinality(e.gates) = 1
    BY <1>1, <1>2, FS_Singleton
  <1>4. claim = x
    BY <1>1, <1>2, <1>3 DEF Claims
  <1>5. AuthContext(e, claim) = x
    BY <1>1, <1>2, <1>3, <1>4 DEF AuthContext
  <1>6. Deployment(e) = "default_enabled"
    BY <1>1, <1>3 DEF Deployment
  <1> QED BY <1>1, <1>2, <1>5, <1>6 DEF Reachability

\* What the growth stage hands on for strong evidence.
LEMMA StrongGrown ==
    ASSUME NEW e \in Evidence, Strong(e), NEW f, Grown(e, f), NEW c, c = e.candidate
    PROVE  /\ f.reach = "ordinary_attacker_reachable" /\ f.growth = "verified"
           /\ f.repeat = Repeatability(e, Association(c))
           /\ f.amplification = Amplification(c)
           /\ f.disposition.status = "formal_eligible"
           /\ Canonical(f.disposition) = Canonical(Association(c))
           /\ FlowPaths(c, f.disposition) = c.flows
  <1> DEFINE a == Association(c)
  <1>1. f.reach = "ordinary_attacker_reachable"
    BY StrongReach DEF Grown
  <1>2. /\ f.growth = "verified" /\ f.repeat = Repeatability(e, a)
        /\ f.amplification = Amplification(c)
    BY DEF Grown, Strong
  <1>3. f.disposition = Mature(c, a, "formal_eligible")
    BY DEF Grown, Strong
  <1>4. f.disposition.status = "formal_eligible" /\ f.disposition.links = a.links
    BY <1>3 DEF Mature
  <1>5. Canonical(f.disposition) = Canonical(a)
    BY <1>4 DEF Canonical
  <1>6. FlowPaths(c, f.disposition) = c.flows
    BY <1>4 DEF FlowPaths, Supplemented
  <1> QED BY <1>1, <1>2, <1>4, <1>5, <1>6

\* The assertions of the conclude stage ask for no more than the evidence gives.
LEMMA AssertedAs ==
    ASSUME NEW e, NEW f, NEW w, NEW p, NEW d, d = Held(e), w.status = "verified",
           f.reach = "ordinary_attacker_reachable", f.growth = "verified",
           f.repeat = Repeatability(e, Association(e.candidate)),
           f.amplification = Amplification(e.candidate)
    PROVE  /\ EvaluateAssertion1(e, f, w, p, d) = First(e, p)
           /\ EvaluateAssertion2(e, f, w, p, d) = Second(e, p)
  <1> DEFINE g == Best(e)
             h == Held(e)
  <1>1. /\ g.reach = f.reach /\ g.growth = f.growth
        /\ g.repeat = f.repeat /\ g.amplification = f.amplification
    BY DEF Best
  <1>2. Fine.status = w.status
    BY DEF Fine
  <1>3. Unrestrained(e.candidate, f, p) <=> Unrestrained(e.candidate, g, p)
    BY <1>1 DEF Unrestrained
  <1> HIDE DEF g, h
  <1>4. EvaluateAssertion1(e, f, w, p, h) = EvaluateAssertion1(e, g, Fine, p, h)
    BY <1>1, <1>2, <1>3 DEF EvaluateAssertion1
  <1>5. EvaluateAssertion2(e, f, w, p, h) = EvaluateAssertion2(e, g, Fine, p, h)
    BY <1>1, <1>2 DEF EvaluateAssertion2
  <1> QED BY <1>4, <1>5 DEF First, Second, g, h

\* What the conclude stage has before it for strong evidence.
LEMMA StrongPaths ==
    ASSUME Inv, stage = "conclude", Strong(ev), NEW c, c = ev.candidate
    PROVE  /\ DOMAIN flow = c.flows /\ c.flows # {}
           /\ coverage = CompleteFamilies(ev)
           /\ facts.reach = "ordinary_attacker_reachable" /\ facts.growth = "verified"
           /\ facts.disposition.status = "formal_eligible"
           /\ \A p \in c.flows :
                /\ flow[p].status = "verified" /\ life[p] = Held(ev)
                /\ EvaluateAssertion1(ev, facts, flow[p], p, Held(ev)) = First(ev, p)
                /\ EvaluateAssertion2(ev, facts, flow[p], p, Held(ev)) = Second(ev, p)
  <1>1. /\ ev \in Evidence /\ Grown(ev, facts)
        /\ flow = [p \in FlowPaths(c, facts.disposition) |-> VerifyFlow(c, facts.growth, p)]
        /\ life = [p \in DOMAIN flow |-> Decisions(ev, flow[p], p)]
        /\ coverage = CompleteFamilies(ev)
    BY DEF Inv, Growing, Flowing, Living
  <1>2. /\ facts.reach = "ordinary_attacker_reachable" /\ facts.growth = "verified"
        /\ facts.repeat = Repeatability(ev, Association(c))
        /\ facts.amplification = Amplification(c)
        /\ facts.disposition.status = "formal_eligible"
        /\ FlowPaths(c, facts.disposition) = c.flows
    BY <1>1, StrongGrown
  <1>3. DOMAIN flow = c.flows /\ c.flows # {}
    BY <1>1, <1>2, StrongFacts
  <1>4. \A p \in c.flows : flow[p].status = "verified"
    <2>1. \A p \in c.flows : flow[p] = Fine
      BY <1>1, <1>2, <1>3 DEF Strong
    <2> QED BY <2>1 DEF Fine
  <1>5. \A p \in c.flows : life[p] = Held(ev)
    <2>1. \A p \in c.flows : life[p] = Decisions(ev, flow[p], p)
      BY <1>1, <1>3
    <2> QED BY <1>4, <2>1 DEF Decisions, Held
  <1>6. \A p \in c.flows :
          /\ EvaluateAssertion1(ev, facts, flow[p], p, Held(ev)) = First(ev, p)
          /\ EvaluateAssertion2(ev, facts, flow[p], p, Held(ev)) = Second(ev, p)
    BY <1>2, <1>4, AssertedAs
  <1> QED BY <1>1, <1>2, <1>3, <1>4, <1>5, <1>6

\* Nothing but strong evidence passes the proof gate.
LEMMA PassedIsStrong ==
    ASSUME Inv, stage = "conclude", NEW a1, NEW a2, ProofGate(a1, a2)
    PROVE  Strong(ev)
  <1> DEFINE c == ev.candidate
             a == Association(c)
             x == Canonical(a)
             d == facts.disposition
  <1>1. /\ ev \in Evidence /\ Grown(ev, facts) /\ RowsAccepted(c, Canonical(d))
        /\ flow = [p \in FlowPaths(c, d) |-> VerifyFlow(c, facts.growth, p)]
    BY DEF Inv, Growing, Flowing
  <1>2. /\ DOMAIN flow = c.flows
        /\ \A p \in c.flows : flow[p].status = "verified"
        /\ ~ev.authGap /\ ev.contexts \in {{"unauthenticated"}, {"low_privilege"}}
        /\ ev.gates = {"default_enabled"} /\ Covered(ev)
    BY GatePassed
  <1>3. facts.growth = "verified" /\ d.status = "formal_eligible"
    BY DEF ProofGate
  <1>4. /\ d = Mature(c, a, Maturation(c, a)) /\ facts.growth = VerifyGrowth(c, x)
        /\ SliceBuilt(c, x) /\ Binds(c, x)
    BY <1>1 DEF Grown
  <1>5. Maturation(c, a) = "formal_eligible"
    BY <1>3, <1>4 DEF Mature
  <1>6. Canonical(d) = x
    BY <1>1, GrownFacts
  <1>7. ASSUME NEW p \in c.flows PROVE VerifyFlow(c, "verified", p) = Fine
    <2>1. VerifyFlow(c, "verified", p).status = "verified"
      BY <1>1, <1>2, <1>3
    <2>2. FlowReasons(c, "verified", p) = {}
      BY <2>1 DEF VerifyFlow
    <2> QED BY <2>2 DEF VerifyFlow, Fine
  <1> QED BY <1>1, <1>2, <1>3, <1>4, <1>5, <1>6, <1>7 DEF Strong

\* Good evidence reaches its outcome, a determinate verdict is earned by good
\* evidence, and the run before came to the same outcome.
Coming ==
    Good(ev) =>
      /\ stage \in {"growth", "flows", "lifecycle", "conclude", "concluded"}
      /\ stage = "concluded" => verdict = Outcome(ev)
Earned == verdict \in Determinate => Good(ev) /\ verdict = Outcome(ev)
Past == runs > 1 /\ Good(ev) => last = Outcome(ev)
Fate == runs \in Nat /\ Coming /\ Earned /\ Past

\* A step of a run keeps what its evidence earned.
LEMMA StepFate ==
    ASSUME Inv, Fate, ev' = ev, verdict' = verdict, last' = last, runs' = runs,
           stage # "concluded", stage' # "concluded",
           Good(ev) => stage' \in {"growth", "flows", "lifecycle", "conclude"}
    PROVE  Fate'
  <1>1. Good(ev)' <=> Good(ev)
    OBVIOUS
  <1>2. Outcome(ev)' = Outcome(ev)
    OBVIOUS
  <1>3. verdict \notin Determinate
    BY DEF Inv, Concluding
  <1> QED BY <1>1, <1>2, <1>3 DEF Fate, Coming, Earned, Past

\* The growth stage neither dismisses nor fails strong evidence.
LEMMA GrowthFate ==
    ASSUME Inv, Fate, AssociationFails \/ Dismiss \/ Growth
    PROVE  Fate'
  <1> DEFINE c == ev.candidate
             a == Association(c)
             x == (CHOOSE l \in a.links : TRUE).entry
             d == Mature(c, a, Maturation(c, a))
  <1>1. /\ stage = "growth" /\ ev' = ev /\ verdict' = verdict /\ last' = last /\ runs' = runs
    BY DEF AssociationFails, Dismiss, Growth
  <1>2. stage' # "concluded"
    BY DEF AssociationFails, Dismiss, Growth
  <1>3. ASSUME Good(ev) PROVE stage' = "flows"
    <2>1. /\ ev \in Evidence /\ c \in Candidates /\ Strong(ev)
      BY <1>3, EvidenceFields DEF Inv, Good
    <2>2. /\ Maturation(c, a) = "formal_eligible"
          /\ SliceBuilt(c, Canonical(a)) /\ Binds(c, Canonical(a))
      BY <2>1 DEF Strong
    <2>3. a.status = "complete"
      BY <2>2, FormalWhen
    <2>4. WellFormed(d)
      BY <2>1, <2>2, Matured
    <2>5. Growth
      BY <2>2, <2>3 DEF AssociationFails, Dismiss
    <2>6. x = Canonical(a)
      BY DEF Canonical
    <2>7. PICK claim \in Claims(ev) :
             IF Reachability(ev, claim) = "not_entry_reachable"
             THEN stage' = "rejected"
             ELSE stage' = IF SliceBuilt(c, x) /\ Binds(c, x) /\ WellFormed(d)
                           THEN "flows" ELSE "failed"
      BY <2>5 DEF Growth
    <2>8. Reachability(ev, claim) = "ordinary_attacker_reachable"
      BY <2>1, StrongReach
    <2> QED BY <2>2, <2>4, <2>6, <2>7, <2>8
  <1> QED BY <1>1, <1>2, <1>3, StepFate

\* Nor does the flow stage refuse it.
LEMMA FlowsFate ==
    ASSUME Inv, Fate, Flows
    PROVE  Fate'
  <1> DEFINE c == ev.candidate
             d == facts.disposition
             x == (CHOOSE l \in d.links : TRUE).entry
  <1>1. /\ stage = "flows" /\ ev' = ev /\ verdict' = verdict /\ last' = last /\ runs' = runs
        /\ stage' \in {"lifecycle", "refused"}
        /\ (/\ Reconciled(d) /\ RowsAccepted(c, x)
            /\ Supplemented(c, d) => c.roles \cap Roles # {}) => stage' = "lifecycle"
    BY DEF Flows
  <1>2. ASSUME Good(ev) PROVE stage' = "lifecycle"
    <2>1. ev \in Evidence /\ Strong(ev) /\ Grown(ev, facts)
      BY <1>1, <1>2 DEF Inv, Growing, Good
    <2>2. Reconciled(d)
      BY <2>1, GrownFacts
    <2>3. d.status = "formal_eligible" /\ Canonical(d) = Canonical(Association(c))
      BY <2>1, StrongGrown
    <2>4. RowsAccepted(c, x)
      BY <2>1, <2>3 DEF Strong, Canonical
    <2>5. ~Supplemented(c, d)
      BY <2>3 DEF Supplemented
    <2> QED BY <1>1, <2>2, <2>4, <2>5
  <1> QED BY <1>1, <1>2, StepFate

\* The conclude stage comes to the outcome of strong evidence that backs it, and
\* to no other determinate verdict.
LEMMA ConcludeFate ==
    ASSUME Inv, Fate, Conclude
    PROVE  Fate'
  <1> DEFINE c == ev.candidate
             P == DOMAIN flow
             d == life[CHOOSE p \in P : TRUE]
             a1 == [p \in P |-> EvaluateAssertion1(ev, facts, flow[p], p, d)]
             a2 == [p \in P |-> EvaluateAssertion2(ev, facts, flow[p], p, d)]
             found == {a1[p] : p \in P} \cup {a2[p] : p \in P}
             v == Gated(DeriveVerdict(found, Covered(ev)), a1, a2)
             concluded == /\ PairHasPath /\ (\A p, q \in P : life[p] = life[q])
                          /\ CertificateAccepts(v)
  <1>1. /\ stage = "conclude" /\ ev' = ev /\ last' = last /\ runs' = runs
        /\ concluded => stage' = "concluded" /\ verdict' = v
        /\ ~concluded => stage' = "refused" /\ verdict' = verdict
    BY DEF Conclude
  <1>2. (Good(ev)' <=> Good(ev)) /\ Outcome(ev)' = Outcome(ev)
    BY <1>1
  <1>3. verdict \notin Determinate
    BY <1>1 DEF Inv, Concluding
  <1>4. ASSUME Strong(ev)
        PROVE  /\ concluded
               /\ v = IF Backed(ev) THEN Outcome(ev) ELSE "static_unknown"
    <2>1. /\ P = c.flows /\ c.flows # {} /\ coverage = CompleteFamilies(ev)
          /\ facts.reach = "ordinary_attacker_reachable" /\ facts.growth = "verified"
          /\ facts.disposition.status = "formal_eligible"
          /\ \A p \in P :
               /\ flow[p].status = "verified" /\ life[p] = Held(ev)
               /\ EvaluateAssertion1(ev, facts, flow[p], p, Held(ev)) = First(ev, p)
               /\ EvaluateAssertion2(ev, facts, flow[p], p, Held(ev)) = Second(ev, p)
      BY <1>1, <1>4, StrongPaths
    <2>2. d = Held(ev)
      BY <2>1
    <2>3. \A p \in P : a1[p] = First(ev, p) /\ a2[p] = Second(ev, p)
      BY <2>1, <2>2
    <2> HIDE DEF a1, a2
    <2>4. found = Found(ev)
      <3>1. /\ {a1[p] : p \in P} = {First(ev, p) : p \in c.flows}
            /\ {a2[p] : p \in P} = {Second(ev, p) : p \in c.flows}
        BY <2>1, <2>3
      <3> QED BY <3>1 DEF Found
    <2>5. Covered(ev) = TRUE
      BY <1>4 DEF Strong, Covered
    <2> HIDE DEF found
    <2>6. ProofGate(a1, a2) <=> Backed(ev)
      BY <2>1, <2>3, <2>5 DEF ProofGate, Backed, LifecycleComplete
    <2>7. v = IF Backed(ev) THEN Outcome(ev) ELSE "static_unknown"
      BY <2>4, <2>5, <2>6 DEF Gated, Outcome
    <2>8. PairHasPath /\ CertificateAccepts(v) /\ \A p, q \in P : life[p] = life[q]
      BY <2>1, <2>5 DEF PairHasPath, CertificateAccepts
    <2> QED BY <2>7, <2>8
  <1>5. ASSUME v \in Determinate PROVE Good(ev) /\ v = Outcome(ev)
    <2>1. ProofGate(a1, a2)
      BY <1>5 DEF Gated, Determinate
    <2>2. Strong(ev)
      BY <1>1, <2>1, PassedIsStrong
    <2>3. Backed(ev) /\ v = Outcome(ev)
      <3> HIDE DEF v, concluded
      <3> QED BY <1>4, <1>5, <2>2 DEF Determinate
    <2> QED BY <1>5, <2>2, <2>3 DEF Good
  <1>6. Good(ev) => concluded /\ v = Outcome(ev)
    BY <1>4 DEF Good
  <1> HIDE DEF v, concluded
  <1>7. Coming' /\ Earned'
    BY <1>1, <1>2, <1>3, <1>5, <1>6 DEF Coming, Earned
  <1>8. runs' \in Nat /\ Past'
    BY <1>1, <1>2 DEF Fate, Past
  <1> QED BY <1>7, <1>8 DEF Fate

\* The next run is of weaker evidence, so what it can still earn was earned before.
LEMMA RerunFate ==
    ASSUME Inv, Fate, Rerun
    PROVE  Fate'
  <1>1. /\ stage \in {"rejected", "inventory_unresolved", "failed", "refused", "concluded"}
        /\ ev' \in Weaker(ev) /\ stage' = "growth" /\ verdict' = "none"
        /\ last' = verdict /\ runs' = runs + 1
    BY DEF Rerun
  <1>2. verdict' \notin Determinate
    BY <1>1 DEF Determinate, Verdicts
  <1>3. ASSUME Good(ev') PROVE last' = Outcome(ev')
    <2>1. Good(ev) /\ Outcome(ev) = Outcome(ev')
      BY <1>1, <1>3, Monotone DEF Inv
    <2>2. stage = "concluded" /\ verdict = Outcome(ev)
      BY <1>1, <2>1 DEF Fate, Coming
    <2> QED BY <1>1, <2>1, <2>2
  <1>4. (Good(ev)' <=> Good(ev')) /\ Outcome(ev)' = Outcome(ev')
    OBVIOUS
  <1>5. runs' \in Nat
    BY <1>1 DEF Fate
  <1> QED BY <1>1, <1>2, <1>3, <1>4, <1>5 DEF Fate, Coming, Earned, Past

\* Whatever the growth stage, the flow stage or the lifecycle stage decide: good
\* evidence comes to one outcome, which the run before came to as well.
THEOREM Fated == Spec => []Fate
  <1>1. Init => Fate
    BY DEF Init, Fate, Coming, Earned, Past, Determinate, Verdicts
  <1>2. ASSUME Inv, Fate, [Next]_vars PROVE Fate'
    <2>1. CASE UNCHANGED vars
      BY <1>2, <2>1 DEF vars, Fate, Coming, Earned, Past
    <2>2. CASE Lifecycle
      <3>1. /\ stage = "lifecycle" /\ stage' = "conclude" /\ ev' = ev /\ verdict' = verdict
            /\ last' = last /\ runs' = runs
        BY <2>2 DEF Lifecycle
      <3> QED BY <1>2, <3>1, StepFate
    <2> QED BY <1>2, <2>1, <2>2, GrowthFate, FlowsFate, ConcludeFate, RerunFate DEF Next
  <1> QED BY <1>1, <1>2, Invariance, PTL DEF Spec

\* Losing evidence never turns a verdict into another determinate one: a run on
\* weaker evidence repeats the verdict or ends without a determinate one
\* (derive_verdict, apply_positive_proof_gate).
THEOREM VerdictsFailClosed == Spec => FailClosed
  <1>1. ASSUME Fate, Fate', [Next]_vars, verdict' \in Determinate, runs > 1,
               ~UNCHANGED vars
        PROVE  verdict' = last
    <2>1. Good(ev') /\ verdict' = Outcome(ev')
      BY <1>1 DEF Fate, Earned
    <2>2. ~Rerun
      BY <1>1 DEF Rerun, Determinate, Verdicts
    <2>3. ev' = ev
      BY <1>1, <2>2 DEF Next, AssociationFails, Dismiss, Growth, Flows, Lifecycle, Conclude
    <2>4. Good(ev) /\ verdict' = Outcome(ev)
      BY <2>1, <2>3
    <2> QED BY <1>1, <2>4 DEF Fate, Past
  <1>2. Fate /\ Fate' /\ [Next]_vars
          => [verdict' \in Determinate /\ runs > 1 => verdict' = last]_vars
    BY <1>1
  <1> QED BY <1>2, Fated, PTL DEF Spec, FailClosed

-----------------------------------------------------------------------------
(* What was let through once is not rejected for what is lost.             *)

\* The evidence that rejects a candidate: its own notes, the only context or the
\* only gate there is.
OutOfReach(e) ==
    /\ ~e.authGap
    /\ e.contexts = {"privileged"} \/ e.gates \in {{"default_disabled"}, {"optional"}}
Rejectable(e) ==
    \/ e.candidate.testSite
    \/ Harmless(e.candidate) /\ Complete(e.candidate)
    \/ OutOfReach(e)

\* A direct allocation whose size is found to be the server's, and nothing else.
ServerSized(e) ==
    /\ e.candidate.kind = "direct_allocation"
    /\ e.candidate.notes \ {"demand"} = {"server_sized"}

\* The growth stage lets nothing rejectable through, a verdict comes last, and the
\* run after a verdict has nothing rejectable either, but for the one shape.
Admitted == stage \in {"flows", "lifecycle", "conclude", "concluded"} => ~Rejectable(ev)
Concluded == verdict # "none" => stage = "concluded"
Pardoned == last # "none" => ~Rejectable(ev) \/ ServerSized(ev)
Pardon == Admitted /\ Concluded /\ Pardoned

\* A pair that is out of reach is found to be, whatever is claimed about the Entry:
\* nothing is asked about the only context there is (verify_auth_contract).
LEMMA OutOfReachIsFound ==
    ASSUME NEW e \in Evidence, OutOfReach(e), NEW claim \in Claims(e)
    PROVE  Reachability(e, claim) = "not_entry_reachable"
  <1>1. CASE e.contexts = {"privileged"}
    <2>1. Cardinality(e.contexts) = 1
      BY <1>1, FS_Singleton
    <2>2. claim = "privileged"
      BY <1>1, <2>1 DEF OutOfReach, Claims
    <2>3. AuthContext(e, claim) = "privileged"
      BY <1>1, <2>1, <2>2 DEF OutOfReach, AuthContext
    <2> QED BY <2>3 DEF OutOfReach, Reachability
  <1>2. CASE e.gates \in {{"default_disabled"}, {"optional"}}
    <2>1. PICK g \in {"default_disabled", "optional"} : e.gates = {g}
      BY <1>2
    <2>2. Cardinality(e.gates) = 1 /\ (CHOOSE h \in e.gates : TRUE) = g
      BY <2>1, FS_Singleton
    <2>3. Deployment(e) = g
      BY <2>2 DEF Deployment
    <2> QED BY <2>1, <2>3 DEF OutOfReach, Reachability
  <1> QED BY <1>1, <1>2 DEF OutOfReach

\* What is lost of a candidate makes it rejectable by its notes in one shape only.
LEMMA LostNotes ==
    ASSUME NEW c \in Candidates, NEW d \in WeakerCandidate(c),
           d.testSite \/ (Harmless(d) /\ Complete(d))
    PROVE  \/ c.testSite \/ (Harmless(c) /\ Complete(c))
           \/ d.kind = "direct_allocation" /\ d.notes \ {"demand"} = {"server_sized"}
  <1>1. CASE \E n \in {"origin", "driver", "demand", "cardinality", "field"} :
               d = [c EXCEPT !.notes = @ \ {n}]
    <2>1. /\ d.kind = c.kind /\ d.testSite = c.testSite /\ d.notes \subseteq c.notes
          /\ d.complete = c.complete /\ d.supplement = c.supplement
      BY <1>1 DEF Candidates
    <2> QED BY <2>1 DEF Harmless, Complete
  <1>2. CASE d = [c EXCEPT !.notes = @ \cup {"loop_gap"},
                           !.complete = @ /\ c.kind \notin DirectKinds]
    <2>1. /\ d.kind = c.kind /\ d.testSite = c.testSite /\ d.notes = c.notes \cup {"loop_gap"}
          /\ d.complete => c.complete
          /\ d.supplement = c.supplement
      BY <1>2 DEF Candidates
    <2> QED BY <2>1 DEF Harmless, Complete
  <1>3. CASE \E x \in Entries : d = [c EXCEPT !.supplement = @ \cup {x}]
    <2>1. /\ d.kind = c.kind /\ d.testSite = c.testSite /\ d.notes = c.notes
          /\ d.complete = c.complete /\ c.supplement \subseteq d.supplement
      BY <1>3 DEF Candidates
    <2> QED BY <2>1 DEF Harmless, Complete
  <1>4. CASE d = [c EXCEPT !.complete = FALSE]
    <2>1. /\ d.testSite = c.testSite /\ ~d.complete
      BY <1>4 DEF Candidates
    <2> QED BY <2>1 DEF Complete
  <1>5. CASE ~ \/ \E n \in {"origin", "driver", "demand", "cardinality", "field"} :
                    d = [c EXCEPT !.notes = @ \ {n}]
               \/ d = [c EXCEPT !.notes = @ \cup {"loop_gap"},
                                !.complete = @ /\ c.kind \notin DirectKinds]
               \/ \E x \in Entries : d = [c EXCEPT !.supplement = @ \cup {x}]
               \/ d = [c EXCEPT !.complete = FALSE]
    <2>1. /\ d.kind = c.kind /\ d.testSite = c.testSite /\ d.notes = c.notes
          /\ d.complete = c.complete /\ d.supplement = c.supplement
      BY <1>5 DEF WeakerCandidate, Candidates
    <2> QED BY <2>1 DEF Harmless, Complete
  <1> QED BY <1>1, <1>2, <1>3, <1>4, <1>5

\* What is lost makes evidence rejectable in one shape only.
LEMMA LostIsNotHeldAgainst ==
    ASSUME NEW e \in Evidence, NEW w \in Weaker(e), Rejectable(w), ~Rejectable(e)
    PROVE  ServerSized(w)
  <1>1. CASE \E c \in WeakerCandidate(e.candidate) : w = [e EXCEPT !.candidate = c]
    <2>1. PICK c \in WeakerCandidate(e.candidate) : w = [e EXCEPT !.candidate = c]
      BY <1>1
    <2>2. /\ w.candidate = c /\ w.authGap = e.authGap /\ w.contexts = e.contexts
          /\ w.gates = e.gates
      BY <2>1 DEF Evidence
    <2>3. c.testSite \/ (Harmless(c) /\ Complete(c))
      BY <2>2 DEF Rejectable, OutOfReach
    <2> QED BY <2>2, <2>3, EvidenceFields, LostNotes DEF Rejectable, ServerSized
  <1>2. CASE \E k \in IF e.contexts = {} THEN {} ELSE Contexts :
               w = [e EXCEPT !.contexts = @ \cup {k}]
    <2>1. PICK k \in Contexts : e.contexts # {} /\ w = [e EXCEPT !.contexts = @ \cup {k}]
      BY <1>2
    <2>2. /\ w.candidate = e.candidate /\ w.authGap = e.authGap /\ w.gates = e.gates
          /\ w.contexts = e.contexts \cup {k}
      BY <2>1 DEF Evidence
    <2>3. w.contexts = {"privileged"} => e.contexts = {"privileged"}
      BY <2>1, <2>2
    <2> QED BY <2>2, <2>3 DEF Rejectable, OutOfReach
  <1>3. CASE w \in {[e EXCEPT !.authGap = TRUE], [e EXCEPT !.gates = {}],
                    [e EXCEPT !.trigger = FALSE], [e EXCEPT !.patterns = @ \ {"own"}]}
    <2>1. /\ w.candidate = e.candidate /\ w.contexts = e.contexts
          /\ w.authGap \/ (w.authGap = e.authGap /\ w.gates \in {e.gates, {}})
      BY <1>3 DEF Evidence
    <2> QED BY <2>1 DEF Rejectable, OutOfReach
  <1>4. CASE \/ \E f \in Families : w = [e EXCEPT !.domain = @ \ {f}]
             \/ \E f \in Families : \E s : w = [e EXCEPT ![f] = s]
    <2>1. /\ w.candidate = e.candidate /\ w.contexts = e.contexts
          /\ w.authGap = e.authGap /\ w.gates = e.gates
      BY <1>4 DEF Evidence, Families
    <2> QED BY <2>1 DEF Rejectable, OutOfReach
  <1> QED BY <1>1, <1>2, <1>3, <1>4 DEF Weaker

\* The growth stage rejects what is rejectable, and lets nothing rejectable through.
LEMMA GrowthRejects ==
    ASSUME Inv, AssociationFails \/ Dismiss \/ Growth
    PROVE  /\ stage' = "rejected" => Rejectable(ev)
           /\ stage' = "flows" => ~Rejectable(ev)
           /\ stage' \in {"rejected", "inventory_unresolved", "failed", "flows"}
           /\ stage = "growth" /\ UNCHANGED <<ev, verdict, last>>
  <1> DEFINE c == ev.candidate
             a == Association(c)
  <1>1. c \in Candidates /\ ev \in Evidence
    BY EvidenceFields DEF Inv
  <1>2. CASE AssociationFails
    BY <1>2 DEF AssociationFails
  <1>3. CASE Dismiss
    <2>1. /\ stage = "growth" /\ UNCHANGED <<ev, verdict, last>>
          /\ stage' = Maturation(c, a) /\ stage' \in {"rejected", "inventory_unresolved"}
      BY <1>3 DEF Dismiss
    <2>2. stage' = "rejected" => c.testSite \/ (Harmless(c) /\ Complete(c))
      BY <1>1, <2>1, RejectedCandidate
    <2> QED BY <2>1, <2>2 DEF Rejectable
  <1>4. CASE Growth
    <2>1. /\ stage = "growth" /\ UNCHANGED <<ev, verdict, last>>
          /\ Maturation(c, a) \in {"formal_eligible", "gap_eligible"}
      BY <1>4 DEF Growth
    <2>2. PICK claim \in Claims(ev) :
             IF Reachability(ev, claim) = "not_entry_reachable"
             THEN stage' = "rejected" ELSE stage' \in {"flows", "failed"}
      BY <1>4 DEF Growth
    <2>3. ~c.testSite /\ ~Harmless(c)
      BY <1>1, <2>1, Matured
    <2>4. stage' = "rejected" => OutOfReach(ev)
      BY <1>1, <2>2, ProvenReach DEF OutOfReach
    <2>5. stage' = "flows" => ~OutOfReach(ev)
      BY <1>1, <2>2, OutOfReachIsFound
    <2> QED BY <2>1, <2>2, <2>3, <2>4, <2>5 DEF Rejectable
  <1> QED BY <1>2, <1>3, <1>4

\* The evidence of a run after a verdict is not rejectable, but for one shape.
THEOREM Pardons == Spec => []Pardon
  <1>1. Init => Pardon
    BY DEF Init, Pardon, Admitted, Concluded, Pardoned
  <1>2. ASSUME Inv, Pardon, [Next]_vars PROVE Pardon'
    <2>1. CASE UNCHANGED vars
      BY <1>2, <2>1 DEF vars, Pardon, Admitted, Concluded, Pardoned, Rejectable,
                        OutOfReach, ServerSized
    <2>2. CASE AssociationFails \/ Dismiss \/ Growth
      <3>1. /\ stage' = "flows" => ~Rejectable(ev)
            /\ stage' \in {"rejected", "inventory_unresolved", "failed", "flows"}
            /\ stage = "growth" /\ ev' = ev /\ verdict' = verdict /\ last' = last
        BY <1>2, <2>2, GrowthRejects
      <3>2. (Rejectable(ev)' <=> Rejectable(ev)) /\ (ServerSized(ev)' <=> ServerSized(ev))
        BY <3>1 DEF Rejectable, OutOfReach, ServerSized
      <3> QED BY <1>2, <3>1, <3>2 DEF Pardon, Admitted, Concluded, Pardoned
    <2>3. CASE Flows \/ Lifecycle \/ Conclude
      <3>1. /\ stage \in {"flows", "lifecycle", "conclude"} /\ ev' = ev /\ last' = last
            /\ verdict' = verdict \/ stage' = "concluded"
        BY <2>3 DEF Flows, Lifecycle, Conclude
      <3>2. (Rejectable(ev)' <=> Rejectable(ev)) /\ (ServerSized(ev)' <=> ServerSized(ev))
        BY <3>1 DEF Rejectable, OutOfReach, ServerSized
      <3> QED BY <1>2, <3>1, <3>2 DEF Pardon, Admitted, Concluded, Pardoned
    <2>4. CASE Rerun
      <3>1. ev' \in Weaker(ev) /\ stage' = "growth" /\ verdict' = "none" /\ last' = verdict
        BY <2>4 DEF Rerun
      <3>2. verdict # "none" => ~Rejectable(ev)
        BY <1>2 DEF Pardon, Admitted, Concluded
      <3>3. ~Rejectable(ev) => ~Rejectable(ev') \/ ServerSized(ev')
        BY <1>2, <3>1, LostIsNotHeldAgainst DEF Inv
      <3>4. (Rejectable(ev)' <=> Rejectable(ev')) /\ (ServerSized(ev)' <=> ServerSized(ev'))
        OBVIOUS
      <3> QED BY <3>1, <3>2, <3>3, <3>4 DEF Pardon, Admitted, Concluded, Pardoned
    <2> QED BY <1>2, <2>1, <2>2, <2>3, <2>4 DEF Next
  <1> QED BY <1>1, <1>2, Invariance, PTL DEF Spec

\* A candidate that had a verdict is not rejected when a part of its evidence is lost,
\* but for a direct allocation that is left with the server's size alone
\* (evaluate_candidate_relevance, verify_auth_contract).
THEOREM LossesNeverReject == Spec => LossNeverRejects
  <1>1. ASSUME Inv, Pardon, [Next]_vars, ~UNCHANGED vars,
               stage' = "rejected", last # "none"
        PROVE  ServerSized(ev)
    <2>1. AssociationFails \/ Dismiss \/ Growth
      BY <1>1 DEF Next, Flows, Lifecycle, Conclude, Rerun
    <2>2. Rejectable(ev)
      BY <1>1, <2>1, GrowthRejects
    <2> QED BY <1>1, <2>2 DEF Pardon, Pardoned
  <1>2. Inv /\ Pardon /\ [Next]_vars
          => [stage' = "rejected" /\ last # "none" =>
                /\ ev.candidate.kind = "direct_allocation"
                /\ ev.candidate.notes \ {"demand"} = {"server_sized"}]_vars
    BY <1>1 DEF ServerSized
  <1> QED BY <1>2, Invariance, Pardons, PTL DEF Spec, LossNeverRejects
=============================================================================
