-------------------------- MODULE InvestmentGraph --------------------------
(***************************************************************************)
(* What the investment repository answers from a given database            *)
(* (src/investment_domain/postgres_repository.py, temporal.py, metrics.py, *)
(* claims.py, calculations.py, valuations.py): the point-in-time reads and *)
(* the two verifications, as operators of a database g and a cutoff c.     *)
(*                                                                         *)
(*   g.nodes  id -> row of domain_nodes: the payload, and the digest,      *)
(*            which stands for the content it was computed from            *)
(*   g.facts  id -> row of the projection table of the node's kind         *)
(*   g.edges  the rows of domain_edges                                     *)
(*                                                                         *)
(* A node is a record                                                      *)
(*   id          the canonical id                                          *)
(*   kind        the node type                                             *)
(*   series      what the latest_ reads group by, and what metric          *)
(*               revisions must agree on (metric_revision_key)             *)
(*   time        ingested_at of a source-backed node, as_of of another     *)
(*   published   published_at of a source-backed node                      *)
(*   supersedes  the revision it replaces, or NoId                         *)
(*   uses        input_ids of a Calculation, claims of a Recommendation    *)
(*   cohort      subject, scenario and model version                       *)
(*   role        what a DCF takes it for, "" for nothing                   *)
(*   value       everything else                                           *)
(* A formula, and the DCF, stand for the sum of what they are given.       *)
(***************************************************************************)
EXTENDS Integers, Sequences, FiniteSets, SequencesExt

CONSTANTS NoId, ScalarRoles

None         == [none |-> TRUE]
Failed(code) == [failed |-> code]
IsNode(r)    == "id" \in DOMAIN r
IsFailed(r)  == "failed" \in DOMAIN r

Row(n)        == [payload |-> n, digest |-> n]
Stored(g, id) == id \in DOMAIN g.nodes
KindOf(g, id) == g.nodes[id].digest.kind
Bare          == {"Security"}   \* the kinds that have no projection table
EdgesOf(g, source, type) == {e \in g.edges : e.source = source /\ e.type = type}
Targets(edges) == {e.target : e \in edges}

-----------------------------------------------------------------------------
(* Exact aggregates: the node, its projection and its digest agree.        *)

\* A plausible bug: the payload is compared with its digest only.
FaultyStoredNodeIntegrity(g, id) == g.nodes[id].payload = g.nodes[id].digest

StoredNodeIntegrity(g, id) ==
  /\ g.nodes[id].payload = g.nodes[id].digest
  /\ id \in DOMAIN g.facts => g.facts[id] = g.nodes[id].payload

Load(g, kind, id) ==
  IF ~Stored(g, id) THEN Failed("not found")
  ELSE IF KindOf(g, id) # kind THEN Failed("type")
  ELSE IF kind \notin Bare /\ id \notin DOMAIN g.facts
       THEN Failed("projection")
  ELSE IF ~StoredNodeIntegrity(g, id) THEN Failed("integrity")
  ELSE IF kind \in Bare THEN g.nodes[id].payload ELSE g.facts[id]

LoadExactEstimate(g, id)       == Load(g, "Estimate", id)
LoadExactForecast(g, id)       == Load(g, "Forecast", id)
LoadExactCatalystImpact(g, id) == Load(g, "CatalystImpact", id)
LoadExactValuation(g, id)      == Load(g, "Valuation", id)
LoadExactCalculation(g, id)    == Load(g, "Calculation", id)
LoadExactMetric(g, id)         == Load(g, "Metric", id)
LoadExactSecurity(g, id) ==
  IF Stored(g, id) /\ KindOf(g, id) = "Security" THEN Load(g, "Security", id)
  ELSE None

-----------------------------------------------------------------------------
(* The exact reads: a node, if it was there by the cutoff.                 *)

\* A node that is not stored is an answer, a damaged one an error; integrity
\* comes before visibility.
ExactAt(g, kind, id, c) ==
  IF ~Stored(g, id) THEN None
  ELSE LET n == Load(g, kind, id)
       IN IF IsNode(n) /\ n.time > c THEN None ELSE n

AvailableAt(n, c) == n.published <= c /\ n.time <= c

EvidenceAt(g, id, c) ==
  LET n == IF Stored(g, id) THEN Load(g, "Evidence", id) ELSE None
  IN IF IsNode(n) /\ ~AvailableAt(n, c) THEN None ELSE n

CatalystAt(g, id, c)       == ExactAt(g, "Catalyst", id, c)
CatalystImpactAt(g, id, c) == ExactAt(g, "CatalystImpact", id, c)
ForecastAt(g, id, c)       == ExactAt(g, "Forecast", id, c)
RiskAt(g, id, c)           == ExactAt(g, "Risk", id, c)
RecommendationAt(g, id, c) == ExactAt(g, "Recommendation", id, c)
ValuationAt(g, id, c)      == ExactAt(g, "Valuation", id, c)
EstimateAt(g, id, c)       == ExactAt(g, "Estimate", id, c)

\* The cutoff of claim_at is validated and not used.
ClaimAt(g, id, c) == IF Stored(g, id) THEN Load(g, "Claim", id) ELSE None

-----------------------------------------------------------------------------
(* The latest reads: the newest of a series by the cutoff, unless two are.  *)

InSeries(g, kind, series) ==
  {g.facts[id] : id \in {i \in DOMAIN g.facts :
                           /\ g.facts[i].kind = kind
                           /\ g.facts[i].series = series}}

\* A plausible bug: MAX(as_of) is taken over the whole series.
FaultyNewest(rows, c) ==
  {n \in rows : n.time <= c /\ \A m \in rows : m.time <= n.time}

\* as_of = (SELECT MAX(as_of) ... WHERE as_of <= cutoff)
Newest(rows, c) ==
  {n \in rows : n.time <= c /\ \A m \in rows : m.time <= c => m.time <= n.time}

LatestAt(g, kind, series, c) ==
  LET rows == Newest(InSeries(g, kind, series), c)
  IN IF rows = {} THEN None
     ELSE IF Cardinality(rows) > 1 THEN Failed("ambiguous")
     ELSE ExactAt(g, kind, (CHOOSE n \in rows : TRUE).id, c)

LatestCatalystAt(g, s, c)       == LatestAt(g, "Catalyst", s, c)
LatestCatalystImpactAt(g, s, c) == LatestAt(g, "CatalystImpact", s, c)
LatestForecastAt(g, s, c)       == LatestAt(g, "Forecast", s, c)
LatestRiskAt(g, s, c)           == LatestAt(g, "Risk", s, c)
LatestRecommendationAt(g, s, c) == LatestAt(g, "Recommendation", s, c)
LatestValuationAt(g, s, c)      == LatestAt(g, "Valuation", s, c)
LatestEstimateAt(g, s, c)       == LatestAt(g, "Estimate", s, c)

-----------------------------------------------------------------------------
(* Revision lineages.                                                      *)

SuccessorsOf(g, id) == {i \in DOMAIN g.facts : g.facts[i].supersedes = id}

Root(g, id) ==
  LET up[i \in DOMAIN g.facts] ==
        IF g.facts[i].supersedes = NoId THEN i ELSE up[g.facts[i].supersedes]
  IN up[id]

\* The chain from id on; where it branches, the walk stops with Failed.
Chain(g, id) ==
  LET down[i \in DOMAIN g.facts] ==
        LET next == SuccessorsOf(g, i)
        IN IF next = {} THEN <<i>>
           ELSE IF Cardinality(next) > 1 THEN <<i, NoId>>
           ELSE <<i>> \o down[CHOOSE j \in next : TRUE]
  IN down[id]

\* The ids of the recursive queries: everything below the roots of ids.
Lineage(g, ids) ==
  LET down[i \in DOMAIN g.facts] ==
        {i} \cup UNION {down[j] : j \in SuccessorsOf(g, i)}
  IN UNION {down[Root(g, i)] : i \in ids}

LastVisible(answers) ==
  LET seen == {k \in DOMAIN answers : answers[k] # None}
  IN IF seen = {} THEN None ELSE answers[Max(seen)]

\* Down the chain from its root; the last revision that is visible.
LatestEvidenceAt(g, id, c) ==
  IF id \notin DOMAIN g.facts THEN None
  ELSE LET chain   == Chain(g, Root(g, id))
           answers == [k \in 1 .. Len(chain) |-> EvidenceAt(g, chain[k], c)]
       IN IF Last(chain) = NoId THEN Failed("ambiguous")
          ELSE IF \E k \in DOMAIN answers : IsFailed(answers[k])
               THEN Failed("integrity")
          ELSE LastVisible(answers)

\* The nodes form one chain with one root, ingested in order; the last one
\* that was available by c.
ActiveRevisionAt(nodes, c) ==
  LET roots == {n \in nodes : n.supersedes = NoId}
      after(n) == {m \in nodes : m.supersedes = n.id}
      seen == {n \in nodes : AvailableAt(n, c)}
      chain == /\ Cardinality(roots) = 1
               /\ \A n \in nodes : /\ Cardinality(after(n)) <= 1
                                   /\ \A m \in after(n) : n.time < m.time
               /\ \A n \in nodes \ roots : \E m \in nodes : m.id = n.supersedes
  IN IF nodes = {} THEN None
     ELSE IF ~chain THEN Failed("lineage")
     ELSE IF seen = {} THEN None
     ELSE CHOOSE n \in seen : \A m \in seen : m.time <= n.time

ActiveMetricAt(g, id, c) ==
  LET loaded == {LoadExactMetric(g, i) : i \in Lineage(g, {id})}
  IN IF ~Stored(g, id) \/ KindOf(g, id) # "Metric" \/ id \notin DOMAIN g.facts
     THEN Failed("not found")
     ELSE IF \E n \in loaded : IsFailed(n) THEN Failed("integrity")
     ELSE ActiveRevisionAt(loaded, c)

-----------------------------------------------------------------------------
(* Evidence for a metric or a claim: the links of the time, to revisions   *)
(* that were the active ones of their lineage.                             *)

ActiveIds(g, ids, c) ==
  {ActiveRevisionAt({g.facts[i] : i \in Lineage(g, {id})}, c) : id \in ids}

Eligible(g, links, c) ==
  LET active == ActiveIds(g, Targets(links), c)
  IN IF \E n \in active : IsFailed(n) THEN Failed("lineage")
     ELSE [evidence |-> {<<e.type, g.facts[e.target]>> :
                           e \in {l \in links : /\ l.at <= c
                                                /\ g.facts[l.target] \in active}}]

NoEvidence == [evidence |-> {}]

EligibleMetricEvidence(g, metric, links, c) ==
  IF AvailableAt(metric, c) THEN Eligible(g, links, c) ELSE NoEvidence

EligibleClaimEvidence(g, links, c) == Eligible(g, links, c)

MetricLinks(g, id) == EdgesOf(g, id, "SUPPORTED_BY")
ClaimLinks(g, id) ==
  EdgesOf(g, id, "SUPPORTED_BY") \cup EdgesOf(g, id, "CONTRADICTED_BY")

\* Every revision of the linked lineages is intact.
LineageIntact(g, links) ==
  /\ Targets(links) \subseteq DOMAIN g.facts
  /\ \A i \in Lineage(g, Targets(links)) : IsNode(Load(g, "Evidence", i))

\* From links that were read before: they and the lineages are two statements.
EvidenceForMetricFrom(g, id, links, c) ==
  LET metric == LoadExactMetric(g, id)
  IN IF IsFailed(metric) THEN metric
     ELSE IF links = {} THEN NoEvidence
     ELSE IF ~LineageIntact(g, links) THEN Failed("integrity")
     ELSE EligibleMetricEvidence(g, metric, links, c)

EvidenceForMetricAt(g, id, c) ==
  EvidenceForMetricFrom(g, id, MetricLinks(g, id), c)

EvidenceForClaimFrom(g, id, links, c) ==
  IF ~Stored(g, id) \/ KindOf(g, id) # "Claim" THEN Failed("not found")
  ELSE IF g.nodes[id].payload # g.nodes[id].digest THEN Failed("integrity")
  ELSE IF links = {} THEN NoEvidence
  ELSE IF ~LineageIntact(g, links) THEN Failed("integrity")
  ELSE EligibleClaimEvidence(g, links, c)

EvidenceForClaimAt(g, id, c) ==
  EvidenceForClaimFrom(g, id, ClaimLinks(g, id), c)

-----------------------------------------------------------------------------
(* Calculations.  The id of a calculation is a digest of its input_ids, so *)
(* the recursion ends: an input was there before.                          *)

Provenance(g, id) == EdgesOf(g, id, "DERIVED_FROM")
Calculations(g)   == {i \in DOMAIN g.nodes : KindOf(g, i) = "Calculation"}
FirstOf(verdicts, good) ==
  LET bad == {k \in DOMAIN verdicts : verdicts[k] # good}
  IN IF bad = {} THEN good
     ELSE verdicts[CHOOSE k \in bad : \A j \in bad : k <= j]

\* A plausible bug: the edges of the provenance carry no time.
FaultyCalculationVisibleAt(g, id, c) ==
  LET visible[i \in Calculations(g)] ==
        LET n == LoadExactCalculation(g, i)
            input(j) ==
              IF KindOf(g, j) = "Calculation" THEN visible[j]
              ELSE LET m == LoadExactMetric(g, j)
                   IN IF IsFailed(m) THEN m.failed
                      ELSE IF AvailableAt(m, c) THEN "visible" ELSE "hidden"
        IN IF IsFailed(n) THEN n.failed
           ELSE IF Targets(Provenance(g, i)) # ToSet(n.uses) THEN "provenance"
           ELSE FirstOf([k \in DOMAIN n.uses |-> input(n.uses[k])], "visible")
  IN IF id \in Calculations(g) THEN visible[id] ELSE "not found"

\* "visible", "hidden" or why it cannot be told.  The inputs are taken in
\* order; the provenance of an input matters only once its edge is visible.
CalculationVisibleAt(g, id, c) ==
  LET visible[i \in Calculations(g)] ==
        LET n == LoadExactCalculation(g, i)
            made(j) == (CHOOSE e \in Provenance(g, i) : e.target = j).at
            input(j) ==
              LET m == Load(g, KindOf(g, j), j)
              IN IF IsFailed(m) THEN m.failed
                 ELSE IF made(j) > c THEN "hidden"
                 ELSE IF m.kind = "Calculation" THEN visible[j]
                 ELSE IF m.kind # "Metric" THEN "dependency type"
                 ELSE IF AvailableAt(m, c) THEN "visible" ELSE "hidden"
        IN IF IsFailed(n) THEN n.failed
           ELSE IF Targets(Provenance(g, i)) # ToSet(n.uses) THEN "provenance"
           ELSE FirstOf([k \in DOMAIN n.uses |-> input(n.uses[k])], "visible")
  IN IF id \in Calculations(g) THEN visible[id] ELSE "not found"

CalculationAt(g, id, c) ==
  CASE CalculationVisibleAt(g, id, c) = "visible" -> LoadExactCalculation(g, id)
    [] CalculationVisibleAt(g, id, c) = "hidden"  -> None
    [] OTHER -> Failed(CalculationVisibleAt(g, id, c))

\* evaluate_calculation: what the formula says must be what is materialized.
EvaluateCalculation(n, values) == FoldLeft(LAMBDA x, y : x + y, 0, values)

CalculationVerdict(g, id) ==
  LET verdict[i \in Calculations(g)] ==
        LET n == LoadExactCalculation(g, i)
            input(j) == IF KindOf(g, j) = "Calculation" THEN verdict[j]
                        ELSE LET m == LoadExactMetric(g, j)
                             IN IF IsFailed(m) THEN m.failed ELSE "good"
        IN IF IsFailed(n) THEN n.failed
           ELSE IF Targets(Provenance(g, i)) # ToSet(n.uses) THEN "provenance"
           ELSE LET inputs == FirstOf([k \in DOMAIN n.uses |-> input(n.uses[k])],
                                      "good")
                IN IF inputs # "good" THEN inputs
                   ELSE IF EvaluateCalculation(n, [k \in DOMAIN n.uses |->
                                                     g.facts[n.uses[k]].value])
                           # n.value
                        THEN "not reproducible" ELSE "good"
  IN IF id \in Calculations(g) THEN verdict[id] ELSE "not found"

VerifyCalculation(g, id) ==
  IF CalculationVerdict(g, id) = "good" THEN LoadExactCalculation(g, id)
  ELSE Failed(CalculationVerdict(g, id))

-----------------------------------------------------------------------------
(* Valuations.                                                             *)

\* resolve_dcf_v1_inputs: free cash flows, which are estimates, at least one,
\* and exactly one node for every scalar role; the estimates are of the
\* scenario of the valuation.  Other inputs take no part.
DcfInputs(inputs, cohort) ==
  LET roled == {n \in inputs : /\ n.kind \in {"Estimate", "Metric"}
                               /\ n.role \in ScalarRoles \cup {"fcf"}}
      in(r) == {n \in roled : n.role = r}
  IN IF /\ in("fcf") # {} /\ \A n \in in("fcf") : n.kind = "Estimate"
        /\ \A r \in ScalarRoles : Cardinality(in(r)) = 1
        /\ \A n \in roled : n.kind = "Estimate" => n.cohort = cohort
     THEN roled ELSE {}

EvaluateDcf(inputs, cohort) ==
  LET total(s) == FoldLeft(LAMBDA x, n : x + n.value, 0, SetToSeq(s))
  IN IF DcfInputs(inputs, cohort) = {} THEN Failed("dcf")
     ELSE [value |-> total(DcfInputs(inputs, cohort))]

\* What an input of a valuation is at the cutoff: the node, or why not.
InputAt(g, id, c) ==
  IF ~Stored(g, id) THEN Failed("not visible")
  ELSE LET n == CASE KindOf(g, id) = "Estimate" -> EstimateAt(g, id, c)
                  [] KindOf(g, id) = "Forecast" -> ForecastAt(g, id, c)
                  [] KindOf(g, id) = "CatalystImpact" ->
                       CatalystImpactAt(g, id, c)
                  [] KindOf(g, id) = "Metric" ->
                       LET m == LoadExactMetric(g, id)
                       IN IF IsNode(m) /\ AvailableAt(m, c) THEN m ELSE None
                  [] KindOf(g, id) = "Calculation" -> CalculationAt(g, id, c)
                  [] OTHER -> None
       IN IF IsNode(n) THEN n ELSE Failed("not visible")

InputsAt(g, ids, c) ==
  LET found == {InputAt(g, id, c) : id \in ids}
  IN IF \E n \in found : IsFailed(n) THEN Failed("not visible")
     ELSE [inputs |-> found]

ValuationInputsByIdsAt(g, ids, c) == InputsAt(g, ids, c)

Dependencies(g, id) == EdgesOf(g, id, "DEPENDS_ON")

ValuationInputsAt(g, id, c) ==
  LET v == LoadExactValuation(g, id)
      rows == Dependencies(g, id)
  IN IF IsFailed(v) THEN v
     ELSE IF v.time > c THEN Failed("not visible")
     ELSE IF \E e \in rows : e.at > c THEN Failed("edge not visible")
     ELSE InputsAt(g, Targets(rows), c)

\* The stored dependencies of a valuation reproduce its value.
VerifyValuation(g, id) ==
  LET v == LoadExactValuation(g, id)
      load(i) == IF KindOf(g, i) = "Calculation" THEN VerifyCalculation(g, i)
                 ELSE Load(g, KindOf(g, i), i)
      loaded == {load(i) : i \in Targets(Dependencies(g, id))}
  IN IF IsFailed(v) THEN v
     ELSE IF ~IsNode(LoadExactSecurity(g, v.series)) THEN Failed("security")
     ELSE IF \E n \in loaded : IsFailed(n) THEN Failed("dependency")
     ELSE IF EvaluateDcf(loaded, v.cohort) # [value |-> v.value]
          THEN Failed("not reproducible")
     ELSE v
=============================================================================
