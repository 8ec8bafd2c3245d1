-------------------------- MODULE RepositoryCalls --------------------------
(***************************************************************************)
(* The operations of the investment repository that write                  *)
(* (src/investment_domain/postgres_repository.py) and of the services that *)
(* call them, each as the sequence of SQL statements it executes.  Python  *)
(* between two statements sees nothing but what it has read, so it belongs *)
(* to the statement before it; statements that read only rows that never   *)
(* change are put together.                                                *)
(*                                                                         *)
(* InvestmentRepository says what a statement does.  A statement that may  *)
(* find its work done skips the "skip" statements after it.                *)
(***************************************************************************)
EXTENDS InvestmentGraph

Statement(kind, n)  == [do |-> kind, node |-> n]
Commit              == <<[do |-> "commit"]>>
Current             == 0   \* an edge made at CURRENT_TIMESTAMP

\* The two reads of an add_ operation, and the one that replaced them.
NodeThere(n) == Statement("node there", n)
FactThere(n) == [do |-> "fact there", node |-> n, skip |-> 2]
BothThere(n) == [do |-> "both there", node |-> n, skip |-> 2]

\* INSERT INTO domain_nodes ... ON CONFLICT DO NOTHING, then compared.
InsertNode(n) == Statement("insert node", n)

\* INSERT ... ON CONFLICT (node_id) DO NOTHING: if the row is there, it is
\* compared ("compare") or the call fails ("refuse").
InsertFact(n, there) == [do |-> "insert fact", node |-> n, there |-> there]

EdgeRow(source, type, target, at) ==
  [source |-> source, type |-> type, target |-> target, at |-> at]
InsertEdge(edge, there) == [do |-> "insert edge", edge |-> edge, there |-> there]

-----------------------------------------------------------------------------
(* Nodes.                                                                  *)

\* A revision locks the row it replaces before it looks for a successor.
ValidateRevisionAppend(n) ==
  IF n.supersedes = NoId THEN <<>> ELSE <<Statement("revise", n)>>

ValidateMetricRevisionAppend(n) ==
  IF n.supersedes = NoId THEN <<>> ELSE <<Statement("revise", n)>>

WriteNode(n, there) == <<InsertNode(n), InsertFact(n, there)>>

AddSecurity(n) == <<InsertNode(n)>> \o Commit
AddClaim(n)    == WriteNode(n, "compare") \o Commit
AddEvidence(n) == ValidateRevisionAppend(n) \o WriteNode(n, "compare") \o Commit
AddMetric(n)   == ValidateMetricRevisionAppend(n) \o WriteNode(n, "compare")
                  \o Commit

\* Two reads, and a projection that must be new.
AddInTwoReads(n) ==
  <<NodeThere(n), FactThere(n)>> \o WriteNode(n, "refuse") \o Commit

AddEstimate(n)       == AddInTwoReads(n)
AddCatalyst(n)       == AddInTwoReads(n)
AddCatalystImpact(n) == AddInTwoReads(n)
AddForecast(n)       == AddInTwoReads(n)
AddCalculation(n)    == AddInTwoReads(n)

\* A plausible bug: a projection that is there is never what was asked for.
FaultyAddInOneRead(n) == <<BothThere(n)>> \o WriteNode(n, "refuse")

\* One read, and a projection that may turn out to be there.
AddInOneRead(n) == <<BothThere(n)>> \o WriteNode(n, "compare")

AddRisk(n)           == AddInOneRead(n) \o Commit
AddRecommendation(n) == AddInOneRead(n) \o Commit
AddValuation(n)      == AddInOneRead(n) \o Commit

-----------------------------------------------------------------------------
(* Links to evidence.                                                      *)

Endpoints(link, kind) == [do |-> "endpoints", edge |-> link, kind |-> kind]

AddMetricWithEvidenceLink(n, link) ==
  ValidateMetricRevisionAppend(n) \o WriteNode(n, "compare")
  \o <<Endpoints(link, "Metric"), InsertEdge(link, "compare")>> \o Commit

AddClaimEvidenceLink(link) ==
  <<Endpoints(link, "Claim"), InsertEdge(link, "compare")>> \o Commit

AddMetricEvidenceLink(link) ==
  <<Endpoints(link, "Metric"), InsertEdge(link, "compare")>> \o Commit

-----------------------------------------------------------------------------
(* Aggregates: the edges of one type that a node has, written once.        *)

Source(n, lock) == [do |-> "source", node |-> n, lock |-> lock]
Fit(n, ids, kinds, rule) ==
  [do |-> "fit", node |-> n, ids |-> ToSet(ids), kinds |-> kinds, rule |-> rule]
Existing(n, type, ids) ==
  [do |-> "existing", node |-> n, type |-> type, ids |-> ToSet(ids),
   skip |-> Len(ids) + 1]
Persisted(n, type, ids) ==
  [do |-> "persisted", node |-> n, type |-> type, ids |-> ToSet(ids)]
Acyclic(n, ids) == [do |-> "acyclic", node |-> n, ids |-> ToSet(ids)]

\* Validated, compared with what is there, inserted in the order of the
\* caller, and read again.
Aggregate(n, type, ids, there) ==
  <<Existing(n, type, ids)>>
  \o [k \in DOMAIN ids |->
        InsertEdge(EdgeRow(n.id, type, ids[k], Current), there)]
  \o <<Persisted(n, type, ids)>>

AddCatalystAffects(n, ids) ==
  <<Source(n, FALSE), Fit(n, ids, {"Claim", "Forecast"}, "any")>>
  \o Aggregate(n, "AFFECTS", ids, "refuse") \o Commit

AddRiskAffects(n, ids) ==
  <<Source(n, FALSE), Fit(n, ids, {"Claim", "Forecast", "Valuation"}, "any")>>
  \o Aggregate(n, "AFFECTS", ids, "refuse") \o Commit

AddForecastEstimates(n, ids) ==
  <<Source(n, TRUE), Fit(n, ids, {"Estimate"}, "cohort")>>
  \o Aggregate(n, "CONTAINS", ids, "refuse") \o Commit

\* The INSERT has no ON CONFLICT: a duplicate is an error of the database.
AddRecommendationDependencies(n, ids) ==
  <<Source(n, FALSE),
    Fit(n, ids, {"Valuation", "Claim", "Risk", "Catalyst"}, "rationale")>>
  \o Aggregate(n, "DEPENDS_ON", ids, "unique") \o Commit

ValuationDependencies(n, ids) ==
  <<Source(n, TRUE),
    Fit(n, ids, {"Forecast", "Estimate", "Metric", "Calculation",
                 "CatalystImpact"}, "any")>>
  \o Aggregate(n, "DEPENDS_ON", ids, "refuse")

AddValuationDependencies(n, ids) == ValuationDependencies(n, ids) \o Commit

\* The inputs are those of the stored calculation.  The code looks for a cycle
\* once it has compared the set; that order decides only which error is raised.
AddCalculationInputs(n) ==
  <<Source(n, TRUE), Fit(n, n.uses, {"Metric", "Calculation"}, "any"),
    Acyclic(n, n.uses)>>
  \o Aggregate(n, "DERIVED_FROM", n.uses, "refuse") \o Commit

AddEstimateInputs(n, ids) ==
  <<Source(n, TRUE), Fit(n, ids, {"Metric", "Calculation", "Claim"}, "any")>>
  \o Aggregate(n, "DERIVED_FROM", ids, "refuse") \o Commit

\* _calculation_dependency_reaches: start is sought, or derived from it.
DependencyReaches(g, start, sought) ==
  LET reaches[i \in Calculations(g)] ==
        i = sought \/ \E e \in Provenance(g, i) :
                        e.target \in Calculations(g) /\ reaches[e.target]
  IN reaches[start]

-----------------------------------------------------------------------------
(* The services.                                                           *)

\* One transaction: the valuation, what it depends on, and the proof that
\* the stored dependencies reproduce it.
PersistVerifiedValuation(n, ids) ==
  AddInOneRead(n) \o ValuationDependencies(n, ids)
  \o <<Statement("verify", n)>> \o Commit

\* ValuationExecutionService: the inputs at the research cutoff, in
\* transactions of their own; n is what they materialize.
ExecuteValuation(n, ids, cutoff) ==
  <<[do |-> "resolve", node |-> n, ids |-> ToSet(ids), cutoff |-> cutoff]>>
  \o PersistVerifiedValuation(n, ids)

\* SecEdgarProvider.fetch_filing stamps what it has fetched with the time of
\* the fetch, which no id depends on.
Fetched(n, now) == [n EXCEPT !.time = now]

\* select_revenue_fact: the facts that count agree.
SelectedFacts(filing) == {f \in filing.facts : f.role = "revenue"}

\* A plausible bug: the metric is committed before its link is.
FaultyAddLinked(n, link) == AddMetric(n) \o AddMetricEvidenceLink(link)

\* A metric and its link.
AddLinked(n, link) == AddMetricWithEvidenceLink(n, link)

\* SecEdgarIngestionService: the evidence only.
IngestFiling(filing, now) == AddEvidence(Fetched(filing.evidence, now))

\* SecFinancialFactIngestionService: everything that can fail without the
\* repository comes first; then the evidence, then the metric and its link.
IngestFinancialFact(filing, created, now) ==
  IF Cardinality(SelectedFacts(filing)) # 1 THEN <<[do |-> "refuse"]>>
  ELSE LET metric == Fetched(CHOOSE f \in SelectedFacts(filing) : TRUE, now)
       IN IngestFiling(filing, now)
          \o AddLinked(metric, EdgeRow(metric.id, "SUPPORTED_BY",
                                       filing.evidence.id, created))

-----------------------------------------------------------------------------
(* Reads of several statements.                                            *)

ReadLatestEvidence(id, cutoff) ==
  <<[do |-> "walk up", id |-> id], [do |-> "walk down"],
    [do |-> "candidates", id |-> id, cutoff |-> cutoff]>>

ReadEvidence(kind, id, cutoff) ==
  <<[do |-> "links", of |-> kind, id |-> id],
    [do |-> "lineage", of |-> kind, id |-> id, cutoff |-> cutoff]>>

ReadEvidenceForMetric(id, cutoff) == ReadEvidence("Metric", id, cutoff)
ReadEvidenceForClaim(id, cutoff)  == ReadEvidence("Claim", id, cutoff)

-----------------------------------------------------------------------------
(* What a caller may ask for: an operation and its arguments, which are    *)
(* validated before the first statement.                                   *)

\* The kind of node that each operation takes.
Adding ==
  [add_security |-> "Security", add_claim |-> "Claim",
   add_evidence |-> "Evidence", add_metric |-> "Metric",
   add_estimate |-> "Estimate", add_catalyst |-> "Catalyst",
   add_catalyst_impact |-> "CatalystImpact", add_forecast |-> "Forecast",
   add_calculation |-> "Calculation", add_risk |-> "Risk",
   add_recommendation |-> "Recommendation", add_valuation |-> "Valuation"]
Relating ==
  [add_catalyst_affects |-> "Catalyst", add_risk_affects |-> "Risk",
   add_forecast_estimates |-> "Forecast",
   add_recommendation_dependencies |-> "Recommendation",
   add_valuation_dependencies |-> "Valuation",
   add_estimate_inputs |-> "Estimate",
   persist_verified_valuation |-> "Valuation",
   execute_valuation |-> "Valuation"]

NodeFields == {"id", "kind", "series", "time", "published", "supersedes",
               "uses", "cohort", "role", "value"}
EdgeFields == {"source", "type", "target", "at"}

Kinds == {Adding[op] : op \in DOMAIN Adding}

\* Only evidence and metrics have a supersedes_id.
IsRow(n) == /\ n = [x \in NodeFields |-> n[x]]
            /\ n.id # NoId /\ n.kind \in Kinds
            /\ n.time \in Int /\ n.published \in Int
            /\ n.uses \in Seq(ToSet(n.uses))
            /\ n.supersedes # NoId => n.kind \in {"Evidence", "Metric"}
IsRowOf(n, kind) == IsRow(n) /\ n.kind = kind
IsTuple(ids) == ids \in Seq(ToSet(ids)) /\ ids # <<>>
IsLink(e) == /\ e = [x \in EdgeFields |-> e[x]]
             /\ e.type \in {"SUPPORTED_BY", "CONTRADICTED_BY"}

IsRequest(r) ==
  \/ r.op \in DOMAIN Adding /\ IsRowOf(r.node, Adding[r.op])
  \/ r.op \in DOMAIN Relating /\ IsRowOf(r.node, Relating[r.op]) /\ IsTuple(r.ids)
  \/ /\ r.op = "add_calculation_inputs"
     /\ IsRowOf(r.node, "Calculation") /\ IsTuple(r.node.uses)
  \/ /\ r.op = "add_metric_with_evidence_link"
     /\ IsRowOf(r.node, "Metric") /\ IsLink(r.link)
     /\ r.link.source = r.node.id
  \/ /\ r.op \in {"add_metric_evidence_link", "add_claim_evidence_link"}
     /\ IsLink(r.link)
  \/ /\ r.op \in {"ingest_filing", "ingest_financial_fact"}
     /\ IsRowOf(r.filing.evidence, "Evidence")
     /\ \A f \in r.filing.facts : IsRowOf(f, "Metric")
  \/ r.op \in {"latest_evidence_at", "evidence_for_metric_at",
               "evidence_for_claim_at"}

\* The rows that a request carries.
RowsOf(r) ==
  IF r.op \in {"ingest_filing", "ingest_financial_fact"}
  THEN {r.filing.evidence} \cup r.filing.facts
  ELSE IF r.op \in {"add_calculation_inputs", "add_metric_with_evidence_link"}
                   \cup DOMAIN Adding \cup DOMAIN Relating
  THEN {r.node} ELSE {}

\* The statements of the call r that is made at the time now.
Perform(r, now) ==
  CASE r.op = "add_security" -> AddSecurity(r.node)
    [] r.op = "add_claim" -> AddClaim(r.node)
    [] r.op = "add_evidence" -> AddEvidence(r.node)
    [] r.op = "add_metric" -> AddMetric(r.node)
    [] r.op = "add_estimate" -> AddEstimate(r.node)
    [] r.op = "add_catalyst" -> AddCatalyst(r.node)
    [] r.op = "add_catalyst_impact" -> AddCatalystImpact(r.node)
    [] r.op = "add_forecast" -> AddForecast(r.node)
    [] r.op = "add_calculation" -> AddCalculation(r.node)
    [] r.op = "add_risk" -> AddRisk(r.node)
    [] r.op = "add_recommendation" -> AddRecommendation(r.node)
    [] r.op = "add_valuation" -> AddValuation(r.node)
    [] r.op = "add_metric_with_evidence_link" ->
         AddMetricWithEvidenceLink(r.node, r.link)
    [] r.op = "add_metric_evidence_link" -> AddMetricEvidenceLink(r.link)
    [] r.op = "add_claim_evidence_link" -> AddClaimEvidenceLink(r.link)
    [] r.op = "add_catalyst_affects" -> AddCatalystAffects(r.node, r.ids)
    [] r.op = "add_risk_affects" -> AddRiskAffects(r.node, r.ids)
    [] r.op = "add_forecast_estimates" -> AddForecastEstimates(r.node, r.ids)
    [] r.op = "add_recommendation_dependencies" ->
         AddRecommendationDependencies(r.node, r.ids)
    [] r.op = "add_valuation_dependencies" ->
         AddValuationDependencies(r.node, r.ids)
    [] r.op = "add_estimate_inputs" -> AddEstimateInputs(r.node, r.ids)
    [] r.op = "add_calculation_inputs" -> AddCalculationInputs(r.node)
    [] r.op = "persist_verified_valuation" -> PersistVerifiedValuation(r.node, r.ids)
    [] r.op = "execute_valuation" -> ExecuteValuation(r.node, r.ids, r.cutoff)
    [] r.op = "ingest_filing" -> IngestFiling(r.filing, now)
    [] r.op = "ingest_financial_fact" ->
         IngestFinancialFact(r.filing, r.created, now)
    [] r.op = "latest_evidence_at" -> ReadLatestEvidence(r.id, r.cutoff)
    [] r.op = "evidence_for_metric_at" -> ReadEvidenceForMetric(r.id, r.cutoff)
    [] r.op = "evidence_for_claim_at" -> ReadEvidenceForClaim(r.id, r.cutoff)
=============================================================================
