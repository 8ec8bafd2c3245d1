---------------------------- MODULE DomainSchema ----------------------------
(***************************************************************************)
(* The lineage of the Investment Domain schema                             *)
(* (src/investment_domain/postgres_migrations.py): what each of the 22     *)
(* migrations creates, and which CHECK lists it replaces.                  *)
(*                                                                         *)
(* A surface is what the database physically has.  Three separate CHECKs   *)
(* guard a row of domain_edges, and a migration that replaces one of them  *)
(* restates the whole list, so a list may disagree with another one or     *)
(* forget what an earlier migration allowed.  edgeColumns are the columns  *)
(* that migrations add to domain_edges: filled in for the rows that are    *)
(* there, then NOT NULL, with no default.  No other table gets any.        *)
(***************************************************************************)
EXTENDS Integers, Sequences

NoCheck == {"Company", "Security", "Metric", "Claim", "Evidence",
            "Calculation", "Estimate", "Forecast", "Catalyst",
            "CatalystImpact", "Risk", "Valuation", "Recommendation"}
AnyRelation == NoCheck \X {"SUPPORTED_BY", "CONTRADICTED_BY", "DERIVED_FROM",
                           "DEPENDS_ON", "CONTAINS", "AFFECTS"} \X NoCheck

Facts(table) == [tables |-> {table}]
Relation(source, types, targets) == {source} \X types \X targets

OfClaim == Relation("Claim", {"SUPPORTED_BY", "CONTRADICTED_BY"}, {"Evidence"})
OfMetric == Relation("Metric", {"SUPPORTED_BY"}, {"Evidence"})
OfCalculation ==
  Relation("Calculation", {"DERIVED_FROM"}, {"Metric", "Calculation"})
OfEstimate ==
  Relation("Estimate", {"DERIVED_FROM"}, {"Metric", "Calculation", "Claim"})
OfValuation == Relation("Valuation", {"DEPENDS_ON"},
                        {"Forecast", "Estimate", "Metric", "Calculation"})
OfForecast == Relation("Forecast", {"CONTAINS"}, {"Estimate"})
OfCatalyst == Relation("Catalyst", {"AFFECTS"}, {"Claim", "Forecast"})
OfImpact   == Relation("Valuation", {"DEPENDS_ON"}, {"CatalystImpact"})
OfRecommendation == Relation("Recommendation", {"DEPENDS_ON"},
                             {"Valuation", "Claim", "Risk", "Catalyst"})
OfRisk == Relation("Risk", {"AFFECTS"}, {"Claim", "Forecast", "Valuation"})

-----------------------------------------------------------------------------
InitialSchema ==
  [tables    |-> {"domain_nodes", "evidence_facts", "claim_facts",
                  "domain_edges"},
   nodeTypes |-> NoCheck \ {"CatalystImpact"},
   edgeTypes |-> {"SUPPORTED_BY", "CONTRADICTED_BY"},
   targets   |-> NoCheck,
   relations |-> AnyRelation,
   oneSuccessor |-> {"evidence_facts"}]

EdgeCreatedAt == [edgeColumns |-> {"created_at"}]

\* The new columns are filled with Claim and Evidence, whatever the row joins.
EdgeEndpointTypes ==
  [edgeColumns |-> {"created_at", "source_type", "target_type"},
   relations   |-> {r \in AnyRelation : r[1] = "Claim"},
   targets     |-> {"Evidence"}]

MetricFacts == Facts("metric_facts")

AddMetricEvidenceEdges == [relations |-> OfClaim \cup OfMetric]

MetricRevisionConstraints ==
  [oneSuccessor |-> {"evidence_facts", "metric_facts"}]

CalculationFacts == Facts("calculation_facts")

\* A plausible slip: the edges get one more column that has no default.
FaultyCalculationInputProvenance ==
  [edgeColumns |-> {"created_at", "source_type", "target_type", "input_order"},
   edgeTypes |-> {"SUPPORTED_BY", "CONTRADICTED_BY", "DERIVED_FROM"},
   targets   |-> {"Evidence", "Metric", "Calculation"},
   relations |-> OfClaim \cup OfMetric \cup OfCalculation]

CalculationInputProvenance ==
  [edgeTypes |-> {"SUPPORTED_BY", "CONTRADICTED_BY", "DERIVED_FROM"},
   targets   |-> {"Evidence", "Metric", "Calculation"},
   relations |-> OfClaim \cup OfMetric \cup OfCalculation]

EstimateFacts == Facts("estimate_facts")

EstimateInputProvenance ==
  [targets   |-> {"Evidence", "Metric", "Calculation", "Claim"},
   relations |-> OfClaim \cup OfMetric \cup OfCalculation \cup OfEstimate]

ValuationFacts == Facts("valuation_facts")

ValuationDependencies ==
  [edgeTypes |-> {"SUPPORTED_BY", "CONTRADICTED_BY", "DERIVED_FROM",
                  "DEPENDS_ON"},
   targets   |-> {"Evidence", "Metric", "Calculation", "Claim", "Forecast",
                  "Estimate"},
   relations |-> OfClaim \cup OfMetric \cup OfCalculation \cup OfEstimate
                 \cup OfValuation]

ForecastFacts == Facts("forecast_facts")

AddForecastComposition ==
  [edgeTypes |-> {"SUPPORTED_BY", "CONTRADICTED_BY", "DERIVED_FROM",
                  "DEPENDS_ON", "CONTAINS"},
   targets   |-> {"Evidence", "Metric", "Calculation", "Claim", "Forecast",
                  "Estimate"},
   relations |-> OfClaim \cup OfMetric \cup OfCalculation \cup OfEstimate
                 \cup OfValuation \cup OfForecast]

CatalystFacts == Facts("catalyst_facts")

CatalystAffectsEdges ==
  [edgeTypes |-> {"SUPPORTED_BY", "CONTRADICTED_BY", "DERIVED_FROM",
                  "DEPENDS_ON", "CONTAINS", "AFFECTS"},
   relations |-> OfClaim \cup OfMetric \cup OfCalculation \cup OfEstimate
                 \cup OfValuation \cup OfForecast \cup OfCatalyst]

CatalystImpactFacts ==
  [tables |-> {"catalyst_impact_facts"}, nodeTypes |-> NoCheck]

ExtendValuationDependencies ==
  [targets   |-> {"Evidence", "Metric", "Calculation", "Claim", "Forecast",
                  "Estimate", "CatalystImpact"},
   relations |-> OfClaim \cup OfMetric \cup OfCalculation \cup OfEstimate
                 \cup OfValuation \cup OfForecast \cup OfCatalyst
                 \cup OfImpact]

RecommendationFacts == Facts("recommendation_facts")

RecommendationDependencies ==
  [targets   |-> {"Evidence", "Metric", "Calculation", "Claim", "Forecast",
                  "Estimate", "CatalystImpact", "Valuation", "Risk",
                  "Catalyst"},
   relations |-> OfClaim \cup OfMetric \cup OfCalculation \cup OfEstimate
                 \cup OfValuation \cup OfForecast \cup OfCatalyst
                 \cup OfImpact \cup OfRecommendation]

RiskFacts == Facts("risk_facts")

\* A plausible slip: the claim is left out of the targets, though not out of
\* the relations.
FaultyRiskAffectsEdges ==
  [targets   |-> {"Evidence", "Metric", "Calculation", "Forecast", "Estimate",
                  "CatalystImpact", "Valuation", "Risk", "Catalyst"},
   relations |-> OfClaim \cup OfMetric \cup OfCalculation \cup OfEstimate
                 \cup OfValuation \cup OfForecast \cup OfCatalyst
                 \cup OfImpact \cup OfRecommendation \cup OfRisk]

RiskAffectsEdges ==
  [targets   |-> {"Evidence", "Metric", "Calculation", "Claim", "Forecast",
                  "Estimate", "CatalystImpact", "Valuation", "Risk",
                  "Catalyst"},
   relations |-> OfClaim \cup OfMetric \cup OfCalculation \cup OfEstimate
                 \cup OfValuation \cup OfForecast \cup OfCatalyst
                 \cup OfImpact \cup OfRecommendation \cup OfRisk]

Migrations ==
  <<InitialSchema, EdgeCreatedAt, EdgeEndpointTypes, MetricFacts,
    AddMetricEvidenceEdges, MetricRevisionConstraints, CalculationFacts,
    CalculationInputProvenance, EstimateFacts, EstimateInputProvenance,
    ValuationFacts, ValuationDependencies, ForecastFacts,
    AddForecastComposition, CatalystFacts, CatalystAffectsEdges,
    CatalystImpactFacts, ExtendValuationDependencies, RecommendationFacts,
    RecommendationDependencies, RiskFacts, RiskAffectsEdges>>

CurrentVersion == Len(Migrations)

-----------------------------------------------------------------------------
Fields == {"tables", "nodeTypes", "edgeTypes", "targets", "relations",
           "oneSuccessor", "edgeColumns"}

\* The migrations up to v that say something about f, and those of them that
\* still count: tables accumulate, a list is what its last restatement says.
Restating(f, v) == {i \in 1 .. v : f \in DOMAIN Migrations[i]}
InForce(f, v) ==
  IF f = "tables" THEN Restating(f, v)
  ELSE {i \in Restating(f, v) : \A j \in Restating(f, v) : j <= i}

\* What the migrations 1 .. v leave.
Surface == [v \in 0 .. CurrentVersion |->
              [f \in Fields |-> UNION {Migrations[i][f] : i \in InForce(f, v)}]]

\* The CHECK lists, which a stored row must meet as well as a new one.
Fits(s, r) ==
  /\ r[1] \in s.nodeTypes /\ r[3] \in s.nodeTypes
  /\ r[2] \in s.edgeTypes /\ r[3] \in s.targets /\ r \in s.relations

\* The INSERT of a program of version v: it names the columns that it knows,
\* and each column that it does not name is NULL.
Accepts(s, v, r) ==
  s.edgeColumns \subseteq Surface[v].edgeColumns /\ Fits(s, r)

\* The final state the manager attests, written out beside the migrations.
ExpectedConstraints ==
  [nodeTypes |-> NoCheck,
   edgeTypes |-> {"SUPPORTED_BY", "CONTRADICTED_BY", "DERIVED_FROM",
                  "DEPENDS_ON", "CONTAINS", "AFFECTS"},
   targets   |-> {"Evidence", "Metric", "Calculation", "Claim", "Forecast",
                  "Estimate", "CatalystImpact", "Valuation", "Risk",
                  "Catalyst"},
   relations |-> OfClaim \cup OfMetric \cup OfCalculation \cup OfEstimate
                 \cup OfValuation \cup OfImpact \cup OfForecast
                 \cup OfCatalyst \cup OfRecommendation \cup OfRisk]
ExpectedColumns == {"created_at", "source_type", "target_type"}
ExpectedIndexes == {"evidence_facts", "metric_facts"}
ExpectedTables ==
  {"calculation_facts", "catalyst_facts", "catalyst_impact_facts",
   "claim_facts", "domain_edges", "domain_nodes", "estimate_facts",
   "evidence_facts", "forecast_facts", "metric_facts",
   "recommendation_facts", "risk_facts", "valuation_facts"}

AsExpected(s) ==
  /\ \A f \in DOMAIN ExpectedConstraints : s[f] = ExpectedConstraints[f]
  /\ s.edgeColumns = ExpectedColumns
  /\ s.oneSuccessor = ExpectedIndexes
  /\ s.tables = ExpectedTables

FactsOf(type) ==
  CASE type = "Evidence" -> "evidence_facts"
    [] type = "Claim" -> "claim_facts"
    [] type = "Metric" -> "metric_facts"
    [] type = "Calculation" -> "calculation_facts"
    [] type = "Estimate" -> "estimate_facts"
    [] type = "Valuation" -> "valuation_facts"
    [] type = "Forecast" -> "forecast_facts"
    [] type = "Catalyst" -> "catalyst_facts"
    [] type = "CatalystImpact" -> "catalyst_impact_facts"
    [] type = "Recommendation" -> "recommendation_facts"
    [] type = "Risk" -> "risk_facts"

\* The edges the repository of this commit writes: every allowed edge but
\* Company ISSUES Security, which no operation stores.
RepositoryEdges ==
  OfClaim \cup OfMetric \cup OfCalculation \cup OfEstimate \cup OfValuation
  \cup OfImpact \cup OfForecast \cup OfCatalyst \cup OfRecommendation
  \cup OfRisk

\* What a program built for version v can have stored as an edge.
Writes == [v \in 0 .. CurrentVersion |->
             {r \in RepositoryEdges : /\ Accepts(Surface[v], v, r)
                                      /\ FactsOf(r[1]) \in Surface[v].tables
                                      /\ FactsOf(r[3]) \in Surface[v].tables}]
=============================================================================
