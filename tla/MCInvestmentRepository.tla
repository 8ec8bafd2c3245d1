----------------------- MODULE MCInvestmentRepository -----------------------
(* Two processes over small databases, one for each thing that can go wrong  *)
(* between calls.  Times run from 1 to 3; the clock stops at 2, so rows of    *)
(* time 3 are known after every cutoff.                                      *)
EXTENDS InvestmentRepository, TLC

CONSTANTS p1, p2

MCProcs == {p1, p2}

Node(id, kind, series, time) ==
  [id |-> id, kind |-> kind, series |-> series, time |-> time,
   published |-> 1, supersedes |-> NoId, uses |-> <<>>, cohort |-> "base",
   role |-> "", value |-> 1]
Link(source, type, target) == EdgeRow(source, type, target, 1)
Supports(source, target)   == Link(source, "SUPPORTED_BY", target)

\* Evidence e1, its revisions, and what is linked to it.
e1  == Node("e1", "Evidence", "filing", 1)
e1a == [Node("e1a", "Evidence", "filing", 2) EXCEPT !.supersedes = "e1"]
e1b == [Node("e1b", "Evidence", "filing", 3) EXCEPT !.supersedes = "e1"]
e1c == [Node("e1c", "Evidence", "filing", 1) EXCEPT !.supersedes = "e1"]
e2  == Node("e2", "Evidence", "other filing", 1)
m1  == [Node("m1", "Metric", "revenue", 1) EXCEPT !.role = "wacc"]
m1a == [m1 EXCEPT !.id = "m1a", !.time = 2, !.supersedes = "m1"]
m1b == [m1 EXCEPT !.id = "m1b", !.time = 3, !.supersedes = "m1"]
m2  == [Node("m2", "Metric", "margin", 2) EXCEPT !.role = "growth"]
c1  == Node("c1", "Claim", "", 1)
c2  == Node("c2", "Claim", "", 1)

\* Calculations of a metric, and of a calculation.
k1 == [Node("k1", "Calculation", "", 1) EXCEPT !.uses = <<"m1">>]
k2 == [Node("k2", "Calculation", "", 1) EXCEPT !.uses = <<"k1", "m2">>,
                                                !.value = 2]

\* A forecast, its estimates, and one of another scenario.
f1 == Node("f1", "Forecast", "acme", 1)
s1 == [Node("s1", "Estimate", "fcf 1", 1) EXCEPT !.role = "fcf"]
s2 == [Node("s2", "Estimate", "fcf 2", 1) EXCEPT !.role = "fcf"]
s3 == [s2 EXCEPT !.id = "s3", !.cohort = "bear"]

acme == Node("acme", "Security", "", 1)
v1 == [Node("v1", "Valuation", "acme", 1) EXCEPT !.value = 3]
r1 == Node("r1", "Risk", "acme", 1)
t1 == Node("t1", "Catalyst", "acme", 1)
i1 == Node("i1", "CatalystImpact", "acme", 1)
a1 == [Node("a1", "Recommendation", "acme", 1) EXCEPT !.uses = <<"c1">>]

\* The same, known later.
Newer(n) == [n EXCEPT !.id = n.id \o " newer", !.time = 3]

Filing(facts) == [evidence |-> Node("filing", "Evidence", "10-K", 1),
                  facts |-> facts]
revenue == [Node("revenue", "Metric", "revenue", 1) EXCEPT !.role = "revenue"]
other   == [revenue EXCEPT !.id = "other", !.value = 2]

Add(op, n) == [op |-> op, node |-> n]
Relate(op, n, ids) == [op |-> op, node |-> n, ids |-> ids]
LinkTo(op, link) == [op |-> op, link |-> link]
Read(op, id, cutoff) == [op |-> op, id |-> id, cutoff |-> cutoff]
Execute(ids, cutoff) == [op |-> "execute_valuation", node |-> v1, ids |-> ids,
                         cutoff |-> cutoff]
Ingest(facts) == [op |-> "ingest_financial_fact", filing |-> Filing(facts),
                  created |-> 1]

Adds == {Add("add_evidence", e1a), Add("add_metric", m1a), Add("add_claim", c2),
         Add("add_security", acme), Add("add_estimate", Newer(s1)),
         Add("add_catalyst", Newer(t1)), Add("add_catalyst_impact", Newer(i1)),
         Add("add_forecast", Newer(f1)), Add("add_calculation", k2),
         Add("add_risk", Newer(r1)), Add("add_recommendation", Newer(a1)),
         Add("add_valuation", Newer(v1))}
Twice(add) == {add.op \o " 1", add.op \o " 2"}

MCRequests ==
  [name \in UNION {Twice(add) : add \in Adds} |->
     CHOOSE add \in Adds : name \in Twice(add)]
  @@ ("revise a" :> Add("add_evidence", e1a))
  @@ ("revise b" :> Add("add_evidence", e1b))
  @@ ("revise c" :> Add("add_evidence", e1c))
  @@ ("link m1" :> LinkTo("add_metric_evidence_link", Supports("m1", "e1a")))
  @@ ("link m1 e2" :> LinkTo("add_metric_evidence_link", Supports("m1", "e2")))
  @@ ("link c1" :> LinkTo("add_claim_evidence_link",
                          Link("c1", "CONTRADICTED_BY", "e1a")))
  @@ ("latest" :> Read("latest_evidence_at", "e1", 2))
  @@ ("first" :> Read("latest_evidence_at", "e1a", 1))
  @@ ("of m1" :> Read("evidence_for_metric_at", "m1", 2))
  @@ ("of c1" :> Read("evidence_for_claim_at", "c1", 2))
  @@ ("revise m1 a" :> Add("add_metric", m1a))
  @@ ("revise m1 b" :> [op |-> "add_metric_with_evidence_link", node |-> m1b,
                        link |-> Supports("m1b", "e1")])
  @@ ("inputs k1" :> Add("add_calculation_inputs", k1))
  @@ ("inputs k1 again" :> Add("add_calculation_inputs", k1))
  @@ ("inputs k2" :> Add("add_calculation_inputs", k2))
  @@ ("f1 contains s1" :> Relate("add_forecast_estimates", f1, <<"s1">>))
  @@ ("f1 contains s2" :> Relate("add_forecast_estimates", f1, <<"s2">>))
  @@ ("f1 contains s1 s2" :> Relate("add_forecast_estimates", f1, <<"s1", "s2">>))
  @@ ("f1 contains s2 s1" :> Relate("add_forecast_estimates", f1, <<"s2", "s1">>))
  @@ ("f1 contains s3" :> Relate("add_forecast_estimates", f1, <<"s1", "s3">>))
  @@ ("s1 from m1" :> Relate("add_estimate_inputs", s1, <<"m1", "c1">>))
  @@ ("s1 from k1" :> Relate("add_estimate_inputs", s1, <<"k1">>))
  @@ ("v1 on s1" :> Relate("add_valuation_dependencies", v1, <<"s1", "m1">>))
  @@ ("v1 on f1" :> Relate("add_valuation_dependencies", v1, <<"f1", "i1", "k1">>))
  @@ ("a1 on v1" :> Relate("add_recommendation_dependencies", a1, <<"c1", "v1">>))
  @@ ("t1 affects c1 f1" :> Relate("add_catalyst_affects", t1, <<"c1", "f1">>))
  @@ ("t1 affects f1 c1" :> Relate("add_catalyst_affects", t1, <<"f1", "c1">>))
  @@ ("t1 affects c2" :> Relate("add_catalyst_affects", t1, <<"c2">>))
  @@ ("r1 affects v1" :> Relate("add_risk_affects", r1, <<"v1">>))
  @@ ("execute" :> Execute(<<"s1", "m1", "m2">>, 2))
  @@ ("execute with f1" :> Execute(<<"s1", "m1", "m2", "f1">>, 2))
  @@ ("execute early" :> Execute(<<"s1", "m1", "m2">>, 1))
  @@ ("ingest" :> Ingest({revenue, m2}))
  @@ ("ingest again" :> Ingest({revenue, m2}))
  @@ ("ingest two facts" :> Ingest({revenue, other}))

Knowledge == {e1, m1, m2, c1, c2, k1, f1, s1, s2, s3, v1, r1, t1, i1, a1}
Here(stored, edges, calls) == [stored |-> stored, edges |-> edges,
                               calls |-> calls, crashes |-> 0, damage |-> 0]
Damaged(k) == [Here(Knowledge, {Supports("m1", "e1"), Supports("c1", "e1"),
                                Link("k1", "DERIVED_FROM", "m1"),
                                Link("v1", "DEPENDS_ON", "s1")}, {})
               EXCEPT !.damage = k]

MCScenarios ==
  { Here({e1, m1, c1}, {Supports("m1", "e1"), Supports("c1", "e1")}, calls) :
      calls \in {{"revise a", "revise b", "revise c", "latest"},
                 {"revise a", "link m1", "of m1", "link c1"},
                 {"revise a", "link c1", "of c1"},
                 {"revise a", "revise b", "first"},
                 {"revise m1 a", "revise m1 b", "of m1"}} }
  \cup
  { Here({e1, e2, m1}, {Supports("m1", "e1")}, {"revise a", "link m1 e2", "of m1"}) }
  \cup
  { Here(Knowledge \cup {acme}, {}, calls) :
      calls \in {{"f1 contains s1", "f1 contains s1 s2", "f1 contains s2 s1"},
                 {"f1 contains s1", "f1 contains s2", "f1 contains s3"},
                 {"s1 from m1", "s1 from k1"},
                 {"v1 on s1", "v1 on f1", "a1 on v1"},
                 {"t1 affects c1 f1", "t1 affects f1 c1", "r1 affects v1"}} }
  \cup
  { Here(Knowledge \cup {k2}, {}, {"inputs k1", "inputs k1 again", "inputs k2"}) }
  \cup
  { Here(Knowledge, {}, Twice(add)) : add \in Adds }
  \cup
  { [Here({acme, s1, m1, m2, f1}, {}, calls) EXCEPT !.crashes = 1] :
      calls \in {{"execute", "execute with f1"}, {"execute early"}} }
  \cup
  { [Here({}, {}, calls) EXCEPT !.crashes = 1] :
      calls \in {{"ingest", "ingest again"}, {"ingest two facts"}} }
  \cup {Damaged(2)}

\* Two sets for one catalyst; a filing that is ingested again.
UnionScenarios == { Here({t1, c1, c2, f1}, {}, {"t1 affects c1 f1", "t1 affects c2"}) }
ReplayScenarios == { Here({}, {}, {"ingest", "ingest again"}) }
=============================================================================
