------------------------ MODULE RuleDecision_proofs -------------------------
(***************************************************************************)
(* The rule engine decides on partial data only what it would decide on    *)
(* complete data, for any situations whatever.  First Kleene's conjunction *)
(* is shown to be monotone in what is known, then the choice of the first  *)
(* rule that is not FALSE, then the steps of RuleDecision.                 *)
(***************************************************************************)
EXTENDS RuleDecision, TLAPS

(* ctx2 knows all that ctx1 knows.                                         *)
Extends(ctx2, ctx1) ==
  /\ DOMAIN ctx1 \subseteq DOMAIN ctx2
  /\ \A p \in DOMAIN ctx1 : ctx2[p] = ctx1[p]

(* ... and the existence tests among `tests` see nothing new in it.        *)
NothingNew(tests, ctx2, ctx1) ==
  \A i \in DOMAIN tests :
    tests[i].op = "EXISTS" /\ tests[i].path \in DOMAIN ctx2
    => tests[i].path \in DOMAIN ctx1

(* The truth of one comparison, once definite, stands (Evaluator.truth).   *)
LEMMA TruthStands ==
  ASSUME NEW test, NEW ctx1, NEW ctx2, Extends(ctx2, ctx1),
         test.op = "EXISTS" /\ test.path \in DOMAIN ctx2
           => test.path \in DOMAIN ctx1,
         Truth(test, ctx1) # "UNKNOWN"
  PROVE  Truth(test, ctx2) = Truth(test, ctx1)
<1>1. CASE test.path \in DOMAIN ctx1
  <2>1. test.path \in DOMAIN ctx2 /\ ctx2[test.path] = ctx1[test.path]
    BY <1>1 DEF Extends
  <2>2. Holds(test, ctx2) <=> Holds(test, ctx1)
    BY <2>1 DEF Holds
  <2> QED BY <1>1, <2>1, <2>2 DEF Truth
<1>2. CASE test.path \notin DOMAIN ctx1
  <2>1. test.op = "EXISTS"
    BY <1>2 DEF Truth
  <2>2. test.path \notin DOMAIN ctx2
    BY <1>2, <2>1
  <2> QED BY <1>2, <2>1, <2>2 DEF Truth
<1> QED BY <1>1, <1>2

(* The conjunction, once definite, stands (LogicalExpr AND).               *)
LEMMA AllOfStands ==
  ASSUME NEW tests, NEW ctx1, NEW ctx2, Extends(ctx2, ctx1),
         NothingNew(tests, ctx2, ctx1),
         AllOf(tests, ctx1) # "UNKNOWN"
  PROVE  AllOf(tests, ctx2) = AllOf(tests, ctx1)
<1> DEFINE T(ctx) == {Truth(tests[i], ctx) : i \in DOMAIN tests}
<1>1. \A i \in DOMAIN tests :
        Truth(tests[i], ctx1) # "UNKNOWN"
        => Truth(tests[i], ctx2) = Truth(tests[i], ctx1)
  BY TruthStands DEF NothingNew
<1>2. CASE "FALSE" \in T(ctx1)
  <2>1. "FALSE" \in T(ctx2)
    BY <1>1, <1>2
  <2> QED BY <1>2, <2>1 DEF AllOf
<1>3. CASE "FALSE" \notin T(ctx1)
  <2>1. "UNKNOWN" \notin T(ctx1)
    BY <1>3 DEF AllOf
  <2>2. T(ctx2) = T(ctx1)
    BY <1>1, <2>1
  <2> QED BY <2>2 DEF AllOf
<1> QED BY <1>2, <1>3

(* The rules RuleEngine.plan does not skip.                                *)
LiveRules(trigger, ctx) ==
  {i \in DOMAIN Rules : /\ Rules[i].trigger = trigger
                        /\ AllOf(Rules[i].when, ctx) # "FALSE"}

LEMMA EightRules == DOMAIN Rules = 1..8
BY DEF Rules

(* The first of them exists and is the only first one.                     *)
LEMMA FirstRule ==
  ASSUME NEW trigger, NEW ctx, LiveRules(trigger, ctx) # {}
  PROVE  \E i \in LiveRules(trigger, ctx) :
           \A k \in LiveRules(trigger, ctx) : i <= k
<1> DEFINE S == LiveRules(trigger, ctx)
<1>1. S \subseteq 1..8
  BY EightRules DEF LiveRules
<1>2. PICK x \in S : TRUE
  OBVIOUS
<1> HIDE DEF S
<1>3. 1 \in S \/ 2 \in S \/ 3 \in S \/ 4 \in S \/ 5 \in S \/ 6 \in S \/ 7 \in S
      \/ 8 \in S
  BY <1>1, <1>2
<1>4. \E i \in S : \A k \in S : i <= k
  BY <1>1, <1>3
<1> QED BY <1>4 DEF S

(* What plan returns, by the first rule it does not skip.                  *)
LEMMA DecisionIs ==
  ASSUME NEW trigger, NEW ctx, NEW i \in LiveRules(trigger, ctx),
         \A k \in LiveRules(trigger, ctx) : i <= k
  PROVE  Decision(trigger, ctx) = IF AllOf(Rules[i].when, ctx) = "UNKNOWN"
                                  THEN "R401" ELSE Rules[i].id
<1> DEFINE S == LiveRules(trigger, ctx)
           first == CHOOSE j \in S : \A k \in S : j <= k
<1>1. S \subseteq 1..8
  BY EightRules DEF LiveRules
<1>2. first \in S /\ \A k \in S : first <= k
  OBVIOUS
<1>3. first = i
  BY <1>1, <1>2
<1>4. Decision(trigger, ctx) = IF AllOf(Rules[first].when, ctx) = "UNKNOWN"
                               THEN "R401" ELSE Rules[first].id
  BY DEF Decision, LiveRules
<1> QED BY <1>3, <1>4

LEMMA NoLiveRule ==
  ASSUME NEW trigger, NEW ctx, LiveRules(trigger, ctx) = {}
  PROVE  Decision(trigger, ctx) = "NO_MATCH"
BY DEF Decision, LiveRules

(* A definite decision stands if the existence tests see nothing new.      *)
LEMMA DecisionMonotone ==
  ASSUME NEW trigger, NEW ctx1, NEW ctx2, Extends(ctx2, ctx1),
         \A i \in DOMAIN Rules :
           Rules[i].trigger = trigger => NothingNew(Rules[i].when, ctx2, ctx1),
         Definite(Decision(trigger, ctx1))
  PROVE  Decision(trigger, ctx2) = Decision(trigger, ctx1)
<1> DEFINE S1 == LiveRules(trigger, ctx1)
           S2 == LiveRules(trigger, ctx2)
<1>1. S2 \subseteq S1
  BY AllOfStands DEF LiveRules
<1>2. CASE S1 = {}
  BY <1>1, <1>2, NoLiveRule
<1>3. CASE S1 # {}
  <2>1. PICK i \in S1 : \A k \in S1 : i <= k
    BY <1>3, FirstRule
  <2>2. AllOf(Rules[i].when, ctx1) # "UNKNOWN"
    BY <2>1, DecisionIs DEF Definite
  <2>3. AllOf(Rules[i].when, ctx2) = AllOf(Rules[i].when, ctx1)
    BY <2>1, <2>2, AllOfStands DEF LiveRules
  <2>4. i \in S2
    BY <2>1, <2>3 DEF LiveRules
  <2>5. \A k \in S2 : i <= k
    BY <1>1, <2>1
  <2>6. Decision(trigger, ctx1) = Rules[i].id
    BY <2>1, <2>2, DecisionIs
  <2>7. Decision(trigger, ctx2) = Rules[i].id
    BY <2>2, <2>3, <2>4, <2>5, DecisionIs
  <2> QED BY <2>6, <2>7
<1> QED BY <1>2, <1>3

-----------------------------------------------------------------------------
(* Existence is asked of two paths, by rules of graph.changed.             *)
LEMMA ExistenceTests ==
  ASSUME NEW i \in DOMAIN Rules, NEW j \in DOMAIN Rules[i].when,
         Rules[i].when[j].op = "EXISTS"
  PROVE  /\ Rules[i].trigger = "graph.changed"
         /\ Rules[i].when[j].path \in {"claim.required_calculation", "claim.id"}
<1>1. i \in 1..8
  BY EightRules
<1>2. CASE i \in {1, 2, 3, 6, 7}
  BY <1>2 DEF Rules, Rule, Eq, Less, AtLeast
<1>3. CASE i \in {4, 5}
  BY <1>3 DEF Rules, Rule, Eq, Exists
<1>4. CASE i = 8
  BY <1>4 DEF Rules, Rule, Eq, AtLeast
<1> QED BY <1>1, <1>2, <1>3, <1>4

(* The rules for a changed graph, and what their truth depends on.         *)
LEMMA GraphRules ==
  /\ \A i \in {1, 2, 3} : Rules[i].trigger # "graph.changed"
  /\ \A i \in {4, 5, 6, 7, 8} : Rules[i].trigger = "graph.changed"
  /\ Rules[4].when = << Exists("claim.required_calculation"),
                        Eq("claim.calculation_exists", FALSE) >>
  /\ Rules[5].when = << Exists("claim.id"), Eq("claim.verification_exists", FALSE) >>
  /\ Rules[6].when = << Eq("claim.data_deficit_type", "DATA_NOT_DISCLOSED") >>
  /\ Rules[7].when = << Eq("claim.data_deficit_type", "DATA_NOT_FOUND"),
                        Less("claim.search_count", 3) >>
<1>1. \A i \in {1, 2, 3} : Rules[i].trigger # "graph.changed"
  BY DEF Rules, Rule
<1>2. \A i \in {4, 5, 6, 7, 8} : Rules[i].trigger = "graph.changed"
  BY DEF Rules, Rule
<1>3. Rules[4].when = << Exists("claim.required_calculation"),
                         Eq("claim.calculation_exists", FALSE) >>
  BY DEF Rules, Rule
<1>4. Rules[5].when = << Exists("claim.id"), Eq("claim.verification_exists", FALSE) >>
  BY DEF Rules, Rule
<1>5. Rules[6].when = << Eq("claim.data_deficit_type", "DATA_NOT_DISCLOSED") >>
  BY DEF Rules, Rule
<1>6. Rules[7].when = << Eq("claim.data_deficit_type", "DATA_NOT_FOUND"),
                         Less("claim.search_count", 3) >>
  BY DEF Rules, Rule
<1> QED BY <1>1, <1>2, <1>3, <1>4, <1>5, <1>6

(* A conjunction of one test, and of two.                                  *)
LEMMA OneTest ==
  ASSUME NEW a, NEW ctx
  PROVE  AllOf(<<a>>, ctx) = Truth(a, ctx)
<1>1. {Truth(<<a>>[k], ctx) : k \in DOMAIN <<a>>} = {Truth(a, ctx)}
  OBVIOUS
<1>2. Truth(a, ctx) \in {"TRUE", "FALSE", "UNKNOWN"}
  BY DEF Truth
<1> QED BY <1>1, <1>2 DEF AllOf

LEMMA TwoTests ==
  ASSUME NEW a, NEW b, NEW ctx
  PROVE  AllOf(<<a, b>>, ctx) # "FALSE"
           <=> Truth(a, ctx) # "FALSE" /\ Truth(b, ctx) # "FALSE"
<1>1. {Truth(<<a, b>>[k], ctx) : k \in DOMAIN <<a, b>>}
        = {Truth(a, ctx), Truth(b, ctx)}
  OBVIOUS
<1> QED BY <1>1 DEF AllOf

(* Over an entity that is no known claim a changed graph is undecided:     *)
(* R004 and R005 see that nothing exists, R006 does not know.              *)
LEMMA UnknownClaim ==
  ASSUME NEW ctx, DOMAIN ctx \cap (ClaimPaths \cup ClaimData) = {}
  PROVE  Decision("graph.changed", ctx) = "R401"
<1> DEFINE S == LiveRules("graph.changed", ctx)
<1>1. /\ Truth(Exists("claim.required_calculation"), ctx) = "FALSE"
      /\ Truth(Exists("claim.id"), ctx) = "FALSE"
  BY DEF Truth, Exists, ClaimPaths, ClaimData
<1>2. 4 \notin S /\ 5 \notin S
  BY <1>1, TwoTests, GraphRules DEF LiveRules
<1>3. Truth(Eq("claim.data_deficit_type", "DATA_NOT_DISCLOSED"), ctx) = "UNKNOWN"
  BY DEF Truth, Eq, ClaimData
<1>4. AllOf(Rules[6].when, ctx) = "UNKNOWN"
  BY <1>3, OneTest, GraphRules
<1>5. 6 \in S
  BY <1>4, GraphRules, EightRules DEF LiveRules
<1>6. \A k \in S : 6 <= k
  <2>1. \A k \in S : k \in 1..8 /\ k \notin {1, 2, 3}
    BY GraphRules, EightRules DEF LiveRules
  <2> QED BY <2>1, <1>2
<1> QED BY <1>4, <1>5, <1>6, DecisionIs

-----------------------------------------------------------------------------
LEMMA TypeStep ==
  ASSUME TypeOK, [Next]_vars
  PROVE  TypeOK'
<1>1. CASE AddClaim /\ UNCHANGED world
  <2>1. "claim.id" \in DOMAIN world.facts /\ known' = known \cup ClaimPaths
    BY <1>1 DEF AddClaim
  <2>2. ClaimPaths \subseteq DOMAIN world.facts
    BY <2>1, WorldsAssumption DEF TypeOK
  <2> QED BY <1>1, <2>1, <2>2 DEF TypeOK
<1>2. CASE (\E p \in DOMAIN world.facts : Record(p)) /\ UNCHANGED world
  <2>1. PICK p \in DOMAIN world.facts : Record(p)
    BY <1>2
  <2>2. p \in ClaimData => ClaimPaths \subseteq known
    <3>1. SUFFICES ASSUME p \in ClaimData PROVE ClaimPaths \subseteq known
      OBVIOUS
    <3>2. "claim.id" \in known \cap ClaimPaths
      BY <2>1, <3>1 DEF Record, ClaimPaths
    <3> QED BY <3>2 DEF TypeOK
  <2> QED BY <1>2, <2>1, <2>2 DEF Record, TypeOK
<1>3. CASE UNCHANGED vars
  BY <1>3 DEF vars, TypeOK
<1> QED BY <1>1, <1>2, <1>3 DEF Next

(* Recorded paths always belong to the world, and the data of a claim only *)
(* to a claim that is there.                                               *)
THEOREM TypeCorrect == Spec => []TypeOK
<1>1. Init => TypeOK
  BY DEF Init, TypeOK, ClaimPaths, ClaimData
<1>2. TypeOK /\ [Next]_vars => TypeOK'
  BY TypeStep
<1> QED BY <1>1, <1>2, PTL DEF Spec

(* One step of recording leaves a definite decision as it is.              *)
LEMMA DecisionStep ==
  ASSUME TypeOK, [Next]_vars,
         Definite(Decided(known)),
         "claim.required_calculation" \notin known' \ known
  PROVE  Decision(world.trigger, Context(known')) = Decided(known)
<1> DEFINE c1 == Context(known)
           c2 == Context(known')
<1>1. world' = world /\ known \subseteq known' /\ known' \subseteq DOMAIN world.facts
  <2>1. known \subseteq known' /\ world' = world
    BY DEF Next, AddClaim, Record, vars
  <2> QED BY <2>1, TypeStep DEF TypeOK
<1>2. DOMAIN c1 = known /\ DOMAIN c2 = known' /\ Extends(c2, c1)
  BY <1>1 DEF Context, Extends
<1>3. CASE world.trigger = "graph.changed" /\ "claim.id" \in known' \ known
  <2>1. DOMAIN c1 \cap (ClaimPaths \cup ClaimData) = {}
    BY <1>2, <1>3 DEF TypeOK, ClaimPaths
  <2>2. Decision("graph.changed", c1) = "R401"
    BY <2>1, UnknownClaim
  <2> QED BY <1>3, <2>2 DEF Decided, Definite
<1>4. CASE ~(world.trigger = "graph.changed" /\ "claim.id" \in known' \ known)
  <2>1. ASSUME NEW i \in DOMAIN Rules, Rules[i].trigger = world.trigger
        PROVE  NothingNew(Rules[i].when, c2, c1)
    BY <1>2, <1>4, <2>1, ExistenceTests DEF NothingNew
  <2>2. Decision(world.trigger, c2) = Decision(world.trigger, c1)
    BY <1>2, <2>1, DecisionMonotone DEF Decided
  <2> QED BY <2>2 DEF Decided
<1> QED BY <1>3, <1>4

(* INV-013 and INV-016 for all situations: a decision taken on partial     *)
(* data is the decision that more data confirms.                           *)
THEOREM DecisionsStand == Spec => DecisionStands
<1>1. TypeOK /\ [Next]_vars
      => [Definite(Decided(known))
            /\ "claim.required_calculation" \notin known' \ known
          => Decision(world.trigger, Context(known')) = Decided(known)]_vars
  BY DecisionStep
<1> QED BY <1>1, TypeCorrect, PTL DEF Spec, DecisionStands

-----------------------------------------------------------------------------
LEMMA LastRule == \A i \in 1..8 : Rules[i].id = "R008" => i = 8
BY DEF Rules, Rule

(* A test that is FALSE looks at a value that is there.                    *)
LEMMA FalseTest ==
  ASSUME NEW test, NEW ctx, test.op # "EXISTS", Truth(test, ctx) = "FALSE"
  PROVE  test.path \in DOMAIN ctx /\ ~Holds(test, ctx)
BY DEF Truth

(* If R008 decides, the four rules for a claim before it are all FALSE.    *)
LEMMA ValuationStep ==
  ASSUME TypeOK, Decided(known) = "R008"
  PROVE  /\ ClaimPaths \cup {"claim.data_deficit_type"} \subseteq known
         /\ "claim.required_calculation" \in known
            => world.facts["claim.calculation_exists"] = TRUE
         /\ world.facts["claim.verification_exists"] = TRUE
         /\ world.facts["claim.data_deficit_type"] # "DATA_NOT_DISCLOSED"
         /\ world.facts["claim.data_deficit_type"] = "DATA_NOT_FOUND"
            => /\ "claim.search_count" \in known
               /\ world.facts["claim.search_count"] >= 3
<1> DEFINE ctx == Context(known)
           S   == LiveRules(world.trigger, ctx)
<1>1. DOMAIN ctx = known /\ \A p \in known : ctx[p] = world.facts[p]
  BY DEF Context
<1>2. S # {}
  BY NoLiveRule DEF Decided
<1>3. PICK i \in S : \A k \in S : i <= k
  BY <1>2, FirstRule
<1>4. i \in 1..8 /\ Rules[i].id = "R008"
  BY <1>3, DecisionIs, EightRules DEF Decided, LiveRules
<1>5. i = 8
  BY <1>4, LastRule
<1>6. world.trigger = "graph.changed"
  BY <1>3, <1>5, GraphRules DEF LiveRules
<1>7. \A k \in {4, 5, 6, 7} : AllOf(Rules[k].when, ctx) = "FALSE"
  <2>1. \A k \in {4, 5, 6, 7} : k \notin S
    BY <1>3, <1>5
  <2> QED BY <2>1, <1>6, GraphRules, EightRules DEF LiveRules
<1>8. /\ "claim.data_deficit_type" \in known
      /\ world.facts["claim.data_deficit_type"] # "DATA_NOT_DISCLOSED"
  <2> DEFINE t == Eq("claim.data_deficit_type", "DATA_NOT_DISCLOSED")
  <2>1. Truth(t, ctx) = "FALSE"
    BY <1>7, OneTest, GraphRules
  <2>2. t.op = "==" /\ t.path = "claim.data_deficit_type"
        /\ t.arg = "DATA_NOT_DISCLOSED"
    BY DEF Eq
  <2> HIDE DEF t
  <2>3. t.path \in DOMAIN ctx /\ ~Holds(t, ctx)
    BY <2>1, <2>2, FalseTest
  <2> QED BY <1>1, <2>2, <2>3 DEF Holds
<1>9. ClaimPaths \subseteq known
  BY <1>8 DEF TypeOK, ClaimData
<1>10. \A p \in ClaimPaths \ {"claim.id"} :
         p \in known /\ ctx[p] = world.facts[p] /\ world.facts[p] \in BOOLEAN
  BY <1>1, <1>9, WorldsAssumption DEF TypeOK
<1>11. ASSUME NEW p \in ClaimPaths \ {"claim.id"}, Truth(Eq(p, FALSE), ctx) = "FALSE"
       PROVE  world.facts[p] = TRUE
  <2>1. Eq(p, FALSE).op = "==" /\ Eq(p, FALSE).path = p /\ Eq(p, FALSE).arg = FALSE
    BY DEF Eq
  <2>2. ~Holds(Eq(p, FALSE), ctx)
    BY <1>11, <2>1, FalseTest
  <2>3. ctx[p] # FALSE
    BY <2>1, <2>2 DEF Holds
  <2> QED BY <2>3, <1>10
<1>12. world.facts["claim.verification_exists"] = TRUE
  <2>1. Truth(Exists("claim.id"), ctx) = "TRUE"
    BY <1>1, <1>9 DEF Truth, Exists, Holds, ClaimPaths
  <2>2. Truth(Eq("claim.verification_exists", FALSE), ctx) = "FALSE"
    BY <1>7, <2>1, TwoTests, GraphRules
  <2> QED BY <1>11, <2>2 DEF ClaimPaths
<1>13. ASSUME "claim.required_calculation" \in known
       PROVE  world.facts["claim.calculation_exists"] = TRUE
  <2>1. Truth(Exists("claim.required_calculation"), ctx) = "TRUE"
    BY <1>1, <1>13 DEF Truth, Exists, Holds
  <2>2. Truth(Eq("claim.calculation_exists", FALSE), ctx) = "FALSE"
    BY <1>7, <2>1, TwoTests, GraphRules
  <2> QED BY <1>11, <2>2 DEF ClaimPaths
<1>14. ASSUME world.facts["claim.data_deficit_type"] = "DATA_NOT_FOUND"
       PROVE  "claim.search_count" \in known /\ world.facts["claim.search_count"] >= 3
  <2> DEFINE t == Eq("claim.data_deficit_type", "DATA_NOT_FOUND")
             u == Less("claim.search_count", 3)
  <2>1. t.op = "==" /\ t.path = "claim.data_deficit_type" /\ t.arg = "DATA_NOT_FOUND"
    BY DEF Eq
  <2>2. u.op = "<" /\ u.path = "claim.search_count" /\ u.arg = 3
    BY DEF Less
  <2>3. Truth(t, ctx) # "FALSE" /\ Truth(u, ctx) # "FALSE"
        <=> AllOf(Rules[7].when, ctx) # "FALSE"
    BY TwoTests, GraphRules
  <2> HIDE DEF t, u
  <2>4. Holds(t, ctx)
    BY <1>1, <1>8, <1>14, <2>1 DEF Holds
  <2>5. Truth(u, ctx) = "FALSE"
    BY <1>1, <1>7, <1>8, <2>1, <2>3, <2>4 DEF Truth
  <2>6. u.path \in DOMAIN ctx /\ ~Holds(u, ctx)
    BY <2>2, <2>5, FalseTest
  <2>7. "claim.search_count" \in known /\ ~(world.facts["claim.search_count"] < 3)
    BY <1>1, <2>2, <2>6 DEF Holds
  <2>8. world.facts["claim.search_count"] \in Int
    BY <2>7, WorldsAssumption DEF TypeOK
  <2> QED BY <2>7, <2>8
<1> QED BY <1>8, <1>9, <1>12, <1>13, <1>14

(* The valuation gate opens only over a claim known to be finished.        *)
THEOREM ValuationIsLast == Spec => []ValuationComesLast
<1>1. TypeOK => ValuationComesLast
  BY ValuationStep DEF ValuationComesLast
<1> QED BY <1>1, TypeCorrect, PTL
=============================================================================
