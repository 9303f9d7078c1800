------------------------- MODULE AssistantPlanProofs -------------------------
(* Safety of the dialogue with the assistant for any clients, SKUs, questions, *)
(* planner replies, rights and window: first the invariant IInv and what it    *)
(* gives, then SubjectsAreKept on top of it, for which the state read off the  *)
(* messages, a fold, has to be reasoned about.                                 *)
EXTENDS AssistantPlan, FiniteSetTheorems, FunctionTheorems, SequenceTheorems, TLAPS

(* ------------------------------- the fields ------------------------------ *)
\* What is in front stays; what is behind is seen where the front has nothing.
LEMMA FrontStays ==
  ASSUME NEW p, NEW q, NEW f
  PROVE  /\ DOMAIN (p ++ q) = DOMAIN p \cup DOMAIN q
         /\ f \in DOMAIN p => (p ++ q)[f] = p[f]
         /\ f \notin DOMAIN p => Get(p ++ q, f) = Get(q, f)
         /\ f \in DOMAIN q /\ f \notin DOMAIN p => (p ++ q)[f] = q[f]
BY DEF ++, Get

LEMMA AmongIsOf ==
  ASSUME NEW plan \in Seq(STRING), NEW wanted
  PROVE  Among(plan, wanted) \in Seq(wanted)
<1> DEFINE kept == {i \in DOMAIN plan : plan[i] \in wanted}
           n == Cardinality(kept)
           upTo(i) == {j \in kept : j <= i}
           nth(k) == CHOOSE i \in kept : Cardinality(upTo(i)) = k
<1>1. kept \subseteq 1 .. Len(plan) /\ kept \subseteq Nat /\ Len(plan) \in Nat
  OBVIOUS
<1>2. IsFiniteSet(kept) /\ n \in Nat
  <2>1. IsFiniteSet(1 .. Len(plan))
    BY <1>1, FS_Interval
  <2>2. IsFiniteSet(kept)
    BY <1>1, <2>1, FS_Subset
  <2> QED
    BY <2>2, FS_CardinalityType
<1> HIDE DEF kept
<1>3. \A i \in kept : /\ upTo(i) \subseteq kept /\ i \in upTo(i)
                      /\ IsFiniteSet(upTo(i))
                      /\ Cardinality(upTo(i)) \in 1 .. n
  <2>1. TAKE i \in kept
  <2>2. upTo(i) \subseteq kept /\ i \in upTo(i)
    BY <1>1
  <2>3. IsFiniteSet(upTo(i)) /\ Cardinality(upTo(i)) \in Nat /\ Cardinality(upTo(i)) <= n
    BY <1>2, <2>2, FS_Subset, FS_CardinalityType
  <2>4. Cardinality(upTo(i)) # 0
    BY <2>2, <2>3, FS_EmptySet
  <2> HIDE DEF upTo, n
  <2>5. Cardinality(upTo(i)) \in 1 .. n
    BY <1>2, <2>3, <2>4
  <2> QED
    BY <2>2, <2>3, <2>5
<1>4. ASSUME NEW i \in kept, NEW j \in kept, Cardinality(upTo(i)) = Cardinality(upTo(j))
      PROVE  i = j
  <2>1. upTo(i) \subseteq upTo(j) \/ upTo(j) \subseteq upTo(i)
    <3>1. i \in Nat /\ j \in Nat /\ \A h \in kept : h \in Nat
      BY <1>1
    <3>2. ASSUME NEW a \in kept, NEW b \in kept, a <= b PROVE upTo(a) \subseteq upTo(b)
      <4> SUFFICES ASSUME NEW h \in kept, h <= a PROVE h <= b
        OBVIOUS
      <4>1. a \in Nat /\ b \in Nat /\ h \in Nat
        BY <1>1
      <4> QED
        BY <3>2, <4>1
    <3> QED
      BY <3>1, <3>2
  <2>2. upTo(i) = upTo(j)
    <3> HIDE DEF upTo
    <3> QED
      BY <1>3, <1>4, <2>1, FS_Subset
  <2>3. j \in upTo(i) /\ i \in upTo(j)
    BY <1>3, <2>2
  <2> QED
    BY <1>1, <2>3
<1> DEFINE place == [i \in kept |-> Cardinality(upTo(i))]
<1> HIDE DEF upTo
<1>5. place \in [kept -> 1 .. n]
  BY <1>3
<1>6. place \in Injection(kept, 1 .. n)
  BY <1>4, <1>5 DEF Injection, IsInjective
<1>7. IsFiniteSet(1 .. n) /\ Cardinality(1 .. n) = Cardinality(kept)
  BY <1>2, FS_Interval
<1>8. place \in Surjection(kept, 1 .. n)
  <2> HIDE DEF place
  <2> QED
    BY <1>6, <1>7, FS_Injection
<1>9. ASSUME NEW k \in 1 .. n PROVE nth(k) \in kept
  <2>1. \E i \in kept : Cardinality(upTo(i)) = k
    BY <1>8 DEF Surjection
  <2> QED
    BY <2>1
<1>10. Among(plan, wanted) = [k \in 1 .. n |-> plan[nth(k)]]
  BY DEF Among, kept, upTo
<1> HIDE DEF nth, n
<1>11. \A k \in 1 .. n : plan[nth(k)] \in wanted
  BY <1>9 DEF kept
<1> QED
  BY <1>2, <1>10, <1>11

(* ------------------------------- the plans ------------------------------- *)
LEMMA ToolNames ==
  Tools = {"calculate_reserve", "get_reserve", "get_reserve_explanation", "get_stock_coverage",
           "get_sku_summary", "get_client_summary", "get_inbound_impact", "get_upload_status",
           "get_quality_issues", "get_dashboard_summary", "get_management_report",
           "get_sales_summary", "get_period_comparison", "get_analytics_slice",
           "get_data_overview"}
BY Zenon DEF Tools, Contract

\* The first tool of a plan: the one its answer is composed from.
Primary(intent) ==
  {DefaultPlan(intent)[1]} \cup IF intent = "reserve_calculation" THEN {"calculate_reserve"} ELSE {}

LEMMA DefaultPlans ==
  ASSUME NEW intent
  PROVE  /\ DefaultPlan(intent) \in Seq(Tools \ {"calculate_reserve"})
         /\ Len(DefaultPlan(intent)) <= 3
         /\ intent \in Intents \ Chat => DefaultPlan(intent) # <<>>
         /\ intent \notin Intents \ Chat => DefaultPlan(intent) = <<>>
<1> USE DEF DefaultPlan, Intents, Chat, AnalyticsFamily
<1>1. CASE intent = "reserve_calculation"
  BY <1>1, ToolNames
<1>2. CASE intent = "reserve_explanation"
  BY <1>2, ToolNames
<1>3. CASE intent = "sku_summary"
  BY <1>3, ToolNames
<1>4. CASE intent = "client_summary"
  BY <1>4, ToolNames
<1>5. CASE intent = "diy_coverage_check"
  BY <1>5, ToolNames
<1>6. CASE intent = "inbound_impact"
  BY <1>6, ToolNames
<1>7. CASE intent = "stock_risk_summary"
  BY <1>7, ToolNames
<1>8. CASE intent = "upload_status_summary"
  BY <1>8, ToolNames
<1>9. CASE intent = "quality_issue_summary"
  BY <1>9, ToolNames
<1>10. CASE intent = "management_report_summary"
  BY <1>10, ToolNames
<1>11. CASE intent = "sales_summary"
  BY <1>11, ToolNames
<1>12. CASE intent = "period_comparison"
  BY <1>12, ToolNames
<1>13. CASE intent = "analytics_slice"
  BY <1>13, ToolNames
<1>14. CASE intent = "data_overview"
  BY <1>14, ToolNames
<1>15. CASE intent \notin Intents \ Chat
  <2>1. intent \notin {"reserve_calculation", "reserve_explanation", "sku_summary",
            "client_summary", "diy_coverage_check", "inbound_impact", "stock_risk_summary",
            "upload_status_summary", "quality_issue_summary", "management_report_summary",
            "sales_summary", "period_comparison", "analytics_slice", "data_overview"}
    BY <1>15
  <2>2. DefaultPlan(intent) = <<>>
    BY <2>1
  <2> HIDE DEF DefaultPlan, Intents, Chat, AnalyticsFamily
  <2> QED
    BY <1>15, <2>2
<1> QED
  BY <1>1, <1>2, <1>3, <1>4, <1>5, <1>6, <1>7, <1>8, <1>9, <1>10, <1>11, <1>12, <1>13,
     <1>14, <1>15

\* What is planned for an intent, and when there is something to do at all.
LEMMA PlansAreSafe ==
  ASSUME NEW intent, NEW planned \in Seq(STRING), NEW text,
         NEW params, ExecutionPlan(intent, planned, text, params) # <<>>
  PROVE  /\ intent \in Intents \ Chat
         /\ ExecutionPlan(intent, planned, text, params) \in Seq(Tools)
         /\ Head(ExecutionPlan(intent, planned, text, params)) \in Primary(intent)
         /\ \A i \in DOMAIN ExecutionPlan(intent, planned, text, params) :
              ExecutionPlan(intent, planned, text, params)[i] = "calculate_reserve"
                => IsRecalculation(text) \/ IsForced(params)
<1> DEFINE counts == intent = "reserve_calculation" /\ (IsRecalculation(text) \/ IsForced(params))
           required == IF counts
                       THEN <<"calculate_reserve", "get_quality_issues", "get_upload_status">>
                       ELSE DefaultPlan(intent)
           allowed == ToSet(required)
                      \cup (IF intent \in TakesSupport THEN SupportTools ELSE {})
                      \cup (IF intent = "management_report_summary"
                            THEN {"get_upload_status", "get_quality_issues"} ELSE {})
           added == Among(planned, allowed \ ToSet(required))
           plan == required \o added
           last == IF Len(plan) > 3 THEN 3 ELSE Len(plan)
<1>1. intent \notin Chat /\ ExecutionPlan(intent, planned, text, params) = SubSeq(plan, 1, last)
  BY DEF ExecutionPlan
<1>2. required \in Seq(Tools)
  <2>1. DefaultPlan(intent) \in Seq(Tools)
    BY DefaultPlans
  <2>2. <<"calculate_reserve", "get_quality_issues", "get_upload_status">> \in Seq(Tools)
    BY ToolNames
  <2> QED
    BY <2>1, <2>2
<1>3. \A i \in DOMAIN required : required[i] = "calculate_reserve" => counts
  BY DefaultPlans
<1>4. ToSet(required) \subseteq Tools
  BY <1>2 DEF ToSet
<1>5. allowed \subseteq Tools
  BY <1>4, ToolNames DEF SupportTools
<1>6. "calculate_reserve" \in allowed \ ToSet(required) => FALSE
  BY DEF SupportTools
<1>7. added \in Seq(allowed \ ToSet(required))
  BY AmongIsOf
<1>8. required = <<>> => allowed = {}
  BY DefaultPlans DEF ToSet, TakesSupport, Intents, Chat, AnalyticsFamily
<1> HIDE DEF required, allowed, added
<1>9. added \in Seq(Tools)
  BY <1>5, <1>7
<1>10. required # <<>>
  <2>1. SUFFICES ASSUME required = <<>> PROVE FALSE
    OBVIOUS
  <2>2. added = <<>>
    BY <1>7, <1>8, <2>1
  <2>3. plan = <<>> /\ Len(plan) = 0
    BY <2>1, <2>2
  <2> QED
    BY <1>1, <2>3
<1>11. intent \in Intents \ Chat
  BY <1>1, <1>10, DefaultPlans DEF required, Intents, Chat, AnalyticsFamily
<1>12. plan \in Seq(Tools) /\ Len(plan) = Len(required) + Len(added)
  BY <1>2, <1>9
<1>13. last \in 1 .. Len(plan)
  BY <1>2, <1>9, <1>10, <1>12
<1> DEFINE tools == SubSeq(plan, 1, last)
<1>14. /\ tools \in Seq(Tools) /\ Len(tools) = last
       /\ \A i \in 1 .. last : tools[i] = plan[i]
  BY <1>12, <1>13
<1>15. Head(tools) = required[1] /\ required[1] \in Primary(intent)
  <2>1. plan[1] = required[1]
    BY <1>2, <1>9, <1>10
  <2>2. Head(tools) = tools[1] /\ tools[1] = plan[1]
    BY <1>13, <1>14
  <2> QED
    BY <2>1, <2>2 DEF required, Primary
<1>16. ASSUME NEW i \in DOMAIN tools, tools[i] = "calculate_reserve"
       PROVE  IsRecalculation(text) \/ IsForced(params)
  <2>1. i \in 1 .. Len(plan) /\ plan[i] = "calculate_reserve"
    BY <1>13, <1>14, <1>16
  <2>2. CASE i \in DOMAIN required
    BY <1>2, <1>3, <1>9, <2>1, <2>2
  <2>3. CASE i \notin DOMAIN required
    <3>1. i - Len(required) \in DOMAIN added /\ plan[i] = added[i - Len(required)]
      BY <1>2, <1>9, <1>12, <2>1, <2>3
    <3> QED
      BY <1>6, <1>7, <2>1, <3>1
  <2> QED
    BY <2>2, <2>3
<1> QED
  BY <1>1, <1>11, <1>14, <1>15, <1>16

(* ----------------------- how a question is understood -------------------- *)
LEMMA PlanRouteOfSilence ==
  ASSUME NEW q, NEW intent
  PROVE  LET plan == PlanRoute(q, intent, Silence)
         IN  plan.intent = intent /\ plan.text = <<q>> /\ plan.tools = <<>>
             /\ plan.params = NoParams
BY DEF PlanRoute, Silence

\* The planner's intent is kept only within the family of the words.
LEMMA PlanRouteKeepsFamily ==
  ASSUME NEW q, NEW intent, NEW reply, DOMAIN reply = DOMAIN Silence,
         reply.tools \in Seq(STRING)
  PROVE  LET plan == PlanRoute(q, intent, reply)
         IN  /\ plan.tools \in Seq(STRING)
             /\ plan.text \in {<<q>>} \cup ({reply.text} \ {<<>>})
             /\ intent \notin Chat => Compatible(intent, plan.intent)
<1>1. CASE PlanRoute(q, intent, reply) = [Silence EXCEPT !.intent = intent, !.text = <<q>>]
  BY <1>1 DEF Silence, Compatible
<1>2. CASE /\ PlanRoute(q, intent, reply)
                = [reply EXCEPT !.text = IF reply.text = <<>> THEN <<q>> ELSE reply.text]
           /\ intent \notin Chat => Compatible(intent, reply.intent)
  <2>1. DOMAIN reply = {"intent", "text", "tools", "params", "missing", "asks"}
    BY DEF Silence
  <2> QED
    BY <1>2, <2>1
<1> QED
  BY <1>1, <1>2 DEF PlanRoute

LEMMA CompatibleIsDomain ==
  ASSUME NEW intent, intent \notin Chat, NEW planned, Compatible(intent, planned)
  PROVE  planned \notin Chat
BY DEF Compatible, Chat, AnalyticsFamily

LEMMA FollowedIntentStays ==
  ASSUME NEW planned, NEW params, NEW text, planned \notin Chat, ~ IsContextual(text)
  PROVE  FollowedIntent(planned, params, text) = planned
BY DEF FollowedIntent

\* A question that stands on its own is not read with what came before.
LEMMA FallbackStays ==
  ASSUME NEW text, NEW intent, NEW planned, NEW plannedText, NEW messages,
         ~ IsContextual(text), ~ IsRepair(text)
  PROVE  LET settled == HistoryFallback(text, intent, planned, plannedText, messages)
         IN  /\ settled.text \in {plannedText, text}
             /\ planned \notin Chat => settled.intent = planned
BY DEF HistoryFallback, Chat

LEMMA RouteIsOf ==
  ASSUME NEW text, NEW intent
  PROVE  LET route == RouteQuestion(text, intent)
         IN  /\ route.intent = intent
             /\ intent \notin Chat => route.client = FirstClient(text)
BY DEF RouteQuestion

(* ------------------------------ the parameters --------------------------- *)
Names(params, client) == "client_id" \in DOMAIN params /\ params["client_id"] = client

LEMMA NamesInFront ==
  ASSUME NEW p, NEW q, NEW client, Names(p, client)
  PROVE  Names(p ++ q, client)
BY FrontStays DEF Names

LEMMA NamesBehind ==
  ASSUME NEW p, NEW q, NEW client, Names(q, client), "client_id" \notin DOMAIN p
  PROVE  Names(p ++ q, client)
BY DEF Names, ++

LEMMA NamesBehindField ==
  ASSUME NEW f, f # "client_id", NEW value, NEW q, NEW client, Names(q, client)
  PROVE  Names(Field(f, value) ++ q, client)
<1>1. "client_id" \notin DOMAIN Field(f, value)
  BY DEF Field
<1> QED
  BY <1>1, NamesBehind

LEMMA NamesWithout ==
  ASSUME NEW p, NEW client, Names(p, client), NEW fields, "client_id" \notin fields
  PROVE  Names(Without(p, fields), client)
BY DEF Names, Without

\* A client that the question names is the client of the parameters, whatever was
\* inherited, pinned or planned; without one the inherited client is.
LEMMA EntityParamsName ==
  ASSUME NEW inherited, NEW route, NEW pin, NEW client, client # {},
         route.client = client \/ (route.client = {} /\ Names(inherited, client))
  PROVE  Names(EntityParams(inherited, route, pin), client)
<1> DEFINE named == IF route.client # {} THEN Field("client_id", route.client) ++ inherited
                    ELSE inherited ++ Only("client_id", pin.client)
           sku == IF route.skus # {} THEN Field("sku_ids", route.skus) ++ named
                                          ++ Field("sku_id", route.sku)
                  ELSE named ++ Only("sku_id", pin.sku)
           category == IF route.category # {} THEN Field("category_id", route.category) ++ sku
                       ELSE sku ++ Only("category_id", pin.category)
<1>1. Names(named, client)
  <2>1. Names(Field("client_id", client), client)
    BY DEF Names, Field
  <2> QED
    BY <2>1, NamesInFront
<1> HIDE DEF named
<1>2. Names(sku, client)
  BY <1>1, NamesInFront, NamesBehindField
<1> HIDE DEF sku
<1>3. Names(category, client)
  BY <1>2, NamesInFront, NamesBehindField
<1> HIDE DEF category
<1>4. EntityParams(inherited, route, pin)
        = category ++ Only("reserve_run_id", pin.run) ++ Only("client_name", route.client)
  BY DEF EntityParams, named, sku, category
<1> QED
  BY <1>3, <1>4, NamesInFront

LEMMA NamesBehindOnly ==
  ASSUME NEW f, f # "client_id", NEW value, NEW q, NEW client, Names(q, client)
  PROVE  Names(Only(f, value) ++ q, client)
<1>1. "client_id" \notin DOMAIN Only(f, value)
  BY DEF Only, NoParams, Field
<1> QED
  BY <1>1, NamesBehind

LEMMA SliceParamsName ==
  ASSUME NEW params, NEW client, Names(params, client), NEW text
  PROVE  Names(SliceParams(params, text), client)
<1> DEFINE parsed == PeriodOf(text)
           period == IF Get(params, "period") # {} THEN params
                     ELSE IF parsed # {} THEN Field("period", parsed) ++ params ++ Field("dates", parsed)
                     ELSE Only("period", Get(params, "dates")) ++ params
           metrics == period ++ Field("question", {text})
                      ++ Only("metrics", IF MetricsOf(text) # {} THEN MetricsOf(text)
                                    ELSE IF MetricsIn(params) = {} THEN {"revenue", "sales_qty"} ELSE {})
           dims == IF DimensionsOf(text) # {} THEN metrics ++ Field("dimensions", DimensionsOf(text))
                   ELSE IF Get(metrics, "dimensions") # {} THEN metrics
                   ELSE metrics ++ Field("dimensions", SourceDimensions(metrics, text))
<1>1. Names(period, client)
  BY NamesBehindOnly, NamesBehindField, NamesInFront
<1> HIDE DEF period
<1>2. Names(metrics, client)
  BY <1>1, NamesInFront
<1> HIDE DEF metrics
<1>3. Names(dims, client)
  BY <1>2, NamesInFront
<1> HIDE DEF dims
<1>4. SliceParams(params, text)
        = dims ++ (IF Says(text, {"top"}) THEN Field("limit", {"20"}) ELSE NoParams)
               ++ (IF Says(text, {"dropped"}) THEN Field("sort_direction", {"asc"}) ELSE NoParams)
  BY DEF SliceParams, dims, metrics, period
<1> QED
  BY <1>3, <1>4, NamesInFront

LEMMA ParamsName ==
  ASSUME NEW text, NEW route, NEW pin, NEW planned, NEW inherited,
         NEW client, client # {},
         route.client = client \/ (route.client = {} /\ Names(planned ++ inherited, client))
  PROVE  Names(ParamsFromRoute(text, route, pin, planned, inherited), client)
<1> DEFINE entities == EntityParams(planned ++ inherited, route, pin)
           params ==
             CASE route.intent = "management_report_summary" -> entities ++ Field("question", {text})
               [] route.intent = "sales_summary"     -> SalesParams(entities, text)
               [] route.intent = "period_comparison" -> ComparisonParams(entities, text)
               [] route.intent = "analytics_slice"   -> SliceParams(entities, text)
               [] OTHER -> entities
<1>1. Names(entities, client)
  BY EntityParamsName
<1> HIDE DEF entities
<1>2. Names(entities ++ Field("question", {text}), client)
  BY <1>1, NamesInFront
<1>3. Names(SalesParams(entities, text), client)
  BY <1>1, NamesWithout, NamesInFront DEF SalesParams
<1>4. Names(ComparisonParams(entities, text), client)
  BY <1>1, NamesInFront DEF ComparisonParams
<1>5. Names(SliceParams(entities, text), client)
  BY <1>1, SliceParamsName
<1>6. Names(params, client)
  BY <1>1, <1>2, <1>3, <1>4, <1>5
<1> HIDE DEF params
<1>7. ParamsFromRoute(text, route, pin, planned, inherited)
        = Restricted(params, {f \in DOMAIN params : params[f] # {} \/ f = "dimensions"})
  BY DEF ParamsFromRoute, params, entities
<1> QED
  BY <1>6, <1>7 DEF Names, Restricted

(* ---------------------- what is recorded of a client ---------------------- *)
LEMMA OnlyClientTools ==
  ASSUME NEW tool, tool \notin ClientTools, NEW params, NEW ctx
  PROVE  Get(Arguments(tool, params, ctx), "client_id") = {}
<1>1. /\ Get(StockArgs(ctx), "client_id") = {} /\ Get(SkuOf(ctx), "client_id") = {}
      /\ Get(Only("question", Get(params, "question")), "client_id") = {}
      /\ Get(NoParams, "client_id") = {}
  BY DEF StockArgs, SkuOf, Get, Only, NoParams, Field, ++
<1> QED
  BY <1>1 DEF Arguments, ClientTools

LEMMA ClientToolsTell ==
  ASSUME NEW tool \in ClientTools, NEW params, NEW ctx, NEW client, client # {},
         ctx.client = client, Over(params, "client_id", client) = client
  PROVE  Names(Arguments(tool, params, ctx), client)
<1>1. Names(Only("client_id", client), client)
  BY DEF Names, Only, Field
<1>2. Names(ClientOf(ctx), client)
  BY <1>1 DEF ClientOf
<1>3. Names(NamedIn(params, ctx), client)
  BY <1>1, NamesInFront DEF NamedIn
<1>4. Names(CalculationArgs(ctx), client)
  BY <1>2, NamesInFront DEF CalculationArgs
<1>5. Names(ReserveArgs(params, ctx), client)
  BY <1>2, NamesInFront DEF ReserveArgs
<1>6. Names(ExplanationArgs(ctx), client)
  BY <1>2, NamesInFront DEF ExplanationArgs
<1>7. Names(InboundArgs(ctx), client)
  BY <1>2, NamesInFront DEF InboundArgs
<1>8. Names(SalesArgs(params, ctx), client)
  BY <1>3, NamesBehindOnly DEF SalesArgs
<1>9. Names(ComparisonArgs(params, ctx), client)
  <2>1. "client_id" \notin DOMAIN Restricted(params, {"metric", "current_period", "previous_period"})
    BY DEF Restricted
  <2> QED
    BY <1>3, <2>1, NamesBehind DEF ComparisonArgs
<1>10. Names(SliceArgs(params, ctx), client)
  <2> DEFINE first == Only("metrics", MetricsIn(params))
             second == Only("category_id", Over(params, "category_id", ctx.category))
             shown == {g \in {"dimensions", "period", "dates", "filters", "sort_by", "sort_direction",
                              "limit"} : Get(params, g) # {}}
             cut == [f \in shown |-> params[f]]
  <2>1. "client_id" \notin DOMAIN first /\ "client_id" \notin DOMAIN second
    BY DEF Only, NoParams, Field
  <2>2. "client_id" \notin DOMAIN (first ++ second)
    BY <2>1 DEF ++
  <2> HIDE DEF first, second, cut
  <2>3. Names(first ++ second ++ NamedIn(params, ctx) ++ cut, client)
    BY <1>3, <2>2, NamesBehind, NamesInFront
  <2> QED
    BY <2>3 DEF SliceArgs, first, second, cut, shown
<1> QED
  BY <1>2, <1>4, <1>5, <1>6, <1>7, <1>8, <1>9, <1>10 DEF Arguments, ClientTools

(* ------------------------------- the answer ------------------------------ *)
Ends == {"rows", "failed", "empty", "none", "unsupported"}
Statuses == {"completed", "partial", "no_data", "needs_clarification", "unsupported"}

LEMMA OutcomesAreEnds ==
  ASSUME NEW tool \in Tools, NEW params, NEW ctx
  PROVE  Outcomes(tool, params, ctx) \subseteq Ends
BY ToolNames DEF Outcomes, CalculationEnds, ReserveEnds, ExplanationEnds, SkuEnds, ClientEnds,
   InboundEnds, StockEnds, UploadEnds, QualityEnds, DashboardEnds, OverviewEnds, ReportEnds,
   SalesEnds, ComparisonEnds, SliceEnds, Found, Listed, Optional, Ends

\* The primary tools whose answers count the warnings warn without rows, but for an empty
\* calculation and the summary of a client without reserve rows.
Counted == {"reserve_calculation", "reserve_explanation", "sku_summary", "client_summary",
            "diy_coverage_check"}

IsBare(tool, got) == got = "empty" /\ tool \in {"calculate_reserve", "get_client_summary"}

LEMMA CountedWarn ==
  ASSUME NEW intent \in Counted, NEW tool \in Primary(intent), NEW got \in Ends \ {"rows"}
  PROVE  Warns(tool, got) \/ IsBare(tool, got)
<1>1. tool \in {"get_reserve", "calculate_reserve", "get_reserve_explanation", "get_sku_summary",
                "get_client_summary"}
  BY DEF Primary, Counted, DefaultPlan
<1> QED
  BY <1>1 DEF Warns, Ends, EmptyIsSilent, IsBare

LEMMA StatusIsHonest ==
  ASSUME NEW intent \in Intents \ Chat, NEW got \in Ends, NEW alarmed \in BOOLEAN,
         NEW warned \in BOOLEAN, NEW tool,
         got # "rows" /\ intent \in Counted => alarmed \/ IsBare(tool, got)
  PROVE  /\ AnswerStatus(intent, got, alarmed, warned) \in Statuses
         /\ got # "rows" /\ AnswerStatus(intent, got, alarmed, warned) = "completed" => IsBare(tool, got)
         /\ alarmed => \/ AnswerWarned(intent, got, alarmed, warned)
                       \/ AnswerStatus(intent, got, alarmed, warned) = "unsupported"
<1> DEFINE counted == AnswerWarned(intent, got, alarmed, warned)
<1>1. \/ counted <=> warned \/ alarmed
      \/ intent = "sku_summary" /\ NoPayload(got)
  BY DEF AnswerWarned
<1>2. counted \in BOOLEAN
  BY DEF AnswerWarned
<1> HIDE DEF counted
<1> USE DEF Statuses, NoPayload
<1>3. CASE intent = "reserve_calculation"
  <2>1. AnswerStatus(intent, got, alarmed, warned) = ReserveStatus(got, counted)
    BY <1>3 DEF AnswerStatus, counted
  <2> QED
    BY <1>1, <1>2, <1>3, <2>1 DEF ReserveStatus, ByWarnings, Counted, counted
<1>4. CASE intent = "reserve_explanation"
  <2>1. AnswerStatus(intent, got, alarmed, warned) = ExplanationStatus(got, counted)
    BY <1>4 DEF AnswerStatus, counted
  <2> QED
    BY <1>1, <1>2, <1>4, <2>1 DEF ExplanationStatus, ByWarnings, Counted, counted
<1>5. CASE intent = "sku_summary"
  <2>1. AnswerStatus(intent, got, alarmed, warned) = SkuStatus(got, counted)
    BY <1>5 DEF AnswerStatus, counted
  <2> QED
    BY <1>1, <1>2, <1>5, <2>1 DEF SkuStatus, ByWarnings, Counted, counted
<1>6. CASE intent = "client_summary"
  <2>1. AnswerStatus(intent, got, alarmed, warned) = ClientStatus(got, counted)
    BY <1>6 DEF AnswerStatus, counted
  <2> QED
    BY <1>1, <1>2, <1>6, <2>1 DEF ClientStatus, ByWarnings, Counted, counted
<1>7. CASE intent = "diy_coverage_check"
  <2>1. AnswerStatus(intent, got, alarmed, warned) = ClientStatus(got, counted)
    BY <1>7 DEF AnswerStatus, counted
  <2> QED
    BY <1>1, <1>2, <1>7, <2>1 DEF ClientStatus, ByWarnings, Counted, counted
<1>8. CASE intent = "data_overview"
  <2>1. AnswerStatus(intent, got, alarmed, warned) = OverviewStatus(got)
    BY <1>8 DEF AnswerStatus
  <2> QED
    BY <1>1, <1>8, <2>1 DEF OverviewStatus, ByRows, counted
<1>9. CASE intent = "inbound_impact"
  <2>1. AnswerStatus(intent, got, alarmed, warned) = InboundStatus(got)
    BY <1>9 DEF AnswerStatus
  <2> QED
    BY <1>1, <1>9, <2>1 DEF InboundStatus, ByRows, counted
<1>10. CASE intent = "stock_risk_summary"
  <2>1. AnswerStatus(intent, got, alarmed, warned) = StockStatus(got)
    BY <1>10 DEF AnswerStatus
  <2> QED
    BY <1>1, <1>10, <2>1 DEF StockStatus, ByRows, counted
<1>11. CASE intent = "sales_summary"
  <2>1. AnswerStatus(intent, got, alarmed, warned) = SalesStatus(got)
    BY <1>11 DEF AnswerStatus
  <2> QED
    BY <1>1, <1>11, <2>1 DEF SalesStatus, ByRows, counted
<1>12. CASE intent = "analytics_slice"
  <2>1. AnswerStatus(intent, got, alarmed, warned) = SliceStatus(got)
    BY <1>12 DEF AnswerStatus
  <2> QED
    BY <1>1, <1>12, <2>1 DEF SliceStatus, counted
<1>13. CASE intent = "period_comparison"
  <2>1. AnswerStatus(intent, got, alarmed, warned) = ComparisonStatus(got)
    BY <1>13 DEF AnswerStatus
  <2> QED
    BY <1>1, <1>13, <2>1 DEF ComparisonStatus, ByRows, counted
<1>14. CASE intent = "upload_status_summary"
  <2>1. AnswerStatus(intent, got, alarmed, warned) = UploadStatus(got)
    BY <1>14 DEF AnswerStatus
  <2> QED
    BY <1>1, <1>14, <2>1 DEF UploadStatus, ByRows, counted
<1>15. CASE intent = "quality_issue_summary"
  <2>1. AnswerStatus(intent, got, alarmed, warned) = QualityStatus(got)
    BY <1>15 DEF AnswerStatus
  <2> QED
    BY <1>1, <1>15, <2>1 DEF QualityStatus, ByRows, counted
<1>16. CASE intent = "management_report_summary"
  <2>1. AnswerStatus(intent, got, alarmed, warned) = ReportStatus(got)
    BY <1>16 DEF AnswerStatus
  <2> QED
    BY <1>1, <1>16, <2>1 DEF ReportStatus, ByRows, counted
<1> QED
  BY <1>3, <1>4, <1>5, <1>6, <1>7, <1>8, <1>9, <1>10, <1>11, <1>12, <1>13, <1>14, <1>15, <1>16
     DEF Intents, Chat, AnalyticsFamily

(* -------------------------- a turn and what it owes ---------------------- *)
TurnFields == {"q", "silent", "wording", "words", "state", "forced", "intent", "text", "tools",
               "params", "ctx", "warned", "business", "unknown", "missing", "asks", "done", "got",
               "alarmed", "failed", "run", "stored"}
ContextFields == {"client", "sku", "skus", "category", "run"}

\* The question of the turn is read on its own, with nobody's help.
IsAlone(r) == ~ IsContextual(<<r.q>>) /\ ~ IsRepair(<<r.q>>)

\* What the question fixes, whatever the tools find.
IsRead(r) ==
  /\ DOMAIN r = TurnFields
  /\ r.intent \in Intents \ Chat
  /\ r.warned \in BOOLEAN
  /\ r.words \notin Chat /\ IsAlone(r) => Compatible(r.words, r.intent)
  /\ IsAlone(r) => r.text \in {<<r.q>>} \cup ({r.wording} \ {<<>>})
  /\ r.silent => r.wording = <<>>

\* The tools that are left and what the ones before them have recorded.
ToolsAreSound(r) ==
  /\ r.tools \in Seq(Tools)
  /\ \A i \in DOMAIN r.tools :
       r.tools[i] = "calculate_reserve" => IsRecalculation(r.text) \/ IsForced(r.params)
  /\ DOMAIN r.ctx = ContextFields
  /\ r.alarmed \in BOOLEAN
  /\ r.failed => r.alarmed
  /\ \E S : r.done \in Seq(S)
  /\ r.done = <<>> => r.tools # <<>> /\ Head(r.tools) \in Primary(r.intent)
  /\ r.done # <<>> =>
       /\ r.done[1].tool \in Primary(r.intent)
       /\ r.got \in Ends
       /\ r.got # "rows" /\ r.intent \in Counted => r.alarmed \/ IsBare(r.done[1].tool, r.got)

\* A client that the words answered name is in the parameters, in the context and in what
\* the tools with a client have recorded.
Client(r) == FirstClient(r.text)
TellsClient(call, client) ==
  Get(call.args, "client_id") = IF call.tool \in ClientTools THEN client ELSE {}
ClientIsKept(r) ==
  Client(r) # {} =>
    /\ Names(r.params, Client(r))
    /\ r.ctx.client = Client(r)
    /\ \A i \in DOMAIN r.done : TellsClient(r.done[i], Client(r))

TurnInv(r) == IsRead(r) /\ ToolsAreSound(r) /\ ClientIsKept(r)

LEMMA ReadFields ==
  ASSUME NEW q, NEW reply, NEW pin
  PROVE  /\ DOMAIN Read(q, reply, pin) = TurnFields
         /\ DOMAIN Read(q, reply, pin).ctx = ContextFields
         /\ Read(q, reply, pin).done = <<>>
         /\ Read(q, reply, pin).alarmed = FALSE /\ Read(q, reply, pin).failed = FALSE
         /\ Read(q, reply, pin).warned \in BOOLEAN
         /\ Read(q, reply, pin).wording = reply.text
BY DEF Read, Prepared, TurnFields, ContextFields, Context, Conflicts

\* What the handler has understood when it starts the tools.
LEMMA ReadIsTurn ==
  ASSUME NEW q, NEW reply, NEW pin, DOMAIN reply = DOMAIN Silence, reply.tools \in Seq(STRING),
         Read(q, reply, pin).tools # <<>>
  PROVE  TurnInv(Read(q, reply, pin))
<1> DEFINE text     == <<q>>
           messages == Recent
           state    == Derive(messages)
           intent   == DetectIntent(text)
           plan     == PlanRoute(q, intent, reply)
           resolved == ResolveFollowUp(text, state, plan.params)
           settled  == HistoryFallback(text, intent, FollowedIntent(plan.intent, resolved, text),
                                       plan.text, messages)
           route    == RouteQuestion(settled.text, settled.intent)
           params   == ParamsFromRoute(settled.text, route, pin, plan.params, resolved)
           tools    == ExecutionPlan(route.intent, plan.tools, settled.text, params)
           r        == Read(q, reply, pin)
<1>1. /\ r.q = q /\ r.silent = (reply = Silence) /\ r.words = intent /\ r.intent = route.intent
      /\ r.text = settled.text /\ r.tools = tools /\ r.params = params /\ r.ctx = Context(route, pin)
  BY DEF Read, Prepared
<1> HIDE DEF messages, state, intent, resolved
<1>2. /\ plan.tools \in Seq(STRING)
      /\ intent \notin Chat => Compatible(intent, plan.intent)
      /\ plan.text \in {<<q>>} \cup ({reply.text} \ {<<>>})
  BY PlanRouteKeepsFamily
<1> HIDE DEF plan
<1>3. ~ IsContextual(text) /\ ~ IsRepair(text) =>
        /\ settled.text \in {plan.text, text}
        /\ FollowedIntent(plan.intent, resolved, text) \notin Chat
             => settled.intent = FollowedIntent(plan.intent, resolved, text)
  BY FallbackStays
<1>4. /\ plan.intent \notin Chat /\ ~ IsContextual(text)
           => FollowedIntent(plan.intent, resolved, text) = plan.intent
      /\ intent \notin Chat => plan.intent \notin Chat
  BY <1>2, FollowedIntentStays, CompatibleIsDomain
<1> HIDE DEF settled
<1>5. route.intent = settled.intent
      /\ (settled.intent \notin Chat => route.client = FirstClient(settled.text))
  BY RouteIsOf
<1> HIDE DEF route
<1>6. /\ route.intent \in Intents \ Chat /\ tools \in Seq(Tools) /\ tools # <<>>
      /\ Head(tools) \in Primary(route.intent)
      /\ \A i \in DOMAIN tools :
           tools[i] = "calculate_reserve" => IsRecalculation(settled.text) \/ IsForced(params)
  <2>1. tools # <<>> /\ plan.tools \in Seq(STRING)
    BY <1>1, <1>2
  <2> HIDE DEF params, r
  <2> QED
    BY <2>1, PlansAreSafe
<1> HIDE DEF tools
<1>7. route.client # {} => Names(params, route.client) /\ Context(route, pin).client = route.client
  BY ParamsName DEF Context
<1> HIDE DEF params
<1>8. /\ DOMAIN r = TurnFields /\ DOMAIN r.ctx = ContextFields
      /\ r.done = <<>> /\ r.alarmed = FALSE /\ r.failed = FALSE /\ r.warned \in BOOLEAN
      /\ r.wording = reply.text /\ (r.silent => r.wording = <<>>)
  <2>1. reply = Silence => reply.text = <<>>
    BY DEF Silence
  <2>2. r.silent => reply = Silence
    BY <1>1, Zenon
  <2>3. /\ DOMAIN r = TurnFields /\ DOMAIN r.ctx = ContextFields
        /\ r.done = <<>> /\ r.alarmed = FALSE /\ r.failed = FALSE /\ r.warned \in BOOLEAN
        /\ r.wording = reply.text
    BY ReadFields
  <2> HIDE DEF r
  <2> QED
    BY <2>1, <2>2, <2>3
<1> HIDE DEF r
<1>9. IsAlone(r) <=> ~ IsContextual(text) /\ ~ IsRepair(text)
  BY <1>1 DEF IsAlone
<1> HIDE DEF text
<1>10. IsRead(r)
  BY <1>1, <1>2, <1>3, <1>4, <1>5, <1>6, <1>8, <1>9 DEF IsRead, text
<1>11. ToolsAreSound(r)
  <2>1. r.done \in Seq({})
    BY <1>8
  <2>2. \E S : r.done \in Seq(S)
    BY <2>1
  <2> QED
    BY <1>1, <1>6, <1>8, <2>2 DEF ToolsAreSound
<1>12. ClientIsKept(r)
  <2>1. route.client = Client(r)
    BY <1>1, <1>5, <1>6 DEF Client
  <2> QED
    BY <1>1, <1>7, <1>8, <2>1 DEF ClientIsKept
<1> QED
  BY <1>10, <1>11, <1>12 DEF TurnInv, r

(* ---------------------------- what a tool records ------------------------ *)
Subjects == {"client_id", "sku_id"}
Subject(ctx, field) == IF field = "client_id" THEN ctx.client ELSE ctx.sku
Within(params, field, values) == Get(params, field) \subseteq values

LEMMA WithinMerge ==
  ASSUME NEW p, NEW q, NEW field, NEW values, Within(p, field, values), Within(q, field, values)
  PROVE  Within(p ++ q, field, values)
BY DEF Within, Get, ++

LEMMA WithinOther ==
  ASSUME NEW field, NEW f, f # field, NEW value, NEW values
  PROVE  Within(Only(f, value), field, values)
BY DEF Within, Get, Only, NoParams, Field

LEMMA WithinOnly ==
  ASSUME NEW field, NEW values
  PROVE  Within(Only(field, values), field, values)
BY DEF Within, Get, Only, NoParams, Field

LEMMA WithinRestricted ==
  ASSUME NEW p, NEW field, NEW fields, field \notin fields, NEW values
  PROVE  Within(Restricted(p, fields), field, values)
BY DEF Within, Get, Restricted

\* No tool records a client or a SKU other than that of its context, once the parameters
\* are in it.
LEMMA ArgumentsAreWithin ==
  ASSUME NEW tool, NEW params, NEW ctx, NEW field \in Subjects,
         Over(params, field, Subject(ctx, field)) = Subject(ctx, field)
  PROVE  Within(Arguments(tool, params, ctx), field, Subject(ctx, field))
<1> DEFINE values == Subject(ctx, field)
<1> USE DEF Subjects
<1>1. Within(NamedIn(params, ctx), field, values)
  <2>1. CASE field = "client_id"
    <3>1. NamedIn(params, ctx) = Only("client_id", values)
                                 ++ Only("sku_id", Over(params, "sku_id", ctx.sku))
      BY <2>1 DEF NamedIn, Subject
    <3> QED
      BY <2>1, <3>1, WithinOnly, WithinOther, WithinMerge
  <2>2. CASE field = "sku_id"
    <3>1. NamedIn(params, ctx) = Only("client_id", Over(params, "client_id", ctx.client))
                                 ++ Only("sku_id", values)
      BY <2>2 DEF NamedIn, Subject
    <3> QED
      BY <2>2, <3>1, WithinOnly, WithinOther, WithinMerge
  <2> QED
    BY <2>1, <2>2
<1>2. Within(ClientOf(ctx), field, values) /\ Within(SkuOf(ctx), field, values)
  BY WithinOnly, WithinOther DEF ClientOf, SkuOf, Subject
<1> HIDE DEF values
<1>3. ASSUME NEW f, f \notin Subjects, NEW value PROVE Within(Only(f, value), field, values)
  BY <1>3, WithinOther
<1>4. Within(CalculationArgs(ctx), field, values)
  BY <1>2, <1>3, WithinMerge DEF CalculationArgs
<1>5. Within(ReserveArgs(params, ctx), field, values)
  BY <1>2, <1>3, WithinMerge DEF ReserveArgs
<1>6. Within(ExplanationArgs(ctx), field, values)
  BY <1>2, <1>3, WithinMerge DEF ExplanationArgs
<1>7. Within(StockArgs(ctx), field, values)
  BY <1>2, <1>3, WithinMerge DEF StockArgs
<1>8. Within(InboundArgs(ctx), field, values)
  BY <1>2, WithinMerge DEF InboundArgs
<1>9. Within(SalesArgs(params, ctx), field, values)
  BY <1>1, <1>3, WithinMerge DEF SalesArgs
<1>10. Within(ComparisonArgs(params, ctx), field, values)
  BY <1>1, WithinRestricted, WithinMerge DEF ComparisonArgs
<1>11. Within(SliceArgs(params, ctx), field, values)
  <2> DEFINE shown == {g \in {"dimensions", "period", "dates", "filters", "sort_by", "sort_direction",
                              "limit"} : Get(params, g) # {}}
             cut == [f \in shown |-> params[f]]
             first == Only("metrics", MetricsIn(params))
             second == Only("category_id", Over(params, "category_id", ctx.category))
  <2>1. field \notin shown
    OBVIOUS
  <2> HIDE DEF shown
  <2>2. Within(cut, field, values)
    BY <2>1 DEF Within, Get
  <2> HIDE DEF cut
  <2>3. Within(first, field, values) /\ Within(second, field, values)
    BY <1>3
  <2> HIDE DEF first, second
  <2>4. Within(first ++ second ++ NamedIn(params, ctx) ++ cut, field, values)
    BY <1>1, <2>2, <2>3, WithinMerge
  <2> QED
    BY <2>4 DEF SliceArgs, cut, first, second, shown
<1>12. Within(Only("question", Get(params, "question")), field, values) /\ Within(NoParams, field, values)
  BY <1>3 DEF Within, Get, NoParams
<1> QED
  BY <1>2, <1>4, <1>5, <1>6, <1>7, <1>8, <1>9, <1>10, <1>11, <1>12 DEF Arguments, values

\* A handler leaves in the context the client of its parameters.
LEMMA HandledKeepsClient ==
  ASSUME NEW tool, NEW params, NEW ctx, DOMAIN ctx = ContextFields
  PROVE  /\ DOMAIN Handled(tool, params, ctx) = ContextFields
         /\ Names(params, ctx.client) \/ params = NoParams
              => Handled(tool, params, ctx).client = ctx.client
BY DEF Handled, ApplyParams, Over, Get, Names, NoParams, ContextFields

(* ------------------------------ the invariant ---------------------------- *)
AnswersAreSound == ToolsStayInFamily /\ NamedClientIsUsed /\ AnswerIsHonest

IInv ==
  /\ TypeOK
  /\ turn # NoTurn => TurnInv(turn)
  /\ \E S : history \in Seq(S)
  /\ \E S : runs \in Seq(S)
  /\ AnswersAreSound

LEMMA ToldFields ==
  ASSUME NEW r, NEW status, NEW intent, NEW warned, NEW missing
  PROVE  /\ Told(r, status, intent, warned, missing).status = status
         /\ Told(r, status, intent, warned, missing).warned = warned
         /\ Told(r, status, intent, warned, missing).done = r.done
         /\ Told(r, status, intent, warned, missing).got = r.got
         /\ Told(r, status, intent, warned, missing).failed = r.failed
         /\ Told(r, status, intent, warned, missing).q = r.q
         /\ Told(r, status, intent, warned, missing).silent = r.silent
         /\ Told(r, status, intent, warned, missing).words = r.words
         /\ Told(r, status, intent, warned, missing).wording = r.wording
         /\ Told(r, status, intent, warned, missing).text = r.text
BY DEF Told

\* A question without an answer owes nothing.
LEMMA UnansweredOwesNothing ==
  ASSUME ~ Answered'
  PROVE  AnswersAreSound'
BY DEF AnswersAreSound, ToolsStayInFamily, NamedClientIsUsed, AnswerIsHonest

LEMMA SameAnswerIsSound ==
  ASSUME AnswersAreSound, told' = told
  PROVE  AnswersAreSound'
BY DEF AnswersAreSound, ToolsStayInFamily, NamedClientIsUsed, AnswerIsHonest, Answered, Depends,
       OwnText

\* The dialogue grows by messages of the two roles.
Roles == {"user", "assistant"}
Grows(more) ==
  /\ \E S : more \in Seq(S)
  /\ \A i \in DOMAIN more : more[i].role \in Roles
  /\ history' = history \o more

\* What is in the dialogue after it grew was there before or is among the new messages.
LEMMA GrowthIsOf ==
  ASSUME \E S : history \in Seq(S), NEW more, \E S : more \in Seq(S), history' = history \o more
  PROVE  /\ \E S : history' \in Seq(S)
         /\ \A i \in DOMAIN history' :
              \/ i \in DOMAIN history /\ history'[i] = history[i]
              \/ i - Len(history) \in DOMAIN more /\ history'[i] = more[i - Len(history)]
<1>1. PICK S : history \in Seq(S)
  OBVIOUS
<1>2. PICK T : more \in Seq(T)
  OBVIOUS
<1>3. history \in Seq(S \cup T) /\ more \in Seq(S \cup T)
  BY <1>1, <1>2
<1>4. history' \in Seq(S \cup T)
  BY <1>3
<1>5. Len(history) \in Nat /\ Len(more) \in Nat
  BY <1>3
<1>6. ASSUME NEW i \in DOMAIN history'
      PROVE  \/ i \in DOMAIN history /\ history'[i] = history[i]
             \/ i - Len(history) \in DOMAIN more /\ history'[i] = more[i - Len(history)]
  <2>1. CASE i <= Len(history)
    BY <1>3, <1>5, <2>1
  <2>2. CASE i > Len(history)
    BY <1>3, <1>5, <2>2
  <2> QED
    BY <1>3, <1>5, <2>1, <2>2
<1> QED
  BY <1>4, <1>6

LEMMA GrowthKeepsRoles ==
  ASSUME \E S : history \in Seq(S), NEW more, Grows(more),
         \A i \in DOMAIN history : history[i].role \in Roles
  PROVE  /\ \E S : history' \in Seq(S)
         /\ \A i \in DOMAIN history' : history'[i].role \in Roles
         /\ IsPrefix(history, history')
<1>1. PICK S : history \in Seq(S)
  OBVIOUS
<1>2. PICK T : more \in Seq(T)
  BY DEF Grows
<1>3. history \in Seq(S \cup T) /\ more \in Seq(S \cup T)
  BY <1>1, <1>2
<1>4. Len(history) \in Nat /\ Len(more) \in Nat
  BY <1>3
<1>5. /\ \E U : history' \in Seq(U)
      /\ \A i \in DOMAIN history' : history'[i].role \in Roles
  BY GrowthIsOf DEF Grows
<1>6. IsPrefix(history, history')
  BY <1>3, <1>4 DEF IsPrefix, Grows
<1> QED
  BY <1>5, <1>6

\* What the assistant says is an answer or a question back.
IsAnswer(m) ==
  \/ \E intent, clarifies, missing, calls, run : m = Answer(intent, clarifies, missing, calls, run)
  \/ \E intent, missing, asks : m = Clarification(intent, missing, asks)

LEMMA AnswersAreOf ==
  ASSUME NEW m, IsAnswer(m)
  PROVE  m.role = "assistant" /\ m.text = <<>>
<1>1. CASE \E intent, clarifies, missing, calls, run : m = Answer(intent, clarifies, missing, calls, run)
  BY <1>1 DEF Answer
<1>2. CASE \E intent, missing, asks : m = Clarification(intent, missing, asks)
  <2>1. PICK intent, missing, asks : m = Clarification(intent, missing, asks)
    BY <1>2
  <2>2. m = [Answer(intent, TRUE, missing, <<>>, {}) EXCEPT !.asks = asks]
    BY <2>1 DEF Clarification
  <2> QED
    BY <2>2 DEF Answer
<1> QED
  BY <1>1, <1>2 DEF IsAnswer

LEMMA MessagesHaveRoles ==
  ASSUME NEW q, NEW m, IsAnswer(m), history' = history \o <<UserMessage(q), m>>
  PROVE  Grows(<<UserMessage(q), m>>)
<1> DEFINE more == <<UserMessage(q), m>>
<1>1. more \in Seq({UserMessage(q), m})
  OBVIOUS
<1>2. UserMessage(q).role \in Roles /\ m.role \in Roles
  BY AnswersAreOf DEF UserMessage, Roles
<1>3. \A i \in DOMAIN more : more[i].role \in Roles
  BY <1>2
<1> QED
  BY <1>1, <1>3 DEF Grows

LEMMA QuestionHasRole ==
  ASSUME \E S : history \in Seq(S), NEW q, history' = Append(history, UserMessage(q))
  PROVE  Grows(<<UserMessage(q)>>)
<1>1. PICK S : history \in Seq(S)
  OBVIOUS
<1>2. <<UserMessage(q)>> \in Seq({UserMessage(q)})
  OBVIOUS
<1>3. history' = history \o <<UserMessage(q)>>
  <2>1. history \in Seq(S \cup {UserMessage(q)})
    BY <1>1
  <2> QED
    BY <2>1
<1>4. UserMessage(q).role \in Roles
  BY DEF UserMessage, Roles
<1>5. \A i \in DOMAIN <<UserMessage(q)>> : <<UserMessage(q)>>[i].role \in Roles
  BY <1>4
<1> QED
  BY <1>2, <1>3, <1>5 DEF Grows

(* -------------------------------- the steps ------------------------------ *)
\* A question that is refused, asked about or chatted about starts no tools.
LEMMA RepliesAreSafe ==
  ASSUME IInv, NEW q, NEW reply, NEW pin, NEW r, r = Read(q, reply, pin),
         RefuseParams(r) \/ Clarify(r) \/ Chatted(r)
  PROVE  IInv'
<1>1. r.done = <<>>
  BY ReadFields
<1>2. /\ \E S : history \in Seq(S)
      /\ \A i \in DOMAIN history : history[i].role \in Roles
  BY DEF IInv, TypeOK, Roles
<1>3. /\ told'.done = <<>> /\ told'.status \in Statuses \cup {"refused"}
      /\ UNCHANGED <<grants, runs, turn>>
      /\ \/ history' = history
         \/ \E more : Grows(more)
  <2>1. CASE RefuseParams(r)
    <3>1. told' = Told(r, "refused", r.intent, FALSE, {}) /\ UNCHANGED <<history, grants, runs, turn>>
      BY <2>1 DEF RefuseParams
    <3>2. told'.done = <<>> /\ told'.status = "refused"
      BY <1>1, <3>1 DEF Told
    <3> QED
      BY <3>1, <3>2
  <2>2. CASE Clarify(r)
    <3>1. PICK spec, missing, asks :
            /\ history' = history \o <<UserMessage(r.q), Clarification(spec.intent, missing, asks)>>
            /\ told' = Told(r, "needs_clarification", spec.intent, FALSE, missing)
      BY <2>2 DEF Clarify
    <3>2. told'.done = <<>> /\ told'.status = "needs_clarification"
      BY <1>1, <3>1 DEF Told
    <3>3. \E more : Grows(more)
      BY <3>1, MessagesHaveRoles DEF IsAnswer
    <3> QED
      BY <2>2, <3>2, <3>3 DEF Clarify, Statuses
  <2>3. CASE Chatted(r)
    <3>1. PICK status \in {"completed", "unsupported"} :
            told' = Told(r, status, r.intent, r.warned, {})
      BY <2>3 DEF Chatted
    <3>2. told'.done = <<>> /\ told'.status = status
      BY <1>1, <3>1, ToldFields
    <3>3. \E more : Grows(more)
      BY <2>3, MessagesHaveRoles DEF Chatted, IsAnswer
    <3> QED
      BY <2>3, <3>1, <3>2, <3>3 DEF Chatted, Statuses
  <2> QED
    BY <2>1, <2>2, <2>3
<1>4. /\ \E S : history' \in Seq(S)
      /\ \A i \in DOMAIN history' : history'[i].role \in Roles
  BY <1>2, <1>3, GrowthKeepsRoles
<1>5. TypeOK'
  BY <1>3, <1>4 DEF IInv, TypeOK, Roles, Statuses
<1>6. AnswersAreSound'
  BY <1>3, UnansweredOwesNothing DEF Answered
<1> QED
  BY <1>3, <1>4, <1>5, <1>6 DEF IInv

LEMMA StartIsSafe ==
  ASSUME IInv, NEW q, NEW reply, NEW pin, DOMAIN reply = DOMAIN Silence,
         reply.tools \in Seq(STRING), NEW r, r = Read(q, reply, pin), StartTools(r)
  PROVE  IInv'
<1>1. TurnInv(r) /\ turn' = r
  BY ReadIsTurn DEF StartTools
<1>2. told' = Nothing /\ told'.status = "nothing" /\ UNCHANGED <<history, grants, runs>>
  BY DEF StartTools, Nothing
<1>3. turn'.intent \in Intents /\ ToSet(turn'.tools) \subseteq Tools
  BY <1>1 DEF TurnInv, IsRead, ToolsAreSound, ToSet
<1>4. TypeOK'
  BY <1>2, <1>3 DEF IInv, TypeOK
<1>5. AnswersAreSound'
  BY <1>2, UnansweredOwesNothing DEF Answered
<1> QED
  BY <1>1, <1>2, <1>4, <1>5 DEF IInv

LEMMA AskIsSafe ==
  ASSUME IInv, Ask
  PROVE  IInv'
<1>1. PICK a \in Asks[Turns + 1] :
        \E r \in {Read(a.q, a.reply, a.pin)} :
          RefuseParams(r) \/ Clarify(r) \/ Chatted(r) \/ StartTools(r)
  BY DEF Ask
<1>2. DOMAIN a.reply = DOMAIN Silence /\ a.reply.tools \in Seq(STRING)
  BY <1>1, AsksAssumption DEF Ask, IsFree
<1> DEFINE r == Read(a.q, a.reply, a.pin)
<1>3. RefuseParams(r) \/ Clarify(r) \/ Chatted(r) \/ StartTools(r)
  BY <1>1
<1>4. CASE StartTools(r)
  BY <1>2, <1>4, StartIsSafe
<1>5. CASE RefuseParams(r) \/ Clarify(r) \/ Chatted(r)
  BY <1>5, RepliesAreSafe
<1> QED
  BY <1>3, <1>4, <1>5

LEMMA RegrantIsSafe ==
  ASSUME IInv, NEW g \in Grants, Regrant(g)
  PROVE  IInv'
<1>1. UNCHANGED <<history, runs, turn, told>> /\ grants' \in Grants
  BY DEF Regrant
<1>2. AnswersAreSound'
  BY <1>1, SameAnswerIsSound DEF IInv
<1> QED
  BY <1>1, <1>2 DEF IInv, TypeOK

\* What one tool changes of the turn.
Dispatched(r, next, params, ctx, outcome) ==
  /\ DOMAIN next = TurnFields
  /\ \A f \in {"q", "silent", "wording", "words", "state", "forced", "intent", "text", "params",
               "warned"} : next[f] = r[f]
  /\ next.tools = Tail(r.tools)
  /\ next.ctx = ctx
  /\ next.got = IF r.done = <<>> THEN outcome ELSE r.got
  /\ next.alarmed = (r.alarmed \/ Warns(Head(r.tools), outcome))
  /\ next.failed = (r.failed \/ outcome = "failed")
  /\ next.done = Append(r.done, [tool |-> Head(r.tools),
                                 args |-> Arguments(Head(r.tools), params, ctx)])

LEMMA DispatchedIsTurn ==
  ASSUME NEW r, TurnInv(r), r.tools # <<>>,
         NEW params, params = r.params \/ params = NoParams,
         NEW ctx, ctx = Handled(Head(r.tools), params, r.ctx),
         NEW outcome \in Ends, NEW next, Dispatched(r, next, params, ctx, outcome)
  PROVE  TurnInv(next)
<1> DEFINE tool == Head(r.tools)
           call == [tool |-> tool, args |-> Arguments(tool, params, ctx)]
<1>1. PICK S : r.done \in Seq(S)
  BY DEF TurnInv, ToolsAreSound
<1>2. r.tools \in Seq(Tools) /\ tool \in Tools /\ Tail(r.tools) \in Seq(Tools)
  BY DEF TurnInv, ToolsAreSound
<1>3. /\ next.q = r.q /\ next.silent = r.silent /\ next.words = r.words /\ next.intent = r.intent
      /\ next.text = r.text /\ next.wording = r.wording /\ next.params = r.params
      /\ next.warned = r.warned
      /\ next.tools = Tail(r.tools) /\ next.ctx = ctx /\ next.done = Append(r.done, call)
  BY DEF Dispatched
<1>4. IsAlone(next) <=> IsAlone(r)
  BY <1>3 DEF IsAlone
<1>5. IsRead(next)
  BY <1>3, <1>4 DEF TurnInv, IsRead, Dispatched
<1>6. \A i \in DOMAIN next.done :
        \/ i \in DOMAIN r.done /\ next.done[i] = r.done[i]
        \/ next.done[i] = call
  BY <1>1, <1>3
<1>7. next.done # <<>> /\ \E T : next.done \in Seq(T)
  <2> HIDE DEF call
  <2>1. r.done \in Seq(S \cup {call})
    BY <1>1
  <2>2. Append(r.done, call) \in Seq(S \cup {call}) /\ Append(r.done, call) # <<>>
    BY <2>1
  <2>3. next.done \in Seq(S \cup {call}) /\ next.done # <<>>
    BY <1>3, <2>2 DEF call
  <2> QED
    BY <2>3
<1>8. ToolsAreSound(next)
  <2>1. \A i \in DOMAIN next.tools :
          next.tools[i] = "calculate_reserve" => IsRecalculation(next.text) \/ IsForced(next.params)
    <3>1. \A i \in DOMAIN next.tools : i + 1 \in DOMAIN r.tools /\ next.tools[i] = r.tools[i + 1]
      BY <1>2, <1>3
    <3> QED
      BY <1>3, <3>1 DEF TurnInv, ToolsAreSound
  <2>2. DOMAIN next.ctx = ContextFields
    BY <1>3, HandledKeepsClient DEF TurnInv, ToolsAreSound
  <2>3. next.alarmed \in BOOLEAN
    BY DEF TurnInv, ToolsAreSound, Dispatched, Warns
  <2>4. next.failed => next.alarmed
    BY DEF TurnInv, ToolsAreSound, Dispatched, Warns
  <2>5. next.done[1].tool \in Primary(next.intent)
    <3>1. CASE r.done = <<>>
      <4>1. next.done[1] = call
        BY <1>3, <3>1
      <4> QED
        BY <1>3, <3>1, <4>1 DEF TurnInv, ToolsAreSound
    <3>2. CASE r.done # <<>>
      <4>1. next.done[1] = r.done[1]
        BY <1>1, <1>3, <3>2
      <4> QED
        BY <1>3, <3>2, <4>1 DEF TurnInv, ToolsAreSound
    <3> QED
      BY <3>1, <3>2
  <2>6. /\ next.got \in Ends
        /\ next.got # "rows" /\ next.intent \in Counted
             => next.alarmed \/ IsBare(next.done[1].tool, next.got)
    <3>1. CASE r.done = <<>>
      <4>1. /\ next.got = outcome /\ next.alarmed = (r.alarmed \/ Warns(tool, outcome))
            /\ next.done[1].tool = tool
        BY <1>3, <3>1 DEF Dispatched
      <4>2. outcome # "rows" /\ r.intent \in Counted => Warns(tool, outcome) \/ IsBare(tool, outcome)
        BY <3>1, CountedWarn DEF TurnInv, ToolsAreSound
      <4> QED
        BY <1>3, <4>1, <4>2
    <3>2. CASE r.done # <<>>
      <4>1. /\ next.got = r.got /\ next.alarmed = (r.alarmed \/ Warns(tool, outcome))
            /\ next.done[1] = r.done[1]
        BY <1>1, <1>3, <3>2 DEF Dispatched
      <4> QED
        BY <1>3, <3>2, <4>1 DEF TurnInv, ToolsAreSound
    <3> QED
      BY <3>1, <3>2
  <2> QED
    BY <1>2, <1>3, <1>7, <2>1, <2>2, <2>3, <2>4, <2>5, <2>6 DEF ToolsAreSound
<1>9. ClientIsKept(next)
  <2> SUFFICES ASSUME Client(r) # {}
               PROVE  /\ Names(r.params, Client(r)) /\ ctx.client = Client(r)
                      /\ \A i \in DOMAIN next.done : TellsClient(next.done[i], Client(r))
    BY <1>3 DEF ClientIsKept, Client
  <2>1. /\ Names(r.params, Client(r)) /\ r.ctx.client = Client(r)
        /\ \A i \in DOMAIN r.done : TellsClient(r.done[i], Client(r))
    BY DEF TurnInv, ClientIsKept
  <2>2. Names(params, Client(r)) \/ params = NoParams
    BY <2>1
  <2>3. ctx.client = Client(r)
    BY <2>1, <2>2, HandledKeepsClient DEF TurnInv, ToolsAreSound
  <2>4. Over(params, "client_id", Client(r)) = Client(r)
    BY <2>2 DEF Over, Get, Names, NoParams
  <2>5. TellsClient(call, Client(r))
    <3>1. CASE tool \in ClientTools
      <4>1. Names(Arguments(tool, params, ctx), Client(r))
        BY <2>3, <2>4, <3>1, ClientToolsTell
      <4> QED
        BY <3>1, <4>1 DEF TellsClient, Names, Get
    <3>2. CASE tool \notin ClientTools
      BY <3>2, OnlyClientTools DEF TellsClient
    <3> QED
      BY <3>1, <3>2
  <2> QED
    BY <1>6, <2>1, <2>3, <2>5
<1> QED
  BY <1>5, <1>8, <1>9 DEF TurnInv

LEMMA NoTurnIsEmpty == NoTurn.tools = <<>> /\ NoTurn.done = <<>>
BY DEF NoTurn

LEMMA DispatchIs ==
  ASSUME turn # NoTurn => TurnInv(turn), Dispatch
  PROVE  /\ turn # NoTurn /\ turn.tools # <<>> /\ UNCHANGED <<history, grants, told>>
         /\ \E outcome \in Ends, kept \in BOOLEAN :
              LET ctx == Handled(Head(turn.tools), ToolParams, turn.ctx)
              IN  /\ Calculates(Head(turn.tools), outcome, ctx, kept)
                  /\ Dispatched(turn, turn', ToolParams, ctx, outcome)
<1> DEFINE tool   == Head(turn.tools)
           params == ToolParams
           ctx    == Handled(tool, params, turn.ctx)
<1>1. turn.tools # <<>> /\ UNCHANGED <<history, grants, told>>
  BY DEF Dispatch
<1>2. turn # NoTurn /\ TurnInv(turn)
  BY <1>1, NoTurnIsEmpty
<1>3. PICK outcome \in OutcomesNow(tool, params, ctx),
               kept \in IF tool = "calculate_reserve" THEN BOOLEAN ELSE {FALSE} :
        /\ kept => outcome = "failed"
        /\ Calculates(tool, outcome, ctx, kept)
        /\ turn' = [turn EXCEPT
             !.tools = Tail(@), !.ctx = NextContext(@, ctx), !.stored = @ \/ runs' # runs,
             !.run = IF turn.done = <<>> THEN SourceRun(tool, outcome, ctx) ELSE @,
             !.got = IF turn.done = <<>> THEN outcome ELSE @,
             !.alarmed = @ \/ Warns(tool, outcome), !.failed = @ \/ outcome = "failed",
             !.done = Append(@, [tool |-> tool, args |-> Arguments(tool, params, ctx)])]
  BY Zenon DEF Dispatch
<1>4. tool \in Tools /\ DOMAIN turn = TurnFields
  BY <1>1, <1>2 DEF TurnInv, IsRead, ToolsAreSound
<1>5. outcome \in Ends /\ kept \in BOOLEAN
  BY <1>4, OutcomesAreEnds DEF OutcomesNow
<1> HIDE DEF params
<1>6. Dispatched(turn, turn', params, ctx, outcome)
  <2> HIDE DEF tool, ctx
  <2> QED
    BY <1>3, <1>4 DEF Dispatched, TurnFields, NextContext, tool
<1>7. Calculates(tool, outcome, ctx, kept)
  BY <1>3
<1> HIDE DEF ctx, tool
<1>8. \E o \in Ends, k \in BOOLEAN :
        Calculates(tool, o, ctx, k) /\ Dispatched(turn, turn', params, ctx, o)
  BY <1>5, <1>6, <1>7
<1> QED
  BY <1>1, <1>2, <1>8 DEF params, ctx, tool

LEMMA DispatchIsSafe ==
  ASSUME IInv, Dispatch
  PROVE  IInv'
<1> DEFINE tool   == Head(turn.tools)
           params == ToolParams
           ctx    == Handled(tool, params, turn.ctx)
<1>1. turn.tools # <<>> /\ UNCHANGED <<history, grants, told>>
  BY DispatchIs DEF IInv
<1>2. turn # NoTurn /\ TurnInv(turn)
  BY <1>1, NoTurnIsEmpty DEF IInv
<1>3. PICK outcome \in Ends, kept \in BOOLEAN :
        Calculates(tool, outcome, ctx, kept) /\ Dispatched(turn, turn', params, ctx, outcome)
  BY DispatchIs DEF IInv
<1>4. params = turn.params \/ params = NoParams
  BY DEF ToolParams
<1> HIDE DEF params
<1>5. TurnInv(turn')
  BY <1>1, <1>2, <1>3, <1>4, DispatchedIsTurn
<1> HIDE DEF ctx
<1>6. \E S : runs' \in Seq(S)
  <2>1. PICK S : runs \in Seq(S)
    BY DEF IInv
  <2>2. runs' = runs \/ \E new : runs' = Append(runs, new)
    BY <1>3 DEF Calculates
  <2>3. ASSUME NEW new, runs' = Append(runs, new) PROVE \E T : runs' \in Seq(T)
    <3>1. runs \in Seq(S \cup {new})
      BY <2>1
    <3>2. runs' \in Seq(S \cup {new})
      BY <2>3, <3>1
    <3> QED
      BY <3>2
  <2> QED
    BY <2>1, <2>2, <2>3
<1>7. TypeOK'
  <2>1. turn'.intent \in Intents /\ ToSet(turn'.tools) \subseteq Tools
    BY <1>5 DEF TurnInv, IsRead, ToolsAreSound, ToSet
  <2> QED
    BY <1>1, <2>1 DEF IInv, TypeOK
<1>8. AnswersAreSound'
  BY <1>1, SameAnswerIsSound DEF IInv
<1> QED
  BY <1>1, <1>5, <1>6, <1>7, <1>8 DEF IInv

LEMMA DenyIsSafe ==
  ASSUME IInv, Deny
  PROVE  IInv' /\ (history' # history => turn # NoTurn /\ turn.stored /\ IsPrefix(history, history'))
<1>1. /\ turn.tools # <<>> /\ turn' = NoTurn /\ UNCHANGED <<grants, runs>>
      /\ history' = IF turn.stored THEN Append(history, UserMessage(turn.q)) ELSE history
      /\ told' = Told(turn, "refused", turn.intent, FALSE, {})
  BY DEF Deny
<1>2. told'.status = "refused"
  BY <1>1 DEF Told
<1>3. turn # NoTurn
  BY <1>1, NoTurnIsEmpty
<1>4. \E S : history \in Seq(S)
  BY DEF IInv
<1>5. \/ history' = history
      \/ turn.stored /\ \E more : Grows(more)
  BY <1>1, <1>4, QuestionHasRole
<1>6. \A i \in DOMAIN history : history[i].role \in Roles
  BY DEF IInv, TypeOK, Roles
<1>7. /\ \E S : history' \in Seq(S)
      /\ \A i \in DOMAIN history' : history'[i].role \in Roles
      /\ history' # history => turn.stored /\ IsPrefix(history, history')
  BY <1>4, <1>5, <1>6, GrowthKeepsRoles
<1>8. TypeOK'
  BY <1>1, <1>2, <1>7 DEF IInv, TypeOK, Roles
<1>9. AnswersAreSound'
  BY <1>2, UnansweredOwesNothing DEF Answered
<1> QED
  BY <1>1, <1>3, <1>7, <1>8, <1>9 DEF IInv

LEMMA ComposeIsSafe ==
  ASSUME IInv, Compose
  PROVE  IInv'
<1> DEFINE status == AnswerStatus(turn.intent, turn.got, turn.alarmed, turn.warned)
           warned == AnswerWarned(turn.intent, turn.got, turn.alarmed, turn.warned)
<1>1. /\ turn.done # <<>> /\ turn' = NoTurn /\ UNCHANGED <<grants, runs>>
      /\ told' = Told(turn, status, turn.intent, warned, {})
  BY DEF Compose
<1>2. \E q, m : IsAnswer(m) /\ history' = history \o <<UserMessage(q), m>>
  BY DEF Compose, IsAnswer
<1>3. turn # NoTurn /\ TurnInv(turn)
  BY <1>1, NoTurnIsEmpty DEF IInv
<1>4. /\ status \in Statuses
      /\ turn.got # "rows" /\ status = "completed" => IsBare(turn.done[1].tool, turn.got)
      /\ turn.alarmed => warned \/ status = "unsupported"
  BY <1>1, <1>3, StatusIsHonest DEF TurnInv, IsRead, ToolsAreSound
<1> HIDE DEF status, warned
<1>5. /\ told'.status = status /\ told'.warned = warned /\ told'.done = turn.done
      /\ told'.got = turn.got /\ told'.failed = turn.failed /\ told'.q = turn.q
      /\ told'.words = turn.words /\ told'.wording = turn.wording /\ told'.text = turn.text
  BY <1>1 DEF Told
<1>6. /\ \E S : history' \in Seq(S)
      /\ \A i \in DOMAIN history' : history'[i].role \in Roles
  <2>1. \E more : Grows(more)
    BY <1>2, MessagesHaveRoles
  <2> QED
    BY <2>1, GrowthKeepsRoles DEF IInv, TypeOK, Roles
<1>7. TypeOK'
  BY <1>1, <1>4, <1>5, <1>6 DEF IInv, TypeOK, Roles, Statuses
<1>8. ~ Depends' => IsAlone(turn)
  BY <1>5 DEF Depends, OwnText, IsAlone
<1>9. ToolsStayInFamily'
  <2> SUFFICES ASSUME turn.words \notin Chat, IsAlone(turn)
               PROVE  told'.done[1].tool
                        \in {DefaultPlan(i)[1] : i \in {j \in Intents \ Chat : Compatible(told'.words, j)}}
                            \cup (IF told'.words = "reserve_calculation"
                                  THEN {"calculate_reserve"} ELSE {})
    BY <1>5, <1>8 DEF ToolsStayInFamily
  <2>1. turn.intent \in Intents \ Chat /\ Compatible(turn.words, turn.intent)
    BY <1>3 DEF TurnInv, IsRead
  <2>2. turn.done[1].tool \in Primary(turn.intent)
    BY <1>1, <1>3 DEF TurnInv, ToolsAreSound
  <2>3. \/ turn.done[1].tool = DefaultPlan(turn.intent)[1]
        \/ turn.done[1].tool = "calculate_reserve" /\ turn.intent = "reserve_calculation"
    BY <2>2 DEF Primary
  <2>4. turn.intent = "reserve_calculation" => turn.words = "reserve_calculation"
    BY <2>1 DEF Compatible, AnalyticsFamily
  <2> QED
    BY <1>5, <2>1, <2>3, <2>4
<1>10. NamedClientIsUsed'
  <2>1. IsAlone(turn) => turn.text \in {<<turn.q>>} \cup ({turn.wording} \ {<<>>})
    BY <1>3 DEF TurnInv, IsRead
  <2>2. Client(turn) # {} => \A i \in DOMAIN turn.done : TellsClient(turn.done[i], Client(turn))
    BY <1>3 DEF TurnInv, ClientIsKept
  <2> QED
    BY <1>5, <1>8, <2>1, <2>2 DEF NamedClientIsUsed, Client, OwnText, TellsClient
<1>11. AnswerIsHonest'
  <2>1. turn.failed => turn.alarmed
    BY <1>3 DEF TurnInv, ToolsAreSound
  <2> QED
    BY <1>4, <1>5, <2>1 DEF AnswerIsHonest, IsBare
<1> QED
  BY <1>1, <1>6, <1>7, <1>9, <1>10, <1>11 DEF IInv, AnswersAreSound

(* -------------------------------- theorems ------------------------------- *)
LEMMA InitIsSafe ==
  ASSUME Init
  PROVE  IInv
<1>1. history = <<>> /\ runs = <<>> /\ turn = NoTurn /\ told.status = "nothing" /\ grants \in Grants
  BY DEF Init, Nothing
<1>2. history \in Seq({}) /\ runs \in Seq({})
  BY <1>1
<1>3. AnswersAreSound
  BY <1>1 DEF AnswersAreSound, ToolsStayInFamily, NamedClientIsUsed, AnswerIsHonest, Answered
<1>4. TypeOK
  BY <1>1 DEF TypeOK
<1> QED
  BY <1>1, <1>2, <1>3, <1>4 DEF IInv

LEMMA NextIsSafe ==
  ASSUME IInv, [Next]_vars
  PROVE  IInv'
<1>1. CASE Ask
  BY <1>1, AskIsSafe
<1>2. CASE Dispatch
  BY <1>2, DispatchIsSafe
<1>3. CASE Deny
  BY <1>3, DenyIsSafe
<1>4. CASE Compose
  BY <1>4, ComposeIsSafe
<1>5. CASE \E g \in Grants : Regrant(g)
  BY <1>5, RegrantIsSafe
<1>6. CASE UNCHANGED vars
  <2>1. UNCHANGED <<history, grants, runs, turn, told>>
    BY <1>6 DEF vars
  <2>2. AnswersAreSound'
    BY <2>1, SameAnswerIsSound DEF IInv
  <2> QED
    BY <2>1, <2>2 DEF IInv, TypeOK
<1> QED
  BY <1>1, <1>2, <1>3, <1>4, <1>5, <1>6 DEF Next

LEMMA Invariance == Spec => []IInv
BY InitIsSafe, NextIsSafe, PTL DEF Spec

\* The messages, the rights and the turn keep their shapes, and the answer has one of the
\* statuses of the schema.
THEOREM TypeCorrect == Spec => []TypeOK
<1>1. IInv => TypeOK
  BY DEF IInv
<1> QED
  BY <1>1, Invariance, PTL

\* A planner may enrich a question that the words decide, but not lead it to another family
\* of tools (providers.py and _execution_plan): for any replies, dialogues and questions.
THEOREM FamiliesAreKept == Spec => []ToolsStayInFamily
<1>1. IInv => ToolsStayInFamily
  BY DEF IInv, AnswersAreSound
<1> QED
  BY <1>1, Invariance, PTL

\* A question that stands on its own is answered in its words or in the planner's, and the
\* client these name is the one of every tool that has a client, whatever the dialogue, the
\* pinned context and the planner's parameters hold (_params_from_route, _apply_params).
THEOREM ClientIsUsed == Spec => []NamedClientIsUsed
<1>1. IInv => NamedClientIsUsed
  BY DEF IInv, AnswersAreSound
<1> QED
  BY <1>1, Invariance, PTL

\* A tool that failed is told, and an answer without its data is not told as complete, but
\* for an empty calculation or summary of a client (the composers of the answer).
THEOREM AnswersAreHonest == Spec => []AnswerIsHonest
<1>1. IInv => AnswerIsHonest
  BY DEF IInv, AnswersAreSound
<1> QED
  BY <1>1, Invariance, PTL

LEMMA OnlyDeniedIsRefused ==
  ASSUME IInv, [Next]_vars, told'.status = "refused", history' # history
  PROVE  turn # NoTurn /\ turn.stored
<1>1. CASE Ask
  <2>1. PICK r : RefuseParams(r) \/ Clarify(r) \/ Chatted(r) \/ StartTools(r)
    BY <1>1 DEF Ask
  <2>2. ~ RefuseParams(r) /\ ~ StartTools(r)
    BY DEF RefuseParams, StartTools
  <2>3. CASE Clarify(r)
    <3>1. PICK intent, missing : told' = Told(r, "needs_clarification", intent, FALSE, missing)
      BY <2>3 DEF Clarify
    <3> QED
      BY <3>1 DEF Told
  <2>4. CASE Chatted(r)
    <3>1. PICK status \in {"completed", "unsupported"} :
            told' = Told(r, status, r.intent, r.warned, {})
      BY <2>4 DEF Chatted
    <3> QED
      BY <3>1 DEF Told
  <2> QED
    BY <2>1, <2>2, <2>3, <2>4
<1>2. CASE Deny
  BY <1>2, DenyIsSafe
<1>3. CASE Compose
  <2>1. TurnInv(turn) /\ turn.done # <<>>
    BY <1>3, NoTurnIsEmpty DEF IInv, Compose
  <2>2. AnswerStatus(turn.intent, turn.got, turn.alarmed, turn.warned) \in Statuses
    BY <2>1, StatusIsHonest DEF TurnInv, IsRead, ToolsAreSound
  <2>3. told'.status = AnswerStatus(turn.intent, turn.got, turn.alarmed, turn.warned)
    BY <1>3 DEF Compose, Told
  <2> QED
    BY <2>2, <2>3 DEF Statuses
<1>4. CASE Dispatch \/ (\E g \in Grants : Regrant(g)) \/ UNCHANGED vars
  BY <1>4 DEF Dispatch, Regrant, vars
<1> QED
  BY <1>1, <1>2, <1>3, <1>4 DEF Next

LEMMA NothingIsRewritten ==
  ASSUME IInv, [Next]_vars
  PROVE  IsPrefix(history, history')
<1>1. PICK S : history \in Seq(S)
  BY DEF IInv
<1>2. /\ history' = history => IsPrefix(history, history')
      /\ (\E more : Grows(more)) => IsPrefix(history, history')
  <2>1. Len(history) \in Nat
    BY <1>1
  <2>2. IsPrefix(history, history)
    BY <1>1, <2>1 DEF IsPrefix
  <2>3. \A i \in DOMAIN history : history[i].role \in Roles
    BY DEF IInv, TypeOK, Roles
  <2> QED
    BY <1>1, <2>2, <2>3, GrowthKeepsRoles
<1>3. CASE Ask
  <2>1. PICK r : RefuseParams(r) \/ Clarify(r) \/ Chatted(r) \/ StartTools(r)
    BY <1>3 DEF Ask
  <2>2. CASE Clarify(r)
    <3>1. \E m : IsAnswer(m) /\ history' = history \o <<UserMessage(r.q), m>>
      BY <2>2 DEF Clarify, IsAnswer
    <3> QED
      BY <1>2, <3>1, MessagesHaveRoles
  <2>3. CASE Chatted(r)
    BY <1>2, <2>3, MessagesHaveRoles DEF Chatted, IsAnswer
  <2>4. CASE RefuseParams(r) \/ StartTools(r)
    BY <1>2, <2>4 DEF RefuseParams, StartTools
  <2> QED
    BY <2>1, <2>2, <2>3, <2>4
<1>4. CASE Deny
  BY <1>2, <1>4, DenyIsSafe
<1>5. CASE Compose
  <2>1. \E q, m : IsAnswer(m) /\ history' = history \o <<UserMessage(q), m>>
    BY <1>5 DEF Compose, IsAnswer
  <2> QED
    BY <1>2, <2>1, MessagesHaveRoles
<1>6. CASE Dispatch \/ (\E g \in Grants : Regrant(g)) \/ UNCHANGED vars
  BY <1>2, <1>6 DEF Dispatch, Regrant, vars
<1> QED
  BY <1>3, <1>4, <1>5, <1>6 DEF Next

\* A question that is refused leaves nothing in the dialogue, unless a calculation of the
\* same turn has committed it, and no step rewrites what was said before.
THEOREM RefusalsLeaveNothing == Spec => RefusalLeavesNothing
<1>1. IInv /\ [Next]_vars =>
        /\ told'.status = "refused" /\ history' # history => turn # NoTurn /\ turn.stored
        /\ IsPrefix(history, history')
  BY OnlyDeniedIsRefused, NothingIsRewritten
<1> QED
  BY <1>1, Invariance, PTL DEF Spec, RefusalLeavesNothing

(* -------------------------- the dialogue, folded ------------------------- *)
\* The state is the fold of the messages, the last one taken first.
Hears(m, s) == AfterMessage(s, m)
Dialogue == INSTANCE FoldTheorems WITH Op <- Hears, Base <- NoState, Choose <- Max

LEMMA FiniteIs == ASSUME NEW S, IsFiniteSet(S) PROVE Dialogue!IsFiniteSet(S)
BY Zenon DEF IsFiniteSet, Dialogue!IsFiniteSet

\* Among subsets of a finite set there is one with none of the others below it.
HasSmallest(B) == \E T \in B : \A U \in B : U \subseteq T => U = T
LEMMA SmallestSet ==
  ASSUME NEW S, IsFiniteSet(S), NEW B, B \subseteq SUBSET S, B # {}
  PROVE  HasSmallest(B)
<1>1. Dialogue!IsFiniteSet(S)
  BY FiniteIs
<1> QED
  BY <1>1, Dialogue!SmallestSet DEF HasSmallest

LEMMA SomeAreFinite ==
  ASSUME NEW n \in Nat, NEW S \in SUBSET (1 .. n)
  PROVE  IsFiniteSet(S)
<1>1. IsFiniteSet(1 .. n)
  BY FS_Interval
<1> QED
  BY <1>1, FS_Subset

\* Finitely many numbers have a last one.
LEMMA LastOfFinite ==
  ASSUME NEW S, IsFiniteSet(S), S \subseteq Int, S # {}
  PROVE  \E i \in S : \A j \in S : j <= i
<1> DEFINE above(i) == {x \in S : x > i}
           B == {above(i) : i \in S}
<1>1. B \subseteq SUBSET S
  OBVIOUS
<1>2. B # {}
  OBVIOUS
<1> HIDE DEF B
<1>3. HasSmallest(B)
  BY <1>1, <1>2, SmallestSet
<1>4. PICK T \in B : \A U \in B : U \subseteq T => U = T
  BY <1>3 DEF HasSmallest
<1>5. PICK i \in S : T = above(i)
  BY DEF B
<1>6. ASSUME NEW j \in S, j > i PROVE FALSE
  <2>1. above(j) \in B
    BY DEF B
  <2>2. \A x \in S : x > j => x > i
    BY <1>6
  <2>3. j \in above(i) /\ j \notin above(j)
    BY <1>6
  <2> QED
    BY <1>4, <1>5, <2>1, <2>2, <2>3
<1> QED
  BY <1>6

LEMMA LastOfSome ==
  ASSUME NEW n \in Nat, NEW S \in SUBSET (1 .. n), S # {}
  PROVE  \E i \in S : \A j \in S : j <= i
<1>1. IsFiniteSet(S)
  BY SomeAreFinite
<1>2. S \subseteq Int
  OBVIOUS
<1> QED
  BY <1>1, <1>2, LastOfFinite

LEMMA LatestIsOf ==
  ASSUME NEW n \in Nat, NEW S \in SUBSET (1 .. n), S # {}
  PROVE  Latest(S) \in S /\ \A j \in S : j <= Latest(S)
BY LastOfSome DEF Latest

LEMMA MaxIsOf ==
  ASSUME NEW n \in Nat, NEW S \in SUBSET (1 .. n), S # {}
  PROVE  Max(S) \in S
<1>1. \A x \in S : x \in Int
  OBVIOUS
<1>2. \E i \in S : \A j \in S : i >= j
  BY <1>1, LastOfSome
<1> QED
  BY <1>2 DEF Max

\* What is true of no dialogue and kept by each message is true of the state: there would
\* be a smallest part of the dialogue whose fold it is not true of.
LEMMA DeriveIs ==
  ASSUME NEW messages
  PROVE  Derive(messages) = Dialogue!Folded(messages, DOMAIN messages)
BY Zenon DEF Derive, FoldLeft, MapThenFoldSet, Dialogue!Folded, Dialogue!IsFold, Dialogue!Rest, Hears

LEMMA FoldedAt ==
  ASSUME NEW S, NEW messages \in Seq(S), NEW some \in SUBSET DOMAIN messages
  PROVE  /\ some = {} => Dialogue!Folded(messages, some) = NoState
         /\ some # {} =>
              /\ Max(some) \in some
              /\ Dialogue!Folded(messages, some) =
                   AfterMessage(Dialogue!Folded(messages, some \ {Max(some)}), messages[Max(some)])
<1>1. DOMAIN messages = 1 .. Len(messages) /\ Len(messages) \in Nat
  OBVIOUS
<1>2. Dialogue!IsFiniteSet(some)
  BY <1>1, SomeAreFinite, FiniteIs
<1>3. Dialogue!Chooses(some)
  BY <1>1, MaxIsOf DEF Dialogue!Chooses
<1>4. some # {} => Max(some) \in some
  BY <1>1, MaxIsOf
<1> QED
  BY <1>2, <1>3, <1>4, Dialogue!FoldedAt DEF Hears, Dialogue!Rest

(* ------------------------- one client and one SKU ------------------------ *)
\* Parameters name one client and one SKU at most, the question they may carry is a text,
\* and they force a calculation only if `force` allows it.
OneOfEach(params) ==
  /\ \A field \in Subjects : AtMostOne(Get(params, field))
  /\ Get(params, "question") \subseteq Texts
Single(params, force) == OneOfEach(params) /\ (IsForced(params) => "calculate_reserve" \in force)

LEMMA SingleNothing == \A force : Single(NoParams, force)
BY DEF Single, OneOfEach, IsForced, Get, AtMostOne, NoParams, Subjects

LEMMA SingleRecord ==
  ASSUME NEW args, Single(args, {}), NEW force
  PROVE  Single(args, force)
BY DEF Single

LEMMA SingleMerge ==
  ASSUME NEW p, NEW q, NEW force, Single(p, force), Single(q, force)
  PROVE  Single(p ++ q, force)
BY DEF Single, OneOfEach, IsForced, Get, AtMostOne, ++

LEMMA SingleField ==
  ASSUME NEW f, NEW value, NEW force, f \notin Subjects \/ AtMostOne(value),
         f # "question" \/ value \subseteq Texts,
         f = "_force_tool" /\ "calculate_reserve" \in value => "calculate_reserve" \in force
  PROVE  Single(Field(f, value), force) /\ Single(Only(f, value), force)
BY DEF Single, OneOfEach, IsForced, Get, AtMostOne, Field, Only, NoParams

LEMMA SingleRestricted ==
  ASSUME NEW p, NEW fields, NEW force, Single(p, force)
  PROVE  Single(Restricted(p, fields), force) /\ Single(Without(p, fields), force)
BY DEF Single, OneOfEach, IsForced, Get, AtMostOne, Restricted, Without

LEMMA SingleEntities ==
  ASSUME NEW args, NEW force, Single(args, force)
  PROVE  Single(EntitiesOf(args), force)
<1>1. Single(Restricted(args, EntityFields), force)
  BY SingleRestricted
<1> QED
  BY <1>1, SingleField, SingleMerge DEF EntitiesOf, Subjects

LEMMA SingleAsk ==
  ASSUME NEW p, NEW intents, NEW force, Single(p, force)
  PROVE  Single(AskFor(p, intents), force)
BY SingleField, SingleMerge DEF AskFor, Subjects

\* What the tools of an answer have recorded stays about one of each, is no follow-up and
\* forces nothing.
IsRecord(args) == Single(args, {}) /\ "_followup_intent" \notin DOMAIN args
Recorded(calls) == \A i \in DOMAIN calls : IsRecord(calls[i].args)

LEMMA RecordMerge ==
  ASSUME NEW p, NEW q, IsRecord(p), IsRecord(q)
  PROVE  IsRecord(p ++ q)
BY SingleMerge DEF IsRecord, ++

LEMMA RecordEntities ==
  ASSUME NEW args, IsRecord(args)
  PROVE  IsRecord(EntitiesOf(args))
<1>1. "_followup_intent" \notin DOMAIN Restricted(args, EntityFields)
  BY DEF Restricted, IsRecord
<1>2. \A value : "_followup_intent" \notin DOMAIN Only("reserve_run_id", value)
  BY DEF Only, Field, NoParams
<1> QED
  BY <1>1, <1>2, SingleEntities DEF EntitiesOf, IsRecord, ++

LEMMA SingleCombined ==
  ASSUME NEW S, NEW calls \in Seq(S), Recorded(calls)
  PROVE  Single(CombinedArgs(calls), {})
<1> SUFFICES ASSUME NEW f, f \in DOMAIN CombinedArgs(calls)
             PROVE  /\ f \in Subjects => AtMostOne(CombinedArgs(calls)[f])
                    /\ f = "question" => CombinedArgs(calls)[f] \subseteq Texts
                    /\ f = "_force_tool" => "calculate_reserve" \notin CombinedArgs(calls)[f]
  BY DEF Single, OneOfEach, IsForced, Get, AtMostOne
<1> DEFINE naming == {i \in DOMAIN calls : f \in DOMAIN calls[i].args}
<1>1. naming # {} /\ naming \in SUBSET (1 .. Len(calls)) /\ Len(calls) \in Nat
  BY DEF CombinedArgs
<1>2. Latest(naming) \in naming
  BY <1>1, LatestIsOf
<1>3. CombinedArgs(calls)[f] = calls[Latest(naming)].args[f]
  BY DEF CombinedArgs
<1> HIDE DEF naming
<1>4. Latest(naming) \in DOMAIN calls /\ f \in DOMAIN calls[Latest(naming)].args
  BY <1>2 DEF naming
<1>5. /\ f \in Subjects => AtMostOne(Get(calls[Latest(naming)].args, f))
      /\ f = "question" => Get(calls[Latest(naming)].args, f) \subseteq Texts
      /\ f = "_force_tool" => "calculate_reserve" \notin Get(calls[Latest(naming)].args, f)
  BY <1>4 DEF Recorded, IsRecord, Single, OneOfEach, IsForced
<1> QED
  BY <1>3, <1>4, <1>5 DEF Get

LEMMA RecordCombined ==
  ASSUME NEW S, NEW calls \in Seq(S), Recorded(calls)
  PROVE  IsRecord(CombinedArgs(calls))
<1>1. "_followup_intent" \notin DOMAIN CombinedArgs(calls)
  BY DEF CombinedArgs, Recorded, IsRecord
<1> QED
  BY <1>1, SingleCombined DEF IsRecord

(* ---------------------- the state is about one subject -------------------- *)
StateFields == {"last", "entities", "filters", "metrics", "compared", "pending", "missing", "asks"}
IsState(s) ==
  /\ DOMAIN s = StateFields
  /\ IsRecord(s.filters) /\ IsRecord(s.entities)
  /\ s.missing # {} => \E i : s.pending = {i}
CallsAreSound(m) == (\E S : m.calls \in Seq(S)) /\ Recorded(m.calls)

LEMMA NoStateIsState == IsState(NoState)
BY SingleNothing DEF IsState, NoState, StateFields, IsRecord, NoParams

LEMMA AfterMessageIsState ==
  ASSUME NEW s, IsState(s), NEW m, CallsAreSound(m)
  PROVE  IsState(AfterMessage(s, m))
<1> DEFINE args == CombinedArgs(m.calls)
           known == Only("reserve_run_id", m.run) ++ s.entities
<1>1. IsRecord(args)
  BY RecordCombined DEF CallsAreSound
<1>2. IsRecord(known)
  <2>1. Single(Only("reserve_run_id", m.run), {})
    BY SingleField DEF Subjects
  <2>2. "_followup_intent" \notin DOMAIN Only("reserve_run_id", m.run)
    BY DEF Only, Field, NoParams
  <2> QED
    BY <2>1, <2>2, RecordMerge DEF IsState, IsRecord
<1>3. IsRecord(EntitiesOf(args) ++ known)
  BY <1>1, <1>2, RecordEntities, RecordMerge
<1> HIDE DEF args, known
<1>4. CASE m.role = "assistant" /\ m.clarifies
  BY <1>4 DEF AfterMessage, IsState, StateFields
<1>5. CASE ~ (m.role = "assistant" /\ m.clarifies) /\ ~ IsDomain(m)
  BY <1>5 DEF AfterMessage
<1>6. CASE ~ (m.role = "assistant" /\ m.clarifies) /\ IsDomain(m)
  <2> DEFINE heard == [s EXCEPT !.last = {m.intent}, !.pending = {}, !.missing = {},
                                !.asks = <<>>, !.entities = known]
  <2>1. IsState(heard)
    BY <1>2 DEF IsState, StateFields
  <2>2. CASE m.calls = <<>>
    BY <1>6, <2>1, <2>2 DEF AfterMessage, known
  <2>3. CASE m.calls # <<>>
    <3> DEFINE metrics == IF MetricsIn(args) # {} THEN MetricsIn(args) ELSE heard.metrics
               compared == IF m.intent \in AnalyticsFamily \cup {"management_report_summary"}
                           THEN args ELSE heard.compared
    <3>1. AfterMessage(s, m) = [heard EXCEPT !.filters = args, !.entities = EntitiesOf(args) ++ known,
                                             !.metrics = metrics, !.compared = compared]
      BY <1>6, <2>3 DEF AfterMessage, args, known
    <3> HIDE DEF heard, metrics, compared
    <3> QED
      BY <1>1, <1>3, <2>1, <3>1 DEF IsState, StateFields
  <2> QED
    BY <2>2, <2>3
<1> QED
  BY <1>4, <1>5, <1>6

LEMMA FoldedIsState ==
  ASSUME NEW S, NEW messages \in Seq(S), \A i \in DOMAIN messages : CallsAreSound(messages[i])
  PROVE  \A some \in SUBSET DOMAIN messages : IsState(Dialogue!Folded(messages, some))
<1> DEFINE B == {some \in SUBSET DOMAIN messages : ~ IsState(Dialogue!Folded(messages, some))}
<1>1. SUFFICES ASSUME B # {} PROVE FALSE
  OBVIOUS
<1>2. B \subseteq SUBSET DOMAIN messages
  OBVIOUS
<1>3. IsFiniteSet(DOMAIN messages)
  <2>1. DOMAIN messages = 1 .. Len(messages) /\ Len(messages) \in Nat
    OBVIOUS
  <2> QED
    BY <2>1, SomeAreFinite
<1>4. HasSmallest(B)
  <2> HIDE DEF B
  <2> QED
    BY <1>1, <1>2, <1>3, SmallestSet
<1>5. PICK some \in B : \A other \in B : other \subseteq some => other = some
  BY <1>4 DEF HasSmallest
<1>6. some # {}
  BY FoldedAt, NoStateIsState
<1> DEFINE last == Max(some)
           less == some \ {last}
<1>7. /\ last \in some
      /\ Dialogue!Folded(messages, some) = AfterMessage(Dialogue!Folded(messages, less), messages[last])
  BY <1>6, FoldedAt
<1>8. less \in SUBSET DOMAIN messages /\ less \notin B
  BY <1>5, <1>7
<1>9. IsState(Dialogue!Folded(messages, less))
  BY <1>8
<1> QED
  BY <1>5, <1>7, <1>9, AfterMessageIsState

LEMMA DeriveIsState ==
  ASSUME NEW S, NEW messages \in Seq(S), \A i \in DOMAIN messages : CallsAreSound(messages[i])
  PROVE  IsState(Derive(messages))
BY FoldedIsState, DeriveIs

\* A follow-up takes from the state and adds no client and no SKU of its own.
LEMMA SingleOther ==
  ASSUME NEW f, f \notin Subjects \cup {"question", "_force_tool"}, NEW value, NEW force
  PROVE  Single(Field(f, value), force) /\ Single(Only(f, value), force)
BY SingleField

LEMMA SingleFollows ==
  ASSUME NEW p, NEW force, Single(p, force), NEW s, Single(s.filters, force),
         Single(s.entities, force), NEW text
  PROVE  /\ Single(FollowWhy(p, s, text), force) /\ Single(FollowAnother(p, s, text), force)
         /\ Single(FollowMetric(p, s, text, "pieces", "sales_qty"), force)
         /\ Single(FollowMetric(p, s, text, "revenue", "revenue"), force)
         /\ Single(FollowCategories(p, s, text), force) /\ Single(FollowSkus(p, s, text), force)
         /\ Single(FollowTop(p, s, text), force) /\ Single(FollowFall(p, s, text), force)
         /\ Single(FollowProblems(p, s, text), force) /\ Single(FollowPrevious(p, s, text), force)
<1> USE DEF Subjects
<1>1. Single(FollowWhy(p, s, text), force) /\ Single(FollowAnother(p, s, text), force)
  BY SingleMerge, SingleAsk DEF FollowWhy, FollowAnother
<1>2. ASSUME NEW group, NEW metric PROVE Single(FollowMetric(p, s, text, group, metric), force)
  <2>1. Single(Field("metric", {metric}) ++ Field("metrics", {metric}) ++ p ++ s.filters, force)
    BY SingleOther, SingleMerge
  <2> QED
    BY <2>1, SingleAsk DEF FollowMetric
<1>3. Single(FollowCategories(p, s, text), force)
  <2> DEFINE q == Field("dimensions", {"category"}) ++ p ++ s.filters
  <2>1. Single(q, force)
    BY SingleOther, SingleMerge
  <2> HIDE DEF q
  <2>2. Single(Field("_followup_intent", {"analytics_slice"}) ++ q, force) /\ Single(AskFor(q, s.last), force)
    BY <2>1, SingleOther, SingleMerge, SingleAsk
  <2> QED
    BY <2>2 DEF FollowCategories, q
<1>4. Single(FollowSkus(p, s, text), force)
  <2>1. Single(Field("dimensions", {"sku", "article"}) ++ p ++ s.filters, force)
    BY SingleOther, SingleMerge
  <2> QED
    BY <2>1, SingleAsk DEF FollowSkus
<1>5. Single(FollowTop(p, s, text), force)
  <2>1. Single(Field("limit", {"n"}) ++ p ++ s.filters ++ Field("sort_direction", {"desc"}), force)
    BY SingleOther, SingleMerge
  <2> QED
    BY <2>1, SingleAsk DEF FollowTop
<1>6. Single(FollowFall(p, s, text), force)
  <2>1. Single(Field("sort_direction", {"asc"}) ++ p ++ s.filters ++ Only("sort_by", One(s.metrics)), force)
    BY SingleOther, SingleMerge
  <2> QED
    BY <2>1, SingleAsk DEF FollowFall
<1>7. Single(FollowProblems(p, s, text), force)
  <2> DEFINE q == p ++ s.entities ++ s.filters
  <2>1. Single(q, force)
    BY SingleMerge
  <2> HIDE DEF q
  <2>2. /\ Single(Field("filters", {"problematic"}) ++ q, force)
        /\ Single(q ++ Field("status", {"problematic"}) ++ Field("risk", {"at_risk"}), force)
    BY <2>1, SingleOther, SingleMerge
  <2> QED
    BY <2>2, SingleAsk DEF FollowProblems, q
<1>8. Single(FollowPrevious(p, s, text), force)
  <2> DEFINE metric == IF Get(s.compared, "metric") # {} THEN Get(s.compared, "metric")
                       ELSE IF s.metrics # {} THEN One(s.metrics)
                       ELSE IF s.last = {"sales_summary"} THEN {"revenue"} ELSE {}
             dates == IF Get(s.filters, "dates") # {} THEN Get(s.filters, "dates")
                      ELSE Get(s.compared, "dates")
             q == p ++ Only("metric", AsQuantity(metric)) ++ Only("current_period", dates)
                    ++ Only("previous_period", PeriodBefore(dates))
  <2> HIDE DEF metric, dates
  <2>1. Single(q, force)
    BY SingleOther, SingleMerge
  <2> HIDE DEF q
  <2>2. Single(AskFor(q, {"period_comparison"}), force)
    BY <2>1, SingleAsk
  <2> QED
    BY <2>1, <2>2 DEF FollowPrevious, q, metric, dates
<1> QED
  BY <1>1, <1>2, <1>3, <1>4, <1>5, <1>6, <1>7, <1>8

\* The question back forces a calculation if it asks what to count.
LEMMA SingleForced ==
  ASSUME NEW s, NEW force, IsRecalculation(s.asks) => "calculate_reserve" \in force
  PROVE  Single(ForcedBy(s), force)
<1>1. "calculate_reserve" \in force => Single(Field("_force_tool", {"calculate_reserve"}), force)
  BY SingleField DEF Subjects
<1> QED
  BY <1>1, SingleNothing DEF ForcedBy

LEMMA SingleResolved ==
  ASSUME NEW text, NEW s, IsState(s), NEW params, NEW force, Single(params, force),
         IsRecalculation(s.asks) => "calculate_reserve" \in force
  PROVE  Single(ResolveFollowUp(text, s, params), force)
<1> DEFINE p0 == IF s.pending # {} /\ s.missing # {}
                 THEN params ++ Field("_pending_intent", s.pending) ++ ForcedBy(s) ELSE params
           p1 == FollowAnother(FollowWhy(p0, s, text), s, text)
           p2 == FollowMetric(FollowMetric(p1, s, text, "pieces", "sales_qty"), s, text, "revenue", "revenue")
           p3 == FollowTop(FollowSkus(FollowCategories(p2, s, text), s, text), s, text)
           p4 == FollowPrevious(FollowProblems(FollowFall(p3, s, text), s, text), s, text)
<1>1. Single(p0, force)
  BY SingleOther, SingleForced, SingleMerge DEF Subjects
<1>2. Single(s.filters, force) /\ Single(s.entities, force)
  BY SingleRecord DEF IsState, IsRecord
<1> HIDE DEF p0
<1>3. Single(p1, force)
  BY <1>1, <1>2, SingleFollows
<1> HIDE DEF p1
<1>4. Single(p2, force)
  BY <1>2, <1>3, SingleFollows
<1> HIDE DEF p2
<1>5. Single(p3, force)
  BY <1>2, <1>4, SingleFollows
<1> HIDE DEF p3
<1>6. Single(p4, force)
  BY <1>2, <1>5, SingleFollows
<1> QED
  BY <1>1, <1>6 DEF ResolveFollowUp, p0, p1, p2, p3

\* What a question says is about one client and one SKU, and so are its parameters.
LEMMA RouteIsSingle ==
  ASSUME NEW text, NEW intent
  PROVE  AtMostOne(RouteQuestion(text, intent).client) /\ AtMostOne(RouteQuestion(text, intent).sku)
<1>1. AtMostOne(FirstClient(text))
  BY DEF FirstClient, AtMostOne
<1>2. AtMostOne(FirstSaid(text, Skus))
  BY DEF FirstSaid, One, AtMostOne
<1> QED
  BY <1>1, <1>2 DEF RouteQuestion, AtMostOne

LEMMA SingleEntityParams ==
  ASSUME NEW inherited, NEW force, Single(inherited, force), NEW route, NEW pin,
         AtMostOne(route.client), AtMostOne(route.sku), AtMostOne(pin.client), AtMostOne(pin.sku)
  PROVE  Single(EntityParams(inherited, route, pin), force)
<1> DEFINE client == IF route.client # {} THEN Field("client_id", route.client) ++ inherited
                     ELSE inherited ++ Only("client_id", pin.client)
           sku == IF route.skus # {} THEN Field("sku_ids", route.skus) ++ client
                                          ++ Field("sku_id", route.sku)
                  ELSE client ++ Only("sku_id", pin.sku)
           category == IF route.category # {} THEN Field("category_id", route.category) ++ sku
                       ELSE sku ++ Only("category_id", pin.category)
<1>1. Single(client, force)
  BY SingleField, SingleMerge
<1> HIDE DEF client
<1>2. Single(sku, force)
  <2>1. Single(Field("sku_ids", route.skus), force) /\ Single(Field("sku_id", route.sku), force)
        /\ Single(Only("sku_id", pin.sku), force)
    BY SingleField DEF Subjects
  <2> QED
    BY <1>1, <2>1, SingleMerge
<1> HIDE DEF sku
<1>3. Single(category, force)
  BY <1>2, SingleOther, SingleMerge DEF Subjects
<1> HIDE DEF category
<1>4. EntityParams(inherited, route, pin)
        = category ++ Only("reserve_run_id", pin.run) ++ Only("client_name", route.client)
  BY DEF EntityParams, client, sku, category
<1> QED
  BY <1>3, <1>4, SingleOther, SingleMerge DEF Subjects

LEMMA SingleSlice ==
  ASSUME NEW params, NEW force, Single(params, force), NEW text \in Texts
  PROVE  Single(SliceParams(params, text), force)
<1> USE DEF Subjects
<1> DEFINE parsed == PeriodOf(text)
           period == IF Get(params, "period") # {} THEN params
                     ELSE IF parsed # {} THEN Field("period", parsed) ++ params ++ Field("dates", parsed)
                     ELSE Only("period", Get(params, "dates")) ++ params
           metrics == period ++ Field("question", {text})
                      ++ Only("metrics", IF MetricsOf(text) # {} THEN MetricsOf(text)
                                    ELSE IF MetricsIn(params) = {} THEN {"revenue", "sales_qty"} ELSE {})
           dims == IF DimensionsOf(text) # {} THEN metrics ++ Field("dimensions", DimensionsOf(text))
                   ELSE IF Get(metrics, "dimensions") # {} THEN metrics
                   ELSE metrics ++ Field("dimensions", SourceDimensions(metrics, text))
<1>1. Single(period, force)
  BY SingleOther, SingleMerge
<1> HIDE DEF period
<1>2. Single(metrics, force)
  <2>1. Single(Field("question", {text}), force)
    BY SingleField
  <2> QED
    BY <1>1, <2>1, SingleOther, SingleMerge
<1> HIDE DEF metrics
<1>3. Single(dims, force)
  BY <1>2, SingleOther, SingleMerge
<1> HIDE DEF dims
<1>4. SliceParams(params, text)
        = dims ++ (IF Says(text, {"top"}) THEN Field("limit", {"20"}) ELSE NoParams)
               ++ (IF Says(text, {"dropped"}) THEN Field("sort_direction", {"asc"}) ELSE NoParams)
  BY DEF SliceParams, dims, metrics, period
<1> QED
  BY <1>3, <1>4, SingleOther, SingleMerge, SingleNothing

LEMMA SingleParams ==
  ASSUME NEW text \in Texts, NEW route, NEW pin, NEW planned, NEW inherited, NEW force,
         Single(planned, force), Single(inherited, force),
         AtMostOne(route.client), AtMostOne(route.sku), AtMostOne(pin.client), AtMostOne(pin.sku)
  PROVE  Single(ParamsFromRoute(text, route, pin, planned, inherited), force)
<1> USE DEF Subjects
<1> DEFINE entities == EntityParams(planned ++ inherited, route, pin)
           params ==
             CASE route.intent = "management_report_summary" -> entities ++ Field("question", {text})
               [] route.intent = "sales_summary"     -> SalesParams(entities, text)
               [] route.intent = "period_comparison" -> ComparisonParams(entities, text)
               [] route.intent = "analytics_slice"   -> SliceParams(entities, text)
               [] OTHER -> entities
<1>1. Single(entities, force)
  BY SingleMerge, SingleEntityParams
<1> HIDE DEF entities
<1>2. Single(entities ++ Field("question", {text}), force)
  <2>1. Single(Field("question", {text}), force)
    BY SingleField
  <2> QED
    BY <1>1, <2>1, SingleMerge
<1>3. Single(SalesParams(entities, text), force)
  BY <1>1, SingleRestricted, SingleOther, SingleMerge DEF SalesParams
<1>4. Single(ComparisonParams(entities, text), force)
  BY <1>1, SingleOther, SingleMerge DEF ComparisonParams
<1>5. Single(SliceParams(entities, text), force)
  BY <1>1, SingleSlice
<1>6. Single(params, force)
  BY <1>1, <1>2, <1>3, <1>4, <1>5
<1> HIDE DEF params
<1>7. ParamsFromRoute(text, route, pin, planned, inherited)
        = Restricted(params, {f \in DOMAIN params : params[f] # {} \/ f = "dimensions"})
  BY DEF ParamsFromRoute, params, entities
<1> QED
  BY <1>6, <1>7, SingleRestricted

(* ----------------------- an answer is of one subject ---------------------- *)
\* The tools that have no eyes for the context are the reports and the dashboard, and only
\* support tools follow them.
LEMMA PrimaryTools ==
  ASSUME NEW intent \in Intents \ Chat, NEW tool \in Primary(intent), IgnoresContext(tool)
  PROVE  intent \in {"management_report_summary", "data_overview"}
<1> USE DEF DefaultPlan, IgnoresContext, Primary
<1>1. CASE intent = "reserve_calculation"
  BY <1>1
<1>2. CASE intent = "reserve_explanation"
  BY <1>2
<1>3. CASE intent = "sku_summary"
  BY <1>3
<1>4. CASE intent = "client_summary"
  BY <1>4
<1>5. CASE intent = "diy_coverage_check"
  BY <1>5
<1>6. CASE intent = "inbound_impact"
  BY <1>6
<1>7. CASE intent = "stock_risk_summary"
  BY <1>7
<1>8. CASE intent = "upload_status_summary"
  BY <1>8
<1>9. CASE intent = "quality_issue_summary"
  BY <1>9
<1>10. CASE intent = "sales_summary"
  BY <1>10
<1>11. CASE intent = "period_comparison"
  BY <1>11
<1>12. CASE intent = "analytics_slice"
  BY <1>12
<1> HIDE DEF DefaultPlan, IgnoresContext, Primary
<1> QED
  BY <1>1, <1>2, <1>3, <1>4, <1>5, <1>6, <1>7, <1>8, <1>9, <1>10, <1>11, <1>12
  DEF Intents, Chat, AnalyticsFamily

LEMMA ReportsStandAlone ==
  ASSUME NEW intent, NEW planned \in Seq(STRING), NEW text, NEW params,
         NEW tools, tools = ExecutionPlan(intent, planned, text, params), tools # <<>>, IgnoresContext(Head(tools)),
         NEW i \in DOMAIN tools, i # 1
  PROVE  Contract[tools[i]].intent # intent
<1>1. intent \in {"management_report_summary", "data_overview"}
  BY PlansAreSafe, PrimaryTools
<1> DEFINE required == DefaultPlan(intent)
           files == {"get_upload_status", "get_quality_issues"}
           allowed == ToSet(required) \cup (IF intent = "management_report_summary" THEN files ELSE {})
           added == Among(planned, allowed \ ToSet(required))
           plan == required \o added
           last == IF Len(plan) > 3 THEN 3 ELSE Len(plan)
<1>2. tools = SubSeq(plan, 1, last)
  BY <1>1 DEF ExecutionPlan, TakesSupport, Chat
<1>3. added \in Seq(files)
  <2>1. added \in Seq(allowed \ ToSet(required))
    BY AmongIsOf
  <2>2. allowed \ ToSet(required) \subseteq files
    OBVIOUS
  <2> HIDE DEF added, allowed
  <2> QED
    BY <2>1, <2>2
<1>4. required \in Seq(Tools) /\ Len(required) = 1
  <2>1. required \in Seq(Tools)
    BY DefaultPlans
  <2>2. Len(required) = 1
    BY <1>1 DEF DefaultPlan
  <2> QED
    BY <2>1, <2>2
<1> HIDE DEF added, required
<1>5. /\ plan \in Seq(Tools \cup files) /\ Len(plan) = 1 + Len(added)
      /\ \A k \in 2 .. Len(plan) : plan[k] \in files
  <2> HIDE DEF files
  <2>1. required \in Seq(Tools \cup files) /\ added \in Seq(Tools \cup files)
    BY <1>3, <1>4
  <2>2. plan \in Seq(Tools \cup files) /\ Len(plan) = 1 + Len(added)
    <3> DEFINE both == Tools \cup files
    <3> HIDE DEF both
    <3>1. required \in Seq(both) /\ added \in Seq(both)
      BY <2>1 DEF both
    <3>2. plan \in Seq(both) /\ Len(plan) = Len(required) + Len(added)
      BY <3>1
    <3> QED
      BY <1>4, <3>2 DEF both
  <2>3. ASSUME NEW k \in 2 .. Len(plan) PROVE plan[k] = added[k - 1] /\ k - 1 \in DOMAIN added
    BY <1>4, <2>1, <2>2
  <2> QED
    BY <1>3, <2>2, <2>3
<1> HIDE DEF plan
<1>6. i \in 2 .. Len(plan) /\ tools[i] = plan[i]
  BY <1>2, <1>5
<1>7. tools[i] \in files
  BY <1>5, <1>6
<1>8. Contract["get_upload_status"].intent = "upload_status_summary"
      /\ Contract["get_quality_issues"].intent = "quality_issue_summary"
  BY Zenon DEF Contract
<1> QED
  BY <1>1, <1>7, <1>8

(* ------------------------ the tools that tell of a client ------------------ *)
ClientIntents ==
  {"reserve_calculation", "reserve_explanation", "client_summary", "diy_coverage_check",
   "inbound_impact", "sales_summary", "period_comparison", "analytics_slice"}

LEMMA ClientPrimaries ==
  ASSUME NEW intent \in ClientIntents
  PROVE  Primary(intent) \subseteq ClientTools
<1> USE DEF Primary, DefaultPlan, ClientTools
<1>1. CASE intent = "reserve_calculation"
  BY <1>1
<1>2. CASE intent = "reserve_explanation"
  BY <1>2
<1>3. CASE intent = "client_summary"
  BY <1>3
<1>4. CASE intent = "diy_coverage_check"
  BY <1>4
<1>5. CASE intent = "inbound_impact"
  BY <1>5
<1>6. CASE intent = "sales_summary"
  BY <1>6
<1>7. CASE intent = "period_comparison"
  BY <1>7
<1>8. CASE intent = "analytics_slice"
  BY <1>8
<1> QED
  BY <1>1, <1>2, <1>3, <1>4, <1>5, <1>6, <1>7, <1>8 DEF ClientIntents

LEMMA OtherDefaultPlans ==
  ASSUME NEW intent, intent \notin ClientIntents
  PROVE  \A i \in DOMAIN DefaultPlan(intent) : DefaultPlan(intent)[i] \notin ClientTools
<1> USE DEF DefaultPlan, ClientTools, ClientIntents
<1>1. CASE intent = "sku_summary"
  BY <1>1
<1>2. CASE intent = "stock_risk_summary"
  BY <1>2
<1>3. CASE intent = "upload_status_summary"
  BY <1>3
<1>4. CASE intent = "quality_issue_summary"
  BY <1>4
<1>5. CASE intent = "management_report_summary"
  BY <1>5
<1>6. CASE intent = "data_overview"
  BY <1>6
<1>7. CASE intent \notin {"sku_summary", "stock_risk_summary", "upload_status_summary",
                          "quality_issue_summary", "management_report_summary", "data_overview"}
  <2>1. DefaultPlan(intent) = <<>>
    BY <1>7
  <2> HIDE DEF DefaultPlan
  <2> QED
    BY <2>1
<1> QED
  BY <1>1, <1>2, <1>3, <1>4, <1>5, <1>6, <1>7

LEMMA SupportIsOther ==
  /\ SupportTools \subseteq Tools \ ClientTools
  /\ {"get_upload_status", "get_quality_issues"} \subseteq Tools \ ClientTools
BY ToolNames DEF SupportTools, ClientTools

\* A plan for anything else has no tool that tells of a client, whatever the planner adds.
LEMMA OtherPlans ==
  ASSUME NEW intent, intent \notin ClientIntents, NEW planned \in Seq(STRING), NEW text,
         NEW params, NEW tools, tools = ExecutionPlan(intent, planned, text, params), tools # <<>>, NEW i \in DOMAIN tools
  PROVE  tools[i] \notin ClientTools
<1> DEFINE required == DefaultPlan(intent)
           allowed == ToSet(required)
                      \cup (IF intent \in TakesSupport THEN SupportTools ELSE {})
                      \cup (IF intent = "management_report_summary"
                            THEN {"get_upload_status", "get_quality_issues"} ELSE {})
           added == Among(planned, allowed \ ToSet(required))
           plan == required \o added
           last == IF Len(plan) > 3 THEN 3 ELSE Len(plan)
           others == Tools \ ClientTools
<1>1. tools = SubSeq(plan, 1, last)
  BY DEF ExecutionPlan, ClientIntents
<1>2. required \in Seq(others)
  <2>1. required \in Seq(Tools)
    BY DefaultPlans
  <2>2. \A k \in DOMAIN required : required[k] \notin ClientTools
    BY OtherDefaultPlans
  <2> HIDE DEF required
  <2>3. \A k \in DOMAIN required : required[k] \in Tools
    BY <2>1
  <2>4. \A k \in DOMAIN required : required[k] \in others
    BY <2>2, <2>3
  <2> HIDE DEF others
  <2> QED
    BY <2>1, <2>4
<1>3. added \in Seq(others)
  <2>1. added \in Seq(allowed \ ToSet(required))
    BY AmongIsOf
  <2>2. allowed \ ToSet(required) \subseteq others
    <3>1. SupportTools \subseteq others /\ {"get_upload_status", "get_quality_issues"} \subseteq others
      BY SupportIsOther
    <3> HIDE DEF required, others
    <3> QED
      BY <3>1
  <2> HIDE DEF added, allowed, others, required
  <2> QED
    BY <2>1, <2>2
<1> HIDE DEF required, added, others
<1>4. plan \in Seq(others)
  BY <1>2, <1>3
<1> HIDE DEF plan
<1>5. tools[i] \in others
  BY <1>1, <1>4
<1> QED
  BY <1>5 DEF others

(* ----------------------------- sound messages ----------------------------- *)
\* Only an answer of an intent that tells of a client has recorded one.
TellsOfClient(calls, intent) ==
  \A i \in DOMAIN calls : Get(calls[i].args, "client_id") # {} => intent \in ClientIntents
IsSound(m) ==
  /\ CallsAreSound(m)
  /\ m.text \in Texts
  /\ TellsOfClient(m.calls, m.intent)
  /\ IsDomain(m) /\ ~ m.clarifies => m.calls # <<>>
AreSound(messages) ==
  (\E S : messages \in Seq(S)) /\ \A i \in DOMAIN messages : IsSound(messages[i])
\* The last of the messages is an answer.
IsFresh(messages) ==
  messages # <<>> /\ IsDomain(messages[Len(messages)]) /\ ~ messages[Len(messages)].clarifies

LEMMA MaxIsLast ==
  ASSUME NEW n \in Nat, n > 0
  PROVE  Max(1 .. n) = n
<1>1. n \in 1 .. n /\ \A y \in 1 .. n : n >= y
  OBVIOUS
<1>2. \A x \in 1 .. n : (\A y \in 1 .. n : x >= y) => x = n
  OBVIOUS
<1> QED
  BY <1>1, <1>2 DEF Max

LEMMA LastIsHeard ==
  ASSUME NEW messages, AreSound(messages), messages # <<>>
  PROVE  \E s : IsState(s) /\ Derive(messages) = AfterMessage(s, messages[Len(messages)])
<1>1. PICK S : messages \in Seq(S)
  BY DEF AreSound
<1>2. DOMAIN messages = 1 .. Len(messages) /\ Len(messages) \in Nat /\ Len(messages) > 0
  BY <1>1
<1>3. Max(DOMAIN messages) = Len(messages)
  BY <1>2, MaxIsLast
<1> DEFINE less == DOMAIN messages \ {Len(messages)}
<1>4. Derive(messages) = AfterMessage(Dialogue!Folded(messages, less), messages[Len(messages)])
  <2>1. DOMAIN messages # {}
    BY <1>2
  <2>2. Dialogue!Folded(messages, DOMAIN messages)
          = AfterMessage(Dialogue!Folded(messages, less), messages[Len(messages)])
    BY <1>1, <1>3, <2>1, FoldedAt
  <2> QED
    BY <2>2, DeriveIs
<1>5. \A i \in DOMAIN messages : CallsAreSound(messages[i])
  BY DEF AreSound, IsSound
<1>6. IsState(Dialogue!Folded(messages, less))
  BY <1>1, <1>5, FoldedIsState
<1> QED
  BY <1>4, <1>6

\* The state after an answer is about that answer.
LEMMA FreshStateIs ==
  ASSUME NEW messages, AreSound(messages), IsFresh(messages), NEW s, s = Derive(messages),
         NEW m, m = messages[Len(messages)]
  PROVE  /\ s.last = {m.intent} /\ s.pending = {} /\ s.filters = CombinedArgs(m.calls)
         /\ \E known : s.entities = EntitiesOf(s.filters) ++ known
<1>1. PICK before : IsState(before) /\ s = AfterMessage(before, m)
  BY LastIsHeard DEF IsFresh
<1>2. IsSound(m) /\ IsDomain(m) /\ ~ m.clarifies
  <2>1. Len(messages) \in DOMAIN messages
    BY DEF AreSound, IsFresh
  <2> QED
    BY <2>1 DEF AreSound, IsFresh
<1>3. m.calls # <<>>
  BY <1>2 DEF IsSound
<1> DEFINE args == CombinedArgs(m.calls)
           known == Only("reserve_run_id", m.run) ++ before.entities
           heard == [before EXCEPT !.last = {m.intent}, !.pending = {}, !.missing = {},
                                   !.asks = <<>>, !.entities = known]
           metrics == IF MetricsIn(args) # {} THEN MetricsIn(args) ELSE heard.metrics
           compared == IF m.intent \in AnalyticsFamily \cup {"management_report_summary"}
                       THEN args ELSE heard.compared
<1>4. s = [heard EXCEPT !.filters = args, !.entities = EntitiesOf(args) ++ known,
                        !.metrics = metrics, !.compared = compared]
  BY <1>1, <1>2, <1>3 DEF AfterMessage
<1>5. DOMAIN before = StateFields
  BY <1>1 DEF IsState
<1>6. /\ DOMAIN heard = StateFields /\ heard.last = {m.intent} /\ heard.pending = {}
  <2> HIDE DEF known
  <2> QED
    BY <1>5 DEF StateFields
<1> HIDE DEF heard, args, known, metrics, compared
<1>7. s.last = {m.intent} /\ s.pending = {} /\ s.filters = args /\ s.entities = EntitiesOf(args) ++ known
  BY <1>4, <1>6 DEF StateFields
<1> QED
  BY <1>7 DEF args

(* ---------------------- the words of what is answered --------------------- *)
\* A text that the messages or the questions they answered say.
IsSaid(t, messages) == t \in Texts /\ Words(t) \in WordsIn(messages)

LEMMA TextIsSaid ==
  ASSUME NEW messages, AreSound(messages), NEW i \in DOMAIN messages
  PROVE  IsSaid(messages[i].text, messages)
BY DEF AreSound, IsSound, IsSaid, WordsIn

LEMMA QuestionIsSaid ==
  ASSUME NEW messages, AreSound(messages), NEW i \in DOMAIN messages, NEW t \in QuestionOf(messages[i])
  PROVE  IsSaid(t, messages)
<1>1. Words(t) \in WordsIn(messages)
  BY DEF WordsIn
<1> DEFINE m == messages[i]
           asking == {k \in DOMAIN m.calls : Get(m.calls[k].args, "question") # {}}
<1>2. IsSound(m)
  BY DEF AreSound
<1> HIDE DEF m
<1>3. asking # {} /\ t \in m.calls[Latest(asking)].args["question"]
  BY DEF QuestionOf, m
<1>4. PICK S : m.calls \in Seq(S)
  BY <1>2 DEF IsSound, CallsAreSound
<1>5. asking \in SUBSET (1 .. Len(m.calls)) /\ Len(m.calls) \in Nat
  BY <1>4
<1>6. Latest(asking) \in asking
  BY <1>3, <1>5, LatestIsOf
<1>7. t \in Get(m.calls[Latest(asking)].args, "question")
  <2>1. Get(m.calls[Latest(asking)].args, "question") # {}
    BY <1>6
  <2> HIDE DEF asking
  <2> QED
    BY <1>3, <2>1 DEF Get
<1>8. Latest(asking) \in DOMAIN m.calls
  BY <1>6
<1> HIDE DEF asking
<1>9. Get(m.calls[Latest(asking)].args, "question") \subseteq Texts
  BY <1>2, <1>8 DEF IsSound, CallsAreSound, Recorded, IsRecord, Single, OneOfEach
<1> QED
  BY <1>1, <1>7, <1>9 DEF IsSaid

LEMMA WordsOfBoth ==
  ASSUME NEW a \in Texts, NEW b \in Texts
  PROVE  a \o b \in Texts /\ Words(a \o b) \subseteq Words(a) \cup Words(b)
<1>1. a \o b \in Texts
  BY DEF Texts
<1>2. ASSUME NEW i \in DOMAIN (a \o b)
      PROVE  (a \o b)[i] \subseteq Words(a) \cup Words(b)
  <2>1. CASE i \in DOMAIN a
    <3>1. (a \o b)[i] = a[i]
      BY <2>1 DEF Texts
    <3> QED
      BY <2>1, <3>1 DEF Words
  <2>2. CASE i \notin DOMAIN a
    <3>1. i - Len(a) \in DOMAIN b /\ (a \o b)[i] = b[i - Len(a)]
      BY <1>2, <2>2 DEF Texts
    <3> QED
      BY <3>1 DEF Words
  <2> QED
    BY <2>1, <2>2
<1> QED
  BY <1>1, <1>2 DEF Words

\* A question that is read with what came before says no more than that and itself.
LEMMA FallbackReads ==
  ASSUME NEW text \in Texts, NEW intent, NEW planned, NEW plannedText \in Texts,
         NEW messages, AreSound(messages),
         NEW settled, settled = HistoryFallback(text, intent, planned, plannedText, messages)
  PROVE  /\ settled.text \in Texts
         /\ Words(settled.text) \subseteq Words(text) \cup Words(plannedText) \cup UNION WordsIn(messages)
<1> DEFINE kept   == IF intent \notin Chat /\ planned = "unsupported_or_ambiguous" THEN intent ELSE planned
           keptText == IF kept = planned THEN plannedText ELSE text
           users    == {i \in DOMAIN messages : messages[i].role = "user"}
           followups == {i \in users : ~ IsRepair(messages[i].text) /\ IsContextual(messages[i].text)}
           repairs  == IsRepair(text) /\ followups # {}
           domain   == {i \in DOMAIN messages : IsDomain(messages[i])}
           substantive == {i \in domain : \E t \in QuestionOf(messages[i]) : IsSubstantive(t)}
           base == IF substantive # {} THEN QuestionOf(messages[Latest(substantive)])
                   ELSE IF QuestionOf(messages[Latest(domain)]) # {} THEN QuestionOf(messages[Latest(domain)])
                   ELSE IF users = {} THEN {} ELSE {messages[Latest(users)].text}
           follow == IF repairs THEN messages[Latest(followups)].text ELSE text
           first == CHOOSE b \in base : TRUE
           read == intent \in Chat /\ (IsContextual(text) \/ repairs) /\ domain # {}
<1>1. settled.text = IF read /\ base # {} THEN first \o follow ELSE keptText
  <2>1. settled = IF read THEN [intent |-> messages[Latest(domain)].intent,
                                text |-> IF base = {} THEN keptText ELSE first \o follow]
                  ELSE [intent |-> kept, text |-> keptText]
    BY Zenon DEF HistoryFallback
  <2> HIDE DEF kept, keptText, domain, base, follow, first, read
  <2> QED
    BY <2>1
<1>2. /\ domain \subseteq DOMAIN messages /\ substantive \subseteq DOMAIN messages
      /\ users \subseteq DOMAIN messages /\ followups \subseteq DOMAIN messages
  OBVIOUS
<1>3. keptText \in {text, plannedText}
  OBVIOUS
<1>4. follow = text \/ (followups # {} /\ follow = messages[Latest(followups)].text)
  OBVIOUS
<1>5. base # {} /\ domain # {} =>
        \/ substantive # {} /\ base = QuestionOf(messages[Latest(substantive)])
        \/ base = QuestionOf(messages[Latest(domain)])
        \/ users # {} /\ base = {messages[Latest(users)].text}
  OBVIOUS
<1>6. base # {} => first \in base
  OBVIOUS
<1>7. read => domain # {}
  OBVIOUS
<1> HIDE DEF kept, keptText, users, followups, repairs, domain, substantive, base, follow, first, read
<1>8. DOMAIN messages = 1 .. Len(messages) /\ Len(messages) \in Nat
  BY DEF AreSound
<1>9. ASSUME NEW some, some \subseteq DOMAIN messages, some # {}
      PROVE  Latest(some) \in DOMAIN messages
  BY <1>8, <1>9, LatestIsOf
<1>10. follow = text \/ IsSaid(follow, messages)
  BY <1>2, <1>4, <1>9, TextIsSaid
<1>11. read /\ base # {} => IsSaid(first, messages)
  <2> SUFFICES ASSUME read, base # {} PROVE IsSaid(first, messages)
    OBVIOUS
  <2>1. CASE substantive # {} /\ base = QuestionOf(messages[Latest(substantive)])
    BY <1>2, <1>6, <1>9, <2>1, QuestionIsSaid
  <2>2. CASE base = QuestionOf(messages[Latest(domain)])
    BY <1>2, <1>6, <1>7, <1>9, <2>2, QuestionIsSaid
  <2>3. CASE users # {} /\ base = {messages[Latest(users)].text}
    BY <1>2, <1>6, <1>9, <2>3, TextIsSaid
  <2> QED
    BY <1>5, <1>7, <2>1, <2>2, <2>3
<1>12. \A t : IsSaid(t, messages) => t \in Texts /\ Words(t) \subseteq UNION WordsIn(messages)
  BY DEF IsSaid
<1>13. CASE read /\ base # {}
  <2>1. first \in Texts /\ Words(first) \subseteq UNION WordsIn(messages)
    BY <1>11, <1>12, <1>13
  <2>2. follow \in Texts /\ Words(follow) \subseteq Words(text) \cup UNION WordsIn(messages)
    BY <1>10, <1>12
  <2>3. first \o follow \in Texts /\ Words(first \o follow) \subseteq Words(first) \cup Words(follow)
    BY <2>1, <2>2, WordsOfBoth
  <2> QED
    BY <1>1, <1>13, <2>1, <2>2, <2>3
<1>14. CASE ~ (read /\ base # {})
  <2>1. settled.text = keptText
    BY <1>1, <1>14
  <2> QED
    BY <1>3, <2>1
<1> QED
  BY <1>13, <1>14

LEMMA PlanIsSingle ==
  ASSUME NEW q, NEW intent, NEW reply, DOMAIN reply = DOMAIN Silence, OneOfEach(reply.params)
  PROVE  /\ OneOfEach(PlanRoute(q, intent, reply).params)
         /\ PlanRoute(q, intent, reply).text \in {<<q>>, reply.text}
<1>1. PlanRoute(q, intent, reply) = [Silence EXCEPT !.intent = intent, !.text = <<q>>]
      => PlanRoute(q, intent, reply).params = NoParams /\ PlanRoute(q, intent, reply).text = <<q>>
  BY DEF Silence
<1>2. CASE PlanRoute(q, intent, reply)
             = [reply EXCEPT !.text = IF reply.text = <<>> THEN <<q>> ELSE reply.text]
  <2>1. DOMAIN reply = {"intent", "text", "tools", "params", "missing", "asks"}
    BY DEF Silence
  <2> QED
    BY <1>2, <2>1
<1> QED
  BY <1>1, <1>2, SingleNothing DEF PlanRoute, Single

\* A calculation is forced by the planner's parameters or by the question back.
Forcing(forced, asks) == IF forced \/ IsRecalculation(asks) THEN {"calculate_reserve"} ELSE {}

\* What is decided before a tool runs is about one client and one SKU.
LEMMA ReadIsSingle ==
  ASSUME NEW q \in SUBSET STRING, NEW reply, NEW pin, DOMAIN reply = DOMAIN Silence,
         reply.tools \in Seq(STRING), reply.text \in Texts, OneOfEach(reply.params),
         AtMostOne(pin.client), AtMostOne(pin.sku), AreSound(Recent)
  PROVE  LET r == Read(q, reply, pin)
         IN  /\ IsState(r.state) /\ Single(r.params, Forcing(r.forced, r.state.asks))
             /\ AtMostOne(r.ctx.client) /\ AtMostOne(r.ctx.sku)
             /\ r.tools # <<>> /\ IgnoresContext(Head(r.tools)) =>
                  \A i \in DOMAIN r.tools \ {1} : Contract[r.tools[i]].intent # r.intent
             /\ \A i \in DOMAIN r.tools : r.tools[i] \in ClientTools => r.intent \in ClientIntents
<1> DEFINE text     == <<q>>
           messages == Recent
           state    == Derive(messages)
           intent   == DetectIntent(text)
           plan     == PlanRoute(q, intent, reply)
           resolved == ResolveFollowUp(text, state, plan.params)
           settled  == HistoryFallback(text, intent, FollowedIntent(plan.intent, resolved, text),
                                       plan.text, messages)
           route    == RouteQuestion(settled.text, settled.intent)
           params   == ParamsFromRoute(settled.text, route, pin, plan.params, resolved)
           tools    == ExecutionPlan(route.intent, plan.tools, settled.text, params)
           r        == Read(q, reply, pin)
           force    == Forcing(r.forced, r.state.asks)
<1>1. /\ r.state = state /\ r.params = params /\ r.ctx = Context(route, pin)
      /\ r.tools = tools /\ r.intent = route.intent
  BY DEF Read, Prepared
<1>2. OneOfEach(plan.params) /\ plan.tools \in Seq(STRING) /\ plan.text \in {<<q>>, reply.text}
  BY PlanIsSingle, PlanRouteKeepsFamily
<1>3. /\ IsForced(plan.params) => "calculate_reserve" \in force
      /\ IsRecalculation(state.asks) => "calculate_reserve" \in force
  <2>1. IsForced(plan.params) => r.forced
    BY DEF Read, Prepared
  <2> HIDE DEF plan, r
  <2> QED
    BY <1>1, <2>1 DEF Forcing
<1> HIDE DEF force, r
<1>4. Single(plan.params, force)
  BY <1>2, <1>3 DEF Single
<1> HIDE DEF plan
<1>5. IsState(state)
  BY DeriveIsState DEF AreSound, IsSound
<1>6. text \in Texts
  BY DEF Texts
<1> HIDE DEF text
<1>7. plan.text \in Texts
  BY <1>2, <1>6 DEF text
<1>8. settled.text \in Texts
  <2> HIDE DEF resolved
  <2> QED
    BY <1>6, <1>7, FallbackReads
<1> HIDE DEF state, messages, intent
<1>9. Single(resolved, force)
  BY <1>5, <1>3, <1>4, SingleResolved
<1> HIDE DEF resolved, settled
<1>10. AtMostOne(route.client) /\ AtMostOne(route.sku)
  BY RouteIsSingle
<1> HIDE DEF route
<1>11. Single(params, force)
  BY <1>4, <1>9, <1>10, <1>8, SingleParams
<1> HIDE DEF params
<1>12. AtMostOne(Context(route, pin).client) /\ AtMostOne(Context(route, pin).sku)
  BY <1>10 DEF Context
<1>13. ASSUME tools # <<>>, IgnoresContext(Head(tools)), NEW i \in DOMAIN tools \ {1}
       PROVE  Contract[tools[i]].intent # route.intent
  BY <1>2, <1>13, ReportsStandAlone
<1>14. ASSUME tools # <<>>, NEW i \in DOMAIN tools, tools[i] \in ClientTools
       PROVE  route.intent \in ClientIntents
  BY <1>2, <1>14, OtherPlans
<1>15. \A i \in DOMAIN tools : tools # <<>>
  OBVIOUS
<1> HIDE DEF tools
<1>16. /\ IsState(r.state) /\ Single(r.params, force) /\ AtMostOne(r.ctx.client) /\ AtMostOne(r.ctx.sku)
       /\ r.tools # <<>> /\ IgnoresContext(Head(r.tools)) =>
            \A i \in DOMAIN r.tools \ {1} : Contract[r.tools[i]].intent # r.intent
       /\ \A i \in DOMAIN r.tools : r.tools[i] \in ClientTools => r.intent \in ClientIntents
  BY <1>1, <1>5, <1>11, <1>12, <1>13, <1>14, <1>15
<1> QED
  BY <1>16 DEF r, force

(* ------------------------ a client given in reply ------------------------- *)
\* A text that names clients only says none of the groups.
SaysNothing(text) == \A word \in Groups : word \notin Words(text)

LEMMA ClientsSayNothing ==
  ASSUME NEW q, q \subseteq Clients, q # {}
  PROVE  SaysNothing(<<q>>) /\ Words(<<q>>) = q
<1>1. Words(<<q>>) = q
  BY DEF Words
<1> QED
  BY <1>1, CodesAssumption DEF SaysNothing

LEMMA NothingIsAsked ==
  ASSUME NEW text, SaysNothing(text)
  PROVE  /\ ~ Says(text, {"why"}) /\ ~ Says(text, {"another"}) /\ ~ Says(text, {"pieces"})
         /\ ~ Says(text, {"revenue"}) /\ ~ Says(text, {"bycategory"}) /\ ~ Says(text, {"bysku"})
         /\ ~ Says(text, {"topn"}) /\ ~ Says(text, {"dropped"})
         /\ ~ Says(text, {"onlyproblems", "showproblems", "critical"})
         /\ ~ Says(text, {"previousmonth"}) /\ ~ IsContextual(text) /\ ~ IsRepair(text)
         /\ ~ Says(text, {"performed"}) /\ ~ Says(text, {"showproblems"}) /\ ~ Says(text, {"order"})
         /\ ~ Says(text, {"howarethings"})
BY DEF SaysNothing, Says, Groups, IsContextual, IsRepair, IsDetailRequest

LEMMA NoRuleMatches ==
  ASSUME NEW text, SaysNothing(text), Words(text) # {}
  PROVE  DetectIntent(text) = "unsupported_or_ambiguous"
<1> USE DEF SaysNothing, Says, Groups
<1>1. ~ IsHelp(text) /\ ~ IsInventory(text)
  BY DEF IsHelp, IsInventory
<1>2. ~ (Says(text, {"delivery"}) /\ Says(text, {"deficit", "closed", "affects"}))
  OBVIOUS
<1>3. ~ IsProblemOrOrder(text)
  BY DEF IsProblemOrOrder
<1>4. ~ (Says(text, {"count", "recount"}) /\ Says(text, {"reserve"}))
  OBVIOUS
<1>5. ~ IsYearResult(text) /\ ~ IsManagementReport(text)
  BY DEF IsYearResult, IsManagementReport
<1>6. ~ Says(text, {"cost", "profit"}) /\ ~ IsMonthPerformance(text)
  BY DEF IsMonthPerformance
<1>7. ~ Says(text, {"howisclient"})
  OBVIOUS
<1>8. ~ Says(text, {"top"}) /\ ~ IsAnalyticsSlice(text) /\ ~ Says(text, {"dropped"})
  BY DEF IsAnalyticsSlice
<1>9. ~ Says(text, {"compare"}) /\ ~ Says(text, {"sales", "revenue", "leftover"})
  OBVIOUS
<1>10. ~ Says(text, {"why"}) /\ ~ Says(text, {"count", "showreserve"}) /\ ~ Says(text, {"belowreserve"})
  OBVIOUS
<1>11. ~ Says(text, {"arrived"}) /\ ~ Says(text, {"delivery"}) /\ ~ Says(text, {"critical"})
  OBVIOUS
<1>12. ~ Says(text, {"stock", "riskzone"}) /\ ~ Says(text, {"quality"}) /\ ~ Says(text, {"upload"})
  OBVIOUS
<1>13. ~ Says(text, {"sku"}) /\ ~ Says(text, {"client"}) /\ ~ Says(text, {"reserve"})
  OBVIOUS
<1>14. ~ IsBroad(text)
  BY <1>5, <1>6 DEF IsBroad
<1>15. ~ Says(text, {"chat", "goods", "critical"})
  OBVIOUS
<1> HIDE DEF SaysNothing, Says, Groups
<1> DEFINE rules == Rules(text)
<1>16. /\ DOMAIN rules = 1 .. 27 /\ rules[27].when = TRUE
       /\ rules[27].then = "unsupported_or_ambiguous"
  BY DEF Rules
<1>17. \A i \in 1 .. 26 : ~ rules[i].when
  <2>1. ~ rules[1].when /\ ~ rules[2].when /\ ~ rules[3].when /\ ~ rules[4].when /\ ~ rules[5].when
        /\ ~ rules[6].when /\ ~ rules[7].when
    BY <1>1, <1>2, <1>3, <1>4, <1>5 DEF Rules
  <2>2. ~ rules[8].when /\ ~ rules[9].when /\ ~ rules[10].when /\ ~ rules[11].when /\ ~ rules[12].when
        /\ ~ rules[13].when /\ ~ rules[14].when
    BY <1>6, <1>7, <1>8, <1>9, <1>10 DEF Rules
  <2>3. ~ rules[15].when /\ ~ rules[16].when /\ ~ rules[17].when /\ ~ rules[18].when /\ ~ rules[19].when
        /\ ~ rules[20].when
    BY <1>10, <1>11, <1>12 DEF Rules
  <2>4. ~ rules[21].when /\ ~ rules[22].when /\ ~ rules[23].when /\ ~ rules[24].when /\ ~ rules[25].when
        /\ ~ rules[26].when
    BY <1>12, <1>13, <1>14, <1>15 DEF Rules
  <2> HIDE DEF rules
  <2> QED
    BY <2>1, <2>2, <2>3, <2>4
<1> HIDE DEF rules
<1> DEFINE first == CHOOSE i \in DOMAIN rules : rules[i].when /\ \A j \in 1 .. i - 1 : ~ rules[j].when
<1>18. \E i \in DOMAIN rules : rules[i].when /\ \A j \in 1 .. i - 1 : ~ rules[j].when
  BY <1>16, <1>17
<1>19. first \in DOMAIN rules /\ rules[first].when
  BY <1>18
<1> HIDE DEF first
<1>20. first = 27
  BY <1>16, <1>17, <1>19
<1> QED
  BY <1>16, <1>20 DEF DetectIntent, rules, first

LEMMA NothingIsFollowed ==
  ASSUME NEW text, SaysNothing(text), NEW s, NEW params, s.pending # {}, s.missing # {}
  PROVE  ResolveFollowUp(text, s, params) = params ++ Field("_pending_intent", s.pending) ++ ForcedBy(s)
<1>1. \A p : FollowWhy(p, s, text) = p /\ FollowAnother(p, s, text) = p
  BY NothingIsAsked DEF FollowWhy, FollowAnother
<1>2. \A p : /\ FollowMetric(p, s, text, "pieces", "sales_qty") = p
             /\ FollowMetric(p, s, text, "revenue", "revenue") = p
  BY NothingIsAsked DEF FollowMetric
<1>3. \A p : FollowCategories(p, s, text) = p /\ FollowSkus(p, s, text) = p /\ FollowTop(p, s, text) = p
  BY NothingIsAsked DEF FollowCategories, FollowSkus, FollowTop
<1>4. \A p : FollowFall(p, s, text) = p /\ FollowProblems(p, s, text) = p /\ FollowPrevious(p, s, text) = p
  BY NothingIsAsked DEF FollowFall, FollowProblems, FollowPrevious
<1> QED
  BY <1>1, <1>2, <1>3, <1>4 DEF ResolveFollowUp

LEMMA PendingIsFollowed ==
  ASSUME NEW text, SaysNothing(text), NEW planned \in Chat, NEW i, NEW s, NEW params,
         params = NoParams ++ Field("_pending_intent", {i}) ++ ForcedBy(s)
  PROVE  FollowedIntent(planned, params, text) = i
<1>1. DOMAIN ForcedBy(s) \subseteq {"_force_tool"}
  BY DEF ForcedBy, NoParams, Field
<1>2. Get(params, "_pending_intent") = {i} /\ Get(params, "_followup_intent") = {}
  BY <1>1 DEF Get, NoParams, ++, Field
<1> QED
  BY <1>2 DEF FollowedIntent

LEMMA NothingIsBroad ==
  ASSUME NEW text, SaysNothing(text), NEW s
  PROVE  BusinessClarification(text, s) = {}
BY NothingIsAsked DEF BusinessClarification

\* Somebody who is asked for a client and names one is answered about the question that
\* was put aside, and is not asked for the client again.
LEMMA ReadResumes ==
  ASSUME NEW q, q \subseteq Clients, q # {}, NEW pin,
         IsState(Derive(Recent)), Derive(Recent).missing # {}
  PROVE  LET r == Read(q, Silence, pin)
         IN  r.business = {} /\ r.intent \in r.state.pending /\ "client_id" \notin r.missing
<1> DEFINE text     == <<q>>
           messages == Recent
           state    == Derive(messages)
           intent   == DetectIntent(text)
           plan     == PlanRoute(q, intent, Silence)
           resolved == ResolveFollowUp(text, state, plan.params)
           followed == FollowedIntent(plan.intent, resolved, text)
           settled  == HistoryFallback(text, intent, followed, plan.text, messages)
           route    == RouteQuestion(settled.text, settled.intent)
           params   == ParamsFromRoute(settled.text, route, pin, plan.params, resolved)
           tools    == ExecutionPlan(route.intent, plan.tools, settled.text, params)
           r        == Read(q, Silence, pin)
<1>1. /\ r.state = state /\ r.intent = route.intent /\ r.business = BusinessClarification(text, state)
      /\ r.missing = plan.missing \cup IF tools = <<>> THEN {} ELSE MissingParams(tools[1], params)
  BY DEF Read, Prepared
<1> HIDE DEF r
<1>2. SaysNothing(text) /\ Words(text) = q
  BY ClientsSayNothing
<1>3. intent = "unsupported_or_ambiguous"
  BY <1>2, NoRuleMatches
<1>4. /\ plan.intent = intent /\ plan.text = text /\ plan.tools = <<>> /\ plan.params = NoParams
      /\ plan.missing = {}
  BY PlanRouteOfSilence DEF PlanRoute, Silence
<1>5. PICK i : state.pending = {i}
  BY DEF IsState
<1>6. state.missing # {}
  OBVIOUS
<1> HIDE DEF state, messages, intent, plan
<1>7. resolved = NoParams ++ Field("_pending_intent", {i}) ++ ForcedBy(state)
  BY <1>2, <1>4, <1>5, <1>6, NothingIsFollowed
<1> HIDE DEF resolved
<1>8. followed = i
  <2>1. plan.intent \in Chat
    BY <1>3, <1>4 DEF Chat
  <2> HIDE DEF text
  <2>2. FollowedIntent(plan.intent, resolved, text) = i
    BY <1>2, <1>7, <2>1, PendingIsFollowed
  <2> QED
    BY <2>2
<1> HIDE DEF followed
<1>9. settled.intent = i /\ settled.text = text
  <2>1. ~ IsContextual(text) /\ ~ IsRepair(text)
    BY <1>2, NothingIsAsked
  <2> HIDE DEF text
  <2> QED
    BY <1>3, <1>4, <1>8, <2>1 DEF HistoryFallback, Chat
<1> HIDE DEF settled
<1>10. route.intent = i /\ (i \notin Chat => route.client = FirstClient(text))
  BY <1>9, RouteIsOf
<1> HIDE DEF route
<1>11. FirstClient(text) # {}
  BY <1>2 DEF FirstClient, Clients
<1>12. route.client # {} => Names(params, route.client)
  BY ParamsName
<1> HIDE DEF params
<1>13. i \in Chat => tools = <<>>
  BY <1>10 DEF ExecutionPlan
<1>14. "client_id" \notin MissingParams(tools[1], params) \/ tools = <<>>
  <2> HIDE DEF tools
  <2>1. CASE i \in Chat
    BY <1>13, <2>1
  <2>2. CASE i \notin Chat
    <3>1. Get(params, "client_id") # {}
      BY <1>10, <1>11, <1>12, <2>2 DEF Names, Get
    <3> QED
      BY <3>1 DEF MissingParams
  <2> QED
    BY <2>1, <2>2
<1>15. r.business = {}
  BY <1>1, <1>2, NothingIsBroad
<1> HIDE DEF tools
<1>16. r.business = {} /\ r.intent \in r.state.pending /\ "client_id" \notin r.missing
  BY <1>1, <1>4, <1>5, <1>10, <1>14, <1>15
<1> QED
  BY <1>16 DEF r

(* ---------------------- a follow-up keeps the client ---------------------- *)
\* Parameters that name no client but this one, and no follow-up but one that tells of it.
Keeps(p, client) ==
  /\ "client_id" \in DOMAIN p => p["client_id"] = client
  /\ "_followup_intent" \in DOMAIN p => \E i \in ClientIntents : p["_followup_intent"] = {i}
\* They name both.
Follows(p, client) == Keeps(p, client) /\ {"client_id", "_followup_intent"} \subseteq DOMAIN p
\* From p, parameters q that do so too.
Stays(p, q, client) == Keeps(q, client) /\ (Follows(p, client) => Follows(q, client))
\* What the state has of an answer about the client.
TellsOf(s, client) ==
  /\ \E i \in ClientIntents : s.last = {i}
  /\ Keeps(s.filters, client) /\ "client_id" \in DOMAIN s.filters
  /\ Keeps(s.entities, client)

LEMMA StaysTogether ==
  ASSUME NEW p, NEW q, NEW client, Keeps(p, client), Keeps(q, client)
  PROVE  Stays(p, p, client) /\ Stays(p, p ++ q, client) /\ Stays(p, q ++ p, client)
BY DEF Keeps, Follows, Stays, ++

LEMMA StaysFar ==
  ASSUME NEW p, NEW q, NEW r, NEW client, Stays(p, q, client), Stays(q, r, client)
  PROVE  Stays(p, r, client)
BY DEF Stays

LEMMA KeepsOther ==
  ASSUME NEW f, f \notin {"client_id", "_followup_intent"}, NEW value, NEW client
  PROVE  Keeps(Field(f, value), client) /\ Keeps(Only(f, value), client)
BY DEF Keeps, Field, Only, NoParams

LEMMA KeepsFollowUp ==
  ASSUME NEW i \in ClientIntents, NEW client
  PROVE  /\ Keeps(Field("_followup_intent", {i}), client)
         /\ Keeps(Only("_followup_intent", {i}), client)
         /\ "_followup_intent" \in DOMAIN Field("_followup_intent", {i})
         /\ "_followup_intent" \in DOMAIN Only("_followup_intent", {i})
BY DEF Keeps, Field, Only, NoParams

LEMMA StaysAsked ==
  ASSUME NEW p, NEW client, Keeps(p, client), NEW i \in ClientIntents
  PROVE  /\ Stays(p, AskFor(p, {i}), client)
         /\ "client_id" \in DOMAIN p => Follows(AskFor(p, {i}), client)
<1>1. /\ Keeps(Only("_followup_intent", {i}), client)
      /\ "_followup_intent" \in DOMAIN Only("_followup_intent", {i})
  BY KeepsFollowUp
<1>2. Stays(p, p ++ Only("_followup_intent", {i}), client)
  BY <1>1, StaysTogether
<1> QED
  BY <1>1, <1>2 DEF AskFor, Stays, Follows, ++

\* With the last cut behind them, parameters name the client.
LEMMA CutNames ==
  ASSUME NEW p, NEW client, Keeps(p, client), NEW s, TellsOf(s, client)
  PROVE  /\ Stays(p, p ++ s.filters, client) /\ Stays(p, p ++ s.entities, client)
         /\ "client_id" \in DOMAIN (p ++ s.filters)
BY StaysTogether DEF TellsOf, ++

LEMMA CategoriesStay ==
  ASSUME NEW p, NEW client, Keeps(p, client), NEW s, TellsOf(s, client), NEW text
  PROVE  /\ Stays(p, FollowCategories(p, s, text), client)
         /\ Says(text, {"bycategory"}) => Follows(FollowCategories(p, s, text), client)
<1> DEFINE r == Field("dimensions", {"category"}) ++ p
           q == r ++ s.filters
           asked == Field("_followup_intent", {"analytics_slice"})
<1>1. Stays(p, r, client) /\ Keeps(r, client)
  BY KeepsOther, StaysTogether DEF Stays
<1> HIDE DEF r
<1>2. Stays(r, q, client) /\ "client_id" \in DOMAIN q /\ Keeps(q, client)
  BY <1>1, CutNames DEF Stays
<1> HIDE DEF q
<1>3. Stays(p, q, client)
  BY <1>1, <1>2, StaysFar
<1>4. Keeps(asked, client) /\ "_followup_intent" \in DOMAIN asked
  BY KeepsFollowUp DEF ClientIntents
<1>5. Stays(q, asked ++ q, client) /\ Follows(asked ++ q, client)
  <2> HIDE DEF asked
  <2>1. Stays(q, asked ++ q, client)
    BY <1>2, <1>4, StaysTogether
  <2> QED
    BY <1>2, <1>4, <2>1 DEF Stays, Follows, ++
<1>6. PICK i \in ClientIntents : s.last = {i}
  BY DEF TellsOf
<1>7. Stays(q, AskFor(q, s.last), client) /\ Follows(AskFor(q, s.last), client)
  BY <1>2, <1>6, StaysAsked
<1>8. Stays(p, asked ++ q, client) /\ Stays(p, AskFor(q, s.last), client) /\ Stays(p, p, client)
  BY <1>3, <1>5, <1>7, StaysFar, StaysTogether
<1>9. FollowCategories(p, s, text) =
        IF ~ Says(text, {"bycategory"}) THEN p
        ELSE IF s.last \cap {"sales_summary", "analytics_slice", "reserve_calculation"} # {}
             THEN asked ++ q ELSE AskFor(q, s.last)
  BY DEF FollowCategories, q, r
<1> HIDE DEF asked
<1> QED
  BY <1>5, <1>7, <1>8, <1>9

LEMMA WhyStays ==
  ASSUME NEW p, NEW client, Keeps(p, client), NEW s, TellsOf(s, client), NEW text
  PROVE  Stays(p, FollowWhy(p, s, text), client)
<1> DEFINE q == p ++ s.entities
           why == IF s.last \cap {"reserve_calculation", "reserve_explanation"} # {}
                  THEN {"reserve_explanation"} ELSE s.last
<1>1. Stays(p, q, client) /\ Keeps(q, client) /\ Stays(p, p, client)
  BY CutNames, StaysTogether DEF Stays
<1> HIDE DEF q
<1>2. PICK i \in ClientIntents : why = {i}
  BY DEF TellsOf, ClientIntents
<1> HIDE DEF why
<1>3. Stays(q, AskFor(q, why), client)
  BY <1>1, <1>2, StaysAsked
<1>4. Stays(p, AskFor(q, why), client)
  BY <1>1, <1>3, StaysFar
<1> QED
  BY <1>1, <1>4 DEF FollowWhy, q, why

LEMMA AnotherStays ==
  ASSUME NEW p, NEW client, Keeps(p, client), NEW s, TellsOf(s, client), NEW text
  PROVE  /\ Stays(p, FollowAnother(p, s, text), client)
         /\ Says(text, {"another"}) => Follows(FollowAnother(p, s, text), client)
<1> DEFINE q == p ++ s.filters
<1>1. Stays(p, q, client) /\ Keeps(q, client) /\ "client_id" \in DOMAIN q /\ Stays(p, p, client)
  BY CutNames, StaysTogether DEF Stays
<1> HIDE DEF q
<1>2. PICK i \in ClientIntents : s.last = {i}
  BY DEF TellsOf
<1>3. Stays(q, AskFor(q, s.last), client) /\ Follows(AskFor(q, s.last), client)
  BY <1>1, <1>2, StaysAsked
<1>4. Stays(p, AskFor(q, s.last), client)
  BY <1>1, <1>3, StaysFar
<1> QED
  BY <1>1, <1>3, <1>4 DEF FollowAnother, q

LEMMA MetricStays ==
  ASSUME NEW p, NEW client, Keeps(p, client), NEW s, TellsOf(s, client), NEW text, NEW group, NEW metric
  PROVE  /\ Stays(p, FollowMetric(p, s, text, group, metric), client)
         /\ Says(text, {group}) => Follows(FollowMetric(p, s, text, group, metric), client)
<1> DEFINE new == Field("metric", {metric}) ++ Field("metrics", {metric})
           r == new ++ p
           q == r ++ s.filters
           asked == IF s.last \cap {"sales_summary", "analytics_slice"} # {} THEN s.last
                    ELSE {"analytics_slice"}
<1>1. Keeps(new, client)
  BY KeepsOther, StaysTogether DEF Stays
<1> HIDE DEF new
<1>2. Stays(p, r, client) /\ Keeps(r, client) /\ Stays(p, p, client)
  BY <1>1, StaysTogether DEF Stays
<1> HIDE DEF r
<1>3. Stays(r, q, client) /\ "client_id" \in DOMAIN q /\ Keeps(q, client)
  BY <1>2, CutNames DEF Stays
<1> HIDE DEF q
<1>4. PICK i \in ClientIntents : asked = {i}
  BY DEF TellsOf, ClientIntents
<1> HIDE DEF asked
<1>5. Stays(q, AskFor(q, asked), client) /\ Follows(AskFor(q, asked), client)
  BY <1>3, <1>4, StaysAsked
<1>6. Stays(p, AskFor(q, asked), client)
  BY <1>2, <1>3, <1>5, StaysFar
<1>7. FollowMetric(p, s, text, group, metric)
        = IF ~ Says(text, {group}) THEN p ELSE AskFor(q, asked)
  BY DEF FollowMetric, q, r, new, asked
<1> QED
  BY <1>2, <1>5, <1>6, <1>7

\* What other words ask of the last answer adds no client and no other follow-up.
LEMMA SkusStay ==
  ASSUME NEW p, NEW client, Keeps(p, client), NEW s, TellsOf(s, client), NEW text
  PROVE  Stays(p, FollowSkus(p, s, text), client)
<1> DEFINE r == Field("dimensions", {"sku", "article"}) ++ p
           q == r ++ s.filters
<1>1. Stays(p, r, client) /\ Keeps(r, client) /\ Stays(p, p, client)
  BY KeepsOther, StaysTogether DEF Stays
<1> HIDE DEF r
<1>2. Stays(r, q, client) /\ Keeps(q, client)
  BY <1>1, CutNames DEF Stays
<1> HIDE DEF q
<1>3. Stays(q, AskFor(q, {"analytics_slice"}), client)
  BY <1>2, StaysAsked DEF ClientIntents
<1>4. Stays(p, AskFor(q, {"analytics_slice"}), client)
  BY <1>1, <1>2, <1>3, StaysFar
<1> QED
  BY <1>1, <1>4 DEF FollowSkus, q, r

LEMMA TopStays ==
  ASSUME NEW p, NEW client, Keeps(p, client), NEW s, TellsOf(s, client), NEW text
  PROVE  Stays(p, FollowTop(p, s, text), client)
<1> DEFINE r == Field("limit", {"n"}) ++ p
           t == r ++ s.filters
           q == t ++ Field("sort_direction", {"desc"})
<1>1. Stays(p, r, client) /\ Keeps(r, client) /\ Stays(p, p, client)
  BY KeepsOther, StaysTogether DEF Stays
<1> HIDE DEF r
<1>2. Stays(r, t, client) /\ Keeps(t, client)
  BY <1>1, CutNames DEF Stays
<1> HIDE DEF t
<1>3. Stays(t, q, client) /\ Keeps(q, client)
  BY <1>2, KeepsOther, StaysTogether DEF Stays
<1> HIDE DEF q
<1>4. PICK i \in ClientIntents : LastOrSlice(s) = {i}
  BY DEF TellsOf, LastOrSlice
<1>5. Stays(q, AskFor(q, LastOrSlice(s)), client)
  BY <1>3, <1>4, StaysAsked
<1>6. Stays(p, AskFor(q, LastOrSlice(s)), client)
  BY <1>1, <1>2, <1>3, <1>5, StaysFar
<1> QED
  BY <1>1, <1>6 DEF FollowTop, q, t, r

LEMMA FallStays ==
  ASSUME NEW p, NEW client, Keeps(p, client), NEW s, TellsOf(s, client), NEW text
  PROVE  Stays(p, FollowFall(p, s, text), client)
<1> DEFINE r == Field("sort_direction", {"asc"}) ++ p
           t == r ++ s.filters
           q == t ++ Only("sort_by", One(s.metrics))
<1>1. Stays(p, r, client) /\ Keeps(r, client) /\ Stays(p, p, client)
  BY KeepsOther, StaysTogether DEF Stays
<1> HIDE DEF r
<1>2. Stays(r, t, client) /\ Keeps(t, client)
  BY <1>1, CutNames DEF Stays
<1> HIDE DEF t
<1>3. Stays(t, q, client) /\ Keeps(q, client)
  BY <1>2, KeepsOther, StaysTogether DEF Stays
<1> HIDE DEF q
<1>4. PICK i \in ClientIntents : LastOrSlice(s) = {i}
  BY DEF TellsOf, LastOrSlice
<1>5. Stays(q, AskFor(q, LastOrSlice(s)), client)
  BY <1>3, <1>4, StaysAsked
<1>6. Stays(p, AskFor(q, LastOrSlice(s)), client)
  BY <1>1, <1>2, <1>3, <1>5, StaysFar
<1> QED
  BY <1>1, <1>6 DEF FollowFall, q, t, r

LEMMA ProblemsStay ==
  ASSUME NEW p, NEW client, Keeps(p, client), NEW s, TellsOf(s, client), NEW text
  PROVE  Stays(p, FollowProblems(p, s, text), client)
<1> DEFINE r == p ++ s.entities
           q == r ++ s.filters
           of == Field("filters", {"problematic"}) ++ q
           status == q ++ Field("status", {"problematic"})
           risk == status ++ Field("risk", {"at_risk"})
           asked == IF s.last = {"analytics_slice"} THEN of ELSE risk
<1>1. Stays(p, r, client) /\ Keeps(r, client) /\ Stays(p, p, client)
  BY CutNames, StaysTogether DEF Stays
<1> HIDE DEF r
<1>2. Stays(r, q, client) /\ Keeps(q, client)
  BY <1>1, CutNames DEF Stays
<1> HIDE DEF q
<1>3. Stays(q, of, client) /\ Stays(q, status, client) /\ Keeps(status, client)
  BY <1>2, KeepsOther, StaysTogether DEF Stays
<1> HIDE DEF of, status
<1>4. Stays(status, risk, client)
  BY <1>3, KeepsOther, StaysTogether
<1> HIDE DEF risk
<1>5. Stays(p, asked, client) /\ Keeps(asked, client)
  <2>1. Stays(p, q, client) /\ Stays(q, risk, client)
    BY <1>1, <1>2, <1>3, <1>4, StaysFar
  <2>2. Stays(p, of, client) /\ Stays(p, risk, client)
    BY <1>3, <2>1, StaysFar
  <2> QED
    BY <2>2 DEF Stays
<1> HIDE DEF asked
<1>6. PICK i \in ClientIntents : s.last = {i}
  BY DEF TellsOf
<1>7. Stays(asked, AskFor(asked, s.last), client)
  BY <1>5, <1>6, StaysAsked
<1>8. Stays(p, AskFor(asked, s.last), client)
  BY <1>5, <1>7, StaysFar
<1>9. FollowProblems(p, s, text) \in {p, AskFor(asked, s.last)}
  BY DEF FollowProblems, asked, risk, status, of, q, r
<1> QED
  BY <1>1, <1>8, <1>9

LEMMA PreviousStays ==
  ASSUME NEW p, NEW client, Keeps(p, client), NEW s, TellsOf(s, client), NEW text
  PROVE  Stays(p, FollowPrevious(p, s, text), client)
<1> DEFINE metric == IF Get(s.compared, "metric") # {} THEN Get(s.compared, "metric")
                     ELSE IF s.metrics # {} THEN One(s.metrics)
                     ELSE IF s.last = {"sales_summary"} THEN {"revenue"} ELSE {}
           dates == IF Get(s.filters, "dates") # {} THEN Get(s.filters, "dates")
                    ELSE Get(s.compared, "dates")
           r == p ++ Only("metric", AsQuantity(metric))
           t == r ++ Only("current_period", dates)
           q == t ++ Only("previous_period", PeriodBefore(dates))
<1>1. FollowPrevious(p, s, text) \in {p, q, AskFor(q, {"period_comparison"})}
  BY DEF FollowPrevious
<1> HIDE DEF metric, dates
<1>2. Stays(p, r, client) /\ Keeps(r, client) /\ Stays(p, p, client)
  BY KeepsOther, StaysTogether DEF Stays
<1> HIDE DEF r
<1>3. Stays(r, t, client) /\ Keeps(t, client)
  BY <1>2, KeepsOther, StaysTogether DEF Stays
<1> HIDE DEF t
<1>4. Stays(t, q, client) /\ Keeps(q, client)
  BY <1>3, KeepsOther, StaysTogether DEF Stays
<1> HIDE DEF q
<1>5. Stays(q, AskFor(q, {"period_comparison"}), client)
  BY <1>4, StaysAsked DEF ClientIntents
<1>6. Stays(p, q, client) /\ Stays(p, AskFor(q, {"period_comparison"}), client)
  BY <1>2, <1>3, <1>4, <1>5, StaysFar
<1> QED
  BY <1>1, <1>2, <1>6

\* A follow-up that asks for another cut of an answer about a client names the client and
\* an intent that tells of it.
CutWords == {"pieces", "bycategory", "another"}
LEMMA FollowUpNames ==
  ASSUME NEW text, Says(text, CutWords), NEW s, NEW client, TellsOf(s, client), s.pending = {}
  PROVE  Follows(ResolveFollowUp(text, s, NoParams), client)
<1> DEFINE why == FollowWhy(NoParams, s, text)
           another == FollowAnother(why, s, text)
           pieces == FollowMetric(another, s, text, "pieces", "sales_qty")
           revenue == FollowMetric(pieces, s, text, "revenue", "revenue")
           categories == FollowCategories(revenue, s, text)
           skus == FollowSkus(categories, s, text)
           top == FollowTop(skus, s, text)
           fall == FollowFall(top, s, text)
           problems == FollowProblems(fall, s, text)
           previous == FollowPrevious(problems, s, text)
<1>1. ResolveFollowUp(text, s, NoParams) = previous
  <2>1. HasContext(s)
    BY DEF HasContext, TellsOf
  <2> QED
    BY <2>1 DEF ResolveFollowUp
<1>2. Keeps(NoParams, client)
  BY DEF Keeps, NoParams
<1>3. Keeps(why, client)
  BY <1>2, WhyStays DEF Stays
<1> HIDE DEF why
<1>4. Keeps(another, client) /\ (Says(text, {"another"}) => Follows(another, client))
  BY <1>3, AnotherStays DEF Stays
<1> HIDE DEF another
<1>5. Keeps(pieces, client) /\ (Says(text, {"pieces", "another"}) => Follows(pieces, client))
  <2>1. Stays(another, pieces, client) /\ (Says(text, {"pieces"}) => Follows(pieces, client))
    BY <1>4, MetricStays
  <2> QED
    BY <1>4, <2>1 DEF Stays, Says
<1> HIDE DEF pieces
<1>6. Stays(pieces, revenue, client) /\ Keeps(revenue, client)
  BY <1>5, MetricStays DEF Stays
<1> HIDE DEF revenue
<1>7. Follows(categories, client)
  <2>1. Stays(revenue, categories, client) /\ (Says(text, {"bycategory"}) => Follows(categories, client))
    BY <1>6, CategoriesStay
  <2>2. Says(text, {"pieces", "another"}) \/ Says(text, {"bycategory"})
    BY DEF Says, CutWords
  <2> HIDE DEF categories
  <2> QED
    BY <1>5, <1>6, <2>1, <2>2 DEF Stays
<1> HIDE DEF categories
<1>8. Follows(skus, client)
  BY <1>7, SkusStay DEF Stays, Follows
<1> HIDE DEF skus
<1>9. Follows(top, client)
  BY <1>8, TopStays DEF Stays, Follows
<1> HIDE DEF top
<1>10. Follows(fall, client)
  BY <1>9, FallStays DEF Stays, Follows
<1> HIDE DEF fall
<1>11. Follows(problems, client)
  BY <1>10, ProblemsStay DEF Stays, Follows
<1> HIDE DEF problems
<1>12. Follows(previous, client)
  BY <1>11, PreviousStays DEF Stays, Follows
<1> QED
  BY <1>1, <1>12

LEMMA FirstOfSome ==
  ASSUME NEW n \in Nat, NEW S \in SUBSET (1 .. n), S # {}
  PROVE  \E i \in S : \A j \in S : i <= j
<1> DEFINE T == {n + 1 - i : i \in S}
<1>1. T \in SUBSET (1 .. n) /\ T # {}
  <2>1. \A i \in S : i \in 1 .. n
    OBVIOUS
  <2>2. \A i \in 1 .. n : n + 1 - i \in 1 .. n
    OBVIOUS
  <2>3. \A i \in S : n + 1 - i \in T
    OBVIOUS
  <2>4. \A k \in T : k \in 1 .. n
    BY <2>1, <2>2
  <2> HIDE DEF T
  <2> QED
    BY <2>3, <2>4
<1> HIDE DEF T
<1>2. PICK k \in T : \A j \in T : j <= k
  BY <1>1, LastOfSome
<1>3. PICK i \in S : k = n + 1 - i
  BY <1>2 DEF T
<1>4. \A j \in S : n + 1 - j \in T
  BY DEF T
<1>5. \A j \in S : n + 1 - j <= n + 1 - i
  BY <1>2, <1>3, <1>4
<1> QED
  BY <1>5

\* The client a text names is one that it says.
LEMMA FirstClientIsSaid ==
  ASSUME NEW text, NEW clients, Words(text) \cap Clients \subseteq clients, AtMostOne(clients)
  PROVE  FirstClient(text) \in {{}, clients}
<1> DEFINE named == {i \in DOMAIN ClientOrder : ClientOrder[i] \in Words(text)}
           first == CHOOSE i \in named : \A j \in named : i <= j
<1>1. CASE named = {}
  BY <1>1 DEF FirstClient
<1>2. CASE named # {}
  <2>1. named \in SUBSET (1 .. Len(ClientOrder)) /\ Len(ClientOrder) \in Nat
    BY CodesAssumption
  <2>2. \E i \in named : \A j \in named : i <= j
    <3> HIDE DEF named
    <3> QED
      BY <1>2, <2>1, FirstOfSome
  <2>3. first \in named
    <3> HIDE DEF named
    <3> QED
      BY <2>2
  <2>4. FirstClient(text) = {ClientOrder[first]}
    BY <1>2 DEF FirstClient
  <2> HIDE DEF first
  <2>5. ClientOrder[first] \in Words(text) \cap Clients
    BY <2>3 DEF Clients
  <2>6. clients = {ClientOrder[first]}
    BY <2>5 DEF AtMostOne
  <2> QED
    BY <2>4, <2>6
<1> QED
  BY <1>1, <1>2

\* The clients that a question and what is read of the dialogue say.
ClientsIn(q, messages) == (UNION (WordsIn(messages) \cup {q})) \cap Clients

\* An answer that is followed up tells of the client that its filters name.
LEMMA FreshTellsOf ==
  ASSUME NEW messages, AreSound(messages), IsFresh(messages), NEW client, client # {},
         Get(Derive(messages).filters, "client_id") = client
  PROVE  /\ TellsOf(Derive(messages), client) /\ Derive(messages).pending = {}
         /\ AtMostOne(client)
         /\ messages[Len(messages)].intent \in ClientIntents
<1> DEFINE s == Derive(messages)
           m == messages[Len(messages)]
<1>1. \A i \in DOMAIN messages : CallsAreSound(messages[i])
  BY DEF AreSound, IsSound
<1>2. IsState(s)
  BY <1>1, DeriveIsState DEF AreSound
<1>3. /\ s.last = {m.intent} /\ s.pending = {} /\ s.filters = CombinedArgs(m.calls)
      /\ \E known : s.entities = EntitiesOf(s.filters) ++ known
  BY FreshStateIs
<1>4. IsSound(m)
  <2>1. Len(messages) \in DOMAIN messages
    BY DEF AreSound, IsFresh
  <2> QED
    BY <2>1 DEF AreSound
<1>5. Get(s.filters, "client_id") = client
  OBVIOUS
<1> HIDE DEF s, m
<1>6. Names(s.filters, client)
  BY <1>5 DEF Get, Names
<1>7. m.intent \in ClientIntents
  <2> DEFINE naming == {i \in DOMAIN m.calls : "client_id" \in DOMAIN m.calls[i].args}
  <2>1. PICK S : m.calls \in Seq(S)
    BY <1>4 DEF IsSound, CallsAreSound
  <2>2. /\ "client_id" \in DOMAIN CombinedArgs(m.calls)
        /\ CombinedArgs(m.calls)["client_id"] = client
    BY <1>3, <1>6 DEF Names
  <2>3. naming # {} /\ CombinedArgs(m.calls)["client_id"] = m.calls[Latest(naming)].args["client_id"]
    BY <2>2 DEF CombinedArgs
  <2>4. naming \in SUBSET (1 .. Len(m.calls)) /\ Len(m.calls) \in Nat
    BY <2>1
  <2>5. Latest(naming) \in naming
    <3> HIDE DEF naming
    <3> QED
      BY <2>3, <2>4, LatestIsOf
  <2>6. Latest(naming) \in DOMAIN m.calls /\ "client_id" \in DOMAIN m.calls[Latest(naming)].args
    BY <2>5
  <2>7. Get(m.calls[Latest(naming)].args, "client_id") = client
    BY <2>2, <2>3, <2>6 DEF Get
  <2> HIDE DEF naming
  <2> QED
    BY <1>4, <2>6, <2>7 DEF IsSound, TellsOfClient
<1>8. IsRecord(s.filters) /\ IsRecord(s.entities)
  BY <1>2 DEF IsState
<1>9. Names(s.entities, client)
  <2>1. Names(Restricted(s.filters, EntityFields), client)
    BY <1>6 DEF Names, Restricted, EntityFields
  <2>2. Names(EntitiesOf(s.filters), client)
    BY <2>1, NamesBehindOnly DEF EntitiesOf
  <2> QED
    BY <1>3, <2>2, NamesInFront
<1>10. Keeps(s.filters, client) /\ Keeps(s.entities, client) /\ "client_id" \in DOMAIN s.filters
  BY <1>6, <1>8, <1>9 DEF Keeps, Names, IsRecord
<1>11. AtMostOne(client)
  BY <1>5, <1>8 DEF IsRecord, Single, OneOfEach, Subjects
<1>12. TellsOf(s, client)
  BY <1>3, <1>7, <1>10 DEF TellsOf
<1> QED
  BY <1>3, <1>7, <1>11, <1>12 DEF s, m

LEMMA CutsAreContextual ==
  ASSUME NEW text, Says(text, CutWords)
  PROVE  IsContextual(text)
BY DEF IsContextual, Says, CutWords

LEMMA FollowedIntentIs ==
  ASSUME NEW planned, NEW params, NEW text, IsContextual(text), NEW i,
         Get(params, "_followup_intent") = {i}
  PROVE  FollowedIntent(planned, params, text) = i
BY DEF FollowedIntent

\* A follow-up is read as a question its state asks, or as the last answer.
LEMMA FallbackFollows ==
  ASSUME NEW text, NEW intent, NEW planned, NEW plannedText, NEW messages,
         AreSound(messages), IsFresh(messages), messages[Len(messages)].intent \in ClientIntents,
         planned \in ClientIntents
  PROVE  HistoryFallback(text, intent, planned, plannedText, messages).intent \in ClientIntents
<1> DEFINE kept   == IF intent \notin Chat /\ planned = "unsupported_or_ambiguous" THEN intent ELSE planned
           domain == {i \in DOMAIN messages : IsDomain(messages[i])}
           settled == HistoryFallback(text, intent, planned, plannedText, messages)
<1>1. settled.intent = kept \/ settled.intent = messages[Latest(domain)].intent
  BY DEF HistoryFallback
<1>2. kept = planned
  BY DEF ClientIntents
<1>3. DOMAIN messages = 1 .. Len(messages) /\ Len(messages) \in Nat
  BY DEF AreSound
<1>4. Len(messages) \in domain
  BY <1>3 DEF AreSound, IsFresh
<1>5. domain \in SUBSET (1 .. Len(messages))
  BY <1>3
<1>6. Latest(domain) = Len(messages)
  <2> HIDE DEF domain
  <2>1. Latest(domain) \in domain /\ \A j \in domain : j <= Latest(domain)
    BY <1>3, <1>4, <1>5, LatestIsOf
  <2>2. Latest(domain) \in 1 .. Len(messages) /\ Len(messages) <= Latest(domain)
    BY <1>4, <1>5, <2>1
  <2> QED
    BY <1>3, <2>2
<1> HIDE DEF kept, domain, settled
<1>7. settled.intent \in ClientIntents
  BY <1>1, <1>2, <1>6
<1> QED
  BY <1>7 DEF settled

\* A follow-up that asks for another cut of an answer about a client is planned for the
\* client, with a first tool that tells of it.
LEMMA ReadFollows ==
  ASSUME NEW q \in SUBSET STRING, q \cap CutWords # {}, NEW pin,
         AreSound(Recent), IsFresh(Recent),
         NEW client, client # {}, client = ClientsIn(q, Recent),
         Get(Derive(Recent).filters, "client_id") = client
  PROVE  LET r == Read(q, Silence, pin)
         IN  Names(r.params, client) /\ (r.tools # <<>> => Head(r.tools) \in ClientTools)
<1> DEFINE text     == <<q>>
           messages == Recent
           state    == Derive(messages)
           intent   == DetectIntent(text)
           plan     == PlanRoute(q, intent, Silence)
           resolved == ResolveFollowUp(text, state, plan.params)
           followed == FollowedIntent(plan.intent, resolved, text)
           settled  == HistoryFallback(text, intent, followed, plan.text, messages)
           route    == RouteQuestion(settled.text, settled.intent)
           params   == ParamsFromRoute(settled.text, route, pin, plan.params, resolved)
           tools    == ExecutionPlan(route.intent, plan.tools, settled.text, params)
           r        == Read(q, Silence, pin)
<1>1. r.params = params /\ r.tools = tools
  BY DEF Read, Prepared
<1> HIDE DEF r
<1>2. /\ plan.text = text /\ plan.tools = <<>> /\ plan.params = NoParams
  BY PlanRouteOfSilence
<1>3. text \in Texts /\ Words(text) = q
  BY DEF Texts, Words
<1>4. Says(text, CutWords)
  BY <1>3 DEF Says
<1>5. /\ TellsOf(state, client) /\ state.pending = {} /\ AtMostOne(client)
      /\ messages[Len(messages)].intent \in ClientIntents
  BY FreshTellsOf
<1>6. (q \cup UNION WordsIn(messages)) \cap Clients \subseteq client
  BY DEF ClientsIn
<1>7. AreSound(messages) /\ IsFresh(messages)
  OBVIOUS
<1> HIDE DEF text, messages, state, intent, plan
<1>8. Follows(resolved, client)
  BY <1>2, <1>4, <1>5, FollowUpNames
<1> HIDE DEF resolved
<1>9. Names(resolved, client) /\ \E i \in ClientIntents : Get(resolved, "_followup_intent") = {i}
  BY <1>8 DEF Follows, Keeps, Names, Get
<1>10. followed \in ClientIntents
  BY <1>4, <1>9, CutsAreContextual, FollowedIntentIs
<1> HIDE DEF followed
<1>11. settled.intent \in ClientIntents
  BY <1>5, <1>7, <1>10, FallbackFollows
<1>12. settled.text \in Texts /\ Words(settled.text) \subseteq q \cup UNION WordsIn(messages)
  BY <1>2, <1>3, <1>7, FallbackReads
<1> HIDE DEF settled
<1>13. FirstClient(settled.text) \in {{}, client}
  <2>1. Words(settled.text) \cap Clients \subseteq client
    BY <1>6, <1>12
  <2> QED
    BY <1>5, <2>1, FirstClientIsSaid
<1>14. route.intent = settled.intent /\ route.client \in {{}, client}
  BY <1>11, <1>13, RouteIsOf DEF ClientIntents, Chat
<1> HIDE DEF route
<1>15. Names(NoParams ++ resolved, client)
  BY <1>9, NamesBehind DEF NoParams
<1>16. Names(params, client)
  BY <1>2, <1>14, <1>15, ParamsName
<1> HIDE DEF params
<1>17. tools # <<>> => Head(tools) \in ClientTools
  <2>1. plan.tools \in Seq(STRING)
    BY <1>2
  <2>2. tools # <<>> => Head(tools) \in Primary(route.intent)
    BY <2>1, PlansAreSafe
  <2> HIDE DEF tools
  <2> QED
    BY <1>11, <1>14, <2>2, ClientPrimaries
<1> HIDE DEF tools
<1>18. Names(r.params, client) /\ (r.tools # <<>> => Head(r.tools) \in ClientTools)
  BY <1>1, <1>16, <1>17
<1> QED
  BY <1>18 DEF r

(* ------------------------ what is recorded is a record -------------------- *)
\* Arguments carry no question but that of the parameters, no follow-up and no force.
IsClean(args, params) ==
  /\ Get(args, "question") \subseteq Get(params, "question")
  /\ DOMAIN args \cap {"_followup_intent", "_force_tool"} = {}

LEMMA CleanMerge ==
  ASSUME NEW p, NEW q, NEW params, IsClean(p, params), IsClean(q, params)
  PROVE  IsClean(p ++ q, params)
BY DEF IsClean, Get, ++

LEMMA CleanOnly ==
  ASSUME NEW f, f \notin {"question", "_followup_intent", "_force_tool"}, NEW value, NEW params
  PROVE  IsClean(Only(f, value), params)
BY DEF IsClean, Get, Only, Field, NoParams

LEMMA ArgumentsAreClean ==
  ASSUME NEW tool, NEW params, NEW ctx
  PROVE  IsClean(Arguments(tool, params, ctx), params)
<1>1. IsClean(NamedIn(params, ctx), params)
  BY CleanOnly, CleanMerge DEF NamedIn
<1>2. IsClean(ClientOf(ctx), params) /\ IsClean(SkuOf(ctx), params)
  BY CleanOnly DEF ClientOf, SkuOf
<1>3. IsClean(CalculationArgs(ctx), params)
  BY <1>2, CleanOnly, CleanMerge DEF CalculationArgs
<1>4. IsClean(ReserveArgs(params, ctx), params)
  BY <1>2, CleanOnly, CleanMerge DEF ReserveArgs
<1>5. IsClean(ExplanationArgs(ctx), params)
  BY <1>2, CleanOnly, CleanMerge DEF ExplanationArgs
<1>6. IsClean(StockArgs(ctx), params) /\ IsClean(InboundArgs(ctx), params)
  BY <1>2, CleanOnly, CleanMerge DEF StockArgs, InboundArgs
<1>7. IsClean(SalesArgs(params, ctx), params)
  BY <1>1, CleanOnly, CleanMerge DEF SalesArgs
<1>8. IsClean(ComparisonArgs(params, ctx), params)
  <2>1. IsClean(Restricted(params, {"metric", "current_period", "previous_period"}), params)
    BY DEF IsClean, Get, Restricted
  <2> QED
    BY <1>1, <2>1, CleanMerge DEF ComparisonArgs
<1>9. IsClean(SliceArgs(params, ctx), params)
  <2> DEFINE shown == {g \in {"dimensions", "period", "dates", "filters", "sort_by", "sort_direction",
                              "limit"} : Get(params, g) # {}}
             cut == [f \in shown |-> params[f]]
             first == Only("metrics", MetricsIn(params))
             second == Only("category_id", Over(params, "category_id", ctx.category))
  <2>1. "question" \notin shown /\ "_followup_intent" \notin shown /\ "_force_tool" \notin shown
    OBVIOUS
  <2> HIDE DEF shown
  <2>2. IsClean(cut, params)
    BY <2>1 DEF IsClean, Get
  <2> HIDE DEF cut
  <2>3. IsClean(first, params) /\ IsClean(second, params)
    BY CleanOnly
  <2> HIDE DEF first, second
  <2>4. IsClean(first ++ second ++ NamedIn(params, ctx) ++ cut, params)
    BY <1>1, <2>2, <2>3, CleanMerge
  <2> QED
    BY <2>4 DEF SliceArgs, cut, first, second, shown
<1>10. IsClean(Only("question", Get(params, "question")), params) /\ IsClean(NoParams, params)
  BY DEF IsClean, Get, Only, Field, NoParams
<1> QED
  BY <1>2, <1>3, <1>4, <1>5, <1>6, <1>7, <1>8, <1>9, <1>10 DEF Arguments

LEMMA ArgumentsAreRecord ==
  ASSUME NEW tool, NEW params, OneOfEach(params), NEW ctx,
         \A field \in Subjects :
           /\ AtMostOne(Subject(ctx, field))
           /\ Within(Arguments(tool, params, ctx), field, Subject(ctx, field))
  PROVE  IsRecord(Arguments(tool, params, ctx))
<1> DEFINE args == Arguments(tool, params, ctx)
<1>1. IsClean(args, params)
  BY ArgumentsAreClean
<1> HIDE DEF args
<1>2. \A field \in Subjects : AtMostOne(Get(args, field))
  BY DEF Within, AtMostOne, args
<1> QED
  BY <1>1, <1>2 DEF IsClean, IsRecord, Single, OneOfEach, IsForced, Get, args

(* ------------------------ the turn is about one subject ------------------- *)
\* The context has the client and the SKU of the parameters, where they name one.
Carried(r) == \A field \in Subjects : Over(r.params, field, Subject(r.ctx, field)) = Subject(r.ctx, field)
\* From the tool at `first` on, none is of the intent: each runs without parameters.
SupportOnly(tools, first, intent) ==
  \A i \in DOMAIN tools : i >= first => Contract[tools[i]].intent # intent
RecordedIn(calls, ctx) ==
  \A i \in DOMAIN calls : \A field \in Subjects : Within(calls[i].args, field, Subject(ctx, field))

\* Only a question of an intent that tells of a client is answered with a tool that does.
OnlyTellsOf(tools, intent) ==
  \A i \in DOMAIN tools : tools[i] \in ClientTools => intent \in ClientIntents

IsAbout(r) ==
  /\ r.q \in SUBSET STRING
  /\ Single(r.params, Forcing(r.forced, r.state.asks))
  /\ \A field \in Subjects : AtMostOne(Subject(r.ctx, field))
  /\ r.done = <<>> /\ IgnoresContext(Head(r.tools)) => SupportOnly(r.tools, 2, r.intent)
  /\ RecordedIn(r.done, r.ctx) /\ Recorded(r.done)
  /\ OnlyTellsOf(r.tools, r.intent) /\ TellsOfClient(r.done, r.intent)
  /\ r.done # <<>> => Carried(r) \/ SupportOnly(r.tools, 1, r.intent)
IsResumed(r) ==
  r.silent /\ r.q \subseteq Clients /\ r.q # {} /\ r.state.missing = {"client_id"}
    => r.intent \in r.state.pending
\* The client that is followed up, in the parameters and in what the first tool records.
IsFollowUp(r, messages) ==
  /\ r.silent /\ IsFresh(messages) /\ r.q \cap CutWords # {} /\ ClientsIn(r.q, messages) # {}
  /\ Get(r.state.filters, "client_id") = ClientsIn(r.q, messages)
KeepsClient(r, messages) ==
  IsFollowUp(r, messages) =>
    /\ Names(r.params, ClientsIn(r.q, messages))
    /\ r.done = <<>> => Head(r.tools) \in ClientTools
    /\ r.done # <<>> => Get(r.done[1].args, "client_id") = ClientsIn(r.q, messages)
SoundDialogue == \A i \in DOMAIN history : IsSound(history[i])
SubjectsAreKept ==
  /\ turn # NoTurn => IsAbout(turn) /\ IsResumed(turn) /\ KeepsClient(turn, Recent)
  /\ SoundDialogue
  /\ AnswerIsOfOneSubject
  /\ ReplyResumesQuestion
  /\ FollowUpKeepsClient
  /\ CalculationsAreAskedFor

LEMMA OverTwice ==
  ASSUME NEW params, NEW field, NEW value
  PROVE  Over(params, field, Over(params, field, value)) = Over(params, field, value)
         /\ Over(NoParams, field, value) = value
BY DEF Over, Get, NoParams

LEMMA OverIsOne ==
  ASSUME NEW params, OneOfEach(params), NEW field \in Subjects, NEW value, AtMostOne(value)
  PROVE  AtMostOne(Over(params, field, value))
BY DEF Over, OneOfEach, Get

LEMMA HandledSubject ==
  ASSUME NEW tool, NEW params, NEW ctx, DOMAIN ctx = ContextFields, NEW field \in Subjects
  PROVE  Subject(Handled(tool, params, ctx), field)
           = IF IgnoresContext(tool) THEN Subject(ctx, field)
             ELSE Over(params, field, Subject(ctx, field))
BY DEF Handled, ApplyParams, ContextFields, Subject, Subjects

LEMMA IgnoredArguments ==
  ASSUME NEW tool, IgnoresContext(tool), NEW params, NEW ctx, NEW field \in Subjects, NEW values
  PROVE  Within(Arguments(tool, params, ctx), field, values)
<1>1. Within(Only("question", Get(params, "question")), field, values) /\ Within(NoParams, field, values)
  BY WithinOther DEF Within, Get, NoParams, Subjects
<1> QED
  BY <1>1 DEF IgnoresContext, Arguments

\* One tool, by what it gets and whether it looks at the context.
LEMMA DispatchedIsAbout ==
  ASSUME NEW r, TurnInv(r), IsAbout(r), r.tools # <<>>,
         NEW params, params = IF r.done = <<>> \/ Contract[Head(r.tools)].intent = r.intent
                              THEN r.params ELSE NoParams,
         NEW ctx, ctx = Handled(Head(r.tools), params, r.ctx),
         NEW outcome, NEW next, Dispatched(r, next, params, ctx, outcome)
  PROVE  IsAbout(next)
<1> DEFINE tool == Head(r.tools)
           args == Arguments(tool, params, ctx)
           call == [tool |-> tool, args |-> args]
<1>1. PICK S : r.done \in Seq(S)
  BY DEF TurnInv, ToolsAreSound
<1>2. /\ r.tools \in Seq(Tools) /\ tool = r.tools[1] /\ 1 \in DOMAIN r.tools
      /\ DOMAIN r.ctx = ContextFields
      /\ \A i \in DOMAIN Tail(r.tools) : /\ i \in Nat /\ i >= 1 /\ i + 1 \in DOMAIN r.tools
                                         /\ Tail(r.tools)[i] = r.tools[i + 1]
  BY DEF TurnInv, ToolsAreSound
<1>3. /\ next.params = r.params /\ next.intent = r.intent /\ next.tools = Tail(r.tools)
      /\ next.q = r.q /\ next.forced = r.forced /\ next.state = r.state
      /\ next.ctx = ctx /\ next.done = Append(r.done, call)
  BY DEF Dispatched
<1>4. /\ Single(r.params, Forcing(r.forced, r.state.asks)) /\ OneOfEach(params)
      /\ \A field \in Subjects : AtMostOne(Subject(r.ctx, field))
  BY SingleNothing DEF IsAbout, Single
<1>5. \A field \in Subjects :
        Subject(ctx, field) = IF IgnoresContext(tool) THEN Subject(r.ctx, field)
                              ELSE Over(params, field, Subject(r.ctx, field))
  BY <1>2, HandledSubject
<1>6. \A field \in Subjects : AtMostOne(Subject(ctx, field))
  BY <1>4, <1>5, OverIsOne
<1>7. /\ \A i \in DOMAIN next.done : \/ i \in DOMAIN r.done /\ next.done[i] = r.done[i]
                                     \/ next.done[i] = call
      /\ next.done # <<>>
  <2> HIDE DEF call
  <2> DEFINE done == Append(r.done, call)
  <2>1. r.done \in Seq(S \cup {call})
    BY <1>1
  <2>2. /\ \A i \in DOMAIN done : (i \in DOMAIN r.done /\ done[i] = r.done[i]) \/ done[i] = call
        /\ done # <<>>
    BY <2>1
  <2>3. next.done = done
    BY <1>3 DEF call
  <2> HIDE DEF done
  <2> QED
    BY <2>2, <2>3
<1>8. SupportOnly(r.tools, 1, r.intent) \/ SupportOnly(r.tools, 2, r.intent)
        => SupportOnly(next.tools, 1, next.intent)
  <2> SUFFICES ASSUME SupportOnly(r.tools, 2, r.intent), NEW i \in DOMAIN Tail(r.tools)
               PROVE  Contract[Tail(r.tools)[i]].intent # r.intent
    BY <1>2, <1>3 DEF SupportOnly
  <2>1. i + 1 \in DOMAIN r.tools /\ i + 1 >= 2 /\ Tail(r.tools)[i] = r.tools[i + 1]
    BY <1>2
  <2> QED
    BY <2>1 DEF SupportOnly
<1> HIDE DEF tool, args
<1>9. \A field \in Subjects : Within(args, field, Subject(ctx, field))
  <2> SUFFICES ASSUME NEW field \in Subjects PROVE Within(args, field, Subject(ctx, field))
    OBVIOUS
  <2>1. CASE IgnoresContext(tool)
    BY <2>1, IgnoredArguments DEF args
  <2>2. CASE ~ IgnoresContext(tool)
    <3>1. Over(params, field, Subject(ctx, field)) = Subject(ctx, field)
      BY <1>5, <2>2, OverTwice
    <3> QED
      BY <3>1, ArgumentsAreWithin DEF args
  <2> QED
    BY <2>1, <2>2
<1>10. /\ r.done # <<>> => \A field \in Subjects : Subject(ctx, field) = Subject(r.ctx, field)
       /\ Carried(next) \/ SupportOnly(next.tools, 1, next.intent)
  <2>1. CASE r.done = <<>> /\ IgnoresContext(tool)
    BY <1>8, <2>1 DEF IsAbout, tool
  <2>2. CASE r.done = <<>> /\ ~ IgnoresContext(tool)
    <3>1. params = r.params
      BY <2>2
    <3> QED
      BY <1>3, <1>5, <2>2, <3>1, OverTwice DEF Carried
  <2>3. CASE r.done # <<>> /\ Contract[tool].intent = r.intent
    <3>1. params = r.params
      BY <2>3 DEF tool
    <3>2. ~ SupportOnly(r.tools, 1, r.intent)
      BY <1>2, <2>3 DEF SupportOnly
    <3>3. Carried(r)
      BY <2>3, <3>2 DEF IsAbout
    <3>4. \A field \in Subjects : Subject(ctx, field) = Subject(r.ctx, field)
      BY <1>5, <3>1, <3>3 DEF Carried
    <3> QED
      BY <1>3, <3>3, <3>4 DEF Carried
  <2>4. CASE r.done # <<>> /\ Contract[tool].intent # r.intent
    <3>1. params = NoParams
      BY <2>4 DEF tool
    <3>2. \A field \in Subjects :
            Over(NoParams, field, Subject(r.ctx, field)) = Subject(r.ctx, field)
      BY OverTwice
    <3>3. \A field \in Subjects : Subject(ctx, field) = Subject(r.ctx, field)
      BY <1>5, <3>1, <3>2
    <3> QED
      BY <1>3, <1>8, <2>4, <3>3 DEF Carried, IsAbout
  <2> QED
    BY <2>1, <2>2, <2>3, <2>4
<1>11. RecordedIn(next.done, next.ctx)
  <2> SUFFICES ASSUME NEW i \in DOMAIN next.done, NEW field \in Subjects
               PROVE  Within(next.done[i].args, field, Subject(ctx, field))
    BY <1>3 DEF RecordedIn
  <2>1. CASE i \in DOMAIN r.done /\ next.done[i] = r.done[i]
    <3>1. r.done # <<>>
      BY <2>1
    <3> QED
      BY <1>10, <2>1, <3>1 DEF IsAbout, RecordedIn
  <2>2. CASE next.done[i] = call
    BY <1>9, <2>2
  <2> QED
    BY <1>7, <2>1, <2>2
<1>12. Recorded(next.done)
  <2>1. IsRecord(args)
    BY <1>4, <1>6, <1>9, ArgumentsAreRecord DEF args
  <2>2. ASSUME NEW i \in DOMAIN next.done PROVE IsRecord(next.done[i].args)
    BY <1>7, <2>1, <2>2 DEF IsAbout, Recorded
  <2> QED
    BY <2>2 DEF Recorded
<1>13. OnlyTellsOf(next.tools, next.intent) /\ TellsOfClient(next.done, next.intent)
  <2>1. OnlyTellsOf(next.tools, next.intent)
    <3> SUFFICES ASSUME NEW i \in DOMAIN Tail(r.tools), Tail(r.tools)[i] \in ClientTools
                 PROVE  r.intent \in ClientIntents
      BY <1>3 DEF OnlyTellsOf
    <3> QED
      BY <1>2 DEF IsAbout, OnlyTellsOf
  <2>2. Get(args, "client_id") # {} => r.intent \in ClientIntents
    <3>1. tool \in ClientTools => r.intent \in ClientIntents
      BY <1>2 DEF IsAbout, OnlyTellsOf
    <3> QED
      BY <3>1, OnlyClientTools DEF args
  <2>3. ASSUME NEW i \in DOMAIN next.done, Get(next.done[i].args, "client_id") # {}
        PROVE  r.intent \in ClientIntents
    <3>1. CASE i \in DOMAIN r.done /\ next.done[i] = r.done[i]
      BY <2>3, <3>1 DEF IsAbout, TellsOfClient
    <3>2. CASE next.done[i] = call
      BY <2>2, <2>3, <3>2
    <3> QED
      BY <1>7, <3>1, <3>2
  <2> QED
    BY <1>3, <2>1, <2>3 DEF TellsOfClient
<1> QED
  BY <1>3, <1>4, <1>6, <1>7, <1>10, <1>11, <1>12, <1>13 DEF IsAbout

\* The first tool of a follow-up records the client, the others leave that record.
LEMMA DispatchedKeepsClient ==
  ASSUME NEW r, TurnInv(r), NEW messages, KeepsClient(r, messages), r.tools # <<>>,
         NEW params, params = IF r.done = <<>> \/ Contract[Head(r.tools)].intent = r.intent
                              THEN r.params ELSE NoParams,
         NEW ctx, ctx = Handled(Head(r.tools), params, r.ctx),
         NEW outcome, NEW next, Dispatched(r, next, params, ctx, outcome)
  PROVE  KeepsClient(next, messages)
<1> DEFINE tool == Head(r.tools)
           args == Arguments(tool, params, ctx)
           call == [tool |-> tool, args |-> args]
           client == ClientsIn(r.q, messages)
<1>1. /\ next.params = r.params /\ next.q = r.q /\ next.silent = r.silent /\ next.state = r.state
      /\ next.done = Append(r.done, call)
  BY DEF Dispatched
<1>2. PICK S : r.done \in Seq(S)
  BY DEF TurnInv, ToolsAreSound
<1>3. next.done # <<>> /\ (r.done # <<>> => next.done[1] = r.done[1])
      /\ (r.done = <<>> => next.done[1] = call)
  <2> HIDE DEF call
  <2> DEFINE done == Append(r.done, call)
  <2>1. r.done \in Seq(S \cup {call})
    BY <1>2
  <2>2. done # <<>> /\ (r.done # <<>> => done[1] = r.done[1]) /\ (r.done = <<>> => done[1] = call)
    BY <2>1
  <2>3. next.done = done
    BY <1>1
  <2> HIDE DEF done
  <2> QED
    BY <2>2, <2>3
<1> SUFFICES ASSUME IsFollowUp(r, messages)
             PROVE  Names(r.params, client) /\ Get(next.done[1].args, "client_id") = client
  BY <1>1, <1>3 DEF KeepsClient, IsFollowUp
<1> HIDE DEF tool, args, client
<1>4. Names(r.params, client) /\ client # {}
  BY DEF KeepsClient, IsFollowUp, client
<1>5. CASE r.done # <<>>
  BY <1>3, <1>4, <1>5 DEF KeepsClient, client
<1>6. CASE r.done = <<>>
  <2>1. tool \in ClientTools /\ params = r.params
    BY <1>6 DEF KeepsClient, tool
  <2>2. Get(params, "client_id") = client
    BY <1>4, <2>1 DEF Names, Get
  <2>3. \A value : Over(params, "client_id", value) = client
    BY <1>4, <2>1, <2>2 DEF Over, Get
  <2>4. ~ IgnoresContext(tool)
    BY <2>1 DEF ClientTools, IgnoresContext
  <2>5. Subject(ctx, "client_id") = client
    <3>1. DOMAIN r.ctx = ContextFields /\ "client_id" \in Subjects
      BY DEF TurnInv, ToolsAreSound, Subjects
    <3> QED
      BY <2>3, <2>4, <3>1, HandledSubject DEF tool
  <2>6. ctx.client = client
    BY <2>5 DEF Subject
  <2>7. Names(args, client)
    BY <1>4, <2>1, <2>3, <2>6, ClientToolsTell DEF args
  <2>8. Get(args, "client_id") = client
    BY <2>7 DEF Names, Get
  <2> QED
    BY <1>3, <1>4, <1>6, <2>8
<1> QED
  BY <1>5, <1>6

(* --------------------------- the messages so far -------------------------- *)
\* A question is one part of a text.
LEMMA QuestionIsText == ASSUME NEW q \in SUBSET STRING PROVE <<q>> \in Texts
<1> DEFINE Parts == SUBSET STRING
<1>1. q \in Parts
  OBVIOUS
<1> HIDE DEF Parts
<1>2. <<q>> \in Seq(Parts)
  BY <1>1
<1> QED
  BY <1>2 DEF Texts, Parts

\* The message of the user records no tool and no client.
LEMMA QuestionIsSound == ASSUME NEW q \in SUBSET STRING PROVE IsSound(UserMessage(q))
<1> DEFINE m == UserMessage(q)
<1>1. m.calls = <<>> /\ m.text = <<q>> /\ m.role = "user"
  BY DEF UserMessage
<1> HIDE DEF m
<1>2. <<>> \in Seq({}) /\ Recorded(<<>>) /\ TellsOfClient(<<>>, m.intent)
  BY DEF Recorded, TellsOfClient
<1>3. <<q>> \in Texts
  BY QuestionIsText
<1>4. IsSound(m)
  BY <1>1, <1>2, <1>3 DEF IsSound, CallsAreSound, IsDomain
<1> QED
  BY <1>4 DEF m

\* The message of the assistant is as sound as the tools it records.
LEMMA AnswerIsSound ==
  ASSUME NEW intent, NEW clarifies, NEW missing, NEW calls, NEW run,
         \E S : calls \in Seq(S), Recorded(calls), TellsOfClient(calls, intent),
         intent \notin Chat /\ ~ clarifies => calls # <<>>
  PROVE  IsSound(Answer(intent, clarifies, missing, calls, run))
<1> DEFINE m == Answer(intent, clarifies, missing, calls, run)
<1>1. /\ m.calls = calls /\ m.text = <<>> /\ m.role = "assistant" /\ m.intent = intent
      /\ m.clarifies = clarifies
  BY DEF Answer
<1> HIDE DEF m
<1>2. <<>> \in Texts
  BY DEF Texts
<1>3. IsSound(m)
  BY <1>1, <1>2 DEF IsSound, CallsAreSound, IsDomain
<1> QED
  BY <1>3 DEF m

\* A question back records no tool.
LEMMA ClarificationIsSound ==
  ASSUME NEW intent, NEW missing, NEW asks
  PROVE  IsSound(Clarification(intent, missing, asks))
<1> DEFINE m == Clarification(intent, missing, asks)
<1>1. m.calls = <<>> /\ m.text = <<>> /\ m.role = "assistant" /\ m.clarifies = TRUE
  BY DEF Clarification, Answer
<1> HIDE DEF m
<1>2. <<>> \in Texts /\ <<>> \in Seq({}) /\ Recorded(<<>>) /\ TellsOfClient(<<>>, m.intent)
  BY DEF Texts, Recorded, TellsOfClient
<1>3. IsSound(m)
  BY <1>1, <1>2 DEF IsSound, CallsAreSound
<1> QED
  BY <1>3 DEF m

\* Sound messages appended to a sound dialogue leave it sound.
LEMMA SoundGrows ==
  ASSUME \E S : history \in Seq(S), SoundDialogue, NEW more, \E S : more \in Seq(S),
         history' = history \o more, \A i \in DOMAIN more : IsSound(more[i])
  PROVE  SoundDialogue'
<1>1. \A i \in DOMAIN history' :
        \/ i \in DOMAIN history /\ history'[i] = history[i]
        \/ i - Len(history) \in DOMAIN more /\ history'[i] = more[i - Len(history)]
  BY GrowthIsOf
<1>2. ASSUME NEW i \in DOMAIN history' PROVE IsSound(history'[i])
  BY <1>1 DEF SoundDialogue
<1> QED
  BY <1>2 DEF SoundDialogue

\* So does a question with its answer.
LEMMA AnswersAreSoundCalls ==
  ASSUME \E S : history \in Seq(S), SoundDialogue, NEW q \in SUBSET STRING, NEW answer,
         IsSound(answer), history' = history \o <<UserMessage(q), answer>>
  PROVE  SoundDialogue'
<1> DEFINE question == UserMessage(q)
           more == <<question, answer>>
<1>1. IsSound(question)
  BY QuestionIsSound
<1>2. IsSound(answer)
  OBVIOUS
<1>3. history' = history \o more
  OBVIOUS
<1> HIDE DEF question
<1>4. more \in Seq({question, answer})
  OBVIOUS
<1>5. \A i \in DOMAIN more : IsSound(more[i])
  BY <1>1, <1>2
<1> HIDE DEF more
<1> QED
  BY <1>3, <1>4, <1>5, SoundGrows

\* The window is a part of the dialogue.
LEMMA RecentIsSound ==
  ASSUME \E S : history \in Seq(S), SoundDialogue
  PROVE  AreSound(Recent)
<1> DEFINE n == Len(history)
           first == IF n > Window THEN n - Window + 1 ELSE 1
<1>1. PICK S : history \in Seq(S)
  OBVIOUS
<1>2. n \in Nat /\ first \in Nat /\ first >= 1 /\ DOMAIN history = 1 .. n
  BY <1>1, WindowAssumption
<1>3. Recent = SubSeq(history, first, n)
  BY DEF Recent
<1> HIDE DEF n, first
<1>4. /\ SubSeq(history, first, n) \in Seq(S)
      /\ \A i \in DOMAIN SubSeq(history, first, n) :
           first + i - 1 \in 1 .. n /\ SubSeq(history, first, n)[i] = history[first + i - 1]
  BY <1>1, <1>2
<1>5. \A i \in DOMAIN Recent : IsSound(Recent[i])
  BY <1>2, <1>3, <1>4 DEF SoundDialogue
<1> QED
  BY <1>3, <1>4, <1>5 DEF AreSound

(* ------------------------------ the properties ---------------------------- *)
\* What is not answered has no tools to agree.
LEMMA UnansweredIsOfOne ==
  ASSUME told'.done = <<>> \/ told'.status \in {"nothing", "refused"}
  PROVE  AnswerIsOfOneSubject' /\ FollowUpKeepsClient'
BY DEF AnswerIsOfOneSubject, FollowUpKeepsClient, Answered

\* What is told only of the last answer holds while there is no other.
LEMMA SameAnswerIsKept ==
  ASSUME told' = told, AnswerIsOfOneSubject, ReplyResumesQuestion, FollowUpKeepsClient
  PROVE  AnswerIsOfOneSubject' /\ ReplyResumesQuestion' /\ FollowUpKeepsClient'
BY DEF AnswerIsOfOneSubject, ReplyResumesQuestion, FollowUpKeepsClient, ClientsSaid, Answered

LEMMA ToldOf ==
  ASSUME NEW r, NEW status, NEW intent, NEW warned, NEW missing
  PROVE  /\ Told(r, status, intent, warned, missing).intent = intent
         /\ Told(r, status, intent, warned, missing).missing = missing
         /\ Told(r, status, intent, warned, missing).state = r.state
BY DEF Told

\* A reply that is told with the intent it resumes, and without the client among what is
\* missing, has resumed the question.
LEMMA ToldResumes ==
  ASSUME NEW r, NEW status, NEW intent, NEW warned, NEW missing,
         told' = Told(r, status, intent, warned, missing),
         r.silent /\ r.q \subseteq Clients /\ r.q # {} /\ r.state.missing = {"client_id"}
           => /\ status # "refused" => intent \in r.state.pending
              /\ "client_id" \notin missing
  PROVE  ReplyResumesQuestion'
<1>1. /\ told'.status = status /\ told'.intent = intent /\ told'.missing = missing
      /\ told'.state = r.state /\ told'.q = r.q /\ told'.silent = r.silent
  BY ToldFields, ToldOf
<1> QED
  BY <1>1 DEF ReplyResumesQuestion

\* A set of at most one element has at most one to count.
LEMMA OneAtMost ==
  ASSUME NEW S, AtMostOne(S)
  PROVE  Cardinality(S) <= 1
<1>1. CASE S = {}
  BY <1>1, FS_EmptySet
<1>2. CASE S # {}
  <2>1. PICK x : S = {x}
    BY <1>2 DEF AtMostOne
  <2>2. Cardinality({x}) = 1
    BY FS_Singleton
  <2> QED
    BY <2>1, <2>2
<1> QED
  BY <1>1, <1>2

(* ------------------------- the steps and the subject ---------------------- *)
LEMMA SameRunsAreAskedFor ==
  ASSUME CalculationsAreAskedFor, runs' = runs
  PROVE  CalculationsAreAskedFor'
BY DEF CalculationsAreAskedFor

\* What is stored of a run: what asked for it.
IsAskedFor(run) ==
  \/ run.forced
  \/ IsRecalculation(run.resumed)
  \/ /\ IsRecalculation(run.text)
     /\ run.silent => \/ IsRecalculation(<<run.q>>)
                      \/ IsContextual(<<run.q>>) \/ IsRepair(<<run.q>>)
RunOf(r, client) ==
  [client |-> client, q |-> r.q, text |-> r.text, silent |-> r.silent, forced |-> r.forced,
   resumed |-> r.state.asks]

\* A turn that calculates was asked to: by its words, by the planner's parameters or by the
\* question back.
LEMMA CalculationIsAskedFor ==
  ASSUME NEW r, TurnInv(r), IsAbout(r), r.tools # <<>>, Head(r.tools) = "calculate_reserve", NEW client
  PROVE  IsAskedFor(RunOf(r, client))
<1>1. IsRecalculation(r.text) \/ IsForced(r.params)
  <2>1. 1 \in DOMAIN r.tools /\ r.tools[1] = "calculate_reserve"
    BY DEF TurnInv, ToolsAreSound
  <2> QED
    BY <2>1 DEF TurnInv, ToolsAreSound
<1>2. IsForced(r.params) => r.forced \/ IsRecalculation(r.state.asks)
  BY DEF IsAbout, Single, Forcing
<1>3. r.silent => \/ r.text = <<r.q>>
                  \/ IsContextual(<<r.q>>) \/ IsRepair(<<r.q>>)
  BY DEF TurnInv, IsRead, IsAlone
<1> DEFINE run == RunOf(r, client)
<1>4. /\ run.q = r.q /\ run.text = r.text /\ run.silent = r.silent /\ run.forced = r.forced
      /\ run.resumed = r.state.asks
  BY DEF RunOf
<1> HIDE DEF run
<1>5. IsAskedFor(run)
  <2>1. CASE r.forced
    BY <1>4, <2>1, Zenon DEF IsAskedFor
  <2>2. CASE IsRecalculation(r.state.asks)
    BY <1>4, <2>2, Zenon DEF IsAskedFor
  <2>3. CASE IsRecalculation(r.text)
    <3>1. r.silent => \/ IsRecalculation(<<r.q>>)
                      \/ IsContextual(<<r.q>>) \/ IsRepair(<<r.q>>)
      BY <1>3, <2>3
    <3> QED
      BY <1>4, <2>3, <3>1, Zenon DEF IsAskedFor
  <2> QED
    BY <1>1, <1>2, <2>1, <2>2, <2>3
<1> QED
  BY <1>5 DEF run

LEMMA RunsGrow ==
  ASSUME CalculationsAreAskedFor, \E S : runs \in Seq(S), NEW run, IsAskedFor(run),
         runs' = Append(runs, run)
  PROVE  CalculationsAreAskedFor'
<1>1. PICK S : runs \in Seq(S)
  OBVIOUS
<1>2. runs \in Seq(S \cup {run})
  BY <1>1
<1>3. \A i \in DOMAIN runs' : (i \in DOMAIN runs /\ runs'[i] = runs[i]) \/ runs'[i] = run
  BY <1>2
<1>4. \A i \in DOMAIN runs : IsAskedFor(runs[i])
  BY DEF CalculationsAreAskedFor, IsAskedFor
<1>5. \A i \in DOMAIN runs' : IsAskedFor(runs'[i])
  BY <1>3, <1>4
<1> QED
  BY <1>5 DEF CalculationsAreAskedFor, IsAskedFor

\* The step that stores a run.
LEMMA DispatchIsAskedFor ==
  ASSUME IInv, SubjectsAreKept, Dispatch
  PROVE  CalculationsAreAskedFor'
<1> DEFINE tool == Head(turn.tools)
           ctx == Handled(tool, ToolParams, turn.ctx)
<1>1. turn # NoTurn /\ turn.tools # <<>>
  BY DispatchIs DEF IInv
<1>2. TurnInv(turn) /\ IsAbout(turn) /\ CalculationsAreAskedFor
  BY <1>1 DEF IInv, SubjectsAreKept
<1>3. PICK outcome \in Ends, kept \in BOOLEAN : Calculates(tool, outcome, ctx, kept)
  BY DispatchIs DEF IInv
<1> HIDE DEF ctx
<1>4. \/ UNCHANGED runs
      \/ tool = "calculate_reserve" /\ runs' = Append(runs, RunOf(turn, ctx.client))
  BY <1>3 DEF Calculates, RunOf
<1>5. CASE UNCHANGED runs
  BY <1>2, <1>5, SameRunsAreAskedFor
<1>6. CASE tool = "calculate_reserve" /\ runs' = Append(runs, RunOf(turn, ctx.client))
  <2>1. IsAskedFor(RunOf(turn, ctx.client))
    BY <1>1, <1>2, <1>6, CalculationIsAskedFor
  <2> QED
    BY <1>2, <1>6, <2>1, RunsGrow DEF IInv
<1> QED
  BY <1>4, <1>5, <1>6

\* A question is a set of words.
IsQuestion(q) == q \in SUBSET STRING

\* A question, once read, is about one client and SKU and keeps the client it follows.
LEMMA ReadIsAbout ==
  ASSUME IInv, SoundDialogue, NEW q, IsQuestion(q), NEW reply, NEW pin,
         DOMAIN reply = DOMAIN Silence, reply.tools \in Seq(STRING), reply.text \in Texts,
         OneOfEach(reply.params),
         AtMostOne(pin.client), AtMostOne(pin.sku), NEW r, r = Read(q, reply, pin)
  PROVE  /\ r.done = <<>> /\ r.q = q /\ r.silent = (reply = Silence)
         /\ r.tools # <<>> => IsAbout(r) /\ KeepsClient(r, Recent)
         /\ r.silent /\ r.q \subseteq Clients /\ r.q # {} /\ r.state.missing = {"client_id"}
              => r.business = {} /\ r.intent \in r.state.pending /\ "client_id" \notin r.missing
<1>0. q \in SUBSET STRING
  BY DEF IsQuestion
<1>1. AreSound(Recent) /\ IsState(Derive(Recent))
  BY RecentIsSound, DeriveIsState DEF IInv, AreSound, IsSound
<1>2. /\ r.done = <<>> /\ r.q = q /\ r.silent = (reply = Silence) /\ r.state = Derive(Recent)
  BY DEF Read, Prepared
<1>3. /\ Single(r.params, Forcing(r.forced, r.state.asks)) /\ AtMostOne(r.ctx.client) /\ AtMostOne(r.ctx.sku)
      /\ r.tools # <<>> /\ IgnoresContext(Head(r.tools)) =>
           \A i \in DOMAIN r.tools \ {1} : Contract[r.tools[i]].intent # r.intent
      /\ OnlyTellsOf(r.tools, r.intent)
  BY <1>0, <1>1, ReadIsSingle DEF OnlyTellsOf
<1>4. r.tools # <<>> => IsAbout(r)
  <2>1. \A field \in Subjects : AtMostOne(Subject(r.ctx, field))
    BY <1>3 DEF Subject
  <2>2. r.tools # <<>> /\ IgnoresContext(Head(r.tools)) => SupportOnly(r.tools, 2, r.intent)
    BY <1>3 DEF SupportOnly
  <2>3. RecordedIn(r.done, r.ctx) /\ Recorded(r.done) /\ TellsOfClient(r.done, r.intent)
    BY <1>2 DEF RecordedIn, Recorded, TellsOfClient
  <2> QED
    BY <1>0, <1>2, <1>3, <2>1, <2>2, <2>3 DEF IsAbout
<1>5. ASSUME reply = Silence, q \subseteq Clients, q # {}, Derive(Recent).missing = {"client_id"}
      PROVE  r.business = {} /\ r.intent \in r.state.pending /\ "client_id" \notin r.missing
  <2>1. Derive(Recent).missing # {} /\ r = Read(q, Silence, pin)
    BY <1>5
  <2> QED
    BY <1>0, <1>1, <1>5, <2>1, ReadResumes
<1>6. r.tools # <<>> => KeepsClient(r, Recent)
  <2> SUFFICES ASSUME r.tools # <<>>, IsFollowUp(r, Recent)
               PROVE  Names(r.params, ClientsIn(q, Recent)) /\ Head(r.tools) \in ClientTools
    BY <1>2 DEF KeepsClient
  <2>1. /\ reply = Silence /\ IsFresh(Recent) /\ q \cap CutWords # {} /\ ClientsIn(q, Recent) # {}
        /\ Get(Derive(Recent).filters, "client_id") = ClientsIn(q, Recent)
    BY <1>2 DEF IsFollowUp
  <2>2. r = Read(q, Silence, pin)
    BY <2>1
  <2> QED
    BY <1>0, <1>1, <2>1, <2>2, ReadFollows
<1> QED
  BY <1>2, <1>4, <1>5, <1>6

\* A run is only stored by a tool.
LEMMA AskStoresNoRun == ASSUME Ask PROVE runs' = runs
BY DEF Ask, RefuseParams, Clarify, Chatted, StartTools

\* Whatever becomes of the question: refused, asked back, chatted about or worked on.
LEMMA AskKeepsSubjects ==
  ASSUME IInv, SubjectsAreKept, Ask
  PROVE  SubjectsAreKept'
<1>1. PICK a \in Asks[Turns + 1] :
        \E r \in {Read(a.q, a.reply, a.pin)} :
          RefuseParams(r) \/ Clarify(r) \/ Chatted(r) \/ StartTools(r)
  BY DEF Ask
<1>2. /\ DOMAIN a.reply = DOMAIN Silence /\ a.reply.tools \in Seq(STRING)
      /\ OneOfEach(a.reply.params) /\ AtMostOne(a.pin.client) /\ AtMostOne(a.pin.sku)
      /\ a.q \in SUBSET STRING /\ a.reply.text \in Texts /\ turn = NoTurn
  <2>1. Turns + 1 \in DOMAIN Asks /\ turn = NoTurn
    BY DEF Ask, IsFree
  <2>2. /\ a.q \in SUBSET STRING /\ DOMAIN a.reply = DOMAIN Silence /\ a.reply.tools \in Seq(STRING)
        /\ a.reply.text \in Texts /\ Get(a.reply.params, "question") \subseteq Texts
        /\ \A field \in {"client_id", "sku_id"} : AtMostOne(Get(a.reply.params, field))
        /\ AtMostOne(a.pin.client) /\ AtMostOne(a.pin.sku)
    BY <1>1, <2>1, AsksAssumption
  <2> QED
    BY <2>1, <2>2 DEF OneOfEach, Subjects
<1> DEFINE r == Read(a.q, a.reply, a.pin)
<1>3. RefuseParams(r) \/ Clarify(r) \/ Chatted(r) \/ StartTools(r)
  BY <1>1
<1>4. /\ r.done = <<>> /\ r.q \in SUBSET STRING
      /\ r.tools # <<>> => IsAbout(r) /\ KeepsClient(r, Recent)
      /\ r.silent /\ r.q \subseteq Clients /\ r.q # {} /\ r.state.missing = {"client_id"}
           => r.business = {} /\ r.intent \in r.state.pending /\ "client_id" \notin r.missing
  <2> DEFINE Q == a.q  reply == a.reply  pin == a.pin
  <2>1. /\ SoundDialogue /\ IsQuestion(Q) /\ DOMAIN reply = DOMAIN Silence
        /\ reply.tools \in Seq(STRING) /\ reply.text \in Texts /\ OneOfEach(reply.params)
        /\ AtMostOne(pin.client) /\ AtMostOne(pin.sku) /\ r = Read(Q, reply, pin)
    BY <1>2 DEF SubjectsAreKept, IsQuestion
  <2> HIDE DEF Q, reply, pin, r
  <2>2. /\ r.done = <<>> /\ r.q = Q
        /\ r.tools # <<>> => IsAbout(r) /\ KeepsClient(r, Recent)
        /\ r.silent /\ r.q \subseteq Clients /\ r.q # {} /\ r.state.missing = {"client_id"}
             => r.business = {} /\ r.intent \in r.state.pending /\ "client_id" \notin r.missing
    BY <2>1, ReadIsAbout
  <2> QED
    BY <1>2, <2>2 DEF Q
<1> HIDE DEF r
<1>5. /\ \E S : history \in Seq(S)
      /\ SoundDialogue
      /\ <<>> \in Seq({}) /\ Recorded(<<>>) /\ \A intent : TellsOfClient(<<>>, intent)
  BY DEF IInv, SubjectsAreKept, Recorded, TellsOfClient
<1>6. CalculationsAreAskedFor'
  BY AskStoresNoRun, SameRunsAreAskedFor DEF SubjectsAreKept
<1>7. CASE RefuseParams(r)
  <2>1. told' = Told(r, "refused", r.intent, FALSE, {}) /\ UNCHANGED <<history, turn>>
    BY <1>7 DEF RefuseParams
  <2>2. told'.done = <<>>
    BY <1>4, <2>1 DEF Told
  <2>3. ReplyResumesQuestion'
    BY <2>1, ToldResumes
  <2>4. AnswerIsOfOneSubject' /\ FollowUpKeepsClient'
    BY <2>2, UnansweredIsOfOne
  <2>5. SoundDialogue'
    BY <1>5, <2>1 DEF SoundDialogue
  <2> QED
    BY <1>2, <1>6, <2>1, <2>3, <2>4, <2>5 DEF SubjectsAreKept
<1>8. CASE Clarify(r)
  <2>1. PICK intent, missing, asks :
          /\ history' = history \o <<UserMessage(r.q), Clarification(intent, missing, asks)>>
          /\ told' = Told(r, "needs_clarification", intent, FALSE, missing)
          /\ r.business = {} => intent = r.intent /\ missing = r.missing
          /\ UNCHANGED turn
    BY <1>8 DEF Clarify
  <2>2. told'.done = <<>>
    BY <1>4, <2>1 DEF Told
  <2>3. ReplyResumesQuestion'
    BY <1>4, <2>1, ToldResumes
  <2>4. AnswerIsOfOneSubject' /\ FollowUpKeepsClient'
    BY <2>2, UnansweredIsOfOne
  <2>5. SoundDialogue'
    BY <1>4, <1>5, <2>1, ClarificationIsSound, AnswersAreSoundCalls
  <2> QED
    BY <1>2, <1>6, <2>1, <2>3, <2>4, <2>5 DEF SubjectsAreKept
<1>9. CASE Chatted(r)
  <2>1. PICK status :
          /\ history' = history \o <<UserMessage(r.q), Answer(r.intent, FALSE, {}, <<>>, {})>>
          /\ told' = Told(r, status, r.intent, r.warned, {})
          /\ UNCHANGED turn /\ r.intent \in Chat
    BY <1>9 DEF Chatted
  <2>2. told'.done = <<>>
    BY <1>4, <2>1 DEF Told
  <2>3. ReplyResumesQuestion'
    BY <1>4, <2>1, ToldResumes
  <2>4. AnswerIsOfOneSubject' /\ FollowUpKeepsClient'
    BY <2>2, UnansweredIsOfOne
  <2>5. SoundDialogue'
    <3>1. IsSound(Answer(r.intent, FALSE, {}, <<>>, {}))
      BY <1>5, <2>1, AnswerIsSound
    <3> QED
      BY <1>4, <1>5, <2>1, <3>1, AnswersAreSoundCalls
  <2> QED
    BY <1>2, <1>6, <2>1, <2>3, <2>4, <2>5 DEF SubjectsAreKept
<1>10. CASE StartTools(r)
  <2>1. r.tools # <<>> /\ turn' = r /\ told'.status = "nothing" /\ UNCHANGED history
    BY <1>10 DEF StartTools, Nothing
  <2>2. IsAbout(r) /\ IsResumed(r) /\ KeepsClient(r, Recent)
    BY <1>4, <2>1 DEF IsResumed
  <2>3. AnswerIsOfOneSubject' /\ FollowUpKeepsClient' /\ ReplyResumesQuestion'
    BY <2>1, UnansweredIsOfOne DEF ReplyResumesQuestion
  <2>4. SoundDialogue'
    BY <1>5, <2>1 DEF SoundDialogue
  <2>5. Recent' = Recent
    BY <2>1 DEF Recent
  <2> QED
    BY <1>6, <2>1, <2>2, <2>3, <2>4, <2>5 DEF SubjectsAreKept
<1> QED
  BY <1>3, <1>7, <1>8, <1>9, <1>10

\* A tool that ran leaves a turn about its one client and SKU.
LEMMA DispatchKeepsSubjects ==
  ASSUME IInv, SubjectsAreKept, Dispatch
  PROVE  SubjectsAreKept'
<1> DEFINE ctx == Handled(Head(turn.tools), ToolParams, turn.ctx)
<1>1. turn # NoTurn /\ turn.tools # <<>> /\ UNCHANGED <<history, grants, told>>
  BY DispatchIs DEF IInv
<1>2. TurnInv(turn) /\ IsAbout(turn) /\ IsResumed(turn) /\ KeepsClient(turn, Recent)
  BY <1>1 DEF IInv, SubjectsAreKept
<1>3. PICK outcome \in Ends : Dispatched(turn, turn', ToolParams, ctx, outcome)
  BY DispatchIs DEF IInv
<1>4. ToolParams = IF turn.done = <<>> \/ Contract[Head(turn.tools)].intent = turn.intent
                   THEN turn.params ELSE NoParams
  BY DEF ToolParams
<1>5. IsAbout(turn')
  BY <1>1, <1>2, <1>3, <1>4, DispatchedIsAbout
<1>6. IsResumed(turn')
  <2>1. /\ turn'.silent = turn.silent /\ turn'.q = turn.q /\ turn'.state = turn.state
        /\ turn'.intent = turn.intent
    BY <1>3 DEF Dispatched
  <2> QED
    BY <1>2, <2>1 DEF IsResumed
<1>7. KeepsClient(turn, Recent)'
  <2>1. KeepsClient(turn', Recent)
    BY <1>1, <1>2, <1>3, <1>4, DispatchedKeepsClient
  <2>2. Recent' = Recent
    BY <1>1 DEF Recent
  <2> QED
    BY <2>1, <2>2
<1>8. AnswerIsOfOneSubject' /\ ReplyResumesQuestion' /\ FollowUpKeepsClient'
  BY <1>1, SameAnswerIsKept DEF SubjectsAreKept
<1>9. SoundDialogue'
  BY <1>1 DEF SubjectsAreKept, SoundDialogue
<1>10. CalculationsAreAskedFor'
  BY DispatchIsAskedFor
<1> QED
  BY <1>5, <1>6, <1>7, <1>8, <1>9, <1>10 DEF SubjectsAreKept

\* A refusal tells nothing and leaves at most the question behind.
LEMMA DenyKeepsSubjects ==
  ASSUME IInv, SubjectsAreKept, Deny
  PROVE  SubjectsAreKept'
<1>1. /\ turn' = NoTurn
      /\ history' = IF turn.stored THEN Append(history, UserMessage(turn.q)) ELSE history
      /\ told' = Told(turn, "refused", turn.intent, FALSE, {})
  BY DEF Deny
<1>2. told'.status = "refused"
  BY <1>1 DEF Told
<1>3. AnswerIsOfOneSubject' /\ FollowUpKeepsClient'
  BY <1>2, UnansweredIsOfOne
<1>4. ReplyResumesQuestion'
  BY <1>1, ToldResumes
<1>5. SoundDialogue'
  <2>1. CASE turn.stored
    <3> DEFINE question == UserMessage(turn.q)
    <3>1. IsSound(question)
      <4>1. turn # NoTurn
        BY NoTurnIsEmpty DEF Deny
      <4>2. turn.q \in SUBSET STRING
        BY <4>1 DEF SubjectsAreKept, IsAbout
      <4> QED
        BY <4>2, QuestionIsSound
    <3>2. history' = Append(history, question)
      BY <1>1, <2>1
    <3> HIDE DEF question
    <3>3. history' = history \o <<question>> /\ <<question>> \in Seq({question})
      <4>1. PICK S : history \in Seq(S)
        BY DEF IInv
      <4>2. history \in Seq(S \cup {question})
        BY <4>1
      <4> QED
        BY <3>2, <4>2
    <3>4. \A i \in DOMAIN <<question>> : IsSound(<<question>>[i])
      BY <3>1
    <3> QED
      BY <3>3, <3>4, SoundGrows DEF IInv, SubjectsAreKept
  <2>2. CASE ~ turn.stored
    BY <1>1, <2>2 DEF SubjectsAreKept, SoundDialogue
  <2> QED
    BY <2>1, <2>2
<1>6. CalculationsAreAskedFor'
  BY SameRunsAreAskedFor DEF Deny, SubjectsAreKept
<1> QED
  BY <1>1, <1>3, <1>4, <1>5, <1>6 DEF SubjectsAreKept

\* The tools of the answer recorded the subjects of one context.
LEMMA DoneIsOfOne ==
  ASSUME NEW r, IsAbout(r), \E S : r.done \in Seq(S)
  PROVE  \A field \in Subjects :
           Cardinality(UNION {Get(r.done[i].args, field) : i \in DOMAIN r.done}) <= 1
<1>1. ASSUME NEW field \in Subjects
      PROVE  /\ AtMostOne(Subject(r.ctx, field))
             /\ \A i \in DOMAIN r.done : Get(r.done[i].args, field) \subseteq Subject(r.ctx, field)
  BY DEF IsAbout, RecordedIn, Within
<1>2. ASSUME NEW field \in Subjects
      PROVE  Cardinality(UNION {Get(r.done[i].args, field) : i \in DOMAIN r.done}) <= 1
  <2> DEFINE named == UNION {Get(r.done[i].args, field) : i \in DOMAIN r.done}
  <2>1. named \subseteq Subject(r.ctx, field)
    BY <1>1
  <2>2. AtMostOne(named)
    BY <1>1, <2>1 DEF AtMostOne
  <2> HIDE DEF named
  <2>3. Cardinality(named) <= 1
    BY <2>2, OneAtMost
  <2> QED
    BY <2>3 DEF named
<1> QED
  BY <1>2

\* What is told of an answer that follows one up is what its turn owes.
LEMMA ToldFollows ==
  ASSUME NEW r, KeepsClient(r, Recent), \E S : r.done \in Seq(S),
         NEW status, NEW intent, NEW warned, NEW missing,
         told' = Told(r, status, intent, warned, missing)
  PROVE  FollowUpKeepsClient'
<1> DEFINE client == ClientsIn(r.q, Recent)
<1>1. /\ told'.done = r.done /\ told'.q = r.q /\ told'.silent = r.silent /\ told'.state = r.state
      /\ told'.said = WordsIn(Recent) /\ told'.fresh = IsFresh(Recent)
  BY DEF Told, IsFresh
<1>2. ClientsSaid' = client
  BY <1>1 DEF ClientsSaid, ClientsIn
<1> SUFFICES ASSUME r.done # <<>>, r.silent, IsFresh(Recent),
                    r.q \cap {"pieces", "bycategory", "another"} # {}, client # {},
                    Get(r.state.filters, "client_id") = client
             PROVE  \E i \in DOMAIN r.done : Get(r.done[i].args, "client_id") = client
  BY <1>1, <1>2 DEF FollowUpKeepsClient, Answered
<1>3. IsFollowUp(r, Recent)
  BY DEF IsFollowUp, CutWords
<1>4. Get(r.done[1].args, "client_id") = client
  BY <1>3 DEF KeepsClient
<1>5. 1 \in DOMAIN r.done
  OBVIOUS
<1> QED
  BY <1>4, <1>5

\* The answer is stored with the tools that ran, and told as its turn owes it.
LEMMA ComposeKeepsSubjects ==
  ASSUME IInv, SubjectsAreKept, Compose
  PROVE  SubjectsAreKept'
<1>1. PICK status, warned, intent, clarifies, calls, run :
        /\ history' = history \o <<UserMessage(turn.q), Answer(intent, clarifies, {}, calls, run)>>
        /\ (intent \in Chat /\ calls = <<>>) \/ (intent = turn.intent /\ calls = turn.done)
        /\ told' = Told(turn, status, turn.intent, warned, {})
        /\ turn' = NoTurn /\ turn.done # <<>>
  BY DEF Compose, Chat
<1>2. turn # NoTurn
  BY <1>1, NoTurnIsEmpty
<1>3. TurnInv(turn) /\ IsAbout(turn) /\ IsResumed(turn) /\ KeepsClient(turn, Recent)
  BY <1>2 DEF IInv, SubjectsAreKept
<1>4. \E S : turn.done \in Seq(S)
  BY <1>3 DEF TurnInv, ToolsAreSound
<1>5. AnswerIsOfOneSubject'
  <2>1. told'.done = turn.done
    BY <1>1 DEF Told
  <2>2. ASSUME NEW field \in Subjects
        PROVE  Cardinality(UNION {Get(told'.done[i].args, field) : i \in DOMAIN told'.done}) <= 1
    <3>1. Cardinality(UNION {Get(turn.done[i].args, field) : i \in DOMAIN turn.done}) <= 1
      BY <1>3, <1>4, DoneIsOfOne
    <3> QED
      BY <2>1, <3>1
  <2> QED
    BY <2>2 DEF AnswerIsOfOneSubject, Subjects
<1>6. ReplyResumesQuestion'
  BY <1>1, <1>3, ToldResumes DEF IsResumed
<1>7. FollowUpKeepsClient'
  BY <1>1, <1>3, <1>4, ToldFollows
<1>8. SoundDialogue'
  <2>1. /\ Recorded(calls) /\ TellsOfClient(calls, intent) /\ \E S : calls \in Seq(S)
        /\ intent \notin Chat /\ ~ clarifies => calls # <<>>
    <3>1. <<>> \in Seq({}) /\ Recorded(<<>>) /\ TellsOfClient(<<>>, intent)
      BY DEF Recorded, TellsOfClient
    <3>2. CASE intent \in Chat /\ calls = <<>>
      BY <3>1, <3>2
    <3>3. CASE intent = turn.intent /\ calls = turn.done
      BY <1>1, <1>3, <1>4, <3>3 DEF IsAbout
    <3> QED
      BY <1>1, <3>2, <3>3
  <2>2. SoundDialogue /\ (\E S : history \in Seq(S)) /\ turn.q \in SUBSET STRING
    BY <1>3 DEF IInv, SubjectsAreKept, IsAbout
  <2>3. IsSound(Answer(intent, clarifies, {}, calls, run))
    BY <2>1, AnswerIsSound
  <2> QED
    BY <1>1, <2>2, <2>3, AnswersAreSoundCalls
<1>9. CalculationsAreAskedFor'
  BY SameRunsAreAskedFor DEF Compose, SubjectsAreKept
<1> QED
  BY <1>1, <1>5, <1>6, <1>7, <1>8, <1>9 DEF SubjectsAreKept

\* Before the first question there is nothing to keep.
LEMMA InitKeepsSubjects ==
  ASSUME Init
  PROVE  SubjectsAreKept
<1>1. history = <<>> /\ runs = <<>> /\ turn = NoTurn /\ told.status = "nothing"
  BY DEF Init, Nothing
<1> QED
  BY <1>1 DEF SubjectsAreKept, SoundDialogue, AnswerIsOfOneSubject, ReplyResumesQuestion,
              FollowUpKeepsClient, Answered, CalculationsAreAskedFor

\* One step per action.
LEMMA NextKeepsSubjects ==
  ASSUME IInv, SubjectsAreKept, [Next]_vars
  PROVE  SubjectsAreKept'
<1>1. CASE Ask
  BY <1>1, AskKeepsSubjects
<1>2. CASE Dispatch
  BY <1>2, DispatchKeepsSubjects
<1>3. CASE Deny
  BY <1>3, DenyKeepsSubjects
<1>4. CASE Compose
  BY <1>4, ComposeKeepsSubjects
<1>5. CASE (\E g \in Grants : Regrant(g)) \/ UNCHANGED vars
  <2>1. UNCHANGED <<history, runs, turn, told>>
    BY <1>5 DEF Regrant, vars
  <2>2. AnswerIsOfOneSubject' /\ ReplyResumesQuestion' /\ FollowUpKeepsClient'
    BY <2>1, SameAnswerIsKept DEF SubjectsAreKept
  <2>3. Recent' = Recent /\ (SoundDialogue => SoundDialogue')
    BY <2>1 DEF Recent, SoundDialogue
  <2>4. CalculationsAreAskedFor'
    BY <2>1, SameRunsAreAskedFor DEF SubjectsAreKept
  <2> QED
    BY <2>1, <2>2, <2>3, <2>4 DEF SubjectsAreKept
<1> QED
  BY <1>1, <1>2, <1>3, <1>4, <1>5 DEF Next

\* IInv is an invariant already, so that every step may use it.
LEMMA SubjectInvariance == Spec => []SubjectsAreKept
BY InitKeepsSubjects, NextKeepsSubjects, Invariance, PTL DEF Spec

\* The tools of one answer record one client_id and one sku_id at most, whatever was
\* inherited, pinned or planned and whatever rights change between them (_params_from_route,
\* _apply_params): a support tool follows what the primary one left in the context.
THEOREM SubjectsAreOne == Spec => []AnswerIsOfOneSubject
<1>1. SubjectsAreKept => AnswerIsOfOneSubject
  BY DEF SubjectsAreKept
<1> QED
  BY <1>1, SubjectInvariance, PTL

\* Without a planner, a client given in reply to "which client?" resumes the intent that was
\* put aside, in a dialogue of any length, and is not asked for again
\* (derive_state_from_history, resolve_followup_from_state).
THEOREM RepliesResume == Spec => []ReplyResumesQuestion
<1>1. SubjectsAreKept => ReplyResumesQuestion
  BY DEF SubjectsAreKept
<1> QED
  BY <1>1, SubjectInvariance, PTL

\* A run is calculated when it is asked for: in the words answered, by the question back that
\* is replied to or by the planner's _force_tool; naming the tool or adding it to a plan does
\* not suffice (_execution_plan, resolve_followup_from_state).
THEOREM RunsAreAskedFor == Spec => []CalculationsAreAskedFor
<1>1. SubjectsAreKept => CalculationsAreAskedFor
  BY DEF SubjectsAreKept
<1> QED
  BY <1>1, SubjectInvariance, PTL

\* Without a planner, after an answer about a client a follow-up that asks for another cut of
\* it is answered about that client, however long the dialogue, whatever else the follow-up
\* asks and whichever client is pinned, if what is read of the dialogue names no other
\* (derive_state_from_history, resolve_followup_from_state, _params_from_route).
THEOREM FollowUpsKeepClient == Spec => []FollowUpKeepsClient
<1>1. SubjectsAreKept => FollowUpKeepsClient
  BY DEF SubjectsAreKept
<1> QED
  BY <1>1, SubjectInvariance, PTL

===============================================================================
