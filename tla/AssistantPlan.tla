---------------------------- MODULE AssistantPlan ----------------------------
(* A dialogue with the assistant, from the question to the composed answer:   *)
(* the state read off the last messages, the planner's reply and the rules it *)
(* is held to, the follow-up resolved against the state, the parameters, the  *)
(* clarification or the tools that run one by one, and what is stored.        *)
(* A question is a set of word groups (AssistantRouting).                     *)
EXTENDS AssistantTools, SequencesExt

CONSTANTS Asks,           \* bound: what may be asked at each turn of the dialogue, a sequence of
                          \* sets of questions with their pinned context and the planner's reply
          Grants,         \* the sets of capabilities a user may hold
          Window          \* how many of the last messages are read

VARIABLES history,  \* the messages of the dialogue
          grants,   \* the capabilities of the user
          runs,     \* the reserve runs calculated by the assistant
          turn,     \* the question in progress
          told      \* what the last question got

vars == <<history, grants, runs, turn, told>>

SavedRun == "saved"                  \* the portfolio run, kept outside the dialogue
NoTurn   == [tools |-> <<>>, done |-> <<>>, intent |-> ""]
Nothing  == [status |-> "nothing"]
Silence  == [intent |-> "silent", text |-> <<>>, tools |-> <<>>, params |-> NoParams,
             missing |-> {}, asks |-> <<>>]

ASSUME WindowAssumption == Window \in Nat

Texts == Seq(SUBSET STRING)

(* A planner replies with the fields it is asked for, tools by their names; a *)
(* reply and a pinned context are about one client and one SKU at most.       *)
AtMostOne(S) == \A x, y \in S : x = y
ASSUME AsksAssumption ==
  \A i \in DOMAIN Asks : \A a \in Asks[i] :
    /\ a.q \in SUBSET STRING
    /\ DOMAIN a.reply = DOMAIN Silence /\ a.reply.tools \in Seq(STRING)
    /\ a.reply.text \in Texts /\ a.reply.asks \in Texts /\ Get(a.reply.params, "question") \subseteq Texts
    /\ \A field \in {"client_id", "sku_id"} : AtMostOne(Get(a.reply.params, field))
    /\ AtMostOne(a.pin.client) /\ AtMostOne(a.pin.sku)

UserMessage(q) ==
  [role |-> "user", text |-> <<q>>, intent |-> "", clarifies |-> FALSE, missing |-> {},
   calls |-> <<>>, run |-> {}, asks |-> <<>>]
Answer(intent, clarifies, missing, calls, run) ==
  [role |-> "assistant", text |-> <<>>, intent |-> intent, clarifies |-> clarifies,
   missing |-> missing, calls |-> calls, run |-> run, asks |-> <<>>]
(* The question back is one of the program's own, which say nothing that is   *)
(* looked for in it, or one that the planner has worded.                      *)
Clarification(intent, missing, asks) ==
  [Answer(intent, TRUE, missing, <<>>, {}) EXCEPT !.asks = asks]
IsDomain(m) == m.role = "assistant" /\ m.intent \notin Chat
Recent == LET n == Len(history) IN SubSeq(history, IF n > Window THEN n - Window + 1 ELSE 1, n)

(* --------------------- the state read off the history -------------------- *)
NoState == [last |-> {}, entities |-> NoParams, filters |-> NoParams, metrics |-> {},
            compared |-> NoParams, pending |-> {}, missing |-> {}, asks |-> <<>>]
EntityFields == {"client_id", "sku_id", "sku_ids", "category_id"}
EntitiesOf(args) ==
  Only("reserve_run_id", IF Get(args, "run_id") # {} THEN args["run_id"] ELSE Get(args, "reserve_run_id"))
  ++ Restricted(args, EntityFields)
(* The arguments of the tools together, a later tool over an earlier one.     *)
Latest(S) == CHOOSE i \in S : \A j \in S : j <= i
CombinedArgs(calls) ==
  [f \in UNION {DOMAIN calls[i].args : i \in DOMAIN calls} |->
     calls[Latest({i \in DOMAIN calls : f \in DOMAIN calls[i].args})].args[f]]

AfterMessage(s, m) ==
  IF m.role = "assistant" /\ m.clarifies
  THEN [s EXCEPT !.missing = m.missing, !.pending = {m.intent}, !.asks = m.asks]
  ELSE IF ~ IsDomain(m) THEN s
  ELSE LET args == CombinedArgs(m.calls)
           known == Only("reserve_run_id", m.run) ++ s.entities
           heard == [s EXCEPT !.last = {m.intent}, !.pending = {}, !.missing = {},
                              !.asks = <<>>, !.entities = known]
       IN IF m.calls = <<>> THEN heard
          ELSE [heard EXCEPT
                  !.filters = args,
                  !.entities = EntitiesOf(args) ++ known,
                  !.metrics = IF MetricsIn(args) # {} THEN MetricsIn(args) ELSE @,
                  !.compared = IF m.intent \in AnalyticsFamily \cup {"management_report_summary"}
                               THEN args ELSE @]
Derive(messages) == FoldLeft(AfterMessage, NoState, messages)

HasContext(s) ==
  s.pending # {} \/ s.last # {} \/ DOMAIN s.filters # {} \/ s.metrics # {} \/ DOMAIN s.entities # {}

(* ----------------------------- the planner ------------------------------- *)
(* Its reply is dropped when its parameters break the contract of its first   *)
(* tool or its intent leaves the family of a question the words decide.       *)
Compatible(intent, planned) ==
  planned = intent \/ (intent \in AnalyticsFamily /\ planned \in AnalyticsFamily)
KeepsContract(reply) ==
  reply.tools = <<>> \/ DOMAIN reply.params = {} \/ UnknownParams(reply.tools[1], reply.params) = {}
\* Mutant: the planner's intent is taken whatever the words decide.
PlanRouteUnchecked(q, intent, reply) ==
  IF reply = Silence \/ ~ KeepsContract(reply)
  THEN [Silence EXCEPT !.intent = intent, !.text = <<q>>]
  ELSE [reply EXCEPT !.text = IF @ = <<>> THEN <<q>> ELSE @]
PlanRoute(q, intent, reply) ==
  IF \/ reply = Silence
     \/ ~ KeepsContract(reply)
     \/ intent \notin Chat /\ ~ Compatible(intent, reply.intent)
  THEN [Silence EXCEPT !.intent = intent, !.text = <<q>>]
  ELSE [reply EXCEPT !.text = IF @ = <<>> THEN <<q>> ELSE @]

(* --------------------------- follow-up questions ------------------------- *)
(* What a short question leaves out is taken from the state; a parameter that *)
(* is already there stays (p ++ more keeps the fields of p).                  *)
AskFor(p, intents) == p ++ Only("_followup_intent", intents)

FollowWhy(p, s, text) ==
  IF ~ Says(text, {"why"}) THEN p
  ELSE AskFor(p ++ s.entities,
              IF s.last \cap {"reserve_calculation", "reserve_explanation"} # {}
              THEN {"reserve_explanation"} ELSE s.last)
FollowAnother(p, s, text) ==
  IF ~ Says(text, {"another"}) THEN p ELSE AskFor(p ++ s.filters, s.last)
\* Mutant: the metric is changed and the rest of the last cut forgotten.
FollowMetricBare(p, s, text, group, metric) ==
  IF ~ Says(text, {group}) THEN p
  ELSE AskFor(Field("metric", {metric}) ++ Field("metrics", {metric}) ++ p, {"analytics_slice"})
FollowMetric(p, s, text, group, metric) ==
  IF ~ Says(text, {group}) THEN p
  ELSE AskFor(Field("metric", {metric}) ++ Field("metrics", {metric}) ++ p ++ s.filters,
              IF s.last \cap {"sales_summary", "analytics_slice"} # {} THEN s.last
              ELSE {"analytics_slice"})
FollowCategories(p, s, text) ==
  IF ~ Says(text, {"bycategory"}) THEN p
  ELSE LET q == Field("dimensions", {"category"}) ++ p ++ s.filters
       IN  IF s.last \cap {"sales_summary", "analytics_slice", "reserve_calculation"} # {}
           THEN Field("_followup_intent", {"analytics_slice"}) ++ q
           ELSE AskFor(q, s.last)
FollowSkus(p, s, text) ==
  IF ~ Says(text, {"bysku"}) THEN p
  ELSE AskFor(Field("dimensions", {"sku", "article"}) ++ p ++ s.filters, {"analytics_slice"})
LastOrSlice(s) == IF s.last # {} THEN s.last ELSE {"analytics_slice"}
FollowTop(p, s, text) ==
  IF ~ Says(text, {"topn"}) THEN p
  ELSE AskFor(Field("limit", {"n"}) ++ p ++ s.filters ++ Field("sort_direction", {"desc"}), LastOrSlice(s))
FollowFall(p, s, text) ==
  IF ~ Says(text, {"dropped"}) THEN p
  ELSE AskFor(Field("sort_direction", {"asc"}) ++ p ++ s.filters
              ++ Only("sort_by", One(s.metrics)), LastOrSlice(s))
FollowProblems(p, s, text) ==
  IF ~ Says(text, {"onlyproblems", "showproblems", "critical"}) THEN p
  ELSE LET q == p ++ s.entities ++ s.filters
       IN  AskFor(IF s.last = {"analytics_slice"} THEN Field("filters", {"problematic"}) ++ q
                  ELSE q ++ Field("status", {"problematic"}) ++ Field("risk", {"at_risk"}), s.last)
AsQuantity(metrics) == {IF m = "sales_qty" THEN "quantity" ELSE m : m \in metrics}
FollowPrevious(p, s, text) ==
  IF ~ Says(text, {"previousmonth"}) THEN p
  ELSE LET metric == IF Get(s.compared, "metric") # {} THEN Get(s.compared, "metric")
                     ELSE IF s.metrics # {} THEN One(s.metrics)
                     ELSE IF s.last = {"sales_summary"} THEN {"revenue"} ELSE {}
           dates  == IF Get(s.filters, "dates") # {} THEN Get(s.filters, "dates")
                     ELSE Get(s.compared, "dates")
           q == p ++ Only("metric", AsQuantity(metric)) ++ Only("current_period", dates)
                  ++ Only("previous_period", PeriodBefore(dates))
       IN  IF s.last # {} THEN AskFor(q, {"period_comparison"}) ELSE q

(* The question back to a pending calculation, when it asks what to count.    *)
ForcedBy(s) ==
  IF s.pending = {"reserve_calculation"} /\ IsRecalculation(s.asks)
  THEN Field("_force_tool", {"calculate_reserve"}) ELSE NoParams
ResolveFollowUp(text, s, params) ==
  LET p0 == IF s.pending # {} /\ s.missing # {}
            THEN params ++ Field("_pending_intent", s.pending) ++ ForcedBy(s) ELSE params
      p1 == FollowAnother(FollowWhy(p0, s, text), s, text)
      p2 == FollowMetric(FollowMetric(p1, s, text, "pieces", "sales_qty"), s, text, "revenue", "revenue")
      p3 == FollowTop(FollowSkus(FollowCategories(p2, s, text), s, text), s, text)
      p4 == FollowPrevious(FollowProblems(FollowFall(p3, s, text), s, text), s, text)
  IN  IF HasContext(s) THEN p4 ELSE p0

\* Mutant: a pending question is not resumed.
FollowedIntentAnew(planned, params, text) ==
  LET followed == Get(params, "_followup_intent")
  IN  CHOOSE i \in (IF followed # {} /\ (planned \in Chat \/ IsContextual(text))
                    THEN followed ELSE {planned}) : TRUE
FollowedIntent(planned, params, text) ==
  LET resumed == IF planned \in Chat /\ Get(params, "_pending_intent") # {}
                 THEN Get(params, "_pending_intent") ELSE {planned}
      followed == Get(params, "_followup_intent")
  IN  CHOOSE i \in (IF followed # {} /\ (resumed \subseteq Chat \/ IsContextual(text))
                    THEN followed ELSE resumed) : TRUE

(* When the words decide nothing, a contextual question is read as the        *)
(* question of the last domain answer with this one behind it.                *)
QuestionOf(m) ==
  LET calls == {i \in DOMAIN m.calls : Get(m.calls[i].args, "question") # {}}
  IN  IF calls = {} THEN {} ELSE m.calls[Latest(calls)].args["question"]
IsSubstantive(text) == ~ IsRepair(text) /\ Says(text, {"long"})

HistoryFallback(text, intent, planned, plannedText, messages) ==
  LET kept   == IF intent \notin Chat /\ planned = "unsupported_or_ambiguous" THEN intent ELSE planned
      keptText == IF kept = planned THEN plannedText ELSE text
      users    == {i \in DOMAIN messages : messages[i].role = "user"}
      followups == {i \in users : ~ IsRepair(messages[i].text) /\ IsContextual(messages[i].text)}
      repairs  == IsRepair(text) /\ followups # {}
      domain   == {i \in DOMAIN messages : IsDomain(messages[i])}
      substantive == {i \in domain : \E t \in QuestionOf(messages[i]) : IsSubstantive(t)}
      base == IF substantive # {} THEN QuestionOf(messages[Latest(substantive)])
              ELSE IF QuestionOf(messages[Latest(domain)]) # {} THEN QuestionOf(messages[Latest(domain)])
              ELSE IF users = {} THEN {} ELSE {messages[Latest(users)].text}
      follow == IF repairs THEN messages[Latest(followups)].text ELSE text
  IN  IF intent \in Chat /\ (IsContextual(text) \/ repairs) /\ domain # {}
      THEN [intent |-> messages[Latest(domain)].intent,
            text |-> IF base = {} THEN keptText ELSE (CHOOSE b \in base : TRUE) \o follow]
      ELSE [intent |-> kept, text |-> keptText]

\* The words of what is read of the dialogue: the messages and the questions answered.
WordsIn(messages) ==
  {Words(messages[i].text) : i \in DOMAIN messages}
  \cup UNION {{Words(t) : t \in QuestionOf(messages[i])} : i \in DOMAIN messages}

(* ---------------------------- the parameters ----------------------------- *)
(* The question's client and category replace what was inherited; its SKUs    *)
(* replace sku_ids, but an inherited sku_id stays. The pinned context fills   *)
(* what is still missing.                                                     *)
\* Mutant: the pinned client comes before the one the question names.
EntityParamsPinned(inherited, route, pin) ==
  inherited ++ Only("client_id", pin.client) ++ Only("client_id", route.client)
            ++ Only("sku_id", route.sku)
EntityParams(inherited, route, pin) ==
  LET client == IF route.client # {} THEN Field("client_id", route.client) ++ inherited
                ELSE inherited ++ Only("client_id", pin.client)
      sku == IF route.skus # {} THEN Field("sku_ids", route.skus) ++ client ++ Field("sku_id", route.sku)
             ELSE client ++ Only("sku_id", pin.sku)
      category == IF route.category # {} THEN Field("category_id", route.category) ++ sku
                  ELSE sku ++ Only("category_id", pin.category)
  IN  category ++ Only("reserve_run_id", pin.run) ++ Only("client_name", route.client)

SalesParams(params, text) ==
  LET kept == Without(params, {"metrics", "dimensions"})
  IN  kept ++ Only("dates", PeriodOf(text))
           ++ Field("metric", IF MetricOf(text) # {} THEN MetricOf(text) ELSE {"revenue"})
ComparisonParams(params, text) ==
  LET metric == IF MetricOf(text) # {} THEN AsQuantity(MetricOf(text))
                ELSE IF Says(text, {"sales"}) THEN {"quantity"} ELSE {}
      current == params ++ Only("metric", metric) ++ Only("current_period", PeriodOf(text))
  IN  current ++ Only("previous_period", PeriodBefore(PeriodOf(text)))
              ++ Only("previous_period",
                      IF Says(text, {"previousmonth", "previous"})
                      THEN PeriodBefore(Get(current, "current_period")) ELSE {})

SourceDimensions(params, text) ==
  LET source == IF Known(Get(params, "metrics")) = {} THEN "sales"
                ELSE Catalog[CHOOSE m \in Known(Get(params, "metrics")) : TRUE].source
  IN CASE source = "sales"   -> IF Get(params, "client_id") # {} \/ IsOverview(text) THEN {} ELSE {"client"}
       [] source = "reserve" -> {"client", "sku", "article"}
       [] source = "catalog" -> {"article"}
       [] source = "management_report" -> {"product_group"}
       [] OTHER -> {"sku", "article"}
SliceParams(params, text) ==
  LET parsed == PeriodOf(text)
      period == IF Get(params, "period") # {} THEN params
                ELSE IF parsed # {} THEN Field("period", parsed) ++ params ++ Field("dates", parsed)
                ELSE Only("period", Get(params, "dates")) ++ params
      metrics == period ++ Field("question", {text})
                 ++ Only("metrics", IF MetricsOf(text) # {} THEN MetricsOf(text)
                                    ELSE IF MetricsIn(params) = {} THEN {"revenue", "sales_qty"} ELSE {})
      dims == IF DimensionsOf(text) # {} THEN metrics ++ Field("dimensions", DimensionsOf(text))
              ELSE IF Get(metrics, "dimensions") # {} THEN metrics
              ELSE metrics ++ Field("dimensions", SourceDimensions(metrics, text))
  IN  dims ++ (IF Says(text, {"top"}) THEN Field("limit", {"20"}) ELSE NoParams)
           ++ (IF Says(text, {"dropped"}) THEN Field("sort_direction", {"asc"}) ELSE NoParams)

ParamsFromRoute(text, route, pin, planned, inherited) ==
  LET entities == EntityParams(planned ++ inherited, route, pin)
      params ==
        CASE route.intent = "management_report_summary" -> entities ++ Field("question", {text})
          [] route.intent = "sales_summary"     -> SalesParams(entities, text)
          [] route.intent = "period_comparison" -> ComparisonParams(entities, text)
          [] route.intent = "analytics_slice"   -> SliceParams(entities, text)
          [] OTHER -> entities
  IN  Restricted(params, {f \in DOMAIN params : params[f] # {} \/ f = "dimensions"})

(* The context of the turn: the question's entities, else the pinned ones.    *)
Context(route, pin) ==
  [client |-> IF route.client # {} THEN route.client ELSE pin.client,
   sku |-> IF route.sku # {} THEN route.sku ELSE pin.sku, skus |-> route.skus,
   category |-> IF route.category # {} THEN route.category ELSE pin.category, run |-> pin.run]
Conflicts(route, pin) ==
  \/ route.client # {} /\ pin.client # {} /\ route.client # pin.client
  \/ route.sku # {} /\ pin.sku # {} /\ route.sku # pin.sku

(* A broad question that opens a dialogue is answered with a question.        *)
BusinessClarification(text, s) ==
  LET spec == CASE Says(text, {"performed"})    -> {[field |-> "metric", intent |-> "analytics_slice"]}
                [] Says(text, {"dropped"}) /\ ~ Says(text, {"month", "previousmonth", "previous", "year"}) ->
                     {[field |-> "period", intent |-> "analytics_slice"]}
                [] Says(text, {"showproblems"}) ->
                     {[field |-> "problem_scope", intent |-> "stock_risk_summary"]}
                [] Says(text, {"order"}) -> {[field |-> "order_basis", intent |-> "stock_risk_summary"]}
                [] Says(text, {"howarethings"}) ->
                     {[field |-> "business_area", intent |-> "analytics_slice"]}
                [] OTHER -> {}
  IN  IF HasContext(s) THEN {} ELSE spec

(* The tools: those the intent requires, then the support tools the planner   *)
(* adds; a calculation when the words ask to count, or when it is forced by   *)
(* the question it was put aside with or by the planner's parameters.         *)
IsForced(params) == "calculate_reserve" \in Get(params, "_force_tool")
SupportTools == {"get_quality_issues", "get_upload_status", "get_dashboard_summary"}
TakesSupport ==
  {"reserve_calculation", "reserve_explanation", "sku_summary", "client_summary",
   "diy_coverage_check", "inbound_impact", "stock_risk_summary"}
\* The tools of a plan that are among `wanted`, in their order.
Among(plan, wanted) ==
  LET kept == {i \in DOMAIN plan : plan[i] \in wanted}
      nth(k) == CHOOSE i \in kept : Cardinality({j \in kept : j <= i}) = k
  IN  [k \in 1 .. Cardinality(kept) |-> plan[nth(k)]]
\* Mutant: the planner may add the calculation.
ExecutionPlanTrusting(intent, planned, text, params) ==
  DefaultPlan(intent) \o Among(planned, Tools \ ToSet(DefaultPlan(intent)))
ExecutionPlan(intent, planned, text, params) ==
  LET required == IF intent = "reserve_calculation" /\ (IsRecalculation(text) \/ IsForced(params))
                  THEN <<"calculate_reserve", "get_quality_issues", "get_upload_status">>
                  ELSE DefaultPlan(intent)
      allowed == ToSet(required)
                 \cup (IF intent \in TakesSupport THEN SupportTools ELSE {})
                 \cup (IF intent = "management_report_summary"
                       THEN {"get_upload_status", "get_quality_issues"} ELSE {})
      plan == required \o Among(planned, allowed \ ToSet(required))
  IN  IF intent \in Chat THEN <<>> ELSE SubSeq(plan, 1, IF Len(plan) > 3 THEN 3 ELSE Len(plan))

(* ------------------------------ the handler ------------------------------ *)
(* The route, parameters and tools of a question that is settled.             *)
Prepared(q, reply, pin, state, intent, plan, resolved, settled) ==
  LET route    == RouteQuestion(settled.text, settled.intent)
      params   == ParamsFromRoute(settled.text, route, pin, plan.params, resolved)
      tools    == ExecutionPlan(route.intent, plan.tools, settled.text, params)
      lacking  == IF tools = <<>> THEN {} ELSE MissingParams(tools[1], params)
  IN  [q |-> q, silent |-> reply = Silence, wording |-> reply.text, words |-> intent,
       state |-> state, forced |-> IsForced(plan.params),
       intent |-> route.intent, text |-> settled.text, tools |-> tools, params |-> params,
       ctx |-> Context(route, pin), warned |-> route.warned \/ Conflicts(route, pin),
       business |-> BusinessClarification(<<q>>, state),
       unknown |-> IF tools = <<>> THEN {} ELSE UnknownParams(tools[1], params),
       missing |-> plan.missing \cup lacking,
       asks |-> IF lacking = {} THEN plan.asks ELSE <<>>,
       done |-> <<>>, got |-> "", alarmed |-> FALSE, failed |-> FALSE, run |-> {}, stored |-> FALSE]

(* Everything that is decided before a tool runs.                             *)
Read(q, reply, pin) ==
  LET text     == <<q>>
      messages == Recent
      state    == Derive(messages)
      intent   == DetectIntent(text)
      plan     == PlanRoute(q, intent, reply)
      resolved == ResolveFollowUp(text, state, plan.params)
      settled  == HistoryFallback(text, intent, FollowedIntent(plan.intent, resolved, text),
                                  plan.text, messages)
  IN  Prepared(q, reply, pin, state, intent, plan, resolved, settled)

(* What the properties need to know of the question that was answered.        *)
Told(r, status, intent, warned, missing) ==
  [status |-> status, intent |-> intent, warned |-> warned, missing |-> missing,
   done |-> r.done, got |-> r.got, failed |-> r.failed,
   q |-> r.q, silent |-> r.silent, wording |-> r.wording, words |-> r.words, text |-> r.text,
   state |-> r.state,
   said |-> WordsIn(Recent),
   fresh |-> Recent # <<>> /\ IsDomain(Recent[Len(Recent)]) /\ ~ Recent[Len(Recent)].clarifies]

Turns  == Cardinality({i \in DOMAIN history : history[i].role = "user"})
IsFree == turn = NoTurn /\ Turns + 1 \in DOMAIN Asks

(* The question is refused before anything is stored.                         *)
RefuseParams(r) ==
  /\ r.business = {} /\ r.unknown # {}
  /\ told' = Told(r, "refused", r.intent, FALSE, {})
  /\ UNCHANGED <<history, grants, runs, turn>>

Clarify(r) ==
  LET spec == IF r.business # {} THEN CHOOSE b \in r.business : TRUE
              ELSE [field |-> "", intent |-> r.intent]
      missing == IF r.business # {} THEN {spec.field} ELSE r.missing
      asks == IF r.business # {} THEN <<>> ELSE r.asks
  IN  /\ r.business # {} \/ (r.unknown = {} /\ r.missing # {})
      /\ history' = history \o <<UserMessage(r.q), Clarification(spec.intent, missing, asks)>>
      /\ told' = Told(r, "needs_clarification", spec.intent, FALSE, missing)
      /\ UNCHANGED <<grants, runs, turn>>

Chatted(r) ==
  /\ r.business = {} /\ r.missing = {} /\ r.intent \in Chat
  /\ history' = history \o <<UserMessage(r.q), Answer(r.intent, FALSE, {}, <<>>, {})>>
  /\ told' = Told(r, IF r.intent = "free_chat" THEN "completed" ELSE "unsupported",
                  r.intent, r.warned, {})
  /\ UNCHANGED <<grants, runs, turn>>

StartTools(r) ==
  /\ r.business = {} /\ r.unknown = {} /\ r.missing = {} /\ r.tools # <<>>
  /\ turn' = r
  /\ told' = Nothing
  /\ UNCHANGED <<history, grants, runs>>

Ask ==
  /\ IsFree
  /\ \E a \in Asks[Turns + 1] :
       \E r \in {Read(a.q, a.reply, a.pin)} :
         RefuseParams(r) \/ Clarify(r) \/ Chatted(r) \/ StartTools(r)

(* Rows or none is all the same for a support tool that does not warn.       *)
OutcomesNow(tool, params, ctx) ==
  IF turn.done = <<>> THEN Outcomes(tool, params, ctx)
  ELSE Outcomes(tool, params, ctx) \ IF tool \in EmptyIsSilent THEN {"empty"} ELSE {}

(* One tool. Its parameters are those of the turn when it is the primary one  *)
(* or of the intent; a support tool gets none and works in the context.       *)
ToolParams ==
  IF turn.done = <<>> \/ Contract[Head(turn.tools)].intent = turn.intent THEN turn.params ELSE NoParams
Allowed(tool, params) == Capabilities(tool, params) \subseteq grants
IsAvailable(params) ==
  /\ Get(params, "client_id") \subseteq Clients
  /\ Get(params, "sku_id") \cup Get(params, "sku_ids") \subseteq Skus
  /\ Get(params, "category_id") \subseteq Categories

(* A calculation is committed, with everything stored so far, before the      *)
(* analytics are refreshed: it may fail after the run is there.               *)
Calculates(tool, outcome, ctx, kept) ==
  IF tool = "calculate_reserve" /\ (outcome \in {"rows", "empty"} \/ kept)
  THEN runs' = Append(runs, [client |-> ctx.client, q |-> turn.q, text |-> turn.text,
                             silent |-> turn.silent, forced |-> turn.forced,
                             resumed |-> turn.state.asks])
  ELSE UNCHANGED runs
SourceRun(tool, outcome, ctx) ==
  CASE tool = "calculate_reserve" /\ outcome \in {"rows", "empty"} -> {Len(runs) + 1}
    [] tool = "get_reserve" /\ outcome \in {"rows", "empty"} -> {SavedRun}
    [] tool = "get_reserve_explanation" /\ outcome = "rows" ->
         IF ctx.run # {} THEN ctx.run ELSE {SavedRun}
    [] OTHER -> {}

(* The handlers change the bundle of the turn itself.                         *)
\* Mutant: each handler works on a copy of it.
NextContextCopied(before, used) == before
NextContext(before, used) == used

Dispatch ==
  /\ turn.tools # <<>>
  /\ LET tool   == Head(turn.tools)
         params == ToolParams
         ctx    == Handled(tool, params, turn.ctx)
     IN  /\ Allowed(tool, params) /\ IsAvailable(params)
         /\ \E outcome \in OutcomesNow(tool, params, ctx),
               kept \in IF tool = "calculate_reserve" THEN BOOLEAN ELSE {FALSE} :
              /\ kept => outcome = "failed"
              /\ Calculates(tool, outcome, ctx, kept)
              /\ turn' = [turn EXCEPT
                   !.tools = Tail(@), !.ctx = NextContext(@, ctx), !.stored = @ \/ runs' # runs,
                   !.run = IF turn.done = <<>> THEN SourceRun(tool, outcome, ctx) ELSE @,
                   !.got = IF turn.done = <<>> THEN outcome ELSE @,
                   !.alarmed = @ \/ Warns(tool, outcome), !.failed = @ \/ outcome = "failed",
                   !.done = Append(@, [tool |-> tool, args |-> Arguments(tool, params, ctx)])]
  /\ UNCHANGED <<history, grants, told>>

\* Mutant: the question of a denied turn stays.
DenyKeepsQuestion ==
  /\ turn.tools # <<>>
  /\ ~ (Allowed(Head(turn.tools), ToolParams) /\ IsAvailable(ToolParams))
  /\ history' = Append(history, UserMessage(turn.q))
  /\ told' = Told(turn, "refused", turn.intent, FALSE, {})
  /\ turn' = NoTurn
  /\ UNCHANGED <<grants, runs>>
(* A tool the user may not call, or an entity that does not exist, ends the   *)
(* turn with an error. Nothing of it stays, unless a calculation has already  *)
(* committed the message with it.                                             *)
Deny ==
  /\ turn.tools # <<>>
  /\ ~ (Allowed(Head(turn.tools), ToolParams) /\ IsAvailable(ToolParams))
  /\ history' = IF turn.stored THEN Append(history, UserMessage(turn.q)) ELSE history
  /\ told' = Told(turn, "refused", turn.intent, FALSE, {})
  /\ turn' = NoTurn
  /\ UNCHANGED <<grants, runs>>

Compose ==
  /\ turn.tools = <<>> /\ turn.done # <<>>
  /\ LET status == AnswerStatus(turn.intent, turn.got, turn.alarmed, turn.warned)
         lost   == status = "unsupported"
         intent == IF lost THEN "unsupported_or_ambiguous" ELSE turn.intent
         calls  == IF lost THEN <<>> ELSE turn.done
     IN  /\ history' = history \o
              <<UserMessage(turn.q),
                Answer(intent, status = "needs_clarification", {}, calls,
                       IF lost THEN {} ELSE turn.run)>>
         /\ told' = Told(turn, status, turn.intent,
                         AnswerWarned(turn.intent, turn.got, turn.alarmed, turn.warned), {})
  /\ turn' = NoTurn
  /\ UNCHANGED <<grants, runs>>

(* An administrator changes what the user may do, also during a turn.         *)
Regrant(g) ==
  /\ g # grants /\ grants' = g
  /\ UNCHANGED <<history, runs, turn, told>>

Init ==
  /\ history = <<>> /\ runs = <<>>
  /\ turn = NoTurn /\ told = Nothing
  /\ grants \in Grants

Next ==
  \/ Ask
  \/ Dispatch
  \/ Deny
  \/ Compose
  \/ \E g \in Grants : Regrant(g)

Spec == Init /\ [][Next]_vars

(* ------------------------------ properties ------------------------------- *)
(* Shapes of the dialogue's state.                                            *)
TypeOK ==
  /\ \A i \in DOMAIN history : history[i].role \in {"user", "assistant"}
  /\ grants \in Grants
  /\ turn = NoTurn \/ (turn.intent \in Intents /\ ToSet(turn.tools) \subseteq Tools)
  /\ told.status \in {"nothing", "refused", "completed", "partial", "no_data",
                      "needs_clarification", "unsupported"}

Answered == told.status \notin {"nothing", "refused"} /\ told.done # <<>>
OwnText  == <<told.q>>
Depends  == IsContextual(OwnText) \/ IsRepair(OwnText)   \* it is read with what came before

(* The planner may enrich a question the words decide but not switch it to    *)
(* another family of tools (providers.py: "it cannot silently switch a        *)
(* sales/stock/reserve question to an incompatible tool family"); only a      *)
(* question about a reserve may end in a calculation of one.                  *)
ToolsStayInFamily ==
  Answered /\ told.words \notin Chat /\ ~ Depends
    => told.done[1].tool \in {DefaultPlan(i)[1] : i \in {j \in Intents \ Chat : Compatible(told.words, j)}}
         \cup (IF told.words = "reserve_calculation" THEN {"calculate_reserve"} ELSE {})

(* A question that stands on its own is answered in its own words or in those *)
(* the planner rewrote it in, and the client these name is the one that every *)
(* tool with a client works on, whatever the dialogue, the pinned context and *)
(* the parameters of the planner say.                                         *)
NamedClientIsUsed ==
  Answered /\ ~ Depends =>
    /\ told.text \in {OwnText} \cup ({told.wording} \ {<<>>})
    /\ FirstClient(told.text) # {} =>
         \A i \in DOMAIN told.done :
           Get(told.done[i].args, "client_id") =
             IF told.done[i].tool \in ClientTools THEN FirstClient(told.text) ELSE {}

(* The tools of one answer record one client_id and one sku_id at most: the   *)
(* support tools get no parameters and follow what the primary tool put into  *)
(* the context. (Lists of SKUs, sku_ids, are not compared.)                   *)
AnswerIsOfOneSubject ==
  Answered =>
    \A field \in {"client_id", "sku_id"} :
      Cardinality(UNION {Get(told.done[i].args, field) : i \in DOMAIN told.done}) <= 1

(* After an answer about a client a follow-up that asks for another cut of it *)
(* stays with the client, whatever else it asks and whichever client is       *)
(* pinned, as long as what is read of the dialogue (messages and the          *)
(* questions answered) names no other, and no planner answers the follow-up.  *)
ClientsSaid == (UNION (told.said \cup {told.q})) \cap Clients
FollowUpKeepsClient ==
  /\ Answered /\ told.silent /\ told.fresh /\ told.q \cap {"pieces", "bycategory", "another"} # {}
  /\ ClientsSaid # {} /\ Get(told.state.filters, "client_id") = ClientsSaid
  => \E i \in DOMAIN told.done : Get(told.done[i].args, "client_id") = ClientsSaid

(* Without a planner, a client given in reply to "which client?" resumes the  *)
(* intent of the question that was put aside, and is not asked for again.     *)
ReplyResumesQuestion ==
  /\ told.status # "nothing" /\ told.silent
  /\ told.q \subseteq Clients /\ told.q # {} /\ told.state.missing = {"client_id"}
  => /\ told.status # "refused" => told.intent \in told.state.pending
     /\ "client_id" \notin told.missing

(* A calculation is asked for: in the words the question is answered in, its  *)
(* own or the planner's or an earlier question's that a contextual one refers *)
(* to; by the question back it replies to; or by the planner's _force_tool.   *)
(* That a planner names the tool, or adds it to a plan, is not enough.        *)
CalculationsAreAskedFor ==
  \A i \in DOMAIN runs :
    \/ runs[i].forced
    \/ IsRecalculation(runs[i].resumed)
    \/ /\ IsRecalculation(runs[i].text)
       /\ runs[i].silent => IsRecalculation(<<runs[i].q>>) \/ IsContextual(<<runs[i].q>>)
                            \/ IsRepair(<<runs[i].q>>)

(* A tool that failed is told, and an answer without the data it is about is  *)
(* not told as complete: except a calculation, or the summary of a client,    *)
(* that found no rows.                                                        *)
AnswerIsHonest ==
  Answered =>
    /\ told.failed => told.warned \/ told.status = "unsupported"
    /\ told.got # "rows" /\ told.status = "completed" =>
         told.got = "empty" /\ told.done[1].tool \in {"calculate_reserve", "get_client_summary"}

(* A refused question leaves the dialogue as it was, unless a calculation had *)
(* been committed in the same turn; and no step rewrites what was said.       *)
RefusalLeavesNothing ==
  [][/\ told'.status = "refused" /\ history' # history => turn # NoTurn /\ turn.stored
     /\ IsPrefix(history, history')]_vars

=============================================================================
