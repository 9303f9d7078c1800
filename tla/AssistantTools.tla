--------------------------- MODULE AssistantTools ---------------------------
(* The tools of the assistant: the contract of each in the registry, the       *)
(* rights it needs, the catalog of metrics and dimensions behind the           *)
(* analytics slice, what a handler takes from the parameters of the plan and   *)
(* what it records as its arguments, and the answer composed from the results. *)
(* Parameters and arguments are functions from field names to sets of values;  *)
(* a field that is absent is one the code leaves out as None, "" or [].        *)
(* "dates" stands for date_from and date_to, which always come together.       *)
EXTENDS AssistantRouting

NoParams == <<>>
Field(field, value) == [f \in {field} |-> value]
(* The fields of p, and those of q that p does not have.                      *)
p ++ q == [f \in DOMAIN p \cup DOMAIN q |-> IF f \in DOMAIN p THEN p[f] ELSE q[f]]
Only(field, value) == IF value = {} THEN NoParams ELSE Field(field, value)
Get(params, field) == IF field \in DOMAIN params THEN params[field] ELSE {}
Without(params, fields) == [f \in DOMAIN params \ fields |-> params[f]]
Restricted(params, fields) == [f \in DOMAIN params \cap fields |-> params[f]]

(* ------------------------------- contracts ------------------------------- *)
ReserveFields == {"client_id", "client_name", "sku_id", "sku_ids", "category_id",
                  "reserve_months", "reserve_run_id", "status", "risk", "filters"}
Contract == [
  calculate_reserve       |-> [intent |-> "reserve_calculation", required |-> {"client_id"},
                               optional |-> ReserveFields, needs |-> {"reserve:read", "reserve:run"}],
  get_reserve             |-> [intent |-> "reserve_calculation", required |-> {},
                               optional |-> ReserveFields, needs |-> {"reserve:read"}],
  get_reserve_explanation |-> [intent |-> "reserve_explanation", required |-> {},
                               optional |-> ReserveFields, needs |-> {"reserve:read"}],
  get_stock_coverage      |-> [intent |-> "stock_risk_summary", required |-> {},
                               optional |-> {"category_id", "sku_id", "client_id", "status", "risk",
                                             "filters", "reserve_months"},
                               needs |-> {"stock:read"}],
  get_sku_summary         |-> [intent |-> "sku_summary", required |-> {},
                               optional |-> {"sku_id", "sku_ids", "client_id"},
                               needs |-> {"catalog:read"}],
  get_client_summary      |-> [intent |-> "client_summary", required |-> {"client_id"},
                               optional |-> {"client_name"},
                               needs |-> {"clients:read", "reserve:read"}],
  get_inbound_impact      |-> [intent |-> "inbound_impact", required |-> {},
                               optional |-> {"client_id", "sku_id", "sku_ids"},
                               needs |-> {"inbound:read"}],
  get_upload_status       |-> [intent |-> "upload_status_summary", required |-> {},
                               optional |-> {"upload_ids", "client_id", "sku_id"},
                               needs |-> {"uploads:read"}],
  get_quality_issues      |-> [intent |-> "quality_issue_summary", required |-> {},
                               optional |-> {"client_id", "sku_id", "upload_ids"},
                               needs |-> {"quality:read"}],
  get_dashboard_summary   |-> [intent |-> "dashboard_summary", required |-> {},
                               optional |-> {}, needs |-> {"dashboard:read"}],
  get_management_report   |-> [intent |-> "management_report_summary", required |-> {"question"},
                               optional |-> {"year", "rank", "metric"}, needs |-> {"reports:read"}],
  get_sales_summary       |-> [intent |-> "sales_summary", required |-> {"dates"},
                               optional |-> {"client_id", "client_name", "sku_id", "sku_ids", "metric"},
                               needs |-> {"sales:read"}],
  get_period_comparison   |-> [intent |-> "period_comparison",
                               required |-> {"metric", "current_period", "previous_period"},
                               optional |-> {"client_id", "client_name", "sku_id", "sku_ids"},
                               needs |-> {"sales:read"}],
  get_analytics_slice     |-> [intent |-> "analytics_slice", required |-> {"metrics"},
                               optional |-> {"metric", "dimensions", "filters", "period", "dates",
                                             "sort_by", "sort_direction", "limit", "question",
                                             "client_id", "client_name", "sku_id", "sku_ids",
                                             "category_id"},
                               needs |-> {"sales:read"}],
  get_data_overview       |-> [intent |-> "data_overview", required |-> {}, optional |-> {},
                               needs |-> {"dashboard:read", "catalog:read", "clients:read",
                                          "uploads:read", "sales:read", "stock:read", "reserve:read",
                                          "inbound:read", "quality:read", "reports:read"}]]
Tools == DOMAIN Contract
AllowedFields(tool) == Contract[tool].required \cup Contract[tool].optional

DefaultPlan(intent) ==
  CASE intent = "reserve_calculation" -> <<"get_reserve", "get_quality_issues", "get_upload_status">>
    [] intent = "reserve_explanation" ->
         <<"get_reserve_explanation", "get_sku_summary", "get_quality_issues">>
    [] intent = "sku_summary"         -> <<"get_sku_summary", "get_quality_issues">>
    [] intent \in {"client_summary", "diy_coverage_check"} ->
         <<"get_client_summary", "get_dashboard_summary">>
    [] intent = "inbound_impact"      -> <<"get_inbound_impact", "get_dashboard_summary">>
    [] intent = "stock_risk_summary"  -> <<"get_stock_coverage", "get_dashboard_summary">>
    [] intent = "upload_status_summary" ->
         <<"get_upload_status", "get_dashboard_summary", "get_quality_issues">>
    [] intent = "quality_issue_summary" -> <<"get_quality_issues", "get_upload_status">>
    [] intent = "management_report_summary" -> <<"get_management_report">>
    [] intent = "sales_summary"       -> <<"get_sales_summary">>
    [] intent = "period_comparison"   -> <<"get_period_comparison">>
    [] intent = "analytics_slice"     -> <<"get_analytics_slice">>
    [] intent = "data_overview"       -> <<"get_data_overview">>
    [] OTHER -> <<>>

(* ------------------------ metrics and dimensions ------------------------- *)
ClientDims == {"client"}
SkuDims    == {"sku", "article", "category"}
TimeDims   == {"month", "year"}
Catalog ==
  [m \in {"sales_qty", "revenue", "gross_profit"} |->
     [source |-> "sales", dims |-> ClientDims \cup SkuDims \cup TimeDims,
      needs |-> {"sales:read"} \cup IF m = "gross_profit" THEN {"catalog:read"} ELSE {}]]
  ++ Field("unit_cost", [source |-> "catalog", dims |-> SkuDims, needs |-> {"catalog:read"}])
  ++ Field("stock_qty", [source |-> "stock", dims |-> SkuDims \cup TimeDims \cup {"warehouse"},
                         needs |-> {"stock:read"}])
  ++ Field("shortage_qty", [source |-> "reserve", dims |-> ClientDims \cup SkuDims,
                            needs |-> {"reserve:read"}])
  ++ Field("inbound_qty", [source |-> "inbound", dims |-> SkuDims \cup TimeDims,
                           needs |-> {"inbound:read"}])
  ++ Field("profitability", [source |-> "management_report",
                             dims |-> {"product_group", "category", "year"},
                             needs |-> {"reports:read"}])
DimensionNeeds(d) ==
  CASE d = "client" -> {"clients:read"}
    [] d \in SkuDims -> {"catalog:read"}
    [] d = "product_group" -> {"reports:read"}
    [] d = "warehouse" -> {"stock:read"}
    [] OTHER -> {}

Known(metrics) == metrics \cap DOMAIN Catalog
Sources(metrics) == {Catalog[m].source : m \in Known(metrics)}
CapabilitiesForSlice(metrics, dims) ==
  LET all == UNION {Catalog[m].needs : m \in Known(metrics)} \cup UNION {DimensionNeeds(d) : d \in dims}
  IN  IF all = {} THEN {"sales:read"} ELSE all
(* The slice cannot be built: an unknown metric, a dimension its source does  *)
(* not have, or metrics of several sources.                                   *)
IsUnsupported(metrics, dims) ==
  \/ ~ metrics \subseteq DOMAIN Catalog
  \/ Cardinality(Sources(metrics)) # 1
  \/ \E d \in dims, m \in metrics : d \notin Catalog[m].dims

(* ------------------------- checks of the registry ------------------------ *)
MetricsIn(params) ==
  IF Get(params, "metrics") # {} THEN Get(params, "metrics") ELSE Get(params, "metric")
Capabilities(tool, params) ==
  IF tool = "get_analytics_slice"
  THEN CapabilitiesForSlice(IF MetricsIn(params) = {} THEN {"revenue"} ELSE MetricsIn(params),
                            Get(params, "dimensions"))
  ELSE Contract[tool].needs

(* A parameter outside the contract refuses the question; a required one that *)
(* is missing is asked for.                                                   *)
InternalFields == {"_followup_intent", "_pending_intent", "_force_tool"}
UnknownParams(tool, params) == DOMAIN params \ (AllowedFields(tool) \cup InternalFields)
MissingParams(tool, params) ==
  {f \in Contract[tool].required : Get(params, f) = {}}
  \cup IF /\ tool = "get_analytics_slice"
          /\ Sources(MetricsIn(params)) \cap {"sales", "inbound", "management_report"} # {}
          /\ Get(params, "period") = {} /\ Get(params, "dates") = {}
       THEN {"period"} ELSE {}

(* -------------------------------- handlers ------------------------------- *)
(* The resolved context is shared by the tools of a turn: the parameters that *)
(* a handler takes overwrite it for the tools after it.                       *)
Over(params, field, value) == IF Get(params, field) # {} THEN params[field] ELSE value
ApplyParams(params, ctx) ==
  [ctx EXCEPT !.client = Over(params, "client_id", @), !.sku = Over(params, "sku_id", @),
              !.skus = Over(params, "sku_ids", @), !.category = Over(params, "category_id", @),
              !.run = Over(params, "reserve_run_id", @)]
(* The tools that record the client they work on.                             *)
ClientTools ==
  {"calculate_reserve", "get_reserve", "get_reserve_explanation", "get_client_summary",
   "get_inbound_impact", "get_sales_summary", "get_period_comparison", "get_analytics_slice"}
IgnoresContext(tool) ==
  tool \in {"get_dashboard_summary", "get_management_report", "get_data_overview"}
Handled(tool, params, ctx) == IF IgnoresContext(tool) THEN ctx ELSE ApplyParams(params, ctx)

ProblemStatus(params) == IF Get(params, "status") # {} THEN params["status"] ELSE Get(params, "risk")
(* What a tool records as its arguments, from the context it was left with;   *)
(* the sales tools prefer their parameters.                                   *)
ClientOf(ctx) == Only("client_id", ctx.client)
SkuOf(ctx)    == Only("sku_id", ctx.sku)
NamedIn(params, ctx) == Only("client_id", Over(params, "client_id", ctx.client))
                        ++ Only("sku_id", Over(params, "sku_id", ctx.sku))
CalculationArgs(ctx) ==
  ClientOf(ctx) ++ Only("sku_ids", ctx.skus \cup ctx.sku) ++ Only("category_ids", ctx.category)
ReserveArgs(params, ctx) ==
  ClientOf(ctx) ++ Only("sku_ids", ctx.skus \cup ctx.sku) ++ Only("category_id", ctx.category)
  ++ Only("status", IF Get(params, "status") # {} THEN params["status"] ELSE Get(params, "risk"))
ExplanationArgs(ctx) == ClientOf(ctx) ++ SkuOf(ctx) ++ Only("run_id", ctx.run)
StockArgs(ctx)       == Only("category_id", ctx.category) ++ SkuOf(ctx)
InboundArgs(ctx)     == ClientOf(ctx) ++ SkuOf(ctx)
SalesArgs(params, ctx) == Only("dates", Get(params, "dates")) ++ NamedIn(params, ctx)
ComparisonArgs(params, ctx) ==
  Restricted(params, {"metric", "current_period", "previous_period"}) ++ NamedIn(params, ctx)
SliceArgs(params, ctx) ==
  Only("metrics", MetricsIn(params)) ++ Only("category_id", Over(params, "category_id", ctx.category))
  ++ NamedIn(params, ctx)
  ++ [f \in {g \in {"dimensions", "period", "dates", "filters", "sort_by", "sort_direction", "limit"} :
               Get(params, g) # {}} |-> params[f]]
Arguments(tool, params, ctx) ==
  CASE tool = "calculate_reserve"       -> CalculationArgs(ctx)
    [] tool = "get_reserve"             -> ReserveArgs(params, ctx)
    [] tool = "get_reserve_explanation" -> ExplanationArgs(ctx)
    [] tool = "get_stock_coverage"      -> StockArgs(ctx)
    [] tool \in {"get_sku_summary", "get_quality_issues"} -> SkuOf(ctx)
    [] tool = "get_client_summary"      -> ClientOf(ctx)
    [] tool = "get_inbound_impact"      -> InboundArgs(ctx)
    [] tool = "get_management_report"   -> Only("question", Get(params, "question"))
    [] tool = "get_sales_summary"       -> SalesArgs(params, ctx)
    [] tool = "get_period_comparison"   -> ComparisonArgs(params, ctx)
    [] tool = "get_analytics_slice"     -> SliceArgs(params, ctx)
    [] OTHER -> NoParams

(* How a handler may end, from the data the model leaves open. "none" is a    *)
(* result without a payload and "empty" one without rows. Entities are looked *)
(* up before a handler runs: only a SKU that nothing names is not found.      *)
Found    == {"rows", "failed"}
Listed   == Found \cup {"empty"}
Optional == Listed \cup {"none"}
CalculationEnds == Listed
ReserveEnds     == Optional
ExplanationEnds == Found \cup {"none"}
SkuEnds(ctx)    == IF ctx.sku = {} THEN {"none"} ELSE Found
ClientEnds      == Listed
InboundEnds     == Listed
StockEnds       == Listed
UploadEnds      == Listed
QualityEnds     == Listed
DashboardEnds   == Found
OverviewEnds    == Listed
ReportEnds      == Optional
SalesEnds       == Listed
ComparisonEnds  == Listed
SliceEnds(params) ==
  IF IsUnsupported(MetricsIn(params), Get(params, "dimensions")) THEN {"unsupported"} ELSE Listed
Outcomes(tool, params, ctx) ==
  CASE tool = "calculate_reserve"       -> CalculationEnds
    [] tool = "get_reserve"             -> ReserveEnds
    [] tool = "get_reserve_explanation" -> ExplanationEnds
    [] tool = "get_sku_summary"         -> SkuEnds(ctx)
    [] tool = "get_client_summary"      -> ClientEnds
    [] tool = "get_inbound_impact"      -> InboundEnds
    [] tool = "get_stock_coverage"      -> StockEnds
    [] tool = "get_upload_status"       -> UploadEnds
    [] tool = "get_quality_issues"      -> QualityEnds
    [] tool = "get_dashboard_summary"   -> DashboardEnds
    [] tool = "get_data_overview"       -> OverviewEnds
    [] tool = "get_management_report"   -> ReportEnds
    [] tool = "get_sales_summary"       -> SalesEnds
    [] tool = "get_period_comparison"   -> ComparisonEnds
    [] tool = "get_analytics_slice"     -> SliceEnds(params)
(* Lists of deliveries, stock, files and issues may be empty without warning, *)
(* and so may a calculation and the summary of a client without reserve rows. *)
EmptyIsSilent == {"get_inbound_impact", "get_stock_coverage", "get_upload_status",
                  "get_quality_issues", "get_management_report", "calculate_reserve",
                  "get_client_summary"}
Warns(tool, outcome) ==
  \/ outcome \in {"failed", "none", "unsupported"}
  \/ outcome = "empty" /\ tool \notin EmptyIsSilent

(* ------------------------------- the answer ------------------------------ *)
(* got: how the primary tool ended; alarmed: some tool of the turn warned;    *)
(* warned: the route or the context already carries a warning.                *)
(* A summary of a SKU that was not found is told without its tool calls and   *)
(* their warnings.                                                            *)
NoPayload(got) == got \in {"none", "failed"}
AnswerWarned(intent, got, alarmed, warned) ==
  warned \/ (alarmed /\ ~ (intent = "sku_summary" /\ NoPayload(got)))
ByRows(got)         == IF got = "rows" THEN "completed" ELSE "partial"
ByWarnings(warned)  == IF warned THEN "partial" ELSE "completed"
OverviewStatus(got) == ByRows(got)
ReserveStatus(got, warned)     == IF NoPayload(got) THEN "partial" ELSE ByWarnings(warned)
ExplanationStatus(got, warned) == IF NoPayload(got) THEN "needs_clarification" ELSE ByWarnings(warned)
SkuStatus(got, warned)         == IF NoPayload(got) THEN "unsupported" ELSE ByWarnings(warned)
ClientStatus(got, warned)      == IF NoPayload(got) THEN "needs_clarification" ELSE ByWarnings(warned)
InboundStatus(got) == ByRows(got)
StockStatus(got)   == ByRows(got)
SalesStatus(got)   == ByRows(got)
SliceStatus(got)   == CASE got = "unsupported" -> "needs_clarification"
                        [] got = "rows" -> "completed"
                        [] OTHER -> "no_data"
ComparisonStatus(got) == ByRows(got)
UploadStatus(got)     == ByRows(got)
QualityStatus(got)    == ByRows(got)
ReportStatus(got)     == ByRows(got)
\* Mutant: an answer is complete when its primary tool ended without an exception.
AnswerStatusOptimistic(intent, got, alarmed, warned) ==
  IF got = "failed" THEN "partial" ELSE "completed"
AnswerStatus(intent, got, alarmed, warned) ==
  LET told == AnswerWarned(intent, got, alarmed, warned)
  IN CASE intent = "data_overview"       -> OverviewStatus(got)
       [] intent = "reserve_calculation" -> ReserveStatus(got, told)
       [] intent = "reserve_explanation" -> ExplanationStatus(got, told)
       [] intent = "sku_summary"         -> SkuStatus(got, told)
       [] intent \in {"client_summary", "diy_coverage_check"} -> ClientStatus(got, told)
       [] intent = "inbound_impact"      -> InboundStatus(got)
       [] intent = "stock_risk_summary"  -> StockStatus(got)
       [] intent = "sales_summary"       -> SalesStatus(got)
       [] intent = "analytics_slice"     -> SliceStatus(got)
       [] intent = "period_comparison"   -> ComparisonStatus(got)
       [] intent = "upload_status_summary" -> UploadStatus(got)
       [] intent = "quality_issue_summary" -> QualityStatus(got)
       [] intent = "management_report_summary" -> ReportStatus(got)
=============================================================================
