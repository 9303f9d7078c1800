-------------------------- MODULE AssistantRouting --------------------------
(* How the assistant reads a question: the intent its words select, the       *)
(* entities and the period it names, the metrics and dimensions it asks for,  *)
(* and what makes it a follow-up of the dialogue.                             *)
(* A text is a sequence of parts, each the set of the word groups it says: a  *)
(* group ("deficit", "byclient", ...) stands for the tokens the source looks  *)
(* for together, and the codes of clients, SKUs and categories are words too. *)
(* A question is one part; "<base>. Follow-up: <question>" is several.        *)
EXTENDS Naturals, Sequences, FiniteSets

CONSTANTS ClientOrder,        \* the clients, the one with the longest alias first
          Skus, Categories    \* the codes a question may mention

Chat == {"free_chat", "unsupported_or_ambiguous"}
AnalyticsFamily == {"analytics_slice", "sales_summary", "period_comparison"}
Intents == Chat \cup AnalyticsFamily \cup
  {"reserve_calculation", "reserve_explanation", "stock_risk_summary", "inbound_impact",
   "diy_coverage_check", "sku_summary", "client_summary", "upload_status_summary",
   "quality_issue_summary", "management_report_summary", "data_overview"}

(* The clients are in a list; the code of a client is none of the groups.     *)
Groups ==
  {"affects", "again", "another", "arrived", "belowreserve", "bycategory", "byclient",
   "bymonth", "bysku", "chat", "client", "closed", "compare", "cost", "count",
   "critical", "deficit", "delivery", "detail", "dropped", "external", "goods", "help",
   "howarethings", "howisclient", "inventory", "lacks", "leftover", "long", "month",
   "next", "now", "onlyproblems", "order", "performed", "period", "pieces", "previous",
   "previousmonth", "profit", "profitability", "quality", "recount", "report",
   "reserve", "revenue", "riskzone", "sales", "showproblems", "showreserve", "sku",
   "stock", "tally", "top", "topn", "total", "upload", "whatabout", "why", "year", "yearphrase"}
Clients == {ClientOrder[i] : i \in DOMAIN ClientOrder}
ASSUME CodesAssumption == ClientOrder \in Seq(STRING) /\ Clients \cap Groups = {}

Words(text) == UNION {text[i] : i \in DOMAIN text}
Says(text, group) == Words(text) \cap group # {}

(* ------------------------------ the intent ------------------------------- *)
IsYearResult(text) ==
  \/ Says(text, {"yearphrase"})
  \/ Says(text, {"year"}) /\ Says(text, {"closed", "total", "whatabout"})
IsManagementReport(text) ==
  \/ Says(text, {"year"}) /\ Says(text, {"closed", "total"})
  \/ Says(text, {"report", "profitability"})
  \/ /\ Says(text, {"year"}) /\ Says(text, {"goods"})
     /\ Says(text, {"profit", "revenue"})
IsMonthPerformance(text) ==
  Says(text, {"month"}) /\ Says(text, {"performed", "whatabout", "dropped"})
IsProblemOrOrder(text) ==
  Says(text, {"showproblems", "order", "riskzone", "lacks", "deficit"})
IsAnalyticsSlice(text) ==
  /\ Says(text, {"bycategory", "byclient", "bysku", "top"})
  /\ Says(text, {"sales", "revenue", "pieces", "leftover", "stock", "reserve", "deficit",
                 "delivery", "cost", "profit"})
IsBroad(text) ==
  /\ ~ Says(text, {"external"})
  /\ \/ Says(text, {"howarethings", "whatabout", "dropped", "showproblems", "order", "riskzone",
                    "compare", "byclient", "bycategory", "bysku"})
     \/ IsYearResult(text) \/ IsMonthPerformance(text)

IsHelp(text)      == Says(text, {"help"})
IsInventory(text) == Says(text, {"inventory"})

(* The rules in the order they are tried; the first that matches decides.     *)
Rules(text) ==
  << [when |-> Words(text) = {},               then |-> "unsupported_or_ambiguous"],
     [when |-> IsHelp(text),                   then |-> "free_chat"],
     [when |-> IsInventory(text),              then |-> "data_overview"],
     [when |-> Says(text, {"delivery"}) /\ Says(text, {"deficit", "closed", "affects"}),
                                               then |-> "inbound_impact"],
     [when |-> IsProblemOrOrder(text),         then |-> "stock_risk_summary"],
     [when |-> Says(text, {"count", "recount"}) /\ Says(text, {"reserve"}),
                                               then |-> "reserve_calculation"],
     [when |-> IsYearResult(text) \/ IsManagementReport(text),
                                               then |-> "management_report_summary"],
     [when |-> Says(text, {"cost", "profit"}) \/ IsMonthPerformance(text),
                                               then |-> "analytics_slice"],
     [when |-> Says(text, {"howisclient"}),    then |-> "client_summary"],
     [when |-> Says(text, {"top"}) \/ IsAnalyticsSlice(text) \/ Says(text, {"dropped"}),
                                               then |-> "analytics_slice"],
     [when |-> Says(text, {"compare"}) /\ Says(text, {"period", "previous", "year"}),
                                               then |-> "period_comparison"],
     [when |-> Says(text, {"sales", "revenue", "leftover"}), then |-> "analytics_slice"],
     [when |-> Says(text, {"why"}) /\ Says(text, {"reserve", "deficit", "critical", "sku"}),
                                               then |-> "reserve_explanation"],
     [when |-> Says(text, {"count", "showreserve"}), then |-> "reserve_calculation"],
     [when |-> Says(text, {"belowreserve"}),   then |-> "diy_coverage_check"],
     [when |-> Says(text, {"arrived"}) /\ Says(text, {"stock", "delivery"}),
                                               then |-> "analytics_slice"],
     [when |-> Says(text, {"delivery"}),       then |-> "inbound_impact"],
     [when |-> Says(text, {"critical"}) /\ Says(text, {"sku", "goods"}),
                                               then |-> "stock_risk_summary"],
     [when |-> Says(text, {"stock", "riskzone"}), then |-> "stock_risk_summary"],
     [when |-> Says(text, {"quality"}),        then |-> "quality_issue_summary"],
     [when |-> Says(text, {"upload"}),         then |-> "upload_status_summary"],
     [when |-> Says(text, {"sku"}),            then |-> "sku_summary"],
     [when |-> Says(text, {"client"}),         then |-> "client_summary"],
     [when |-> Says(text, {"reserve"}),        then |-> "reserve_calculation"],
     [when |-> IsBroad(text),                  then |-> "analytics_slice"],
     [when |-> Says(text, {"chat", "goods", "critical"}), then |-> "free_chat"],
     [when |-> TRUE,                           then |-> "unsupported_or_ambiguous"] >>

DetectIntent(text) ==
  LET rules == Rules(text)
      first == CHOOSE i \in DOMAIN rules :
                 rules[i].when /\ \A j \in 1 .. i - 1 : ~ rules[j].when
  IN  rules[first].then

(* ----------------------------- the entities ------------------------------ *)
(* The client with the longest alias among those the text names, wherever the *)
(* text names it; the SKUs in the order of the text; nothing is looked for in *)
(* a chat.                                                                    *)
FirstClient(text) ==
  LET named == {i \in DOMAIN ClientOrder : ClientOrder[i] \in Words(text)}
  IN  IF named = {} THEN {} ELSE {ClientOrder[CHOOSE i \in named : \A j \in named : i <= j]}
One(S) == IF S = {} THEN {} ELSE {CHOOSE x \in S : TRUE}
FirstSaid(text, group) ==
  LET parts == {i \in DOMAIN text : text[i] \cap group # {}}
  IN  IF parts = {} THEN {}
      ELSE One(text[CHOOSE i \in parts : \A j \in parts : i <= j] \cap group)

RouteQuestion(text, intent) ==
  IF intent \in Chat
  THEN [intent |-> intent, client |-> {}, sku |-> {}, skus |-> {}, category |-> {},
        warned |-> intent = "unsupported_or_ambiguous"]
  ELSE LET client == FirstClient(text)
           skus   == Words(text) \cap Skus
       IN  [intent |-> intent, client |-> client,
            sku |-> FirstSaid(text, Skus), skus |-> skus,
            category |-> One(Words(text) \cap Categories),
            warned |-> \/ intent \in {"reserve_explanation", "sku_summary"} /\ skus = {}
                       \/ /\ intent \in {"client_summary", "reserve_calculation", "diy_coverage_check"}
                          /\ client = {}]

(* --------------------- periods, metrics, dimensions ---------------------- *)
(* A month is looked for before a year; the year of a bare month comes from   *)
(* the dialogue or the calendar and is left out.                              *)
PeriodOf(text) ==
  IF Says(text, {"previousmonth"}) THEN {"last month"}
  ELSE IF Says(text, {"month"}) THEN {"month"}
  ELSE IF Says(text, {"year"}) THEN {"year"} ELSE {}
PeriodBefore(period) == IF period = {} THEN {} ELSE {"the one before"}

MetricOf(text) ==
  CASE Says(text, {"cost"})     -> {"unit_cost"}
    [] Says(text, {"profit"})   -> {"gross_profit"}
    [] Says(text, {"pieces"})   -> {"sales_qty"}
    [] Says(text, {"revenue"})  -> {"revenue"}
    [] Says(text, {"leftover", "stock"}) -> {"stock_qty"}
    [] Says(text, {"deficit"})  -> {"shortage_qty"}
    [] Says(text, {"delivery", "arrived"}) -> {"inbound_qty"}
    [] Says(text, {"profitability"}) -> {"profitability"}
    [] OTHER -> {}
MetricsOf(text) ==
  IF Says(text, {"sales"}) /\ ~ Says(text, {"cost", "profit", "pieces", "revenue"})
  THEN {"revenue", "sales_qty"} ELSE MetricOf(text)

DimensionsOf(text) ==
  {d \in {"category", "client", "sku", "article", "warehouse", "month"} :
     CASE d = "category"  -> Says(text, {"bycategory"})
       [] d = "client"    -> Says(text, {"byclient", "client"})
       [] d \in {"sku", "article"} -> Says(text, {"bysku", "sku", "goods"})
       [] d = "warehouse" -> Says(text, {"stock"})
       [] OTHER -> Says(text, {"bymonth"})}

IsOverview(text) ==
  Says(text, {"year"}) /\ Says(text, {"total", "closed", "whatabout", "yearphrase"})

(* ------------------------------ follow-ups ------------------------------- *)
IsRecalculation(text) == Says(text, {"recount", "count", "tally"})
IsDetailRequest(text) == Says(text, {"detail"})
IsContextual(text) ==
  \/ IsDetailRequest(text)
  \/ Says(text, {"another", "now", "pieces", "bycategory", "bysku", "previousmonth",
                 "onlyproblems", "showproblems", "next"})
IsRepair(text) == Says(text, {"again"})
=============================================================================
