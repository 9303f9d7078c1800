--------------------------- MODULE MCAssistantPlan ---------------------------
(* Two clients, the first with the longer alias, two SKUs and one category;   *)
(* dialogues of three turns, the later ones mostly follow-ups.                *)
EXTENDS AssistantPlan

MCClientOrder == <<"C1", "C2">>
MCSkus == {"K1", "K2"}
MCCategories == {"G1"}

NoPin == [client |-> {}, sku |-> {}, category |-> {}, run |-> {}]
Plain(q)     == [q |-> q, reply |-> Silence, pin |-> NoPin]
Pinned(q, c) == [q |-> q, reply |-> Silence, pin |-> [NoPin EXCEPT !.client = {c}]]
Reply(intent, text, tools, params) ==
  [intent |-> intent, text |-> text, tools |-> tools, params |-> params,
   missing |-> {}, asks |-> <<>>]
Planned(q, reply) == [q |-> q, reply |-> reply, pin |-> NoPin]
ToStock   == Reply("stock_risk_summary", <<>>, <<"get_stock_coverage">>, NoParams)
ToCount   == Reply("reserve_calculation", <<{"recount", "reserve", "C2"}>>,
                   <<"calculate_reserve", "get_dashboard_summary">>, NoParams)
ToSales   == Reply("sales_summary", <<>>, <<"get_sales_summary">>, [dates |-> {"month"}])
ToNobody  == Reply("reserve_calculation", <<>>, <<"get_reserve">>, [client_id |-> {"nobody"}])
ToReport  == Reply("management_report_summary", <<>>, <<"get_management_report">>,
                   [question |-> {<<{"long", "C1"}>>}])
ToRead    == Reply("reserve_calculation", <<>>, <<"get_reserve", "calculate_reserve">>, NoParams)
ToForce   == Reply("reserve_calculation", <<>>, <<"calculate_reserve">>,
                   [_force_tool |-> {"calculate_reserve"}])
ToClient  == Reply("reserve_calculation", <<{"reserve", "C2"}>>, <<"get_reserve">>,
                   [client_id |-> {"C1"}])
\* The planner asks back, in words of its own.
ToAskBack == [Reply("reserve_calculation", <<>>, <<"get_reserve">>, NoParams) EXCEPT
               !.missing = {"client_id"}, !.asks = <<{"recount", "reserve"}>>]

Openings ==
  {Plain(q) : q \in {{"recount", "reserve"}, {"recount", "reserve", "C1"}, {"reserve", "C1"},
                     {"reserve", "C1", "G1"}, {"why", "reserve", "K1"}, {"sales", "month", "C1"},
                     {"sales", "C1"}, {"performed", "month"}, {"dropped"}, {"howarethings"},
                     {"sku", "K1"}, {"sku"}, {"help"}, {"report", "year", "long"}, {"stock"},
                     {"stock", "K1"}, {"howisclient"}, {"delivery"}, {"quality"}, {"upload"},
                     {"inventory"}, {"cost", "byclient"}, {"deficit", "bycategory"}}}
  \cup {Pinned({"reserve", "C1"}, "C2"), Pinned({"inventory"}, "C1"), Pinned({"detail"}, "C1"),
        Planned({"sales", "month"}, ToStock), Planned({"sales", "C1"}, ToSales),
        Planned({"reserve"}, ToNobody), Planned({"reserve", "C1"}, ToRead), Planned({"help"}, ToCount),
        Planned({"reserve", "C1"}, ToForce), Planned({"reserve", "C1"}, ToClient),
        Planned({"reserve"}, ToAskBack),
        Planned({"report", "year", "long"}, ToReport)}
Second ==
  {Plain(q) : q \in {{"C1"}, {"C2"}, {"detail"}, {"another", "C2"}, {"pieces"}, {"revenue"},
                     {"another", "bycategory"}, {"bysku"}, {"top", "topn", "sku"}, {"why", "reserve", "K2"},
                     {"why"}, {"onlyproblems"}, {"previousmonth", "compare"}, {"again"}, {"help"},
                     {"another", "stock"},
                     {"recount", "reserve", "C2"}, {"month"}, {"sales", "month", "C2"}}}
  \cup {Planned({"sales", "month", "C2"}, ToStock), Pinned({"pieces"}, "C2")}
Third ==
  {Plain(q) : q \in {{"C1"}, {"again"}, {"detail"}, {"pieces"}, {"another", "C1"}, {"why"},
                     {"dropped"}, {"critical"}, {"previousmonth", "compare"}, {"reserve", "C2"}}}
MCAsks == <<Openings, Second, Third>>

Everything == UNION {Contract[tool].needs : tool \in Tools}
MCGrants == {Everything, Everything \ {"quality:read"}}
=============================================================================
