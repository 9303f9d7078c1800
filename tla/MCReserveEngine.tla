--------------------------- MODULE MCReserveEngine ---------------------------
(* The instances of ReserveEngine that TLC checks. *)
EXTENDS ReserveEngine

CONSTANTS c1, c2, c3

\* Names in alphabetical order: c1, c2, c3.
Rank == [c \in Client |-> CASE c = c1 -> 1 [] c = c2 -> 2 [] OTHER -> 3]

NoOverride == [given |-> {}, months |-> 0, factor |-> 0, priority |-> 0]
Plain ==
    [active |-> TRUE, months |-> 3, factor |-> 110, priority |-> 1, chain |-> DefaultChain,
     depth |-> 4, category |-> NoOverride, sku |-> NoOverride]

\* Whole units (ten tenths) by month, the current month first.
Units(months) == [m \in Month |-> 10 * months[m]]
NoSales == Units(<<0, 0, 0, 0, 0, 0>>)
OneSale == Units(<<1, 0, 0, 0, 0, 0>>)
OldSales == Units(<<0, 0, 0, 0, 1, 1>>)
Steady == Units(<<4, 5, 4, 5, 4, 5>>)
Rising == Units(<<7, 2, 1, 0, 1, 0>>)
Returned == Units(<<-3, 1, 0, 1, 2, 0>>)
SentBack == Units(<<-4, 1, 0, 1, 0, 0>>)

\* What the clients bought of the SKU and of its category, and everybody of both.
Sales(own, category, sku, baseline) ==
    [c \in Client |-> [level \in Level |->
        CASE level = "client_sku" -> own[c]
          [] level = "client_category" -> category
          [] level = "global_sku" -> sku
          [] level = "category_baseline" -> baseline]]

Asked(strategies, bases, months, inbound) ==
    [asked : strategies, basis : bases, months : months, factor : {0}, inbound : inbound]

Found(policies, sales, requests, frees, inbounds) ==
    [policies : policies, sales : sales, request : requests, free : frees, inbound : inbounds]

(* Demand: c1 with every kind of history, chain, override and strategy. *)
DemandPolicies ==
    {Plain,
     [Plain EXCEPT !.active = FALSE],
     [Plain EXCEPT !.months = 2, !.factor = 50, !.depth = 1],
     [Plain EXCEPT !.chain = <<"global_sku", NoHistory, "category_baseline">>, !.depth = 0],
     [Plain EXCEPT !.category = [given |-> {"months", "factor"}, months |-> 1, factor |-> 150, priority |-> 0],
                   !.sku = [given |-> {"months", "priority"}, months |-> 4, factor |-> 0, priority |-> 2]]}
Histories == {NoSales, OneSale, OldSales, Steady, Rising, Returned, SentBack}
Alone(h) == [c \in Client |-> IF c = c1 THEN h ELSE NoSales]

DemandDataset ==
    Found({[c \in Client |-> IF c = c1 THEN p ELSE Plain] : p \in DemandPolicies},
          {Sales(Alone(own), category, sku, baseline) :
             own \in Histories, category \in Histories, sku \in Histories, baseline \in Histories},
          Asked({"weighted_recent_average"}, {"blended", "sales_3m", "sales_6m"}, {0, 6, -2}, {TRUE}),
          {150}, {30})

(* Allocation: three clients of two priorities and different demands; stock may be *)
(* negative (an import only warns of it), none, scarce, nearly enough or plenty,   *)
(* and so may a delivery.                                                          *)
AllocationDataset ==
    Found([Client -> {Plain, [Plain EXCEPT !.priority = 2]}],
          {Sales(own, NoSales, NoSales, NoSales) : own \in [Client -> {NoSales, OldSales, Steady}]},
          Asked({"conservative_fallback"}, {"blended"}, {0}, BOOLEAN),
          {-20, 0, 15, 148, 320}, {-30, 0, 20, 170})

(* A policy whose months are below nothing, beside another one.                    *)
BackwardsDataset ==
    Found([Client -> {Plain, [Plain EXCEPT !.priority = 2, !.months = -1]}],
          {Sales(own, NoSales, NoSales, NoSales) : own \in [Client -> {OldSales, Steady}]},
          Asked({"conservative_fallback"}, {"blended"}, {0}, {TRUE}),
          {-20, 0, 148}, {-30, 0, 20})

Everything == DemandDataset \cup AllocationDataset \cup BackwardsDataset

(* The first client is left short by a negative delivery. *)
ReturnedDataset ==
    Found([Client -> {Plain, [Plain EXCEPT !.priority = 2]}],
          {Sales(own, NoSales, NoSales, NoSales) : own \in [Client -> {NoSales, OldSales, Steady}]},
          Asked({"conservative_fallback"}, {"blended"}, {0}, {TRUE}),
          {148, 320}, {-30})

\* What the calculator's page sends: a strategy, and never a basis.
PageDataset ==
    Found([Client -> {Plain}],
          {Sales(own, NoSales, NoSales, NoSales) : own \in [Client -> {NoSales, OldSales, Steady}]},
          Asked(Strategy, {"weighted_recent_average"}, {0}, {TRUE}),
          {0, 160}, {0})
=============================================================================
