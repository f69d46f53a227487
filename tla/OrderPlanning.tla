----------------------------- MODULE OrderPlanning -----------------------------
(***************************************************************************)
(* One run of the planner (harness.py, TradingHarness.run, as the hourly   *)
(* shadow cycle and the isolated one-shot planners call it): the snapshot  *)
(* is judged, intents are built, and the risk gate takes them one by one.  *)
(***************************************************************************)
EXTENDS PlanRules

CONSTANTS Markets, Portfolios, News, Flows     \* the snapshots that a run may find

VARIABLES
  market,      \* security -> observation
  portfolio,   \* the snapshot of the account
  news,        \* events, and whether the feed is stale
  flow,        \* security -> "passed", "failed", "stale" or "missing"
  allowed,     \* the hour is one of rebalance_hours_moscow
  pc, book,
  intents,     \* those that the gate has not looked at
  orders,      \* the accepted ones
  rejected

inputs == <<market, portfolio, news, flow, allowed>>
vars == <<inputs, pc, book, intents, orders, rejected>>

geo == assess_geo_risk(news.events, news.stale)

TypeOK ==
  /\ pc \in {"start", "risk", "blocked", "done"}
  /\ \A s \in Securities : book.pos[s] \in Int
  /\ book.cash \in Nat /\ book.gross \in Nat /\ book.short \in Nat /\ book.open \in Nat
  /\ \A i \in 1..Len(orders) : orders[i].lots \in Nat \ {0}

Init ==
  /\ market \in Markets /\ portfolio \in Portfolios
  /\ news \in News /\ flow \in Flows /\ allowed \in BOOLEAN
  /\ \A s \in Securities : portfolio.pos[s] # 0 => s \in DOMAIN market     \* load_portfolio()
  /\ pc = "start" /\ book = OpenBook(portfolio, market)
  /\ intents = <<>> /\ orders = <<>> /\ rejected = <<>>

Targets == calculate_targets(market, portfolio.pos)

Known == Config.flow_confirmation_enabled /\ allowed => FlowKnown(Targets, flow)

Select ==
  LET raw == IF Config.flow_confirmation_enabled /\ allowed
             THEN Confirmed(Targets, flow, portfolio.pos) ELSE Targets
  IN Unblocked(raw, geo)

Block ==
  /\ pc = "start"
  /\ ~ (validate_market(market) /\ Known)
  /\ pc' = "blocked"
  /\ UNCHANGED <<inputs, book, intents, orders, rejected>>

Build ==
  /\ pc = "start"
  /\ validate_market(market) /\ Known
  /\ intents' = IF allowed THEN build_order_intents(Select, portfolio, market, geo) ELSE <<>>
  /\ pc' = "risk"
  /\ UNCHANGED <<inputs, book, orders, rejected>>

Accept ==
  /\ pc = "risk" /\ intents # <<>>
  /\ evaluate_intent(Head(intents), book, portfolio.blocked, geo)
  /\ orders' = Append(orders, Head(intents))
  /\ book' = Project(book, Head(intents))
  /\ intents' = Tail(intents)
  /\ UNCHANGED <<inputs, pc, rejected>>

Reject ==
  /\ pc = "risk" /\ intents # <<>>
  /\ ~ evaluate_intent(Head(intents), book, portfolio.blocked, geo)
  /\ rejected' = Append(rejected, Head(intents))
  /\ intents' = Tail(intents)
  /\ UNCHANGED <<inputs, pc, book, orders>>

Finish ==
  /\ pc = "risk" /\ intents = <<>>
  /\ pc' = "done"
  /\ UNCHANGED <<inputs, book, intents, orders, rejected>>

Next == Block \/ Build \/ Accept \/ Reject \/ Finish

Spec == Init /\ [][Next]_vars

------------------------------------------------------------------------------
Spent == SumFunction([i \in DOMAIN orders |-> IF orders[i].buy THEN orders[i].notional ELSE 0])

(* The totals that the gate carries from order to order are those of the   *)
(* positions that the plan leaves, in sum and in each sector and cluster   *)
(* (harness.py:317-355).                                                   *)
BookAddsUp ==
  LET fresh == OpenBook([portfolio EXCEPT !.pos = book.pos], market) IN
  /\ book.gross = fresh.gross /\ book.short = fresh.short
  /\ book.sector = fresh.sector /\ book.cluster = fresh.cluster

(* A whole plan keeps every limit, or leaves what was already beyond it no *)
(* worse than it found it, although each order is judged alone             *)
(* (docs/ALGORITHM_RU.md:216-224, several BUYs that pass one by one).      *)
WithinLimits ==
  LET first == OpenBook(portfolio, market)
      Bounded(now, was, weight) == now <= was \/ Within(now, weight, first)
  IN
  /\ Bounded(book.gross, first.gross, Config.max_gross_exposure)
  /\ Bounded(book.short, first.short, Config.max_short_gross_exposure)
  /\ \A c \in DOMAIN book.sector : Bounded(book.sector[c], first.sector[c], Config.max_sector_weight)
  /\ \A c \in DOMAIN book.cluster :
       Bounded(book.cluster[c], first.cluster[c], Config.max_risk_cluster_weight)
  /\ book.turnover <= portfolio.turnover \/ book.turnover <= Config.max_daily_turnover

(* A plan that buys leaves the reserve, when its sales bring what they     *)
(* should (risk.py:80-83).                                                 *)
ReserveAfterPlan ==
  Spent > 0 => book.cash * 100 >= Reserve(book)

(* ... and when they bring nothing (docs/CONFIG_REFERENCE_RU.md:244, the   *)
(* share of equity that stays free roubles after a BUY).                   *)
ReserveWithoutSales ==
  Spent > 0 /\ (\A s \in Securities : portfolio.pos[s] >= 0)
    => (portfolio.cash - Spent) * 100 >= Reserve(book)

(* One order for a security, and none that crosses zero or sells what the  *)
(* broker holds blocked: the next cycle opens the other side               *)
(* (docs/ALGORITHM_RU.md:208-210).                                         *)
OneSidedOrders ==
  \A s \in Securities :
    /\ Cardinality({i \in DOMAIN orders : orders[i].secid = s}) <= 1
    /\ portfolio.pos[s] * book.pos[s] >= 0
    /\ portfolio.pos[s] # 0 /\ book.pos[s] # portfolio.pos[s] /\ portfolio.blocked[s] > 0
         => Abs(book.pos[s]) >= portfolio.blocked[s]

(* The risk of a position can be taken down in any news and at any         *)
(* exposure: a reduction is refused only for the turnover, the number of   *)
(* orders, what the broker holds blocked, or money to cover a short with   *)
(* (docs/ALGORITHM_RU.md:124, "reducing the risk must stay possible").     *)
ReductionStaysPossible ==
  \A i \in DOMAIN rejected :
    LET r == rejected[i] IN
    Reducing(book, r) =>
      \/ book.turnover + r.notional > Config.max_daily_turnover
      \/ book.open >= Config.max_open_orders
      \/ portfolio.external /\ portfolio.open > 0
      \/ portfolio.blocked[r.secid] > 0
      \/ r.buy
      \/ book.equity <= 0

(* In a critical hour no exposure grows, whatever the targets say          *)
(* (docs/ALGORITHM_RU.md:122).                                             *)
NothingGrowsInACrisis ==
  (\E e \in news.events : Critical(e)) =>
    \A s \in Securities : Abs(book.pos[s]) <= Abs(portfolio.pos[s])

(* A held security that is no target any more gets its SELL, at once or in *)
(* parts, when it is worth an order (docs/ALGORITHM_RU.md:197-206); a lot  *)
(* dearer than max_order_notional gets none (execution.py:60-64).          *)
ExitIsPlanned ==
  pc = "done" /\ allowed =>
    \A s \in DOMAIN market :
      /\ portfolio.pos[s] > 0
      /\ \A i \in DOMAIN Select : Select[i].secid # s
      /\ Lot[s] * market[s].price >= Config.min_trade_notional
      => \E i \in DOMAIN (orders \o rejected) : (orders \o rejected)[i].secid = s

(* A plan is sound as a whole, although its orders are judged one by one   *)
(* (harness.py:260-360, risk.py:30-90).                                    *)
PlanIsSound ==
  /\ TypeOK /\ BookAddsUp /\ WithinLimits /\ ReserveAfterPlan
  /\ OneSidedOrders /\ ReductionStaysPossible /\ NothingGrowsInACrisis
==============================================================================
