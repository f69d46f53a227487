------------------------------- MODULE PlanRules -------------------------------
(***************************************************************************)
(* How a snapshot of the market and of the portfolio becomes orders:       *)
(* targets by rank of momentum (strategy.py), filters of flow and of       *)
(* geopolitical risk (harness.py, geo.py), one sized intent for a security *)
(* (execution.py), and the risk gate that looks at each intent against the *)
(* book that the intents before it would leave (risk.py, harness.py).      *)
(*                                                                         *)
(* Money is whole, prices are in ticks, and weights are percents.          *)
(***************************************************************************)
EXTENDS Integers, Sequences, FiniteSets, FiniteSetsExt, SequencesExt, Functions

CONSTANTS
  Names,          \* the securities, in the order of their names
  Lot,            \* units in a lot of each
  Sector, Cluster,
  ShortEnabled,   \* those verified for short sales
  Config          \* BotConfig and StrategyConfig

Securities == ToSet(Names)
Place(s) == CHOOSE i \in DOMAIN Names : Names[i] = s

ConfigAssumption ==
  /\ \A s \in Securities : Lot[s] \in Nat \ {0}
  /\ Config.min_trade_notional <= Config.max_order_notional
  /\ Config.max_order_notional <= Config.max_daily_turnover
  /\ Config.shorts_enabled = Config.allow_margin

Abs(n) == IF n < 0 THEN -n ELSE n
NotNegative(n) == IF n < 0 THEN 0 ELSE n
Least(a, b) == IF a < b THEN a ELSE b

------------------------------------------------------------------------------
(* Geopolitical risk: the worst of the events, and of a stale feed.        *)
Critical(e) == e.confirmed /\ e.severity >= 5 /\ e.confidence >= 80
High(e) == e.confirmed /\ e.severity >= 4 /\ e.confidence >= 70
Elevated(e) == ~ e.confirmed \/ e.severity >= 2

assess_geo_risk(events, stale) ==
  LET level == IF \E e \in events : Critical(e) THEN "critical"
               ELSE IF \E e \in events : High(e) THEN "high"
               ELSE IF stale \/ \E e \in events : Elevated(e) THEN "elevated" ELSE "normal"
  IN [level |-> level,
      multiplier |-> CASE level = "critical" -> 0 [] level = "high" -> 30
                       [] level = "elevated" -> 70 [] level = "normal" -> 100,
      blocked |-> UNION {e.affected : e \in {d \in events : Critical(d) \/ High(d)}}]

validate_market(market) ==
  DOMAIN market # {} /\ \A s \in DOMAIN market : market[s].complete /\ market[s].fresh

------------------------------------------------------------------------------
(* Targets.                                                                *)
Ranked(S, Key(_)) ==
  SetToSortSeq(S, LAMBDA a, b : \/ Key(a) > Key(b)
                                \/ Key(a) = Key(b) /\ Place(a) < Place(b))

Kept(ranked, n, held) ==        \* entrants, and held ones that did not fall far
  LET kept == {ranked[i] : i \in {j \in DOMAIN ranked :
                 j <= n \/ (j <= n + Config.exit_rank_buffer /\ ranked[j] \in held)}}
  IN SelectSeq(ranked, LAMBDA s : s \in kept)

Weighted(selected, market, gross, long) ==
  IF gross = 0 THEN <<>>
  ELSE LET total == SumFunction([i \in DOMAIN selected |-> market[selected[i]].units])
       IN [i \in DOMAIN selected |-> [secid |-> selected[i], long |-> long, gross |-> gross,
                                      units |-> market[selected[i]].units, total |-> total]]

calculate_targets(market, pos) ==
  LET eligible(s) == market[s].tradable /\ market[s].complete
      long == Ranked({s \in DOMAIN market : /\ eligible(s)
                                            /\ market[s].momentum > Config.min_momentum
                                            /\ market[s].above > 0},
                     LAMBDA s : market[s].momentum)
      short == Ranked({s \in DOMAIN market : /\ Config.shorts_enabled
                                             /\ eligible(s) /\ s \in ShortEnabled
                                             /\ market[s].momentum < Config.max_short_momentum
                                             /\ market[s].above < 0},
                      LAMBDA s : - market[s].momentum)
  IN Weighted(Kept(long, Config.top_n, {s \in Securities : pos[s] > 0}),
              market, Config.long_target_gross, TRUE)
     \o Weighted(Kept(short, Config.short_top_n, {s \in Securities : pos[s] < 0}),
                 market, Config.short_target_gross, FALSE)

(* Order flow confirms an entry; it ends no position.                      *)
FlowKnown(targets, flow) ==
  \A i \in DOMAIN targets : targets[i].long => flow[targets[i].secid] \in {"passed", "failed"}

Confirmed(targets, flow, pos) ==
  SelectSeq(targets, LAMBDA t : ~ t.long \/ pos[t.secid] > 0 \/ flow[t.secid] = "passed")

Unblocked(targets, geo) == SelectSeq(targets, LAMBDA t : t.secid \notin geo.blocked)

------------------------------------------------------------------------------
(* Intents.                                                                *)
Value(pos, market) == SumFunction([s \in DOMAIN market |-> pos[s] * Lot[s] * market[s].price])

Equity(portfolio, market) ==
  LET total == portfolio.cash + portfolio.blocked_cash + Value(portfolio.pos, market)
  IN IF portfolio.reported > 0 THEN Least(total, portfolio.reported) ELSE total

TargetLots(t, equity, geo, price) ==
  LET lot_value == Lot[t.secid] * price * 10000
      cap == IF t.long THEN Config.max_position_weight ELSE Config.max_short_position_weight
      lots == Least((Abs(equity) * t.gross * t.units * geo.multiplier) \div (t.total * lot_value),
                    (Abs(equity) * cap * geo.multiplier) \div lot_value)
  IN IF t.long = (equity >= 0) THEN lots ELSE - lots

Intent(s, now, target_lots, price) ==
  LET aim == IF now * target_lots < 0 THEN 0 ELSE target_lots
      lots == Least(Abs(aim - now), Config.max_order_notional \div (Lot[s] * price))
      after == IF aim > now THEN now + lots ELSE now - lots
  IN [secid |-> s, buy |-> aim > now, lots |-> lots, price |-> price,
      notional |-> lots * Lot[s] * price, margin |-> after < Least(now, 0)]

build_order_intents(targets, portfolio, market, geo) ==
  LET equity == Equity(portfolio, market)
      wanted == {targets[i].secid : i \in DOMAIN targets}
      exits == SelectSeq(Names, LAMBDA s : s \notin wanted /\ portfolio.pos[s] # 0
                                           /\ s \in DOMAIN market)
      all == [i \in DOMAIN exits |->
                Intent(exits[i], portfolio.pos[exits[i]], 0, market[exits[i]].price)]
             \o [i \in DOMAIN targets |->
                   LET s == targets[i].secid
                   IN Intent(s, portfolio.pos[s],
                             TargetLots(targets[i], equity, geo, market[s].price), market[s].price)]
  IN SelectSeq(all, LAMBDA i : i.lots > 0 /\ i.notional >= Config.min_trade_notional)

------------------------------------------------------------------------------
(* The book that the accepted intents would leave.                         *)
Exposure(s, pos, market) == Abs(pos[s]) * Lot[s] * market[s].price

Exposures(S, pos, market) ==
  SumFunction([s \in S \cap DOMAIN market |-> Exposure(s, pos, market)])

OpenBook(portfolio, market) ==
  LET pos == portfolio.pos IN
  [cash |-> portfolio.cash, pos |-> pos, turnover |-> portfolio.turnover,
   open |-> portfolio.open, external |-> portfolio.external,
   equity |-> Equity(portfolio, market),
   gross |-> Exposures(Securities, pos, market),
   short |-> Exposures({s \in Securities : pos[s] < 0}, pos, market),
   sector |-> [c \in Range(Sector) |-> Exposures({s \in Securities : Sector[s] = c}, pos, market)],
   cluster |-> [c \in Range(Cluster) |-> Exposures({s \in Securities : Cluster[s] = c}, pos, market)]]

Result(b, i) == IF i.buy THEN b.pos[i.secid] + i.lots ELSE b.pos[i.secid] - i.lots
Growth(b, i) == (Abs(Result(b, i)) - Abs(b.pos[i.secid])) * Lot[i.secid] * i.price
ShortGrowth(b, i) ==
  (Abs(Least(Result(b, i), 0)) - Abs(Least(b.pos[i.secid], 0))) * Lot[i.secid] * i.price

Reducing(b, i) ==
  LET now == b.pos[i.secid] IN
  now # 0 /\ Abs(Result(b, i)) < Abs(now) /\ now * Result(b, i) >= 0

Reserve(b) == NotNegative(b.equity * Config.min_cash_reserve_weight)     \* in hundredths

Within(amount, weight, b) == amount * 100 <= b.equity * weight

GeoAllows(i, b, geo) ==
  /\ Reducing(b, i) \/ i.secid \notin geo.blocked
  /\ geo.level = "critical" => Growth(b, i) <= 0

Counted(i, b) ==
  /\ i.notional <= Config.max_order_notional
  /\ b.turnover + i.notional <= Config.max_daily_turnover
  /\ b.open < Config.max_open_orders
  /\ ~ (b.external /\ b.open > 0)

FreeLots(i, b, blocked_lots) ==
  LET now == b.pos[i.secid]
      closes == IF i.buy THEN now < 0 ELSE now > 0
  IN closes /\ blocked_lots[i.secid] > 0 => i.lots <= NotNegative(Abs(now) - blocked_lots[i.secid])

SideAllowed(i, b) ==
  LET now == b.pos[i.secid]
      then == Result(b, i)
  IN
  /\ now * then >= 0
  /\ IF then < Least(now, 0)
     THEN Config.shorts_enabled /\ Config.allow_margin /\ i.secid \in ShortEnabled /\ i.margin
     ELSE ~ i.margin

Affordable(i, b) == i.buy => i.notional * 100 <= NotNegative(b.cash * 100 - Reserve(b))

ExposureOfOne(i, b) ==              \* mutant: each order against the limit of a position only
  \/ Reducing(b, i)
  \/ Within(Abs(Result(b, i)) * Lot[i.secid] * i.price, Config.max_position_weight, b)

ExposureAllowed(i, b) ==
  \/ Reducing(b, i)
  \/ /\ Within(Abs(Result(b, i)) * Lot[i.secid] * i.price,
               IF Result(b, i) < 0 THEN Config.max_short_position_weight
                                   ELSE Config.max_position_weight, b)
     /\ Within(NotNegative(b.gross + Growth(b, i)), Config.max_gross_exposure, b)
     /\ Within(NotNegative(b.short + ShortGrowth(b, i)), Config.max_short_gross_exposure, b)
     /\ Within(NotNegative(b.sector[Sector[i.secid]] + Growth(b, i)), Config.max_sector_weight, b)
     /\ Within(NotNegative(b.cluster[Cluster[i.secid]] + Growth(b, i)),
               Config.max_risk_cluster_weight, b)

evaluate_intent(i, b, blocked_lots, geo) ==
  /\ GeoAllows(i, b, geo) /\ Counted(i, b)
  /\ SideAllowed(i, b) /\ FreeLots(i, b, blocked_lots)
  /\ b.equity > 0 /\ Affordable(i, b) /\ ExposureAllowed(i, b)

Project(b, i) ==
  [b EXCEPT !.cash = IF i.buy THEN @ - i.notional ELSE @ + i.notional,
            !.pos[i.secid] = Result(b, i),
            !.turnover = @ + i.notional,
            !.open = @ + 1,
            !.external = FALSE,
            !.gross = NotNegative(@ + Growth(b, i)),
            !.short = NotNegative(@ + ShortGrowth(b, i)),
            !.sector[Sector[i.secid]] = NotNegative(@ + Growth(b, i)),
            !.cluster[Cluster[i.secid]] = NotNegative(@ + Growth(b, i))]
==============================================================================
