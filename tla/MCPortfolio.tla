----------------------------- MODULE MCPortfolio -----------------------------
(***************************************************************************)
(* Small instances for TLC of the planner and of the historical simulator: *)
(* the plan of three securities, of which two share a sector and all share *)
(* a cluster; the replay of two securities over five dates with a weekend, *)
(* long and short; the replay of the challenger with one security over     *)
(* seven dates; and one session of two securities with at most two windows *)
(* for each.  Which of them moves is chosen at the beginning; they share   *)
(* only names.  Amounts of the replays' plans are in hundredths.           *)
(***************************************************************************)
EXTENDS Integers, Sequences

VARIABLES
  part,            \* the machine that moves
  market, portfolio, news, flow, allowed, pc, book, intents, orders, rejected,
  day, tape, cash, held, pending, trades, closes, equity, financing, previous, liquidating,
  windows, first, left

plan_vars == <<market, portfolio, news, flow, allowed, intents, rejected>>
replay_vars == <<day, tape, cash, held, pending, trades, closes, equity, financing, previous,
                 liquidating>>
session_vars == <<windows, first, left>>
vars == <<part, plan_vars, replay_vars, session_vars, pc, book, orders>>

------------------------------------------------------------------------------
(* The plan: weights, limits and amounts so small that each limit is met.  *)
PlanLot == [A |-> 1, B |-> 2, C |-> 1]
PlanSector == [A |-> "oil", B |-> "oil", C |-> "bank"]
OneCluster == [A |-> "x", B |-> "x", C |-> "x"]

PlanConfig ==
  [top_n |-> 2, exit_rank_buffer |-> 1, min_momentum |-> 0,
   shorts_enabled |-> TRUE, allow_margin |-> TRUE, short_top_n |-> 1, max_short_momentum |-> -1,
   long_target_gross |-> 90, short_target_gross |-> 20, flow_confirmation_enabled |-> TRUE,
   max_position_weight |-> 40, max_short_position_weight |-> 20,
   max_gross_exposure |-> 75, max_short_gross_exposure |-> 20,
   max_sector_weight |-> 55, max_risk_cluster_weight |-> 70, min_cash_reserve_weight |-> 10,
   max_order_notional |-> 60, min_trade_notional |-> 15, max_daily_turnover |-> 130,
   max_open_orders |-> 2]

Seen(price, momentum, above) ==
  [price |-> price, momentum |-> momentum, above |-> above, units |-> 1,
   tradable |-> TRUE, complete |-> TRUE, fresh |-> TRUE]

SeenMarkets ==
  {[A |-> a, B |-> b, C |-> c] :
     a \in {Seen(20, 3, 1), Seen(20, -2, -1), Seen(70, 3, 1), Seen(70, 1, -1),
            [Seen(20, 3, 1) EXCEPT !.fresh = FALSE]},
     b \in {Seen(10, 2, 1), Seen(10, -2, -1)},
     c \in {Seen(15, 1, 1), Seen(15, 2, 1), Seen(15, 0, 1),
            [Seen(15, 9, 1) EXCEPT !.tradable = FALSE]}}

Account(money, a, b, c) ==
  [cash |-> money, blocked_cash |-> 0, reported |-> 0, turnover |-> 0, open |-> 0,
   external |-> TRUE, pos |-> [A |-> a, B |-> b, C |-> c],
   blocked |-> [A |-> 0, B |-> 0, C |-> 0]]

SeenPortfolios ==
  LET plain == {Account(money, a, b, c) : money \in {5, 60, 200}, a \in {-1, 0, 1, 4},
                                          b \in {0, 3}, c \in {0, 4}}
  IN plain
     \cup {[p EXCEPT !.turnover = 100] : p \in {q \in plain : q.cash = 200}}
     \cup {[p EXCEPT !.open = 1] : p \in {q \in plain : q.cash = 60}}
     \cup {[p EXCEPT !.reported = 50, !.blocked_cash = 20] : p \in {q \in plain : q.cash = 200}}
     \cup {[Account(17, a, 0, c) EXCEPT !.blocked_cash = 30] : a \in {0, 1}, c \in {0, 4}}
     \cup {[p EXCEPT !.blocked.A = 1, !.external = FALSE, !.open = 1] :
             p \in {q \in plain : q.pos.A # 0}}

Event(severity, confidence, confirmed, affected) ==
  [severity |-> severity, confidence |-> confidence, confirmed |-> confirmed,
   affected |-> affected]

SeenNews ==
  {[events |-> {}, stale |-> FALSE], [events |-> {}, stale |-> TRUE],
   [events |-> {Event(4, 75, TRUE, {"A"})}, stale |-> FALSE],
   [events |-> {Event(5, 90, TRUE, {"B"}), Event(3, 90, FALSE, {"C"})}, stale |-> FALSE]}

SeenFlows ==
  {[s \in {"A", "B", "C"} |-> "passed"],
   [A |-> "failed", B |-> "passed", C |-> "passed"],
   [A |-> "passed", B |-> "passed", C |-> "missing"]}

Plan == INSTANCE OrderPlanning WITH
  Names <- <<"A", "B", "C">>, Lot <- PlanLot, Sector <- PlanSector, Cluster <- OneCluster,
  ShortEnabled <- {"A"}, Config <- PlanConfig,
  Markets <- SeenMarkets, Portfolios <- SeenPortfolios, News <- SeenNews, Flows <- SeenFlows

------------------------------------------------------------------------------
(* The replays.                                                            *)
ReplayLot == [A |-> 1, B |-> 2]
ReplaySector == [A |-> "oil", B |-> "bank"]
ReplayCluster == [A |-> "x", B |-> "y"]
ReplayCosts == [impact |-> 2, commission |-> 1, participation |-> 50, latency |-> 0,
                reserve |-> 1000]

ReplayConfig ==
  [PlanConfig EXCEPT !.long_target_gross = 90, !.short_target_gross = 40,
     !.flow_confirmation_enabled = FALSE,
     !.max_position_weight = 90, !.max_short_position_weight = 40,
     !.max_gross_exposure = 90, !.max_short_gross_exposure = 40,
     !.max_sector_weight = 90, !.max_risk_cluster_weight = 90,
     !.max_order_notional = 9000, !.min_trade_notional = 500, !.max_daily_turnover = 20000,
     !.max_open_orders = 3]

DayBar(open, low, high, close, volume) ==
  [open |-> open, low |-> low, high |-> high, close |-> close, volume |-> volume]

ReplayBars ==
  [A |-> {DayBar(13, 9, 14, 13, 20), DayBar(8, 6, 13, 7, 6)},
   B |-> {DayBar(10, 8, 12, 10, 20), DayBar(12, 9, 13, 12, 8)}]

Replay == INSTANCE BacktestReplay WITH
  Names <- <<"A", "B">>, Lot <- ReplayLot, Sector <- ReplaySector, Cluster <- ReplayCluster,
  ShortEnabled <- {"A"}, Config <- ReplayConfig, Costs <- ReplayCosts, InitialCash <- 100,
  FinancingRate <- 1, FirstDecision <- 1, Trend <- 2, Momentum <- 1, Volatility <- 1,
  Channel <- <<>>, Calendar <- <<1, 2, 3, 6, 7>>, Bars <- ReplayBars

ChallengerConfig ==
  [ReplayConfig EXCEPT !.shorts_enabled = FALSE, !.allow_margin = FALSE, !.top_n = 1]
ChallengerBars ==
  [A |-> {DayBar(10, 9, 11, 10, 4), DayBar(13, 9, 13, 13, 4), DayBar(7, 6, 13, 7, 4),
          DayBar(11, 9, 15, 14, 20)}]
OfOne(value) == [A |-> value]

Challenger == INSTANCE BacktestReplay WITH
  Names <- <<"A">>, Lot <- OfOne(1), Sector <- OfOne("oil"), Cluster <- OfOne("x"),
  ShortEnabled <- {"A"}, Config <- ChallengerConfig, Costs <- ReplayCosts, InitialCash <- 100,
  FinancingRate <- 1, FirstDecision <- 4, Trend <- 2, Momentum <- 1, Volatility <- 1,
  Channel <- <<2, 1>>, Calendar <- <<1, 2, 3, 4, 5, 6, 7>>, Bars <- ChallengerBars

------------------------------------------------------------------------------
(* One session: plans of two orders, also both for one security.           *)
SessionCosts == [impact |-> 10, commission |-> 1, participation |-> 50, latency |-> 1,
                 reserve |-> 2000]

Order(secid, buy, lots, price, margin) ==
  [secid |-> secid, buy |-> buy, lots |-> lots, price |-> price, margin |-> margin]

SomePlans ==
  LET a == {Order("A", TRUE, 2, 10, FALSE), Order("A", FALSE, 2, 10, FALSE),
            Order("A", FALSE, 1, 10, TRUE)}
      b == {Order("B", TRUE, 2, 10, FALSE), Order("B", FALSE, 2, 9, FALSE)}
  IN {<<x>> : x \in a} \cup {<<x, y>> : x \in a, y \in a \cup b} \cup {<<y, x>> : y \in b, x \in a}

Window(start, end, open, low, high, volume) ==
  [start |-> start, end |-> end, open |-> open, low |-> low, high |-> high, volume |-> volume]

SomeWindows ==
  LET early(s) == {Window(s, 3, 8, 8, 10, 4), Window(s, 3, 10, 9, 12, 2),
                   Window(s, 3, 11, 10, 12, 8)}
      late_ones == {Window(3, 5, 13, 8, 13, 4), Window(3, 5, 9, 9, 10, 8)}
      session == {<<>>} \cup {<<x>> : x \in early(0)} \cup {<<x, y>> : x \in early(1), y \in late_ones}
  IN {[A |-> x, B |-> y] : x \in session, y \in session} \cup {[A |-> x] : x \in session}

SomeSessions ==
  {[orders |-> p, windows |-> ws, cash |-> money, held |-> [A |-> a, B |-> b]] :
     p \in SomePlans, ws \in SomeWindows, money \in {0, 1200, 5000},
     a \in {-1, 0, 1, 2}, b \in {0, 2}}

Session == INSTANCE SessionMatching WITH
  LotSize <- ReplayLot, Costs <- SessionCosts, Sessions <- SomeSessions

ASSUME PortfolioAssumption ==
  /\ Plan!ConfigAssumption /\ Replay!ConfigAssumption /\ Challenger!ConfigAssumption
  /\ Replay!ReplayAssumption /\ Challenger!ReplayAssumption
  /\ Replay!Fills!CostsAssumption /\ Session!CostsAssumption

------------------------------------------------------------------------------
NoPlan ==
  /\ market = <<>> /\ portfolio = <<>> /\ news = <<>> /\ flow = <<>> /\ allowed = FALSE
  /\ intents = <<>> /\ rejected = <<>>
NoReplay ==
  /\ day = 0 /\ tape = <<>> /\ cash = 0 /\ held = <<>> /\ pending = <<>> /\ trades = <<>>
  /\ closes = <<>> /\ equity = 0 /\ financing = 0 /\ previous = 0 /\ liquidating = {}
NoSession == windows = <<>> /\ first = <<>> /\ left = <<>>

Init ==
  \/ part = "plan" /\ Plan!Init /\ NoReplay /\ NoSession
  \/ part = "replay" /\ Replay!Init /\ NoPlan /\ NoSession /\ book = <<>> /\ orders = <<>>
  \/ /\ part = "challenger" /\ Challenger!Init
     /\ NoPlan /\ NoSession /\ book = <<>> /\ orders = <<>>
  \/ part = "session" /\ Session!Init /\ NoPlan /\ NoReplay /\ pc = "none"

Next ==
  /\ \/ part = "plan" /\ Plan!Next /\ UNCHANGED <<replay_vars, session_vars>>
     \/ part = "replay" /\ Replay!Next /\ UNCHANGED <<plan_vars, session_vars, book, orders>>
     \/ /\ part = "challenger" /\ Challenger!Next
        /\ UNCHANGED <<plan_vars, session_vars, book, orders>>
     \/ part = "session" /\ Session!Next /\ UNCHANGED <<plan_vars, replay_vars, pc>>
  /\ UNCHANGED part

Spec == Init /\ [][Next]_vars

------------------------------------------------------------------------------
(* The properties are those of the modules, each of the part that moves.   *)

\* A plan is sound as a whole, although its orders are judged one by one
\* (harness.py:260-360, risk.py:30-90).
PlanIsSound == part = "plan" => Plan!PlanIsSound

\* The books of a replay, at every moment of it: equity is explained, the
\* snapshot is legal, nothing rests on an old price, the warm-up leaves no
\* trace (backtest.py:250-495).
BooksAreTrue ==
  /\ part = "replay" => Replay!BooksAreTrue
  /\ part = "challenger" => Challenger!BooksAreTrue

\* No session takes a position through zero, and none adds to a position that
\* is on its way out (backtest.py:314, backtest_channel.py:38-55).
PositionsGoOneWay ==
  [][/\ part = "replay" => Replay!NeverCrossesZero /\ Replay!OnItsWayOut
     /\ part = "challenger" => Challenger!NeverCrossesZero /\ Challenger!OnItsWayOut]_vars

\* What a session fills could have been filled: with the money, the volume and
\* the position of its moment, at every step of it (backtest_fills.py:100-190).
FillsAreReal ==
  /\ [](part = "session" =>
          /\ Session!TypeOK /\ Session!PaidAtItsMoment
          /\ Session!SharedBudget /\ Session!ShortByMarginOnly)
  /\ [][part = "session" => Session!ReserveIsForCovering]_vars
==============================================================================
