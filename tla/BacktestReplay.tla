----------------------------- MODULE BacktestReplay -----------------------------
(***************************************************************************)
(* The historical simulator (backtest.py, run_backtest): on each trading   *)
(* date the orders of the last decision meet the session, the portfolio is *)
(* marked at the closes, and the planner decides anew on what was seen.    *)
(* The bars of a date are chosen when the date comes.  Money is in         *)
(* hundredths, as in FillRules; a bar is one window of the day.            *)
(***************************************************************************)
EXTENDS PlanRules

CONSTANTS
  Costs,
  InitialCash, FinancingRate,      \* a percent of a short position for a day
  FirstDecision,                   \* the date before which nothing is decided
  Trend, Momentum, Volatility,     \* windows, in bars
  Channel,                         \* <<20, 10>> of the challenger, or <<>> for momentum
  Calendar,                        \* trading dates, in days
  Bars                             \* security -> the bars that a date may bring

Fills == INSTANCE FillRules WITH LotSize <- Lot, Costs <- Costs

ReplayAssumption ==
  /\ Channel # <<>> => ~ Config.shorts_enabled
  /\ ~ Config.flow_confirmation_enabled

VARIABLES
  day, pc,
  tape,          \* the bars of the dates so far: security -> bar
  cash, held,
  pending,       \* orders of the last decision
  trades,
  closes,        \* the last close of each security
  equity,        \* the mark of the day, or 0 before the first
  financing,
  previous,      \* the last date with a decision, or 0
  liquidating    \* the challenger's positions that are on their way out

vars == <<day, pc, tape, cash, held, pending, trades, closes, equity, financing, previous,
          liquidating>>

Today == Calendar[day]

TypeOK ==
  /\ day \in 0..Len(Calendar) /\ pc \in {"night", "match", "decide"}
  /\ cash \in Int /\ financing \in Nat /\ equity \in Int
  /\ \A s \in Securities : held[s] # 0 => s \in DOMAIN closes
  /\ liquidating \subseteq Securities

Init ==
  /\ day = 0 /\ pc = "night" /\ tape = <<>>
  /\ cash = InitialCash * 100 /\ held = [s \in Securities |-> 0]
  /\ pending = <<>> /\ trades = <<>> /\ closes = <<>> /\ equity = 0
  /\ financing = 0 /\ previous = 0 /\ liquidating = {}

------------------------------------------------------------------------------
Sessions(s) == SelectSeq([d \in 1..Len(tape) |-> d], LAMBDA d : s \in DOMAIN tape[d])
History(s) == [k \in DOMAIN Sessions(s) |-> tape[Sessions(s)[k]][s]]
Back(h, k) == h[Len(h) - k]                      \* k bars before the last
Required == Max({Trend, Volatility + 1, Momentum + 1})

_market_for_date ==
  LET Seen(s) ==
        LET h == History(s)
            price == Back(h, 0).close
        IN [price |-> price * 100,
            momentum |-> (price * 1000) \div Back(h, Momentum).close - 1000,
            above |-> price * Trend - SumFunction([k \in 0..(Trend - 1) |-> Back(h, k).close]),
            units |-> 1, tradable |-> TRUE, complete |-> TRUE,
            fresh |-> Today - Calendar[Last(Sessions(s))] <= 1]
  IN [s \in {x \in Securities : Len(History(x)) >= Required} |-> Seen(s)]

Exposed == {s \in Securities : held[s] < 0 /\ s \in DOMAIN closes}

NightCost(days) ==
  SumFunction([s \in Exposed |-> Abs(held[s]) * Lot[s] * closes[s] * FinancingRate * days])

(* A date begins: shorts are financed since the last one, the bars come in, *)
(* and during the warm-up nothing else happens.                            *)
NightUnwarmed ==      \* mutant: the warm-up decides as well
  /\ pc = "night" /\ day < Len(Calendar)
  /\ day' = day + 1
  /\ LET cost == IF previous = 0 THEN 0 ELSE NightCost(Calendar[day + 1] - previous) IN
       cash' = cash - cost /\ financing' = financing + cost
  /\ \E S \in SUBSET Securities :
       \E bars \in {f \in [S -> UNION {Bars[s] : s \in S}] : \A s \in S : f[s] \in Bars[s]} :
         S # {} /\ tape' = Append(tape, bars)
  /\ pc' = "match"
  /\ UNCHANGED <<held, pending, trades, closes, equity, previous, liquidating>>

Night ==
  /\ pc = "night" /\ day < Len(Calendar)
  /\ day' = day + 1
  /\ LET cost == IF previous = 0 THEN 0 ELSE NightCost(Calendar[day + 1] - previous) IN
       cash' = cash - cost /\ financing' = financing + cost
  /\ \E S \in SUBSET Securities :
       \E bars \in {f \in [S -> UNION {Bars[s] : s \in S}] : \A s \in S : f[s] \in Bars[s]} :
         S # {} /\ tape' = Append(tape, bars)
  /\ pc' = IF Calendar[day + 1] < FirstDecision THEN "night" ELSE "match"
  /\ UNCHANGED <<held, pending, trades, closes, equity, previous, liquidating>>

(* The orders of the last decision meet the session and expire with it;    *)
(* the portfolio is marked.                                                *)
Windows ==
  [s \in DOMAIN Last(tape) |->
     LET b == Last(tape)[s] IN
     <<[start |-> 0, end |-> 86400, open |-> b.open, high |-> b.high, low |-> b.low,
        volume |-> b.volume]>>]

Marked(positions, prices) ==
  SumFunction([s \in DOMAIN prices |-> positions[s] * Lot[s] * prices[s] * 100])

LastCloses == [s \in DOMAIN Last(tape) |-> Last(tape)[s].close] @@ closes

Match ==
  /\ pc = "match"
  /\ LET b == Fills!match_session(pending, Windows, cash, held) IN
     /\ cash' = b.cash /\ held' = b.held
     /\ trades' = trades \o [k \in DOMAIN b.fills |-> [day |-> day] @@ b.fills[k]]
  /\ closes' = LastCloses
  /\ equity' = IF DOMAIN _market_for_date # {} \/ previous # 0
               THEN cash' + Marked(held', closes') ELSE 0
  /\ pc' = "decide"
  /\ UNCHANGED <<day, tape, pending, financing, previous, liquidating>>

(* The planner decides on the portfolio as it is after the session; a      *)
(* snapshot with negative cash raises, and the replay with it.             *)
Account ==
  [cash |-> cash, blocked_cash |-> 0, reported |-> 0, turnover |-> 0, open |-> 0,
   external |-> FALSE, pos |-> held, blocked |-> [s \in Securities |-> 0]]

Calm == assess_geo_risk({}, FALSE)

Plan(targets, market) ==
  LET Judge(acc, i) ==
        IF evaluate_intent(i, acc.book, Account.blocked, Calm)
        THEN [book |-> Project(acc.book, i),
              orders |-> Append(acc.orders, [i EXCEPT !.price = @ \div 100])]
        ELSE acc
  IN FoldLeft(Judge, [book |-> OpenBook(Account, market), orders |-> <<>>],
              build_order_intents(targets, Account, market, Calm)).orders

(* The challenger: a breakout above the last highs enters, a close below   *)
(* the last lows sends a position out, until it is gone.                   *)
HeldLong == {s \in Securities : held[s] > 0}

Current(s) == s \in DOMAIN Last(tape) /\ Len(History(s)) > Channel[1]
Highest(s) == Max({Back(History(s), k).high : k \in 1..Channel[1]})
Lowest(s) == Min({Back(History(s), k).low : k \in 1..Channel[2]})

GoingOut(market) ==
  (liquidating \cap HeldLong)
    \cup {s \in HeldLong \cap DOMAIN market :
            Current(s) /\ Back(History(s), 0).close < Lowest(s)}

channel_targets(market) ==
  LET breakouts == {s \in DOMAIN market \ HeldLong :
                      Current(s) /\ Back(History(s), 0).close > Highest(s)}
      ranked == Ranked(breakouts,
                       LAMBDA s : (Back(History(s), 0).close * 1000) \div Highest(s))
      slots == NotNegative(Config.top_n - Cardinality(HeldLong))
      kept == SelectSeq(Names, LAMBDA s : s \in HeldLong \ GoingOut(market))
  IN Weighted(kept \o SubSeq(ranked, 1, Least(slots, Len(ranked))), market,
              Config.long_target_gross, TRUE)

NextOrdersOrLast(market) ==     \* mutant: a date without a decision keeps the orders
  IF ~ validate_market(market) THEN pending
  ELSE Plan(IF Channel = <<>> THEN calculate_targets(market, held) ELSE channel_targets(market),
            market)

NextOrders(market) ==
  IF ~ validate_market(market) THEN <<>>
  ELSE Plan(IF Channel = <<>> THEN calculate_targets(market, held) ELSE channel_targets(market),
            market)

Decide ==
  /\ pc = "decide"
  /\ DOMAIN _market_for_date # {} => cash >= 0
  /\ LET market == _market_for_date IN
     /\ previous' = IF DOMAIN market = {} THEN previous ELSE Today
     /\ liquidating' = IF Channel # <<>> /\ validate_market(market) THEN GoingOut(market)
                       ELSE liquidating
     /\ pending' = NextOrders(market)
  /\ pc' = "night"
  /\ UNCHANGED <<day, tape, cash, held, trades, closes, equity, financing>>

Next == Night \/ Match \/ Decide

Spec == Init /\ [][Next]_vars

------------------------------------------------------------------------------

_security_pnl ==
  Marked(held, closes)
  + SumFunction([k \in DOMAIN trades |-> (IF trades[k].buy THEN - trades[k].gross
                                          ELSE trades[k].gross) - trades[k].fee])

(* What the report attributes to the securities explains the equity curve  *)
(* to the kopeck: the rest is the financing of shorts, that no security    *)
(* bears (backtest.py:477-494).                                            *)
PnlExplainsEquity ==
  pc = "decide" /\ equity # 0 => equity = InitialCash * 100 + _security_pnl - financing

(* The replay never stops at a snapshot that raises: neither fills nor the *)
(* financing of shorts leave negative cash (domain.py:126-130).            *)
SnapshotIsLegal == pc = "decide" => cash >= 0

(* An order of a decision meets one session, the next one, and what is     *)
(* left of it never adds to the order of the next decision: a position is  *)
(* closed before the other side is opened (tests/test_backtest.py:67).     *)
NeverCrossesZero == \A s \in Securities : held[s] * held'[s] >= 0

(* Before the first decision date nothing is traded, paid or marked        *)
(* (backtest.py:263-264).                                                  *)
WarmUpLeavesNoTrace ==
  /\ \A k \in DOMAIN trades : Calendar[trades[k].day] > FirstDecision
  /\ day > 0 /\ Today < FirstDecision =>
       cash = InitialCash * 100 /\ equity = 0 /\ pending = <<>> /\ financing = 0

(* No order rests on a price that is older than a day, of any security: a  *)
(* security that stops trading stops every decision (quality.py:28-32).    *)
StaleNeverTrades ==
  pc = "night" /\ pending # <<>> =>
    \A s \in Securities : Len(History(s)) >= Required => Today - Calendar[Last(Sessions(s))] <= 1

(* A position that the challenger sends out is never increased until it is *)
(* gone, whatever part of it a session sells (backtest_channel.py:38-55).  *)
OnItsWayOut == \A s \in liquidating : held'[s] <= held[s]

(* The books of a replay, at every moment of it (backtest.py:250-495).     *)
BooksAreTrue ==
  TypeOK /\ PnlExplainsEquity /\ SnapshotIsLegal /\ WarmUpLeavesNoTrace /\ StaleNeverTrades
==============================================================================
