-------------------------------- MODULE FillRules --------------------------------
(***************************************************************************)
(* How the historical simulator fills DAY limit orders (backtest_fills.py, *)
(* match_session): window by window, at the completion of each.  Prices    *)
(* are in ticks, costs and shares are percents, and money is in hundredths *)
(* so that a percent of it is whole.  The reasons that an order is told    *)
(* are left out; the number of lots that it gets is not.                   *)
(***************************************************************************)
EXTENDS Integers, Sequences, FiniteSets, FiniteSetsExt, SequencesExt, Functions

CONSTANTS
  LotSize,     \* units in a lot of each security
  Costs        \* impact, commission, participation (percents), latency, reserve

CostsAssumption ==
  /\ Costs.impact \in 0..99 /\ Costs.commission \in 0..99
  /\ Costs.participation \in 1..100
  /\ Costs.latency \in Nat /\ Costs.reserve \in Nat

Positive(n) == IF n < 0 THEN 0 ELSE n
Smaller(a, b) == IF a < b THEN a ELSE b

------------------------------------------------------------------------------
(* The events of a session: every order with every window of its security. *)
Pairs(orders, windows) ==
  {<<i, w>> : i \in DOMAIN orders, w \in UNION {ToSet(windows[s]) : s \in DOMAIN windows}}

Events(orders, windows) ==
  SetToSortSeq({p \in Pairs(orders, windows) :
                  /\ orders[p[1]].secid \in DOMAIN windows
                  /\ p[2] \in ToSet(windows[orders[p[1]].secid])},
               LAMBDA p, q : p[2].end < q[2].end \/ (p[2].end = q[2].end /\ p[1] < q[1]))

------------------------------------------------------------------------------
Cost(price, buy) == price * (IF buy THEN 100 + Costs.impact ELSE 100 - Costs.impact)

Through(o, w) ==                    \* a limit that is only touched is not executed
  IF o.buy THEN Cost(w.low, TRUE) < o.price * 100 ELSE Cost(w.high, FALSE) > o.price * 100

Price(o, w) ==                      \* a better open, rounded against the order
  IF o.buy
  THEN (Min({w.high * 100, o.price * 100, Cost(w.open, TRUE)}) + 99) \div 100
  ELSE Max({w.low * 100, o.price * 100, Cost(w.open, FALSE)}) \div 100

Executable(o, w) ==
  /\ Through(o, w)
  /\ w.low <= Price(o, w) /\ Price(o, w) <= w.high
  /\ IF o.buy THEN Price(o, w) <= o.price ELSE Price(o, w) >= o.price

Done(fills, i) ==
  SumFunction([k \in {j \in DOMAIN fills : fills[j].order = i} |-> fills[k].lots])

Consumed(fills, secid, start) ==
  SumFunction([k \in {j \in DOMAIN fills : fills[j].secid = secid /\ fills[j].start = start} |->
                 fills[k].lots * LotSize[secid]])

Capacity(o, w, fills) ==            \* shared between the orders of a security
  ((w.volume * Costs.participation) \div 100 - Consumed(fills, o.secid, w.start))
    \div LotSize[o.secid]

LotCost(o, w) == Price(o, w) * LotSize[o.secid] * (100 + Costs.commission)

FundedUnchecked(o, w, b) ==         \* mutant: a sale is not held against the position
  IF o.buy THEN Positive(b.cash - Costs.reserve) \div LotCost(o, w) ELSE o.lots

Funded(o, w, b) ==                  \* a cover may spend the reserve
  LET now == b.held[o.secid] IN
  IF o.buy
  THEN Max({Positive(b.cash - Costs.reserve) \div LotCost(o, w),
            Smaller(Positive(- now), Positive(b.cash) \div LotCost(o, w))})
  ELSE IF o.margin THEN o.lots ELSE Positive(now)

Lots(o, i, w, b) ==
  IF w.start >= Costs.latency /\ Executable(o, w)
  THEN Min({o.lots - Done(b.fills, i), Capacity(o, w, b.fills), Funded(o, w, b)})
  ELSE 0

Filled(o, i, w, b) ==
  LET lots == Lots(o, i, w, b)
      gross == lots * LotSize[o.secid] * Price(o, w)
      fee == gross * Costs.commission
  IN [cash |-> IF o.buy THEN b.cash - gross * 100 - fee ELSE b.cash + gross * 100 - fee,
      held |-> [b.held EXCEPT ![o.secid] = IF o.buy THEN @ + lots ELSE @ - lots],
      fills |-> Append(b.fills, [order |-> i, secid |-> o.secid, buy |-> o.buy, lots |-> lots,
                                 gross |-> gross * 100, fee |-> fee,
                                 start |-> w.start, end |-> w.end])]

(* The whole session; what an order did not get expires with the day.      *)
match_session(orders, windows, cash, held) ==
  FoldLeft(LAMBDA b, e : IF Lots(orders[e[1]], e[1], e[2], b) > 0
                         THEN Filled(orders[e[1]], e[1], e[2], b) ELSE b,
           [cash |-> cash, held |-> held, fills |-> <<>>], Events(orders, windows))
==============================================================================
