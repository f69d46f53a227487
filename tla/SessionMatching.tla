----------------------------- MODULE SessionMatching -----------------------------
(***************************************************************************)
(* One session of the historical simulator, event by event: the orders of  *)
(* a plan against the windows of their securities.                         *)
(***************************************************************************)
EXTENDS FillRules

CONSTANT Sessions      \* records of orders, windows, cash and held

VARIABLES
  orders,
  windows,    \* security -> its windows of the session
  first,      \* the cash and the positions before it
  left,       \* events that are to come
  book        \* cash, held, fills

vars == <<orders, windows, first, left, book>>

InOrder(ws) ==
  /\ \A k \in DOMAIN ws : ws[k].start < ws[k].end /\ ws[k].low <= ws[k].high
  /\ \A k \in 2..Len(ws) : ws[k].start >= ws[k - 1].end

Init ==
  \E s \in Sessions :
    /\ \A secid \in DOMAIN s.windows : InOrder(s.windows[secid])
    /\ orders = s.orders /\ windows = s.windows
    /\ first = [cash |-> s.cash, held |-> s.held]
    /\ left = Events(s.orders, s.windows)
    /\ book = [cash |-> s.cash, held |-> s.held, fills |-> <<>>]

index == Head(left)[1]
window == Head(left)[2]

Fill ==
  /\ left # <<>>
  /\ Lots(orders[index], index, window, book) > 0
  /\ book' = Filled(orders[index], index, window, book)
  /\ left' = Tail(left)
  /\ UNCHANGED <<orders, windows, first>>

Pass ==
  /\ left # <<>>
  /\ Lots(orders[index], index, window, book) <= 0
  /\ left' = Tail(left)
  /\ UNCHANGED <<orders, windows, first, book>>

Next == Fill \/ Pass

Spec == Init /\ [][Next]_vars

------------------------------------------------------------------------------
TypeOK ==
  /\ book.cash \in Int
  /\ \A s \in DOMAIN book.held : book.held[s] \in Int
  /\ \A k \in DOMAIN book.fills : book.fills[k].lots \in Nat \ {0} /\ book.fills[k].fee \in Nat
  /\ \A n \in DOMAIN orders : Done(book.fills, n) <= orders[n].lots

Moved(k) == IF book.fills[k].buy THEN - book.fills[k].gross - book.fills[k].fee
                                 ELSE book.fills[k].gross - book.fills[k].fee

(* A purchase is paid with the money of its moment: what a sale of a later *)
(* window brings is not there yet (backtest_fills.py:112, "Run at window   *)
(* completion").                                                           *)
PaidAtItsMoment ==
  \A k \in DOMAIN book.fills : book.fills[k].buy =>
    first.cash + SumFunction([j \in {n \in DOMAIN book.fills :
                                       book.fills[n].end <= book.fills[k].end} |-> Moved(j)]) >= 0

(* The reserve is spent on covering only, and nothing is bought on credit  *)
(* (backtest_fills.py:166-173).                                            *)
ReserveIsForCovering ==
  book'.cash < book.cash =>
    /\ book'.cash >= 0
    /\ \/ book'.cash >= Costs.reserve
       \/ \E s \in DOMAIN book.held : book.held[s] < book'.held[s] /\ book'.held[s] <= 0

(* All orders of a security together take no more of a window than the     *)
(* share of its volume (docs/CONFIG_REFERENCE_RU.md:300).                  *)
SharedBudget ==
  \A s \in DOMAIN windows : \A k \in DOMAIN windows[s] :
    Consumed(book.fills, s, windows[s][k].start) * 100 <= windows[s][k].volume * Costs.participation

(* Nobody goes short by selling what another order sold before: a position *)
(* goes below zero only by a margin order (backtest_fills.py:174-178).     *)
ShortByMarginOnly ==
  \A s \in DOMAIN book.held : book.held[s] < Smaller(first.held[s], 0) =>
    \E k \in DOMAIN book.fills :
      LET f == book.fills[k] IN f.secid = s /\ ~ f.buy /\ orders[f.order].margin
==============================================================================
