--------------------------- MODULE ExecutedEntries ---------------------------
(***************************************************************************)
(* The entry of an open intraday position, reconstructed from the executed *)
(* operations of the day.  The broker hands the operations out in pages    *)
(* while new ones are executed; executed_entries() folds what was read     *)
(* into the first fill, the side, the average price and the units of the   *)
(* position that is open at the end.  One instrument: the code keeps the   *)
(* instruments apart.                                                      *)
(***************************************************************************)
EXTENDS Integers, Sequences, SequencesExt, FiniteSets, TLC

CONSTANTS
  Quantities,      \* signed units of a fill: a BUY is positive
  Prices,
  MaxFills,        \* bound of the model
  PageSize,
  MaxPages         \* a hundred pages in the code

VARIABLES
  fills,           \* the operations the broker executed today, the oldest first
  cursor,          \* where the reader of the pages is; 0 when it does not read
  pages,           \* pages read
  result           \* the operations the reader has so far

vars == <<fills, cursor, pages, result>>

Fill == [id : 1 .. MaxFills, quantity : Quantities, price : Prices]

Abs(n) == IF n < 0 THEN -n ELSE n
None == <<>>

--------------------------------------------------------------------------
(* executed_entries().  The basis is a fraction.                           *)

\* mutant: a position that turns over keeps the entry it had
EntryAfterKeepsFlip(entry, fill) ==
  IF entry = None
  THEN [first |-> fill.id, long |-> fill.quantity > 0, cost |-> fill.price, per |-> 1,
        units |-> fill.quantity]
  ELSE IF entry.units + fill.quantity = 0 THEN None
  ELSE IF entry.units * fill.quantity > 0
  THEN [entry EXCEPT !.cost = @ * Abs(entry.units) + fill.price * Abs(fill.quantity) * entry.per,
                     !.per = @ * Abs(entry.units + fill.quantity),
                     !.units = @ + fill.quantity]
  ELSE [entry EXCEPT !.units = @ + fill.quantity]

\* The entry after one more fill: a new one, a larger one at the average
\* price, a smaller one at the same price, none, or one of the other side.
EntryAfter(entry, fill) ==
  LET opened == [first |-> fill.id, long |-> fill.quantity > 0, cost |-> fill.price, per |-> 1]
      remaining == entry.units + fill.quantity
  IN IF entry = None THEN opened @@ [units |-> fill.quantity]
     ELSE IF remaining = 0 THEN None
     ELSE IF entry.units * fill.quantity > 0
     THEN [entry EXCEPT !.cost = @ * Abs(entry.units) + fill.price * Abs(fill.quantity) * entry.per,
                        !.per = @ * Abs(remaining),
                        !.units = remaining]
     ELSE IF entry.units * remaining > 0 THEN [entry EXCEPT !.units = remaining]
     ELSE opened @@ [units |-> remaining]

InOrder(operations) == SortSeq(operations, LAMBDA a, b : a.id < b.id)

ExecutedEntry(operations) == FoldLeft(EntryAfter, None, InOrder(operations))

--------------------------------------------------------------------------
(* operations(): the pages, the oldest operation first, each once.         *)

Init == fills = <<>> /\ cursor = 0 /\ pages = 0 /\ result = <<>>

Execute ==
  /\ Len(fills) < MaxFills
  /\ \E quantity \in Quantities, price \in Prices :
       fills' = Append(fills, [id |-> Len(fills) + 1, quantity |-> quantity, price |-> price])
  /\ UNCHANGED <<cursor, pages, result>>

StartReading ==
  /\ cursor = 0
  /\ cursor' = 1 /\ pages' = 0 /\ result' = <<>>
  /\ UNCHANGED fills

Known(operation) == \E i \in DOMAIN result : result[i].id = operation.id

New(page) == SelectSeq(page, LAMBDA operation : ~ Known(operation))

\* A page begins at the cursor, or one operation before it: the cursor of the
\* broker is only known to advance.
ReadPage ==
  /\ cursor # 0 /\ pages < MaxPages
  /\ \E from \in {cursor, cursor - 1} \ {0} :
       LET last == IF from + PageSize - 1 < Len(fills) THEN from + PageSize - 1 ELSE Len(fills)
       IN /\ result' = result \o New(SubSeq(fills, from, last))
          /\ cursor' = IF last = Len(fills) THEN 0 ELSE last + 1
  /\ pages' = pages + 1
  /\ UNCHANGED fills

\* A page that fails, and too many pages, give no operations at all.
Fail ==
  /\ cursor # 0
  /\ cursor' = 0 /\ pages' = 0 /\ result' = <<>>
  /\ UNCHANGED fills

Next == Execute \/ StartReading \/ ReadPage \/ Fail

Spec == Init /\ [][Next]_vars

--------------------------------------------------------------------------
(* The reference: what the entry of the open position is.                  *)

Net(ops, n) == FoldLeft(LAMBDA sum, op : sum + op.quantity, 0, SubSeq(ops, 1, n))

\* The fill that opened the position: before it there was none, or one of the other side.
Opening(ops) ==
  LET openings == {n \in DOMAIN ops : Net(ops, n) # 0 /\ Net(ops, n) * Net(ops, n - 1) <= 0}
  IN CHOOSE n \in openings : \A m \in openings : m <= n

\* The fills since then that made the position larger.
Enlarging(ops) == {n \in Opening(ops) .. Len(ops) : ops[n].quantity * Net(ops, Len(ops)) > 0}

Reduced(ops) == \E n \in Opening(ops) .. Len(ops) : ops[n].quantity * Net(ops, Len(ops)) < 0

--------------------------------------------------------------------------
(* Properties.                                                             *)

TypeOK ==
  /\ \A i \in DOMAIN fills : fills[i] \in Fill
  /\ cursor \in 0 .. MaxFills + 1 /\ pages \in 0 .. MaxPages
  /\ Len(result) <= MaxFills

\* The entry is the one of the position the operations leave: its units and
\* side, the fill that opened this position and not an earlier one, and a
\* price between the prices of the fills that built it, their exact average as
\* long as nothing was sold of it (intraday.py:460).
EntryIsOfTheOpenPosition ==
  LET entry == ExecutedEntry(fills)
      net == Net(fills, Len(fills))
      built == Enlarging(fills)
      own(n) == IF n = Opening(fills) THEN Abs(Net(fills, n)) ELSE Abs(fills[n].quantity)
      sum == FoldLeft(LAMBDA acc, n : acc + fills[n].price * own(n), 0, SetToSeq(built))
  IN IF net = 0 THEN entry = None
     ELSE /\ entry.units = net /\ entry.long = (net > 0)
          /\ entry.first = Opening(fills)
          /\ \E low, high \in built : /\ fills[low].price * entry.per <= entry.cost
                                      /\ entry.cost <= fills[high].price * entry.per
          /\ ~ Reduced(fills) => entry.cost * Abs(net) = sum * entry.per

\* What a completed reading returns is the day up to some moment of the
\* reading, each operation once: an entry computed from it was the entry then,
\* and never one of a day with a hole or a fill counted twice
\* (integrations/tinvest_sandbox.py:371).
ReadingIsAPrefix ==
  cursor = 0 => /\ Len(result) <= Len(fills)
                /\ InOrder(result) = SubSeq(fills, 1, Len(result))
==============================================================================
