------------------------ MODULE SupervisedTradeProofs ------------------------
(***************************************************************************)
(* Proofs about SupervisedTrade for every number of polls: the trade is    *)
(* safe whatever is killed, replayed or late, an ambiguous stop is left    *)
(* alone, and the trade implements the custody of its lot and the ledger   *)
(* of its account.  The SELL that `prod-live-execute` sends beside it      *)
(* without the session lock comes last: it does not touch the invariant of *)
(* the trade, and adds three facts of its own.                             *)
(***************************************************************************)
EXTENDS LiveCanary, TLAPS, FiniteSetTheorems

------------------------------------------------------------------------------
(* The inductive invariant, in parts.                                      *)

(* Which command may be where.                                             *)
Buying == {"parent", "poll", "cancelling", "cancelled", "record_final"}
Protecting == {"activate", "stop_gate", "stop_posted", "list_stops"}
Ordering == {"reserve", "gate", "submitted", "record", "decide"}
Yielding == {"exit_reserve", "exit_gate", "stop_cancelling"}

InPlace ==
  /\ session.pc \in Buying => session.command = "execute"
  /\ session.pc \in Protecting => session.command \in {"execute", "recover"}
  /\ session.pc \in Ordering => session.command \in {"execute", "exit"}
  /\ session.pc \in Yielding => session.command = "exit"

(* Nothing is at the broker, or on its way, that was not sent; what has    *)
(* arrived does not arrive again.                                          *)
Requested ==
  /\ \A o \in Orders :
       /\ o \in in_flight => sent[o] # 0
       /\ order[o] # "none" => sent[o] # 0 /\ o \notin in_flight
  /\ "stop" \in in_flight => sent["stop"] # 0
  /\ stop # "none" => sent["stop"] # 0 /\ "stop" \notin in_flight

(* The stop is for a lot that was bought.                                  *)
StopAfterBuy == sent["stop"] # 0 => order["buy"] = "fill"

(* The sale of the take-profit is for a lot whose stop is cancelled.  It   *)
(* stands apart, because the invariant does not need it, and a sale that   *)
(* takes no session does not keep it (LiveCanary).                         *)
SaleAfterStop == sent["sell"] # 0 => stop = "cancelled"

(* What was read of an order stays true of it.                             *)
Honest(r, status) ==
  status \in TERMINAL => OrderOfRow[r] \in Placed /\ Decoded(OrderOfRow[r]) = status

TrueRows ==
  /\ \A r \in Rows :
       /\ ledger[r] = "absent" => sent[OrderOfRow[r]] = 0
       /\ ledger[r] \in TERMINAL => Final(r)
  /\ reading # NoReading => Honest(reading.row, reading.status)

(* What the command that runs may rely on.                                 *)
Ordered ==
  /\ At("gate") => ledger[Row] \in Pending /\ sent[OrderOfRow[Row]] = 0
  /\ At("submitted") => ledger[Row] # "absent"
  /\ At("record") \/ At("record_final") =>
       session.seen # "none" /\ ledger[Row] # "absent" /\ Honest(Row, session.seen)
  /\ session.pc \in Buying => ledger["entry"] # "absent"
  /\ At("decide") /\ session.seen = "filled" => ledger[Row] = "filled"

Protected ==
  /\ session.pc \in Protecting => ledger["entry"] = "filled"
  /\ At("stop_gate") \/ At("stop_posted") =>
       protection = [state |-> "POST_PENDING", stop_id |-> FALSE]
  /\ At("stop_gate") => sent["stop"] = 0
  /\ At("stop_posted") => "stop" \in in_flight \/ stop # "none"
  /\ At("list_stops") => protection.stop_id

Yielded ==
  /\ At("exit_gate") \/ At("stop_cancelling") => protection.state = "EXIT_CANCEL_PENDING"
  /\ session.command = "exit" /\ session.pc \in Ordering =>
       protection.state = "EXIT_STOP_CANCELLED"

(* The protection journal, as in JournalsAgreeWithBroker, and as long as   *)
(* nothing is planned or only planned.                                     *)
TrueProtection ==
  /\ protection.state \in {"absent", "PLANNED"} => sent["stop"] = 0 /\ ~ protection.stop_id
  /\ protection.stop_id => StopInHistory
  /\ protection.state = "ACTIVE" => protection.stop_id /\ ledger["entry"] = "filled"
  /\ protection.state = "EXIT_STOP_CANCELLED" => stop = "cancelled"
  /\ protection.state = "CLOSED_TAKE_PROFIT" => stop = "cancelled" /\ order["sell"] = "fill"

Apart == Requested /\ NothingPostedTwice /\ StopAfterBuy
Knows == InPlace /\ Ordered /\ Protected /\ Yielded

IInv == TypeOK /\ Apart /\ TrueRows /\ TrueProtection /\ Knows

------------------------------------------------------------------------------
(* What a step makes of the session.                                       *)
Sessions ==
  [command : Commands \cup {"none"}, pc : Places,
   seen : {"none"} \cup Pending \cup TERMINAL, polls : 0..MaxPolls]

(* A command goes on, keeping what it has seen.                            *)
LEMMA Goes ==
  ASSUME TypeOK, NEW pc \in Places, Goto(pc)
  PROVE  /\ session' \in Sessions
         /\ session'.pc = pc /\ session'.command = session.command
         /\ session'.seen = session.seen
BY DEF TypeOK, Sessions, Goto

(* It goes on with what it has read.                                       *)
LEMMA Reads ==
  ASSUME TypeOK, NEW pc \in Places, NEW seen \in Pending \cup TERMINAL,
         session' = [session EXCEPT !.pc = pc, !.seen = seen]
  PROVE  /\ session' \in Sessions
         /\ session'.pc = pc /\ session'.command = session.command /\ session'.seen = seen
BY DEF TypeOK, Sessions

(* It returns, raises or is killed.                                        *)
LEMMA Returns ==
  ASSUME Return
  PROVE  /\ session' \in Sessions
         /\ session'.pc = "idle" /\ session'.command = "none" /\ session'.seen = "none"
BY PollsAssumption DEF Return, NoCommand, Sessions, Places

(* It starts.                                                              *)
LEMMA Starts ==
  ASSUME NEW command \in Commands, NEW pc \in Places, Start(command, pc)
  PROVE  /\ session' \in Sessions
         /\ session'.pc = pc /\ session'.command = command /\ session'.seen = "none"
<1>1. session' = [command |-> command, pc |-> pc, seen |-> "none", polls |-> 0]
  BY DEF Start, NoCommand
<1>2. 0 \in 0..MaxPolls
  BY PollsAssumption
<1> QED
  BY <1>1, <1>2 DEF Sessions

(* A request leaves.                                                       *)
LEMMA Sends ==
  ASSUME BrokerTypeOK, NEW c \in Requests, Send(c)
  PROVE  /\ BrokerTypeOK'
         /\ sent'[c] # 0 /\ (sent[c] = 0 => sent'[c] = 1)
         /\ \A d \in Requests \ {c} : sent'[d] = sent[d]
BY DEF BrokerTypeOK, Send

(* What a strict read of an order can give.                                *)
LEMMA DecodedIsKnown ==
  ASSUME BrokerTypeOK, NEW o \in Placed
  PROVE  Decoded(o) \in {"accepted"} \cup TERMINAL
BY DEF BrokerTypeOK, Placed, Orders, Decoded, TERMINAL

(* A row is written.                                                       *)
LEMMA Writes ==
  ASSUME TypeOK, NEW r \in Rows, NEW status \in Pending \cup TERMINAL,
         ledger' = [ledger EXCEPT ![r] = status]
  PROVE  /\ ledger' \in [Rows -> {"absent"} \cup Pending \cup TERMINAL]
         /\ ledger'[r] = status
         /\ \A q \in Rows \ {r} : ledger'[q] = ledger[q]
BY DEF TypeOK

(* What a step that leaves the broker alone does not disturb.              *)
LEMMA BrokerStill ==
  ASSUME Apart, BrokerTypeOK, UNCHANGED broker_vars
  PROVE  /\ Apart' /\ BrokerTypeOK'
         /\ Placed' = Placed /\ StopInHistory' = StopInHistory
BY DEF Apart, Requested, NothingPostedTwice, StopAfterBuy, BrokerTypeOK, broker_vars, Placed,
       StopInHistory

(* The rows stay true while neither they nor the broker change.            *)
LEMMA RowsStill ==
  ASSUME TrueRows, UNCHANGED <<broker_vars, ledger, reading>>
  PROVE  TrueRows'
BY DEF TrueRows, Final, Honest, Placed, Decoded, broker_vars

(* So does the protection, while a filled entry stays filled.              *)
LEMMA ProtectionStill ==
  ASSUME TrueProtection, UNCHANGED <<broker_vars, protection>>,
         ledger["entry"] = "filled" => ledger'["entry"] = "filled"
  PROVE  TrueProtection'
BY DEF TrueProtection, StopInHistory, broker_vars

(* A row that is written with what is true of its order.                   *)
LEMMA RowsWritten ==
  ASSUME TypeOK, TrueRows, UNCHANGED broker_vars, reading' \in {reading, NoReading},
         NEW r \in Rows, NEW status \in Pending \cup TERMINAL,
         ledger' = [ledger EXCEPT ![r] = status],
         status \in TERMINAL =>
           \/ Honest(r, status)
           \/ /\ status = "rejected"
              /\ OrderOfRow[r] \notin Placed /\ sent[OrderOfRow[r]] = 0
  PROVE  TrueRows'
<1>1. /\ ledger'[r] = status
      /\ \A q \in Rows \ {r} : ledger'[q] = ledger[q]
  BY Writes
<1>2. \A o : Decoded(o)' = Decoded(o)
  BY DEF broker_vars, Decoded
<1>3. Placed' = Placed /\ sent' = sent
  BY DEF broker_vars, Placed
<1>4. status # "absent"
  BY DEF Pending, TERMINAL
<1>5. ASSUME NEW q \in Rows
      PROVE  /\ ledger'[q] = "absent" => sent'[OrderOfRow[q]] = 0
             /\ ledger'[q] \in TERMINAL => Final(q)'
  <2>1. CASE q = r
    BY <1>1, <1>2, <1>3, <1>4, <2>1 DEF Final, Honest
  <2>2. CASE q # r
    BY <1>1, <1>2, <1>3, <2>2 DEF TrueRows, Final
  <2> QED
    BY <2>1, <2>2
<1>6. reading' # NoReading => Honest(reading.row, reading.status)'
  BY <1>2, <1>3 DEF TrueRows, Honest
<1> QED
  BY <1>3, <1>5, <1>6 DEF TrueRows

(* A step of a command that writes nothing and sends nothing.              *)
LEMMA SessionMoves ==
  ASSUME IInv, session' \in Sessions, Knows',
         UNCHANGED <<broker_vars, ledger, protection, permits, reading>>
  PROVE  IInv'
<1>1. Apart' /\ BrokerTypeOK' /\ TrueRows' /\ TrueProtection'
  BY BrokerStill, RowsStill, ProtectionStill DEF IInv, TypeOK
<1>2. TypeOK'
  BY <1>1 DEF IInv, TypeOK, Sessions, permits
<1> QED
  BY <1>1, <1>2 DEF IInv

(* A command that is over knows nothing and needs nothing.                 *)
LEMMA IdleKnows ==
  ASSUME session'.pc = "idle", session'.command = "none", session'.seen = "none"
  PROVE  Knows'
BY DEF Knows, InPlace, Ordered, Protected, Yielded, At, Buying, Protecting, Ordering, Yielding

(* Raising, being killed, and returning without a fill.                    *)
LEMMA EndKeeps == ASSUME IInv, Abort \/ NotFilled PROVE IInv'
BY Returns, IdleKnows, SessionMoves DEF Abort, NotFilled

(* A command keeps its row.                                                *)
LEMMA RowOfCommand ==
  ASSUME IInv, session'.command = session.command
  PROVE  Row' = Row /\ Row \in Rows
BY DEF Row, Rows

(* A replay that finds a terminal entry sends nothing.                     *)
LEMMA AlreadyDoneKeeps == ASSUME IInv, AlreadyDone PROVE IInv'
<1>1. /\ session' \in Sessions
      /\ session'.pc = "parent" /\ session'.command = "execute"
  BY Goes DEF IInv, AlreadyDone, Places
<1>2. ledger'["entry"] \in TERMINAL /\ UNCHANGED <<broker_vars, ledger, protection, permits, reading>>
  BY DEF AlreadyDone, Row
<1>3. Knows'
  BY <1>1, <1>2 DEF Knows, InPlace, Ordered, Protected, Yielded, At, Buying, Protecting,
    Ordering, Yielding, TERMINAL
<1> QED
  BY <1>1, <1>2, <1>3, SessionMoves

(* The entry that was reserved is in the ledger, whoever wrote it last.    *)
LEMMA ReadParentKeeps == ASSUME IInv, ReadParent PROVE IInv'
<1>1. /\ ledger["entry"] \in Pending \cup TERMINAL
      /\ session.command = "execute"
  BY DEF IInv, TypeOK, Rows, Knows, InPlace, Ordered, ReadParent, At, Buying
<1> DEFINE to == IF ledger["entry"] \in TERMINAL THEN "decide" ELSE "poll"
<1>2. /\ session' \in Sessions
      /\ session'.pc = to /\ session'.command = session.command
      /\ session'.seen = ledger["entry"]
  BY <1>1, Reads DEF IInv, ReadParent, Places
<1>3. UNCHANGED <<broker_vars, ledger, protection, permits, reading>>
  BY DEF ReadParent
<1>4. Knows'
  BY <1>1, <1>2, <1>3 DEF Knows, InPlace, Ordered, Protected, Yielded, At, Row, Buying,
    Protecting, Ordering, Yielding, TERMINAL, Pending
<1> QED
  BY <1>2, <1>3, <1>4, SessionMoves

(* A read of an order that is there is true, and stays so.                 *)
LEMMA LookupKnows ==
  ASSUME IInv, NEW to \in {"record", "record_final"},
         At("submitted") \/ (session.pc \in {"poll", "cancelled"} /\ Row = "entry"),
         OrderOfRow[Row] \in Placed,
         UNCHANGED <<broker_vars, ledger, protection, permits, reading>>,
         session' \in Sessions, session'.pc = to, session'.command = session.command,
         session'.seen = Decoded(OrderOfRow[Row]),
         to = "record_final" => session.command = "execute"
  PROVE  Knows'
<1>1. Row' = Row /\ Row \in Rows /\ ledger[Row] # "absent"
      /\ session.command \in {"execute", "exit"}
  BY DEF IInv, Knows, InPlace, Ordered, Row, Rows, At, Buying, Ordering
<1>2. /\ Placed' = Placed /\ Decoded(OrderOfRow[Row])' = Decoded(OrderOfRow[Row])
      /\ Decoded(OrderOfRow[Row]) # "none"
  BY <1>1, DecodedIsKnown DEF Placed, Decoded, broker_vars, IInv, TypeOK, TERMINAL
<1>3. Honest(Row, session.seen)'
  BY <1>1, <1>2 DEF Honest
<1>4. InPlace' /\ Ordered'
  BY <1>1, <1>2, <1>3 DEF InPlace, Ordered, At, Buying, Protecting, Ordering, Yielding, Row
<1>5. session.command = "exit" => session.pc \in Ordering
  BY <1>1 DEF At, Ordering, Row
<1>6. Protected' /\ Yielded'
  BY <1>1, <1>5 DEF IInv, Knows, Protected, Yielded, At, Protecting
<1> QED
  BY <1>4, <1>6 DEF Knows

(* The three reads of an order by its command.                             *)
LEMMA LookupKeeps == ASSUME IInv, LookupSubmitted \/ LookupFinal \/ Poll PROVE IInv'
<1> USE DEF At
<1> DEFINE to == IF LookupFinal THEN "record_final" ELSE "record"
<1>1. /\ \/ session.pc = "submitted" /\ to = "record"
         \/ session.pc = "poll" /\ to = "record"
         \/ session.pc = "cancelled" /\ to = "record_final"
      /\ OrderOfRow[Row] \in Placed
      /\ UNCHANGED <<broker_vars, ledger, protection, permits, reading>>
  BY DEF LookupSubmitted, LookupFinal, Lookup, Poll, IInv, Knows, InPlace, Buying, Row, OrderOfRow
<1>2. session.pc \in {"poll", "cancelled"} => session.command = "execute" /\ Row = "entry"
  BY DEF IInv, Knows, InPlace, Buying, Row
<1>3. /\ session' \in Sessions
      /\ session'.pc = to /\ session'.command = session.command
      /\ session'.seen = Decoded(OrderOfRow[Row])
  <2>1. Decoded(OrderOfRow[Row]) \in Pending \cup TERMINAL
    BY <1>1, DecodedIsKnown DEF IInv, TypeOK, Pending
  <2>2. CASE LookupSubmitted \/ LookupFinal
    <3>1. session' = [session EXCEPT !.pc = to, !.seen = Decoded(OrderOfRow[Row])]
      BY <2>2, <1>1 DEF LookupSubmitted, LookupFinal, Lookup
    <3> QED
      BY <2>1, <3>1, Reads DEF IInv, Places
  <2>3. CASE Poll
    <3>1. session.polls + 1 \in 0..MaxPolls
      BY <2>3, PollsAssumption DEF Poll, IInv, TypeOK
    <3>2. OrderOfRow[Row] = "buy" /\ to = "record"
      BY <2>3, <1>2 DEF Poll, OrderOfRow, LookupFinal, Lookup
    <3> QED
      BY <2>1, <2>3, <3>1, <3>2 DEF Poll, Sessions, IInv, TypeOK, Places
  <2> QED
    BY <2>2, <2>3
<1>4. to = "record_final" => session.command = "execute"
  BY <1>1, <1>2
<1>5. Knows'
  BY <1>1, <1>2, <1>3, <1>4, LookupKnows
<1> QED
  BY <1>1, <1>3, <1>5, SessionMoves

(* The other steps that only go on.                                        *)
LEMMA GoKeeps == ASSUME IInv, CancelAnswered \/ Filled PROVE IInv'
<1> USE DEF At
<1> DEFINE to == IF CancelAnswered THEN "cancelled" ELSE "activate"
<1>1. /\ session.command = "execute"
      /\ \/ session.pc = "cancelling" /\ to = "cancelled"
         \/ session.pc = "decide" /\ session.seen = "filled" /\ to = "activate"
      /\ Goto(to) /\ UNCHANGED <<broker_vars, ledger, protection, permits, reading>>
  BY DEF CancelAnswered, Filled, IInv, Knows, InPlace, Buying
<1>2. session' \in Sessions /\ session'.pc = to /\ session'.command = session.command
  BY <1>1, Goes DEF IInv, Places
<1>3. Knows'
  BY <1>1, <1>2 DEF IInv, Knows, InPlace, Ordered, Protected, Yielded, Buying,
    Protecting, Ordering, Yielding, Row
<1> QED
  BY <1>1, <1>2, <1>3, SessionMoves

(* The commands that begin with a check.                                   *)
LEMMA ExitExecuteKeeps == ASSUME IInv, ExitExecute PROVE IInv'
<1>1. /\ session' \in Sessions
      /\ session'.pc = "exit_reserve" /\ session'.command = "exit"
  BY Starts DEF ExitExecute, Commands, Places
<1>2. Knows'
  BY <1>1 DEF Knows, InPlace, Ordered, Protected, Yielded, At, Buying,
    Protecting, Ordering, Yielding
<1> QED
  BY <1>1, <1>2, SessionMoves DEF ExitExecute

(* Previews, the enrollment and the end of an approval.                    *)
LEMMA PermitsKeep ==
  ASSUME IInv,
         Preview \/ Enroll \/ ProtectionPreview \/ ExitPreview
           \/ (\E c \in Commands : TimePasses(c))
  PROVE  IInv'
<1>1. UNCHANGED <<broker_vars, ledger, protection, session, reading>>
  BY DEF Preview, Enroll, ProtectionPreview, ExitPreview, TimePasses
<1>2. approval' \in [Commands -> {"none", "open", "short", "expired"}]
  BY DEF Preview, Enroll, ProtectionPreview, ExitPreview, TimePasses, IInv, TypeOK, Commands
<1>3. enrolled' = TRUE \/ enrolled' = enrolled
  BY DEF Preview, Enroll, ProtectionPreview, ExitPreview, TimePasses
<1>4. enrolled' \in BOOLEAN
  BY <1>3 DEF IInv, TypeOK
<1>5. Apart' /\ BrokerTypeOK' /\ TrueRows' /\ TrueProtection'
  BY <1>1, BrokerStill, RowsStill, ProtectionStill DEF IInv, TypeOK
<1>6. TypeOK'
  BY <1>1, <1>2, <1>5, <1>4 DEF IInv, TypeOK
<1>7. Knows'
  BY <1>1 DEF IInv, Knows, InPlace, Ordered, Protected, Yielded, At, Row, Honest, Placed,
    Decoded, broker_vars
<1> QED
  BY <1>5, <1>6, <1>7 DEF IInv

------------------------------------------------------------------------------
(* A step that writes the protection journal.                              *)
LEMMA ProtectionMoves ==
  ASSUME IInv, session' \in Sessions, Knows',
         protection' \in [state : ProtectionStates, stop_id : BOOLEAN], TrueProtection',
         UNCHANGED <<broker_vars, ledger, permits, reading>>
  PROVE  IInv'
<1>1. Apart' /\ BrokerTypeOK' /\ TrueRows'
  BY BrokerStill, RowsStill DEF IInv, TypeOK
<1>2. TypeOK'
  BY <1>1 DEF IInv, TypeOK, Sessions, permits
<1> QED
  BY <1>1, <1>2 DEF IInv

(* The state is written, the identity of the stop stays.                   *)
LEMMA StateWritten ==
  ASSUME TypeOK, NEW state \in ProtectionStates,
         protection' = [protection EXCEPT !.state = state]
  PROVE  /\ protection' \in [state : ProtectionStates, stop_id : BOOLEAN]
         /\ protection'.state = state /\ protection'.stop_id = protection.stop_id
BY DEF TypeOK

(* A plan is made once, before anything was sent.                          *)
LEMMA ExecuteKeeps == ASSUME IInv, Execute PROVE IInv'
<1>1. /\ session' \in Sessions
      /\ session'.pc = "reserve" /\ session'.command = "execute"
  BY Starts DEF Execute, Commands, Places
<1>2. Knows'
  BY <1>1 DEF Knows, InPlace, Ordered, Protected, Yielded, At, Buying,
    Protecting, Ordering, Yielding
<1>3. CASE protection.state = "absent"
  <2>1. protection' = [state |-> "PLANNED", stop_id |-> FALSE]
    BY <1>3 DEF Execute
  <2>2. TrueProtection' /\ protection' \in [state : ProtectionStates, stop_id : BOOLEAN]
    BY <1>3, <2>1 DEF Execute, IInv, TrueProtection, ProtectionStates, broker_vars
  <2> QED
    BY <1>1, <1>2, <2>2, ProtectionMoves DEF Execute
<1>4. CASE protection.state # "absent"
  BY <1>1, <1>2, <1>4, SessionMoves DEF Execute
<1> QED
  BY <1>3, <1>4

(* The stop is reserved while it was not sent, by a plan that was not      *)
(* used.                                                                   *)
LEMMA ReserveStopKeeps == ASSUME IInv, ReserveStop PROVE IInv'
<1> USE DEF At
<1>1. /\ session' \in Sessions
      /\ session'.pc = "stop_gate" /\ session'.command = session.command
  BY Goes DEF IInv, ReserveStop, Places
<1>2. /\ protection.state = "PLANNED" /\ sent["stop"] = 0 /\ protection.stop_id = FALSE
      /\ session.command \in {"execute", "recover"} /\ ledger["entry"] = "filled"
  BY DEF ReserveStop, IInv, TypeOK, TrueProtection, Knows, InPlace, Protecting
<1>3. protection' = [state |-> "POST_PENDING", stop_id |-> FALSE]
  BY <1>2 DEF ReserveStop, IInv, TypeOK
<1>4. UNCHANGED <<broker_vars, ledger, permits, reading>>
  BY DEF ReserveStop
<1>5. Knows'
  BY <1>1, <1>2, <1>3, <1>4 DEF Knows, InPlace, Ordered, Protected, Yielded, Buying,
    Protecting, Ordering, Yielding, broker_vars
<1>6. TrueProtection' /\ protection' \in [state : ProtectionStates, stop_id : BOOLEAN]
  BY <1>3 DEF TrueProtection, ProtectionStates
<1> QED
  BY <1>1, <1>4, <1>5, <1>6, ProtectionMoves

(* A stop that was not sent is planned again, an unknown one never is.     *)
LEMMA StopOutcomeKeeps == ASSUME IInv, StopNotDispatched \/ StopUnknown PROVE IInv'
<1> USE DEF At
<1>1. /\ session' \in Sessions /\ Knows'
      /\ UNCHANGED <<broker_vars, ledger, permits, reading>>
  BY Returns, IdleKnows DEF StopNotDispatched, StopUnknown
<1>2. CASE StopNotDispatched
  <2>1. protection' = [state |-> "PLANNED", stop_id |-> FALSE] /\ sent["stop"] = 0
    BY <1>2 DEF StopNotDispatched, IInv, Knows, Protected
  <2>2. TrueProtection' /\ protection' \in [state : ProtectionStates, stop_id : BOOLEAN]
    BY <1>1, <2>1 DEF TrueProtection, ProtectionStates, broker_vars
  <2> QED
    BY <1>1, <2>2, ProtectionMoves
<1>3. CASE StopUnknown
  <2>1. TrueProtection' /\ protection' \in [state : ProtectionStates, stop_id : BOOLEAN]
    BY <1>3 DEF StopUnknown, TrueProtection, ProtectionStates
  <2> QED
    BY <1>1, <2>1, ProtectionMoves
<1> QED
  BY <1>2, <1>3

(* An answer names a stop that the broker has.                             *)
LEMMA StopAnsweredKeeps == ASSUME IInv, StopAnswered PROVE IInv'
<1> USE DEF At
<1>1. /\ session' \in Sessions
      /\ session'.pc = "activate" /\ session'.command = session.command
  BY Goes DEF IInv, StopAnswered, Places
<1>2. /\ protection' = [state |-> "UNKNOWN", stop_id |-> TRUE]
      /\ stop # "none" /\ session.pc = "stop_posted"
      /\ UNCHANGED <<broker_vars, ledger, permits, reading>>
  BY DEF StopAnswered, Arrived, IInv, Knows, Protected
<1>3. Knows'
  BY <1>1, <1>2 DEF IInv, Knows, InPlace, Ordered, Protected, Yielded, Buying,
    Protecting, Ordering, Yielding
<1>4. TrueProtection' /\ protection' \in [state : ProtectionStates, stop_id : BOOLEAN]
  BY <1>2 DEF TrueProtection, ProtectionStates, StopInHistory, broker_vars
<1> QED
  BY <1>1, <1>2, <1>3, <1>4, ProtectionMoves

(* A stop whose id is known is looked up, and becomes unknown meanwhile.   *)
LEMMA ReconcileStopKeeps == ASSUME IInv, ReconcileStop PROVE IInv'
<1> USE DEF At
<1>1. /\ session' \in Sessions
      /\ session'.pc = "list_stops" /\ session'.command = session.command
  BY Goes DEF IInv, ReconcileStop, Places
<1>2. /\ protection' \in [state : ProtectionStates, stop_id : BOOLEAN]
      /\ protection'.state = "UNKNOWN" /\ protection'.stop_id = protection.stop_id
      /\ protection.stop_id /\ session.pc = "activate"
      /\ UNCHANGED <<broker_vars, ledger, permits, reading>>
  BY StateWritten DEF ReconcileStop, IInv, ProtectionStates
<1>3. Knows'
  BY <1>1, <1>2 DEF IInv, Knows, InPlace, Ordered, Protected, Yielded, Buying,
    Protecting, Ordering, Yielding
<1>4. TrueProtection'
  BY <1>2 DEF IInv, TrueProtection, StopInHistory, broker_vars
<1> QED
  BY <1>1, <1>2, <1>3, <1>4, ProtectionMoves

(* A stop is active only once it was listed.                               *)
LEMMA StopVerifiedKeeps == ASSUME IInv, StopVerified PROVE IInv'
<1> USE DEF At
<1>1. session' \in Sessions /\ Knows'
  BY Returns, IdleKnows DEF StopVerified
<1>2. /\ protection' \in [state : ProtectionStates, stop_id : BOOLEAN]
      /\ protection'.state = "ACTIVE" /\ protection'.stop_id = protection.stop_id
      /\ protection.stop_id /\ ledger["entry"] = "filled"
      /\ UNCHANGED <<broker_vars, ledger, permits, reading>>
  BY StateWritten DEF StopVerified, IInv, ProtectionStates, Knows, Protected, Protecting
<1>3. TrueProtection'
  BY <1>2 DEF IInv, TrueProtection, StopInHistory, broker_vars
<1> QED
  BY <1>1, <1>2, <1>3, ProtectionMoves

(* The exit of an active protection is reserved before its cancellation.   *)
LEMMA ReserveExitKeeps == ASSUME IInv, ReserveExit PROVE IInv'
<1> USE DEF At
<1>1. /\ session' \in Sessions
      /\ session'.pc = "exit_gate" /\ session'.command = session.command
  BY Goes DEF IInv, ReserveExit, Places
<1>2. /\ protection' \in [state : ProtectionStates, stop_id : BOOLEAN]
      /\ protection'.state = "EXIT_CANCEL_PENDING" /\ protection'.stop_id = protection.stop_id
      /\ session.command = "exit"
      /\ UNCHANGED <<broker_vars, ledger, permits, reading>>
  BY StateWritten DEF ReserveExit, IInv, ProtectionStates, Knows, InPlace, Yielding
<1>3. Knows'
  BY <1>1, <1>2 DEF Knows, InPlace, Ordered, Protected, Yielded, Buying,
    Protecting, Ordering, Yielding
<1>4. TrueProtection'
  BY <1>2 DEF IInv, TrueProtection, StopInHistory, broker_vars
<1> QED
  BY <1>1, <1>2, <1>3, <1>4, ProtectionMoves

(* The sale may be reserved only once the history shows the stop           *)
(* cancelled.                                                              *)
LEMMA StopCancelledKeeps == ASSUME IInv, StopCancelled PROVE IInv'
<1> USE DEF At
<1>1. /\ session' \in Sessions
      /\ session'.pc = "reserve" /\ session'.command = session.command
  BY Goes DEF IInv, StopCancelled, Places
<1>2. /\ protection' \in [state : ProtectionStates, stop_id : BOOLEAN]
      /\ protection'.state = "EXIT_STOP_CANCELLED" /\ protection'.stop_id = protection.stop_id
      /\ session.command = "exit" /\ stop = "cancelled"
      /\ UNCHANGED <<broker_vars, ledger, permits, reading>>
  BY StateWritten DEF StopCancelled, IInv, ProtectionStates, Knows, InPlace, Yielding
<1>3. Knows'
  BY <1>1, <1>2 DEF Knows, InPlace, Ordered, Protected, Yielded, Buying,
    Protecting, Ordering, Yielding
<1>4. TrueProtection'
  BY <1>2 DEF IInv, TrueProtection, StopInHistory, broker_vars
<1> QED
  BY <1>1, <1>2, <1>3, <1>4, ProtectionMoves

(* A row says filled of an order that is.                                  *)
LEMMA FilledIsFilled ==
  ASSUME IInv, NEW r \in Rows, ledger[r] = "filled"
  PROVE  order[OrderOfRow[r]] = "fill"
<1>1. Final(r)
  BY DEF IInv, TrueRows, TERMINAL
<1>2. Decoded(OrderOfRow[r]) = "filled"
  BY <1>1 DEF Final
<1>3. order[OrderOfRow[r]] \in {"none", "new", "fill", "cancelled", "rejected"}
  BY DEF IInv, TypeOK, BrokerTypeOK, Rows, OrderOfRow, Orders
<1> QED
  BY <1>2, <1>3 DEF Decoded

(* The protection closes with a sale that the ledger knows as filled.      *)
LEMMA ClosedKeeps == ASSUME IInv, Closed PROVE IInv'
<1> USE DEF At
<1>1. session' \in Sessions /\ Knows'
  BY Returns, IdleKnows DEF Closed
<1>2. /\ protection' \in [state : ProtectionStates, stop_id : BOOLEAN]
      /\ protection'.state = "CLOSED_TAKE_PROFIT" /\ protection'.stop_id = protection.stop_id
      /\ stop = "cancelled" /\ ledger["exit"] = "filled"
      /\ UNCHANGED <<broker_vars, ledger, permits, reading>>
  BY StateWritten DEF Closed, IInv, ProtectionStates, Knows, Ordered, Yielded, Ordering, Row,
    TrueProtection
<1>3. order["sell"] = "fill"
  BY <1>2, FilledIsFilled DEF Rows, OrderOfRow
<1>4. TrueProtection'
  BY <1>2, <1>3 DEF IInv, TrueProtection, StopInHistory, broker_vars
<1> QED
  BY <1>1, <1>2, <1>4, ProtectionMoves

------------------------------------------------------------------------------
(* A step that writes one row of the execution journal.                    *)
LEMMA LedgerMoves ==
  ASSUME IInv, session' \in Sessions, Knows',
         NEW r \in Rows, NEW status \in Pending \cup TERMINAL,
         ledger' = [ledger EXCEPT ![r] = status],
         ledger[r] = "filled" => status = "filled",
         status \in TERMINAL =>
           \/ Honest(r, status)
           \/ /\ status = "rejected"
              /\ OrderOfRow[r] \notin Placed /\ sent[OrderOfRow[r]] = 0,
         UNCHANGED <<broker_vars, protection, permits>>, reading' \in {reading, NoReading}
  PROVE  IInv'
<1>1. Apart' /\ BrokerTypeOK'
  BY BrokerStill DEF IInv, TypeOK
<1>2. ledger' \in [Rows -> {"absent"} \cup Pending \cup TERMINAL]
  BY Writes DEF IInv
<1>3. TrueRows'
  BY RowsWritten DEF IInv
<1>4. ledger["entry"] = "filled" => ledger'["entry"] = "filled"
  BY Writes DEF IInv, Rows
<1>5. TrueProtection'
  BY <1>4, ProtectionStill DEF IInv
<1>6. TypeOK'
  BY <1>1, <1>2 DEF IInv, TypeOK, Sessions, permits
<1> QED
  BY <1>1, <1>3, <1>5, <1>6 DEF IInv

(* An absent row was never sent.                                           *)
LEMMA ReserveKeeps == ASSUME IInv, Reserve PROVE IInv'
<1> USE DEF At
<1>1. /\ session' \in Sessions
      /\ session'.pc = "gate" /\ session'.command = session.command
  BY Goes DEF IInv, Reserve, Places
<1>2. /\ session.command \in {"execute", "exit"} /\ session.pc = "reserve"
      /\ Row' = Row /\ Row \in Rows /\ ledger[Row] = "absent"
      /\ ledger' = [ledger EXCEPT ![Row] = "request_pending"]
      /\ "request_pending" \in Pending
      /\ UNCHANGED <<broker_vars, protection, permits, reading>>
  BY <1>1 DEF IInv, Knows, InPlace, Ordering, Reserve, Row, Rows, Pending
<1>3. ledger'[Row] = "request_pending" /\ sent[OrderOfRow[Row]] = 0
  BY <1>2, Writes DEF IInv, TrueRows
<1>4. Knows'
  BY <1>1, <1>2, <1>3 DEF IInv, Knows, InPlace, Ordered, Protected, Yielded, Buying,
    Protecting, Ordering, Yielding, broker_vars
<1>5. "request_pending" \notin TERMINAL
  BY DEF TERMINAL
<1> QED
  BY <1>1, <1>2, <1>4, <1>5, LedgerMoves

(* An order that was refused before it was sent is rejected in truth.      *)
LEMMA NotSubmittedKeeps == ASSUME IInv, NotSubmitted PROVE IInv'
<1> USE DEF At
<1>1. session' \in Sessions /\ Knows'
  BY Returns, IdleKnows DEF NotSubmitted
<1>2. /\ Row \in Rows /\ ledger[Row] \in Pending /\ sent[OrderOfRow[Row]] = 0
      /\ ledger' = [ledger EXCEPT ![Row] = "rejected"]
      /\ UNCHANGED <<broker_vars, protection, permits, reading>>
  BY DEF IInv, Knows, Ordered, NotSubmitted, Row, Rows
<1>3. OrderOfRow[Row] \notin Placed
  BY <1>2 DEF IInv, Apart, Requested, Placed, Rows, OrderOfRow, Orders
<1>4. "rejected" \in Pending \cup TERMINAL /\ ledger[Row] # "filled"
  BY <1>2 DEF Pending, TERMINAL
<1> QED
  BY <1>1, <1>2, <1>3, <1>4, LedgerMoves

(* What was read of an order is written, if the row still takes it.        *)
LEMMA RecordSeenKeeps == ASSUME IInv, RecordSeen PROVE IInv'
<1> USE DEF At
<1>1. AfterRecord \in {"decide", "parent", "poll"}
  BY DEF AfterRecord
<1>2. /\ session' \in Sessions
      /\ session'.pc = AfterRecord /\ session'.command = session.command
      /\ session'.seen = session.seen
  BY <1>1, Goes DEF IInv, RecordSeen, Places
<1>8. /\ session.pc \in {"record", "record_final"}
      /\ session.command \in {"execute", "exit"}
      /\ session.command = "exit" => session.pc = "record"
  BY DEF IInv, Knows, InPlace, Ordering, Buying, RecordSeen
<1>9. session.command = "exit" => AfterRecord = "decide"
  BY DEF AfterRecord
<1>3. Row' = Row /\ Row \in Rows
  BY <1>2 DEF Row, Rows
<1>7. /\ session.seen \in Pending \cup TERMINAL /\ Honest(Row, session.seen)
      /\ ledger[Row] \in Pending \/ ledger[Row] = session.seen
      /\ ledger' = [ledger EXCEPT ![Row] = session.seen]
      /\ UNCHANGED <<broker_vars, protection, permits, reading>>
  BY DEF IInv, TypeOK, Knows, Ordered, RecordSeen, Recordable
<1>4. ledger'[Row] = session.seen /\ ledger'[Row] # "absent"
      /\ (session.command = "execute" => Row = "entry")
  BY <1>3, <1>7, Writes DEF IInv, Row, Pending, TERMINAL
<1>5. Knows'
  BY <1>1, <1>2, <1>3, <1>4, <1>7, <1>8, <1>9 DEF IInv, Knows, InPlace, Ordered, Protected, Yielded, Buying,
    Protecting, Ordering, Yielding
<1>6. ledger[Row] = "filled" => session.seen = "filled"
  BY <1>7 DEF Pending
<1> QED
  BY <1>2, <1>3, <1>5, <1>6, <1>7, LedgerMoves

(* A recovery writes the entry as filled, which its review has just read.  *)
LEMMA ProtectionApplyKeeps == ASSUME IInv, ProtectionApply PROVE IInv'
<1> USE DEF At
<1>1. /\ session' \in Sessions
      /\ session'.pc = "activate" /\ session'.command = "recover"
  BY Starts DEF ProtectionApply, Commands, Places
<1>2. /\ ledger' = [ledger EXCEPT !["entry"] = "filled"] /\ order["buy"] = "fill"
      /\ "entry" \in Rows /\ "filled" \in Pending \cup TERMINAL
      /\ UNCHANGED <<broker_vars, protection, permits, reading>>
  BY DEF ProtectionApply, MayRecover, Rows, TERMINAL
<1>3. ledger'["entry"] = "filled"
  BY <1>2, Writes DEF IInv
<1>4. Knows'
  BY <1>1, <1>2, <1>3 DEF Knows, InPlace, Ordered, Protected, Yielded, Buying,
    Protecting, Ordering, Yielding
<1>5. Honest("entry", "filled")
  BY <1>2 DEF Honest, OrderOfRow, Placed, Orders, Decoded
<1> QED
  BY <1>1, <1>2, <1>4, <1>5, LedgerMoves

(* `reconcile` reads, and writes a reading that may be old.                *)
LEMMA ReconcileLookupKeeps ==
  ASSUME IInv, NEW r \in Rows, ReconcileLookup(r)
  PROVE  IInv'
<1>1. UNCHANGED <<broker_vars, ledger, protection, permits, session>>
  BY DEF ReconcileLookup, permits
<1>2. PICK status \in {"unknown"} \cup {Decoded(o) : o \in {OrderOfRow[r]} \cap Placed} :
        reading' = [row |-> r, status |-> status]
  BY DEF ReconcileLookup
<1>3. status \in Pending \cup TERMINAL /\ Honest(r, status)
  <2>1. CASE status = "unknown"
    BY <2>1 DEF Pending, Honest, TERMINAL
  <2>2. CASE status = Decoded(OrderOfRow[r]) /\ OrderOfRow[r] \in Placed
    BY <2>2, DecodedIsKnown DEF Pending, Honest, IInv, TypeOK
  <2> QED
    BY <1>2, <2>1, <2>2
<1>4. Apart' /\ BrokerTypeOK' /\ TrueProtection'
  BY <1>1, BrokerStill, ProtectionStill DEF IInv, TypeOK
<1>5. TypeOK'
  BY <1>1, <1>2, <1>3, <1>4 DEF IInv, TypeOK, permits
<1>6. TrueRows'
  BY <1>1, <1>2, <1>3 DEF IInv, TrueRows, Final, Honest, Placed, Decoded, broker_vars
<1>7. Knows'
  BY <1>1 DEF IInv, Knows, InPlace, Ordered, Protected, Yielded, At, Row, Honest, Placed,
    Decoded, broker_vars
<1> QED
  BY <1>4, <1>5, <1>6, <1>7 DEF IInv

(* A row that somebody else wrote is what a command still relies on.       *)
LEMMA OthersWrite ==
  ASSUME IInv, NEW r \in Rows, NEW status \in Pending \cup TERMINAL,
         Honest(r, status), Recordable(r, status),
         ledger' = [ledger EXCEPT ![r] = status],
         UNCHANGED <<broker_vars, protection, session>>
  PROVE  Knows'
<1> USE DEF At
<1>1. /\ ledger'[r] = status
      /\ \A q \in Rows \ {r} : ledger'[q] = ledger[q]
  BY Writes DEF IInv
<1>2. Row' = Row /\ Row \in Rows /\ status # "absent"
  BY DEF Row, Rows, Pending, TERMINAL
<1>3. \A q \in Rows : /\ ledger[q] # "absent" => ledger'[q] # "absent"
                      /\ ledger[q] = "filled" => ledger'[q] = "filled"
  BY <1>1, <1>2 DEF Recordable, Pending
<1>4. session.pc = "gate" => ledger'[Row] \in Pending /\ sent[OrderOfRow[Row]] = 0
  <2>1. session.pc = "gate" => OrderOfRow[Row] \notin Placed
    BY <1>2 DEF IInv, Knows, Ordered, Apart, Requested, Placed, Rows, OrderOfRow, Orders
  <2> QED
    BY <1>1, <1>2, <2>1 DEF IInv, Knows, Ordered, Honest
<1>5. Honest(Row, session.seen)' = Honest(Row, session.seen)
  BY <1>2 DEF Honest, Placed, Decoded, broker_vars
<1>6. Ordered'
  BY <1>2, <1>3, <1>4, <1>5 DEF IInv, Knows, Ordered, Rows, broker_vars
<1>7. InPlace' /\ Protected' /\ Yielded'
  BY <1>3 DEF IInv, Knows, InPlace, Protected, Yielded, Rows, broker_vars
<1> QED
  BY <1>6, <1>7 DEF Knows

(* A late answer of the unlocked reconcile was true and stays so.          *)
LEMMA ReconcileRecordKeeps == ASSUME IInv, ReconcileRecord PROVE IInv'
<1> DEFINE r == reading.row
<1> DEFINE status == reading.status
<1>1. /\ r \in Rows /\ status \in Pending \cup TERMINAL /\ Honest(r, status)
      /\ UNCHANGED <<broker_vars, protection, permits, session>>
      /\ reading' = NoReading /\ session' \in Sessions
  BY DEF ReconcileRecord, IInv, TypeOK, TrueRows, Sessions
<1>2. CASE Recordable(r, status)
  <2>1. ledger' = [ledger EXCEPT ![r] = status]
    BY <1>2 DEF ReconcileRecord
  <2>2. Knows'
    BY <1>1, <1>2, <2>1, OthersWrite
  <2>3. ledger[r] = "filled" => status = "filled"
    BY <1>2 DEF Recordable, Pending
  <2> QED
    BY <1>1, <2>1, <2>2, <2>3, LedgerMoves
<1>3. CASE ~ Recordable(r, status)
  <2>1. ledger' = ledger
    BY <1>3 DEF ReconcileRecord
  <2>2. Apart' /\ BrokerTypeOK' /\ TrueProtection'
    BY <1>1, <2>1, BrokerStill, ProtectionStill DEF IInv, TypeOK
  <2>3. TypeOK'
    BY <1>1, <2>1, <2>2 DEF IInv, TypeOK, permits, Sessions
  <2>4. TrueRows'
    BY <1>1, <2>1 DEF IInv, TrueRows, Final, Placed, Decoded, broker_vars
  <2>5. Knows'
    BY <1>1, <2>1 DEF IInv, Knows, InPlace, Ordered, Protected, Yielded, At, Row, Honest,
      Placed, Decoded, broker_vars
  <2> QED
    BY <2>2, <2>3, <2>4, <2>5 DEF IInv
<1> QED
  BY <1>2, <1>3

------------------------------------------------------------------------------
(* Where a final state of an order is written, it stays.                   *)
LEMMA EndIsFinal ==
  ASSUME IInv, NEW r \in Rows,
         \A o \in Orders : order[o] \in {"fill", "cancelled", "rejected"} => order'[o] = order[o]
  PROVE  \A status : Honest(r, status) => Honest(r, status)'
<1> DEFINE o == OrderOfRow[r]
<1>1. o \in Orders
  BY DEF Rows, OrderOfRow, Orders
<1>2. order[o] \in {"none", "new", "fill", "cancelled", "rejected"}
  BY <1>1 DEF IInv, TypeOK, BrokerTypeOK
<1>3. ASSUME NEW status, status \in TERMINAL, Honest(r, status)
      PROVE  OrderOfRow[r] \in Placed' /\ Decoded(OrderOfRow[r])' = status
  BY <1>1, <1>2, <1>3 DEF Honest, Placed, Decoded, TERMINAL
<1> QED
  BY <1>3 DEF Honest

(* A step that moves the broker and the network, or sends: the rows and    *)
(* the readings stay true of orders that change only before their end.     *)
LEMMA RowsBeside ==
  ASSUME IInv, UNCHANGED <<ledger, reading>>,
         \A o \in Orders : order[o] \in {"fill", "cancelled", "rejected"} => order'[o] = order[o],
         \A r \in Rows : ledger[r] \in TERMINAL \cup {"absent"} =>
           /\ sent'[OrderOfRow[r]] = sent[OrderOfRow[r]]
           /\ sent[OrderOfRow[r]] = 0 => order'[OrderOfRow[r]] = "none"
  PROVE  TrueRows'
<1>1. ASSUME NEW r \in Rows
      PROVE  /\ ledger'[r] = "absent" => sent'[OrderOfRow[r]] = 0
             /\ ledger'[r] \in TERMINAL => Final(r)'
  <2> DEFINE o == OrderOfRow[r]
  <2>1. o \in Orders
    BY DEF Rows, OrderOfRow, Orders
  <2>2. ledger'[r] = "absent" => sent'[OrderOfRow[r]] = 0
    BY DEF IInv, TrueRows
  <2>3. ASSUME ledger[r] \in TERMINAL PROVE Final(r)'
    <3>1. CASE o \in Placed
      <4>1. Honest(r, ledger[r])
        BY <2>3, <3>1 DEF IInv, TrueRows, Final, Honest
      <4>2. o \in Placed' /\ Decoded(OrderOfRow[r])' = ledger[r]
        BY <2>3, <4>1, EndIsFinal DEF Honest
      <4> QED
        BY <4>2 DEF Final
    <3>2. CASE o \notin Placed
      <4>1. ledger[r] = "rejected" /\ sent[o] = 0
        BY <2>3, <3>2 DEF IInv, TrueRows, Final
      <4>2. o \notin Placed' /\ sent'[o] = 0
        BY <2>3, <4>1 DEF Placed
      <4> QED
        BY <4>1, <4>2 DEF Final
    <3> QED
      BY <3>1, <3>2
  <2> QED
    BY <2>2, <2>3
<1>2. reading' # NoReading => Honest(reading.row, reading.status)'
  <2>1. reading # NoReading => reading.row \in Rows
    BY DEF IInv, TypeOK
  <2> QED
    BY <2>1, EndIsFinal DEF IInv, TrueRows, Honest
<1> QED
  BY <1>1, <1>2 DEF TrueRows

(* What the broker and the network can do to the trade.                    *)
LEMMA OutsideSteps ==
  ASSUME BrokerTypeOK, Outside
  PROVE  /\ BrokerTypeOK'
         /\ sent' = sent /\ in_flight' \subseteq in_flight
         /\ \A o \in Orders :
              /\ order[o] \in {"fill", "cancelled", "rejected"} => order'[o] = order[o]
              /\ order[o] # "none" => order'[o] # "none"
              /\ order[o] = "none" /\ order'[o] # "none" => o \in in_flight /\ o \notin in_flight'
         /\ stop = "cancelled" => stop' = "cancelled"
         /\ stop # "none" => stop' # "none"
         /\ stop = "none" /\ stop' # "none" => "stop" \in in_flight /\ "stop" \notin in_flight'
         /\ "stop" \in in_flight /\ At("stop_posted") => "stop" \in in_flight' \/ stop' # "none"
<1>1. ASSUME NEW o \in Orders, DeliverOrder(o) \/ OrderEnds(o)
      PROVE  /\ order' \in [Orders -> {"none", "new", "fill", "cancelled", "rejected"}]
             /\ \A p \in Orders : order'[p] # order[p] =>
                  /\ p = o /\ order'[p] # "none"
                  /\ order[p] = "new" \/ (order[p] = "none" /\ p \in in_flight /\ p \notin in_flight')
             /\ stop' = stop /\ sent' = sent
             /\ in_flight' \subseteq in_flight /\ ("stop" \in in_flight => "stop" \in in_flight')
  <2>1. order[o] \in {"none", "new", "fill", "cancelled", "rejected"}
    BY DEF BrokerTypeOK
  <2>2. CASE DeliverOrder(o)
    <3>1. PICK s \in IF order[o] = "none" THEN {"new", "rejected"} ELSE {order[o]} :
            order' = [order EXCEPT ![o] = s]
      BY <2>2 DEF DeliverOrder
    <3>2. s \in {"none", "new", "fill", "cancelled", "rejected"}
          /\ (s # order[o] => order[o] = "none" /\ s # "none")
      BY <2>1, <3>1
    <3> QED
      BY <2>2, <3>1, <3>2 DEF DeliverOrder, BrokerTypeOK, Orders
  <2>3. CASE OrderEnds(o)
    <3>1. PICK s \in {"fill", "cancelled"} : order' = [order EXCEPT ![o] = s]
      BY <2>3 DEF OrderEnds
    <3> QED
      BY <2>3, <3>1 DEF OrderEnds, BrokerTypeOK
  <2> QED
    BY <1>1, <2>2, <2>3
<1>2. CASE \E o \in Orders : DeliverOrder(o) \/ OrderEnds(o)
  BY <1>1, <1>2 DEF BrokerTypeOK
<1>3. CASE DeliverStop \/ DeliverCancelStop \/ StopTriggers \/ ChildEnds
  BY <1>3 DEF DeliverStop, DeliverCancelStop, StopTriggers, ChildEnds, BrokerTypeOK
<1>4. CASE DeliverCancelBuy
  <2>1. \A o \in Orders : order'[o] = order[o] \/ (order[o] = "new" /\ order'[o] = "cancelled")
    BY <1>4 DEF DeliverCancelBuy, BrokerTypeOK, Orders
  <2>2. order' \in [Orders -> {"none", "new", "fill", "cancelled", "rejected"}]
    BY <1>4 DEF DeliverCancelBuy, BrokerTypeOK, Orders
  <2> QED
    BY <1>4, <2>1, <2>2 DEF DeliverCancelBuy, BrokerTypeOK
<1>5. CASE \E c \in Requests : ~ Awaits(c) /\ Lose(c)
  BY <1>5 DEF Lose, Awaits, BrokerTypeOK, At
<1> QED
  BY <1>2, <1>3, <1>4, <1>5 DEF Outside, Broker

(* The steps of the broker and the network.                                *)
LEMMA OutsideKeeps == ASSUME IInv, Outside PROVE IInv'
<1>1. /\ BrokerTypeOK /\ UNCHANGED <<ledger, protection, permits, session, reading>>
  BY DEF IInv, TypeOK, Outside, trade_vars
<1>2. TypeOK'
  BY <1>1, OutsideSteps DEF IInv, TypeOK, permits
<1>3. Apart'
  <2>1. Requested'
    BY <1>1, OutsideSteps DEF IInv, Apart, Requested
  <2>2. NothingPostedTwice' /\ StopAfterBuy'
    BY <1>1, OutsideSteps DEF IInv, Apart, NothingPostedTwice, StopAfterBuy, Orders
  <2> QED
    BY <2>1, <2>2 DEF Apart
<1>4. TrueRows'
  <2>1. ASSUME NEW r \in Rows, sent[OrderOfRow[r]] = 0
        PROVE  order'[OrderOfRow[r]] = "none"
    BY <1>1, <2>1, OutsideSteps DEF IInv, Apart, Requested, Rows, OrderOfRow, Orders
  <2> QED
    BY <1>1, <2>1, OutsideSteps, RowsBeside
<1>5. TrueProtection'
  BY <1>1, OutsideSteps DEF IInv, TrueProtection, StopInHistory, Orders
<1>6. Knows'
  <2>1. Row' = Row /\ Row \in Rows
    BY <1>1 DEF Row, Rows
  <2>2. Honest(Row, session.seen) => Honest(Row, session.seen)'
    BY <1>1, <2>1, OutsideSteps, EndIsFinal DEF Honest
  <2>3. Ordered'
    BY <1>1, <2>1, <2>2, OutsideSteps DEF IInv, Knows, Ordered, At
  <2>4. InPlace' /\ Protected' /\ Yielded'
    BY <1>1, OutsideSteps DEF IInv, Knows, InPlace, Protected, Yielded, At
  <2> QED
    BY <2>3, <2>4 DEF Knows
<1> QED
  BY <1>2, <1>3, <1>4, <1>5, <1>6 DEF IInv

------------------------------------------------------------------------------
(* A request leaves from where it may.                                     *)
LEMMA SendKeeps ==
  ASSUME IInv, NEW c \in Requests, Send(c),
         c \in {"buy", "stop", "sell"} => sent[c] = 0,
         c = "stop" => order["buy"] = "fill" /\ protection.state \notin {"absent", "PLANNED"},
         \A r \in Rows : OrderOfRow[r] = c => ledger[r] \notin TERMINAL \cup {"absent"},
         UNCHANGED <<ledger, protection, permits, reading>>,
         session' \in Sessions, Knows'
  PROVE  IInv'
<1>1. /\ order' = order /\ stop' = stop /\ in_flight' = in_flight \cup {c}
      /\ BrokerTypeOK' /\ sent'[c] # 0 /\ (sent[c] = 0 => sent'[c] = 1)
      /\ \A d \in Requests \ {c} : sent'[d] = sent[d]
  BY Sends DEF IInv, TypeOK, Send
<1>2. {"buy", "sell", "stop"} \subseteq Requests /\ Orders = {"buy", "sell"}
  BY DEF Requests, Orders
<1>3. TypeOK'
  BY <1>1 DEF IInv, TypeOK, Sessions, permits
<1>4. Apart'
  <2>1. Requested'
    <3>1. ASSUME NEW o \in Orders
          PROVE  /\ o \in in_flight' => sent'[o] # 0
                 /\ order'[o] # "none" => sent'[o] # 0 /\ o \notin in_flight'
      BY <1>1, <1>2 DEF IInv, Apart, Requested
    <3>2. /\ "stop" \in in_flight' => sent'["stop"] # 0
          /\ stop' # "none" => sent'["stop"] # 0 /\ "stop" \notin in_flight'
      BY <1>1, <1>2 DEF IInv, Apart, Requested
    <3> QED
      BY <3>1, <3>2 DEF Requested
  <2>2. NothingPostedTwice'
    BY <1>1, <1>2 DEF IInv, Apart, NothingPostedTwice
  <2>3. StopAfterBuy'
    BY <1>1, <1>2 DEF IInv, Apart, StopAfterBuy
  <2> QED
    BY <2>1, <2>2, <2>3 DEF Apart
<1>5. TrueRows'
  <2>1. ASSUME NEW r \in Rows, ledger[r] \in TERMINAL \cup {"absent"}
        PROVE  /\ sent'[OrderOfRow[r]] = sent[OrderOfRow[r]]
               /\ sent[OrderOfRow[r]] = 0 => order'[OrderOfRow[r]] = "none"
    <3>1. OrderOfRow[r] \in Orders /\ OrderOfRow[r] # c
      BY <2>1 DEF Rows, OrderOfRow, Orders
    <3> QED
      BY <1>1, <1>2, <3>1 DEF IInv, Apart, Requested
  <2> QED
    BY <1>1, <2>1, RowsBeside
<1>6. TrueProtection'
  BY <1>1, <1>2 DEF IInv, TrueProtection, StopInHistory
<1> QED
  BY <1>3, <1>4, <1>5, <1>6 DEF IInv

(* The order leaves while its row is pending and it was not sent.          *)
LEMMA SubmitKeeps == ASSUME IInv, Submit PROVE IInv'
<1> USE DEF At
<1> DEFINE c == OrderOfRow[Row]
<1>1. /\ session' \in Sessions
      /\ session'.pc = "submitted" /\ session'.command = session.command
  BY Goes DEF IInv, Submit, Places
<1>2. /\ Row \in Rows /\ ledger[Row] \in Pending /\ sent[c] = 0
      /\ session.command \in {"execute", "exit"}
      /\ UNCHANGED <<ledger, protection, permits, reading>> /\ Send(c)
  BY DEF IInv, Knows, Ordered, InPlace, Ordering, Submit, Row, Rows
<1>3. Row' = Row /\ ledger[Row] \notin TERMINAL \cup {"absent"}
  BY <1>1, <1>2 DEF Row, Pending, TERMINAL
<1>4. session.command = "exit" =>
        protection.state = "EXIT_STOP_CANCELLED" /\ stop = "cancelled"
  BY DEF IInv, Knows, Yielded, Submit, Ordering, TrueProtection
<1>5. Knows'
  BY <1>1, <1>2, <1>3, <1>4 DEF Knows, InPlace, Ordered, Protected, Yielded, Buying,
    Protecting, Ordering, Yielding
<1>6. c \in Requests /\ c # "stop" /\ (c = "sell" => session.command = "exit")
  BY <1>2 DEF Row, OrderOfRow, Requests, Orders
<1>7. \A r \in Rows : OrderOfRow[r] = c => r = Row
  BY <1>2 DEF Rows, OrderOfRow
<1> QED
  BY <1>1, <1>2, <1>3, <1>4, <1>5, <1>6, <1>7, SendKeeps

(* The cancellation of the entry leaves, or is not needed.                 *)
LEMMA CancelKeeps == ASSUME IInv, Cancel PROVE IInv'
<1> USE DEF At
<1>1. /\ session.command = "execute" /\ session.pc = "poll" /\ ledger["entry"] # "absent"
      /\ UNCHANGED <<ledger, protection, permits, reading>>
  BY DEF IInv, Knows, InPlace, Ordered, Buying, Cancel
<1>2. ASSUME NEW to \in {"cancelled", "cancelling"}, Goto(to)
      PROVE  session' \in Sessions /\ Knows'
  <2>1. /\ session' \in Sessions
        /\ session'.pc = to /\ session'.command = session.command
    BY <1>2, Goes DEF IInv, Places
  <2> QED
    BY <1>1, <2>1 DEF Knows, InPlace, Ordered, Protected, Yielded, Buying,
      Protecting, Ordering, Yielding
<1>3. CASE UNCHANGED broker_vars /\ Goto("cancelled")
  BY <1>1, <1>2, <1>3, SessionMoves
<1>4. CASE Send("cancel_buy") /\ Goto("cancelling")
  <2>1. "cancel_buy" \in Requests /\ \A r \in Rows : OrderOfRow[r] # "cancel_buy"
    BY DEF Requests, Rows, OrderOfRow
  <2> QED
    BY <1>1, <1>2, <1>4, <2>1, SendKeeps
<1> QED
  BY <1>3, <1>4 DEF Cancel

(* The stop leaves for the first time, for a lot that was bought.          *)
LEMMA PostStopKeeps == ASSUME IInv, PostStop PROVE IInv'
<1> USE DEF At
<1>1. /\ session' \in Sessions
      /\ session'.pc = "stop_posted" /\ session'.command = session.command
  BY Goes DEF IInv, PostStop, Places
<1>2. /\ sent["stop"] = 0 /\ protection = [state |-> "POST_PENDING", stop_id |-> FALSE]
      /\ ledger["entry"] = "filled" /\ session.command \in {"execute", "recover"}
      /\ UNCHANGED <<ledger, protection, permits, reading>> /\ Send("stop")
  BY DEF IInv, Knows, Protected, InPlace, Protecting, PostStop
<1>3. order["buy"] = "fill"
  BY <1>2, FilledIsFilled DEF Rows, OrderOfRow
<1>4. "stop" \in Requests /\ \A r \in Rows : OrderOfRow[r] # "stop"
  BY DEF Requests, Rows, OrderOfRow
<1>5. Knows'
  BY <1>1, <1>2 DEF Knows, InPlace, Ordered, Protected, Yielded, Buying,
    Protecting, Ordering, Yielding, Send
<1>6. protection.state \notin {"absent", "PLANNED"}
  BY <1>2
<1> QED
  BY <1>1, <1>2, <1>3, <1>4, <1>5, <1>6, SendKeeps

(* The cancellation of the stop leaves.                                    *)
LEMMA CancelStopKeeps == ASSUME IInv, CancelStop PROVE IInv'
<1> USE DEF At
<1>1. /\ session' \in Sessions
      /\ session'.pc = "stop_cancelling" /\ session'.command = session.command
  BY Goes DEF IInv, CancelStop, Places
<1>2. /\ session.command = "exit" /\ protection.state = "EXIT_CANCEL_PENDING"
      /\ UNCHANGED <<ledger, protection, permits, reading>> /\ Send("cancel_stop")
  BY DEF IInv, Knows, Yielded, InPlace, Yielding, CancelStop
<1>3. "cancel_stop" \in Requests /\ \A r \in Rows : OrderOfRow[r] # "cancel_stop"
  BY DEF Requests, Rows, OrderOfRow
<1>4. Knows'
  BY <1>1, <1>2 DEF Knows, InPlace, Ordered, Protected, Yielded, Buying,
    Protecting, Ordering, Yielding
<1> QED
  BY <1>1, <1>2, <1>3, <1>4, SendKeeps

------------------------------------------------------------------------------
(* The invariant.                                                          *)
LEMMA Initially == Init => IInv
<1> SUFFICES ASSUME Init PROVE IInv
  OBVIOUS
<1> USE DEF Init, BrokerInit, NoCommand, NoReading
<1>1. BrokerTypeOK
  BY DEF BrokerTypeOK, Requests
<1>2. session \in [command : Commands \cup {"none"}, pc : Places,
                   seen : {"none"} \cup Pending \cup TERMINAL, polls : 0..MaxPolls]
  BY PollsAssumption DEF Places
<1>3. TypeOK
  BY <1>1, <1>2 DEF TypeOK, ProtectionStates
<1>4. Apart
  BY DEF Apart, Requested, NothingPostedTwice, StopAfterBuy, Orders, Requests
<1>5. TrueRows /\ TrueProtection
  BY DEF TrueRows, TrueProtection, StopInHistory, Rows, OrderOfRow, Requests, Orders, TERMINAL
<1>6. Knows
  BY DEF Knows, InPlace, Ordered, Protected, Yielded, At, Buying, Protecting, Ordering, Yielding
<1> QED
  BY <1>3, <1>4, <1>5, <1>6 DEF IInv

(* A step of nobody.                                                       *)
LEMMA StutterKeeps == ASSUME IInv, UNCHANGED vars PROVE IInv'
<1>1. session' \in Sessions /\ UNCHANGED <<broker_vars, ledger, protection, permits, reading>>
  BY DEF vars, trade_vars, IInv, TypeOK, Sessions
<1>2. session' = session
  BY DEF vars, trade_vars
<1>3. Knows'
  BY <1>1, <1>2 DEF IInv, Knows, InPlace, Ordered, Protected, Yielded, At, Row, Honest, Placed,
    Decoded, broker_vars
<1> QED
  BY <1>1, <1>3, SessionMoves

(* Every step keeps the invariant.                                         *)
LEMMA Inductive == IInv /\ [Next]_vars => IInv'
<1> SUFFICES ASSUME IInv, [Next]_vars PROVE IInv'
  OBVIOUS
<1>1. CASE Preview \/ Enroll \/ ProtectionPreview \/ ExitPreview
             \/ (\E c \in Commands : TimePasses(c))
  BY <1>1, PermitsKeep
<1>2. CASE Execute
  BY <1>2, ExecuteKeeps
<1>3. CASE ProtectionApply
  BY <1>3, ProtectionApplyKeeps
<1>4. CASE ExitExecute
  BY <1>4, ExitExecuteKeeps
<1>5. CASE Command
  <2>1. CASE Reserve \/ AlreadyDone \/ ReadParent \/ NotSubmitted \/ Submit
    BY <2>1, ReserveKeeps, AlreadyDoneKeeps, ReadParentKeeps, NotSubmittedKeeps, SubmitKeeps
  <2>2. CASE LookupSubmitted \/ Poll \/ RecordSeen \/ Cancel \/ CancelAnswered \/ LookupFinal
    BY <2>2, LookupKeeps, RecordSeenKeeps, CancelKeeps, GoKeeps
  <2>3. CASE Filled \/ NotFilled
    BY <2>3, GoKeeps, EndKeeps
  <2>4. CASE ReserveStop \/ StopNotDispatched \/ PostStop \/ StopUnknown \/ StopAnswered
    BY <2>4, ReserveStopKeeps, StopOutcomeKeeps, PostStopKeeps, StopAnsweredKeeps
  <2>5. CASE ReconcileStop \/ StopVerified \/ ReserveExit \/ CancelStop \/ StopCancelled \/ Closed
    BY <2>5, ReconcileStopKeeps, StopVerifiedKeeps, ReserveExitKeeps, CancelStopKeeps,
      StopCancelledKeeps, ClosedKeeps
  <2> QED
    BY <1>5, <2>1, <2>2, <2>3, <2>4, <2>5 DEF Command
<1>6. CASE Abort
  BY <1>6, EndKeeps
<1>7. CASE ReconcileRecord \/ \E r \in Rows : ReconcileLookup(r)
  BY <1>7, ReconcileRecordKeeps, ReconcileLookupKeeps
<1>8. CASE Outside
  BY <1>8, OutsideKeeps
<1>9. CASE UNCHANGED vars
  BY <1>9, StutterKeeps
<1> QED
  BY <1>1, <1>2, <1>3, <1>4, <1>5, <1>6, <1>7, <1>8, <1>9 DEF Next

(* Who sends: the broker sees nothing of the other steps.                  *)
LEMMA Senders ==
  ASSUME Next
  PROVE  UNCHANGED broker_vars \/ Submit \/ Cancel \/ PostStop \/ CancelStop \/ Outside
<1>1. CASE Reserve \/ AlreadyDone \/ ReadParent \/ NotSubmitted \/ LookupSubmitted \/ Poll
             \/ RecordSeen \/ CancelAnswered \/ LookupFinal \/ Filled \/ NotFilled
  BY <1>1 DEF Reserve, AlreadyDone, ReadParent, NotSubmitted, LookupSubmitted, LookupFinal,
    Lookup, Poll, RecordSeen, CancelAnswered, Filled, NotFilled
<1>2. CASE ReserveStop \/ StopNotDispatched \/ StopUnknown \/ StopAnswered
             \/ ReconcileStop \/ StopVerified \/ ReserveExit \/ StopCancelled \/ Closed
  BY <1>2 DEF ReserveStop, StopNotDispatched, StopUnknown, StopAnswered,
    ReconcileStop, StopVerified, ReserveExit, StopCancelled, Closed
<1>3. CASE Abort \/ Execute \/ ExitExecute \/ ProtectionApply
  BY <1>3 DEF Abort, Execute, ExitExecute, ProtectionApply
<1>4. CASE Preview \/ Enroll \/ ProtectionPreview \/ ExitPreview
             \/ (\E c \in Commands : TimePasses(c))
  BY <1>4 DEF Preview, Enroll, ProtectionPreview, ExitPreview, TimePasses
<1>5. CASE ReconcileRecord \/ \E r \in Rows : ReconcileLookup(r)
  BY <1>5 DEF ReconcileRecord, ReconcileLookup
<1> QED
  BY <1>1, <1>2, <1>3, <1>4, <1>5 DEF Next, Command

(* Only the exit that has seen its stop cancelled sends the sale, and a     *)
(* cancelled stop stays so.                                                *)
LEMMA SaleStaysAfterStop == ASSUME IInv, SaleAfterStop, [Next]_vars PROVE SaleAfterStop'
<1> USE DEF SaleAfterStop
<1>0. BrokerTypeOK /\ "sell" \in Requests
  BY DEF IInv, TypeOK, Requests, Orders
<1>1. CASE UNCHANGED broker_vars
  BY <1>1 DEF broker_vars
<1>2. CASE Cancel \/ PostStop \/ CancelStop
  <2>1. \/ UNCHANGED broker_vars
        \/ Send("cancel_buy") \/ Send("stop") \/ Send("cancel_stop")
    BY <1>2 DEF Cancel, PostStop, CancelStop
  <2> QED
    BY <1>0, <2>1 DEF Send, BrokerTypeOK, broker_vars
<1>3. CASE Submit
  <2>1. session.command = "exit" => stop = "cancelled"
    BY <1>3 DEF IInv, Knows, Yielded, Submit, At, Ordering, TrueProtection
  <2>2. session.command # "exit" => OrderOfRow[Row] = "buy"
    BY <1>3 DEF IInv, Knows, InPlace, Submit, At, Ordering, Row, OrderOfRow
  <2> QED
    BY <1>0, <1>3, <2>1, <2>2 DEF Submit, Send, BrokerTypeOK
<1>4. CASE Outside
  BY <1>0, <1>4, OutsideSteps
<1> QED
  BY <1>1, <1>2, <1>3, <1>4, Senders DEF vars

Whole == IInv /\ SaleAfterStop

(* Every state of the trade satisfies the invariant.                       *)
THEOREM Invariance == Spec => []Whole
<1>1. Init => Whole
  BY Initially DEF Whole, SaleAfterStop, Init, BrokerInit, Requests, Orders
<1>2. Whole /\ [Next]_vars => Whole'
  BY Inductive, SaleStaysAfterStop DEF Whole
<1> QED
  BY <1>1, <1>2, PTL DEF Spec

------------------------------------------------------------------------------
(* Safety.                                                                 *)

(* Whatever is killed, repeated or answered late, the lot is bought once   *)
(* and never has two sellers, and both journals are true of the broker     *)
(* (take_profit.py:1, execution_journal.py:1, live_protection.py:263).     *)
THEOREM TradeStaysSafe == Spec => []TradeIsSafe
<1>1. Whole => TradeIsSafe
  <2> SUFFICES ASSUME IInv, SaleAfterStop PROVE TradeIsSafe
    BY DEF Whole
  <2>1. NeverTwoSellers
    <3>1. /\ SaleMaySell => sent["sell"] # 0
          /\ StopMaySell => sent["stop"] # 0 /\ stop # "cancelled"
      BY DEF IInv, Apart, Requested, Orders, SaleMaySell, StopMaySell
    <3>2. stop # "none" => order["buy"] = "fill"
      BY DEF IInv, Apart, Requested, StopAfterBuy
    <3>3. order["sell"] # "none" => stop = "cancelled"
      BY DEF IInv, Apart, Requested, SaleAfterStop, Orders
    <3>4. /\ ~ (StopMaySell /\ SaleMaySell)
          /\ StopMaySell \/ SaleMaySell => order["buy"] = "fill"
      BY <3>1, <3>2 DEF IInv, Apart, StopAfterBuy, SaleAfterStop
    <3>5. Lots \in {0, 1}
      <4>1. CASE order["sell"] = "fill"
        BY <3>2, <3>3, <4>1 DEF Lots
      <4>2. CASE order["sell"] # "fill"
        BY <3>2, <4>2 DEF Lots
      <4> QED
        BY <4>1, <4>2
    <3> QED
      BY <3>4, <3>5 DEF NeverTwoSellers
  <2>2. JournalsAgreeWithBroker
    BY DEF IInv, TrueRows, TrueProtection, JournalsAgreeWithBroker
  <2> QED
    BY <2>1, <2>2 DEF IInv, Apart, TradeIsSafe
<1> QED
  BY <1>1, Invariance, PTL

(* No command adopts, plans anew or treats as active a stop whose POST is  *)
(* ambiguous, but the one that is posting it (protection_recovery.py:145,  *)
(* live_protection.py:262).                                                *)
THEOREM AmbiguityIsLeft == Spec => AmbiguousStopIsLeftAlone
<1> DEFINE Left ==
      \/ ~ (protection.state \in {"POST_PENDING", "UNKNOWN"} /\ ~ protection.stop_id)
      \/ At("stop_gate") \/ At("stop_posted")
      \/ UNCHANGED protection
<1>1. IInv /\ [Next]_vars => [Left]_vars
  <2> SUFFICES ASSUME IInv, Next,
                      protection.state \in {"POST_PENDING", "UNKNOWN"}, ~ protection.stop_id,
                      ~ At("stop_gate"), ~ At("stop_posted")
               PROVE  protection' = protection
    OBVIOUS
  <2>1. CASE Reserve \/ AlreadyDone \/ ReadParent \/ NotSubmitted \/ Submit
    BY <2>1 DEF Reserve, AlreadyDone, ReadParent, NotSubmitted, Submit
  <2>2. CASE LookupSubmitted \/ Poll \/ RecordSeen \/ Cancel \/ CancelAnswered \/ LookupFinal
    BY <2>2 DEF LookupSubmitted, LookupFinal, Lookup, Poll, RecordSeen, Cancel, CancelAnswered
  <2>3. CASE Filled \/ NotFilled
    BY <2>3 DEF Filled, NotFilled
  <2>4. CASE ReserveStop \/ StopNotDispatched \/ PostStop \/ StopUnknown \/ StopAnswered
    BY <2>4 DEF ReserveStop, StopNotDispatched, PostStop, StopUnknown, StopAnswered
  <2>5. CASE ReconcileStop \/ StopVerified
    BY <2>5 DEF ReconcileStop, StopVerified, IInv, Knows, Protected
  <2>6. CASE ReserveExit \/ CancelStop \/ StopCancelled \/ Closed
    BY <2>6 DEF ReserveExit, CancelStop, StopCancelled, Closed, IInv, Knows, Yielded, At, Ordering
  <2>7. CASE Abort \/ Execute \/ ProtectionApply \/ ExitExecute \/ Outside
    BY <2>7 DEF Abort, Execute, ProtectionApply, ExitExecute, Outside, trade_vars
  <2>8. CASE Preview \/ Enroll \/ ProtectionPreview \/ ExitPreview
               \/ (\E c \in Commands : TimePasses(c))
    BY <2>8 DEF Preview, Enroll, ProtectionPreview, ExitPreview, TimePasses
  <2>9. CASE ReconcileRecord \/ \E r \in Rows : ReconcileLookup(r)
    BY <2>9 DEF ReconcileRecord, ReconcileLookup
  <2> QED
    BY <2>1, <2>2, <2>3, <2>4, <2>5, <2>6, <2>7, <2>8, <2>9 DEF Next, Command
<1> QED
  BY <1>1, Invariance, PTL DEF Whole, Spec, AmbiguousStopIsLeftAlone

------------------------------------------------------------------------------
(* The two rows implement the ledger of the account.                       *)
Closings ==
  {[order |-> r, outcome |-> ledger[r]] : r \in {q \in Rows : ledger[q] \in TERMINAL}}

rows == <<Unresolved, Closings>>

(* A row is opened, closed or written again.                               *)
LEMMA RowStep ==
  ASSUME TypeOK, NEW r \in Rows, NEW status \in Pending \cup TERMINAL,
         ledger' = [ledger EXCEPT ![r] = status],
         \/ ledger[r] = "absent" /\ status \in Pending /\ Unresolved = {}
         \/ ledger[r] \in Pending
         \/ ledger[r] = status
  PROVE  [Ledger!Next]_rows
<1>1. /\ ledger'[r] = status
      /\ \A q \in Rows \ {r} : ledger'[q] = ledger[q]
  BY Writes
<1>2. Pending \cap TERMINAL = {} /\ "absent" \notin Pending \cup TERMINAL
  BY DEF Pending, TERMINAL
<1>3. CASE ledger[r] = status \/ (ledger[r] \in Pending /\ status \in Pending)
  <2>1. Unresolved' = Unresolved
    BY <1>1, <1>3 DEF Unresolved
  <2>2. \A q \in Rows : ledger'[q] \in TERMINAL \/ ledger[q] \in TERMINAL =>
                          ledger'[q] = ledger[q]
    BY <1>1, <1>2, <1>3
  <2>3. Closings' = Closings
    BY <2>2 DEF Closings
  <2> QED
    BY <2>1, <2>3 DEF rows
<1>4. CASE ledger[r] = "absent" /\ status \in Pending /\ Unresolved = {}
  <2>1. Unresolved' = Unresolved \cup {r}
    BY <1>1, <1>4 DEF Unresolved
  <2>2. Closings' = Closings
    BY <1>1, <1>2, <1>4 DEF Closings
  <2>3. ~ \E c \in Closings : c.order = r
    BY <1>2, <1>4 DEF Closings
  <2>4. Ledger!Open(r)
    BY <1>4, <2>1, <2>2, <2>3 DEF Ledger!Open, Ledger!Opened, Closings
  <2> QED
    BY <2>4 DEF Ledger!Next
<1>5. CASE ledger[r] \in Pending /\ status \in TERMINAL
  <2>1. r \in Unresolved /\ Unresolved' = Unresolved \ {r}
    BY <1>1, <1>2, <1>5 DEF Unresolved
  <2>2. Closings' = Closings \cup {[order |-> r, outcome |-> status]}
    BY <1>1, <1>2, <1>5 DEF Closings
  <2>3. Ledger!Close(r, status)
    BY <2>1, <2>2 DEF Ledger!Close, Closings
  <2> QED
    BY <1>5, <2>3 DEF Ledger!Next
<1> QED
  BY <1>3, <1>4, <1>5

(* Who writes the ledger.                                                  *)
LEMMA LedgerWriters ==
  ASSUME Next
  PROVE  \/ UNCHANGED ledger
         \/ Reserve \/ NotSubmitted \/ RecordSeen \/ ProtectionApply \/ ReconcileRecord
<1>1. CASE AlreadyDone \/ ReadParent \/ Submit \/ LookupSubmitted \/ Poll \/ Cancel
             \/ CancelAnswered \/ LookupFinal \/ Filled \/ NotFilled
  BY <1>1 DEF AlreadyDone, ReadParent, Submit, LookupSubmitted, LookupFinal, Lookup, Poll,
    Cancel, CancelAnswered, Filled, NotFilled
<1>2. CASE ReserveStop \/ StopNotDispatched \/ PostStop \/ StopUnknown \/ StopAnswered
             \/ ReconcileStop \/ StopVerified
  BY <1>2 DEF ReserveStop, StopNotDispatched, PostStop, StopUnknown, StopAnswered,
    ReconcileStop, StopVerified
<1>3. CASE ReserveExit \/ CancelStop \/ StopCancelled \/ Closed
  BY <1>3 DEF ReserveExit, CancelStop, StopCancelled, Closed
<1>4. CASE Abort \/ Execute \/ ExitExecute \/ Outside
  BY <1>4 DEF Abort, Execute, ExitExecute, Outside, trade_vars
<1>5. CASE Preview \/ Enroll \/ ProtectionPreview \/ ExitPreview
             \/ (\E c \in Commands : TimePasses(c))
  BY <1>5 DEF Preview, Enroll, ProtectionPreview, ExitPreview, TimePasses
<1>6. CASE \E r \in Rows : ReconcileLookup(r)
  BY <1>6 DEF ReconcileLookup
<1> QED
  BY <1>1, <1>2, <1>3, <1>4, <1>5, <1>6 DEF Next, Command

(* Every step opens a row, closes one or leaves both as they are.          *)
LEMMA LedgerStep == IInv /\ [Next]_vars => [Ledger!Next]_rows
<1> SUFFICES ASSUME IInv, Next, ~ UNCHANGED ledger PROVE [Ledger!Next]_rows
  BY DEF vars, trade_vars, rows, Unresolved, Closings
<1>1. Row \in Rows /\ {"request_pending", "rejected", "filled"} \subseteq Pending \cup TERMINAL
      /\ TypeOK /\ "request_pending" \in Pending /\ "entry" \in Rows
  BY DEF IInv, Row, Rows, Pending, TERMINAL
<1>2. CASE Reserve
  <2>1. /\ ledger' = [ledger EXCEPT ![Row] = "request_pending"]
        /\ ledger[Row] = "absent" /\ Unresolved = {}
    BY <1>2 DEF Reserve
  <2> QED
    BY <1>1, <2>1, RowStep
<1>3. CASE NotSubmitted
  <2>1. ledger' = [ledger EXCEPT ![Row] = "rejected"] /\ ledger[Row] \in Pending
    BY <1>3 DEF NotSubmitted, IInv, Knows, Ordered
  <2> QED
    BY <1>1, <2>1, RowStep
<1>4. CASE RecordSeen
  <2>1. /\ ledger' = [ledger EXCEPT ![Row] = session.seen]
        /\ session.seen \in Pending \cup TERMINAL
        /\ ledger[Row] \in Pending \/ ledger[Row] = session.seen
    BY <1>4 DEF RecordSeen, Recordable, IInv, TypeOK, Knows, Ordered
  <2> QED
    BY <1>1, <2>1, RowStep
<1>5. CASE ProtectionApply
  <2>1. /\ ledger' = [ledger EXCEPT !["entry"] = "filled"]
        /\ ledger["entry"] \in Pending \/ ledger["entry"] = "filled"
    BY <1>5 DEF ProtectionApply, MayRecover, IInv, TypeOK, Rows, TERMINAL
  <2> QED
    BY <1>1, <2>1, RowStep
<1>6. CASE ReconcileRecord
  <2>1. /\ reading.row \in Rows /\ reading.status \in Pending \cup TERMINAL
        /\ Recordable(reading.row, reading.status)
        /\ ledger' = [ledger EXCEPT ![reading.row] = reading.status]
    BY <1>6 DEF ReconcileRecord, IInv, TypeOK
  <2>2. ledger[reading.row] \in Pending \/ ledger[reading.row] = reading.status
    BY <2>1 DEF Recordable
  <2> QED
    BY <1>1, <2>1, <2>2, RowStep
<1> QED
  BY <1>2, <1>3, <1>4, <1>5, <1>6, LedgerWriters

(* The trade keeps the ledger that the journal promises: one open order at *)
(* a time, opened once, closed once, and the outcome kept, although        *)
(* `reconcile` and a recovery write beside the session                     *)
(* (execution_journal.py:100, :165-180).                                   *)
THEOREM ImplementsLedger == Spec => LedgerSpec
<1>1. Init => Ledger!Init
  BY DEF Init, Ledger!Init, Unresolved, Rows, Pending, TERMINAL
<1> QED
  BY <1>1, LedgerStep, Invariance, PTL DEF Whole, Spec, LedgerSpec, Ledger!Spec, rows, Closings

------------------------------------------------------------------------------
(* The trade implements the custody of its lot.                            *)
mapped == <<LotState, Seller>>

(* Both, without the overlaps that Whole excludes.                         *)
LotIs ==
  IF order["buy"] # "fill" THEN "none"
  ELSE IF order["sell"] = "fill" \/ stop = "executed" THEN "sold" ELSE "held"

SellerIs ==
  IF SaleMaySell THEN "sale"
  ELSE IF sent["sell"] # 0 \/ stop = "executed" THEN "over"
  ELSE IF StopMaySell THEN "stop"
  ELSE IF sent["stop"] # 0 THEN "released" ELSE "nobody"

(* What the stop and the sale may be, for a trade that satisfies Whole.    *)
Sellers ==
  /\ order["sell"] \in {"none", "new", "fill", "cancelled", "rejected"}
  /\ sent["stop"] # 0 => order["buy"] = "fill"
  /\ sent["sell"] # 0 => stop = "cancelled" /\ sent["stop"] # 0
  /\ stop # "none" => sent["stop"] # 0 /\ "stop" \notin in_flight
  /\ order["sell"] # "none" => sent["sell"] # 0 /\ "sell" \notin in_flight
  /\ "sell" \in in_flight => sent["sell"] # 0
  /\ "stop" \in in_flight => sent["stop"] # 0

(* The mapping of the trade, under the invariant, before a step ...        *)
LEMMA MappedIs == Whole => LotState = LotIs /\ Seller = SellerIs /\ Sellers
<1> SUFFICES ASSUME IInv, SaleAfterStop PROVE LotState = LotIs /\ Seller = SellerIs /\ Sellers
  BY DEF Whole
<1>1. Sellers
  BY DEF IInv, TypeOK, BrokerTypeOK, Apart, Requested, StopAfterBuy, SaleAfterStop, Orders, Requests, Sellers
<1>2. (sent["sell"] > 0 <=> sent["sell"] # 0) /\ (sent["stop"] > 0 <=> sent["stop"] # 0)
      /\ (sent["sell"] = 0 <=> ~ (sent["sell"] # 0))
  BY DEF IInv, TypeOK, BrokerTypeOK, Requests, Orders
<1>3. LotState = LotIs
  BY <1>1 DEF Sellers, LotState, LotIs, Lots
<1>4. Seller = SellerIs
  <2>1. StopMaySell => stop # "executed"
    BY DEF StopMaySell
  <2>2. CASE SaleMaySell
    BY <2>2 DEF Seller, SellerIs
  <2>3. CASE ~ SaleMaySell /\ (sent["sell"] # 0 \/ stop = "executed")
    BY <1>2, <2>1, <2>3 DEF Seller, SellerIs
  <2>4. CASE ~ SaleMaySell /\ sent["sell"] = 0 /\ StopMaySell
    BY <1>2, <2>1, <2>4 DEF Seller, SellerIs
  <2>5. CASE ~ SaleMaySell /\ sent["sell"] = 0 /\ stop # "executed" /\ ~ StopMaySell
    BY <1>2, <2>5 DEF Seller, SellerIs
  <2> QED
    BY <2>2, <2>3, <2>4, <2>5
<1> QED
  BY <1>1, <1>3, <1>4

(* ... and after it.                                                       *)
LEMMA MappedAfter == Whole' => (LotState = LotIs /\ Seller = SellerIs /\ Sellers)'
BY MappedIs, PTL

(* A step of what the mapping is, is one of the mapping.                   *)
LEMMA MappedStep ==
  ASSUME Sellers, Sellers', [Custody!Next]_<<LotIs, SellerIs>>,
         LotState = LotIs, Seller = SellerIs, LotState' = LotIs', Seller' = SellerIs'
  PROVE  [Custody!Next]_mapped
BY DEF mapped, Custody!Next, Custody!Buy, Custody!Protect, Custody!GiveUp, Custody!OfferSale,
  Custody!SaleFails, Custody!Sell

(* The steps of the broker and the network.                                *)
LEMMA BrokerCustody ==
  ASSUME BrokerTypeOK, Sellers, Sellers', Outside
  PROVE  \/ UNCHANGED <<LotIs, SellerIs>>
         \/ LotIs = "none" /\ SellerIs = "nobody" /\ LotIs' = "held" /\ SellerIs' = "nobody"
         \/ LotIs = "held" /\ SellerIs = "stop" /\ LotIs' = "held" /\ SellerIs' = "released"
         \/ LotIs = "held" /\ SellerIs = "sale" /\ LotIs' = "held" /\ SellerIs' = "over"
         \/ LotIs = "held" /\ SellerIs \in {"stop", "sale"}
            /\ LotIs' = "sold" /\ SellerIs' = "over"
<1> USE DEF LotIs, SellerIs, SaleMaySell, StopMaySell, Sellers, BrokerTypeOK, Orders
<1>1. CASE DeliverOrder("buy") \/ DeliverCancelBuy
  BY <1>1 DEF DeliverOrder, DeliverCancelBuy
<1>2. CASE DeliverOrder("sell")
  BY <1>2 DEF DeliverOrder
<1>3. CASE OrderEnds("buy")
  BY <1>3 DEF OrderEnds
<1>4. CASE OrderEnds("sell")
  BY <1>4 DEF OrderEnds
<1>5. CASE DeliverStop
  BY <1>5 DEF DeliverStop
<1>6. CASE DeliverCancelStop
  BY <1>6 DEF DeliverCancelStop
<1>7. CASE StopTriggers \/ ChildEnds
  BY <1>7 DEF StopTriggers, ChildEnds
<1>8. CASE \E c \in Requests : Lose(c)
  BY <1>8 DEF Lose, Requests
<1> QED
  BY <1>1, <1>2, <1>3, <1>4, <1>5, <1>6, <1>7, <1>8 DEF Outside, Broker

(* The steps of a command that send a request: the stop is sent while      *)
(* nothing else sells, the sale once the stop is cancelled.                *)
LEMMA SendCustody ==
  ASSUME IInv, Sellers, Sellers', Submit \/ Cancel \/ PostStop \/ CancelStop
  PROVE  \/ UNCHANGED <<LotIs, SellerIs>>
         \/ LotIs = "held" /\ SellerIs = "nobody" /\ LotIs' = "held" /\ SellerIs' = "stop"
         \/ LotIs = "held" /\ SellerIs = "released" /\ LotIs' = "held" /\ SellerIs' = "sale"
<1>1. ASSUME NEW c \in {"buy", "cancel_buy", "cancel_stop"}, Send(c)
      PROVE  UNCHANGED <<LotIs, SellerIs>>
  <2>1. UNCHANGED <<order, stop, sent["sell"], sent["stop"]>>
        /\ ("stop" \in in_flight' <=> "stop" \in in_flight)
        /\ ("sell" \in in_flight' <=> "sell" \in in_flight)
    BY <1>1 DEF Send, IInv, TypeOK, BrokerTypeOK, Requests, Orders
  <2> QED
    BY <2>1 DEF LotIs, SellerIs, SaleMaySell, StopMaySell
<1>2. CASE Cancel
  BY <1>1, <1>2 DEF Cancel, broker_vars, LotIs, SellerIs, SaleMaySell, StopMaySell
<1>3. CASE CancelStop
  BY <1>1, <1>3 DEF CancelStop
<1>4. CASE PostStop
  <2>1. Send("stop") /\ sent["stop"] = 0 /\ ledger["entry"] = "filled"
    BY <1>4 DEF PostStop, IInv, Knows, Protected, Protecting, At
  <2>2. stop = "none" /\ sent["sell"] = 0
    BY <2>1 DEF IInv, TypeOK, BrokerTypeOK, Requests, Orders, Sellers
  <2>3. /\ "stop" \in in_flight' /\ ("sell" \in in_flight' <=> "sell" \in in_flight)
        /\ UNCHANGED <<order, stop, sent["sell"]>> /\ sent'["stop"] # 0
    BY <2>1 DEF Send, IInv, TypeOK, BrokerTypeOK, Requests, Orders
  <2>4. order["buy"] = "fill" /\ order["sell"] = "none" /\ "sell" \notin in_flight
    BY <2>2, <2>3 DEF Sellers
  <2> QED
    BY <2>1, <2>2, <2>3, <2>4 DEF LotIs, SellerIs, SaleMaySell, StopMaySell
<1>5. CASE Submit /\ Row = "entry"
  BY <1>1, <1>5 DEF Submit, OrderOfRow
<1>6. CASE Submit /\ Row # "entry"
  <2>1. Send("sell") /\ sent["sell"] = 0
    BY <1>6 DEF Submit, Row, OrderOfRow, IInv, Knows, Ordered, At
  <2>2. "sell" \in in_flight' /\ sent'["sell"] # 0 /\ UNCHANGED <<order, stop, sent["stop"]>>
    BY <2>1 DEF Send, IInv, TypeOK, BrokerTypeOK, Requests, Orders
  <2>3. stop = "cancelled" /\ sent["stop"] # 0 /\ order["buy"] = "fill" /\ order["sell"] = "none"
        /\ "sell" \notin in_flight
    BY <2>1, <2>2 DEF Sellers
  <2> QED
    BY <2>1, <2>2, <2>3 DEF LotIs, SellerIs, SaleMaySell, StopMaySell
<1> QED
  BY <1>2, <1>3, <1>4, <1>5, <1>6

(* Every step is one of the custody, or changes nothing of it.             *)
LEMMA CustodyStep == Whole /\ Whole' /\ [Next]_vars => [Custody!Next]_mapped
<1> SUFFICES ASSUME Whole, Whole', [Next]_vars PROVE [Custody!Next]_mapped
  OBVIOUS
<1>1. LotState = LotIs /\ Seller = SellerIs /\ Sellers
  BY MappedIs
<1>2. LotState' = LotIs' /\ Seller' = SellerIs' /\ Sellers'
  BY MappedAfter
<1>3. [Custody!Next]_<<LotIs, SellerIs>>
  <2> USE DEF Custody!Next, Custody!Buy, Custody!Protect, Custody!GiveUp, Custody!OfferSale,
    Custody!SaleFails, Custody!Sell
  <2>1. CASE UNCHANGED broker_vars
    BY <2>1 DEF broker_vars, LotIs, SellerIs, SaleMaySell, StopMaySell
  <2>2. CASE Submit \/ Cancel \/ PostStop \/ CancelStop
    BY <1>1, <1>2, <2>2, SendCustody DEF Whole
  <2>3. CASE Outside
    BY <1>1, <1>2, <2>3, BrokerCustody DEF Whole, IInv, TypeOK
  <2> QED
    BY <2>1, <2>2, <2>3, Senders DEF vars
<1> QED
  BY <1>1, <1>2, <1>3, MappedStep

(* At every moment at most one order can sell the lot: the native stop     *)
(* first, the take-profit only after the stop is given up, and nothing     *)
(* after that sale was offered (take_profit.py:1, :147-205,                *)
(* live_protection.py:201-273), whatever command is killed between two of  *)
(* its steps and whatever arrives late.                                    *)
THEOREM ImplementsCustody == Spec => CustodySpec
<1>1. Init => Custody!Init
  BY DEF Init, BrokerInit, Orders, Requests, Custody!Init, LotState, Seller, SaleMaySell,
    StopMaySell, Lots
<1> QED
  BY <1>1, CustodyStep, Invariance, PTL DEF Spec, CustodySpec, Custody!Spec, mapped

------------------------------------------------------------------------------
(* The sale of live_operator beside supervised execute and                 *)
(* protection-apply.                                                       *)

Sales ==
  [plan : {"none", "written", "previewed", "expired"},
   pc : {"idle", "reserve", "gate", "posted", "record"},
   seen : {"none"} \cup Pending \cup TERMINAL]

(* The journal keeps the two writers apart: the row of the sale is there   *)
(* only after the entry is filled, so one row at a time is unresolved.     *)
SaleIsSecond == ledger["exit"] # "absent" => ledger["entry"] = "filled"

(* What the sale may rely on.                                              *)
SaleKnows ==
  /\ Selling("gate") => ledger["exit"] \in Pending /\ sent["sell"] = 0
  /\ Selling("posted") \/ Selling("record") => ledger["exit"] # "absent"
  /\ Selling("record") => sale.seen # "none" /\ Honest("exit", sale.seen)

CInv ==
  /\ IInv /\ sale \in Sales
  /\ session.command # "exit"
  /\ SaleIsSecond /\ SaleKnows

------------------------------------------------------------------------------
(* The steps of the supervised commands, of the unlocked reconcile and of  *)
(* the broker are those of the trade, but for the exit.                    *)
Beside ==
  \/ Entry \/ Outside \/ ReconcileRecord
  \/ \E r \in Rows : ReconcileLookup(r)

(* Each of them is a step of the composition (live_operator.py beside        *)
(* supervised_execution.py).                                               *)
LEMMA BesideIsNext == Beside => Next
BY DEF Beside, Entry, Next, Command

(* No supervised command of these is the exit.                             *)
LEMMA NoExit ==
  ASSUME CInv, Beside
  PROVE  session'.command # "exit"
<1>0. /\ TypeOK /\ session.command # "exit"
      /\ DOMAIN session = {"command", "pc", "seen", "polls"}
  BY DEF CInv, IInv, TypeOK
<1>1. CASE Preview \/ Enroll \/ ProtectionPreview
  BY <1>0, <1>1 DEF Preview, Enroll, ProtectionPreview
<1>2. CASE Execute \/ ProtectionApply
  BY <1>2 DEF Execute, ProtectionApply, Start, NoCommand
<1>3. CASE Reserve \/ AlreadyDone \/ ReadParent \/ NotSubmitted \/ Submit
  <2>1. \/ Goto("gate") \/ Goto("parent") \/ Goto("submitted") \/ Return
        \/ \E pc \in {"decide", "poll"} :
              session' = [session EXCEPT !.seen = ledger["entry"], !.pc = pc]
    BY <1>3 DEF Reserve, AlreadyDone, ReadParent, NotSubmitted, Submit
  <2>2. ASSUME NEW pc, Goto(pc) PROVE session'.command # "exit"
    BY <1>0, <2>2 DEF Goto
  <2>3. CASE Return
    BY <2>3 DEF Return, NoCommand
  <2>4. ASSUME NEW pc, session' = [session EXCEPT !.seen = ledger["entry"], !.pc = pc]
        PROVE  session'.command # "exit"
    BY <1>0, <2>4
  <2> QED
    BY <2>1, <2>2, <2>3, <2>4
<1>4. CASE LookupSubmitted \/ Poll \/ RecordSeen \/ Cancel \/ CancelAnswered \/ LookupFinal
  BY <1>0, <1>4 DEF LookupSubmitted, LookupFinal, Lookup, Poll, RecordSeen, Cancel, CancelAnswered, Goto
<1>5. CASE Filled \/ NotFilled \/ Abort
  BY <1>0, <1>5 DEF Filled, NotFilled, Abort, Goto, Return, NoCommand
<1>6. CASE ReserveStop \/ StopNotDispatched \/ PostStop \/ StopUnknown \/ StopAnswered
             \/ ReconcileStop \/ StopVerified
  BY <1>0, <1>6 DEF ReserveStop, StopNotDispatched, PostStop, StopUnknown, StopAnswered,
    ReconcileStop, StopVerified, Goto, Return, NoCommand
<1>7. CASE Outside \/ ReconcileRecord \/ \E r \in Rows : ReconcileLookup(r)
  BY <1>0, <1>7 DEF Outside, trade_vars, ReconcileRecord, ReconcileLookup
<1> QED
  BY <1>1, <1>2, <1>3, <1>4, <1>5, <1>6, <1>7 DEF Beside, Entry

(* They send no sale, and undo no final state of an order.                 *)
LEMMA NoSaleSent ==
  ASSUME CInv, Beside
  PROVE  /\ sent'["sell"] = sent["sell"]
         /\ \A o \in Orders :
              order[o] \in {"fill", "cancelled", "rejected"} => order'[o] = order[o]
<1>1. BrokerTypeOK /\ "sell" \in Requests
  BY DEF CInv, IInv, TypeOK, Requests, Orders
<1>2. CASE UNCHANGED broker_vars
  BY <1>2 DEF broker_vars
<1>3. CASE Submit
  <2>1. OrderOfRow[Row] = "buy"
    BY <1>3 DEF CInv, IInv, Knows, InPlace, Ordering, Submit, At, Row, OrderOfRow
  <2> QED
    BY <1>1, <1>3, <2>1 DEF Submit, Send, BrokerTypeOK
<1>4. CASE Cancel \/ PostStop \/ CancelStop
  <2>1. \/ UNCHANGED broker_vars
        \/ Send("cancel_buy") \/ Send("stop") \/ Send("cancel_stop")
    BY <1>4 DEF Cancel, PostStop, CancelStop
  <2> QED
    BY <1>1, <2>1 DEF Send, BrokerTypeOK, broker_vars
<1>5. CASE Outside
  BY <1>1, <1>5, OutsideSteps
<1> QED
  BY <1>2, <1>3, <1>4, <1>5, BesideIsNext, Senders

(* The row of the sale is written by the unlocked reconcile only, which    *)
(* closes it with what is so; a filled entry stays filled.                 *)
LEMMA RowsBesideSale ==
  ASSUME CInv, Beside
  PROVE  /\ ledger["entry"] = "filled" => ledger'["entry"] = "filled"
         /\ \/ ledger'["exit"] = ledger["exit"]
            \/ /\ ledger["exit"] \in Pending /\ ledger'["exit"] \in Pending \cup TERMINAL
               /\ Honest("exit", ledger'["exit"])
<1>1. TypeOK /\ Rows = {"entry", "exit"} /\ session.command # "exit"
  BY DEF CInv, IInv, Rows
<1>2. CASE UNCHANGED ledger
  BY <1>2
<1>3. ASSUME NEW status \in Pending \cup TERMINAL, Recordable("entry", status),
             ledger' = [ledger EXCEPT !["entry"] = status]
      PROVE  /\ ledger["entry"] = "filled" => ledger'["entry"] = "filled"
             /\ ledger'["exit"] = ledger["exit"]
  BY <1>1, <1>3, Writes DEF Recordable, Pending
<1>4. session.pc \in Ordering \cup Buying => Row = "entry"
  BY DEF CInv, IInv, Knows, InPlace, Row
<1>5. CASE Reserve
  <2>1. ledger' = [ledger EXCEPT !["entry"] = "request_pending"] /\ ledger["entry"] = "absent"
        /\ "request_pending" \in Pending
    BY <1>4, <1>5 DEF Reserve, Pending, At, Ordering
  <2> QED
    BY <1>1, <2>1, Writes
<1>6. CASE NotSubmitted
  BY <1>3, <1>4, <1>6 DEF NotSubmitted, TERMINAL, At, Ordering
<1>7. CASE RecordSeen
  <2>1. session.seen \in Pending \cup TERMINAL
    BY <1>7 DEF RecordSeen, CInv, IInv, TypeOK, Knows, Ordered
  <2> QED
    BY <1>3, <1>4, <1>7, <2>1 DEF RecordSeen, At, Ordering, Buying
<1>8. CASE ProtectionApply
  <2>1. Recordable("entry", "filled")
    BY <1>1, <1>8 DEF ProtectionApply, MayRecover, TypeOK, Recordable, TERMINAL
  <2> QED
    BY <1>3, <1>8, <2>1 DEF ProtectionApply, TERMINAL
<1>9. CASE ReconcileRecord /\ ~ UNCHANGED ledger
  <2> DEFINE r == reading.row
  <2> DEFINE status == reading.status
  <2>1. /\ r \in Rows /\ status \in Pending \cup TERMINAL /\ Honest(r, status)
        /\ Recordable(r, status) /\ ledger' = [ledger EXCEPT ![r] = status]
    BY <1>9 DEF ReconcileRecord, CInv, IInv, TypeOK, TrueRows
  <2>2. CASE r = "entry"
    BY <1>3, <2>1, <2>2
  <2>3. CASE r = "exit"
    <3>1. ledger'["exit"] = status /\ ledger'["entry"] = ledger["entry"]
      BY <1>1, <2>1, <2>3, Writes
    <3> QED
      BY <2>1, <2>3, <3>1 DEF Recordable
  <2> QED
    BY <1>1, <2>1, <2>2, <2>3
<1> QED
  BY <1>2, <1>5, <1>6, <1>7, <1>8, <1>9, BesideIsNext, LedgerWriters

(* The steps beside the sale.                                              *)
LEMMA BesideKeeps == ASSUME CInv, Beside, UNCHANGED sale PROVE CInv'
<1>1. IInv' /\ session'.command # "exit" /\ sale' \in Sales
  BY BesideIsNext, Inductive, NoExit DEF CInv
<1>2. SaleIsSecond'
  BY RowsBesideSale DEF CInv, SaleIsSecond, Pending
<1>3. Selling("gate")' => ledger'["exit"] \in Pending /\ sent'["sell"] = 0
  <2>1. SUFFICES ASSUME Selling("gate") PROVE ledger'["exit"] \in Pending /\ sent'["sell"] = 0
    BY DEF Selling
  <2>2. ledger["exit"] \in Pending /\ sent["sell"] = 0
    BY <2>1 DEF CInv, SaleKnows
  <2>3. "sell" \notin Placed
    BY <2>2 DEF CInv, IInv, Apart, Requested, Placed
  <2>4. \A status \in TERMINAL : ~ Honest("exit", status)
    BY <2>3 DEF Honest, OrderOfRow
  <2> QED
    BY <2>2, <2>4, RowsBesideSale, NoSaleSent
<1>4. (Selling("posted") \/ Selling("record"))' => ledger'["exit"] # "absent"
  BY RowsBesideSale DEF CInv, SaleKnows, Selling, Pending, TERMINAL
<1>5. Selling("record")' => sale'.seen # "none" /\ Honest("exit", sale.seen)'
  <2>1. SUFFICES ASSUME Selling("record")
                 PROVE  sale'.seen # "none" /\ Honest("exit", sale.seen)'
    BY DEF Selling
  <2>2. sale.seen # "none" /\ Honest("exit", sale.seen)
    BY <2>1 DEF CInv, SaleKnows
  <2>3. Honest("exit", sale.seen)'
    BY <2>2, NoSaleSent, EndIsFinal DEF CInv, Rows, Honest
  <2> QED
    BY <2>2, <2>3
<1> QED
  BY <1>1, <1>2, <1>3, <1>4, <1>5 DEF CInv, SaleKnows

------------------------------------------------------------------------------
(* The steps of the sale.                                                  *)

(* A step of the sale that touches nothing of the trade.                   *)
LEMMA SaleMoves ==
  ASSUME CInv, UNCHANGED vars, sale' \in Sales, SaleKnows'
  PROVE  CInv'
<1>1. IInv'
  BY StutterKeeps DEF CInv
<1>2. UNCHANGED <<ledger, session>>
  BY DEF vars, trade_vars
<1> QED
  BY <1>1, <1>2 DEF CInv, SaleIsSecond

(* Before the sale has reserved, and after it has returned, it relies on   *)
(* nothing.                                                                *)
LEMMA SaleWaits ==
  ASSUME sale'.pc \in {"idle", "reserve"}
  PROVE  SaleKnows'
BY DEF SaleKnows, Selling

(* The plan, its preview and its end, the start and the return.            *)
LEMMA SaleWaitsKeeps ==
  ASSUME CInv, PlanWritten \/ SalePreview \/ SaleStart \/ SaleKilled
  PROVE  CInv'
<1>1. UNCHANGED vars /\ sale' \in Sales /\ sale'.pc \in {"idle", "reserve"}
  BY DEF CInv, Sales, PlanWritten, SalePreview, SaleStart, SaleKilled, Resume, SaleReturns, Selling
<1> QED
  BY <1>1, SaleMoves, SaleWaits

(* A sale whose admission is over knows what it knew.                      *)
LEMMA AdmissionEndsKeeps == ASSUME CInv, AdmissionEnds PROVE CInv'
<1>1. /\ UNCHANGED vars /\ sale' \in Sales
      /\ sale'.pc = sale.pc /\ sale'.seen = sale.seen
  BY DEF CInv, Sales, AdmissionEnds
<1>2. UNCHANGED <<ledger, broker_vars>>
  BY <1>1 DEF vars, trade_vars
<1>3. Honest("exit", sale.seen)' = Honest("exit", sale.seen)
  BY <1>1, <1>2 DEF Honest, Placed, Decoded, broker_vars
<1>4. SaleKnows'
  BY <1>1, <1>2, <1>3 DEF CInv, SaleKnows, Selling, broker_vars
<1> QED
  BY <1>1, <1>4, SaleMoves

(* What the sale reads of its order, or does not, is true.                 *)
LEMMA SaleReadsKeeps == ASSUME CInv, SaleUnknown \/ SaleAnswered PROVE CInv'
<1> DEFINE seen == IF SaleUnknown THEN "unknown" ELSE Decoded("sell")
<1>1. /\ UNCHANGED vars /\ Selling("posted")
      /\ sale' = [sale EXCEPT !.pc = "record", !.seen = seen]
      /\ seen # "unknown" => "sell" \in Placed /\ seen = Decoded("sell")
  BY DEF SaleUnknown, SaleAnswered
<1>2. seen \in Pending \cup TERMINAL
  BY <1>1, DecodedIsKnown DEF CInv, IInv, TypeOK, Pending
<1>3. sale' \in Sales /\ sale'.pc = "record" /\ sale'.seen = seen
  BY <1>1, <1>2 DEF CInv, Sales
<1>4. Honest("exit", seen) /\ seen # "none"
  BY <1>1, <1>2 DEF Honest, OrderOfRow, Pending, TERMINAL
<1>5. UNCHANGED <<ledger, broker_vars>>
  BY <1>1 DEF vars, trade_vars
<1>6. Honest("exit", sale.seen)'
  BY <1>3, <1>4, <1>5 DEF Honest, Placed, Decoded, broker_vars
<1>7. SaleKnows'
  BY <1>1, <1>3, <1>4, <1>5, <1>6 DEF CInv, SaleKnows, Selling
<1> QED
  BY <1>1, <1>3, <1>7, SaleMoves

(* What the supervised commands rely on, while the sale writes its row.    *)
LEMMA SaleWrites ==
  ASSUME CInv, NEW status \in Pending \cup TERMINAL,
         ledger' = [ledger EXCEPT !["exit"] = status],
         ledger["exit"] = "filled" => status = "filled",
         status \in TERMINAL =>
           \/ Honest("exit", status)
           \/ status = "rejected" /\ "sell" \notin Placed /\ sent["sell"] = 0,
         UNCHANGED <<broker_vars, unlocked>>
  PROVE  /\ IInv' /\ session'.command # "exit"
         /\ ledger'["exit"] = status /\ ledger'["entry"] = ledger["entry"]
<1>1. /\ ledger'["exit"] = status /\ ledger'["entry"] = ledger["entry"]
      /\ UNCHANGED <<protection, permits, session, reading>>
  BY Writes DEF CInv, IInv, Rows, unlocked
<1>2. session' \in Sessions
  BY <1>1 DEF CInv, IInv, TypeOK, Sessions
<1>3. session.pc \in Ordering \cup Buying => Row = "entry"
  BY DEF CInv, IInv, Knows, InPlace, Row
<1>4. Honest(Row, session.seen)' = Honest(Row, session.seen) /\ Row' = Row
  BY <1>1 DEF Honest, Placed, Decoded, broker_vars, Row
<1>5. Ordered'
  BY <1>1, <1>3, <1>4 DEF CInv, IInv, Knows, Ordered, Ordering, Buying, At, broker_vars, OrderOfRow
<1>6. InPlace' /\ Protected' /\ Yielded'
  BY <1>1 DEF CInv, IInv, Knows, InPlace, Protected, Yielded, At, broker_vars
<1>7. Knows'
  BY <1>5, <1>6 DEF Knows
<1>8. OrderOfRow["exit"] = "sell" /\ "exit" \in Rows
  BY DEF OrderOfRow, Rows
<1>9. IInv'
  BY <1>1, <1>2, <1>7, <1>8, LedgerMoves DEF CInv
<1> QED
  BY <1>1, <1>9 DEF CInv

(* The sale reserves a row that was never sent, after the entry.           *)
LEMMA SaleReserveKeeps == ASSUME CInv, SaleReserve PROVE CInv'
<1>1. /\ ledger' = [ledger EXCEPT !["exit"] = "request_pending"]
      /\ "request_pending" \in Pending /\ "request_pending" \notin TERMINAL
      /\ ledger["exit"] = "absent" /\ UNCHANGED <<broker_vars, unlocked>>
  BY DEF SaleReserve, Pending, TERMINAL
<1>2. ledger["entry"] = "filled"
  BY DEF SaleReserve, Owned
<1>3. sent["sell"] = 0
  BY <1>1 DEF CInv, IInv, TrueRows, Rows, OrderOfRow
<1>4. /\ IInv' /\ session'.command # "exit"
      /\ ledger'["exit"] = "request_pending" /\ ledger'["entry"] = ledger["entry"]
  BY <1>1, SaleWrites
<1>5. sale' \in Sales /\ sale'.pc = "gate"
  BY DEF SaleReserve, Resume, CInv, Sales
<1>6. SaleKnows'
  BY <1>1, <1>3, <1>4, <1>5 DEF SaleKnows, Selling, broker_vars
<1> QED
  BY <1>2, <1>4, <1>5, <1>6 DEF CInv, SaleIsSecond

(* A sale that was refused before it was sent is rejected in truth.        *)
LEMMA SaleNotSubmittedKeeps == ASSUME CInv, SaleNotSubmitted PROVE CInv'
<1>1. /\ ledger' = [ledger EXCEPT !["exit"] = "rejected"] /\ "rejected" \in TERMINAL
      /\ ledger["exit"] \in Pending /\ sent["sell"] = 0
      /\ UNCHANGED <<broker_vars, unlocked>>
  BY DEF SaleNotSubmitted, TERMINAL, CInv, SaleKnows
<1>2. "sell" \notin Placed
  BY <1>1 DEF CInv, IInv, Apart, Requested, Placed
<1>3. ledger["exit"] # "filled" /\ ledger["exit"] # "absent"
  BY <1>1 DEF Pending
<1>4. /\ IInv' /\ session'.command # "exit"
      /\ ledger'["exit"] = "rejected" /\ ledger'["entry"] = ledger["entry"]
  BY <1>1, <1>2, <1>3, SaleWrites
<1>5. sale' \in Sales /\ sale'.pc = "idle"
  BY DEF SaleNotSubmitted, SaleReturns, CInv, Sales
<1> QED
  BY <1>3, <1>4, <1>5, SaleWaits DEF CInv, SaleIsSecond

(* The sale leaves for the first time, behind its pending row.             *)
LEMMA SaleSubmitKeeps == ASSUME CInv, SaleSubmit PROVE CInv'
<1>1. /\ Send("sell") /\ sent["sell"] = 0 /\ ledger["exit"] \in Pending
      /\ UNCHANGED <<ledger, protection, permits, session, reading>>
  BY DEF SaleSubmit, CInv, SaleKnows, unlocked
<1>2. ledger["exit"] \notin TERMINAL \cup {"absent"}
  BY <1>1 DEF Pending, TERMINAL
<1>3. "sell" \in Requests /\ \A r \in Rows : OrderOfRow[r] = "sell" => r = "exit"
  BY DEF Requests, Orders, Rows, OrderOfRow
<1>4. /\ order' = order /\ stop' = stop /\ in_flight' = in_flight \cup {"sell"}
      /\ sent'["buy"] = sent["buy"] /\ sent'["stop"] = sent["stop"]
  BY <1>1 DEF CInv, IInv, TypeOK, BrokerTypeOK, Send, Requests, Orders
<1>5. session.pc \in Ordering \cup Buying => Row = "entry"
  BY DEF CInv, IInv, Knows, InPlace, Row
<1>6. Honest(Row, session.seen)' = Honest(Row, session.seen) /\ Row' = Row
  BY <1>1, <1>4 DEF Honest, Placed, Decoded, Row
<1>7. Ordered'
  BY <1>1, <1>4, <1>5, <1>6 DEF CInv, IInv, Knows, Ordered, Ordering, Buying, At, OrderOfRow
<1>8. InPlace' /\ Protected' /\ Yielded'
  BY <1>1, <1>4 DEF CInv, IInv, Knows, InPlace, Protected, Yielded, At
<1>9. session' \in Sessions
  BY <1>1 DEF CInv, IInv, TypeOK, Sessions
<1>10. IInv'
  BY <1>1, <1>2, <1>3, <1>7, <1>8, <1>9, SendKeeps DEF CInv, Knows
<1>11. sale' \in Sales /\ sale'.pc = "posted"
  BY DEF SaleSubmit, Resume, CInv, Sales
<1>12. SaleKnows'
  BY <1>1, <1>2, <1>11 DEF SaleKnows, Selling
<1> QED
  BY <1>1, <1>10, <1>11, <1>12 DEF CInv, SaleIsSecond

(* What was read of the sale is written, if its row still takes it.        *)
LEMMA SaleRecordKeeps == ASSUME CInv, SaleRecord PROVE CInv'
<1>1. /\ ledger["exit"] # "absent" /\ sale.seen # "none" /\ Honest("exit", sale.seen)
      /\ UNCHANGED <<broker_vars, unlocked>>
  BY DEF SaleRecord, CInv, SaleKnows
<1>2. sale.seen \in Pending \cup TERMINAL
  BY <1>1 DEF CInv, Sales
<1>3. sale' \in Sales /\ sale'.pc = "idle"
  BY DEF SaleRecord, SaleReturns, CInv, Sales
<1>4. CASE Recordable("exit", sale.seen)
  <2>1. /\ ledger' = [ledger EXCEPT !["exit"] = sale.seen]
        /\ ledger["exit"] = "filled" => sale.seen = "filled"
    BY <1>4 DEF SaleRecord, Recordable, Pending
  <2>2. IInv' /\ session'.command # "exit" /\ ledger'["entry"] = ledger["entry"]
    BY <1>1, <1>2, <2>1, SaleWrites
  <2> QED
    BY <1>1, <1>3, <2>2, SaleWaits DEF CInv, SaleIsSecond
<1>5. CASE ~ Recordable("exit", sale.seen)
  <2>1. UNCHANGED vars
    BY <1>1, <1>5 DEF SaleRecord, vars, trade_vars, unlocked
  <2> QED
    BY <1>3, <2>1, SaleMoves, SaleWaits
<1> QED
  BY <1>4, <1>5

------------------------------------------------------------------------------
(* No row is there, and no plan.                                           *)
LEMMA CanaryInitially == CanaryInit => CInv
<1> SUFFICES ASSUME CanaryInit PROVE CInv
  OBVIOUS
<1>1. IInv
  BY Initially DEF CanaryInit
<1> QED
  BY <1>1 DEF CanaryInit, Init, NoSale, NoCommand, CInv, Sales, SaleIsSecond, SaleKnows, Selling, Rows

(* Every step of the sale and beside it keeps the invariant.               *)
LEMMA CanaryInductive == CInv /\ [CanaryNext]_all_vars => CInv'
<1> SUFFICES ASSUME CInv, [CanaryNext]_all_vars PROVE CInv'
  OBVIOUS
<1>1. CASE Sale
  BY <1>1, SaleWaitsKeeps, AdmissionEndsKeeps, SaleReadsKeeps, SaleReserveKeeps,
    SaleNotSubmittedKeeps, SaleSubmitKeeps, SaleRecordKeeps DEF Sale
<1>2. CASE Beside /\ UNCHANGED sale
  BY <1>2, BesideKeeps
<1>3. CASE UNCHANGED all_vars
  <2>1. UNCHANGED vars /\ UNCHANGED sale /\ UNCHANGED <<ledger, broker_vars>>
    BY <1>3 DEF all_vars, vars, trade_vars
  <2>2. Honest("exit", sale.seen)' = Honest("exit", sale.seen)
    BY <2>1 DEF Honest, Placed, Decoded, broker_vars
  <2>3. SaleKnows'
    BY <2>1, <2>2 DEF CInv, SaleKnows, Selling, broker_vars
  <2> QED
    BY <2>1, <2>3, SaleMoves DEF CInv
<1> QED
  BY <1>1, <1>2, <1>3 DEF CanaryNext, Beside

(* Every state of the two writers satisfies it.                            *)
THEOREM CanaryInvariance == CanarySpec => []CInv
<1> QED
  BY CanaryInitially, CanaryInductive, PTL DEF CanarySpec

(* The sale that holds no lock sends nothing twice, leaves both journals   *)
(* true, and is on its way only when the entry is over and filled: one     *)
(* unresolved row of the account is what keeps it apart                    *)
(* (live_operator.py:385, execution_journal.py:100).                       *)
THEOREM CanaryStaysSafe == CanarySpec => []CanaryIsSafe
<1>1. CInv => CanaryIsSafe
  <2> SUFFICES ASSUME CInv PROVE CanaryIsSafe
    OBVIOUS
  <2>1. CanaryTypeOK
    BY DEF CInv, IInv, Sales, CanaryTypeOK
  <2>2. Cardinality(Unresolved) <= 1
    <3>1. Unresolved = {} \/ Unresolved = {"entry"} \/ Unresolved = {"exit"}
      BY DEF CInv, SaleIsSecond, Unresolved, Rows, Pending
    <3>2. Cardinality({}) = 0 /\ Cardinality({"entry"}) = 1 /\ Cardinality({"exit"}) = 1
      BY FS_EmptySet, FS_Singleton
    <3> QED
      BY <3>1, <3>2
  <2>3. ASSUME SaleMaySell PROVE order["buy"] = "fill" /\ ledger["entry"] = "filled"
    <3>1. sent["sell"] # 0
      BY <2>3 DEF SaleMaySell, CInv, IInv, Apart, Requested, Orders
    <3>2. ledger["exit"] # "absent"
      BY <3>1 DEF CInv, IInv, TrueRows, Rows, OrderOfRow
    <3>3. ledger["entry"] = "filled"
      BY <3>2 DEF CInv, SaleIsSecond
    <3> QED
      BY <3>3, FilledIsFilled DEF CInv, Rows, OrderOfRow
  <2>4. JournalsAgreeWithBroker
    BY DEF CInv, IInv, TrueRows, TrueProtection, JournalsAgreeWithBroker
  <2>5. NothingPostedTwice
    BY DEF CInv, IInv, Apart
  <2> QED
    BY <2>1, <2>2, <2>3, <2>4, <2>5 DEF CanaryIsSafe, SaleAfterEntry
<1> QED
  BY <1>1, CanaryInvariance, PTL

------------------------------------------------------------------------------
(* Every step of the sale opens its row, closes it or leaves both rows.    *)
LEMMA SaleLedgerStep == ASSUME CInv, Sale PROVE [Ledger!Next]_rows
<1>1. TypeOK /\ "exit" \in Rows
  BY DEF CInv, IInv, Rows
<1>2. CASE UNCHANGED ledger
  BY <1>2 DEF rows, Unresolved, Closings
<1>3. CASE SaleReserve
  <2>1. /\ ledger' = [ledger EXCEPT !["exit"] = "request_pending"] /\ "request_pending" \in Pending
        /\ ledger["exit"] = "absent" /\ Unresolved = {}
    BY <1>3 DEF SaleReserve, Pending
  <2> QED
    BY <1>1, <2>1, RowStep
<1>4. CASE SaleNotSubmitted
  <2>1. /\ ledger' = [ledger EXCEPT !["exit"] = "rejected"] /\ "rejected" \in TERMINAL
        /\ ledger["exit"] \in Pending
    BY <1>4 DEF SaleNotSubmitted, CInv, SaleKnows, TERMINAL
  <2> QED
    BY <1>1, <2>1, RowStep
<1>5. CASE SaleRecord /\ ~ UNCHANGED ledger
  <2>1. /\ ledger' = [ledger EXCEPT !["exit"] = sale.seen]
        /\ ledger["exit"] \in Pending \/ ledger["exit"] = sale.seen
        /\ sale.seen \in Pending \cup TERMINAL
    BY <1>5 DEF SaleRecord, Recordable, CInv, SaleKnows, Sales
  <2> QED
    BY <1>1, <2>1, RowStep
<1>6. CASE PlanWritten \/ SalePreview \/ AdmissionEnds \/ SaleStart \/ SaleUnknown
             \/ SaleAnswered \/ SaleKilled \/ SaleSubmit
  BY <1>2, <1>6 DEF PlanWritten, SalePreview, AdmissionEnds, SaleStart, SaleUnknown,
    SaleAnswered, SaleKilled, SaleSubmit, vars, trade_vars
<1> QED
  BY <1>2, <1>3, <1>4, <1>5, <1>6 DEF Sale

(* With the sale beside the session, which share nothing but the journal,  *)
(* the two rows still implement its ledger: one order of the account is    *)
(* open at a time, and outcomes are kept (execution_journal.py:100,        *)
(* :165-180, live_execution.py:348).                                       *)
THEOREM CanaryImplementsLedger == CanarySpec => LedgerSpec
<1>1. CanaryInit => Ledger!Init
  BY DEF CanaryInit, Init, Ledger!Init, Unresolved, Rows, Pending, TERMINAL
<1>2. CInv /\ [CanaryNext]_all_vars => [Ledger!Next]_rows
  <2>1. CASE CInv /\ Beside
    BY <2>1, BesideIsNext, LedgerStep DEF CInv
  <2>2. CASE CInv /\ UNCHANGED all_vars
    BY <2>2, LedgerStep DEF CInv, all_vars
  <2> QED
    BY <2>1, <2>2, SaleLedgerStep DEF CanaryNext, Beside
<1> QED
  BY <1>1, <1>2, CanaryInvariance, PTL DEF CanarySpec, LedgerSpec, Ledger!Spec, rows, Closings
==============================================================================
