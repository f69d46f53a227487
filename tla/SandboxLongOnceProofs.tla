------------------------- MODULE SandboxLongOnceProofs -------------------------
(***************************************************************************)
(* Proofs about SandboxLongOnce for every set of candidates and every      *)
(* bound on the polls.                                                     *)
(***************************************************************************)
EXTENDS SandboxLongOnce, TLAPS

BeforeBuy == {"submit_preflight", "submit"}

BeforeCancel ==
  BeforeBuy \cup {"submitted", "observed", "lookup", "poll", "cancel_pending",
                  "cancel_lookup", "cancel"}

BeforeStop == BeforeCancel \cup {"cancelling", "final", "decide"}

(* A command works for the candidate of the row, and of the anchor.        *)
InCommand ==
  /\ process.pc \notin {"idle", "init"} => process.candidate \in Candidates
  /\ process.pc \notin {"idle", "init", "preflight", "claim"} =>
       ledger.state \in Claimed /\ ledger.candidate = process.candidate
  /\ process.pc \notin NotInTry => process.candidate = anchor
  /\ process.pc = "poll" => process.polls < MaxPolls

(* Only the anchored candidate sends; nothing is sent before the anchor,   *)
(* and no stop before the fence.                                           *)
Dispatches ==
  /\ \A k \in Kinds, c \in Candidates :
       /\ sent[<<k, c>>] <= 1
       /\ sent[<<k, c>>] > 0 => c = anchor
       /\ anchor = NoCandidate \/ process.pc \in BeforeBuy => sent[<<k, c>>] = 0
  /\ \A c \in Candidates :
       /\ process.pc \in BeforeCancel => sent[<<"cancel", c>>] = 0
       /\ ~ fence \/ process.pc = "stop" => sent[<<"stop", c>>] = 0
  /\ anchor = NoCandidate \/ process.pc \in BeforeStop => ~ fence
  /\ process.pc \in {"stop", "stop_posted", "verified"} => fence

Safe == TypeOK /\ InCommand /\ Dispatches

(* What a row says of the broker; and what a command has seen.             *)
Outcome(status, c) ==
  /\ status = "filled" => order[c] = "fill"
  /\ status \in {"cancelled", "rejected"} => order[c] = status

TrueRow(L) ==
  /\ Outcome(L.entry, L.candidate)
  /\ L.state = "ENTRY_NOT_FILLED" => order[L.candidate] \in {"cancelled", "rejected"}
  /\ L.state = "FILLED_PROTECTED" =>
       order[L.candidate] = "fill" /\ stop[L.candidate] # "none" /\ fence

Protecting == {"protect", "fence", "stop", "stop_posted", "verified"}

TrueSeen ==
  /\ process.pc \in NotInTry => process.seen = "none"
  /\ process.pc \in Protecting => process.seen = "filled"
  /\ process.pc \notin NotInTry => Outcome(process.seen, process.candidate)
  /\ process.pc = "verified" => stop[process.candidate] # "none"

Requested ==
  \A c \in Candidates :
    order[c] # "none" \/ <<"buy", c>> \in in_flight => sent[<<"buy", c>>] > 0

Truth == TrueRow(ledger) /\ TrueRow(backup) /\ TrueSeen /\ Requested

------------------------------------------------------------------------------
(* Nothing is claimed, fenced or sent at the start.                        *)
LEMMA SafeInit == Init => Safe
<1> SUFFICES ASSUME Init PROVE Safe
  OBVIOUS
<1> USE DEF Init, BrokerInit, NoRow, NoCommand
<1>1. BrokerTypeOK
  BY DEF BrokerTypeOK, Requests
<1>2. TypeOK
  <2>1. ledger \in Ledgers /\ backup \in Ledgers
    BY DEF Ledgers
  <2>2. 0 \in 0..MaxPolls /\ "idle" \in Places /\ "none" \in Entries
    BY PollsAssumption DEF Places, Entries
  <2> QED BY <1>1, <2>1, <2>2 DEF TypeOK, MaybeCandidate
<1>3. InCommand
  BY DEF InCommand, NotInTry
<1>4. \A k \in Kinds, c \in Candidates : sent[<<k, c>>] = 0
  BY DEF Requests
<1>5. Dispatches
  BY <1>4 DEF Dispatches, BeforeBuy, BeforeCancel, BeforeStop, Kinds
<1> QED BY <1>2, <1>3, <1>5 DEF Safe

(* What the three records of the state are after an update.                *)
ProcessTypeOK ==
  process \in [pc : Places, candidate : MaybeCandidate, seen : Entries, polls : 0..MaxPolls]

(* The process goes to the next place and keeps what it holds.             *)
LEMMA GotoStep ==
  ASSUME ProcessTypeOK, NEW pc \in Places, Goto(pc)
  PROVE  /\ ProcessTypeOK'
         /\ process'.pc = pc /\ process'.candidate = process.candidate
         /\ process'.seen = process.seen /\ process'.polls = process.polls
BY DEF ProcessTypeOK, Goto

(* It goes on with an entry that it has read.                              *)
LEMMA SeeStep ==
  ASSUME ProcessTypeOK, NEW pc \in Places, NEW seen \in Entries, See(seen, pc)
  PROVE  /\ ProcessTypeOK'
         /\ process'.pc = pc /\ process'.candidate = process.candidate
         /\ process'.seen = seen /\ process'.polls = process.polls
BY DEF ProcessTypeOK, See

(* It has read once more, within its bound.                                *)
LEMMA CountStep ==
  ASSUME ProcessTypeOK, process.polls < MaxPolls, NEW pc \in Places,
         process' = [process EXCEPT !.pc = pc, !.polls = process.polls + 1]
  PROVE  ProcessTypeOK' /\ process'.pc = pc /\ process'.candidate = process.candidate
<1>1. process.polls + 1 \in 0..MaxPolls
  BY PollsAssumption DEF ProcessTypeOK
<1> QED BY <1>1 DEF ProcessTypeOK

(* It returns or raises, and holds nothing.                                *)
LEMMA ReturnStep ==
  ASSUME Return
  PROVE  ProcessTypeOK' /\ process'.pc = "idle" /\ process'.seen = "none"
BY PollsAssumption DEF Return, NoCommand, ProcessTypeOK, Places, MaybeCandidate, Entries, ENDED

(* It starts with a candidate and with what the ledger says.               *)
LEMMA StartStep ==
  ASSUME NEW pc \in Places, NEW c \in Candidates, NEW seen \in Entries,
         process' = [pc |-> pc, candidate |-> c, seen |-> seen, polls |-> 0]
  PROVE  ProcessTypeOK' /\ process'.pc = pc /\ process'.candidate = c
BY PollsAssumption DEF ProcessTypeOK, MaybeCandidate

(* A claimed ledger has a candidate and an entry.                          *)
LEMMA RowTyped ==
  ASSUME NEW L \in Ledgers, L.state \in Claimed
  PROVE  L \in [state : Claimed, candidate : Candidates, entry : Entries]
BY DEF Ledgers, Claimed, TERMINAL, DISPATCHED

(* The ledger goes on to another state.                                    *)
LEMMA RecordedStep ==
  ASSUME ledger \in Ledgers, ledger.state \in Claimed,
         NEW state \in Claimed, Recorded(state)
  PROVE  /\ ledger' \in Ledgers
         /\ ledger'.state = state /\ ledger'.candidate = ledger.candidate
         /\ ledger'.entry = ledger.entry
<1>1. ledger \in [state : Claimed, candidate : Candidates, entry : Entries]
  BY RowTyped
<1> QED BY <1>1 DEF Recorded, Ledgers

(* The ledger goes on with the entry that was read.                        *)
LEMMA ObservedStep ==
  ASSUME ledger \in Ledgers, ledger.state \in Claimed, ProcessTypeOK,
         NEW state \in Claimed, Observed(state)
  PROVE  /\ ledger' \in Ledgers
         /\ ledger'.state = state /\ ledger'.candidate = ledger.candidate
         /\ ledger'.entry = process.seen
<1>1. ledger \in [state : Claimed, candidate : Candidates, entry : Entries]
  BY RowTyped
<1>2. process.seen \in Entries
  BY DEF ProcessTypeOK
<1> QED BY <1>1, <1>2 DEF Observed, Ledgers

(* A request that was not sent before is sent once.                        *)
LEMMA SendStep ==
  ASSUME BrokerTypeOK, NEW k \in Kinds, NEW c \in Candidates, sent[<<k, c>>] = 0, Send(k, c)
  PROVE  /\ BrokerTypeOK'
         /\ \A l \in Kinds, d \in Candidates :
              sent'[<<l, d>>] = IF l = k /\ d = c THEN 1 ELSE sent[<<l, d>>]
<1>1. <<k, c>> \in Requests
  BY DEF Requests
<1>2. /\ sent \in [Requests -> 0..2]
      /\ sent' = [sent EXCEPT ![<<k, c>>] = 1]
  BY <1>1 DEF BrokerTypeOK, Send
<1>3. BrokerTypeOK'
  BY <1>1, <1>2 DEF BrokerTypeOK, Send
<1>4. ASSUME NEW l \in Kinds, NEW d \in Candidates
      PROVE  sent'[<<l, d>>] = IF l = k /\ d = c THEN 1 ELSE sent[<<l, d>>]
  <2>1. <<l, d>> \in Requests
    BY DEF Requests
  <2> QED BY <1>1, <1>2, <2>1
<1> QED BY <1>3, <1>4

(* What is read of an order is an entry.                                   *)
LEMMA SeenTyped ==
  ASSUME BrokerTypeOK, NEW c \in Candidates
  PROVE  Decoded(c) \in Entries
BY DEF BrokerTypeOK, Decoded, Entries, ENDED

------------------------------------------------------------------------------
(* Every step of a command keeps the fences and the counts.                *)
LEMMA SafeCommand ==
  ASSUME Safe, Command
  PROVE  Safe'
<1> USE NoCandidateAssumption DEF Safe
<1> USE DEF TypeOK, InCommand, Dispatches, At
<1>p. ProcessTypeOK
  BY DEF ProcessTypeOK
<1>1. CASE InitFills
  BY <1>1, ReturnStep
  DEF InitFills, ProcessTypeOK, NoRow, Ledgers, broker_vars, BrokerTypeOK, NotInTry,
      BeforeBuy, BeforeCancel, BeforeStop
<1>2. CASE Preflight \/ SubmitPreflight
  BY <1>2, <1>p, GotoStep
  DEF Preflight, SubmitPreflight, ProcessTypeOK, broker_vars, BrokerTypeOK, NotInTry,
      Places, BeforeBuy, BeforeCancel, BeforeStop
<1>3. CASE Claim
  BY <1>3, <1>p, GotoStep
  DEF Claim, ProcessTypeOK, Ledgers, Claimed, Entries, broker_vars, BrokerTypeOK, NotInTry,
      Places, BeforeBuy, BeforeCancel, BeforeStop
<1>4. CASE Anchor
  <2>1. /\ ProcessTypeOK' /\ process'.pc = "submit_preflight"
        /\ process'.candidate = process.candidate
    BY <1>4, <1>p, GotoStep DEF Anchor, Places
  <2>2. process.candidate \in Candidates
    BY <1>4 DEF Anchor
  <2>3. TypeOK'
    BY <1>4, <2>1, <2>2 DEF Anchor, ProcessTypeOK, MaybeCandidate, broker_vars, BrokerTypeOK
  <2>4. InCommand'
    BY <1>4, <2>1 DEF Anchor, NotInTry
  <2>5. \A k \in Kinds, c \in Candidates : sent'[<<k, c>>] = 0
    BY <1>4 DEF Anchor, broker_vars
  <2>6. Dispatches'
    BY <1>4, <2>1, <2>2, <2>5 DEF Anchor, Kinds, BeforeBuy, BeforeCancel, BeforeStop
  <2> QED BY <2>3, <2>4, <2>6
<1>5. CASE Submit
  <2>1. process.candidate \in Candidates /\ "buy" \in Kinds
    BY <1>5 DEF Submit, Kinds
  <2>2. sent[<<"buy", process.candidate>>] = 0
    BY <1>5, <2>1 DEF Submit, BeforeBuy
  <2>3. Send("buy", process.candidate) /\ Goto("submitted") /\ "submitted" \in Places
    BY <1>5 DEF Submit, Places
  <2>4. /\ BrokerTypeOK'
        /\ \A l \in Kinds, d \in Candidates :
             sent'[<<l, d>>] = IF l = "buy" /\ d = process.candidate
                               THEN 1 ELSE sent[<<l, d>>]
    BY <2>1, <2>2, <2>3, SendStep
  <2>5. ProcessTypeOK' /\ process'.pc = "submitted" /\ process'.candidate = process.candidate
    BY <1>p, <2>3, GotoStep
  <2>6. TypeOK'
    BY <1>5, <2>4, <2>5 DEF Submit, ProcessTypeOK
  <2>7. InCommand'
    BY <1>5, <2>5 DEF Submit, NotInTry
  <2>8. Dispatches'
    BY <1>5, <2>1, <2>4, <2>5 DEF Submit, Kinds, NotInTry, BeforeBuy, BeforeCancel, BeforeStop
  <2> QED BY <2>6, <2>7, <2>8
<1>6. CASE SubmitAnswered \/ CancelVerified
  BY <1>6, <1>p, SeeStep, SeenTyped
  DEF SubmitAnswered, CancelVerified, ProcessTypeOK, broker_vars, BrokerTypeOK, NotInTry,
      Places, BeforeBuy, BeforeCancel, BeforeStop
<1>7. CASE Lookup \/ CancelLookup
  <2>1. PICK pc \in Places :
          /\ See(Decoded(process.candidate), pc)
          /\ pc = "poll" => process.polls < MaxPolls
          /\ pc \in {"poll", "final", "cancel_pending", "cancel"}
    BY <1>7 DEF Lookup, CancelLookup, Places
  <2>2. process.candidate \in Candidates
    BY <1>7 DEF Lookup, CancelLookup
  <2>3. /\ ProcessTypeOK' /\ process'.pc = pc /\ process'.candidate = process.candidate
        /\ process'.polls = process.polls
    BY <1>p, <2>1, <2>2, SeeStep, SeenTyped
  <2> QED
    BY <1>7, <2>1, <2>3
    DEF Lookup, CancelLookup, ProcessTypeOK, broker_vars, BrokerTypeOK, NotInTry,
        BeforeBuy, BeforeCancel, BeforeStop
<1>8. CASE EntryObserved \/ CancelPending \/ Final
  <2>1. PICK pc \in {"lookup", "cancel_lookup", "decide"} :
          /\ Goto(pc) /\ pc \in Places
          /\ process.pc \in BeforeStop \ BeforeBuy
          /\ pc # "decide" => process.pc \in BeforeCancel
    BY <1>8 DEF EntryObserved, CancelPending, Final, Places, BeforeStop, BeforeCancel, BeforeBuy
  <2>2. PICK state \in {"ENTRY_OBSERVED", "CANCEL_PENDING"} : Observed(state)
    BY <1>8 DEF EntryObserved, CancelPending, Final
  <2>3. ledger.state \in Claimed /\ state \in Claimed
    BY <2>1 DEF Claimed, BeforeStop, BeforeCancel, BeforeBuy
  <2>4. ledger' \in Ledgers /\ ledger'.state = state /\ ledger'.candidate = ledger.candidate
    BY <1>p, <2>2, <2>3, ObservedStep
  <2>5. ProcessTypeOK' /\ process'.pc = pc /\ process'.candidate = process.candidate
    BY <1>p, <2>1, GotoStep
  <2> QED
    BY <1>8, <2>1, <2>3, <2>4, <2>5
    DEF EntryObserved, CancelPending, Final, ProcessTypeOK, broker_vars, BrokerTypeOK, NotInTry,
        BeforeBuy, BeforeCancel, BeforeStop
<1>9. CASE Poll
  <2>1. PICK pc \in {"final", "lookup"} :
          process' = [process EXCEPT !.pc = pc, !.polls = process.polls + 1]
    BY <1>9 DEF Poll
  <2>2. /\ ProcessTypeOK' /\ process'.pc = pc /\ process'.candidate = process.candidate
    BY <1>9, <1>p, <2>1, CountStep DEF Poll, Places
  <2>3. /\ ledger' \in Ledgers /\ ledger'.state \in Claimed
        /\ ledger'.candidate = ledger.candidate
    BY <1>9, <1>p, ObservedStep DEF Poll, Claimed
  <2> QED
    BY <1>9, <2>2, <2>3
    DEF Poll, ProcessTypeOK, broker_vars, BrokerTypeOK, NotInTry,
        BeforeBuy, BeforeCancel, BeforeStop
<1>10. CASE Cancel
  <2>1. process.candidate \in Candidates /\ "cancel" \in Kinds
    BY <1>10 DEF Cancel, Kinds
  <2>2. sent[<<"cancel", process.candidate>>] = 0
    BY <1>10, <2>1 DEF Cancel, BeforeCancel
  <2>3. Send("cancel", process.candidate) /\ Goto("cancelling") /\ "cancelling" \in Places
    BY <1>10 DEF Cancel, Places
  <2>4. /\ BrokerTypeOK'
        /\ \A l \in Kinds, d \in Candidates :
             sent'[<<l, d>>] = IF l = "cancel" /\ d = process.candidate
                               THEN 1 ELSE sent[<<l, d>>]
    BY <2>1, <2>2, <2>3, SendStep
  <2>5. ProcessTypeOK' /\ process'.pc = "cancelling" /\ process'.candidate = process.candidate
    BY <1>p, <2>3, GotoStep
  <2>6. TypeOK'
    BY <1>10, <2>4, <2>5 DEF Cancel, ProcessTypeOK
  <2>7. InCommand'
    BY <1>10, <2>5 DEF Cancel, NotInTry
  <2>8. process.candidate = anchor /\ anchor # NoCandidate /\ ~ fence
    BY <1>10, <2>1 DEF Cancel, NotInTry, BeforeCancel, BeforeStop
  <2>9. \A c \in Candidates : sent[<<"stop", c>>] = 0
    BY <2>8
  <2>10. anchor' = anchor /\ fence' = fence
    BY <1>10 DEF Cancel
  <2>11. process'.pc \notin BeforeBuy \cup BeforeCancel \cup {"stop", "stop_posted", "verified"}
    BY <2>5 DEF BeforeBuy, BeforeCancel
  <2>12. Dispatches'
    BY <2>4, <2>8, <2>9, <2>10, <2>11 DEF Kinds
  <2> QED BY <2>6, <2>7, <2>12
<1>11. CASE EntryNotFilled \/ FilledProtected \/ Raise
  <2>1. process'.pc = "idle" /\ ProcessTypeOK'
    BY <1>11, ReturnStep DEF EntryNotFilled, FilledProtected, Raise
  <2>2. ledger.state \in Claimed
    BY <1>11 DEF EntryNotFilled, FilledProtected, Raise, NotInTry
  <2>3. \E state \in Claimed : Observed(state) \/ Recorded(state)
    BY <1>11 DEF EntryNotFilled, FilledProtected, Raise, Claimed, TERMINAL, DISPATCHED
  <2>4. ledger' \in Ledgers
    BY <1>p, <2>2, <2>3, ObservedStep, RecordedStep
  <2>5. UNCHANGED <<broker_vars, backup, anchor, fence>>
    BY <1>11 DEF EntryNotFilled, FilledProtected, Raise
  <2>6. TypeOK' /\ InCommand'
    BY <2>1, <2>4, <2>5 DEF ProcessTypeOK, broker_vars, BrokerTypeOK, NotInTry
  <2>7. Dispatches'
    BY <2>1, <2>5 DEF broker_vars, BeforeBuy, BeforeCancel, BeforeStop
  <2> QED BY <2>6, <2>7
<1>12. CASE StopPending
  <2>1. /\ ledger' \in Ledgers /\ ledger'.state \in Claimed
        /\ ledger'.candidate = ledger.candidate
    BY <1>12, <1>p, ObservedStep DEF StopPending, Claimed, DISPATCHED
  <2> QED
    BY <1>12, <1>p, <2>1, GotoStep
    DEF StopPending, ProcessTypeOK, broker_vars, BrokerTypeOK, NotInTry, Places,
        BeforeBuy, BeforeCancel, BeforeStop
<1>13. CASE Protect \/ Verify
  BY <1>13, <1>p, GotoStep
  DEF Protect, Verify, ProcessTypeOK, broker_vars, BrokerTypeOK, NotInTry, Places,
      BeforeBuy, BeforeCancel, BeforeStop
<1>14. CASE Fence
  BY <1>14, <1>p, GotoStep
  DEF Fence, ProcessTypeOK, broker_vars, BrokerTypeOK, NotInTry, Places,
      BeforeBuy, BeforeCancel, BeforeStop
<1>15. CASE PostStop
  <2>1. process.candidate \in Candidates /\ "stop" \in Kinds
    BY <1>15 DEF PostStop, Kinds
  <2>2. sent[<<"stop", process.candidate>>] = 0 /\ fence
    BY <1>15, <2>1 DEF PostStop
  <2>3. Send("stop", process.candidate) /\ Goto("stop_posted") /\ "stop_posted" \in Places
    BY <1>15 DEF PostStop, Places
  <2>4. /\ BrokerTypeOK'
        /\ \A l \in Kinds, d \in Candidates :
             sent'[<<l, d>>] = IF l = "stop" /\ d = process.candidate
                               THEN 1 ELSE sent[<<l, d>>]
    BY <2>1, <2>2, <2>3, SendStep
  <2>5. ProcessTypeOK' /\ process'.pc = "stop_posted" /\ process'.candidate = process.candidate
    BY <1>p, <2>3, GotoStep
  <2>6. TypeOK'
    BY <1>15, <2>4, <2>5 DEF PostStop, ProcessTypeOK
  <2>7. InCommand'
    BY <1>15, <2>5 DEF PostStop, NotInTry
  <2>8. /\ process.candidate = anchor /\ anchor # NoCandidate
        /\ anchor' = anchor /\ fence' = fence
    BY <1>15, <2>1 DEF PostStop, NotInTry
  <2>9. process'.pc \notin BeforeBuy \cup BeforeCancel \cup BeforeStop \cup {"stop"}
    BY <2>5 DEF BeforeBuy, BeforeCancel, BeforeStop
  <2>10. Dispatches'
    BY <2>2, <2>4, <2>8, <2>9 DEF Kinds
  <2> QED BY <2>6, <2>7, <2>10
<1>16. CASE Kill
  BY <1>16, ReturnStep
  DEF Kill, ProcessTypeOK, broker_vars, BrokerTypeOK, NotInTry,
      BeforeBuy, BeforeCancel, BeforeStop
<1> QED
  BY <1>1, <1>2, <1>3, <1>4, <1>5, <1>6, <1>7, <1>8, <1>9, <1>10, <1>11, <1>12, <1>13,
     <1>14, <1>15, <1>16 DEF Command

(* So does its start.                                                      *)
LEMMA SafeStart ==
  ASSUME Safe, Start
  PROVE  Safe'
<1> USE NoCandidateAssumption DEF Safe, TypeOK, InCommand, Dispatches, At
<1>p. ProcessTypeOK
  BY DEF ProcessTypeOK
<1>1. CASE InitCreates
  BY <1>1, <1>p, GotoStep
  DEF InitCreates, ProcessTypeOK, NoRow, Ledgers, broker_vars, BrokerTypeOK, NotInTry,
      Places, BeforeBuy, BeforeCancel, BeforeStop
<1>2. CASE Recover
  <2>1. ledger.state \in Claimed /\ ledger.candidate = anchor /\ ~ fence
    BY <1>2 DEF Recover, Opens, _check_anchor, Recoverable, Claimed, DISPATCHED
  <2>2. ledger \in [state : Claimed, candidate : Candidates, entry : Entries]
    BY <2>1, RowTyped
  <2>3. /\ ledger' \in Ledgers /\ ledger'.state \in Claimed
        /\ ledger'.candidate = ledger.candidate
    BY <1>2, <2>1, RecordedStep DEF Recover, Claimed, DISPATCHED
  <2>4. /\ ProcessTypeOK' /\ process'.pc = "protect" /\ process'.candidate = ledger.candidate
    <3>1. process' = [pc |-> "protect", candidate |-> ledger.candidate,
                      seen |-> ledger.entry, polls |-> 0]
      BY <1>2 DEF Recover, NoCommand
    <3>2. ledger.candidate \in Candidates /\ ledger.entry \in Entries /\ "protect" \in Places
      BY <2>2 DEF Places
    <3> QED BY <3>1, <3>2, StartStep
  <2> QED
    BY <1>2, <2>1, <2>2, <2>3, <2>4
    DEF Recover, ProcessTypeOK, broker_vars, BrokerTypeOK, NotInTry,
        BeforeBuy, BeforeCancel, BeforeStop
<1>3. ASSUME NEW c \in Candidates, Run(c)
      PROVE  Safe'
  <2>1. /\ ProcessTypeOK' /\ process'.pc = "preflight" /\ process'.candidate = c
    <3>1. process' = [pc |-> "preflight", candidate |-> c, seen |-> "none", polls |-> 0]
      BY <1>3 DEF Run, NoCommand
    <3> QED BY <3>1, StartStep DEF Places, Entries
  <2> QED
    BY <1>3, <2>1
    DEF Run, ProcessTypeOK, broker_vars, BrokerTypeOK, NotInTry,
        BeforeBuy, BeforeCancel, BeforeStop
<1> QED BY <1>1, <1>2, <1>3 DEF Start

(* The broker sends nothing.                                               *)
LEMMA BrokerStep ==
  ASSUME BrokerTypeOK, Broker
  PROVE  BrokerTypeOK' /\ UNCHANGED sent
<1> USE DEF BrokerTypeOK
<1>1. ASSUME NEW c \in Candidates,
             DeliverBuy(c) \/ DeliverCancel(c) \/ OrderEnds(c)
      PROVE  BrokerTypeOK' /\ UNCHANGED sent
  BY <1>1 DEF DeliverBuy, DeliverCancel, OrderEnds
<1>2. ASSUME NEW c \in Candidates,
             DeliverStop(c) \/ StopTriggers(c) \/ ChildEnds(c)
      PROVE  BrokerTypeOK' /\ UNCHANGED sent
  BY <1>2 DEF DeliverStop, StopTriggers, ChildEnds
<1>3. ASSUME NEW r \in Requests, Lose(r)
      PROVE  BrokerTypeOK' /\ UNCHANGED sent
  BY <1>3 DEF Lose
<1> QED BY <1>1, <1>2, <1>3 DEF Broker

(* So do backups, losses, restorations and the broker.                     *)
LEMMA SafeOutside ==
  ASSUME Safe, Backup \/ LedgerLost \/ Restore \/ Outside \/ UNCHANGED vars
  PROVE  Safe'
<1> USE DEF Safe, TypeOK, InCommand, Dispatches, At
<1>1. CASE Backup \/ LedgerLost \/ Restore \/ UNCHANGED vars
  <2>1. ledger' \in Ledgers /\ backup' \in Ledgers
    BY <1>1 DEF Backup, LedgerLost, Restore, vars, once_vars, NoRow, Ledgers
  <2> QED
    BY <1>1, <2>1
    DEF Backup, LedgerLost, Restore, vars, once_vars, broker_vars, BrokerTypeOK, NotInTry
<1>2. CASE Outside
  BY <1>2, BrokerStep DEF Outside, once_vars
<1> QED BY <1>1, <1>2

(* Type correctness and the invariant about requests, by induction.        *)
THEOREM Safety == Spec => []Safe
<1>1. Safe /\ [Next]_vars => Safe'
  BY SafeCommand, SafeStart, SafeOutside DEF Next
<1> QED BY <1>1, SafeInit, PTL DEF Spec

(* The row, its backup, the two files and the broker keep their types.     *)
THEOREM TypeCorrect == Spec => []TypeOK
BY Safety, PTL DEF Safe

(* However often its commands are killed and its database is lost or       *)
(* restored, the runner sends each of its requests once, for one candidate.*)
THEOREM OneOfEachSent == Spec => []OneOfEach
<1>1. Safe => OneOfEach
  <2> SUFFICES ASSUME Safe PROVE OneOfEach
    OBVIOUS
  <2>1. ASSUME NEW r \in Requests PROVE sent[r] <= 1
    <3>1. PICK k \in Kinds, c \in Candidates : r = <<k, c>>
      BY DEF Requests
    <3> QED BY <3>1 DEF Safe, Dispatches
  <2>2. \A k \in Kinds : \A c, d \in Candidates :
          sent[<<k, c>>] > 0 /\ sent[<<k, d>>] > 0 => c = d
    BY DEF Safe, Dispatches
  <2> QED BY <2>1, <2>2 DEF OneOfEach
<1> QED BY <1>1, Safety, PTL
------------------------------------------------------------------------------
(* There is no row, and nothing at the broker.                             *)
LEMMA TruthInit == Init => Truth
BY DEF Init, BrokerInit, NoRow, NoCommand, Truth, TrueRow, Outcome, TrueSeen, Requested,
   NotInTry, Protecting

(* The broker undoes no final state.                                       *)
LEMMA BrokerKeeps ==
  ASSUME BrokerTypeOK, Broker
  PROVE  /\ \A c \in Candidates :
              /\ order[c] \in {"fill", "cancelled", "rejected"} => order'[c] = order[c]
              /\ stop[c] # "none" => stop'[c] # "none"
         /\ Requested => Requested'
<1> USE DEF BrokerTypeOK, Requested
<1>1. ASSUME NEW d \in Candidates,
             DeliverBuy(d) \/ DeliverCancel(d) \/ OrderEnds(d)
      PROVE  /\ \A c \in Candidates :
                  /\ order[c] \in {"fill", "cancelled", "rejected"} => order'[c] = order[c]
                  /\ stop[c] # "none" => stop'[c] # "none"
             /\ Requested => Requested'
  BY <1>1 DEF DeliverBuy, DeliverCancel, OrderEnds
<1>2. ASSUME NEW d \in Candidates,
             DeliverStop(d) \/ StopTriggers(d) \/ ChildEnds(d)
      PROVE  /\ \A c \in Candidates :
                  /\ order[c] \in {"fill", "cancelled", "rejected"} => order'[c] = order[c]
                  /\ stop[c] # "none" => stop'[c] # "none"
             /\ Requested => Requested'
  BY <1>2 DEF DeliverStop, StopTriggers, ChildEnds
<1>3. ASSUME NEW r \in Requests, Lose(r)
      PROVE  /\ \A c \in Candidates :
                  /\ order[c] \in {"fill", "cancelled", "rejected"} => order'[c] = order[c]
                  /\ stop[c] # "none" => stop'[c] # "none"
             /\ Requested => Requested'
  BY <1>3 DEF Lose
<1> QED BY <1>1, <1>2, <1>3 DEF Broker

(* A first request is in flight, and was not placed.                       *)
LEMMA SendRequested ==
  ASSUME BrokerTypeOK, Requested, NEW k \in Kinds, NEW c \in Candidates,
         sent[<<k, c>>] = 0, Send(k, c)
  PROVE  Requested' /\ UNCHANGED <<order, stop>>
<1>1. \A l \in Kinds, d \in Candidates :
        sent'[<<l, d>>] = IF l = k /\ d = c THEN 1 ELSE sent[<<l, d>>]
  BY SendStep
<1>2. \A d \in Candidates : <<"buy", d>> \in in_flight' =>
        <<"buy", d>> \in in_flight \/ (k = "buy" /\ d = c)
  BY DEF Send
<1>3. UNCHANGED <<order, stop>>
  BY DEF Send
<1> QED BY <1>1, <1>2, <1>3 DEF Requested, Kinds

(* A row that is right stays right while the broker goes on.               *)
BrokerGoesOn ==
  /\ fence => fence'
  /\ \A c \in Candidates :
       /\ order[c] \in {"fill", "cancelled", "rejected"} => order'[c] = order[c]
       /\ stop[c] # "none" => stop'[c] # "none"

(* What a ledger says stays true as the broker goes on.                    *)
LEMMA RowStaysTrue ==
  ASSUME BrokerGoesOn, TypeOK, TrueRow(ledger), TrueRow(backup)
  PROVE  /\ UNCHANGED ledger => TrueRow(ledger)'
         /\ UNCHANGED backup => TrueRow(backup)'
<1>1. \A L \in Ledgers : L.entry \in ENDED \/ L.state \in TERMINAL => L.candidate \in Candidates
  BY DEF Ledgers, ENDED, TERMINAL
<1> QED BY <1>1 DEF TypeOK, BrokerGoesOn, TrueRow, Outcome, ENDED, TERMINAL

(* What is read of an order is its outcome.                                *)
LEMMA OutcomeSeen ==
  ASSUME BrokerTypeOK, NEW c \in Candidates
  PROVE  Outcome(Decoded(c), c)
BY DEF BrokerTypeOK, Outcome, Decoded

(* Every step of a command keeps both ledgers true.                        *)
LEMMA TruthCommand ==
  ASSUME Safe, Truth, Command
  PROVE  Truth'
<1> USE DEF At, Truth
<1>p. /\ TypeOK /\ BrokerTypeOK /\ ProcessTypeOK /\ ledger \in Ledgers /\ InCommand /\ Dispatches
  BY DEF Safe, TypeOK, ProcessTypeOK
<1>1. CASE InitFills \/ Preflight \/ SubmitPreflight \/ Anchor \/ Kill \/ Protect \/ Fence \/ Verify
  <2>1. UNCHANGED <<broker_vars, backup>> /\ (fence => fence')
    BY <1>1 DEF InitFills, Preflight, SubmitPreflight, Anchor, Kill, Protect, Fence, Verify
  <2>2. BrokerGoesOn /\ Requested'
    BY <2>1 DEF BrokerGoesOn, broker_vars, Requested
  <2>3. TrueRow(ledger)' /\ TrueRow(backup)'
    <3>1. UNCHANGED ledger \/ ledger' = NoRow("WAITING")
      BY <1>1 DEF InitFills, Preflight, SubmitPreflight, Anchor, Kill, Protect, Fence, Verify
    <3> QED BY <1>p, <2>1, <2>2, <3>1, RowStaysTrue DEF TrueRow, Outcome, NoRow
  <2>4. TrueSeen'
    <3>1. CASE InitFills \/ Kill
      BY <3>1, ReturnStep DEF InitFills, Kill, TrueSeen, Protecting, NotInTry
    <3>2. CASE Preflight
      BY <1>p, <3>2, GotoStep DEF Preflight, TrueSeen, Protecting, NotInTry, Places
    <3>3. CASE Anchor
      BY <1>p, <3>3, GotoStep DEF Anchor, TrueSeen, Protecting, NotInTry, Places, Outcome
    <3>4. CASE SubmitPreflight \/ Protect \/ Fence \/ Verify
      BY <1>p, <2>1, <3>4, GotoStep
      DEF SubmitPreflight, Protect, Fence, Verify, TrueSeen, Protecting, NotInTry, Places,
          broker_vars, Outcome
    <3> QED BY <1>1, <3>1, <3>2, <3>3, <3>4
  <2> QED BY <2>2, <2>3, <2>4
<1>2. CASE Claim
  <2>1. UNCHANGED <<broker_vars, backup, fence>>
    BY <1>2 DEF Claim
  <2>2. BrokerGoesOn /\ Requested'
    BY <2>1 DEF BrokerGoesOn, broker_vars, Requested
  <2>3. TrueRow(ledger)' /\ TrueRow(backup)'
    BY <1>2, <1>p, <2>1, <2>2, RowStaysTrue DEF Claim, TrueRow, Outcome
  <2>4. TrueSeen'
    BY <1>2, <1>p, GotoStep DEF Claim, TrueSeen, Protecting, NotInTry, Places
  <2> QED BY <2>2, <2>3, <2>4
<1>3. CASE SubmitAnswered \/ Lookup \/ CancelLookup \/ CancelVerified
  <2>1. UNCHANGED <<broker_vars, ledger, backup, fence>>
    BY <1>3 DEF SubmitAnswered, Lookup, CancelLookup, CancelVerified
  <2>2. BrokerGoesOn /\ Requested'
    BY <2>1 DEF BrokerGoesOn, broker_vars, Requested
  <2>3. TrueRow(ledger)' /\ TrueRow(backup)'
    BY <1>p, <2>1, <2>2, RowStaysTrue
  <2>4. process.candidate \in Candidates
    BY <1>3, <1>p DEF SubmitAnswered, Lookup, CancelLookup, CancelVerified, InCommand
  <2>5. PICK pc \in {"observed", "poll", "final", "cancel_pending", "cancel"} :
          See(Decoded(process.candidate), pc)
    BY <1>3 DEF SubmitAnswered, Lookup, CancelLookup, CancelVerified
  <2>6. /\ process'.pc = pc /\ process'.candidate = process.candidate
        /\ process'.seen = Decoded(process.candidate)
    BY <1>p, <2>4, <2>5, SeeStep, SeenTyped DEF Places
  <2>7. TrueSeen'
    BY <1>p, <2>1, <2>4, <2>6, OutcomeSeen DEF TrueSeen, Protecting, NotInTry, Outcome, broker_vars
  <2> QED BY <2>2, <2>3, <2>7
<1>4. CASE EntryObserved \/ Poll \/ CancelPending \/ Final \/ StopPending
           \/ EntryNotFilled \/ FilledProtected
  <2>1. UNCHANGED <<broker_vars, backup, fence>>
    BY <1>4 DEF EntryObserved, Poll, CancelPending, Final, StopPending, EntryNotFilled,
       FilledProtected
  <2>2. BrokerGoesOn /\ Requested'
    BY <2>1 DEF BrokerGoesOn, broker_vars, Requested
  <2>3. /\ process.pc \notin NotInTry /\ ledger.state \in Claimed
        /\ ledger.candidate = process.candidate
    BY <1>4, <1>p DEF EntryObserved, Poll, CancelPending, Final, StopPending, EntryNotFilled,
       FilledProtected, NotInTry, InCommand
  <2>4. PICK state \in Claimed :
          /\ Observed(state)
          /\ state = "ENTRY_NOT_FILLED" => process.seen \in {"cancelled", "rejected"}
          /\ state = "FILLED_PROTECTED" => process.pc = "verified"
    BY <1>4 DEF EntryObserved, Poll, CancelPending, Final, StopPending, EntryNotFilled,
       FilledProtected, Claimed, TERMINAL, DISPATCHED
  <2>5. /\ ledger'.state = state /\ ledger'.candidate = process.candidate
        /\ ledger'.entry = process.seen
    BY <1>p, <2>3, <2>4, ObservedStep
  <2>6. TrueRow(ledger)'
    BY <1>p, <2>1, <2>3, <2>4, <2>5
    DEF TrueRow, TrueSeen, Outcome, Protecting, Dispatches, broker_vars
  <2>7. TrueRow(backup)'
    BY <1>p, <2>1, <2>2, RowStaysTrue
  <2>8. TrueSeen'
    <3>1. CASE EntryNotFilled \/ FilledProtected
      BY <3>1, ReturnStep DEF EntryNotFilled, FilledProtected, TrueSeen, Protecting, NotInTry
    <3>2. CASE Poll
      <4>1. PICK pc \in {"final", "lookup"} :
              process' = [process EXCEPT !.pc = pc, !.polls = process.polls + 1]
        BY <3>2 DEF Poll
      <4>2. /\ process'.pc = pc /\ process'.candidate = process.candidate
            /\ process'.seen = process.seen
        BY <1>p, <4>1 DEF ProcessTypeOK
      <4> QED
        BY <2>1, <2>3, <4>2 DEF TrueSeen, Protecting, NotInTry, Outcome, broker_vars
    <3>3. CASE EntryObserved \/ CancelPending \/ Final
      BY <1>p, <2>1, <2>3, <3>3, GotoStep
      DEF EntryObserved, CancelPending, Final, TrueSeen, Protecting, NotInTry, Places, Outcome,
          broker_vars
    <3>4. CASE StopPending
      BY <1>p, <2>1, <2>3, <3>4, GotoStep
      DEF StopPending, TrueSeen, Protecting, NotInTry, Places, Outcome, broker_vars
    <3> QED BY <1>4, <3>1, <3>2, <3>3, <3>4
  <2> QED BY <2>2, <2>6, <2>7, <2>8
<1>5. CASE Submit \/ Cancel \/ PostStop
  <2>1. process.candidate \in Candidates
    BY <1>5, <1>p DEF Submit, Cancel, PostStop, InCommand
  <2>2. PICK k \in Kinds, pc \in {"submitted", "cancelling", "stop_posted"} :
          /\ Send(k, process.candidate) /\ Goto(pc) /\ sent[<<k, process.candidate>>] = 0
          /\ pc = "stop_posted" => process.pc \in Protecting
    BY <1>5, <1>p, <2>1
    DEF Submit, Cancel, PostStop, Kinds, Dispatches, BeforeBuy, BeforeCancel, Protecting
  <2>3. UNCHANGED <<order, stop>> /\ Requested'
    BY <1>p, <2>1, <2>2, SendRequested
  <2>4. UNCHANGED <<ledger, backup, fence>> /\ process.pc \notin NotInTry
    BY <1>5 DEF Submit, Cancel, PostStop, NotInTry
  <2>5. TrueRow(ledger)' /\ TrueRow(backup)'
    BY <1>p, <2>3, <2>4, RowStaysTrue DEF BrokerGoesOn
  <2>6. TrueSeen'
    BY <1>p, <2>2, <2>3, <2>4, GotoStep DEF TrueSeen, Protecting, NotInTry, Places, Outcome
  <2> QED BY <2>3, <2>5, <2>6
<1>6. CASE Raise
  <2>1. UNCHANGED <<broker_vars, backup, fence>>
    BY <1>6 DEF Raise
  <2>2. BrokerGoesOn /\ Requested'
    BY <2>1 DEF BrokerGoesOn, broker_vars, Requested
  <2>3. /\ ledger'.state = "QUARANTINED" /\ ledger'.candidate = ledger.candidate
        /\ ledger'.entry = ledger.entry
    BY <1>6, <1>p, RecordedStep DEF Raise, InCommand, NotInTry, Claimed, DISPATCHED
  <2>4. TrueRow(ledger)' /\ TrueRow(backup)'
    BY <1>p, <2>1, <2>2, <2>3, RowStaysTrue DEF TrueRow, Outcome, broker_vars
  <2>5. TrueSeen'
    BY <1>6, ReturnStep DEF Raise, TrueSeen, Protecting, NotInTry
  <2> QED BY <2>2, <2>4, <2>5
<1> QED BY <1>1, <1>2, <1>3, <1>4, <1>5, <1>6 DEF Command

(* So does every other step.                                               *)
LEMMA TruthElse ==
  ASSUME Safe, Truth,
         Start \/ Backup \/ LedgerLost \/ Restore \/ Outside \/ UNCHANGED vars
  PROVE  Truth'
<1> USE DEF At, Truth
<1>p. /\ TypeOK /\ BrokerTypeOK /\ ProcessTypeOK /\ ledger \in Ledgers
  BY DEF Safe, TypeOK, ProcessTypeOK
<1>1. CASE Outside
  <2>1. /\ Requested'
        /\ \A c \in Candidates :
             /\ order[c] \in {"fill", "cancelled", "rejected"} => order'[c] = order[c]
             /\ stop[c] # "none" => stop'[c] # "none"
    BY <1>1, <1>p, BrokerKeeps DEF Outside
  <2>2. BrokerGoesOn /\ UNCHANGED once_vars
    BY <1>1, <2>1 DEF BrokerGoesOn, Outside, once_vars
  <2>3. TrueRow(ledger)' /\ TrueRow(backup)'
    BY <1>p, <2>2, RowStaysTrue DEF once_vars
  <2>4. TrueSeen'
    <3>1. process.pc \notin NotInTry => process.candidate \in Candidates
      BY DEF Safe, InCommand, NotInTry
    <3>2. process.pc = "verified" => process.pc \notin NotInTry
      BY DEF NotInTry
    <3> QED BY <2>1, <2>2, <3>1, <3>2 DEF TrueSeen, Outcome, once_vars
  <2> QED BY <2>1, <2>3, <2>4
<1>2. CASE Backup \/ LedgerLost \/ Restore \/ UNCHANGED vars
  <2>1. UNCHANGED <<broker_vars, fence, process>>
    BY <1>2 DEF Backup, LedgerLost, Restore, vars, once_vars
  <2>2. ledger' \in {ledger, backup, NoRow("missing")} /\ backup' \in {ledger, backup}
    BY <1>2 DEF Backup, LedgerLost, Restore, vars, once_vars
  <2> QED
    BY <2>1, <2>2 DEF TrueRow, TrueSeen, Requested, Outcome, NoRow, broker_vars
<1>3. CASE Start
  <2>1. UNCHANGED <<broker_vars, backup, fence>>
    BY <1>3 DEF Start, InitCreates, Recover, Run
  <2>2. BrokerGoesOn /\ Requested'
    BY <2>1 DEF BrokerGoesOn, broker_vars, Requested
  <2>3. TrueRow(backup)'
    BY <1>p, <2>1, <2>2, RowStaysTrue
  <2>4. CASE InitCreates
    BY <1>p, <2>1, <2>2, <2>3, <2>4, GotoStep
    DEF InitCreates, NoRow, TrueRow, Outcome, TrueSeen, Protecting, NotInTry, Places
  <2>5. ASSUME NEW c \in Candidates, Run(c)
        PROVE  Truth'
    <3>1. UNCHANGED ledger /\ process'.pc = "preflight" /\ process'.seen = "none"
      BY <2>5 DEF Run, NoCommand
    <3>2. TrueSeen'
      BY <3>1 DEF TrueSeen, Protecting, NotInTry
    <3> QED BY <1>p, <2>2, <2>3, <3>1, <3>2, RowStaysTrue
  <2>6. CASE Recover
    <3>1. ledger.state \in Claimed /\ ledger.entry = "filled"
      BY <2>6 DEF Recover, Recoverable, Claimed
    <3>2. /\ ledger'.state = "STOP_PENDING" /\ ledger'.candidate = ledger.candidate
          /\ ledger'.entry = ledger.entry
      BY <2>6, <1>p, <3>1, RecordedStep DEF Recover, Claimed, DISPATCHED
    <3>3. /\ process'.pc = "protect" /\ process'.candidate = ledger.candidate
          /\ process'.seen = "filled"
      BY <2>6, <3>1 DEF Recover, NoCommand
    <3>4. TrueRow(ledger)' /\ TrueSeen'
      BY <2>1, <3>1, <3>2, <3>3
      DEF TrueRow, TrueSeen, Outcome, Protecting, NotInTry, broker_vars
    <3> QED BY <2>2, <2>3, <3>4
  <2> QED BY <1>3, <2>4, <2>5, <2>6 DEF Start
<1> QED BY <1>1, <1>2, <1>3

(* Rows, backups and what a command has read say what is so at the broker. *)
THEOREM TruthAlways == Spec => []Truth
<1>1. Safe /\ Truth /\ [Next]_vars => Truth'
  BY TruthCommand, TruthElse DEF Next
<1> QED BY <1>1, TruthInit, Safety, PTL DEF Spec

(* A row says the truth about its order and its stop, whichever backup it  *)
(* came from, and recover-stop accepts none whose stop was sent.           *)
THEOREM TrueLedger == Spec => []LedgerIsTrue
<1>1. Safe /\ Truth => LedgerIsTrue
  <2> SUFFICES ASSUME Safe, Truth PROVE LedgerIsTrue
    OBVIOUS
  <2>1. ledger.entry \in ENDED => Decoded(ledger.candidate) = ledger.entry
    BY DEF Truth, TrueRow, Outcome, ENDED, Decoded
  <2>2. Opens /\ Recoverable => \A d \in Candidates : sent[<<"stop", d>>] = 0
    BY DEF Opens, Recoverable, _check_anchor, Claimed, DISPATCHED, Safe, Dispatches
  <2> QED BY <2>1, <2>2 DEF Truth, TrueRow, LedgerIsTrue
<1> QED BY <1>1, Safety, TruthAlways, PTL

(* While no command runs, a lot that no stop ever protected is not reported*)
(* as a state that needs nobody.                                           *)
THEOREM ExposureIsSeen == Spec => []NoSilentExposure
<1>1. Safe /\ Truth => NoSilentExposure
  <2> SUFFICES ASSUME Safe, Truth, At("idle"),
                      NEW c \in Candidates, order[c] = "fill", stop[c] = "none",
                      Healthy
               PROVE  FALSE
    BY DEF NoSilentExposure
  <2>1. sent[<<"buy", c>>] > 0
    BY DEF Truth, Requested
  <2>2. anchor = c
    BY <2>1 DEF Safe, Dispatches, Kinds
  <2>3. ledger.state \in TERMINAL /\ ledger.candidate = c
    BY <2>2, NoCandidateAssumption DEF Healthy, Opens, _check_anchor, Claimed, TERMINAL, DISPATCHED
  <2> QED BY <2>3 DEF Truth, TrueRow, TERMINAL
<1> QED BY <1>1, Safety, TruthAlways, PTL

------------------------------------------------------------------------------
(* The refinement: how many requests of a kind were sent.                  *)
LEMMA TotalIs ==
  ASSUME Safe, NEW k \in Kinds
  PROVE  /\ (\A c \in Candidates : sent[<<k, c>>] = 0) => Total(k) = 0
         /\ ~ (\A c \in Candidates : sent[<<k, c>>] = 0) => Total(k) = 1
<1>1. \A c \in Candidates : sent[<<k, c>>] = 0 \/ sent[<<k, c>>] = 1
  <2> SUFFICES ASSUME NEW c \in Candidates PROVE sent[<<k, c>>] = 0 \/ sent[<<k, c>>] = 1
    OBVIOUS
  <2>1. <<k, c>> \in Requests
    BY DEF Requests
  <2>2. sent[<<k, c>>] \in 0..2 /\ sent[<<k, c>>] <= 1
    BY <2>1 DEF Safe, TypeOK, BrokerTypeOK, Dispatches
  <2> QED BY <2>2
<1>2. ASSUME NEW c \in Candidates, sent[<<k, c>>] # 0
      PROVE  \A d \in Candidates : sent[<<k, d>>] = IF d = c THEN 1 ELSE 0
  <2>1. \A d \in Candidates : sent[<<k, d>>] = 1 => d = anchor
    BY DEF Safe, Dispatches
  <2> QED BY <1>1, <1>2, <2>1
<1> QED BY <1>2 DEF Total

mapped == <<attempt, Total("buy"), filled, Total("stop")>>

(* A step that sends neither a BUY nor a stop, at an unchanged broker, is  *)
(* a step of the attempt only.                                             *)
LEMMA NothingSent ==
  ASSUME Safe, Safe', NEW k \in {"buy", "stop"},
         \A c \in Candidates : sent'[<<k, c>>] = sent[<<k, c>>]
  PROVE  Total(k)' = Total(k)
<1>1. k \in Kinds
  BY DEF Kinds
<1> QED BY <1>1 DEF Total

(* The first request of a kind makes their number one.                     *)
LEMMA FirstSent ==
  ASSUME NEW k \in Kinds, NEW c \in Candidates,
         \A d \in Candidates : sent[<<k, d>>] = 0,
         \A d \in Candidates : sent'[<<k, d>>] = IF d = c THEN 1 ELSE 0
  PROVE  Total(k) = 0 /\ Total(k)' = 1
<1>1. Total(k) = 0
  BY DEF Total
<1>2. ~ (\A d \in Candidates : sent'[<<k, d>>] = 0)
  <2>1. sent'[<<k, c>>] = 1
    OBVIOUS
  <2>2. SUFFICES ASSUME \A d \in Candidates : sent'[<<k, d>>] = 0 PROVE FALSE
    OBVIOUS
  <2>3. sent'[<<k, c>>] = 0
    BY <2>2
  <2> QED BY <2>1, <2>3
<1>3. \E d \in Candidates : \A e \in Candidates : sent'[<<k, e>>] = IF e = d THEN 1 ELSE 0
  OBVIOUS
<1>4. Total(k)' = 1
  BY <1>2, <1>3 DEF Total
<1> QED BY <1>1, <1>4

(* Every step is one of the attempt or changes nothing of it.              *)
LEMMA AttemptStep ==
  ASSUME Safe, Safe', Truth, [Next]_vars
  PROVE  [OneAttempt!Next]_mapped
<1> USE DEF mapped, OneAttempt!Next, At
<1>p. TypeOK /\ BrokerTypeOK /\ ProcessTypeOK /\ InCommand /\ Dispatches
  BY DEF Safe, TypeOK, ProcessTypeOK
<1>1. CASE Submit
  <2>1. process.candidate \in Candidates /\ process.candidate = anchor /\ anchor # NoCandidate
    BY <1>1, <1>p, NoCandidateAssumption DEF Submit, InCommand, NotInTry
  <2>2. \A k \in Kinds, c \in Candidates : sent[<<k, c>>] = 0
    BY <1>1, <1>p DEF Submit, Dispatches, BeforeBuy
  <2>3. /\ Send("buy", process.candidate) /\ Goto("submitted") /\ anchor' = anchor
        /\ order' = order
    BY <1>1 DEF Submit, Send
  <2>4. \A l \in Kinds, d \in Candidates :
          sent'[<<l, d>>] = IF l = "buy" /\ d = process.candidate THEN 1 ELSE sent[<<l, d>>]
    BY <1>p, <2>1, <2>2, <2>3, SendStep DEF Kinds
  <2>5. Total("buy") = 0 /\ Total("buy")' = 1
    <3>1. "buy" \in Kinds
      BY DEF Kinds
    <3>2. \A d \in Candidates : sent[<<"buy", d>>] = 0
      BY <2>2, <3>1
    <3>3. \A d \in Candidates :
            sent'[<<"buy", d>>] = IF d = process.candidate THEN 1 ELSE 0
      BY <2>4, <3>1, <3>2
    <3> QED BY <2>1, <3>1, <3>2, <3>3, FirstSent
  <2>6. Total("stop")' = Total("stop")
    BY <2>4, NothingSent DEF Kinds
  <2>7. attempt = "trying" /\ attempt' = "spent"
    BY <1>1, <1>p, <2>1, <2>3, GotoStep DEF Submit, attempt, Places
  <2>8. filled' = filled
    BY <2>3 DEF filled
  <2> QED BY <2>5, <2>6, <2>7, <2>8 DEF OneAttempt!Buy
<1>2. CASE PostStop
  <2>1. /\ process.candidate \in Candidates /\ process.candidate = anchor
        /\ anchor # NoCandidate
    BY <1>2, <1>p, NoCandidateAssumption DEF PostStop, InCommand, NotInTry
  <2>2. \A c \in Candidates : sent[<<"stop", c>>] = 0
    BY <1>2, <1>p DEF PostStop, Dispatches
  <2>3. /\ Send("stop", process.candidate) /\ Goto("stop_posted") /\ anchor' = anchor
        /\ order' = order
    BY <1>2 DEF PostStop, Send
  <2>4. \A l \in Kinds, d \in Candidates :
          sent'[<<l, d>>] = IF l = "stop" /\ d = process.candidate THEN 1 ELSE sent[<<l, d>>]
    BY <1>p, <2>1, <2>2, <2>3, SendStep DEF Kinds
  <2>5. Total("stop") = 0 /\ Total("stop")' = 1
    <3>1. "stop" \in Kinds
      BY DEF Kinds
    <3>2. \A d \in Candidates : sent[<<"stop", d>>] = 0
      BY <2>2, <3>1
    <3>3. \A d \in Candidates :
            sent'[<<"stop", d>>] = IF d = process.candidate THEN 1 ELSE 0
      BY <2>4, <3>1, <3>2
    <3> QED BY <2>1, <3>1, <3>2, <3>3, FirstSent
  <2>6. Total("buy")' = Total("buy")
    BY <2>4, NothingSent DEF Kinds
  <2>7. attempt = "spent" /\ attempt' = "spent"
    BY <1>2, <1>p, <2>1, <2>3, GotoStep DEF PostStop, attempt, Places
  <2>8. filled /\ filled' = filled
    BY <1>2, <2>1, <2>3 DEF PostStop, filled, Truth, TrueSeen, Outcome, Protecting, NotInTry
  <2> QED BY <2>5, <2>6, <2>7, <2>8 DEF OneAttempt!Stop
<1>3. CASE Outside
  <2>1. UNCHANGED once_vars /\ UNCHANGED sent
    BY <1>3, <1>p, BrokerStep DEF Outside
  <2>2. attempt' = attempt /\ Total("buy")' = Total("buy") /\ Total("stop")' = Total("stop")
    BY <2>1, NothingSent DEF attempt, once_vars
  <2>3. filled => filled'
    BY <1>3, <1>p, BrokerKeeps DEF Outside, filled
  <2>4. ASSUME ~ filled, filled' PROVE Total("buy") = 1
    <3>1. PICK c \in Candidates : order'[c] = "fill"
      BY <2>4 DEF filled
    <3>2. Requested'
      BY <1>3, <1>p, BrokerKeeps DEF Outside, Truth
    <3>3. sent[<<"buy", c>>] > 0
      BY <2>1, <3>1, <3>2 DEF Requested
    <3> QED BY <3>3, TotalIs DEF Kinds
  <2> QED BY <2>2, <2>3, <2>4 DEF OneAttempt!Fill, filled
<1>4. CASE Anchor
  <2>1. attempt = "armed" /\ attempt' = "trying"
    BY <1>4, <1>p, GotoStep, NoCandidateAssumption DEF Anchor, attempt, InCommand, Places
  <2>2. UNCHANGED <<Total("buy"), Total("stop"), filled>>
    BY <1>4, NothingSent DEF Anchor, broker_vars, filled
  <2> QED BY <2>1, <2>2 DEF OneAttempt!Claim
<1>5. CASE Raise \/ Kill
  <2>1. UNCHANGED <<broker_vars, anchor>> /\ process'.pc = "idle"
    BY <1>5, ReturnStep DEF Raise, Kill
  <2>2. UNCHANGED <<Total("buy"), Total("stop"), filled>>
    BY <2>1, NothingSent DEF broker_vars, filled
  <2>3. attempt' = attempt \/ (attempt = "trying" /\ attempt' = "spent")
    BY <2>1 DEF attempt
  <2> QED BY <2>2, <2>3 DEF OneAttempt!GiveUp
<1>6. CASE Cancel
  <2>1. process.candidate \in Candidates /\ sent[<<"cancel", process.candidate>>] = 0
    BY <1>6, <1>p DEF Cancel, InCommand, Dispatches, BeforeCancel
  <2>2. \A l \in Kinds, d \in Candidates : l # "cancel" => sent'[<<l, d>>] = sent[<<l, d>>]
    BY <1>6, <1>p, <2>1, SendStep DEF Cancel, Kinds
  <2>3. UNCHANGED <<Total("buy"), Total("stop"), filled>>
    BY <1>6, <2>2, NothingSent DEF Cancel, Send, Kinds, filled
  <2>4. attempt' = attempt
    BY <1>6, <1>p, GotoStep DEF Cancel, attempt, Places
  <2> QED BY <2>3, <2>4
<1>7. ASSUME UNCHANGED <<broker_vars, anchor>>,
             process.pc \in BeforeBuy <=> process'.pc \in BeforeBuy
      PROVE  UNCHANGED mapped
  <2>1. UNCHANGED <<Total("buy"), Total("stop"), filled>>
    BY <1>7, NothingSent DEF broker_vars, filled
  <2> QED BY <1>7, <2>1 DEF attempt, BeforeBuy
<1>8. CASE InitFills \/ Preflight \/ Claim \/ SubmitPreflight \/ EntryObserved
           \/ CancelPending \/ Final \/ StopPending \/ Protect \/ Fence \/ Verify
           \/ EntryNotFilled \/ FilledProtected \/ InitCreates
  <2>1. UNCHANGED <<broker_vars, anchor>>
    BY <1>8 DEF InitFills, Preflight, Claim, SubmitPreflight, EntryObserved, CancelPending,
       Final, StopPending, Protect, Fence, Verify, EntryNotFilled, FilledProtected, InitCreates
  <2>2. Return \/ \E pc \in Places : Goto(pc) /\ (process.pc \in BeforeBuy <=> pc \in BeforeBuy)
    BY <1>8 DEF InitFills, Preflight, Claim, SubmitPreflight, EntryObserved, CancelPending,
       Final, StopPending, Protect, Fence, Verify, EntryNotFilled, FilledProtected, InitCreates,
       Places, BeforeBuy
  <2>3. process.pc \in BeforeBuy => ~ Return \/ process'.pc # "idle"
    BY <1>8, <1>p, GotoStep
    DEF InitFills, Preflight, Claim, SubmitPreflight, EntryObserved, CancelPending,
       Final, StopPending, Protect, Fence, Verify, EntryNotFilled, FilledProtected, InitCreates,
       Places, BeforeBuy
  <2> QED BY <1>p, <1>7, <2>1, <2>2, <2>3, GotoStep, ReturnStep DEF BeforeBuy
<1>9. CASE SubmitAnswered \/ Lookup \/ CancelLookup \/ CancelVerified \/ Poll
  <2>1. UNCHANGED <<broker_vars, anchor>> /\ process.pc \notin BeforeBuy
    BY <1>9 DEF SubmitAnswered, Lookup, CancelLookup, CancelVerified, Poll, BeforeBuy
  <2>2. process'.pc \notin BeforeBuy
    BY <1>9, <1>p DEF SubmitAnswered, Lookup, CancelLookup, CancelVerified, Poll, BeforeBuy,
       See, ProcessTypeOK
  <2> QED BY <1>7, <2>1, <2>2
<1>10. CASE Backup \/ LedgerLost \/ Restore \/ Recover \/ UNCHANGED vars
  <2>1. /\ UNCHANGED <<broker_vars, anchor>>
        /\ UNCHANGED process \/ (process.pc = "idle" /\ process'.pc = "protect")
    BY <1>10 DEF Backup, LedgerLost, Restore, Recover, NoCommand, vars, once_vars
  <2> QED BY <1>7, <2>1 DEF BeforeBuy
<1>11. ASSUME NEW c \in Candidates, Run(c)
       PROVE  UNCHANGED mapped
  BY <1>7, <1>11 DEF Run, NoCommand, BeforeBuy
<1> QED
  BY <1>1, <1>2, <1>3, <1>4, <1>5, <1>6, <1>8, <1>9, <1>10, <1>11 DEF Next, Command, Start

(* The runner implements the one attempt it promises: claimed once, one    *)
(* BUY, and one stop after the fill, through kills and restored backups.   *)
THEOREM ImplementsOneShot == Spec => OneAttemptSpec
<1>1. Init => OneAttempt!Init
  BY SafeInit, TotalIs
  DEF Init, BrokerInit, OneAttempt!Init, attempt, filled, Total, Requests, Kinds
<1>2. Safe /\ Safe' /\ Truth /\ [Next]_vars => [OneAttempt!Next]_mapped
  BY AttemptStep
<1> QED
  BY <1>1, <1>2, Safety, TruthAlways, PTL DEF Spec, OneAttemptSpec, OneAttempt!Spec, mapped

(* For any number of signals, kills, losses and restorations: one attempt, *)
(* and a ledger that is true of it (long_auto_once.py:170-230).            *)
THEOREM AttemptStaysSafe == Spec => []AttemptIsSafe
<1>1. TypeOK /\ OneOfEach /\ LedgerIsTrue => AttemptIsSafe
  BY DEF AttemptIsSafe
<1> QED BY <1>1, TypeCorrect, OneOfEachSent, TrueLedger, PTL
==============================================================================
