--------------------------- MODULE ProdLongOnceProofs ---------------------------
(***************************************************************************)
(* Proofs about the single-use trade of ProdLongOnce, and about the        *)
(* observer and the capture of evidence beside it (MCBeside), for every    *)
(* set of candidates and every bound on the polls.                         *)
(***************************************************************************)
EXTENDS MCBeside, TLAPS

(* Where a command may be only when the fence of the BUY is on the disk.   *)
AfterBuyFence ==
  Places \ {"idle", "preflight", "claim", "prepare", "reserve", "gate", "buy_fence",
            "failed", "finish"}

(* A command has a candidate, and is past the BUY only behind its fence.   *)
InCommand ==
  /\ process.pc # "idle" => process.candidate \in Candidates
  /\ process.pc \in AfterBuyFence => "buy-dispatch" \in fences

(* The places where a request is sent are named like the request.          *)
Fence(kind) ==
  CASE kind = "buy" -> "buy-dispatch"
    [] kind = "cancel" -> "cancel-dispatch"
    [] kind = "stop" -> "stop-dispatch"

(* A fence is there before its request, which is sent once, for one        *)
(* candidate; none is sent before the fence, and none before the command   *)
(* that created it has come to the sending.                                *)
Dispatches ==
  \A k \in Kinds :
    /\ At(k) => Fence(k) \in fences
    /\ At(k) \/ Fence(k) \notin fences => \A c \in Candidates : sent[<<k, c>>] = 0
    /\ \A c \in Candidates : sent[<<k, c>>] <= 1
    /\ \A c, d \in Candidates : sent[<<k, c>>] > 0 /\ sent[<<k, d>>] > 0 => c = d

Safe == TypeOK /\ InCommand /\ Dispatches

(* A final status that was read, recorded or copied is the broker's.       *)
Honest(status, c) == status \in {"filled", "cancelled"} => Decoded(c) = status

TrueRows(rows) ==
  \A c \in Candidates :
    /\ Honest(rows.ledger[c], c)
    /\ rows.protection[c] \in {"UNVERIFIED", "ACTIVE"} => stop[c] # "none"

TrueReadings ==
  /\ Honest(process.seen, process.candidate)
  /\ process.candidate \in Candidates \/ process.seen = "absent"
  /\ Honest(reading.status, reading.candidate)
  /\ reading.candidate \in Candidates \/ reading.status = "absent"
  /\ process.pc \in {"stop_gate", "stop_fence", "stop"} => order[process.candidate] = "fill"

(* Nothing is at the broker that was not sent.                             *)
Requested ==
  \A c \in Candidates :
    /\ order[c] # "none" \/ <<"buy", c>> \in in_flight => sent[<<"buy", c>>] > 0
    /\ stop[c] # "none" \/ <<"stop", c>> \in in_flight => sent[<<"stop", c>>] > 0

Journals == [ledger |-> ledger, protection |-> protection]

Truth == TrueRows(Journals) /\ TrueRows(backup) /\ TrueReadings /\ Requested

------------------------------------------------------------------------------
(* What the state of the command, the rows and the requests are after an   *)
(* update.                                                                 *)
ProcessTypeOK ==
  process \in [command : {"none", "run", "recover"}, pc : Places,
               candidate : MaybeCandidate, seen : Statuses, polls : 0..MaxPolls]

(* The process goes to the next place and keeps what it holds.             *)
LEMMA GotoStep ==
  ASSUME ProcessTypeOK, NEW pc \in Places, Goto(pc)
  PROVE  /\ ProcessTypeOK'
         /\ process'.pc = pc /\ process'.candidate = process.candidate
         /\ process'.seen = process.seen /\ process'.command = process.command
BY DEF ProcessTypeOK, Goto

(* It goes on with a status that it has read.                              *)
LEMMA SeeStep ==
  ASSUME ProcessTypeOK, NEW pc \in Places, NEW seen \in Statuses, See(seen, pc)
  PROVE  /\ ProcessTypeOK'
         /\ process'.pc = pc /\ process'.candidate = process.candidate
         /\ process'.seen = seen
BY DEF ProcessTypeOK, See

(* It has read once more, within the deadline.                             *)
LEMMA PollStep ==
  ASSUME ProcessTypeOK, process.polls < MaxPolls, NEW seen \in Statuses,
         process' = [process EXCEPT !.pc = "record", !.seen = seen,
                                    !.polls = process.polls + 1]
  PROVE  /\ ProcessTypeOK'
         /\ process'.pc = "record" /\ process'.candidate = process.candidate
         /\ process'.seen = seen
<1>1. process.polls + 1 \in 0..MaxPolls
  BY PollsAssumption DEF ProcessTypeOK
<1> QED
  BY <1>1 DEF ProcessTypeOK, Places

(* It returns or raises, and holds nothing.                                *)
LEMMA ReturnStep ==
  ASSUME Return
  PROVE  ProcessTypeOK' /\ process'.pc = "idle" /\ process'.seen = "absent"
BY PollsAssumption DEF Return, NoCommand, ProcessTypeOK, Places, MaybeCandidate, Statuses

(* It starts with a candidate and has read nothing yet.                    *)
LEMMA StartStep ==
  ASSUME NEW c \in Candidates, NEW command \in {"run", "recover"}, NEW pc \in Places,
         Start(command, c, pc)
  PROVE  /\ ProcessTypeOK'
         /\ process'.pc = pc /\ process'.candidate = c /\ process'.seen = "absent"
BY PollsAssumption DEF Start, ProcessTypeOK, MaybeCandidate, Statuses

(* An order that is there is read as a status of a row.                    *)
LEMMA SeenTyped ==
  ASSUME BrokerTypeOK, NEW c \in Candidates, order[c] # "none"
  PROVE  Decoded(c) \in Statuses
BY DEF BrokerTypeOK, Decoded, Statuses, Pending, TERMINAL

(* A request that was not sent before is sent once.                        *)
LEMMA SendStep ==
  ASSUME BrokerTypeOK, NEW k \in Kinds, NEW c \in Candidates, sent[<<k, c>>] = 0, Send(k, c)
  PROVE  /\ BrokerTypeOK'
         /\ \A l \in Kinds, d \in Candidates :
              sent'[<<l, d>>] = IF l = k /\ d = c THEN 1 ELSE sent[<<l, d>>]
<1>1. <<k, c>> \in Requests
  BY DEF Requests
<1>2. /\ sent \in [Requests -> 0..2]
      /\ sent' = [sent EXCEPT ![<<k, c>>] = 1]
  BY <1>1 DEF BrokerTypeOK, Send
<1>3. BrokerTypeOK'
  BY <1>1, <1>2 DEF BrokerTypeOK, Send
<1>4. ASSUME NEW l \in Kinds, NEW d \in Candidates
      PROVE  sent'[<<l, d>>] = IF l = k /\ d = c THEN 1 ELSE sent[<<l, d>>]
  <2>1. <<l, d>> \in Requests
    BY DEF Requests
  <2> QED
    BY <1>1, <1>2, <2>1
<1> QED
  BY <1>3, <1>4

(* Nothing is claimed, fenced or sent at the start.                        *)
LEMMA SafeInit == Init => Safe
<1> SUFFICES ASSUME Init PROVE Safe
  OBVIOUS
<1> USE DEF Init, BrokerInit, NoRows, NoCommand, NoReading
<1>1. BrokerTypeOK
  BY DEF BrokerTypeOK, Requests
<1>2. TypeOK
  <2>1. /\ ledger \in [Candidates -> Statuses] /\ protection \in [Candidates -> Protections]
        /\ backup.ledger \in [Candidates -> Statuses]
        /\ backup.protection \in [Candidates -> Protections]
    BY DEF Statuses, Protections
  <2>2. /\ backup \in [ledger : [Candidates -> Statuses],
                       protection : [Candidates -> Protections]]
    BY <2>1
  <2>3. 0 \in 0..MaxPolls /\ "idle" \in Places /\ "absent" \in Statuses
    BY PollsAssumption DEF Places, Statuses
  <2> QED
    BY <1>1, <2>1, <2>2, <2>3 DEF TypeOK, MaybeCandidate
<1>3. InCommand
  BY DEF InCommand, AfterBuyFence
<1>4. \A k \in Kinds, c \in Candidates : sent[<<k, c>>] = 0
  BY DEF Requests
<1>5. Dispatches
  BY <1>4 DEF Dispatches, Kinds, At
<1> QED
  BY <1>2, <1>3, <1>5 DEF Safe

------------------------------------------------------------------------------
(* Steps of a command that neither create a fence of a request nor send.   *)
Moves ==
  \/ Preflight \/ CreateClaim \/ Prepare \/ Reserve \/ NotSubmitted \/ GatePassed
  \/ RecordSeen \/ WaitIsOver \/ CancelAnswered \/ NotFilled \/ Filled
  \/ ReserveStop \/ StopNotDispatched \/ StopGatePassed \/ StopUnknown \/ StopAnswered

Looks == LookupSubmitted \/ LookupFinal \/ ReadParent \/ Poll

Returns == StopVerified \/ Finish \/ Raise \/ Kill

(* A step that only writes the journals or goes on, between two requests.  *)
LEMMA MovesStep ==
  ASSUME Safe, Moves
  PROVE  /\ UNCHANGED <<broker_vars, fences, backup, reading>>
         /\ claim' \in MaybeCandidate
         /\ \E pc \in Places \ (Kinds \cup {"idle"}) :
              Goto(pc) /\ (pc \in AfterBuyFence => process.pc \in AfterBuyFence)
<1> USE DEF Safe, InCommand, At
<1>1. CASE Preflight \/ Reserve \/ NotSubmitted \/ GatePassed \/ WaitIsOver \/ NotFilled \/ Filled
  BY <1>1
  DEF Preflight, Reserve, NotSubmitted, GatePassed, WaitIsOver, NotFilled, Filled,
      Places, Kinds, AfterBuyFence, TypeOK
<1>2. CASE CreateClaim \/ Prepare
  BY <1>2 DEF CreateClaim, Prepare, Places, Kinds, AfterBuyFence, TypeOK, MaybeCandidate, me
<1>3. CASE RecordSeen
  <2>1. AfterRecord \in {"decide", "parent", "poll"}
    BY DEF AfterRecord
  <2> QED
    BY <1>3, <2>1 DEF RecordSeen, Places, Kinds, AfterBuyFence, TypeOK
<1>4. CASE CancelAnswered \/ StopNotDispatched \/ StopGatePassed \/ StopUnknown \/ StopAnswered
  BY <1>4
  DEF CancelAnswered, StopNotDispatched, StopGatePassed, StopUnknown, StopAnswered,
      Places, Kinds, AfterBuyFence, TypeOK
<1>5. CASE ReserveStop
  BY <1>5 DEF ReserveStop, Places, Kinds, AfterBuyFence, TypeOK
<1> QED
  BY <1>1, <1>2, <1>3, <1>4, <1>5 DEF Moves

(* A read changes nothing but what the process has seen.                   *)
LEMMA LooksStep ==
  ASSUME Safe, Looks
  PROVE  /\ UNCHANGED <<broker_vars, claim, fences, ledger, protection, backup, reading>>
         /\ ProcessTypeOK' /\ process'.candidate = process.candidate
         /\ process.pc \in AfterBuyFence
         /\ process'.pc \in Places \ (Kinds \cup {"idle"})
         /\ process'.seen = Decoded(process.candidate)
              \/ process'.seen = ledger[process.candidate]
<1> USE DEF Safe, InCommand, At, me
<1>p. ProcessTypeOK /\ BrokerTypeOK
  BY DEF TypeOK, ProcessTypeOK
<1>1. ASSUME NEW from \in {"submitted", "cancelled"}, NEW to \in {"record", "record_final"},
             Lookup(from, to)
      PROVE  /\ UNCHANGED <<broker_vars, claim, fences, ledger, protection, backup, reading>>
             /\ ProcessTypeOK' /\ process'.candidate = process.candidate
             /\ process.pc \in AfterBuyFence
             /\ process'.pc \in Places \ (Kinds \cup {"idle"})
             /\ process'.seen = Decoded(process.candidate)
  <2>1. process.candidate \in Candidates /\ process.pc \in AfterBuyFence
    BY <1>1 DEF Lookup, AfterBuyFence, Places
  <2>2. Decoded(process.candidate) \in Statuses
    BY <1>1, <1>p, <2>1, SeenTyped DEF Lookup, Placed
  <2>3. to \in Places \ (Kinds \cup {"idle"})
    BY DEF Places, Kinds
  <2> QED
    BY <1>1, <1>p, <2>1, <2>2, <2>3, SeeStep DEF Lookup
<1>2. CASE ReadParent
  <2>1. process.candidate \in Candidates /\ process.pc \in AfterBuyFence
    BY <1>2 DEF ReadParent, AfterBuyFence, Places
  <2>2. ledger[process.candidate] \in Statuses
    BY <2>1 DEF TypeOK
  <2>3. PICK pc \in {"decide", "poll"} : See(ledger[process.candidate], pc)
    BY <1>2 DEF ReadParent
  <2>4. pc \in Places \ (Kinds \cup {"idle"})
    BY DEF Places, Kinds
  <2> QED
    BY <1>2, <1>p, <2>1, <2>2, <2>3, <2>4, SeeStep DEF ReadParent
<1>3. CASE Poll
  <2>1. process.candidate \in Candidates /\ process.pc \in AfterBuyFence
    BY <1>3 DEF Poll, AfterBuyFence, Places
  <2>2. Decoded(process.candidate) \in Statuses
    BY <1>3, <1>p, <2>1, SeenTyped DEF Poll, Placed
  <2>3. process.polls < MaxPolls
        /\ process' = [process EXCEPT !.pc = "record", !.seen = Decoded(process.candidate),
                                      !.polls = process.polls + 1]
    BY <1>3 DEF Poll
  <2>4. "record" \in Places \ (Kinds \cup {"idle"})
    BY DEF Places, Kinds
  <2> QED
    BY <1>3, <1>p, <2>1, <2>2, <2>3, <2>4, PollStep DEF Poll
<1> QED
  BY <1>1, <1>2, <1>3 DEF Looks, LookupSubmitted, LookupFinal

(* A command that ends leaves at most its result behind.                   *)
LEMMA ReturnsStep ==
  ASSUME Safe, Returns
  PROVE  /\ UNCHANGED <<broker_vars, claim, ledger, backup, reading>>
         /\ fences \subseteq fences' /\ fences' \subseteq fences \cup {"result"}
         /\ \/ Return
            \/ Goto("finish") /\ At("reconcile")
         /\ \/ UNCHANGED protection
            \/ stop[me] = "active" /\ At("reconcile") /\ Protection("ACTIVE")
<1>1. CASE StopVerified
  BY <1>1 DEF StopVerified
<1>2. CASE Finish
  BY <1>2 DEF Finish
<1>3. CASE Raise
  BY <1>3 DEF Raise
<1>4. CASE Kill
  BY <1>4 DEF Kill
<1> QED
  BY <1>1, <1>2, <1>3, <1>4 DEF Returns

(* Fences are only added, and only by the places that send next.           *)
LEMMA QuietDispatches ==
  ASSUME Dispatches, UNCHANGED sent, fences \subseteq fences', process'.pc \notin Kinds
  PROVE  Dispatches'
BY DEF Dispatches, At, Kinds

(* A fence goes up before its request, which was not sent then.            *)
LEMMA FenceDispatches ==
  ASSUME Dispatches, UNCHANGED sent, NEW k \in Kinds,
         Fence(k) \notin fences, fences' = fences \cup {Fence(k)}, process'.pc = k
  PROVE  Dispatches'
<1>1. \A l \in Kinds : l # k => process'.pc # l
  OBVIOUS
<1> QED
  BY <1>1 DEF Dispatches, At

(* A request leaves behind its fence, and for the first time.              *)
LEMMA SendDispatches ==
  ASSUME Dispatches, BrokerTypeOK, NEW k \in Kinds, NEW c \in Candidates,
         At(k), Send(k, c), UNCHANGED fences, process'.pc \notin Kinds
  PROVE  BrokerTypeOK' /\ Dispatches'
<1>1. Fence(k) \in fences /\ \A d \in Candidates : sent[<<k, d>>] = 0
  BY DEF Dispatches
<1>2. /\ BrokerTypeOK'
      /\ \A l \in Kinds, d \in Candidates :
           sent'[<<l, d>>] = IF l = k /\ d = c THEN 1 ELSE sent[<<l, d>>]
  BY <1>1, SendStep
<1>3. ASSUME NEW l \in Kinds, l # k
      PROVE  /\ Fence(l) \notin fences' => \A d \in Candidates : sent'[<<l, d>>] = 0
             /\ \A d \in Candidates : sent'[<<l, d>>] <= 1
             /\ \A d, e \in Candidates : sent'[<<l, d>>] > 0 /\ sent'[<<l, e>>] > 0 => d = e
  BY <1>2, <1>3 DEF Dispatches
<1>4. /\ Fence(k) \in fences'
      /\ \A d \in Candidates : sent'[<<k, d>>] <= 1
      /\ \A d, e \in Candidates : sent'[<<k, d>>] > 0 /\ sent'[<<k, e>>] > 0 => d = e
  BY <1>1, <1>2
<1>5. \A l \in Kinds : ~ At(l)'
  BY DEF At
<1> QED
  BY <1>2, <1>3, <1>4, <1>5 DEF Dispatches

(* Every step of the command keeps the fences and the counts.              *)
LEMMA SafeCommand ==
  ASSUME Safe, Command
  PROVE  Safe'
<1> USE DEF Safe
<1>p. /\ ProcessTypeOK /\ BrokerTypeOK /\ InCommand /\ Dispatches
      /\ ledger \in [Candidates -> Statuses] /\ protection \in [Candidates -> Protections]
      /\ fences \subseteq Fences
  BY DEF TypeOK, ProcessTypeOK
<1>1. CASE Moves
  <2>1. PICK pc \in Places \ (Kinds \cup {"idle"}) :
          Goto(pc) /\ (pc \in AfterBuyFence => process.pc \in AfterBuyFence)
    BY <1>1, MovesStep
  <2>2. /\ UNCHANGED <<broker_vars, fences, backup, reading>> /\ claim' \in MaybeCandidate
    BY <1>1, MovesStep
  <2>3. /\ ProcessTypeOK' /\ process'.pc = pc /\ process'.candidate = process.candidate
    BY <1>p, <2>1, GotoStep
  <2>4. ~ At("idle")
    BY <1>1
    DEF Moves, Preflight, CreateClaim, Prepare, Reserve, NotSubmitted, GatePassed, RecordSeen,
        WaitIsOver, CancelAnswered, NotFilled, Filled, ReserveStop, StopNotDispatched,
        StopGatePassed, StopUnknown, StopAnswered, At
  <2>5. ledger' \in [Candidates -> Statuses]
    <3>1. process.seen \in Statuses /\ "request_pending" \in Statuses /\ "rejected" \in Statuses
      BY <1>p DEF ProcessTypeOK, Statuses, Pending, TERMINAL
    <3>2. UNCHANGED ledger \/ Recorded("request_pending") \/ Recorded("rejected")
            \/ Recorded(process.seen)
      BY <1>1
      DEF Moves, Preflight, CreateClaim, Prepare, Reserve, NotSubmitted, GatePassed, RecordSeen,
          WaitIsOver, CancelAnswered, NotFilled, Filled, ReserveStop, StopNotDispatched,
          StopGatePassed, StopUnknown, StopAnswered
    <3> QED
      BY <1>p, <3>1, <3>2 DEF Recorded
  <2>6. protection' \in [Candidates -> Protections]
    <3>1. UNCHANGED protection \/ \E state \in Protections : Protection(state)
      BY <1>1
      DEF Moves, Preflight, CreateClaim, Prepare, Reserve, NotSubmitted, GatePassed, RecordSeen,
          WaitIsOver, CancelAnswered, NotFilled, Filled, ReserveStop, StopNotDispatched,
          StopGatePassed, StopUnknown, StopAnswered, Protections
    <3> QED
      BY <1>p, <3>1 DEF Protection
  <2>7. TypeOK'
    BY <2>2, <2>3, <2>5, <2>6 DEF TypeOK, ProcessTypeOK, broker_vars, BrokerTypeOK
  <2>8. InCommand'
    BY <1>p, <2>1, <2>2, <2>3, <2>4 DEF InCommand, At
  <2>9. Dispatches'
    BY <1>p, <2>1, <2>2, <2>3, QuietDispatches DEF broker_vars
  <2> QED
    BY <2>7, <2>8, <2>9
<1>2. CASE Looks
  <2>1. /\ UNCHANGED <<broker_vars, claim, fences, ledger, protection, backup, reading>>
        /\ ProcessTypeOK' /\ process'.candidate = process.candidate
        /\ process.pc \in AfterBuyFence
        /\ process'.pc \in Places \ (Kinds \cup {"idle"})
    BY <1>2, LooksStep
  <2>2. TypeOK'
    BY <2>1 DEF TypeOK, ProcessTypeOK, broker_vars, BrokerTypeOK
  <2>3. InCommand'
    BY <1>p, <2>1 DEF InCommand, AfterBuyFence
  <2>4. Dispatches'
    BY <1>p, <2>1, QuietDispatches DEF broker_vars
  <2> QED
    BY <2>2, <2>3, <2>4
<1>3. CASE Returns
  <2>1. /\ UNCHANGED <<broker_vars, claim, ledger, backup, reading>>
        /\ fences \subseteq fences' /\ fences' \subseteq Fences
    BY <1>p, <1>3, ReturnsStep DEF Fences
  <2>2. Return \/ (Goto("finish") /\ At("reconcile"))
    BY <1>3, ReturnsStep
  <2>3. UNCHANGED protection \/ Protection("ACTIVE")
    BY <1>3, ReturnsStep
  <2>4. protection' \in [Candidates -> Protections]
    BY <1>p, <2>3 DEF Protection, Protections
  <2>5. /\ ProcessTypeOK' /\ process'.pc \notin Kinds
        /\ process'.pc # "idle" => process'.candidate \in Candidates
        /\ process'.pc \notin AfterBuyFence
    <3>1. "finish" \in Places
      BY DEF Places
    <3> QED
      BY <1>p, <2>2, <3>1, GotoStep, ReturnStep DEF Kinds, InCommand, At, AfterBuyFence
  <2>6. TypeOK'
    BY <2>1, <2>4, <2>5 DEF TypeOK, ProcessTypeOK, broker_vars, BrokerTypeOK
  <2>7. InCommand'
    BY <2>5 DEF InCommand
  <2>8. Dispatches'
    BY <1>p, <2>1, <2>5, QuietDispatches DEF broker_vars
  <2> QED
    BY <2>6, <2>7, <2>8
<1>4. CASE BuyFence \/ CancelFence \/ StopFence
  <2>1. PICK k \in Kinds :
          /\ dispatch(Fence(k)) /\ Goto(k) /\ ~ At("idle")
          /\ k # "buy" => process.pc \in AfterBuyFence
          /\ UNCHANGED <<broker_vars, claim, ledger, protection, backup, reading>>
    <3>1. CASE BuyFence
      <4>1. Fence("buy") = "buy-dispatch" /\ "buy" \in Kinds
        BY DEF Fence, Kinds
      <4> QED
        BY <3>1, <4>1 DEF BuyFence, At
    <3>2. CASE CancelFence
      <4>1. Fence("cancel") = "cancel-dispatch" /\ "cancel" \in Kinds
        BY DEF Fence, Kinds
      <4> QED
        BY <3>2, <4>1 DEF CancelFence, At, AfterBuyFence, Places
    <3>3. CASE StopFence
      <4>1. Fence("stop") = "stop-dispatch" /\ "stop" \in Kinds
        BY DEF Fence, Kinds
      <4> QED
        BY <3>3, <4>1 DEF StopFence, At, AfterBuyFence, Places
    <3> QED
      BY <1>4, <3>1, <3>2, <3>3
  <2>2. k \in Places
    BY DEF Kinds, Places
  <2>3. /\ ProcessTypeOK' /\ process'.pc = k /\ process'.candidate = process.candidate
    BY <1>p, <2>1, <2>2, GotoStep
  <2>4. /\ Fence(k) \notin fences /\ fences' = fences \cup {Fence(k)} /\ fences' \subseteq Fences
    BY <1>p, <2>1 DEF dispatch, Fence, Fences, Kinds
  <2>5. TypeOK'
    BY <2>1, <2>3, <2>4 DEF TypeOK, ProcessTypeOK, broker_vars, BrokerTypeOK
  <2>6. InCommand'
    <3>1. k = "buy" => "buy-dispatch" \in fences'
      BY <2>4 DEF Fence
    <3> QED
      BY <1>p, <2>1, <2>3, <2>4, <3>1 DEF InCommand, At
  <2>7. Dispatches'
    BY <1>p, <2>1, <2>3, <2>4, FenceDispatches DEF broker_vars
  <2> QED
    BY <2>5, <2>6, <2>7
<1>5. CASE Submit \/ PostStop \/ (Cancel /\ Send("cancel", me))
  <2>1. PICK k \in Kinds :
          /\ At(k) /\ Send(k, me)
          /\ \E pc \in {"submitted", "stop_posted", "cancelling"} : Goto(pc)
    <3>1. "buy" \in Kinds /\ "stop" \in Kinds /\ "cancel" \in Kinds
      BY DEF Kinds
    <3>2. CASE Submit
      BY <3>1, <3>2 DEF Submit
    <3>3. CASE PostStop
      BY <3>1, <3>3 DEF PostStop
    <3>4. CASE Cancel /\ Send("cancel", me)
      <4>1. Goto("cancelling")
        BY <3>4 DEF Cancel, broker_vars, Send, me, Safe, Dispatches, Kinds, TypeOK, BrokerTypeOK, Requests
      <4> QED
        BY <3>1, <3>4, <4>1 DEF Cancel
    <3> QED
      BY <1>5, <3>2, <3>3, <3>4
  <2>2. PICK pc \in {"submitted", "stop_posted", "cancelling"} : Goto(pc)
    BY <2>1
  <2>3. pc \in Places /\ pc \notin Kinds
    BY DEF Places, Kinds
  <2>4. /\ ProcessTypeOK' /\ process'.pc = pc /\ process'.candidate = process.candidate
    BY <1>p, <2>2, <2>3, GotoStep
  <2>5. UNCHANGED <<claim, fences, ledger, protection, backup, reading>>
    BY <1>5 DEF Submit, PostStop, Cancel
  <2>6. process.pc \in AfterBuyFence /\ me \in Candidates
    BY <1>p, <2>1 DEF At, Kinds, AfterBuyFence, Places, InCommand, me
  <2>7. BrokerTypeOK' /\ Dispatches'
    BY <1>p, <2>1, <2>3, <2>4, <2>5, <2>6, SendDispatches
  <2>8. TypeOK'
    BY <2>4, <2>5, <2>7 DEF TypeOK, ProcessTypeOK
  <2>9. InCommand'
    BY <1>p, <2>4, <2>5, <2>6 DEF InCommand, me
  <2> QED
    BY <2>7, <2>8, <2>9
<1>6. CASE Cancel /\ Goto("cancelled") /\ UNCHANGED broker_vars
  <2>1. "cancelled" \in Places /\ "cancelled" \notin Kinds
    BY DEF Places, Kinds
  <2>2. /\ ProcessTypeOK' /\ process'.pc = "cancelled" /\ process'.candidate = process.candidate
    BY <1>p, <1>6, <2>1, GotoStep
  <2>3. UNCHANGED <<claim, fences, ledger, protection, backup, reading>>
    BY <1>6 DEF Cancel
  <2>4. process.pc \in AfterBuyFence
    BY <1>6 DEF Cancel, At, AfterBuyFence, Places
  <2>5. TypeOK'
    BY <1>6, <2>2, <2>3 DEF TypeOK, ProcessTypeOK, broker_vars, BrokerTypeOK
  <2>6. InCommand'
    BY <1>p, <2>2, <2>3, <2>4 DEF InCommand, AfterBuyFence
  <2>7. Dispatches'
    BY <1>p, <1>6, <2>1, <2>2, <2>3, QuietDispatches DEF broker_vars
  <2> QED
    BY <2>5, <2>6, <2>7
<1> QED
  BY <1>1, <1>2, <1>3, <1>4, <1>5, <1>6 DEF Command, Moves, Looks, Returns, Cancel

(* A run or a recovery begins without touching fences or requests.         *)
LEMMA SafeStart ==
  ASSUME Safe, NEW c \in Candidates, Run(c) \/ Recover(c)
  PROVE  Safe'
<1> USE DEF Safe
<1>1. /\ UNCHANGED <<broker_vars, claim, fences, ledger, protection, backup, reading>>
      /\ \/ Start("run", c, "preflight")
         \/ Start("recover", c, "activate") /\ "buy-dispatch" \in fences
  BY DEF Run, Recover, Recoverable
<1>2. /\ ProcessTypeOK' /\ process'.candidate = c
      /\ process'.pc \in {"preflight", "activate"}
      /\ process'.pc = "activate" => "buy-dispatch" \in fences
  <2>1. "preflight" \in Places /\ "activate" \in Places
    BY DEF Places
  <2> QED
    BY <1>1, <2>1, StartStep
<1>3. TypeOK'
  BY <1>1, <1>2 DEF TypeOK, ProcessTypeOK, broker_vars, BrokerTypeOK
<1>4. InCommand'
  BY <1>1, <1>2 DEF InCommand, AfterBuyFence
<1>5. Dispatches'
  BY <1>1, <1>2, QuietDispatches DEF broker_vars, Kinds
<1> QED
  BY <1>3, <1>4, <1>5

(* The broker sends nothing.                                               *)
LEMMA BrokerStep ==
  ASSUME BrokerTypeOK, Broker
  PROVE  BrokerTypeOK' /\ UNCHANGED sent
<1> USE DEF BrokerTypeOK
<1>1. ASSUME NEW c \in Candidates,
             DeliverBuy(c) \/ DeliverCancel(c) \/ OrderEnds(c)
      PROVE  BrokerTypeOK' /\ UNCHANGED sent
  BY <1>1 DEF DeliverBuy, DeliverCancel, OrderEnds
<1>2. ASSUME NEW c \in Candidates,
             DeliverStop(c) \/ StopTriggers(c) \/ ChildEnds(c)
      PROVE  BrokerTypeOK' /\ UNCHANGED sent
  BY <1>2 DEF DeliverStop, StopTriggers, ChildEnds
<1>3. ASSUME NEW r \in Requests, Lose(r)
      PROVE  BrokerTypeOK' /\ UNCHANGED sent
  BY <1>3 DEF Lose
<1> QED
  BY <1>1, <1>2, <1>3 DEF Broker

(* What happens while no command moves: the journals are copied, restored  *)
(* and reconciled, the claim is lost, the broker goes on.                  *)
Apart ==
  \/ Backup \/ Restore \/ ClaimLost \/ ReconcileRecord
  \/ \E c \in Candidates : ReconcileLookup(c)

(* What the unlocked reconcile has read is a status of a row.              *)
LEMMA ReadingTyped ==
  ASSUME Safe, NEW c \in Candidates, ReconcileLookup(c)
  PROVE  reading' \in [candidate : MaybeCandidate, status : Statuses]
<1>1. PICK status \in {"unknown"} \cup (IF order[c] = "none" THEN {} ELSE {Decoded(c)}) :
        reading' = [candidate |-> c, status |-> status]
  BY DEF ReconcileLookup
<1>2. status \in Statuses
  BY <1>1, SeenTyped DEF Statuses, Pending, Safe, TypeOK
<1> QED
  BY <1>1, <1>2 DEF MaybeCandidate

(* So do the steps beside the command: kills, backups, restorations, the   *)
(* unlocked reconcile and the broker.                                      *)
LEMMA SafeApart ==
  ASSUME Safe, Apart \/ Outside \/ UNCHANGED vars
  PROVE  Safe'
<1> USE DEF Safe
<1>1. UNCHANGED <<fences, process>> /\ BrokerTypeOK' /\ UNCHANGED sent
  BY BrokerStep
  DEF Apart, Backup, Restore, ClaimLost, ReconcileLookup, ReconcileRecord, Outside, vars,
      once_vars, broker_vars, TypeOK, BrokerTypeOK
<1>2. TypeOK'
  <2>1. CASE \E c \in Candidates : ReconcileLookup(c)
    BY <1>1, <2>1, ReadingTyped DEF ReconcileLookup, TypeOK
  <2>2. CASE ReconcileRecord
    BY <1>1, <2>2 DEF ReconcileRecord, TypeOK, NoReading, MaybeCandidate, Statuses
  <2>3. CASE Backup
    <3>1. backup' \in [ledger : [Candidates -> Statuses], protection : [Candidates -> Protections]]
      BY <2>3 DEF Backup, TypeOK
    <3> QED
      BY <1>1, <2>3, <3>1 DEF Backup, TypeOK
  <2>4. CASE Restore
    <3>1. NoRows \in [ledger : [Candidates -> Statuses], protection : [Candidates -> Protections]]
      BY DEF NoRows, Statuses, Protections
    <3>2. /\ ledger' \in [Candidates -> Statuses]
          /\ protection' \in [Candidates -> Protections]
      BY <2>4, <3>1 DEF Restore, TypeOK
    <3> QED
      BY <1>1, <2>4, <3>2 DEF Restore, TypeOK
  <2>5. CASE ClaimLost
    BY <1>1, <2>5 DEF ClaimLost, TypeOK, MaybeCandidate
  <2>6. CASE Outside \/ UNCHANGED vars
    BY <1>1, <2>6 DEF Outside, vars, once_vars, TypeOK
  <2> QED
    BY <2>1, <2>2, <2>3, <2>4, <2>5, <2>6 DEF Apart
<1>3. InCommand' /\ Dispatches'
  BY <1>1 DEF InCommand, Dispatches, At
<1> QED
  BY <1>2, <1>3

(* No step spoils the types, the fences or the requests.                   *)
LEMMA SafeStep == Safe /\ [Next]_vars => Safe'
BY SafeCommand, SafeStart, SafeApart DEF Next, Apart

(* Types, fences and requests, by induction.                               *)
THEOREM Safety == Spec => []Safe
BY SafeInit, SafeStep, PTL DEF Spec

(* Whatever is killed, restored, lost and reconciled: one BUY, and one stop*)
(* and one cancellation for it (prod_long_once.py:86-103).                 *)
THEOREM OneOfEachSent == Spec => []OneOfEach
<1>1. Safe => OneOfEach
  <2> SUFFICES ASSUME Safe PROVE OneOfEach
    OBVIOUS
  <2>1. ASSUME NEW r \in Requests PROVE sent[r] <= 1
    <3>1. PICK k \in Kinds, c \in Candidates : r = <<k, c>>
      BY <2>1 DEF Requests
    <3> QED
      BY <3>1 DEF Safe, Dispatches
  <2> QED
    BY <2>1 DEF OneOfEach, Safe, Dispatches
<1> QED
  BY <1>1, Safety, PTL

------------------------------------------------------------------------------
(* What the rows say stays true.                                           *)
LEMMA TruthInit == Init => Truth
<1> SUFFICES ASSUME Init PROVE Truth
  OBVIOUS
<1> USE DEF Init, BrokerInit, NoRows, NoCommand, NoReading
<1>1. TrueRows(Journals) /\ TrueRows(backup)
  BY DEF TrueRows, Journals, Honest
<1>2. TrueReadings
  BY DEF TrueReadings, Honest
<1>3. Requested
  BY DEF Requested
<1> QED
  BY <1>1, <1>2, <1>3 DEF Truth

(* A row that is written with what was read, and a protection with what    *)
(* was listed, leave both journals true.                                   *)
LEMMA RowsKept ==
  ASSUME TypeOK, UNCHANGED <<order, stop, backup>>, TrueRows(Journals), TrueRows(backup),
         UNCHANGED ledger \/ \E status : Recorded(status) /\ Honest(status, me),
         UNCHANGED protection
           \/ \E state : Protection(state)
                           /\ (state \in {"UNVERIFIED", "ACTIVE"} => stop[me] # "none")
  PROVE  TrueRows(Journals)' /\ TrueRows(backup)'
<1>1. \A status, c : Honest(status, c)' = Honest(status, c)
  BY DEF Honest, Decoded
<1>2. TrueRows(backup)'
  BY <1>1 DEF TrueRows
<1>3. ASSUME NEW c \in Candidates PROVE Honest(ledger'[c], c)
  BY <1>3 DEF TrueRows, Journals, Recorded, TypeOK
<1>4. ASSUME NEW c \in Candidates, protection'[c] \in {"UNVERIFIED", "ACTIVE"}
      PROVE  stop[c] # "none"
  BY <1>4 DEF TrueRows, Journals, Protection, TypeOK
<1> QED
  BY <1>1, <1>2, <1>3, <1>4 DEF TrueRows, Journals

(* A first request is in flight, and was not placed.                       *)
LEMMA SendRequested ==
  ASSUME BrokerTypeOK, Requested, NEW k \in Kinds, NEW c \in Candidates,
         sent[<<k, c>>] = 0, Send(k, c)
  PROVE  Requested'
<1>1. /\ \A l \in Kinds, d \in Candidates :
           sent'[<<l, d>>] = IF l = k /\ d = c THEN 1 ELSE sent[<<l, d>>]
      /\ UNCHANGED <<order, stop>> /\ in_flight' = in_flight \cup {<<k, c>>}
  BY SendStep DEF Send
<1>2. "buy" \in Kinds /\ "stop" \in Kinds
  BY DEF Kinds
<1>3. ASSUME NEW d \in Candidates,
             order[d] # "none" \/ <<"buy", d>> \in in_flight \cup {<<k, c>>}
      PROVE  sent'[<<"buy", d>>] > 0
  <2>1. CASE <<"buy", d>> = <<k, c>>
    <3>1. k = "buy" /\ d = c
      BY <2>1
    <3>2. sent'[<<"buy", d>>] = 1
      BY <1>1, <1>2, <3>1
    <3> QED
      BY <3>2
  <2>2. CASE <<"buy", d>> # <<k, c>>
    <3>1. sent[<<"buy", d>>] > 0
      BY <1>3, <2>2 DEF Requested
    <3>2. sent'[<<"buy", d>>] = 1 \/ sent'[<<"buy", d>>] = sent[<<"buy", d>>]
      BY <1>1, <1>2
    <3> QED
      BY <3>1, <3>2
  <2> QED
    BY <2>1, <2>2
<1>4. ASSUME NEW d \in Candidates,
             stop[d] # "none" \/ <<"stop", d>> \in in_flight \cup {<<k, c>>}
      PROVE  sent'[<<"stop", d>>] > 0
  <2>1. CASE <<"stop", d>> = <<k, c>>
    <3>1. k = "stop" /\ d = c
      BY <2>1
    <3>2. sent'[<<"stop", d>>] = 1
      BY <1>1, <1>2, <3>1
    <3> QED
      BY <3>2
  <2>2. CASE <<"stop", d>> # <<k, c>>
    <3>1. sent[<<"stop", d>>] > 0
      BY <1>4, <2>2 DEF Requested
    <3>2. sent'[<<"stop", d>>] = 1 \/ sent'[<<"stop", d>>] = sent[<<"stop", d>>]
      BY <1>1, <1>2
    <3> QED
      BY <3>1, <3>2
  <2> QED
    BY <2>1, <2>2
<1> QED
  BY <1>1, <1>3, <1>4 DEF Requested

(* A command touches neither the orders nor the backup.                    *)
LEMMA CommandRequested ==
  ASSUME Safe, Requested, Command
  PROVE  Requested' /\ UNCHANGED <<order, stop, backup, reading>>
<1> USE DEF Safe
<1>1. CASE Moves \/ Looks \/ Returns \/ BuyFence \/ CancelFence \/ StopFence
  <2>1. UNCHANGED <<broker_vars, backup, reading>>
    BY <1>1, MovesStep, LooksStep, ReturnsStep DEF BuyFence, CancelFence, StopFence
  <2> QED
    BY <2>1 DEF broker_vars, Requested
<1>2. CASE Submit \/ Cancel \/ PostStop
  <2>1. \/ UNCHANGED broker_vars
        \/ \E k \in Kinds : At(k) /\ Send(k, me)
    BY <1>2 DEF Submit, Cancel, PostStop, Kinds
  <2>2. UNCHANGED <<backup, reading>>
    BY <1>2 DEF Submit, Cancel, PostStop
  <2>3. CASE UNCHANGED broker_vars
    BY <2>2, <2>3 DEF broker_vars, Requested
  <2>4. ASSUME NEW k \in Kinds, At(k), Send(k, me)
        PROVE  Requested' /\ UNCHANGED <<order, stop>>
    <3>1. me \in Candidates
      BY <2>4 DEF InCommand, At, Kinds, me
    <3>2. sent[<<k, me>>] = 0
      BY <2>4, <3>1 DEF Dispatches
    <3> QED
      BY <2>4, <3>1, <3>2, SendRequested DEF TypeOK, Send
  <2> QED
    BY <2>1, <2>2, <2>3, <2>4
<1> QED
  BY <1>1, <1>2 DEF Command, Moves, Looks, Returns

(* It keeps the journals true.                                             *)
LEMMA CommandRows ==
  ASSUME Safe, Truth, Command
  PROVE  TrueRows(Journals)' /\ TrueRows(backup)'
<1> USE DEF Truth
<1>1. UNCHANGED <<order, stop, backup>>
  BY CommandRequested
<1>2. UNCHANGED ledger \/ \E status : Recorded(status) /\ Honest(status, me)
  <2>1. CASE Reserve \/ NotSubmitted
    BY <2>1 DEF Reserve, NotSubmitted, Honest
  <2>2. CASE RecordSeen
    BY <2>2 DEF RecordSeen, TrueReadings, me
  <2>3. CASE ~ (Reserve \/ NotSubmitted \/ RecordSeen)
    BY <2>3
    DEF Command, Preflight, CreateClaim, Prepare, GatePassed, BuyFence, Submit,
        LookupSubmitted, Lookup, ReadParent, Poll, WaitIsOver, CancelFence, Cancel,
        CancelAnswered, LookupFinal, NotFilled, Filled, ReserveStop, StopNotDispatched,
        StopGatePassed, StopFence, PostStop, StopUnknown, StopAnswered, StopVerified,
        Finish, Raise, Kill
  <2> QED
    BY <2>1, <2>2, <2>3
<1>3. \/ UNCHANGED protection
      \/ \E state : Protection(state)
                      /\ (state \in {"UNVERIFIED", "ACTIVE"} => stop[me] # "none")
  <2>1. CASE Prepare
    BY <2>1 DEF Prepare
  <2>2. CASE ReserveStop \/ StopNotDispatched \/ StopUnknown
    BY <2>2 DEF ReserveStop, StopNotDispatched, StopUnknown
  <2>3. CASE StopAnswered \/ StopVerified
    BY <2>3 DEF StopAnswered, StopVerified
  <2>4. CASE ~ (Prepare \/ ReserveStop \/ StopNotDispatched \/ StopUnknown \/ StopAnswered
                  \/ StopVerified)
    BY <2>4
    DEF Command, Preflight, CreateClaim, Reserve, NotSubmitted, GatePassed, BuyFence, Submit,
        LookupSubmitted, Lookup, RecordSeen, ReadParent, Poll, WaitIsOver, CancelFence, Cancel,
        CancelAnswered, LookupFinal, NotFilled, Filled, StopGatePassed, StopFence, PostStop,
        Finish, Raise, Kill
  <2> QED
    BY <2>1, <2>2, <2>3, <2>4
<1> QED
  BY <1>1, <1>2, <1>3, RowsKept DEF Safe

(* It keeps what it and the reconcile have read true.                      *)
LEMMA CommandReadings ==
  ASSUME Safe, Truth, Command
  PROVE  TrueReadings'
<1> USE DEF Truth, Safe
<1>p. /\ ProcessTypeOK /\ BrokerTypeOK /\ UNCHANGED <<order, stop, reading>>
  BY CommandRequested DEF TypeOK, ProcessTypeOK
<1>h. \A status, c : Honest(status, c)' = Honest(status, c)
  BY <1>p DEF Honest, Decoded
<1>r. /\ Honest(reading.status, reading.candidate)'
      /\ reading'.candidate \in Candidates \/ reading'.status = "absent"
  BY <1>p, <1>h DEF TrueReadings
<1>1. CASE Looks
  <2>1. /\ process'.candidate = process.candidate /\ process.pc \in AfterBuyFence
        /\ process'.seen = Decoded(process.candidate)
             \/ process'.seen = ledger[process.candidate]
    BY <1>1, LooksStep
  <2>2. process.candidate \in Candidates
    BY <2>1 DEF InCommand, AfterBuyFence
  <2>3. Honest(process'.seen, process.candidate)
    BY <2>1, <2>2 DEF Honest, TrueRows, Journals
  <2>4. process'.pc \notin {"stop_gate", "stop_fence", "stop"}
    BY <1>1, <1>p
    DEF Looks, LookupSubmitted, LookupFinal, Lookup, ReadParent, Poll, See, ProcessTypeOK
  <2> QED
    BY <1>r, <1>h, <2>1, <2>2, <2>3, <2>4 DEF TrueReadings
<1>2. CASE Returns
  <2>1. Return \/ Goto("finish")
    BY <1>2, ReturnsStep
  <2>2. "finish" \in Places
    BY DEF Places
  <2>3. /\ Honest(process'.seen, process'.candidate)
        /\ process'.candidate \in Candidates \/ process'.seen = "absent"
    BY <1>p, <2>1, <2>2, GotoStep, ReturnStep DEF TrueReadings, Honest
  <2>4. process'.pc \in {"idle", "finish"}
    BY <1>p, <2>1, <2>2, GotoStep, ReturnStep
  <2> QED
    BY <1>r, <1>h, <2>3, <2>4 DEF TrueReadings
<1>3. ASSUME NEW pc \in Places, Goto(pc),
             pc \in {"stop_gate", "stop_fence", "stop"} =>
               order[process.candidate] = "fill"
      PROVE  TrueReadings'
  <2>1. /\ process'.pc = pc /\ process'.candidate = process.candidate
        /\ process'.seen = process.seen
    BY <1>p, <1>3, GotoStep
  <2> QED
    BY <1>p, <1>r, <1>h, <1>3, <2>1 DEF TrueReadings
<1>4. CASE ReserveStop
  <2>1. process.candidate \in Candidates
    BY <1>4 DEF ReserveStop, InCommand, At
  <2>2. Decoded(process.candidate) = "filled"
    BY <1>4, <2>1 DEF ReserveStop, TrueRows, Journals, Honest, me
  <2>3. order[process.candidate] = "fill"
    BY <1>p, <2>1, <2>2 DEF Decoded, BrokerTypeOK
  <2>4. PICK pc \in {"stop_gate", "stop_fence"} : Goto(pc)
    BY <1>4 DEF ReserveStop
  <2> QED
    BY <1>3, <2>3, <2>4 DEF Places
<1>5. CASE StopGatePassed \/ StopFence
  <2>1. order[process.candidate] = "fill"
    BY <1>5 DEF StopGatePassed, StopFence, At, TrueReadings
  <2>2. \E pc \in {"stop_fence", "stop"} : Goto(pc)
    BY <1>5 DEF StopGatePassed, StopFence
  <2> QED
    BY <1>3, <2>1, <2>2 DEF Places
<1>6. CASE (Moves /\ ~ ReserveStop /\ ~ StopGatePassed) \/ BuyFence \/ CancelFence
             \/ Submit \/ Cancel \/ PostStop
  <2>1. AfterRecord \in {"decide", "parent", "poll"}
    BY DEF AfterRecord
  <2>2. \E pc \in Places \ {"stop_gate", "stop_fence", "stop"} : Goto(pc)
    BY <1>6, <2>1
    DEF Moves, Preflight, CreateClaim, Prepare, Reserve, NotSubmitted, GatePassed, RecordSeen,
        WaitIsOver, CancelAnswered, NotFilled, Filled, StopNotDispatched,
        StopUnknown, StopAnswered, BuyFence, CancelFence, Submit, Cancel, PostStop, Places
  <2> QED
    BY <1>3, <2>2
<1> QED
  BY <1>1, <1>2, <1>4, <1>5, <1>6 DEF Command, Moves, Looks, Returns

(* The broker undoes no final state, and places only what was sent.        *)
LEMMA BrokerKeeps ==
  ASSUME BrokerTypeOK, Requested, Broker
  PROVE  /\ Requested'
         /\ \A c \in Candidates :
              /\ order[c] = "fill" => order'[c] = "fill"
              /\ \A status : Honest(status, c) => Honest(status, c)'
              /\ stop[c] # "none" => stop'[c] # "none"
<1> USE DEF BrokerTypeOK, Requested, Honest, Decoded
<1>1. ASSUME NEW c \in Candidates,
             DeliverBuy(c) \/ DeliverCancel(c) \/ OrderEnds(c)
      PROVE  /\ Requested'
             /\ \A d \in Candidates :
                  /\ order[d] = "fill" => order'[d] = "fill"
                  /\ \A status : Honest(status, d) => Honest(status, d)'
             /\ stop' = stop
  BY <1>1 DEF DeliverBuy, DeliverCancel, OrderEnds
<1>2. ASSUME NEW c \in Candidates,
             DeliverStop(c) \/ StopTriggers(c) \/ ChildEnds(c)
      PROVE  /\ Requested' /\ order' = order
             /\ \A d \in Candidates : stop[d] # "none" => stop'[d] # "none"
  BY <1>2 DEF DeliverStop, StopTriggers, ChildEnds
<1>3. ASSUME NEW r \in Requests, Lose(r)
      PROVE  Requested' /\ order' = order /\ stop' = stop
  BY <1>3 DEF Lose
<1> QED
  BY <1>1, <1>2, <1>3 DEF Broker

(* The steps beside the command keep the journals and readings true.       *)
LEMMA TruthElse ==
  ASSUME Safe, Truth,
         (\E c \in Candidates : Run(c) \/ Recover(c)) \/ Apart \/ Outside \/ UNCHANGED vars
  PROVE  Truth'
<1> USE DEF Truth, Safe
<1>1. CASE Outside
  <2>1. UNCHANGED once_vars /\ Broker
    BY <1>1 DEF Outside
  <2>2. /\ Requested'
        /\ \A c \in Candidates :
              /\ order[c] = "fill" => order'[c] = "fill"
              /\ \A status : Honest(status, c) => Honest(status, c)'
              /\ stop[c] # "none" => stop'[c] # "none"
    BY <2>1, BrokerKeeps DEF TypeOK
  <2>3. TrueRows(Journals)' /\ TrueRows(backup)'
    BY <2>1, <2>2 DEF TrueRows, Journals, once_vars
  <2>4. TrueReadings'
    <3>1. CASE process.candidate \in Candidates
      <4>1. Honest(reading.status, reading.candidate)'
        BY <2>1, <2>2 DEF TrueReadings, once_vars, Honest
      <4> QED
        BY <2>1, <2>2, <3>1, <4>1 DEF TrueReadings, once_vars
    <3>2. CASE process.candidate \notin Candidates
      <4>1. Honest(reading.status, reading.candidate)'
        BY <2>1, <2>2 DEF TrueReadings, once_vars, Honest
      <4>2. process.seen = "absent" /\ process.pc = "idle"
        BY <3>2 DEF TrueReadings, InCommand
      <4> QED
        BY <2>1, <4>1, <4>2 DEF TrueReadings, once_vars, Honest
    <3> QED
      BY <3>1, <3>2
  <2> QED
    BY <2>2, <2>3, <2>4
<1>2. CASE ~ Outside
  <2>1. UNCHANGED broker_vars
    BY <1>2 DEF Run, Recover, Apart, Backup, Restore, ClaimLost, ReconcileLookup,
                ReconcileRecord, vars
  <2>2. Requested' /\ \A status, c : Honest(status, c)' = Honest(status, c)
    BY <2>1 DEF broker_vars, Requested, Honest, Decoded
  <2>3. TrueRows(Journals)'
    <3>1. CASE UNCHANGED <<ledger, protection>>
      BY <2>1, <2>2, <3>1 DEF TrueRows, Journals, broker_vars
    <3>2. CASE Restore
      BY <2>1, <2>2, <3>2 DEF Restore, TrueRows, Journals, NoRows, Honest, broker_vars
    <3>3. CASE ReconcileRecord
      <4>1. \A c \in Candidates : Honest(ledger'[c], c)
        BY <3>3 DEF ReconcileRecord, TrueRows, Journals, TrueReadings, TypeOK
      <4> QED
        BY <2>1, <2>2, <3>3, <4>1 DEF ReconcileRecord, TrueRows, Journals, broker_vars
    <3> QED
      BY <1>2, <3>1, <3>2, <3>3
      DEF Run, Recover, Apart, Backup, ClaimLost, ReconcileLookup, vars, once_vars
  <2>4. TrueRows(backup)'
    <3>1. CASE Backup
      BY <2>1, <2>2, <3>1 DEF Backup, TrueRows, Journals, broker_vars
    <3>2. CASE UNCHANGED backup
      BY <2>1, <2>2, <3>2 DEF TrueRows, broker_vars
    <3> QED
      BY <1>2, <3>1, <3>2
      DEF Run, Recover, Apart, Restore, ReconcileRecord, ClaimLost, ReconcileLookup, vars, once_vars
  <2>5. /\ Honest(process.seen, process.candidate)'
        /\ process'.candidate \in Candidates \/ process'.seen = "absent"
        /\ process'.pc \in {"stop_gate", "stop_fence", "stop"} =>
             order'[process'.candidate] = "fill"
    <3>1. CASE \E c \in Candidates : Run(c) \/ Recover(c)
      <4>1. process'.seen = "absent" /\ process'.pc \in {"preflight", "activate"}
        BY <3>1 DEF Run, Recover, Start
      <4> QED
        BY <4>1 DEF Honest
    <3>2. CASE UNCHANGED process
      BY <2>1, <2>2, <3>2 DEF TrueReadings, broker_vars
    <3> QED
      BY <1>2, <3>1, <3>2
      DEF Apart, Backup, Restore, ReconcileRecord, ClaimLost, ReconcileLookup, vars, once_vars
  <2>6. /\ Honest(reading.status, reading.candidate)'
        /\ reading'.candidate \in Candidates \/ reading'.status = "absent"
    <3>1. CASE \E c \in Candidates : ReconcileLookup(c)
      <4>1. PICK c \in Candidates : ReconcileLookup(c)
        BY <3>1
      <4>2. reading'.candidate = c
            /\ (reading'.status = "unknown" \/ reading'.status = Decoded(c))
        BY <4>1 DEF ReconcileLookup
      <4> QED
        BY <2>2, <4>2 DEF Honest
    <3>2. CASE reading' = NoReading
      BY <3>2 DEF NoReading, Honest
    <3>3. CASE UNCHANGED reading
      BY <2>2, <3>3 DEF TrueReadings
    <3> QED
      BY <1>2, <3>1, <3>2, <3>3
      DEF Run, Recover, Apart, Backup, Restore, ReconcileRecord, ClaimLost, vars, once_vars
  <2>7. TrueReadings'
    BY <2>5, <2>6 DEF TrueReadings
  <2> QED
    BY <2>2, <2>3, <2>4, <2>7
<1> QED
  BY <1>1, <1>2

(* No step makes them untrue.                                              *)
LEMMA TruthStep == Safe /\ Truth /\ [Next]_vars => Truth'
<1>1. Safe /\ Truth /\ Command => Truth'
  BY CommandRequested, CommandRows, CommandReadings DEF Truth
<1> QED
  BY <1>1, TruthElse DEF Next, Apart

(* Rows, backups and what a command or `reconcile` has read say what is so *)
(* at the broker, and nothing is there that was not sent.                  *)
THEOREM TruthAlways == Spec => []Truth
BY TruthInit, TruthStep, Safety, PTL DEF Spec

(* One attempt, and two journals that know how far it came, whichever      *)
(* backup brought them back (prod_long_once.py:298-420).                   *)
THEOREM AttemptStaysSafe == Spec => []AttemptIsSafe
<1>1. Safe /\ Truth => JournalsAreTrue
  <2> SUFFICES ASSUME Safe, Truth, NEW c \in Candidates
               PROVE  /\ ledger[c] \in {"filled", "cancelled"} => Decoded(c) = ledger[c]
                      /\ protection[c] \in {"UNVERIFIED", "ACTIVE"} => stop[c] # "none"
                      /\ Recoverable(c) => stop[c] = "none" /\ sent[<<"stop", c>>] = 0
    BY DEF JournalsAreTrue
  <2>1. Recoverable(c) => sent[<<"stop", c>>] = 0
    <3>1. "stop" \in Kinds /\ Fence("stop") = "stop-dispatch"
      BY DEF Kinds, Fence
    <3> QED
      BY <3>1 DEF Recoverable, Safe, Dispatches
  <2>2. ASSUME sent[<<"stop", c>>] = 0, stop[c] # "none" PROVE FALSE
    <3>1. sent[<<"stop", c>>] > 0
      BY <2>2 DEF Truth, Requested
    <3> QED
      BY <2>2, <3>1
  <2> QED
    BY <2>1, <2>2 DEF Truth, TrueRows, Journals, Honest
<1>2. Safe => TypeOK
  BY DEF Safe
<1>3. TypeOK /\ OneOfEach /\ JournalsAreTrue => AttemptIsSafe
  BY DEF AttemptIsSafe
<1> QED
  BY <1>1, <1>2, <1>3, Safety, TruthAlways, OneOfEachSent, PTL

------------------------------------------------------------------------------
(* The refinement: how many requests of a kind were sent.                  *)
LEMMA TotalIs ==
  ASSUME Safe, NEW k \in Kinds
  PROVE  /\ (\A c \in Candidates : sent[<<k, c>>] = 0) => Total(k) = 0
         /\ ~ (\A c \in Candidates : sent[<<k, c>>] = 0) => Total(k) = 1
<1>1. \A c \in Candidates : sent[<<k, c>>] = 0 \/ sent[<<k, c>>] = 1
  <2> SUFFICES ASSUME NEW c \in Candidates PROVE sent[<<k, c>>] = 0 \/ sent[<<k, c>>] = 1
    OBVIOUS
  <2>1. <<k, c>> \in Requests
    BY DEF Requests
  <2>2. sent[<<k, c>>] \in 0..2 /\ sent[<<k, c>>] <= 1
    BY <2>1 DEF Safe, TypeOK, BrokerTypeOK, Dispatches
  <2> QED
    BY <2>2
<1>2. ASSUME NEW c \in Candidates, sent[<<k, c>>] # 0
      PROVE  \A d \in Candidates : sent[<<k, d>>] = IF d = c THEN 1 ELSE 0
  <2>1. \A d \in Candidates : sent[<<k, d>>] = 1 => d = c
    BY <1>1, <1>2 DEF Safe, Dispatches
  <2> QED
    BY <1>1, <1>2, <2>1
<1> QED
  BY <1>2 DEF Total

mapped == <<attempt, Total("buy"), filled, Total("stop")>>

(* The total counts requests only.                                         *)
LEMMA NothingSent ==
  ASSUME NEW k \in Kinds, \A c \in Candidates : sent'[<<k, c>>] = sent[<<k, c>>]
  PROVE  Total(k)' = Total(k)
BY DEF Total

(* The first request of a kind makes their number one, and no other number.*)
LEMMA FirstSent ==
  ASSUME Safe, NEW k \in Kinds, NEW c \in Candidates, At(k), Send(k, c)
  PROVE  /\ Total(k) = 0 /\ Total(k)' = 1
         /\ \A l \in Kinds : l # k => Total(l)' = Total(l)
<1>1. \A d \in Candidates : sent[<<k, d>>] = 0
  BY DEF Safe, Dispatches
<1>2. \A l \in Kinds, d \in Candidates :
        sent'[<<l, d>>] = IF l = k /\ d = c THEN 1 ELSE sent[<<l, d>>]
  BY <1>1, SendStep DEF Safe, TypeOK
<1>3. Total(k) = 0
  BY <1>1 DEF Total
<1>4. \A d \in Candidates : sent'[<<k, d>>] = IF d = c THEN 1 ELSE 0
  BY <1>1, <1>2
<1>5. Total(k)' = 1
  <2>1. ~ (\A d \in Candidates : sent'[<<k, d>>] = 0)
    <3>1. sent'[<<k, c>>] # 0
      BY <1>4
    <3> QED
      BY <3>1
  <2>2. \E e \in Candidates : \A d \in Candidates : sent'[<<k, d>>] = IF d = e THEN 1 ELSE 0
    BY <1>4
  <2> QED
    BY <2>1, <2>2 DEF Total
<1>6. ASSUME NEW l \in Kinds, l # k PROVE Total(l)' = Total(l)
  BY <1>2, <1>6, NothingSent
<1> QED
  BY <1>3, <1>5, <1>6

(* A step that neither sends nor creates the fence, nor leaves the place   *)
(* where the BUY is sent, is none of the attempt.                          *)
LEMMA NoStepOfTheAttempt ==
  ASSUME UNCHANGED <<order, sent>>,
         "buy-dispatch" \in fences' <=> "buy-dispatch" \in fences,
         At("buy")' <=> At("buy")
  PROVE  UNCHANGED mapped
<1>1. UNCHANGED <<Total("buy"), Total("stop"), filled>>
  BY NothingSent DEF Kinds, filled
<1>2. UNCHANGED attempt
  BY DEF attempt
<1> QED
  BY <1>1, <1>2 DEF mapped

(* Every step is one of the attempt or changes nothing of it.              *)
LEMMA AttemptStep ==
  ASSUME Safe, Truth, [Next]_vars
  PROVE  [OneAttempt!Next]_mapped
<1> USE DEF mapped, OneAttempt!Next
<1>p. TypeOK /\ BrokerTypeOK /\ ProcessTypeOK /\ InCommand /\ Dispatches
  BY DEF Safe, TypeOK, ProcessTypeOK
<1>k. "buy" \in Kinds /\ "stop" \in Kinds /\ "cancel" \in Kinds
  BY DEF Kinds
<1>1. CASE Submit
  <2>1. At("buy") /\ Send("buy", me) /\ Goto("submitted") /\ UNCHANGED <<fences, order>>
    BY <1>1 DEF Submit, Send
  <2>2. me \in Candidates /\ "buy-dispatch" \in fences
    BY <1>p, <2>1 DEF InCommand, At, me, AfterBuyFence, Places
  <2>3. Total("buy") = 0 /\ Total("buy")' = 1 /\ Total("stop")' = Total("stop")
    BY <1>k, <2>1, <2>2, FirstSent
  <2>4. attempt = "trying" /\ attempt' = "spent"
    BY <1>p, <2>1, <2>2, GotoStep DEF attempt, At, Places
  <2>5. filled' = filled
    BY <2>1 DEF filled
  <2> QED
    BY <2>3, <2>4, <2>5 DEF OneAttempt!Buy
<1>2. CASE PostStop
  <2>1. At("stop") /\ Send("stop", me) /\ Goto("stop_posted") /\ UNCHANGED <<fences, order>>
    BY <1>2 DEF PostStop, Send
  <2>2. me \in Candidates /\ "buy-dispatch" \in fences
    BY <1>p, <2>1 DEF InCommand, At, me, AfterBuyFence, Places
  <2>3. Total("stop") = 0 /\ Total("stop")' = 1 /\ Total("buy")' = Total("buy")
    BY <1>k, <2>1, <2>2, FirstSent
  <2>4. attempt = "spent" /\ attempt' = "spent"
    BY <1>p, <2>1, <2>2, GotoStep DEF attempt, At, Places
  <2>5. filled /\ filled' = filled
    BY <2>1, <2>2 DEF filled, Truth, TrueReadings, At, me
  <2> QED
    BY <2>3, <2>4, <2>5 DEF OneAttempt!Stop
<1>3. CASE Cancel
  <2>1. At("cancel") /\ UNCHANGED fences
    BY <1>3 DEF Cancel
  <2>2. me \in Candidates
    BY <1>p, <2>1 DEF InCommand, At, me
  <2>3. ~ At("buy")'
    BY <1>3, <1>p, GotoStep DEF Cancel, At, Places
  <2>4. UNCHANGED attempt
    BY <2>1, <2>3 DEF attempt, At
  <2>5. CASE UNCHANGED broker_vars
    BY <2>1, <2>3, <2>5, NoStepOfTheAttempt DEF broker_vars, At
  <2>6. CASE Send("cancel", me)
    <3>1. UNCHANGED <<Total("buy"), Total("stop")>>
      BY <1>k, <2>1, <2>2, <2>6, FirstSent
    <3>2. UNCHANGED filled
      BY <2>6 DEF Send, filled
    <3> QED
      BY <2>4, <3>1, <3>2
  <2> QED
    BY <1>3, <2>5, <2>6 DEF Cancel
<1>4. CASE BuyFence
  <2>1. UNCHANGED broker_vars /\ attempt = "armed" /\ attempt' = "trying"
    BY <1>4, <1>p, GotoStep DEF BuyFence, dispatch, attempt, At, Places
  <2>2. UNCHANGED <<Total("buy"), Total("stop"), filled>>
    BY <1>k, <2>1, NothingSent DEF broker_vars, filled
  <2> QED
    BY <2>1, <2>2 DEF OneAttempt!Claim
<1>5. CASE Returns
  <2>1. /\ UNCHANGED broker_vars
        /\ "buy-dispatch" \in fences' <=> "buy-dispatch" \in fences
        /\ ~ At("buy")'
    <3>1. "finish" \in Places
      BY DEF Places
    <3> QED
      BY <1>5, <1>p, <3>1, ReturnsStep, GotoStep, ReturnStep DEF At
  <2>2. UNCHANGED <<Total("buy"), Total("stop"), filled>>
    BY <1>k, <2>1, NothingSent DEF broker_vars, filled
  <2>3. attempt' = attempt \/ (attempt = "trying" /\ attempt' = "spent")
    BY <2>1 DEF attempt
  <2> QED
    BY <2>2, <2>3 DEF OneAttempt!GiveUp
<1>6. CASE Moves
  <2>1. PICK pc \in Places \ (Kinds \cup {"idle"}) : Goto(pc)
    BY <1>6, MovesStep
  <2>2. ~ At("buy")'
    BY <1>p, <1>k, <2>1, GotoStep DEF At
  <2>3. ~ At("buy")
    BY <1>6
    DEF Moves, Preflight, CreateClaim, Prepare, Reserve, NotSubmitted, GatePassed, RecordSeen,
        WaitIsOver, CancelAnswered, NotFilled, Filled, ReserveStop, StopNotDispatched,
        StopGatePassed, StopUnknown, StopAnswered, At
  <2>4. UNCHANGED <<broker_vars, fences>>
    BY <1>6, MovesStep
  <2> QED
    BY <2>2, <2>3, <2>4, NoStepOfTheAttempt DEF broker_vars
<1>7. CASE Looks
  <2>1. UNCHANGED <<broker_vars, fences>> /\ ~ At("buy")'
    BY <1>7, <1>k, LooksStep DEF At
  <2>2. ~ At("buy")
    BY <1>7 DEF Looks, LookupSubmitted, LookupFinal, Lookup, ReadParent, Poll, At
  <2> QED
    BY <2>1, <2>2, NoStepOfTheAttempt DEF broker_vars
<1>8. CASE CancelFence \/ StopFence
  <2>1. /\ UNCHANGED broker_vars /\ ~ At("buy") /\ ~ At("buy")'
        /\ "buy-dispatch" \in fences' <=> "buy-dispatch" \in fences
    BY <1>8, <1>p, GotoStep DEF CancelFence, StopFence, dispatch, At, Places
  <2> QED
    BY <2>1, NoStepOfTheAttempt DEF broker_vars
<1>9. CASE Outside
  <2>1. UNCHANGED once_vars /\ UNCHANGED sent
    BY <1>9, <1>p, BrokerStep DEF Outside
  <2>2. UNCHANGED <<attempt, Total("buy"), Total("stop")>>
    BY <1>k, <2>1, NothingSent DEF attempt, once_vars, At
  <2>3. filled => filled'
    BY <1>9, <1>p, BrokerKeeps DEF Outside, filled, Truth
  <2>4. ASSUME ~ filled, filled' PROVE Total("buy") = 1
    <3>1. PICK c \in Candidates : order'[c] = "fill"
      BY <2>4 DEF filled
    <3>2. Requested'
      BY <1>9, <1>p, BrokerKeeps DEF Outside, Truth
    <3>3. sent[<<"buy", c>>] > 0
      BY <2>1, <3>1, <3>2 DEF Requested
    <3> QED
      BY <1>k, <3>3, TotalIs
  <2> QED
    BY <2>2, <2>3, <2>4 DEF OneAttempt!Fill, filled
<1>10. CASE Apart \/ UNCHANGED vars
  <2>1. UNCHANGED <<broker_vars, fences, process>>
    BY <1>10
    DEF Apart, Backup, Restore, ClaimLost, ReconcileRecord, ReconcileLookup, vars, once_vars
  <2> QED
    BY <2>1, NoStepOfTheAttempt DEF broker_vars, At
<1>11. ASSUME NEW c \in Candidates, Run(c) \/ Recover(c)
       PROVE  UNCHANGED mapped
  <2>1. UNCHANGED <<broker_vars, fences>> /\ ~ At("buy") /\ ~ At("buy")'
    BY <1>11 DEF Run, Recover, Start, At
  <2> QED
    BY <2>1, NoStepOfTheAttempt DEF broker_vars
<1> QED
  BY <1>1, <1>2, <1>3, <1>4, <1>5, <1>6, <1>7, <1>8, <1>9, <1>10, <1>11
  DEF Next, Command, Moves, Looks, Returns, Apart

(* The runner implements the one attempt it promises: spent by the fence   *)
(* of the BUY, one BUY, and one stop after the fill, through kills, lost   *)
(* claims and restored journals (prod_long_once.py:86-103, :298-420).      *)
THEOREM ImplementsOneShot == Spec => OneAttemptSpec
<1>1. Init => OneAttempt!Init
  BY SafeInit, TotalIs
  DEF Init, BrokerInit, OneAttempt!Init, attempt, filled, Total, Requests, Kinds
<1>2. Safe /\ Truth /\ [Next]_vars => [OneAttempt!Next]_mapped
  BY AttemptStep
<1> QED
  BY <1>1, <1>2, Safety, TruthAlways, PTL DEF Spec, OneAttemptSpec, OneAttempt!Spec, mapped

------------------------------------------------------------------------------
(* The observer, which reads while all that goes on.                       *)

(* What the observer goes by is of a moment while it reads.                *)
ReadInTime ==
  /\ observer.pc \notin {"idle", "durable", "FAIL"} \cup OK => mine \in Candidates
  /\ Observing("durable") \/ Observing(Unclaimed) => "untouched" \in moments
  /\ observer.pc \in {"positions", "stops", "orders"} =>
       /\ observer.seen \in TERMINAL /\ Decoded(mine) = observer.seen
       /\ observer.seen \in {"cancelled", "rejected"} => "unfilled" \in moments
  /\ observer.pc \in {"stops", "orders"} /\ observer.seen = "filled" /\ observer.holding = "none" =>
       "flat" \in moments
  /\ Observing("orders") /\ observer.seen = "filled" /\ observer.stop = "own" =>
       "protected" \in moments

Observation == ObserverTypeOK /\ ReadInTime /\ ReportIsAMoment


(* An order that has ended stays as it ended.                              *)
LEMMA EndedStays ==
  ASSUME Safe, Truth, [Next]_vars, NEW c \in Candidates, Decoded(c) \in TERMINAL
  PROVE  Decoded(c)' = Decoded(c)
<1>1. UNCHANGED order \/ Broker
  BY CommandRequested
  DEF Next, Outside, Run, Recover, Backup, Restore, ClaimLost, ReconcileLookup, ReconcileRecord,
      vars, broker_vars, Truth
<1>2. ASSUME Broker PROVE Decoded(c)' = Decoded(c)
  <2> USE DEF Safe, TypeOK, BrokerTypeOK, Decoded, TERMINAL
  <2>1. ASSUME NEW d \in Candidates, DeliverBuy(d) \/ DeliverCancel(d) \/ OrderEnds(d)
        PROVE  order'[c] = order[c]
    BY <2>1 DEF DeliverBuy, DeliverCancel, OrderEnds
  <2>2. ASSUME NEW d \in Candidates, DeliverStop(d) \/ StopTriggers(d) \/ ChildEnds(d)
        PROVE  order'[c] = order[c]
    BY <2>2 DEF DeliverStop, StopTriggers, ChildEnds
  <2>3. ASSUME NEW r \in Requests, Lose(r) PROVE order'[c] = order[c]
    BY <2>3 DEF Lose
  <2> QED
    BY <1>2, <2>1, <2>2, <2>3 DEF Broker
<1> QED
  BY <1>1, <1>2 DEF Decoded

(* The trade is the one whose BUY is at the broker.                        *)
LEMMA TheTrade ==
  ASSUME Safe, Truth, NEW c \in Candidates, order[c] # "none"
  PROVE  Bought = {c}
<1>1. "buy" \in Kinds
  BY DEF Kinds
<1>2. sent[<<"buy", c>>] > 0
  BY DEF Truth, Requested
<1>3. \A d \in Candidates : sent[<<"buy", d>>] > 0 => d = c
  BY <1>1, <1>2 DEF Safe, Dispatches
<1> QED
  BY <1>2, <1>3 DEF Bought

(* How it stands, by its order and its stop.                               *)
LEMMA MomentIs ==
  ASSUME Safe, Truth, NEW c \in Candidates, order[c] # "none"
  PROVE  /\ order[c] \in {"cancelled", "rejected"} => Moment = "unfilled"
         /\ order[c] = "fill" /\ stop[c] = "active" => Moment = "protected"
         /\ order[c] = "fill" /\ stop[c] = "executed" => Moment = "flat"
<1>1. Bought = {c} /\ (CHOOSE d \in Bought : TRUE) = c
  BY TheTrade
<1> QED
  BY <1>1 DEF Moment

(* Before the fence of the BUY there is no trade.                          *)
LEMMA Untouched ==
  ASSUME Safe, "buy-dispatch" \notin fences
  PROVE  Moment = "untouched"
<1>1. "buy" \in Kinds /\ Fence("buy") = "buy-dispatch"
  BY DEF Kinds, Fence
<1>2. \A c \in Candidates : sent[<<"buy", c>>] = 0
  BY <1>1 DEF Safe, Dispatches
<1> QED
  BY <1>2 DEF Bought, Moment

(* While it observes, a moment that is told of is remembered.              *)
LEMMA Remembered ==
  ASSUME Remember, observer'.pc \notin {"idle", "FAIL"}
  PROVE  /\ moments \subseteq moments'
         /\ ~ (observer.pc \in OK /\ observer'.pc \in OK) /\ Moment' \in Told =>
              Moment' \in moments'
BY DEF Remember, OK

(* What the trade does beside it, it does not take back.                   *)
LEMMA TradeMoves ==
  ASSUME Safe, Truth, Observation, [Next]_vars, TypeOK', UNCHANGED observer, Remember
  PROVE  Observation'
<1>1. ObserverTypeOK'
  BY DEF Observation, ObserverTypeOK, Remember, Told
<1>2. observer.pc \notin {"idle", "FAIL"} => moments \subseteq moments'
  BY Remembered
<1>3. ReadInTime' /\ ReportIsAMoment'
  <2>1. ReadInTime'
    <3>1. \A c \in Candidates : Decoded(c) \in TERMINAL => Decoded(c)' = Decoded(c)
      BY EndedStays
    <3>2. ASSUME mine \in Candidates, Decoded(mine) \in TERMINAL
          PROVE  Decoded(mine)' = Decoded(mine)
      <4>1. PICK c \in Candidates : c = mine
        BY <3>2
      <4>2. Decoded(c)' = Decoded(c) /\ mine' = c
        BY <3>1, <3>2, <4>1 DEF mine
      <4> QED
        BY <4>1, <4>2 DEF Decoded
    <3>3. mine' = mine /\ observer' = observer /\ TERMINAL \subseteq Statuses
      BY DEF Statuses, mine
    <3>4. observer.pc \in {"positions", "stops", "orders"} =>
            Decoded(mine)' = Decoded(mine) /\ Decoded(mine) = observer.seen
      BY <3>2 DEF Observation, ReadInTime, OK, Unclaimed
    <3> QED
      BY <1>2, <3>3, <3>4 DEF Observation, ReadInTime, Observing, OK, Unclaimed
  <2>2. ReportIsAMoment'
    BY <1>2 DEF Observation, ReportIsAMoment, Observing
  <2> QED
    BY <2>1, <2>2
<1> QED
  BY <1>1, <1>3 DEF Observation

(* Each of its readings is remembered with the moment in which it is made. *)
LEMMA ObserverMoves ==
  ASSUME Safe, Truth, Observation, Observe, UNCHANGED vars, Remember
  PROVE  Observation'
<1> USE DEF Observation, Observing, OK, Unclaimed, mine
<1>1. UNCHANGED <<order, stop, sent, ledger, protection, claim, fences>>
      /\ Moment' = Moment /\ moments' \subseteq Told
  BY DEF vars, broker_vars, once_vars, Moment, Bought, Remember, ObserverTypeOK, Told
<1>2. TypeOK'
  BY DEF Safe, TypeOK, BrokerTypeOK, vars, broker_vars, once_vars
<1>3. \A c : Decoded(c)' = Decoded(c)
  BY <1>1 DEF Decoded
<1>4. claim \in MaybeCandidate /\ \A c \in Candidates : Decoded(c) \in Statuses \/ order[c] = "none"
  BY SeenTyped DEF Safe, TypeOK
<1>5. CASE Control
  <2>1. claim # NoCandidate => claim \in Candidates
    BY <1>4 DEF MaybeCandidate
  <2>2. /\ observer'.candidate = claim /\ observer'.id = "none" /\ observer'.seen = "absent"
        /\ observer'.holding = "none" /\ observer'.stop = "none"
        /\ observer'.pc = IF claim = NoCandidate
                          THEN IF fences = {} THEN "durable" ELSE "FAIL"
                          ELSE IF "buy-dispatch" \in fences THEN "journals" ELSE "FAIL"
    BY <1>5 DEF Control, NoObservation
  <2>3. ObserverTypeOK'
    BY <1>1, <1>2, <1>4, <1>5 DEF Control, NoObservation, ObserverTypeOK, Statuses
  <2>4. observer'.pc = "durable" => "untouched" \in moments'
    <3>1. ASSUME observer'.pc = "durable" PROVE Moment = "untouched"
      BY <2>2, <3>1, Untouched
    <3> QED
      BY <1>1, <1>5, <3>1, Remembered DEF Told, Control
  <2> QED
    BY <2>1, <2>2, <2>3, <2>4 DEF ReadInTime, ReportIsAMoment
<1>6. CASE Durable
  BY <1>1, <1>2, <1>6, Remembered
  DEF Durable, Report, NoObservation, ReadInTime, ReportIsAMoment, ObserverTypeOK, Statuses, MaybeCandidate
<1>7. CASE JournalRows
  <2>1. CASE observer' = [NoObservation EXCEPT !.pc = "FAIL"]
    BY <1>1, <1>2, <2>1
    DEF NoObservation, ReadInTime, ReportIsAMoment, ObserverTypeOK, Statuses, MaybeCandidate
  <2>2. CASE observer' = [observer EXCEPT !.pc = "lookup",
            !.id = IF protection[mine] \in {"UNVERIFIED", "ACTIVE"} THEN "known" ELSE "none"]
    <3>1. ObserverTypeOK'
      BY <1>1, <1>2, <2>2 DEF ObserverTypeOK
    <3>2. observer'.pc = "lookup" /\ mine' = mine /\ mine \in Candidates
      BY <1>7, <2>2 DEF ObserverTypeOK, ReadInTime, JournalRows
    <3> QED
      BY <3>1, <3>2 DEF ReadInTime, ReportIsAMoment
  <2> QED
    BY <1>7, <2>1, <2>2 DEF JournalRows, Report
<1>8. ASSUME observer' = [NoObservation EXCEPT !.pc = "FAIL"] PROVE Observation'
  BY <1>1, <1>2, <1>8
  DEF NoObservation, ReadInTime, ReportIsAMoment, ObserverTypeOK, Statuses, MaybeCandidate
<1>9. CASE LookupParent
  <2>1. CASE Decoded(mine) \notin TERMINAL
    BY <1>8, <1>9, <2>1 DEF LookupParent, Report
  <2>2. CASE Decoded(mine) \in TERMINAL
    <3>1. /\ observer' = [observer EXCEPT !.pc = "positions", !.seen = Decoded(mine)]
          /\ mine \in Candidates /\ order[mine] # "none"
      BY <1>9, <2>2 DEF LookupParent, ReadInTime, Decoded, TERMINAL
    <3>2. ObserverTypeOK'
      BY <1>1, <1>2, <2>2, <3>1 DEF ObserverTypeOK, Statuses
    <3>3. observer'.pc = "positions" /\ mine' = mine /\ observer'.seen = Decoded(mine)
      BY <3>1 DEF ObserverTypeOK
    <3>4. ASSUME observer'.seen \in {"cancelled", "rejected"} PROVE "unfilled" \in moments'
      <4>1. order[mine] \in {"cancelled", "rejected"}
        BY <3>3, <3>4 DEF Decoded, Safe, TypeOK, BrokerTypeOK
      <4>2. Moment = "unfilled"
        BY <3>1, <4>1, MomentIs
      <4> QED
        BY <1>1, <1>9, <3>3, <4>2, Remembered DEF Told, LookupParent
    <3>5. Decoded(mine)' = observer'.seen
      BY <1>1, <3>3 DEF Decoded
    <3> QED
      BY <2>2, <3>1, <3>2, <3>3, <3>4, <3>5 DEF ReadInTime, ReportIsAMoment
  <2> QED
    BY <2>1, <2>2
<1>10. CASE Positions
  <2>1. CASE stop[mine] = "triggered"
    BY <1>8, <1>10, <2>1 DEF Positions, Report
  <2>2. CASE stop[mine] # "triggered"
    <3>1. observer' = [observer EXCEPT !.pc = "stops",
                         !.holding = IF Holds(mine) THEN "free" ELSE "none"]
          /\ mine \in Candidates /\ observer.pc = "positions"
      BY <1>10, <2>2 DEF Positions, ReadInTime
    <3>2. ObserverTypeOK'
      BY <1>1, <1>2, <3>1 DEF ObserverTypeOK
    <3>3. /\ observer'.pc = "stops" /\ mine' = mine /\ observer'.seen = observer.seen
          /\ observer'.holding = IF Holds(mine) THEN "free" ELSE "none"
      BY <3>1 DEF ObserverTypeOK
    <3>4. ASSUME observer'.seen = "filled", observer'.holding = "none"
          PROVE  "flat" \in moments'
      <4>1. order[mine] = "fill" /\ stop[mine] = "executed"
        BY <3>1, <3>3, <3>4 DEF Holds, Decoded, ReadInTime, Safe, TypeOK, BrokerTypeOK
      <4>2. Moment = "flat"
        BY <3>1, <4>1, MomentIs
      <4> QED
        BY <1>1, <1>10, <3>3, <4>2, Remembered DEF Told, Positions
    <3>5. Decoded(mine)' = Decoded(mine) /\ moments \subseteq moments'
      BY <1>1, <3>3, Remembered DEF Decoded
    <3> QED
      BY <3>1, <3>2, <3>3, <3>4, <3>5 DEF ReadInTime, ReportIsAMoment
  <2> QED
    BY <2>1, <2>2
<1>11. CASE Stops
  <2>1. CASE stop[mine] = "active" /\ observer.id = "none"
    BY <1>8, <1>11, <2>1 DEF Stops, Report
  <2>2. CASE ~ (stop[mine] = "active" /\ observer.id = "none")
    <3>1. observer' = [observer EXCEPT !.pc = "orders",
                         !.stop = IF stop[mine] = "active" THEN "own" ELSE "none"]
          /\ mine \in Candidates /\ observer.pc = "stops"
      BY <1>11, <2>2 DEF Stops, ReadInTime
    <3>2. ObserverTypeOK'
      BY <1>1, <1>2, <3>1 DEF ObserverTypeOK
    <3>3. /\ observer'.pc = "orders" /\ mine' = mine /\ observer'.seen = observer.seen
          /\ observer'.holding = observer.holding
          /\ observer'.stop = IF stop[mine] = "active" THEN "own" ELSE "none"
      BY <3>1 DEF ObserverTypeOK
    <3>4. ASSUME observer'.seen = "filled", observer'.stop = "own"
          PROVE  "protected" \in moments'
      <4>1. order[mine] = "fill" /\ stop[mine] = "active"
        BY <3>1, <3>3, <3>4 DEF Decoded, ReadInTime, Safe, TypeOK, BrokerTypeOK
      <4>2. Moment = "protected"
        BY <3>1, <4>1, MomentIs
      <4> QED
        BY <1>1, <1>11, <3>3, <4>2, Remembered DEF Told, Stops
    <3>5. Decoded(mine)' = Decoded(mine) /\ moments \subseteq moments'
      BY <1>1, <3>3, Remembered DEF Decoded
    <3> QED
      BY <3>1, <3>2, <3>3, <3>4, <3>5 DEF ReadInTime, ReportIsAMoment
  <2> QED
    BY <2>1, <2>2
<1>12. CASE Orders
  <2>1. observer' = [NoObservation EXCEPT !.pc = Verdict] /\ observer.pc = "orders"
    BY <1>12 DEF Orders, Report
  <2>2. Verdict \in {"NO_FILL", "FLAT_EXIT_UNATTRIBUTED", "PROTECTED", "FAIL"}
    BY DEF Verdict
  <2>3. ObserverTypeOK' /\ observer'.pc = Verdict
    BY <1>1, <1>2, <2>1, <2>2 DEF NoObservation, ObserverTypeOK, Statuses, MaybeCandidate
  <2>4. Verdict # "FAIL" => moments \subseteq moments'
    BY <2>2, <2>3, Remembered
  <2>5. /\ Verdict = "NO_FILL" => "unfilled" \in moments
        /\ Verdict = "PROTECTED" => "protected" \in moments
        /\ Verdict = "FLAT_EXIT_UNATTRIBUTED" => "flat" \in moments
    BY <2>1 DEF Verdict, ReadInTime
  <2> QED
    BY <2>2, <2>3, <2>4, <2>5 DEF ReadInTime, ReportIsAMoment
<1>13. CASE Over
  BY <1>1, <1>2, <1>13
  DEF Over, NoObservation, ReadInTime, ReportIsAMoment, ObserverTypeOK, Statuses, MaybeCandidate
<1> QED
  BY <1>5, <1>6, <1>7, <1>9, <1>10, <1>11, <1>12, <1>13 DEF Observe

(* What wakes nobody up is true of one moment while it was read, although  *)
(* order, position and stop are read one after another and the trade goes  *)
(* on (prod_once_observer.py:42, :85).                                     *)
THEOREM ObserverReportsTruth == ObservedSpec => []ReportIsTrue
<1>1. ObservedInit => Safe /\ Truth /\ Observation
  BY SafeInit, TruthInit
  DEF ObservedInit, Observation, ObserverTypeOK, Safe, NoObservation, ReadInTime, ReportIsAMoment, Observing, OK, Unclaimed, MaybeCandidate, Statuses, Told
<1>2. Safe /\ Truth /\ Observation /\ [ObservedNext]_<<vars, observer_vars>>
        => (Safe /\ Truth /\ Observation)'
  <2> SUFFICES ASSUME Safe, Truth, Observation, [ObservedNext]_<<vars, observer_vars>>
               PROVE  (Safe /\ Truth /\ Observation)'
    OBVIOUS
  <2>1. Safe' /\ Truth'
    BY SafeStep, TruthStep DEF ObservedNext
  <2>2. CASE Next /\ UNCHANGED observer /\ Remember
    BY <2>1, <2>2, TradeMoves DEF Safe
  <2>3. CASE Observe /\ UNCHANGED vars /\ Remember
    BY <2>1, <2>3, ObserverMoves
  <2>4. CASE UNCHANGED <<vars, observer_vars>>
    <3>1. Observation'
      BY <2>1, <2>4 DEF Observation, ObserverTypeOK, ReadInTime, ReportIsAMoment, Observing, observer_vars, vars, broker_vars, Decoded, mine, Safe
    <3> QED
      BY <2>1, <3>1
  <2> QED
    BY <2>2, <2>3, <2>4 DEF ObservedNext
<1>3. Observation => ReportIsTrue
  BY DEF Observation, ReportIsTrue, LostEvidenceIsReported, ReadInTime
<1> QED
  BY <1>1, <1>2, <1>3, PTL DEF ObservedSpec

------------------------------------------------------------------------------
(* The evidence that is captured, archived and rehearsed.                  *)

(* A command that is past its preflight holds the claim, writes a row      *)
(* before it needs one, and what it records was read.                      *)
Unclaiming == {"idle", "preflight", "claim"}

Steady ==
  /\ process.pc \in {"preflight", "claim"} => claim = NoCandidate /\ fences = {}
  /\ process.pc \notin Unclaiming => claim = process.candidate
  /\ process.pc \notin Unclaiming \cup {"prepare"} => protection[process.candidate] # "absent"
  /\ process.pc \notin Unclaiming \cup {"prepare", "reserve"} =>
       ledger[process.candidate] # "absent"
  /\ process.pc \in {"record", "record_final"} => process.seen # "absent"
  /\ reading.candidate \in Candidates => reading.status # "absent"
  /\ \A c \in Candidates : sent[<<"buy", c>>] > 0 => claim \in {NoCandidate, c}

(* The rows that a step of a command leaves.                               *)
LEMMA CommandSteady ==
  ASSUME Safe, Truth, Steady, Command
  PROVE  Steady'
<1> USE DEF Safe, Steady, Unclaiming, At, me
<1>p. /\ ProcessTypeOK /\ BrokerTypeOK /\ UNCHANGED <<order, stop, backup, reading>>
      /\ ledger \in [Candidates -> Statuses] /\ protection \in [Candidates -> Protections]
  BY CommandRequested DEF TypeOK, ProcessTypeOK, Truth
<1>c. process.pc # "idle" => process.candidate \in Candidates
  BY DEF InCommand
<1>1. CASE Looks
  <2>1. /\ UNCHANGED <<broker_vars, claim, fences, ledger, protection, backup, reading>>
        /\ ProcessTypeOK' /\ process'.candidate = process.candidate
        /\ process.pc \in AfterBuyFence
        /\ process'.pc \in Places \ (Kinds \cup {"idle"})
        /\ process'.seen = Decoded(process.candidate)
             \/ process'.seen = ledger[process.candidate]
    BY <1>1, LooksStep
  <2>2. process'.pc \in {"record", "record_final", "decide", "poll"} /\ process'.seen # "absent"
    BY <1>1, <1>p, <1>c
    DEF Looks, LookupSubmitted, LookupFinal, Lookup, ReadParent, Poll, See, ProcessTypeOK,
        Placed, Decoded, BrokerTypeOK
  <2> QED
    BY <2>1, <2>2 DEF broker_vars, AfterBuyFence
<1>2. CASE Returns
  <2>1. /\ UNCHANGED <<broker_vars, claim, ledger, backup, reading>>
        /\ \/ Return
           \/ Goto("finish") /\ At("reconcile")
        /\ \/ UNCHANGED protection
           \/ stop[me] = "active" /\ At("reconcile") /\ Protection("ACTIVE")
    BY <1>2, ReturnsStep
  <2>2. CASE Return
    BY <2>1, <2>2, ReturnStep DEF broker_vars
  <2>3. CASE Goto("finish") /\ At("reconcile")
    <3>1. process'.pc = "finish" /\ process'.candidate = process.candidate
      BY <1>p, <2>3 DEF Goto, ProcessTypeOK
    <3> QED
      BY <1>p, <1>c, <2>1, <2>3, <3>1 DEF broker_vars, Protection
  <2> QED
    BY <2>1, <2>2, <2>3
<1>3. CASE Preflight \/ CreateClaim
  BY <1>p, <1>3 DEF Preflight, CreateClaim, Goto, ProcessTypeOK, broker_vars, Dispatches, Kinds, Fence
<1>4. CASE Prepare
  BY <1>p, <1>c, <1>4 DEF Prepare, Goto, ProcessTypeOK, broker_vars, Protection
<1>5. CASE Reserve \/ NotSubmitted
  BY <1>p, <1>c, <1>5 DEF Reserve, NotSubmitted, Goto, ProcessTypeOK, broker_vars, Recorded
<1>6. CASE RecordSeen
  <2>1. AfterRecord \in {"decide", "parent", "poll"}
    BY DEF AfterRecord
  <2> QED
    BY <1>p, <1>c, <1>6, <2>1 DEF RecordSeen, Goto, ProcessTypeOK, broker_vars, Recorded
<1>7. CASE GatePassed \/ WaitIsOver \/ CancelAnswered \/ NotFilled \/ Filled \/ StopGatePassed
             \/ BuyFence \/ CancelFence \/ StopFence
  BY <1>p, <1>c, <1>7
  DEF GatePassed, WaitIsOver, CancelAnswered, NotFilled, Filled, StopGatePassed,
      BuyFence, CancelFence, StopFence, dispatch, Goto, ProcessTypeOK, broker_vars
<1>8. CASE ReserveStop \/ StopNotDispatched \/ StopUnknown \/ StopAnswered
  BY <1>p, <1>c, <1>8
  DEF ReserveStop, StopNotDispatched, StopUnknown, StopAnswered, Protection, Goto, ProcessTypeOK,
      broker_vars
<1>9. CASE Submit \/ Cancel \/ PostStop
  <2>1. UNCHANGED <<claim, ledger, protection, reading>> /\ process' = [process EXCEPT !.pc = process'.pc]
        /\ process'.pc \in {"submitted", "cancelled", "cancelling", "stop_posted"}
    BY <1>9, <1>p DEF Submit, Cancel, PostStop, Goto, ProcessTypeOK
  <2>2. \A c \in Candidates : sent'[<<"buy", c>>] > 0 => sent[<<"buy", c>>] > 0 \/ c = process.candidate
    <3>1. ASSUME NEW k \in Kinds, Send(k, process.candidate), process.candidate \in Candidates
          PROVE  \A c \in Candidates : sent'[<<"buy", c>>] > 0 => sent[<<"buy", c>>] > 0 \/ c = process.candidate
      BY <1>p, <3>1 DEF Send, BrokerTypeOK, Requests, Kinds
    <3> QED
      BY <1>9, <1>c, <3>1 DEF Submit, Cancel, PostStop, Kinds, broker_vars
  <2> QED
    BY <1>9, <1>p, <1>c, <2>1, <2>2 DEF Submit, Cancel, PostStop, Goto, ProcessTypeOK
<1> QED
  BY <1>1, <1>2, <1>3, <1>4, <1>5, <1>6, <1>7, <1>8, <1>9 DEF Command, Looks, Returns

(* Neither does what goes on beside the commands.                          *)
LEMMA ElseSteady ==
  ASSUME Safe, Steady,
         (\E c \in Candidates : Run(c) \/ Recover(c)) \/ Apart \/ Outside \/ UNCHANGED vars
  PROVE  Steady'
<1> USE DEF Safe, Steady, Unclaiming, At, me
<1>1. CASE \E c \in Candidates : Run(c) \/ Recover(c)
  BY <1>1 DEF Run, Recover, Start, Recoverable, broker_vars, TypeOK
<1>2. CASE \E c \in Candidates : ReconcileLookup(c)
  <2>1. PICK c \in Candidates : ReconcileLookup(c)
    BY <1>2
  <2>2. reading'.status # "absent"
    BY <2>1 DEF ReconcileLookup, Decoded, TypeOK, BrokerTypeOK
  <2> QED
    BY <2>1, <2>2 DEF ReconcileLookup, broker_vars
<1>3. CASE ReconcileRecord
  <2>1. \A c \in Candidates : ledger[c] # "absent" => ledger'[c] # "absent"
    BY <1>3 DEF ReconcileRecord, TypeOK
  <2>2. reading'.candidate \notin Candidates
    BY <1>3, NoCandidateAssumption DEF ReconcileRecord, NoReading
  <2>3. process.pc \notin Unclaiming => process.candidate \in Candidates
    BY DEF InCommand
  <2> QED
    BY <1>3, <2>1, <2>2, <2>3 DEF ReconcileRecord, broker_vars
<1>4. CASE Backup \/ Restore \/ ClaimLost
  BY <1>4 DEF Backup, Restore, ClaimLost, broker_vars
<1>5. CASE Outside \/ UNCHANGED vars
  BY <1>5, BrokerStep DEF Outside, vars, broker_vars, once_vars, TypeOK
<1> QED
  BY <1>1, <1>2, <1>3, <1>4, <1>5 DEF Apart

(* At the start nothing is claimed.                                        *)
LEMMA SteadyInit == Init => Steady
BY NoCandidateAssumption
DEF Init, BrokerInit, Steady, Unclaiming, NoCommand, NoReading, Requests, Kinds

(* No step spoils it.                                                      *)
LEMMA SteadyStep == Safe /\ Truth /\ Steady /\ [Next]_vars => Steady'
BY CommandSteady, ElseSteady DEF Next, Apart

(* A head that may be kept names the trade and has its row.                *)
LEMMA FitShows ==
  ASSUME Safe, Steady, NEW e, e.claim = claim, e.fences = fences, e.ledger = ledger,
         Fit(e), NEW c \in Candidates, sent[<<"buy", c>>] > 0
  PROVE  claim = c /\ "buy-dispatch" \in fences /\ ledger[c] # "absent"
<1>1. "buy" \in Kinds /\ Fence("buy") = "buy-dispatch"
  BY DEF Kinds, Fence
<1>2. "buy-dispatch" \in fences
  <2> SUFFICES ASSUME "buy-dispatch" \notin fences PROVE FALSE
    OBVIOUS
  <2>1. sent[<<"buy", c>>] = 0
    BY <1>1 DEF Safe, Dispatches
  <2> QED
    BY <2>1
<1> QED
  BY <1>2 DEF Fit, once_control, NotEnrolled, Steady

(* What a command of dr_journals has read and copied so far.               *)
MaybeEvidence == Evidence \cup {NoEvidence}

JobTypeOK ==
  job \in [command : {"none", "snapshot", "capture-head"}, pc : JobPlaces,
           before : MaybeEvidence, stage : MaybeEvidence]

Heads ==
  /\ JobTypeOK
  /\ job.pc \notin {"idle", "settings"} => job.before \in Evidence
  /\ job.pc \in {"copy_journals", "check_copy", "check_settings", "check_journals", "seal"} =>
       job.stage \in Evidence
  /\ job.pc \in {"check_settings", "check_journals", "seal"} => head(job.stage) = head(job.before)

(* A head that was captured names the trade that was sent by then.         *)
TrustedShows ==
  trusted # NoEvidence =>
    \A c \in bought :
      trusted.claim = c /\ "buy-dispatch" \in trusted.fences /\ trusted.ledger[c] # "absent"

Kept == RecoveryTypeOK /\ Heads /\ TrustedShows

(* What is read is evidence.                                               *)
LEMMA SourceTyped ==
  ASSUME RecoveryTypeOK
  PROVE  /\ Source \in Evidence
         /\ Source.enabled = enabled /\ Source.claim = claim /\ Source.fences = fences
         /\ Source.ledger = ledger /\ Source.protection = protection
BY DEF RecoveryTypeOK, TypeOK, Source, Evidence

(* So is a head, of settings read first.                                   *)
LEMMA HeadReadTyped ==
  ASSUME RecoveryTypeOK, job.before \in Evidence
  PROVE  /\ HeadRead \in Evidence
         /\ HeadRead.enabled = job.before.enabled /\ HeadRead.claim = claim
         /\ HeadRead.fences = fences /\ HeadRead.ledger = ledger
         /\ HeadRead.protection = protection
BY SourceTyped DEF HeadRead, Evidence

(* A command of dr_journals reads and copies, and keeps what is fit.       *)
LEMMA JobKeeps ==
  ASSUME Safe, Steady, Kept, StartJob \/ Job \/ JobKilled
  PROVE  Kept'
<1> USE DEF Kept, Heads, Doing
<1>v. UNCHANGED <<vars, enabled>> /\ TypeOK' /\ JobTypeOK
  BY DEF StartJob, Job, JobKilled, RecoveryTypeOK, TypeOK, BrokerTypeOK, vars, broker_vars, once_vars
<1>n. /\ NoJob \in [command : {"none", "snapshot", "capture-head"}, pc : JobPlaces,
                    before : MaybeEvidence, stage : MaybeEvidence]
      /\ NoJob.pc = "idle"
  BY DEF NoJob, JobPlaces, MaybeEvidence
<1>1. CASE JobKilled
  BY <1>v, <1>n, <1>1 DEF JobKilled, Quit, JobTypeOK, RecoveryTypeOK, TrustedShows
<1>2. CASE StartJob
  <2>1. PICK command \in {"snapshot", "capture-head"} : Begin(command)
    BY <1>2 DEF StartJob
  <2>2. JobTypeOK' /\ job'.pc = "settings"
    BY <1>n, <2>1 DEF Begin, JobTypeOK, JobPlaces
  <2> QED
    BY <1>v, <2>1, <2>2 DEF Begin, JobTypeOK, RecoveryTypeOK, TrustedShows
<1>3. CASE Settings
  <2>1. CASE Quit
    BY <1>v, <1>n, <1>3, <2>1 DEF Settings, Quit, JobTypeOK, RecoveryTypeOK, TrustedShows
  <2>2. CASE job' = [job EXCEPT !.pc = "journals", !.before = Source]
    <3>1. JobTypeOK' /\ job'.pc = "journals" /\ job'.before \in Evidence
      BY <1>v, <2>2, SourceTyped DEF JobTypeOK, JobPlaces, MaybeEvidence
    <3> QED
      BY <1>v, <1>3, <3>1 DEF Settings, JobTypeOK, RecoveryTypeOK, TrustedShows
  <2> QED
    BY <1>3, <2>1, <2>2 DEF Settings
<1>q. ASSUME Quit, UNCHANGED <<archive, trusted, bought>> PROVE Kept'
  BY <1>v, <1>n, <1>q DEF Quit, JobTypeOK, RecoveryTypeOK, TrustedShows
<1>4. CASE ReadJournals
  <2>1. CASE ~ Fit(HeadRead)
    BY <1>4, <1>q, <2>1 DEF ReadJournals
  <2>2. CASE Fit(HeadRead)
    <3>1. JobTypeOK' /\ job'.pc = "copy_settings" /\ job'.before \in Evidence
      BY <1>v, <1>4, <2>2, HeadReadTyped DEF ReadJournals, JobTypeOK, JobPlaces, MaybeEvidence
    <3> QED
      BY <1>v, <1>4, <3>1 DEF ReadJournals, JobTypeOK, RecoveryTypeOK, TrustedShows
  <2> QED
    BY <2>1, <2>2
<1>5. CASE Captured
  <2>1. job.before \in Evidence
    BY <1>5 DEF Captured
  <2>2. CASE ~ Fit(HeadRead)
    BY <1>5, <1>q, <2>2 DEF Captured
  <2>3. CASE Fit(HeadRead)
    <3>1. /\ trusted' = HeadRead /\ bought' = {c \in Candidates : sent[<<"buy", c>>] > 0}
          /\ Quit /\ UNCHANGED archive
      BY <1>5, <2>3 DEF Captured
    <3>2. TrustedShows'
      <4> SUFFICES ASSUME NEW c \in Candidates, sent[<<"buy", c>>] > 0
                   PROVE  /\ HeadRead.claim = c /\ "buy-dispatch" \in HeadRead.fences
                          /\ HeadRead.ledger[c] # "absent"
        BY <3>1 DEF TrustedShows
      <4> QED
        BY <2>1, <2>3, HeadReadTyped, FitShows
    <3>3. RecoveryTypeOK' /\ Heads'
      BY <1>v, <1>n, <2>1, <3>1, HeadReadTyped DEF Quit, JobTypeOK, RecoveryTypeOK
    <3> QED
      BY <3>2, <3>3
  <2> QED
    BY <2>2, <2>3
<1>6. CASE CopySettings \/ CopyJournals
  <2>1. job.before \in Evidence /\ (CopyJournals => job.stage \in Evidence)
    BY <1>6 DEF CopySettings, CopyJournals
  <2>2. JobTypeOK' /\ job'.pc \in {"copy_journals", "check_copy"}
    /\ job'.before = job.before /\ job'.stage \in Evidence
    <3>1. CASE CopySettings
      BY <1>v, <3>1, SourceTyped DEF CopySettings, JobTypeOK, JobPlaces, MaybeEvidence
    <3>2. CASE CopyJournals
      <4>1. [Source EXCEPT !.enabled = job.stage.enabled] \in Evidence
        BY <2>1, <3>2, SourceTyped DEF Evidence
      <4> QED
        BY <1>v, <3>2, <4>1 DEF CopyJournals, JobTypeOK, JobPlaces, MaybeEvidence
    <3> QED
      BY <1>6, <3>1, <3>2
  <2> QED
    BY <1>v, <1>6, <2>1, <2>2 DEF CopySettings, CopyJournals, JobTypeOK, RecoveryTypeOK, TrustedShows
<1>7. CASE CheckCopy \/ CheckSettings \/ CheckJournals
  <2>1. CASE Quit
    BY <1>7, <1>q, <2>1 DEF CheckCopy, CheckSettings, CheckJournals
  <2>2. CASE ~ Quit
    <3>1. PICK pc \in {"check_settings", "check_journals", "seal"} : Proceed(pc)
      BY <1>7, <2>2 DEF CheckCopy, CheckSettings, CheckJournals
    <3>2. /\ JobTypeOK' /\ job'.pc = pc /\ job'.before = job.before /\ job'.stage = job.stage
      BY <1>v, <3>1 DEF Proceed, JobTypeOK, JobPlaces
    <3>3. /\ job.before \in Evidence /\ job.stage \in Evidence
          /\ head(job.stage) = head(job.before)
      BY <1>7, <2>2 DEF CheckCopy, CheckSettings, CheckJournals
    <3>4. head(job.stage)' = head(job'.before)
      BY <3>2, <3>3 DEF head
    <3> QED
      BY <1>v, <1>7, <3>2, <3>3, <3>4
      DEF CheckCopy, CheckSettings, CheckJournals, JobTypeOK, RecoveryTypeOK, TrustedShows, head
  <2> QED
    BY <2>1, <2>2
<1>8. CASE Seal
  <2>1. archive' \in Evidence /\ Quit /\ UNCHANGED <<trusted, bought>>
    BY <1>8 DEF Seal
  <2> QED
    BY <1>v, <1>n, <2>1 DEF Quit, JobTypeOK, RecoveryTypeOK, TrustedShows
<1> QED
  BY <1>1, <1>2, <1>3, <1>4, <1>5, <1>6, <1>7, <1>8 DEF Job

(* The trade itself is one of ProdLongOnce, without what the first commit  *)
(* of a claim directory rules out.                                         *)
LEMMA RecoveryIsTrade == RecoveryNext => [Next]_vars
BY DEF RecoveryNext, Trade, Next, Command, StartJob, Job, JobKilled, Edit

Evident == Safe /\ Truth /\ Steady /\ Kept

(* No step spoils what was kept.                                           *)
LEMMA EvidentStep == Evident /\ [RecoveryNext]_all_vars => Evident'
<1> SUFFICES ASSUME Evident, [RecoveryNext]_all_vars PROVE Evident'
  OBVIOUS
<1>1. [Next]_vars
  BY RecoveryIsTrade DEF all_vars
<1>2. Safe' /\ Truth' /\ Steady'
  BY <1>1, SafeStep, TruthStep, SteadyStep DEF Evident
<1>3. CASE StartJob \/ Job \/ JobKilled
  BY <1>2, <1>3, JobKeeps DEF Evident
<1>4. CASE UNCHANGED <<job, archive, trusted, bought>> /\ enabled' \in {"on", "off"}
  <2>1. Kept'
    BY <1>2, <1>4
    DEF Evident, Kept, RecoveryTypeOK, Safe, Heads, JobTypeOK, TrustedShows, head
  <2> QED
    BY <1>2, <2>1 DEF Evident
<1> QED
  BY <1>3, <1>4
  DEF RecoveryNext, Edit, dr_vars, all_vars, Evident, Kept, RecoveryTypeOK

(* At the start there is neither archive nor head.                         *)
LEMMA EvidentInit == Init0 => Evident
<1> SUFFICES ASSUME Init0 PROVE Evident
  OBVIOUS
<1>1. Safe /\ Truth /\ Steady
  BY SafeInit, TruthInit, SteadyInit DEF Init0
<1>2. Kept
  BY <1>1
  DEF Init0, Safe, Kept, RecoveryTypeOK, Heads, JobTypeOK, NoJob, JobPlaces, MaybeEvidence,
      TrustedShows
<1> QED
  BY <1>1, <1>2 DEF Evident

(* Whatever is killed, restored, lost and edited, evidence that hides a BUY *)
(* is not fit to be kept, and an archive that a rehearsal accepts, whatever *)
(* was lost from it, hides nothing that had been sent when the trusted head *)
(* was captured (dr_journals.py:264, :535).                                *)
THEOREM EvidenceShowsTheBuy == RecoverySpec => []EvidenceHidesNothing
<1>1. Evident => FitShowsTheBuy
  BY SourceTyped, FitShows DEF Evident, Kept, FitShowsTheBuy
<1>2. Evident => AcceptedHidesNothing
  BY DEF Evident, Kept, TrustedShows, AcceptedHidesNothing, rehearsed, head
<1> QED
  BY <1>1, <1>2, EvidentInit, EvidentStep, PTL DEF RecoverySpec, EvidenceHidesNothing, Evident, Kept

(* What a snapshot seals is what the host had when it was last compared,   *)
(* although `reconcile` and the broker go on (dr_journals.py:407).         *)
THEOREM SealedIsTheSource == RecoverySpec => [][SealedAsItStood]_all_vars
<1>1. Evident /\ [RecoveryNext]_all_vars => [SealedAsItStood]_all_vars
  <2> SUFFICES ASSUME Evident, RecoveryNext, job.pc = "check_journals", job'.pc = "seal"
               PROVE  [job.stage EXCEPT !.enabled = enabled] = Source
    BY DEF SealedAsItStood, Doing
  <2>1. CheckJournals
    BY NoCandidateAssumption
    DEF Evident, Kept, Heads, JobTypeOK, RecoveryNext, Trade, StartJob, Begin, Job, JobKilled, Edit, dr_vars, Settings, ReadJournals,
        Captured, CopySettings, CopyJournals, CheckCopy, CheckSettings, Seal, Doing, Quit, NoJob
  <2>2. head(HeadRead) = head(job.before) /\ head(job.stage) = head(job.before)
        /\ job.before \in Evidence /\ job.stage \in Evidence
    BY <2>1 DEF CheckJournals, Doing, Evident, Kept, Heads, Quit, NoJob
  <2>3. job.stage.claim = claim /\ job.stage.fences = fences /\ job.stage.ledger = ledger
        /\ job.stage.protection = protection
    BY <2>2, HeadReadTyped DEF head, Evident, Kept
  <2> QED
    BY <2>2, <2>3 DEF Source, Evidence
<1> QED
  BY <1>1, EvidentInit, EvidentStep, PTL DEF RecoverySpec

(* The evidence that is there is fit to be kept.                           *)
Linked ==
  \A c \in Candidates :
    /\ ledger[c] # "absent" => protection[c] # "absent"
    /\ protection[c] \notin {"absent", "PLANNED"} => ledger[c] # "absent"

Controlled ==
  IF claim = NoCandidate /\ fences = {}
  THEN enabled = "off" /\ ledger = NoRows.ledger /\ protection = NoRows.protection
  ELSE /\ claim # NoCandidate
       /\ "stop-dispatch" \in fences => "buy-dispatch" \in fences
       /\ "buy-dispatch" \in fences => ledger[claim] # "absent"

(* What head() demands of the host, by its variables.                      *)
LEMMA FitIs == Fit(Source) <=> Linked /\ Controlled
BY DEF Fit, linked_actions, once_control, NotEnrolled, Source, Linked, Controlled

(* The same of the state after a step.                                     *)
LEMMA FitIsNext == Fit(Source)' <=> Linked' /\ Controlled'
BY FitIs, PTL

(* A command leaves them fit.                                              *)
LEMMA CommandFit ==
  ASSUME Safe, Truth, Steady, Command, UNCHANGED enabled, Linked, Controlled
  PROVE  Linked' /\ Controlled'
<1> USE DEF Safe, Steady, Unclaiming, At, me
<1>p. /\ ProcessTypeOK /\ BrokerTypeOK
      /\ ledger \in [Candidates -> Statuses] /\ protection \in [Candidates -> Protections]
  BY DEF TypeOK, ProcessTypeOK
<1>c. process.pc # "idle" => process.candidate \in Candidates /\ process.candidate # NoCandidate
  BY NoCandidateAssumption DEF InCommand
<1>1. CASE UNCHANGED <<claim, fences, ledger, protection>>
  BY <1>1 DEF Linked, Controlled
<1>2. CASE CreateClaim
  BY <1>c, <1>2 DEF CreateClaim, Linked, Controlled, NoRows
<1>3. CASE Prepare
  BY <1>p, <1>c, <1>3 DEF Prepare, Protection, Linked, Controlled
<1>4. CASE Reserve \/ NotSubmitted \/ RecordSeen
  <2>1. PICK status \in Statuses \ {"absent"} : Recorded(status)
    BY <1>p, <1>4
    DEF Reserve, NotSubmitted, RecordSeen, ProcessTypeOK, Statuses, Pending, TERMINAL
  <2>2. /\ process.pc \notin Unclaiming \cup {"prepare"} /\ UNCHANGED <<claim, fences, protection>>
    BY <1>4 DEF Reserve, NotSubmitted, RecordSeen
  <2> QED
    BY <1>p, <1>c, <2>1, <2>2 DEF Recorded, Linked, Controlled
<1>5. CASE ReserveStop \/ StopNotDispatched \/ StopUnknown \/ StopAnswered
             \/ StopVerified
  <2>1. PICK state \in Protections \ {"absent"} : Protection(state)
    BY <1>5
    DEF ReserveStop, StopNotDispatched, StopUnknown, StopAnswered, StopVerified, Protections
  <2>2. /\ process.pc \notin Unclaiming \cup {"prepare", "reserve"}
        /\ UNCHANGED <<claim, fences, ledger>>
    BY <1>5 DEF ReserveStop, StopNotDispatched, StopUnknown, StopAnswered, StopVerified
  <2> QED
    BY <1>p, <1>c, <2>1, <2>2 DEF Protection, Linked, Controlled
<1>6. CASE BuyFence \/ CancelFence \/ StopFence \/ Raise \/ Finish
  <2>1. UNCHANGED <<claim, ledger, protection>> /\ claim = process.candidate
        /\ process.pc \notin Unclaiming
    BY <1>6 DEF BuyFence, CancelFence, StopFence, Raise, Finish, dispatch, NotInTry
  <2>2. /\ "stop-dispatch" \in fences' => "stop-dispatch" \in fences \/ "buy-dispatch" \in fences
        /\ "buy-dispatch" \in fences => "buy-dispatch" \in fences'
        /\ "buy-dispatch" \in fences' => "buy-dispatch" \in fences \/ ledger[claim] # "absent"
    BY <1>6, <2>1 DEF BuyFence, CancelFence, StopFence, Raise, Finish, dispatch, InCommand, AfterBuyFence, Places
  <2> QED
    BY <1>c, <2>1, <2>2 DEF Linked, Controlled
<1>7. CASE Preflight \/ GatePassed \/ WaitIsOver \/ CancelAnswered \/ NotFilled \/ Filled
             \/ StopGatePassed \/ Submit \/ Cancel \/ PostStop \/ Kill \/ Looks
  BY <1>1, <1>7, LooksStep
  DEF Preflight, GatePassed, WaitIsOver, CancelAnswered, NotFilled, Filled, StopGatePassed,
      Submit, Cancel, PostStop, Kill
<1> QED
  BY <1>2, <1>3, <1>4, <1>5, <1>6, <1>7 DEF Command, Looks

(* Every step of a session, a kill among them, and of `reconcile` leaves   *)
(* fit evidence fit: a trade need not be taken apart to be backed up       *)
(* (dr_journals.py:230-275, prod_long_once.py:298-420).                    *)
THEOREM SessionsLeaveEvidence == RecoverySpec => [][SessionsLeaveItFit]_all_vars
<1>1. Evident /\ [RecoveryNext]_all_vars => [SessionsLeaveItFit]_all_vars
  <2> SUFFICES ASSUME Evident, RecoveryNext, process' # process \/ reading' # reading,
                      Linked, Controlled
               PROVE  Linked' /\ Controlled'
    BY FitIs, FitIsNext DEF SessionsLeaveItFit
  <2>1. Trade /\ UNCHANGED enabled
    BY DEF RecoveryNext, StartJob, Job, JobKilled, Edit, vars, once_vars, dr_vars
  <2>2. CASE Command
    BY <2>1, <2>2, CommandFit DEF Evident
  <2>3. CASE \E c \in Candidates : Recover(c) \/ Run(c) \/ ReconcileLookup(c)
    BY <2>1, <2>3 DEF Recover, Run, ReconcileLookup, Linked, Controlled
  <2>4. CASE ReconcileRecord
    <3>1. ledger \in [Candidates -> Statuses] /\ reading.candidate \in Candidates \cup {NoCandidate}
      BY DEF Evident, Safe, TypeOK, MaybeCandidate
    <3>2. reading.candidate \in Candidates => reading.status # "absent"
      BY DEF Evident, Steady
    <3>3. \A c \in Candidates : ledger'[c] = "absent" <=> ledger[c] = "absent"
      BY <2>4, <3>1, <3>2 DEF ReconcileRecord, Recordable, Pending
    <3>4. ledger = NoRows.ledger => ledger' = ledger
      BY <2>4, <3>1, <3>2 DEF ReconcileRecord, Recordable, Pending, NoRows
    <3>5. claim \in Candidates \cup {NoCandidate}
      BY DEF Evident, Safe, TypeOK, MaybeCandidate
    <3> QED
      BY <2>1, <2>4, <3>3, <3>4, <3>5 DEF ReconcileRecord, Linked, Controlled
  <2>5. CASE Restore \/ ClaimLost \/ Outside
    BY <2>5 DEF Restore, ClaimLost, Outside, once_vars
  <2> QED
    BY <2>1, <2>2, <2>3, <2>4, <2>5 DEF Trade
<1> QED
  BY <1>1, EvidentInit, EvidentStep, PTL DEF RecoverySpec

------------------------------------------------------------------------------
(* The three machines of MCBeside, each of which moves alone.              *)

(* The one that moves is never another one.                                *)
LEMMA PartStays == [BesideNext]_beside_vars => part' = part
BY DEF BesideNext, beside_vars

(* A report of the observer that wakes nobody up describes the trade as it *)
(* stood at one moment while the observer read (prod_once_observer.py:42,  *)
(* :85): of the observer, every behaviour is one of its own specification. *)
THEOREM ObserverStaysRight == BesideSpec => []ObserverIsRight
<1> DEFINE P == part = "observer"
<1>1. BesideInit /\ P => ObservedInit
  BY DEF BesideInit
<1>2. [BesideNext]_beside_vars /\ P => [ObservedNext]_<<vars, observer_vars>>
  BY DEF BesideNext, beside_vars, all_vars
<1>3. [BesideNext]_beside_vars => (P' <=> P)
  BY PartStays
<1>4. P => (ReportIsTrue => ObserverIsRight)
  BY DEF ObserverIsRight
<1>5. ~ P => ObserverIsRight
  BY DEF ObserverIsRight
<1> HIDE DEF P
<1> QED
  BY <1>1, <1>2, <1>3, <1>4, <1>5, ObserverReportsTruth, PTL DEF BesideSpec, ObservedSpec

(* So is every behaviour of the capture of evidence.                       *)
LEMMA RecoveryMovesAlone ==
  /\ BesideInit /\ part = "recovery" => Init0
  /\ [BesideNext]_beside_vars /\ part = "recovery" => [RecoveryNext]_all_vars
BY DEF BesideInit, BesideNext, beside_vars

(* No evidence that is captured, archived or accepted hides a BUY that was *)
(* sent (dr_journals.py:264, :535).                                        *)
THEOREM ArchivesStayTrue == BesideSpec => []ArchivesHideNothing
<1> DEFINE P == part = "recovery"
<1>1. BesideInit /\ P => Init0
  BY RecoveryMovesAlone
<1>2. [BesideNext]_beside_vars /\ P => [RecoveryNext]_all_vars
  BY RecoveryMovesAlone
<1>3. [BesideNext]_beside_vars => (P' <=> P)
  BY PartStays
<1>4. P => (EvidenceHidesNothing => ArchivesHideNothing)
  BY DEF ArchivesHideNothing
<1>5. ~ P => ArchivesHideNothing
  BY DEF ArchivesHideNothing
<1> HIDE DEF P
<1> QED
  BY <1>1, <1>2, <1>3, <1>4, <1>5, EvidenceShowsTheBuy, PTL DEF BesideSpec, RecoverySpec

(* Sessions leave fit evidence, and a snapshot seals what there was        *)
(* (dr_journals.py:230, :407).                                             *)
THEOREM EvidenceStaysFit == BesideSpec => EvidenceIsKept
<1>1. BesideInit /\ part = "recovery" => Init0
  BY RecoveryMovesAlone
<1>2. [BesideNext]_beside_vars /\ part = "recovery" => [RecoveryNext]_all_vars
  BY RecoveryMovesAlone
<1>3. [BesideNext]_beside_vars => ((part = "recovery")' <=> part = "recovery")
  BY PartStays
<1>4. [SessionsLeaveItFit]_all_vars /\ [SealedAsItStood]_all_vars =>
        [part = "recovery" => SessionsLeaveItFit /\ SealedAsItStood]_beside_vars
  BY DEF SessionsLeaveItFit, SealedAsItStood, Doing, all_vars, vars, once_vars, dr_vars
<1>5. part # "recovery" =>
        [part = "recovery" => SessionsLeaveItFit /\ SealedAsItStood]_beside_vars
  OBVIOUS
<1> QED
  BY <1>1, <1>2, <1>3, <1>4, <1>5, SessionsLeaveEvidence, SealedIsTheSource, PTL
  DEF BesideSpec, RecoverySpec, EvidenceIsKept

(* The sale beside the supervised entry stays safe (live_operator.py:385): *)
(* what SupervisedTradeProofs shows, of the machine in this composition.   *)
THEOREM CanaryStaysSafeBeside == BesideSpec => []CanaryIsSafe
<1> DEFINE P == part = "canary"
<1>1. BesideInit /\ P => Canary!CanaryInit
  BY DEF BesideInit
<1>2. [BesideNext]_beside_vars /\ P => [Canary!CanaryNext]_Canary!all_vars
  BY DEF BesideNext, beside_vars, all_vars, vars, once_vars, broker_vars, canary,
         Canary!all_vars, Canary!vars, Canary!broker_vars, Canary!trade_vars, Canary!permits
<1>3. [BesideNext]_beside_vars => (P' <=> P)
  BY PartStays
<1>4. P => (Canary!CanaryIsSafe => CanaryIsSafe)
  BY DEF CanaryIsSafe
<1>5. ~ P => CanaryIsSafe
  BY DEF CanaryIsSafe
<1>6. Canary!CanarySpec => []Canary!CanaryIsSafe
  <2>1. MaxPolls \in Nat
    BY PollsAssumption
  <2> QED
    BY <2>1, Canary!CanaryStaysSafe
<1> HIDE DEF P
<1> QED
  BY <1>1, <1>2, <1>3, <1>4, <1>5, <1>6, PTL DEF BesideSpec, Canary!CanarySpec
==============================================================================
