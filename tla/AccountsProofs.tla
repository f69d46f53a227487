------------------------------ MODULE AccountsProofs ------------------------------
(***************************************************************************)
(* Proofs about the replacement of the sandbox accounts, about the         *)
(* bootstrap of an installation, and about the incidents that are          *)
(* announced, each of which moves alone in MCAccounts: for every set of    *)
(* state files and of checks, and every bound on starts, previews and      *)
(* deaths.                                                                 *)
(***************************************************************************)
EXTENDS MCAccounts, TLAPS, SequenceTheorems, WellFoundedInduction

------------------------------------------------------------------------------
(* Replacement of the accounts.                                            *)

(* What the variables hold.                                                *)
Places == {"idle", "item", "create", "creating", "fund", "pay", "paying", "bind",
           "bound", "close", "shut", "closing", "end"}
Process == [at : Places, file : Files \cup {NoFile}, who : Profiles, request : Nat]
Owners == (Files \cup {NoFile}) \X Profiles
Orders == [account : Nat, amount : Nat]
Closings == [account : Nat, by : Owners]

AccountRow == [name : Owners, open : BOOLEAN, balance : Nat, paid : Nat, holding : Nat]
RequestRow == [do : {"open", "pay", "close"}, on : Owners \cup Orders \cup Closings,
               state : {"travelling", "done"}, answer : Nat]
PreviewRow == [old : Nat \X Nat, holding : [Profiles -> Nat]]
StateRow == [preview : Nat \ {0}, bound : BOOLEAN,
             status : [Profiles -> {"not_started", "create_pending", "created",
                                    "funding_pending", "funded"}],
             id : [Profiles -> Nat], closed : [Profiles -> {"no", "close_pending", "verified"}]]

(* Every variable has its type, and the command works on a file that is in *)
(* use.                                                                    *)
ReplacementTypes ==
  /\ account \in Seq(AccountRow)
  /\ requests \in Seq(RequestRow)
  /\ bindings \in [long : Nat, intraday : Nat, legacy : Nat]
  /\ process \in Process
  /\ previews \in Seq(PreviewRow)
  /\ saved \in [Files -> StateRow \cup {NoState}]
  /\ ~Idle => process.file \in Files /\ InUse(process.file)

(* What a request is about, and that its answer is true.                   *)
OpeningIsKnown(q) ==
  /\ \E f \in Files, p \in Profiles : q.on = <<f, p>> /\ InUse(f)
  /\ q.state = "done" => q.answer \in Account /\ account[q.answer].name = q.on

(* A payment was announced in the file whose account it is for.            *)
PaymentIsKnown(q) ==
  \E a \in Account, f \in Files, p \in Profiles :
    /\ q.on = [account |-> a, amount |-> Target]
    /\ InUse(f) /\ saved[f].id[p] = a
    /\ saved[f].status[p] \in {"funding_pending", "funded"}

(* What is asked to be closed was replaced before, and the closing noted.  *)
ClosingIsKnown(q) ==
  \E f \in Files, p \in Profiles :
    /\ InUse(f) /\ saved[f].bound /\ saved[f].closed[p] # "no"
    /\ q.on = Closing(f, p)

(* Every request is known to a state file.                                 *)
RequestsAreKnown ==
  \A r \in DOMAIN requests :
    /\ requests[r].do = "open" => OpeningIsKnown(requests[r])
    /\ requests[r].do = "pay" => PaymentIsKnown(requests[r])
    /\ requests[r].do = "close" => ClosingIsKnown(requests[r])

(* No account is asked for twice, none is paid twice, and no operation     *)
(* asks twice to close one.                                                *)
OnceEach ==
  \A r, s \in DOMAIN requests :
    requests[r].do = requests[s].do /\ requests[r].on = requests[s].on => r = s

(* An account of an operation was asked for, and has what was paid to it,  *)
(* or less; one that is closed was asked to be.                            *)
PaidOnce(a) ==
  \/ account[a].paid = 0 /\ account[a].balance = 0
  \/ /\ account[a].paid = 1
     /\ \E r \in DOMAIN requests :
          /\ requests[r].do = "pay" /\ requests[r].state = "done"
          /\ requests[r].on = [account |-> a, amount |-> Target]

AccountsAreTrue ==
  \A a \in Account :
    /\ \A f \in Files, p \in Profiles : account[a].name = <<f, p>> =>
         Sent("open", <<f, p>>) # {} /\ PaidOnce(a)
    /\ ~account[a].open => AskedToClose(a) # {}

(* A state file says what was asked for and what is so.                    *)
StateIsTrue(f, p) ==
  LET s == saved[f] IN
  /\ s.preview \in DOMAIN previews
  /\ s.status[p] = "not_started" => Sent("open", <<f, p>>) = {}
  /\ s.status[p] \in {"not_started", "create_pending"} => s.id[p] = NoAccount
  /\ s.status[p] \notin {"not_started", "create_pending"} =>
       s.id[p] \in Account /\ account[s.id[p]].name = <<f, p>>
  /\ s.status[p] = "funded" => account[s.id[p]].paid = 1
  /\ s.bound => s.status[p] = "funded"
  /\ s.closed[p] = "verified" => ~account[previews[s.preview].old[p]].open

(* Of a file that is not in use nothing was asked.                         *)
StatesAreTrue ==
  \A f \in Files, p \in Profiles :
    IF InUse(f) THEN StateIsTrue(f, p) ELSE Sent("open", <<f, p>>) = {}

(* Both new accounts have their money.                                     *)
BothFunded == \A p \in Profiles : State.status[p] = "funded"

(* Where the command stands, that much was saved, and no more was asked    *)
(* for.                                                                    *)
InPlace ==
  ~Idle =>
    /\ At("create") => State.status[Who] = "create_pending" /\ Sent("open", Name) = {}
    /\ At("creating") =>
         /\ State.status[Who] = "create_pending" /\ process.request \in DOMAIN requests
         /\ requests[process.request].do = "open" /\ requests[process.request].on = Name
    /\ process.at \in {"fund", "pay", "paying"} =>
         State.status[Who] \in {"created", "funding_pending", "funded"}
    /\ process.at \in {"pay", "paying"} => State.status[Who] = "funding_pending"
    /\ At("pay") => Sent("pay", [account |-> New, amount |-> Target]) = {}
    /\ process.at \in {"item", "create", "creating", "fund", "pay", "paying"} /\ Who = 2 =>
         State.status[1] = "funded"
    /\ At("bind") => BothFunded /\ Who = 1
    /\ At("bound") =>
         /\ BothFunded
         /\ bindings.long = State.id[1] /\ bindings.intraday = State.id[2]
    /\ process.at \in {"close", "shut", "closing", "end"} => State.bound
    /\ At("shut") =>
         State.closed[Who] = "close_pending" /\ Sent("close", Closing(File, Who)) = {}

(* The accounts that were confirmed are not those that the operation       *)
(* opened.                                                                 *)
PreviewsAreOlder ==
  \A k \in DOMAIN previews, p \in Profiles :
    /\ previews[k].old[p] \in Account
    /\ \A f \in Files, q \in Profiles :
         InUse(f) /\ saved[f].preview = k => account[previews[k].old[p]].name # <<f, q>>

(* The bindings name two accounts; not those that an operation has         *)
(* replaced, unless they were given back.                                  *)
SwitchedForward ==
  /\ bindings.long \in Account /\ bindings.intraday \in Account
  /\ bindings.long # bindings.intraday /\ bindings.legacy = bindings.long
  /\ ~returned =>
       \A f \in Files, p \in Profiles : InUse(f) /\ saved[f].bound =>
         previews[saved[f].preview].old[p] \notin {bindings.long, bindings.intraday}

(* The inductive invariant of the replacement.                             *)
ReplacementInv ==
  /\ ReplacementTypes /\ RequestsAreKnown /\ OnceEach /\ AccountsAreTrue /\ StatesAreTrue
  /\ InPlace /\ PreviewsAreOlder /\ SwitchedForward

------------------------------------------------------------------------------
(* What is appended leaves what was there where it was.                    *)
LEMMA Sends ==
  ASSUME ReplacementTypes, NEW act \in {"open", "pay", "close"}, NEW on \in Owners \cup Orders \cup Closings,
         Send(act, on)
  PROVE  /\ requests' \in Seq(RequestRow)
         /\ DOMAIN requests' = DOMAIN requests \cup {Len(requests) + 1}
         /\ Len(requests) + 1 \notin DOMAIN requests /\ Len(requests) + 1 \in Nat
         /\ \A r \in DOMAIN requests : requests'[r] = requests[r]
         /\ requests'[Len(requests) + 1] = Request(act, on)
<1>1. requests \in Seq(RequestRow) /\ Request(act, on) \in RequestRow
  BY DEF ReplacementTypes, Request, RequestRow, NoAccount
<1> QED
  BY <1>1 DEF Send

(* The rows of a typed state.                                              *)
LEMMA Rows ==
  ASSUME ReplacementTypes
  PROVE  /\ \A a \in Account : account[a] \in AccountRow /\ a \in Nat /\ a # NoAccount
         /\ \A r \in DOMAIN requests : requests[r] \in RequestRow /\ r \in Nat
         /\ \A k \in DOMAIN previews :
              previews[k] \in PreviewRow /\ k \in Nat \ {0}
         /\ \A f \in Files : InUse(f) => saved[f] \in StateRow
         /\ Len(account) \in Nat /\ Len(requests) \in Nat /\ Len(previews) \in Nat
         /\ Account = 1..Len(account) /\ DOMAIN previews = 1..Len(previews)
<1>1. /\ account \in Seq(AccountRow) /\ requests \in Seq(RequestRow)
      /\ previews \in Seq(PreviewRow)
  BY DEF ReplacementTypes
<1>2. /\ Len(account) \in Nat /\ Account = 1..Len(account)
      /\ \A a \in Account : account[a] \in AccountRow /\ a \in Nat /\ a # NoAccount
  BY <1>1 DEF Account, NoAccount
<1>3. /\ Len(requests) \in Nat
      /\ \A r \in DOMAIN requests : requests[r] \in RequestRow /\ r \in Nat
  BY <1>1
<1>4. /\ Len(previews) \in Nat /\ DOMAIN previews = 1..Len(previews)
      /\ \A k \in DOMAIN previews :
           previews[k] \in PreviewRow /\ k \in Nat \ {0}
  <2>1. Len(previews) \in Nat /\ DOMAIN previews = 1..Len(previews)
        /\ \A k \in 1..Len(previews) : previews[k] \in PreviewRow
    BY <1>1
  <2> QED
    BY <2>1
<1>5. \A f \in Files : InUse(f) => saved[f] \in StateRow
  BY DEF ReplacementTypes, InUse
<1> QED
  BY <1>2, <1>3, <1>4, <1>5

(* An account is changed.                                                  *)
LEMMA RowReplaced ==
  ASSUME account \in Seq(AccountRow), NEW a \in Account, NEW row \in AccountRow,
         account' = [account EXCEPT ![a] = row]
  PROVE  /\ account' \in Seq(AccountRow) /\ Account' = Account
         /\ account'[a] = row
         /\ \A b \in Account : b # a => account'[b] = account[b]
BY DEF Account

(* The installation as it is found.                                        *)
LEMMA InitReplacement == ASSUME FilesAssumption, Init PROVE ReplacementInv
<1>1. /\ DOMAIN account = {1, 2} /\ requests = <<>> /\ previews = <<>>
      /\ DOMAIN requests = {} /\ DOMAIN previews = {}
      /\ \A p \in {1, 2} : account[p] = [NewAccount(<<NoFile, p>>) EXCEPT !.balance = Target]
  BY DEF Init, Profiles
<1>2. ReplacementTypes
  <2>1. account \in [1..2 -> AccountRow]
    BY <1>1 DEF Init, AccountRow, NewAccount, Owners, Profiles, Target
  <2>2. account \in Seq(AccountRow)
    <3>1. ASSUME NEW n \in Nat, NEW S PROVE [1..n -> S] \subseteq Seq(S)
      BY SeqDef
    <3> QED
      BY <2>1, <3>1
  <2> QED
    BY <1>1, <2>2 DEF ReplacementTypes, Process, Init, AtRest, Places, Profiles, NoState, Idle
<1>3. RequestsAreKnown /\ OnceEach /\ StatesAreTrue /\ InPlace /\ PreviewsAreOlder
  BY <1>1 DEF RequestsAreKnown, OnceEach, StatesAreTrue, InPlace, PreviewsAreOlder, Init, InUse,
              NoState, Sent, Idle, AtRest
<1>4. AccountsAreTrue
  BY <1>1 DEF AccountsAreTrue, Account, NewAccount, NoFile, FilesAssumption
<1>5. SwitchedForward
  BY <1>1 DEF SwitchedForward, Init, Account, InUse, NoState
<1> QED
  BY <1>2, <1>3, <1>4, <1>5 DEF ReplacementInv

(* Where the command stands is a matter of what it saved and asked for.    *)
LEMMA PlaceStays ==
  ASSUME InPlace, UNCHANGED <<bindings, process, saved, previews>>,
         DOMAIN requests' = DOMAIN requests,
         \A r \in DOMAIN requests :
           requests'[r].do = requests[r].do /\ requests'[r].on = requests[r].on
  PROVE  InPlace'
<1>1. /\ Idle' = Idle /\ State' = State /\ Who' = Who /\ Name' = Name /\ New' = New
      /\ BothFunded' = BothFunded /\ \A place : At(place)' = At(place)
      /\ File' = File /\ Closing(File, Who)' = Closing(File, Who)
  BY DEF At, State, File, Who, Name, New, Idle, BothFunded, Closing
<1>2. /\ Sent("open", Name)' = Sent("open", Name)
      /\ Sent("pay", [account |-> New, amount |-> Target])'
           = Sent("pay", [account |-> New, amount |-> Target])
      /\ Sent("close", Closing(File, Who))' = Sent("close", Closing(File, Who))
  BY <1>1 DEF Sent
<1> QED
  BY <1>1, <1>2 DEF InPlace

(* The broker executes a request that is on its way.                       *)
LEMMA OpenKeeps ==
  ASSUME FilesAssumption, ReplacementInv, NEW r \in DOMAIN requests,
         requests[r].state = "travelling", Open(r), UNCHANGED <<bindings, process, files>>
  PROVE  ReplacementInv'
<1>0. PICK new : new = Len(account) + 1
  OBVIOUS
<1> USE DEF ReplacementInv
<1>1. /\ requests' = [requests EXCEPT ![r].state = "done", ![r].answer = new]
      /\ account' = Append(account, NewAccount(requests[r].on))
      /\ requests[r].do = "open" /\ requests[r] \in RequestRow
  BY <1>0, Rows DEF Open, InState
<1>2. PICK f \in Files, p \in Profiles : requests[r].on = <<f, p>> /\ InUse(f)
  BY <1>1 DEF RequestsAreKnown, OpeningIsKnown
<1>3. /\ Account' = Account \cup {new} /\ new \notin Account /\ new \in Nat
      /\ \A a \in Account : account'[a] = account[a]
      /\ account'[new] = NewAccount(<<f, p>>)
      /\ account' \in Seq(AccountRow)
  <2>1. NewAccount(<<f, p>>) \in AccountRow
    BY DEF NewAccount, AccountRow, Owners
  <2> QED
    BY <1>0, <1>1, <1>2, <2>1, Rows DEF Account, ReplacementTypes
<1>4. /\ DOMAIN requests' = DOMAIN requests
      /\ \A s \in DOMAIN requests :
           /\ requests'[s].do = requests[s].do /\ requests'[s].on = requests[s].on
           /\ s # r => requests'[s] = requests[s]
      /\ requests'[r].state = "done" /\ requests'[r].answer = new
      /\ requests' \in Seq(RequestRow)
  <2>1. requests \in Seq(RequestRow) /\ requests \in [1..Len(requests) -> RequestRow]
    BY DEF ReplacementTypes
  <2>2. requests' \in [1..Len(requests) -> RequestRow]
    BY <1>1, <1>3, <2>1, Rows DEF RequestRow
  <2>3. requests' \in Seq(RequestRow)
    BY <2>1, <2>2
  <2> QED
    BY <1>1, <2>1, <2>3, Rows DEF RequestRow
<1>5. /\ \A act, on : Sent(act, on)' = Sent(act, on)
      /\ \A b : AskedToClose(b)' = AskedToClose(b)
  BY <1>4 DEF Sent, AskedToClose
<1>6. saved' = saved /\ previews' = previews /\ process' = process /\ bindings' = bindings
      /\ returned' = returned
  BY DEF files
<1>7. ReplacementTypes'
  BY <1>3, <1>4, <1>6 DEF ReplacementTypes, Idle, InUse
<1>8. RequestsAreKnown'
  <2>1. \A q : OpeningIsKnown(q) => OpeningIsKnown(q)'
    BY <1>3, <1>6 DEF OpeningIsKnown, InUse
  <2>2. \A q : PaymentIsKnown(q) => PaymentIsKnown(q)'
    BY <1>3, <1>6 DEF PaymentIsKnown, InUse
  <2>3. \A q : ClosingIsKnown(q) => ClosingIsKnown(q)'
    BY <1>3, <1>6 DEF ClosingIsKnown, Closing, InUse
  <2>4. requests'[r].do = "open" /\ OpeningIsKnown(requests[r])'
    <3>1. /\ requests'[r].on = <<f, p>> /\ requests'[r].answer = new /\ new \in Account'
          /\ account'[new].name = <<f, p>> /\ InUse(f)'
      BY <1>2, <1>3, <1>4, <1>6 DEF InUse, NewAccount
    <3> QED
      BY <1>1, <1>4, <3>1 DEF OpeningIsKnown
  <2> QED
    BY <1>4, <2>1, <2>2, <2>3, <2>4 DEF RequestsAreKnown
<1>9. OnceEach'
  BY <1>4 DEF OnceEach
<1>10. AccountsAreTrue'
  <2>1. Sent("open", <<f, p>>) # {}
    BY <1>1, <1>2 DEF Sent
  <2>2. account'[new].name = <<f, p>> /\ account'[new].open /\ account'[new].paid = 0
        /\ account'[new].balance = 0
    BY <1>3 DEF NewAccount
  <2>3. \A a \in Account : PaidOnce(a) => PaidOnce(a)'
    BY <1>1, <1>3, <1>4 DEF PaidOnce
  <2>4. PaidOnce(new)'
    BY <2>2 DEF PaidOnce
  <2> QED
    BY <1>3, <1>5, <2>1, <2>2, <2>3, <2>4 DEF AccountsAreTrue
<1>11. StatesAreTrue'
  <2>1. ASSUME NEW g \in Files, NEW q \in Profiles, InUse(g), StateIsTrue(g, q)
        PROVE  StateIsTrue(g, q)'
    <3>1. previews[saved[g].preview].old[q] \in Account
      BY <2>1 DEF StateIsTrue, PreviewsAreOlder
    <3> QED
      BY <1>3, <1>5, <1>6, <2>1, <3>1 DEF StateIsTrue
  <2> QED
    BY <1>5, <1>6, <2>1 DEF StatesAreTrue, InUse
<1>12. InPlace'
  BY <1>4, <1>5, <1>6, PlaceStays
<1>13. PreviewsAreOlder'
  BY <1>3, <1>6 DEF PreviewsAreOlder, InUse
<1>14. SwitchedForward'
  BY <1>3, <1>6 DEF SwitchedForward, InUse
<1> QED
  BY <1>7, <1>8, <1>9, <1>10, <1>11, <1>12, <1>13, <1>14

(* A payment that was on its way arrives.                                  *)
LEMMA PayInKeeps ==
  ASSUME FilesAssumption, ReplacementInv, NEW r \in DOMAIN requests,
         requests[r].state = "travelling", PayIn(r), UNCHANGED <<bindings, process, files>>
  PROVE  ReplacementInv'
<1> USE DEF ReplacementInv
<1>0. PICK a : a = requests[r].on.account
  OBVIOUS
<1>1. /\ requests[r].do = "pay" /\ requests[r] \in RequestRow
      /\ PaymentIsKnown(requests[r])
  BY Rows DEF PayIn, RequestsAreKnown
<1>2. /\ a \in Account /\ requests[r].on = [account |-> a, amount |-> Target]
  BY <1>0, <1>1 DEF PaymentIsKnown
<1>3. PICK f \in Files, p \in Profiles :
        InUse(f) /\ saved[f].id[p] = a /\ saved[f].status[p] \in {"funding_pending", "funded"}
  BY <1>1, <1>2 DEF PaymentIsKnown
<1>4. account[a].name = <<f, p>> /\ PaidOnce(a)
  <2>1. StateIsTrue(f, p)
    BY <1>3 DEF StatesAreTrue
  <2>2. account[a].name = <<f, p>>
    BY <1>3, <2>1 DEF StateIsTrue
  <2> QED
    BY <1>2, <2>2 DEF AccountsAreTrue
<1>5. account[a].paid = 0 /\ account[a].balance = 0
  <2>1. ~\E s \in DOMAIN requests : /\ requests[s].do = "pay" /\ requests[s].state = "done"
                                    /\ requests[s].on = [account |-> a, amount |-> Target]
    <3> SUFFICES ASSUME NEW s \in DOMAIN requests, requests[s].do = "pay", requests[s].state = "done",
                        requests[s].on = [account |-> a, amount |-> Target]
                 PROVE  FALSE
      OBVIOUS
    <3>1. s = r
      BY <1>1, <1>2 DEF OnceEach
    <3> QED
      BY <3>1
  <2> QED
    BY <1>4, <2>1 DEF PaidOnce
<1>6. /\ account' = [account EXCEPT ![a] = [@ EXCEPT !.balance = 1, !.paid = 1]]
      /\ requests' = [requests EXCEPT ![r] = [@ EXCEPT !.state = "done", !.answer = a]]
  <2>1. requests[r].on.amount = 1
    BY <1>2 DEF Target
  <2>2. /\ account' = [account EXCEPT ![a].balance = @ + requests[r].on.amount, ![a].paid = @ + 1]
        /\ InState(r, "done", a)
    BY <1>0 DEF PayIn
  <2>3. account[a].balance + requests[r].on.amount = 1 /\ account[a].paid + 1 = 1
    BY <1>5, <2>1
  <2>4. account[a] \in AccountRow
    BY <1>2, Rows
  <2> QED
    BY <1>2, <2>2, <2>3, <2>4 DEF InState, AccountRow
<1>7. /\ Account' = Account
      /\ \A b \in Account : account'[b].name = account[b].name
      /\ \A b \in Account : account'[b].open = account[b].open
      /\ \A b \in Account : b # a => account'[b] = account[b]
      /\ account'[a].paid = 1
      /\ account' \in Seq(AccountRow)
  <2>1. account \in [1..Len(account) -> AccountRow] /\ account \in Seq(AccountRow)
    BY Rows DEF Account, ReplacementTypes
  <2>2. [account[a] EXCEPT !.balance = 1, !.paid = 1] \in AccountRow
    BY <1>2, Rows DEF AccountRow
  <2>3. account' \in Seq(AccountRow)
    <3>1. account' = [account EXCEPT ![a] = [account[a] EXCEPT !.balance = 1, !.paid = 1]]
      BY <1>6
    <3> QED
      BY <1>2, <2>1, <2>2, <3>1 DEF Account
  <2> QED
    BY <1>2, <1>6, <2>1, <2>3, Rows DEF Account, AccountRow
<1>8. /\ DOMAIN requests' = DOMAIN requests
      /\ \A s \in DOMAIN requests :
           /\ requests'[s].do = requests[s].do /\ requests'[s].on = requests[s].on
           /\ s # r => requests'[s] = requests[s]
      /\ requests'[r].state = "done"
      /\ requests' \in Seq(RequestRow)
  <2>1. requests \in Seq(RequestRow)
    BY DEF ReplacementTypes
  <2>2. [requests[r] EXCEPT !.state = "done", !.answer = a] \in RequestRow
    BY <1>1, <1>2, Rows DEF RequestRow
  <2>3. requests' \in Seq(RequestRow)
    BY <1>6, <2>1, <2>2
  <2> QED
    BY <1>6, <2>3, Rows DEF RequestRow
<1>9. /\ \A act, on : Sent(act, on)' = Sent(act, on)
      /\ \A b : AskedToClose(b)' = AskedToClose(b)
  BY <1>8 DEF Sent, AskedToClose
<1>10. saved' = saved /\ previews' = previews /\ process' = process /\ bindings' = bindings
      /\ returned' = returned
  BY DEF files
<1>11. ReplacementTypes'
  BY <1>7, <1>8, <1>10 DEF ReplacementTypes, Idle, InUse
<1>12. RequestsAreKnown'
  <2>1. \A q : OpeningIsKnown(q) => OpeningIsKnown(q)'
    BY <1>7, <1>10 DEF OpeningIsKnown, InUse
  <2>2. \A q : PaymentIsKnown(q) => PaymentIsKnown(q)'
    BY <1>7, <1>10 DEF PaymentIsKnown, InUse
  <2>3. \A q : ClosingIsKnown(q) => ClosingIsKnown(q)'
    BY <1>7, <1>10 DEF ClosingIsKnown, Closing, InUse
  <2>4. PaymentIsKnown(requests'[r])
    BY <1>1, <1>8 DEF PaymentIsKnown
  <2> QED
    BY <1>1, <1>8, <2>1, <2>2, <2>3, <2>4 DEF RequestsAreKnown
<1>13. OnceEach'
  BY <1>8 DEF OnceEach
<1>14. AccountsAreTrue'
  <2>1. PaidOnce(a)'
    BY <1>1, <1>2, <1>7, <1>8 DEF PaidOnce
  <2>2. \A b \in Account \ {a} : PaidOnce(b) => PaidOnce(b)'
    <3>1. \A s \in DOMAIN requests : requests[s].state = "done" => s # r
      OBVIOUS
    <3> QED
      BY <1>7, <1>8, <3>1 DEF PaidOnce
  <2> QED
    BY <1>7, <1>9, <2>1, <2>2 DEF AccountsAreTrue
<1>15. StatesAreTrue'
  <2>1. ASSUME NEW g \in Files, NEW q \in Profiles, InUse(g), StateIsTrue(g, q)
        PROVE  StateIsTrue(g, q)'
    <3>1. previews[saved[g].preview].old[q] \in Account
      BY <2>1 DEF StateIsTrue, PreviewsAreOlder
    <3>2. saved[g].status[q] = "funded" => saved[g].id[q] \in Account
      BY <2>1 DEF StateIsTrue
    <3> QED
      BY <1>7, <1>9, <1>10, <2>1, <3>1, <3>2 DEF StateIsTrue
  <2> QED
    BY <1>9, <1>10, <2>1 DEF StatesAreTrue, InUse
<1>16. InPlace'
  BY <1>8, <1>9, <1>10, PlaceStays
<1>17. PreviewsAreOlder'
  BY <1>7, <1>10 DEF PreviewsAreOlder, InUse
<1>18. SwitchedForward'
  BY <1>7, <1>10 DEF SwitchedForward, InUse
<1> QED
  BY <1>11, <1>12, <1>13, <1>14, <1>15, <1>16, <1>17, <1>18

(* An account is closed: it was bound by an operation that has switched.   *)
LEMMA CloseKeeps ==
  ASSUME FilesAssumption, ReplacementInv, NEW r \in DOMAIN requests,
         requests[r].state = "travelling", CloseAccount(r), UNCHANGED <<bindings, process, files>>
  PROVE  ReplacementInv'
<1> USE DEF ReplacementInv
<1>0. PICK a : a = requests[r].on.account
  OBVIOUS
<1>1. /\ requests[r].do = "close" /\ requests[r] \in RequestRow
      /\ ClosingIsKnown(requests[r])
  BY Rows DEF CloseAccount, RequestsAreKnown
<1>2. a \in Account
  <2>1. PICK f \in Files, p \in Profiles :
          InUse(f) /\ a = previews[saved[f].preview].old[p]
    BY <1>0, <1>1 DEF ClosingIsKnown, Closing
  <2>2. saved[f].preview \in DOMAIN previews
    BY <2>1 DEF StatesAreTrue, StateIsTrue
  <2> QED
    BY <2>1, <2>2 DEF PreviewsAreOlder
<1>3. /\ account' = [account EXCEPT ![a] = [account[a] EXCEPT !.open = FALSE]]
      /\ requests' = [requests EXCEPT ![r] = [requests[r] EXCEPT !.state = "done", !.answer = a]]
  <2>1. account' = [account EXCEPT ![a].open = FALSE] /\ InState(r, "done", a)
    BY <1>0 DEF CloseAccount
  <2> QED
    BY <1>1, <1>2, <2>1, Rows DEF InState, AccountRow, RequestRow
<1>4. /\ Account' = Account
      /\ \A b \in Account :
           /\ account'[b].name = account[b].name
           /\ account'[b].paid = account[b].paid
           /\ account'[b].balance = account[b].balance
      /\ \A b \in Account : account'[b].open => account[b].open
      /\ \A b \in Account : b # a => account'[b].open = account[b].open
      /\ account' \in Seq(AccountRow)
  <2>1. account \in [1..Len(account) -> AccountRow] /\ account \in Seq(AccountRow)
    BY Rows DEF Account, ReplacementTypes
  <2>2. [account[a] EXCEPT !.open = FALSE] \in AccountRow
    BY <1>2, Rows DEF AccountRow
  <2>3. account' \in Seq(AccountRow)
    BY <1>2, <1>3, <2>1, <2>2 DEF Account
  <2> QED
    BY <1>2, <1>3, <2>1, <2>3, Rows DEF Account, AccountRow
<1>5. /\ DOMAIN requests' = DOMAIN requests
      /\ \A s \in DOMAIN requests :
           /\ requests'[s].do = requests[s].do /\ requests'[s].on = requests[s].on
           /\ s # r => requests'[s] = requests[s]
      /\ requests' \in Seq(RequestRow)
  <2>1. requests \in Seq(RequestRow)
    BY DEF ReplacementTypes
  <2>2. [requests[r] EXCEPT !.state = "done", !.answer = a] \in RequestRow
    BY <1>1, <1>2, Rows DEF RequestRow
  <2>3. requests' \in Seq(RequestRow)
    BY <1>3, <2>1, <2>2
  <2> QED
    BY <1>3, <2>3, Rows DEF RequestRow
<1>6. /\ \A act, on : Sent(act, on)' = Sent(act, on)
      /\ \A b : AskedToClose(b)' = AskedToClose(b)
  BY <1>5 DEF Sent, AskedToClose
<1>7. saved' = saved /\ previews' = previews /\ process' = process /\ bindings' = bindings
      /\ returned' = returned
  BY DEF files
<1>8. ReplacementTypes'
  BY <1>4, <1>5, <1>7 DEF ReplacementTypes, Idle, InUse
<1>9. RequestsAreKnown'
  <2>1. \A q : OpeningIsKnown(q) => OpeningIsKnown(q)'
    BY <1>4, <1>7 DEF OpeningIsKnown, InUse
  <2>2. \A q : PaymentIsKnown(q) => PaymentIsKnown(q)'
    BY <1>4, <1>7 DEF PaymentIsKnown, InUse
  <2>3. \A q : ClosingIsKnown(q) => ClosingIsKnown(q)'
    BY <1>7 DEF ClosingIsKnown, Closing, InUse
  <2>4. ClosingIsKnown(requests'[r])
    BY <1>1, <1>5 DEF ClosingIsKnown
  <2> QED
    BY <1>1, <1>5, <2>1, <2>2, <2>3, <2>4 DEF RequestsAreKnown
<1>10. OnceEach'
  BY <1>5 DEF OnceEach
<1>11. AccountsAreTrue'
  <2>1. \A b \in Account : PaidOnce(b) => PaidOnce(b)'
    <3>1. \A s \in DOMAIN requests : requests[s].state = "done" => s # r
      OBVIOUS
    <3> QED
      BY <1>4, <1>5, <3>1 DEF PaidOnce
  <2>2. AskedToClose(a) # {}
    BY <1>0, <1>1 DEF AskedToClose
  <2> QED
    BY <1>4, <1>6, <2>1, <2>2 DEF AccountsAreTrue
<1>12. StatesAreTrue'
  <2>1. ASSUME NEW g \in Files, NEW q \in Profiles, InUse(g), StateIsTrue(g, q)
        PROVE  StateIsTrue(g, q)'
    <3>1. previews[saved[g].preview].old[q] \in Account
      BY <2>1 DEF StateIsTrue, PreviewsAreOlder
    <3>2. saved[g].status[q] = "funded" => saved[g].id[q] \in Account
      BY <2>1 DEF StateIsTrue
    <3> QED
      BY <1>4, <1>6, <1>7, <2>1, <3>1, <3>2 DEF StateIsTrue
  <2> QED
    BY <1>6, <1>7, <2>1 DEF StatesAreTrue, InUse
<1>13. InPlace'
  BY <1>5, <1>7, PlaceStays
<1>14. PreviewsAreOlder'
  BY <1>4, <1>7 DEF PreviewsAreOlder, InUse
<1>15. SwitchedForward'
  BY <1>4, <1>7 DEF SwitchedForward, InUse
<1> QED
  BY <1>8, <1>9, <1>10, <1>11, <1>12, <1>13, <1>14, <1>15

(* The services trade between the commands.                                *)
LEMMA TradeKeeps ==
  ASSUME FilesAssumption, ReplacementInv, Trade, UNCHANGED files
  PROVE  ReplacementInv'
<1> USE DEF ReplacementInv
<1>1. PICK a \in Account : account' = [account EXCEPT ![a].holding = 1, ![a].balance = 0]
  BY DEF Trade, IsOpen
<1>2. /\ requests' = requests /\ saved' = saved /\ previews' = previews /\ process' = process
      /\ bindings' = bindings /\ returned' = returned
  BY DEF Trade, files
<1>3. account' = [account EXCEPT ![a] = [account[a] EXCEPT !.holding = 1, !.balance = 0]]
  BY <1>1, Rows DEF AccountRow
<1>4. /\ Account' = Account
      /\ \A b \in Account :
           /\ account'[b].name = account[b].name
           /\ account'[b].paid = account[b].paid
           /\ account'[b].open = account[b].open
           /\ account[b].balance = 0 => account'[b].balance = 0
      /\ account' \in Seq(AccountRow)
  <2>1. [account[a] EXCEPT !.holding = 1, !.balance = 0] \in AccountRow
    BY <1>1, Rows DEF AccountRow
  <2>2. /\ account' \in Seq(AccountRow) /\ Account' = Account
        /\ account'[a] = [account[a] EXCEPT !.holding = 1, !.balance = 0]
        /\ \A b \in Account : b # a => account'[b] = account[b]
    BY <1>1, <1>3, <2>1, RowReplaced DEF ReplacementTypes
  <2>3. account[a] \in AccountRow
    BY <1>1, Rows
  <2>4. /\ account'[a].name = account[a].name /\ account'[a].paid = account[a].paid
        /\ account'[a].open = account[a].open /\ account'[a].balance = 0
    BY <2>2, <2>3 DEF AccountRow
  <2> QED
    BY <2>2, <2>4
<1>5. /\ \A act, on : Sent(act, on)' = Sent(act, on)
      /\ \A b : AskedToClose(b)' = AskedToClose(b)
  BY <1>2 DEF Sent, AskedToClose
<1>6. ReplacementTypes' /\ OnceEach' /\ InPlace'
  BY <1>2, <1>4, <1>5, PlaceStays DEF ReplacementTypes, Idle, InUse, OnceEach
<1>7. RequestsAreKnown'
  <2>1. \A q : OpeningIsKnown(q) => OpeningIsKnown(q)'
    BY <1>2, <1>4 DEF OpeningIsKnown, InUse
  <2>2. \A q : PaymentIsKnown(q) => PaymentIsKnown(q)'
    BY <1>2, <1>4 DEF PaymentIsKnown, InUse
  <2>3. \A q : ClosingIsKnown(q) => ClosingIsKnown(q)'
    BY <1>2 DEF ClosingIsKnown, Closing, InUse
  <2> QED
    BY <1>2, <2>1, <2>2, <2>3 DEF RequestsAreKnown
<1>8. AccountsAreTrue'
  BY <1>2, <1>4, <1>5 DEF AccountsAreTrue, PaidOnce
<1>9. StatesAreTrue'
  <2>1. ASSUME NEW g \in Files, NEW q \in Profiles, InUse(g), StateIsTrue(g, q)
        PROVE  StateIsTrue(g, q)'
    <3>1. previews[saved[g].preview].old[q] \in Account
      BY <2>1 DEF StateIsTrue, PreviewsAreOlder
    <3>2. saved[g].status[q] = "funded" => saved[g].id[q] \in Account
      BY <2>1 DEF StateIsTrue
    <3> QED
      BY <1>2, <1>4, <1>5, <2>1, <3>1, <3>2 DEF StateIsTrue
  <2> QED
    BY <1>2, <1>5, <2>1 DEF StatesAreTrue, InUse
<1>10. PreviewsAreOlder' /\ SwitchedForward'
  BY <1>2, <1>4 DEF PreviewsAreOlder, SwitchedForward, InUse
<1> QED
  BY <1>6, <1>7, <1>8, <1>9, <1>10
------------------------------------------------------------------------------

(* There are two profiles.                                                 *)
LEMMA TwoProfiles == Profiles = {1, 2} /\ 1 \in Profiles /\ 2 \in Profiles
BY DEF Profiles

(* The command goes on, or to the next profile.                            *)
LEMMA Goes ==
  ASSUME ReplacementTypes, NEW place \in Places, Goto(place)
  PROVE  /\ process' \in Process /\ process'.at = place
         /\ process'.file = process.file /\ process'.who = process.who
BY DEF ReplacementTypes, Process, Goto

(* Where the command goes after a profile.                                 *)
LEMMA GoesToNext ==
  ASSUME ReplacementTypes, NEW place \in Places, NEW after \in Places, NextProfile(place, after)
  PROVE  /\ process' \in Process /\ process'.file = process.file
         /\ process.who = 1 => process'.at = place /\ process'.who = 2
         /\ process.who = 2 => process'.at = after /\ process'.who = 1
<1>1. process \in Process /\ process.who \in {1, 2}
  BY DEF ReplacementTypes, Process, Profiles
<1>2. CASE process.who = 1
  <2>1. process' = [process EXCEPT !.at = place, !.who = 2, !.request = 0]
    BY <1>2 DEF NextProfile, Who
  <2>2. process' = [at |-> place, file |-> process.file, who |-> 2, request |-> 0]
    BY <1>1, <2>1 DEF Process
  <2>3. 2 \in Profiles /\ 1 # 2
    BY TwoProfiles
  <2> QED
    BY <1>1, <1>2, <2>2, <2>3 DEF Process
<1>3. CASE process.who = 2
  <2>1. process' = [process EXCEPT !.at = after, !.who = 1, !.request = 0]
    BY <1>3 DEF NextProfile, Who
  <2>2. process' = [at |-> after, file |-> process.file, who |-> 1, request |-> 0]
    BY <1>1, <2>1 DEF Process
  <2>3. 1 \in Profiles /\ 1 # 2
    BY TwoProfiles
  <2> QED
    BY <1>1, <1>3, <2>2, <2>3 DEF Process
<1> QED
  BY <1>1, <1>2, <1>3

(* A step that asks for nothing and writes nothing.                        *)
LEMMA NothingMoves ==
  ASSUME ReplacementInv, UNCHANGED <<account, requests, bindings, previews, saved, returned>>,
         process' \in Process, process'.at # "idle" => process'.file \in Files /\ InUse(process'.file),
         InPlace'
  PROVE  ReplacementInv'
<1> USE DEF ReplacementInv
<1>1. ReplacementTypes'
  BY DEF ReplacementTypes, Idle, InUse
<1>2. /\ \A act, on : Sent(act, on)' = Sent(act, on)
      /\ \A b : AskedToClose(b)' = AskedToClose(b)
  BY DEF Sent, AskedToClose
<1>3. RequestsAreKnown' /\ OnceEach'
  <2>1. \A q : ClosingIsKnown(q)' = ClosingIsKnown(q)
    BY DEF ClosingIsKnown, Closing, InUse
  <2>2. \A q : OpeningIsKnown(q)' = OpeningIsKnown(q)
    BY DEF OpeningIsKnown, InUse, Account
  <2>3. \A q : PaymentIsKnown(q)' = PaymentIsKnown(q)
    BY DEF PaymentIsKnown, InUse, Account
  <2>4. RequestsAreKnown'
    BY <2>1, <2>2, <2>3 DEF RequestsAreKnown
  <2>5. OnceEach'
    BY DEF OnceEach
  <2> QED
    BY <2>4, <2>5
<1>4. AccountsAreTrue' /\ StatesAreTrue'
  <2>1. AccountsAreTrue'
    BY <1>2 DEF AccountsAreTrue, PaidOnce, Account
  <2>2. \A f \in Files, p \in Profiles : StateIsTrue(f, p) => StateIsTrue(f, p)'
    BY <1>2 DEF StateIsTrue, Account
  <2>3. StatesAreTrue'
    BY <1>2, <2>2 DEF StatesAreTrue, InUse
  <2> QED
    BY <2>1, <2>3
<1>5. PreviewsAreOlder' /\ SwitchedForward'
  BY DEF PreviewsAreOlder, SwitchedForward, InUse, Account
<1> QED
  BY <1>1, <1>3, <1>4, <1>5

(* The command that runs has a state file.                                 *)
LEMMA Running ==
  ASSUME ReplacementInv, ~Idle
  PROVE  /\ File \in Files /\ InUse(File) /\ State \in StateRow /\ Who \in Profiles
         /\ process \in Process
         /\ \A p \in Profiles : StateIsTrue(File, p)
BY Rows DEF ReplacementInv, ReplacementTypes, Process, File, State, Who, StatesAreTrue

(* A step that only writes the state file.                                 *)
LEMMA OneFileMoves ==
  ASSUME ReplacementInv, ~Idle, UNCHANGED <<account, requests, bindings, previews, returned>>,
         NEW row \in StateRow, saved' = [saved EXCEPT ![File] = row],
         row.preview = State.preview, State.bound => row.bound,
         \A p \in Profiles : State.status[p] \in {"funding_pending", "funded"} =>
           row.status[p] \in {"funding_pending", "funded"} /\ row.id[p] = State.id[p],
         \A p \in Profiles : State.closed[p] # "no" => row.closed[p] # "no",
         \A p \in Profiles : StateIsTrue(File, p)',
         row.bound = State.bound \/ At("bound"),
         process' \in Process, process'.file = process.file,
         InPlace'
  PROVE  ReplacementInv'
<1> USE DEF ReplacementInv
<1>0. /\ File \in Files /\ InUse(File) /\ State = saved[File] /\ State \in StateRow
      /\ \A p \in Profiles : StateIsTrue(File, p)
  BY Running DEF State
<1>1. /\ \A f \in Files : InUse(f)' = InUse(f)
      /\ saved'[File] = row
      /\ \A f \in Files : f # File => saved'[f] = saved[f]
      /\ saved' \in [Files -> StateRow \cup {NoState}]
  <2>1. saved \in [Files -> StateRow \cup {NoState}]
    BY DEF ReplacementTypes
  <2>2. row # NoState
    BY DEF StateRow, NoState
  <2> QED
    BY <1>0, <2>1, <2>2 DEF InUse
<1>2. ReplacementTypes'
  BY <1>0, <1>1 DEF ReplacementTypes, Idle, InUse, File
<1>3. /\ \A act, on : Sent(act, on)' = Sent(act, on)
      /\ \A b : AskedToClose(b)' = AskedToClose(b)
  BY DEF Sent, AskedToClose
<1>4. RequestsAreKnown'
  <2>1. \A q : OpeningIsKnown(q) => OpeningIsKnown(q)'
    BY <1>1 DEF OpeningIsKnown, Account
  <2>2. \A q : PaymentIsKnown(q) => PaymentIsKnown(q)'
    BY <1>0, <1>1 DEF PaymentIsKnown, Account
  <2>3. ASSUME NEW q, ClosingIsKnown(q) PROVE ClosingIsKnown(q)'
    <3>1. PICK f \in Files, p \in Profiles :
            /\ InUse(f) /\ saved[f].bound /\ saved[f].closed[p] # "no"
            /\ q.on = [account |-> previews[saved[f].preview].old[p], by |-> <<f, p>>]
      BY <2>3 DEF ClosingIsKnown, Closing
    <3>2. /\ saved'[f].bound /\ saved'[f].closed[p] # "no"
          /\ saved'[f].preview = saved[f].preview /\ InUse(f)'
      BY <1>0, <1>1, <3>1
    <3> QED
      BY <3>1, <3>2 DEF ClosingIsKnown, Closing
  <2> QED
    BY <2>1, <2>2, <2>3 DEF RequestsAreKnown
<1>5. OnceEach' /\ AccountsAreTrue'
  BY <1>3 DEF OnceEach, AccountsAreTrue, PaidOnce, Account
<1>6. StatesAreTrue'
  <2>1. ASSUME NEW f \in Files, NEW p \in Profiles, f # File, StateIsTrue(f, p)
        PROVE  StateIsTrue(f, p)'
    <3>1. saved'[f] = saved[f]
      BY <1>1, <2>1
    <3> QED
      BY <1>3, <2>1, <3>1 DEF StateIsTrue, Account
  <2>2. File' = File
    BY DEF File
  <2> QED
    BY <1>0, <1>1, <1>3, <2>1, <2>2 DEF StatesAreTrue
<1>7. PreviewsAreOlder'
  BY <1>0, <1>1 DEF PreviewsAreOlder, Account
<1>8. SwitchedForward'
  <2>1. ASSUME At("bound"), NEW p \in Profiles
        PROVE  previews[State.preview].old[p] \notin {bindings.long, bindings.intraday}
    <3>1. /\ bindings.long = State.id[1] /\ bindings.intraday = State.id[2]
          /\ \A q \in Profiles : State.status[q] = "funded"
      BY <2>1 DEF InPlace, BothFunded
    <3>2. \A q \in Profiles : account[State.id[q]].name = <<File, q>>
      BY <1>0, <3>1 DEF StateIsTrue
    <3>3. \A q \in Profiles : account[previews[State.preview].old[p]].name # <<File, q>>
      <4>1. State.preview \in DOMAIN previews
        BY <1>0, <2>1 DEF StateIsTrue
      <4> QED
        BY <1>0, <2>1, <4>1 DEF PreviewsAreOlder
    <3>4. /\ account[State.id[1]].name = <<File, 1>> /\ account[State.id[2]].name = <<File, 2>>
          /\ account[previews[State.preview].old[p]].name # <<File, 1>>
          /\ account[previews[State.preview].old[p]].name # <<File, 2>>
      BY <3>2, <3>3, TwoProfiles
    <3> QED
      BY <3>1, <3>4
  <2> QED
    BY <1>0, <1>1, <2>1 DEF SwitchedForward, Account
<1> QED
  BY <1>2, <1>4, <1>5, <1>6, <1>7, <1>8
(* What a state file says of the other profile stands.                     *)
LEMMA SaysTheSame ==
  ASSUME NEW f \in Files, NEW p \in Profiles, StateIsTrue(f, p),
         UNCHANGED <<account, requests, previews>>,
         saved'[f].preview = saved[f].preview, saved'[f].bound = saved[f].bound,
         saved'[f].status[p] = saved[f].status[p], saved'[f].id[p] = saved[f].id[p],
         saved'[f].closed[p] = saved[f].closed[p]
  PROVE  StateIsTrue(f, p)'
BY DEF StateIsTrue, Sent, Account

(* A new status of the profile in hand.                                    *)
LEMMA StatusIs ==
  ASSUME ReplacementInv, ~Idle, UNCHANGED <<account, requests, bindings, previews, returned>>,
         NEW value \in {"create_pending", "created", "funding_pending", "funded"}, NEW a \in Nat,
         saved' = [saved EXCEPT ![File] = [State EXCEPT !.status[Who] = value, !.id[Who] = a]],
         ~State.bound \/ value = "funded",
         State.status[Who] \in {"funding_pending", "funded"} =>
           value \in {"funding_pending", "funded"} /\ a = State.id[Who],
         IF value = "create_pending" THEN a = NoAccount
         ELSE a \in Account /\ account[a].name = Name,
         value = "funded" => account[a].paid = 1,
         process' \in Process, process'.file = process.file,
         State' = [State EXCEPT !.status[Who] = value, !.id[Who] = a] => InPlace'
  PROVE  ReplacementInv'
<1>1. /\ File \in Files /\ Who \in Profiles /\ State \in StateRow /\ State = saved[File]
      /\ saved \in [Files -> StateRow \cup {NoState}]
      /\ \A p \in Profiles : StateIsTrue(File, p)
  BY Running DEF State, ReplacementInv, ReplacementTypes
<1>2. PICK row : row = [State EXCEPT !.status[Who] = value, !.id[Who] = a]
  OBVIOUS
<1>3. /\ row \in StateRow /\ row.preview = State.preview /\ row.bound = State.bound
      /\ row.closed = State.closed /\ row.status[Who] = value /\ row.id[Who] = a
      /\ \A p \in Profiles : p # Who =>
           row.status[p] = State.status[p] /\ row.id[p] = State.id[p]
  BY <1>1, <1>2 DEF StateRow
<1>4. saved' = [saved EXCEPT ![File] = row] /\ saved'[File] = row
  BY <1>1, <1>2
<1>5. State' = row
  BY <1>4 DEF State, File
<1>6. File' = File
  BY DEF File
<1>7. \A p \in Profiles : StateIsTrue(File, p)'
  <2>1. ASSUME NEW p \in Profiles, p # Who PROVE StateIsTrue(File, p)'
    <3>1. PICK f \in Files : f = File
      BY <1>1
    <3>2. StateIsTrue(f, p)'
      BY <1>1, <1>3, <1>4, <2>1, <3>1, SaysTheSame
    <3> QED
      BY <1>6, <3>1, <3>2
  <2>2. ASSUME NEW p \in Profiles, p = Who PROVE StateIsTrue(File, p)'
    <3>1. /\ saved'[File'] = row /\ Name = <<File, p>>
          /\ row.status[p] = value /\ row.id[p] = a /\ row.closed[p] = State.closed[p]
      BY <1>3, <1>4, <1>6, <2>2 DEF Name
    <3>2. StateIsTrue(File, p) /\ State = saved[File] /\ row.preview = State.preview
          /\ row.bound = State.bound
      BY <1>1, <1>3
    <3> QED
      BY <1>6, <3>1, <3>2 DEF StateIsTrue, Sent, Account
  <2> QED
    BY <2>1, <2>2
<1>8. \A p \in Profiles : State.status[p] \in {"funding_pending", "funded"} =>
        row.status[p] \in {"funding_pending", "funded"} /\ row.id[p] = State.id[p]
  BY <1>3
<1>9. InPlace'
  BY <1>2, <1>5
<1>10. \A p \in Profiles : State.closed[p] # "no" => row.closed[p] # "no"
  BY <1>3
<1> QED
  BY <1>3, <1>4, <1>7, <1>8, <1>9, <1>10, OneFileMoves, ZenonT(60)
(* A new status leaves the account as it is.                               *)
LEMMA StatusLeavesTheAccount ==
  ASSUME ReplacementInv, ~Idle, NEW value, Status(value)
  PROVE  saved' = [saved EXCEPT ![File] =
                     [State EXCEPT !.status[Who] = value, !.id[Who] = State.id[Who]]]
<1>1. /\ State \in StateRow /\ Who \in Profiles /\ State = saved[File]
  BY Running DEF State
<1>2. [State.id EXCEPT ![Who] = State.id[Who]] = State.id /\ State.id \in [Profiles -> Nat]
  BY <1>1 DEF StateRow
<1>3. [State EXCEPT !.status[Who] = value, !.id[Who] = State.id[Who]] = [State EXCEPT !.status[Who] = value]
  BY <1>1, <1>2 DEF StateRow
<1> QED
  BY <1>1, <1>3 DEF Status

------------------------------------------------------------------------------
(* The steps of sandbox-replace.                                           *)
LEMMA AnnounceCreateKeeps == ASSUME ReplacementInv, AnnounceCreate PROVE ReplacementInv'
<1>1. /\ ~Idle /\ At("item") /\ State.status[Who] = "not_started"
      /\ Status("create_pending") /\ Goto("create")
      /\ UNCHANGED <<account, requests, bindings, previews, returned>>
  BY DEF AnnounceCreate, Quiet, Kept, At, Idle
<1>2. /\ File \in Files /\ Who \in Profiles /\ State \in StateRow /\ State = saved[File]
      /\ StateIsTrue(File, Who)
  BY <1>1, Running DEF State
<1>3. State.id[Who] = NoAccount /\ ~State.bound /\ Sent("open", Name) = {}
  BY <1>1, <1>2 DEF StateIsTrue, Name
<1>4. saved' = [saved EXCEPT ![File] = [State EXCEPT !.status[Who] = "create_pending",
                                                      !.id[Who] = NoAccount]]
  BY <1>1, <1>3, StatusLeavesTheAccount
<1>5. process' \in Process /\ process'.file = File /\ process'.who = Who /\ process'.at = "create"
  BY <1>1, Goes DEF ReplacementInv, Places, File, Who
<1>6. ASSUME State' = [State EXCEPT !.status[Who] = "create_pending", !.id[Who] = NoAccount]
      PROVE  InPlace'
  <2>1. /\ State'.status[Who] = "create_pending"
        /\ \A p \in Profiles : p # Who => State'.status[p] = State.status[p]
    BY <1>2, <1>6 DEF StateRow
  <2>2. Name' = Name /\ Who' = Who
    BY <1>5 DEF Name, File, Who
  <2>3. Sent("open", Name)' = {}
    BY <1>1, <1>3, <2>2 DEF Sent
  <2>4. Who = 2 => State.status[1] = "funded"
    BY <1>1 DEF ReplacementInv, InPlace, At, Idle
  <2> QED
    BY <1>5, <2>1, <2>2, <2>3, <2>4, TwoProfiles DEF InPlace, At
<1>7. NoAccount \in Nat
  BY DEF NoAccount
<1> QED
  BY <1>1, <1>2, <1>3, <1>4, <1>5, <1>6, <1>7, StatusIs DEF File

(* The answer names the account that was opened.                           *)
LEMMA CreateAnsweredKeeps == ASSUME ReplacementInv, CreateAnswered PROVE ReplacementInv'
<1>1. /\ ~Idle /\ At("creating") /\ Answered
      /\ Created(Answer) /\ Goto("fund")
      /\ UNCHANGED <<account, requests, bindings, previews, returned>>
  BY DEF CreateAnswered, Quiet, Kept, At, Idle
<1>2. /\ File \in Files /\ Who \in Profiles /\ State \in StateRow /\ State = saved[File]
      /\ StateIsTrue(File, Who)
  BY <1>1, Running DEF State
<1>3. /\ State.status[Who] = "create_pending" /\ ~State.bound
      /\ requests[process.request].do = "open" /\ requests[process.request].on = Name
      /\ process.request \in DOMAIN requests /\ (Who = 2 => State.status[1] = "funded")
  BY <1>1, <1>2 DEF ReplacementInv, InPlace, StateIsTrue, At
<1>4. PICK a : a = Answer
  OBVIOUS
<1>5. a \in Account /\ account[a].name = Name /\ a \in Nat
  BY <1>1, <1>3, <1>4, Rows
     DEF ReplacementInv, RequestsAreKnown, OpeningIsKnown, Answered, Answer
<1>6. saved' = [saved EXCEPT ![File] = [State EXCEPT !.status[Who] = "created", !.id[Who] = a]]
  BY <1>1, <1>2, <1>4 DEF Created, StateRow
<1>7. process' \in Process /\ process'.file = File /\ process'.who = Who /\ process'.at = "fund"
  BY <1>1, Goes DEF ReplacementInv, Places, File, Who
<1>8. ASSUME State' = [State EXCEPT !.status[Who] = "created", !.id[Who] = a]
      PROVE  InPlace'
  <2>1. /\ State'.status[Who] = "created"
        /\ \A p \in Profiles : p # Who => State'.status[p] = State.status[p]
    BY <1>2, <1>8 DEF StateRow
  <2>2. Who' = Who
    BY <1>7 DEF Who
  <2> QED
    BY <1>3, <1>7, <2>1, <2>2, TwoProfiles DEF InPlace, At
<1> QED
  BY <1>1, <1>2, <1>3, <1>5, <1>6, <1>7, <1>8, StatusIs DEF File

(* The account that carries the name is the one that was asked for.        *)
LEMMA FindCreatedKeeps == ASSUME ReplacementInv, FindCreated PROVE ReplacementInv'
<1>1. /\ ~Idle /\ At("item") /\ State.status[Who] = "create_pending" /\ Goto("fund")
      /\ UNCHANGED <<account, requests, bindings, previews, returned>>
  BY DEF FindCreated, Quiet, Kept, At, Idle
<1>2. /\ File \in Files /\ Who \in Profiles /\ State \in StateRow /\ State = saved[File]
      /\ StateIsTrue(File, Who)
  BY <1>1, Running DEF State
<1>3. ~State.bound /\ (Who = 2 => State.status[1] = "funded")
  BY <1>1, <1>2 DEF ReplacementInv, InPlace, StateIsTrue, At
<1>4. PICK a \in Account : Named(Name) = {a} /\ Created(a)
  BY DEF FindCreated
<1>5. account[a].name = Name /\ a \in Nat
  BY <1>4, Rows DEF ReplacementInv, Named
<1>6. saved' = [saved EXCEPT ![File] = [State EXCEPT !.status[Who] = "created", !.id[Who] = a]]
  BY <1>2, <1>4 DEF Created, StateRow
<1>7. process' \in Process /\ process'.file = File /\ process'.who = Who /\ process'.at = "fund"
  BY <1>1, Goes DEF ReplacementInv, Places, File, Who
<1>8. ASSUME State' = [State EXCEPT !.status[Who] = "created", !.id[Who] = a]
      PROVE  InPlace'
  <2>1. /\ State'.status[Who] = "created"
        /\ \A p \in Profiles : p # Who => State'.status[p] = State.status[p]
    BY <1>2, <1>8 DEF StateRow
  <2>2. Who' = Who
    BY <1>7 DEF Who
  <2> QED
    BY <1>3, <1>7, <2>1, <2>2, TwoProfiles DEF InPlace, At
<1> QED
  BY <1>1, <1>2, <1>3, <1>4, <1>5, <1>6, <1>7, <1>8, StatusIs DEF File

(* An account of the operation with the balance of the target was paid.    *)
LEMMA BalanceMeansPaid ==
  ASSUME ReplacementInv, ~Idle, State.status[Who] \in {"created", "funding_pending", "funded"}
  PROVE  /\ New \in Account /\ New \in Nat /\ account[New].name = Name
         /\ account[New].balance = Target => account[New].paid = 1
<1>1. /\ File \in Files /\ Who \in Profiles /\ State = saved[File]
      /\ StateIsTrue(File, Who)
  BY Running DEF State
<1>2. New \in Account /\ New \in Nat /\ account[New].name = Name
  BY <1>1, Rows DEF StateIsTrue, New, Name, ReplacementInv
<1>3. PaidOnce(New)
  BY <1>1, <1>2 DEF ReplacementInv, AccountsAreTrue, Name
<1> QED
  BY <1>2, <1>3 DEF PaidOnce, Target

(* A profile is found to be funded, or was paid.                           *)
LEMMA FundedKeeps ==
  ASSUME ReplacementInv, ~Idle, State.status[Who] \in {"created", "funding_pending", "funded"},
         process.at \in {"fund", "paying"}, account[New].balance = Target,
         Status("funded"), NextProfile("item", "bind"),
         UNCHANGED <<account, requests, bindings, previews, returned>>
  PROVE  ReplacementInv'
<1>2. /\ File \in Files /\ Who \in Profiles /\ State \in StateRow /\ State = saved[File]
      /\ StateIsTrue(File, Who)
  BY Running DEF State
<1>3. Who = 2 => State.status[1] = "funded"
  BY DEF ReplacementInv, InPlace, At
<1>4. saved' = [saved EXCEPT ![File] = [State EXCEPT !.status[Who] = "funded", !.id[Who] = New]]
  BY StatusLeavesTheAccount DEF New
<1>5. /\ process' \in Process /\ process'.file = File
      /\ Who = 1 => process'.at = "item" /\ process'.who = 2
      /\ Who = 2 => process'.at = "bind" /\ process'.who = 1
  BY GoesToNext DEF ReplacementInv, Places, File, Who
<1>6. ASSUME State' = [State EXCEPT !.status[Who] = "funded", !.id[Who] = New]
      PROVE  InPlace'
  <2>1. /\ State'.status[Who] = "funded"
        /\ \A p \in Profiles : p # Who => State'.status[p] = State.status[p]
    BY <1>2, <1>6 DEF StateRow
  <2>2. CASE Who = 1
    BY <1>5, <2>1, <2>2 DEF InPlace, At
  <2>3. CASE Who = 2
    <3>1. \A p \in Profiles : State'.status[p] = "funded"
      BY <1>3, <2>1, <2>3, TwoProfiles
    <3>2. BothFunded' /\ Who' = 1 /\ process'.at = "bind"
      BY <1>5, <2>3, <3>1 DEF BothFunded, Who
    <3> QED
      BY <3>2 DEF InPlace, At
  <2> QED
    BY <1>2, <2>2, <2>3, TwoProfiles
<1> QED
  BY <1>2, <1>4, <1>5, <1>6, BalanceMeansPaid, StatusIs DEF File, New

(* The balance is found.                                                   *)
LEMMA FoundFundedKeeps == ASSUME ReplacementInv, FoundFunded PROVE ReplacementInv'
<1>1. /\ ~Idle /\ process.at = "fund" /\ account[New].balance = Target
      /\ Status("funded") /\ NextProfile("item", "bind")
      /\ UNCHANGED <<account, requests, bindings, previews, returned>>
  BY DEF FoundFunded, Quiet, Kept, At, Idle
<1>2. State.status[Who] \in {"created", "funding_pending", "funded"}
  BY <1>1 DEF ReplacementInv, InPlace, At
<1> QED
  BY <1>1, <1>2, FundedKeeps

(* The payment is answered.                                                *)
LEMMA PayAnsweredKeeps == ASSUME ReplacementInv, PayAnswered PROVE ReplacementInv'
<1>1. /\ ~Idle /\ process.at = "paying" /\ account[New].balance = Target
      /\ Status("funded") /\ NextProfile("item", "bind")
      /\ UNCHANGED <<account, requests, bindings, previews, returned>>
  BY DEF PayAnswered, Quiet, Kept, At, Idle
<1>2. State.status[Who] \in {"created", "funding_pending", "funded"}
  BY <1>1 DEF ReplacementInv, InPlace, At
<1> QED
  BY <1>1, <1>2, FundedKeeps

(* The payment is announced before it is asked for.                        *)
LEMMA AnnounceFundingKeeps == ASSUME ReplacementInv, AnnounceFunding PROVE ReplacementInv'
<1>1. /\ ~Idle /\ At("fund") /\ State.status[Who] = "created"
      /\ Status("funding_pending") /\ Goto("pay")
      /\ UNCHANGED <<account, requests, bindings, previews, returned>>
  BY DEF AnnounceFunding, Quiet, Kept, At, Idle
<1>2. /\ File \in Files /\ Who \in Profiles /\ State \in StateRow /\ State = saved[File]
      /\ StateIsTrue(File, Who)
  BY <1>1, Running DEF State
<1>3. ~State.bound /\ (Who = 2 => State.status[1] = "funded")
  BY <1>1, <1>2 DEF ReplacementInv, InPlace, StateIsTrue, At
<1>4. saved' = [saved EXCEPT ![File] = [State EXCEPT !.status[Who] = "funding_pending", !.id[Who] = New]]
  BY <1>1, StatusLeavesTheAccount DEF New
<1>5. process' \in Process /\ process'.file = File /\ process'.who = Who /\ process'.at = "pay"
  BY <1>1, Goes DEF ReplacementInv, Places, File, Who
<1>6. Sent("pay", [account |-> New, amount |-> Target]) = {}
  <2> SUFFICES ASSUME NEW r \in DOMAIN requests, requests[r].do = "pay",
                      requests[r].on = [account |-> New, amount |-> Target]
               PROVE  FALSE
    BY DEF Sent
  <2>1. PICK a \in Account, f \in Files, p \in Profiles :
          /\ requests[r].on = [account |-> a, amount |-> Target]
          /\ InUse(f) /\ saved[f].id[p] = a
          /\ saved[f].status[p] \in {"funding_pending", "funded"}
    BY DEF ReplacementInv, RequestsAreKnown, PaymentIsKnown
  <2>2. a = New
    <3>1. requests[r].on.account = a /\ requests[r].on.account = New
      BY <2>1
    <3> QED
      BY <3>1
  <2>3. account[a].name = <<f, p>>
    BY <2>1 DEF ReplacementInv, StatesAreTrue, StateIsTrue
  <2>4. account[New].name = <<File, Who>>
    BY <1>1, BalanceMeansPaid DEF Name
  <2> QED
    BY <1>1, <2>1, <2>2, <2>3, <2>4 DEF State
<1>7. ASSUME State' = [State EXCEPT !.status[Who] = "funding_pending", !.id[Who] = New]
      PROVE  InPlace'
  <2>1. /\ State'.status[Who] = "funding_pending" /\ State'.id[Who] = New
        /\ \A p \in Profiles : p # Who => State'.status[p] = State.status[p]
    BY <1>2, <1>7 DEF StateRow
  <2>2. Who' = Who /\ New' = New
    BY <1>5, <2>1 DEF Who, New
  <2>3. Sent("pay", [account |-> New, amount |-> Target])' = {}
    BY <1>1, <1>6, <2>2 DEF Sent
  <2> QED
    BY <1>3, <1>5, <2>1, <2>2, <2>3, TwoProfiles DEF InPlace, At
<1> QED
  BY <1>1, <1>2, <1>3, <1>4, <1>5, <1>7, BalanceMeansPaid, StatusIs DEF File, New
(* Steps that only move the command, or end it.                            *)
LEMMA MovesKeep ==
  ASSUME ReplacementInv,
         AlreadyCreated \/ AlreadyBound \/ Leave \/ Kill \/ RecoverLock \/ Expire
         \/ UNCHANGED vars \/ (FoundClosed /\ UNCHANGED saved)
  PROVE  ReplacementInv'
<1>1. UNCHANGED <<account, requests, bindings, previews, saved, returned>>
  BY DEF AlreadyCreated, AlreadyBound, Leave, Kill, RecoverLock, Expire, Quiet, Kept, vars, files,
         FoundClosed
<1>2. CASE AlreadyCreated
  <2>1. /\ ~Idle /\ At("item") /\ Goto("fund")
        /\ State.status[Who] \in {"created", "funding_pending", "funded"}
    BY <1>2 DEF AlreadyCreated, At, Idle
  <2>2. /\ process' \in Process /\ process'.file = File /\ process'.who = Who
        /\ process'.at = "fund"
    BY <2>1, Goes DEF ReplacementInv, Places, File, Who
  <2>3. State' = State /\ Who' = Who
    BY <1>1, <2>2 DEF State, File, Who
  <2>4. InPlace'
    BY <2>1, <2>2, <2>3 DEF ReplacementInv, InPlace, At
  <2> QED
    BY <1>1, <2>1, <2>2, <2>4, NothingMoves, Running DEF InUse
<1>3. CASE AlreadyBound
  <2>1. ~Idle /\ At("bind") /\ Goto("close") /\ State.bound
    BY <1>3 DEF AlreadyBound, At, Idle
  <2>2. /\ process' \in Process /\ process'.file = File /\ process'.who = Who
        /\ process'.at = "close"
    BY <2>1, Goes DEF ReplacementInv, Places, File, Who
  <2>3. State' = State
    BY <1>1, <2>2 DEF State, File
  <2>4. InPlace'
    BY <2>1, <2>2, <2>3 DEF InPlace, At
  <2> QED
    BY <1>1, <2>1, <2>2, <2>4, NothingMoves, Running DEF InUse
<1>4. CASE Leave \/ Kill
  <2>1. process' \in Process /\ process'.at = "idle"
    BY <1>4 DEF Leave, Kill, AtRest, Process, Places, Profiles
  <2>2. InPlace'
    BY <2>1 DEF InPlace, Idle
  <2> QED
    BY <1>1, <2>1, <2>2, NothingMoves
<1>5. CASE RecoverLock \/ Expire \/ UNCHANGED vars
  <2>1. process' = process
    BY <1>5 DEF RecoverLock, Expire, vars
  <2>2. InPlace'
    BY <1>1, <2>1, PlaceStays DEF ReplacementInv
  <2>3. /\ process' \in Process
        /\ process'.at # "idle" => process'.file \in Files /\ InUse(process'.file)
    BY <2>1 DEF ReplacementInv, ReplacementTypes, Idle
  <2> QED
    BY <1>1, <2>2, <2>3, NothingMoves
<1>6. CASE FoundClosed
  <2>1. ~Idle /\ At("close") /\ NextProfile("close", "end") /\ State.bound
    BY <1>6 DEF FoundClosed, At, Idle, ReplacementInv, InPlace
  <2>2. process' \in Process /\ process'.file = File /\ process'.at \in {"close", "end"}
    BY <2>1, GoesToNext, Running, TwoProfiles DEF ReplacementInv, Places, File, Who
  <2>3. State' = State
    BY <1>1, <2>2 DEF State, File
  <2>4. InPlace'
    BY <2>1, <2>2, <2>3 DEF InPlace, At
  <2> QED
    BY <1>1, <2>1, <2>2, <2>4, NothingMoves, Running DEF InUse
<1> QED
  BY <1>2, <1>3, <1>4, <1>5, <1>6

(* The note of the switch.                                                 *)
LEMMA SaveBoundKeeps == ASSUME ReplacementInv, SaveBound PROVE ReplacementInv'
<1>1. /\ ~Idle /\ At("bound") /\ Goto("close")
      /\ UNCHANGED <<account, requests, bindings, previews, returned>>
  BY DEF SaveBound, Quiet, Kept, At, Idle
<1>2. /\ File \in Files /\ State \in StateRow /\ State = saved[File]
      /\ saved \in [Files -> StateRow \cup {NoState}]
      /\ \A p \in Profiles : StateIsTrue(File, p) /\ State.status[p] = "funded"
  BY <1>1, Running DEF State, ReplacementInv, ReplacementTypes, InPlace, BothFunded
<1>3. PICK row : row = [State EXCEPT !.bound = TRUE]
  OBVIOUS
<1>4. /\ row \in StateRow /\ row.preview = State.preview /\ row.bound = TRUE
      /\ row.closed = State.closed /\ row.status = State.status /\ row.id = State.id
  BY <1>2, <1>3 DEF StateRow
<1>5. saved' = [saved EXCEPT ![File] = row] /\ saved'[File] = row
  BY <1>2, <1>3 DEF SaveBound
<1>6. /\ process' \in Process /\ process'.file = File /\ process'.who = Who
      /\ process'.at = "close"
  BY <1>1, Goes DEF ReplacementInv, Places, File, Who
<1>7. File' = File /\ State' = row
  BY <1>5, <1>6 DEF File, State
<1>8. \A p \in Profiles : StateIsTrue(File, p)'
  <2> SUFFICES ASSUME NEW p \in Profiles PROVE StateIsTrue(File, p)'
    OBVIOUS
  <2> QED
    BY <1>1, <1>2, <1>4, <1>5, <1>7 DEF StateIsTrue, Sent, Account
<1>9. InPlace'
  BY <1>4, <1>6, <1>7 DEF InPlace, At
<1>10. \A p \in Profiles : State.status[p] \in {"funding_pending", "funded"} =>
         row.status[p] \in {"funding_pending", "funded"} /\ row.id[p] = State.id[p]
  BY <1>4
<1>11. \A p \in Profiles : State.closed[p] # "no" => row.closed[p] # "no"
  BY <1>4
<1> QED
  BY <1>1, <1>4, <1>5, <1>6, <1>8, <1>9, <1>10, <1>11, OneFileMoves DEF File

(* What is not noted was not asked to be closed.                           *)
LEMMA NothingAskedOf ==
  ASSUME RequestsAreKnown, NEW f \in Files, NEW p \in Profiles, saved[f].closed[p] = "no"
  PROVE  Sent("close", Closing(f, p)) = {}
<1> SUFFICES ASSUME NEW r \in DOMAIN requests, requests[r].do = "close",
                    requests[r].on = Closing(f, p)
             PROVE  FALSE
  BY DEF Sent
<1>1. PICK g \in Files, q \in Profiles : saved[g].closed[q] # "no" /\ requests[r].on = Closing(g, q)
  BY DEF RequestsAreKnown, ClosingIsKnown
<1>2. requests[r].on.by = <<g, q>> /\ requests[r].on.by = <<f, p>>
  BY <1>1 DEF Closing
<1> QED
  BY <1>1, <1>2

(* A note about the closing of the old account.                            *)
LEMMA ClosedKeeps ==
  ASSUME ReplacementInv, ~Idle, State.bound, NEW value \in {"close_pending", "verified"},
         value = "verified" => ~IsOpen(Old), Closed(value),
         UNCHANGED <<account, requests, bindings, previews, returned>>,
         process' \in Process, process'.file = File,
         process'.at \in {"close", "shut", "end"},
         process'.at = "shut" =>
           value = "close_pending" /\ process'.who = Who /\ Sent("close", Closing(File, Who)) = {}
  PROVE  ReplacementInv'
<1>2. /\ File \in Files /\ State \in StateRow /\ State = saved[File] /\ Who \in Profiles
      /\ saved \in [Files -> StateRow \cup {NoState}]
      /\ \A p \in Profiles : StateIsTrue(File, p)
  BY Running DEF State, ReplacementInv, ReplacementTypes
<1>3. PICK row : row = [State EXCEPT !.closed[Who] = value]
  OBVIOUS
<1>4. /\ row \in StateRow /\ row.preview = State.preview /\ row.bound = State.bound
      /\ row.status = State.status /\ row.id = State.id /\ row.closed[Who] = value
      /\ \A p \in Profiles : p # Who => row.closed[p] = State.closed[p]
  BY <1>2, <1>3, ZenonT(60) DEF StateRow
<1>5. saved' = [saved EXCEPT ![File] = row] /\ saved'[File] = row
  BY <1>2, <1>3 DEF Closed
<1>7. File' = File /\ State' = row
  BY <1>5 DEF File, State
<1>8. \A p \in Profiles : StateIsTrue(File, p)'
  <2> SUFFICES ASSUME NEW p \in Profiles PROVE StateIsTrue(File, p)'
    OBVIOUS
  <2>1. saved'[File'] = row /\ StateIsTrue(File, p)
    BY <1>2, <1>5, <1>7
  <2>2. row.closed[p] = "verified" => ~account[previews[State.preview].old[p]].open
    <3>1. previews[State.preview].old[p] \in Account
      BY <1>2, <2>1 DEF StateIsTrue, ReplacementInv, PreviewsAreOlder
    <3> QED
      BY <1>2, <1>4, <2>1, <3>1 DEF StateIsTrue, IsOpen, Old
  <2>3. /\ account' = account /\ previews' = previews /\ Account' = Account
        /\ Sent("open", <<File, p>>)' = Sent("open", <<File, p>>)
    BY <1>7 DEF Sent, Account
  <2>4. /\ State.preview \in DOMAIN previews
        /\ State.status[p] = "funded" /\ State.id[p] \in Account
        /\ account[State.id[p]].name = <<File, p>> /\ account[State.id[p]].paid = 1
    BY <1>2, <2>1 DEF StateIsTrue
  <2> QED
    BY <1>4, <1>7, <2>1, <2>2, <2>3, <2>4 DEF StateIsTrue
<1>9. InPlace'
  <2>1. ASSUME process'.at = "shut"
        PROVE  State'.closed[Who'] = "close_pending" /\ Sent("close", Closing(File, Who))' = {}
    <3>1. Who' = Who /\ Closing(File, Who)' = Closing(File, Who)
      BY <1>4, <1>5, <1>7, <2>1 DEF Who, Closing, State
    <3> QED
      BY <1>4, <1>7, <2>1, <3>1 DEF Sent
  <2> QED
    BY <1>4, <1>7, <2>1 DEF InPlace, At
<1>10. \A p \in Profiles : State.status[p] \in {"funding_pending", "funded"} =>
         row.status[p] \in {"funding_pending", "funded"} /\ row.id[p] = State.id[p]
  BY <1>4
<1>11. \A p \in Profiles : State.closed[p] # "no" => row.closed[p] # "no"
  BY <1>4
<1> QED
  BY <1>4, <1>5, <1>8, <1>9, <1>10, <1>11, OneFileMoves DEF File

(* An account that is found closed is noted.                               *)
LEMMA FoundClosedKeeps == ASSUME ReplacementInv, FoundClosed PROVE ReplacementInv'
<1>1. CASE UNCHANGED saved
  BY <1>1, MovesKeep
<1>2. CASE ~UNCHANGED saved
  <2>1. /\ ~Idle /\ State.bound /\ ~IsOpen(Old) /\ Closed("verified")
        /\ NextProfile("close", "end")
        /\ UNCHANGED <<account, requests, bindings, previews, returned>>
    BY <1>2 DEF FoundClosed, Quiet, Kept, At, Idle, ReplacementInv, InPlace
  <2>2. process' \in Process /\ process'.file = File /\ process'.at \in {"close", "end"}
    BY <2>1, GoesToNext, Running, TwoProfiles DEF ReplacementInv, Places, File, Who
  <2> QED
    BY <2>1, <2>2, ClosedKeeps
<1> QED
  BY <1>1, <1>2

(* The closing is answered.                                                *)
LEMMA CloseAnsweredKeeps == ASSUME ReplacementInv, CloseAnswered PROVE ReplacementInv'
<1>1. /\ ~Idle /\ State.bound /\ ~IsOpen(Old) /\ Closed("verified")
      /\ NextProfile("close", "end")
      /\ UNCHANGED <<account, requests, bindings, previews, returned>>
  BY DEF CloseAnswered, Quiet, Kept, At, Idle, ReplacementInv, InPlace
<1>2. process' \in Process /\ process'.file = File /\ process'.at \in {"close", "end"}
  BY <1>1, GoesToNext, Running, TwoProfiles DEF ReplacementInv, Places, File, Who
<1> QED
  BY <1>1, <1>2, ClosedKeeps

(* The closing is announced before it is asked for.                        *)
LEMMA AnnounceCloseKeeps == ASSUME ReplacementInv, AnnounceClose PROVE ReplacementInv'
<1>1. /\ ~Idle /\ State.bound /\ Closed("close_pending") /\ Goto("shut")
      /\ State.closed[Who] = "no"
      /\ UNCHANGED <<account, requests, bindings, previews, returned>>
  BY DEF AnnounceClose, Quiet, Kept, At, Idle, ReplacementInv, InPlace
<1>2. /\ process' \in Process /\ process'.file = File /\ process'.who = Who
      /\ process'.at = "shut"
  BY <1>1, Goes DEF ReplacementInv, Places, File, Who
<1>3. Sent("close", Closing(File, Who)) = {}
  <2>1. File \in Files /\ Who \in Profiles /\ InUse(File) /\ saved[File].closed[Who] = "no"
    BY <1>1, Running DEF State
  <2> QED
    BY <2>1, NothingAskedOf DEF ReplacementInv
<1> QED
  BY <1>1, <1>2, <1>3, ClosedKeeps
(* A request leaves, which was announced and not sent before.              *)
LEMMA AskingKeeps ==
  ASSUME ReplacementInv, ~Idle, NEW act, NEW on, Send(act, on),
         UNCHANGED <<account, bindings, previews, saved, returned>>,
         \/ /\ act = "open" /\ on = Name /\ Sent(act, on) = {}
            /\ State.status[Who] = "create_pending"
         \/ /\ act = "pay" /\ on = [account |-> New, amount |-> Target] /\ Sent(act, on) = {}
            /\ State.status[Who] = "funding_pending"
         \/ /\ act = "close" /\ on = Closing(File, Who) /\ Sent(act, on) = {}
            /\ State.bound /\ State.closed[Who] = "close_pending",
         process' \in Process, process'.file = File,
         InPlace'
  PROVE  ReplacementInv'
<1> USE DEF ReplacementInv
<1>1. /\ File \in Files /\ InUse(File) /\ State = saved[File] /\ State \in StateRow
      /\ Who \in Profiles /\ StateIsTrue(File, Who)
  BY Running DEF State
<1>2. Old \in Account /\ Old \in Nat
  <2>1. Old \in Account
    BY <1>1 DEF StateIsTrue, PreviewsAreOlder, Old
  <2> QED
    BY <2>1, Rows
<1>3. State.status[Who] = "funding_pending" => New \in Account /\ New \in Nat
  BY BalanceMeansPaid
<1>4. act \in {"open", "pay", "close"} /\ on \in Owners \cup Orders \cup Closings
  BY <1>1, <1>2, <1>3 DEF Owners, Orders, Closings, Closing, Name, Target, Old, State
<1>5. PICK n : n = Len(requests) + 1
  OBVIOUS
<1>6. /\ requests' \in Seq(RequestRow)
      /\ DOMAIN requests' = DOMAIN requests \cup {n} /\ n \notin DOMAIN requests
      /\ \A r \in DOMAIN requests : requests'[r] = requests[r]
      /\ requests'[n].do = act /\ requests'[n].on = on /\ requests'[n].state = "travelling"
  <2>1. /\ requests' \in Seq(RequestRow)
        /\ DOMAIN requests' = DOMAIN requests \cup {n} /\ n \notin DOMAIN requests
        /\ \A r \in DOMAIN requests : requests'[r] = requests[r]
        /\ requests'[n] = Request(act, on)
    BY <1>4, <1>5, Sends
  <2> QED
    BY <2>1 DEF Request
<1>7. ReplacementTypes'
  BY <1>1, <1>6 DEF ReplacementTypes, Idle, InUse
<1>8. RequestsAreKnown'
  <2>1. \A q : OpeningIsKnown(q) => OpeningIsKnown(q)'
    BY DEF OpeningIsKnown, InUse, Account
  <2>2. \A q : PaymentIsKnown(q) => PaymentIsKnown(q)'
    BY DEF PaymentIsKnown, InUse, Account
  <2>3. \A q : ClosingIsKnown(q) => ClosingIsKnown(q)'
    BY DEF ClosingIsKnown, Closing, InUse
  <2>4. act = "open" => OpeningIsKnown(requests'[n])
    BY <1>1, <1>6 DEF OpeningIsKnown, Name
  <2>5. act = "pay" => PaymentIsKnown(requests'[n])
    BY <1>1, <1>3, <1>6 DEF PaymentIsKnown, New
  <2>6. act = "close" => ClosingIsKnown(requests'[n])
    BY <1>1, <1>6 DEF ClosingIsKnown, Closing, InUse
  <2> QED
    BY <1>6, <2>1, <2>2, <2>3, <2>4, <2>5, <2>6 DEF RequestsAreKnown
<1>9. OnceEach'
  <2> SUFFICES ASSUME NEW r \in DOMAIN requests', NEW s \in DOMAIN requests',
                      requests'[r].do = requests'[s].do, requests'[r].on = requests'[s].on
               PROVE  r = s
    BY DEF OnceEach
  <2>1. ASSUME NEW u \in DOMAIN requests, requests[u].do = act, requests[u].on = on
        PROVE  FALSE
    <3>1. u \in Sent(act, on)
      BY <2>1 DEF Sent
    <3> QED
      BY <3>1
  <2> QED
    BY <1>6, <2>1 DEF OnceEach
<1>10. AccountsAreTrue'
  <2>1. \A a \in Account : PaidOnce(a) => PaidOnce(a)'
    BY <1>6 DEF PaidOnce
  <2>2. /\ \A do, what : Sent(do, what) # {} => Sent(do, what)' # {}
        /\ \A b : AskedToClose(b) # {} => AskedToClose(b)' # {}
    BY <1>6 DEF Sent, AskedToClose
  <2> QED
    BY <2>1, <2>2 DEF AccountsAreTrue, Account
<1>11. StatesAreTrue'
  <2>1. \A f \in Files, p \in Profiles : (f # File \/ p # Who \/ act # "open") =>
          (Sent("open", <<f, p>>) = {} => Sent("open", <<f, p>>)' = {})
    BY <1>6 DEF Sent, Name
  <2>2. ASSUME NEW f \in Files, NEW p \in Profiles, InUse(f), StateIsTrue(f, p)
        PROVE  StateIsTrue(f, p)'
    <3>1. saved[f].status[p] = "not_started" => Sent("open", <<f, p>>)' = {}
      BY <1>1, <2>1, <2>2 DEF StateIsTrue
    <3> QED
      BY <2>2, <3>1 DEF StateIsTrue, Account
  <2> QED
    BY <1>1, <2>1, <2>2 DEF StatesAreTrue, InUse
<1>12. PreviewsAreOlder' /\ SwitchedForward'
  BY DEF PreviewsAreOlder, SwitchedForward, InUse, Account
<1> QED
  BY <1>7, <1>8, <1>9, <1>10, <1>11, <1>12

(* The account is asked for, for the first time.                           *)
LEMMA CreateKeeps == ASSUME ReplacementInv, Create PROVE ReplacementInv'
<1>1. /\ ~Idle /\ At("create") /\ Send("open", Name)
      /\ process' = [process EXCEPT !.at = "creating", !.request = Len(requests) + 1]
      /\ UNCHANGED <<account, bindings, previews, saved, returned>>
  BY DEF Create, Do, Quiet, Kept, At, Idle
<1>2. /\ State.status[Who] = "create_pending" /\ Sent("open", Name) = {}
      /\ (Who = 2 => State.status[1] = "funded")
  BY <1>1 DEF ReplacementInv, InPlace, At
<1>3. PICK n : n = Len(requests) + 1 /\ n \in Nat
  BY Rows DEF ReplacementInv
<1>4. /\ process' \in Process /\ process'.file = File /\ process'.who = Who
      /\ process'.at = "creating" /\ process'.request = n
  BY <1>1, <1>3, Running DEF Process, Places, File, Who
<1>5. State' = State /\ Who' = Who /\ Name' = Name
  BY <1>1, <1>4 DEF State, File, Who, Name
<1>6. n \in DOMAIN requests' /\ requests'[n].do = "open" /\ requests'[n].on = Name
  <2>1. Name \in Owners
    BY <1>1, Running DEF Name, Owners
  <2>2. n \in DOMAIN requests' /\ requests'[n] = Request("open", Name)
    BY <1>1, <1>3, <2>1, Sends DEF ReplacementInv
  <2> QED
    BY <2>2 DEF Request
<1>7. InPlace'
  BY <1>2, <1>4, <1>5, <1>6 DEF InPlace, At
<1> QED
  BY <1>1, <1>2, <1>4, <1>7, AskingKeeps

(* The payment is asked for, for the first time.                           *)
LEMMA PayKeeps == ASSUME ReplacementInv, Pay PROVE ReplacementInv'
<1>1. /\ ~Idle /\ At("pay") /\ Send("pay", [account |-> New, amount |-> Target])
      /\ process' = [process EXCEPT !.at = "paying", !.request = Len(requests) + 1]
      /\ UNCHANGED <<account, bindings, previews, saved, returned>>
  BY DEF Pay, Do, Quiet, Kept, At, Idle
<1>2. /\ State.status[Who] = "funding_pending"
      /\ Sent("pay", [account |-> New, amount |-> Target]) = {}
      /\ (Who = 2 => State.status[1] = "funded")
  BY <1>1 DEF ReplacementInv, InPlace, At
<1>3. PICK n : n = Len(requests) + 1 /\ n \in Nat
  BY Rows DEF ReplacementInv
<1>4. /\ process' \in Process /\ process'.file = File /\ process'.who = Who
      /\ process'.at = "paying"
  BY <1>1, <1>3, Running DEF Process, Places, File, Who
<1>5. State' = State /\ Who' = Who
  BY <1>1, <1>4 DEF State, File, Who
<1>7. InPlace'
  BY <1>2, <1>4, <1>5 DEF InPlace, At
<1> QED
  BY <1>1, <1>2, <1>4, <1>7, AskingKeeps

(* The closing is asked for, after the switch.                             *)
LEMMA CloseOldKeeps == ASSUME ReplacementInv, Close PROVE ReplacementInv'
<1>1. /\ ~Idle /\ State.bound /\ Send("close", Closing(File, Who))
      /\ State.closed[Who] = "close_pending" /\ Sent("close", Closing(File, Who)) = {}
      /\ process' = [process EXCEPT !.at = "closing", !.request = Len(requests) + 1]
      /\ UNCHANGED <<account, bindings, previews, saved, returned>>
  BY DEF Close, Do, Quiet, Kept, At, Idle, ReplacementInv, InPlace
<1>3. PICK n : n = Len(requests) + 1 /\ n \in Nat
  BY Rows DEF ReplacementInv
<1>4. /\ process' \in Process /\ process'.file = File /\ process'.at = "closing"
  BY <1>1, <1>3, Running DEF Process, Places, File
<1>5. State' = State
  BY <1>1, <1>4 DEF State, File
<1>7. InPlace'
  BY <1>1, <1>4, <1>5 DEF InPlace, At
<1> QED
  BY <1>1, <1>4, <1>7, AskingKeeps

(* The switch.  It is the only step that can return to given up accounts.  *)
LEMMA BindKeeps == ASSUME ReplacementInv, Bind PROVE ReplacementInv'
<1> USE DEF ReplacementInv
<1>1. /\ ~Idle /\ At("bind") /\ ~State.bound /\ Goto("bound")
      /\ bindings' = [long |-> State.id[1], intraday |-> State.id[2], legacy |-> State.id[1]]
      /\ returned' = (returned \/ (bindings' # bindings /\ \E k \in DOMAIN previews : GivenUp(k)))
      /\ UNCHANGED <<account, requests, previews, saved>>
  BY DEF Bind, Kept, At, Idle
<1>2. /\ File \in Files /\ InUse(File) /\ State = saved[File] /\ State \in StateRow
      /\ \A p \in Profiles : StateIsTrue(File, p) /\ State.status[p] = "funded"
  BY <1>1, Running DEF State, InPlace, BothFunded
<1>3. /\ State.id[1] \in Account /\ State.id[2] \in Account
      /\ account[State.id[1]].name = <<File, 1>> /\ account[State.id[2]].name = <<File, 2>>
  BY <1>2, TwoProfiles DEF StateIsTrue
<1>4. State.id[1] # State.id[2] /\ State.id[1] \in Nat /\ State.id[2] \in Nat
  BY <1>3, Rows
<1>5. /\ process' \in Process /\ process'.file = File /\ process'.at = "bound"
  BY <1>1, Goes DEF Places, File
<1>6. State' = State /\ InUse(File) /\ File' = File
  BY <1>1, <1>2, <1>5 DEF State, File
<1>7. ReplacementTypes'
  BY <1>1, <1>2, <1>4, <1>5 DEF ReplacementTypes, Idle, InUse
<1>8. /\ \A act, on : Sent(act, on)' = Sent(act, on)
      /\ \A b : AskedToClose(b)' = AskedToClose(b)
  BY <1>1 DEF Sent, AskedToClose
<1>9. RequestsAreKnown' /\ OnceEach'
  <2>1. \A q : ClosingIsKnown(q)' = ClosingIsKnown(q)
    BY <1>1 DEF ClosingIsKnown, Closing, InUse
  <2>2. \A q : OpeningIsKnown(q)' = OpeningIsKnown(q)
    BY <1>1 DEF OpeningIsKnown, InUse, Account
  <2>3. \A q : PaymentIsKnown(q)' = PaymentIsKnown(q)
    BY <1>1 DEF PaymentIsKnown, InUse, Account
  <2>4. RequestsAreKnown'
    BY <1>1, <2>1, <2>2, <2>3 DEF RequestsAreKnown
  <2>5. OnceEach'
    BY <1>1 DEF OnceEach
  <2> QED
    BY <2>4, <2>5
<1>10. AccountsAreTrue' /\ StatesAreTrue'
  <2>1. AccountsAreTrue'
    BY <1>1, <1>8 DEF AccountsAreTrue, PaidOnce, Account
  <2>2. \A f \in Files, p \in Profiles : StateIsTrue(f, p) => StateIsTrue(f, p)'
    BY <1>1, <1>8 DEF StateIsTrue, Account
  <2>3. StatesAreTrue'
    BY <1>1, <1>8, <2>2 DEF StatesAreTrue, InUse
  <2> QED
    BY <2>1, <2>3
<1>11. InPlace'
  BY <1>1, <1>2, <1>5, <1>6 DEF InPlace, At, BothFunded
<1>12. PreviewsAreOlder'
  BY <1>1 DEF PreviewsAreOlder, InUse, Account
<1>13. SwitchedForward'
  <2>1. CASE bindings' = bindings
    BY <1>1, <2>1 DEF SwitchedForward, InUse, Account
  <2>2. CASE bindings' # bindings
    <3>1. ASSUME ~returned', NEW f \in Files, NEW p \in Profiles, InUse(f)
          PROVE  previews[saved[f].preview].old[p] \notin {State.id[1], State.id[2]}
      <4>1. saved[f].preview \in DOMAIN previews
        BY <3>1 DEF StatesAreTrue, StateIsTrue
      <4>2. ~GivenUp(saved[f].preview)
        BY <1>1, <2>2, <3>1, <4>1
      <4> QED
        BY <3>1, <4>2, TwoProfiles DEF GivenUp
    <3>2. /\ bindings'.long = State.id[1] /\ bindings'.intraday = State.id[2]
          /\ bindings'.legacy = State.id[1]
      BY <1>1
    <3> QED
      BY <1>1, <1>3, <1>4, <3>1, <3>2 DEF SwitchedForward, InUse, Account
  <2> QED
    BY <2>1, <2>2
<1> QED
  BY <1>7, <1>9, <1>10, <1>11, <1>12, <1>13
(* A preview confirms what is bound.                                       *)
LEMMA PreviewKeeps == ASSUME ReplacementInv, Preview PROVE ReplacementInv'
<1> USE DEF ReplacementInv
<1>1. /\ Idle /\ previews' = Append(previews, [old |-> Bound, holding |-> Held(Bound)])
      /\ UNCHANGED <<account, requests, bindings, process, saved, returned>>
  BY DEF Preview
<1>2. /\ bindings.long \in Account /\ bindings.intraday \in Account
      /\ Bound = <<bindings.long, bindings.intraday>>
  BY DEF SwitchedForward, Bound
<1>3. PICK row : row = [old |-> Bound, holding |-> Held(Bound)]
  OBVIOUS
<1>4. row \in PreviewRow /\ row.old = <<bindings.long, bindings.intraday>>
  <2>1. \A p \in Profiles : Bound[p] \in Account
    BY <1>2, TwoProfiles
  <2>2. Held(Bound) \in [Profiles -> Nat]
    BY <2>1, Rows DEF Held, AccountRow
  <2>3. bindings.long \in Nat /\ bindings.intraday \in Nat
    BY <1>2, Rows
  <2> QED
    BY <1>2, <1>3, <2>2, <2>3 DEF PreviewRow
<1>5. PICK n : n = Len(previews) + 1
  OBVIOUS
<1>6. /\ previews' \in Seq(PreviewRow) /\ previews'[n] = row
      /\ DOMAIN previews' = DOMAIN previews \cup {n} /\ n \notin DOMAIN previews
      /\ \A k \in DOMAIN previews : previews'[k] = previews[k]
  BY <1>1, <1>3, <1>4, <1>5 DEF ReplacementTypes
<1>7. \A f \in Files, p \in Profiles : InUse(f) =>
        /\ StateIsTrue(f, p) /\ saved[f].preview \in DOMAIN previews /\ saved[f].preview # n
        /\ previews'[saved[f].preview] = previews[saved[f].preview]
  <2>1. \A f \in Files, p \in Profiles : InUse(f) => StateIsTrue(f, p)
    BY DEF StatesAreTrue
  <2>2. \A f \in Files, p \in Profiles : InUse(f) => saved[f].preview \in DOMAIN previews
    BY <2>1 DEF StateIsTrue
  <2> QED
    BY <1>6, <2>1, <2>2
<1>8. ReplacementTypes'
  BY <1>1, <1>6 DEF ReplacementTypes, Idle, InUse
<1>9. /\ \A act, on : Sent(act, on)' = Sent(act, on)
      /\ \A b : AskedToClose(b)' = AskedToClose(b)
  BY <1>1 DEF Sent, AskedToClose
<1>10. RequestsAreKnown'
  <2>1. \A q : OpeningIsKnown(q) => OpeningIsKnown(q)'
    BY <1>1 DEF OpeningIsKnown, InUse, Account
  <2>2. \A q : PaymentIsKnown(q) => PaymentIsKnown(q)'
    BY <1>1 DEF PaymentIsKnown, InUse, Account
  <2>3. \A q : ClosingIsKnown(q) => ClosingIsKnown(q)'
    BY <1>1, <1>7 DEF ClosingIsKnown, Closing, InUse
  <2> QED
    BY <1>1, <2>1, <2>2, <2>3 DEF RequestsAreKnown
<1>11. OnceEach' /\ AccountsAreTrue'
  BY <1>1, <1>9 DEF OnceEach, AccountsAreTrue, PaidOnce, Account
<1>12. StatesAreTrue'
  <2>1. ASSUME NEW f \in Files, NEW p \in Profiles, InUse(f)
        PROVE  StateIsTrue(f, p)'
    BY <1>1, <1>6, <1>7, <1>9, <2>1 DEF StateIsTrue, Account
  <2> QED
    BY <1>1, <1>9, <2>1 DEF StatesAreTrue, InUse
<1>13. InPlace'
  BY <1>1 DEF InPlace, Idle
<1>14. PreviewsAreOlder'
  <2>1. ASSUME NEW p \in Profiles PROVE previews'[n].old[p] \in Account
    BY <1>2, <1>4, <1>6, TwoProfiles
  <2> QED
    BY <1>1, <1>6, <1>7, <2>1 DEF PreviewsAreOlder, InUse, Account
<1>15. SwitchedForward'
  BY <1>1, <1>7 DEF SwitchedForward, InUse, Account
<1> QED
  BY <1>8, <1>10, <1>11, <1>12, <1>13, <1>14, <1>15

(* A command begins an operation, or continues it.                         *)
LEMMA StartKeeps == ASSUME ReplacementInv, Start PROVE ReplacementInv'
<1> USE DEF ReplacementInv
<1>1. PICK k \in DOMAIN previews, f \in Files \ locks :
        /\ \/ saved[f].preview = k /\ UNCHANGED saved
           \/ saved[f] = NoState /\ Confirmed(k) /\ saved' = [saved EXCEPT ![f] = Begun(k)]
        /\ process' = [at |-> "item", file |-> f, who |-> 1, request |-> 0]
  BY DEF Start
<1>2. Idle /\ UNCHANGED <<account, requests, bindings, previews, returned>>
  BY DEF Start
<1>3. k \in Nat \ {0}
  BY <1>1, Rows
<1>4. process' \in Process /\ process'.at = "item" /\ process'.file = f /\ process'.who = 1
  BY <1>1, TwoProfiles DEF Process, Places
<1>5. InPlace'
  BY <1>4 DEF InPlace, At, Who
<1>6. CASE UNCHANGED saved
  <2>1. InUse(f)
    BY <1>1, <1>3, <1>6 DEF InUse, NoState, Begun, ReplacementTypes
  <2> QED
    BY <1>2, <1>4, <1>5, <1>6, <2>1, NothingMoves
<1>7. CASE saved[f] = NoState /\ saved' = [saved EXCEPT ![f] = Begun(k)]
  <2>1. /\ saved \in [Files -> StateRow \cup {NoState}]
        /\ ~InUse(f) /\ \A p \in Profiles : Sent("open", <<f, p>>) = {}
    BY <1>7 DEF ReplacementTypes, InUse, StatesAreTrue
  <2>2. Begun(k) \in StateRow
    BY <1>3 DEF Begun, StateRow, NoAccount
  <2>3. Begun(k) # NoState
    BY DEF Begun, NoState
  <2>4. /\ saved' \in [Files -> StateRow \cup {NoState}]
        /\ saved'[f] = Begun(k) /\ InUse(f)'
        /\ \A g \in Files : g # f => saved'[g] = saved[g] /\ InUse(g)' = InUse(g)
    BY <1>7, <2>1, <2>2, <2>3 DEF InUse
  <2>5. /\ \A act, on : Sent(act, on)' = Sent(act, on)
        /\ \A b : AskedToClose(b)' = AskedToClose(b)
    BY <1>2 DEF Sent, AskedToClose
  <2>6. ReplacementTypes'
    BY <1>2, <1>4, <2>4 DEF ReplacementTypes, Idle
  <2>7. RequestsAreKnown'
    <3>1. \A q : OpeningIsKnown(q) => OpeningIsKnown(q)'
      BY <1>2, <2>1, <2>4 DEF OpeningIsKnown, Account
    <3>2. \A q : PaymentIsKnown(q) => PaymentIsKnown(q)'
      BY <1>2, <2>1, <2>4 DEF PaymentIsKnown, Account
    <3>3. \A q : ClosingIsKnown(q) => ClosingIsKnown(q)'
      BY <1>2, <2>1, <2>4 DEF ClosingIsKnown, Closing
    <3> QED
      BY <1>2, <3>1, <3>2, <3>3 DEF RequestsAreKnown
  <2>8. OnceEach' /\ AccountsAreTrue'
    BY <1>2, <2>5 DEF OnceEach, AccountsAreTrue, PaidOnce, Account
  <2>9. StatesAreTrue'
    <3>1. \A p \in Profiles : StateIsTrue(f, p)'
      BY <1>1, <1>2, <2>1, <2>4, <2>5 DEF StateIsTrue, Begun
    <3>2. \A g \in Files, p \in Profiles : g # f /\ StateIsTrue(g, p) => StateIsTrue(g, p)'
      BY <1>2, <2>4, <2>5 DEF StateIsTrue, Account
    <3> QED
      BY <2>4, <2>5, <3>1, <3>2 DEF StatesAreTrue
  <2>10. PreviewsAreOlder'
    <3>1. ASSUME NEW p \in Profiles, NEW q \in Profiles, NEW j \in DOMAIN previews
          PROVE  account[previews[j].old[p]].name # <<f, q>>
      <4>1. previews[j].old[p] \in Account
        BY DEF PreviewsAreOlder
      <4> QED
        BY <2>1, <4>1 DEF AccountsAreTrue
    <3> QED
      BY <1>2, <2>4, <3>1 DEF PreviewsAreOlder, Account
  <2>11. SwitchedForward'
    <3>1. saved'[f].bound = FALSE
      BY <2>4 DEF Begun
    <3> QED
      BY <1>2, <2>4, <3>1 DEF SwitchedForward, Account
  <2> QED
    BY <1>5, <2>6, <2>7, <2>8, <2>9, <2>10, <2>11
<1> QED
  BY <1>1, <1>6, <1>7

(* The broker, the services and the operator.                              *)
LEMMA ReplacementStep ==
  ASSUME FilesAssumption, ReplacementInv, [Next]_vars
  PROVE  ReplacementInv'
<1>1. CASE Broker /\ UNCHANGED files
  <2>1. PICK r \in DOMAIN requests :
          requests[r].state = "travelling" /\ (Open(r) \/ PayIn(r) \/ CloseAccount(r))
    BY <1>1 DEF Broker
  <2>2. UNCHANGED <<bindings, process, files>>
    BY <1>1 DEF Broker, files
  <2> QED
    BY <2>1, <2>2, OpenKeeps, PayInKeeps, CloseKeeps
<1>2. CASE Trade /\ UNCHANGED files
  BY <1>2, TradeKeeps
<1>3. CASE Preview \/ Start
  BY <1>3, PreviewKeeps, StartKeeps
<1>4. CASE Expire \/ RecoverLock \/ AlreadyCreated \/ AlreadyBound \/ Leave \/ Kill \/ UNCHANGED vars
  BY <1>4, MovesKeep
<1>5. CASE AnnounceCreate \/ CreateAnswered \/ FindCreated \/ FoundFunded \/ AnnounceFunding \/ PayAnswered
  BY <1>5, AnnounceCreateKeeps, CreateAnsweredKeeps, FindCreatedKeeps, FoundFundedKeeps,
     AnnounceFundingKeeps, PayAnsweredKeeps
<1>6. CASE Create \/ Pay \/ Close \/ Bind \/ SaveBound
  BY <1>6, CreateKeeps, PayKeeps, CloseOldKeeps, BindKeeps, SaveBoundKeeps
<1>7. CASE FoundClosed \/ AnnounceClose \/ CloseAnswered
  BY <1>7, FoundClosedKeeps, AnnounceCloseKeeps, CloseAnsweredKeeps
<1> QED
  BY <1>1, <1>2, <1>3, <1>4, <1>5, <1>6, <1>7 DEF Next, Step

(* The invariant is stronger than the property.                            *)
LEMMA ReplacementIsSafeByIt == ReplacementInv => ReplacementIsSafe
<1> SUFFICES ASSUME ReplacementInv PROVE ReplacementIsSafe
  OBVIOUS
<1> USE DEF ReplacementInv
<1>0. \A f \in Files, p \in Profiles : InUse(f) => StateIsTrue(f, p) /\ saved[f] \in StateRow
  BY Rows DEF StatesAreTrue
<1>1. TypeOK
  <2>1. process.at \in Places /\ {bindings.long, bindings.intraday, bindings.legacy} \subseteq Account
    BY DEF ReplacementTypes, Process, SwitchedForward
  <2>2. \A f \in Files, p \in Profiles : InUse(f) =>
          /\ saved[f].id[p] \in Account \cup {NoAccount}
          /\ saved[f].status[p] = "not_started" => saved[f].id[p] = NoAccount
    BY <1>0 DEF StateIsTrue
  <2> QED
    BY <2>1, <2>2 DEF TypeOK, Places
<1>2. NothingTwice
  <2> SUFFICES ASSUME NEW f \in Files, NEW p \in Profiles, InUse(f)
               PROVE  /\ AtMostOne(Sent("open", <<f, p>>))
                      /\ saved[f].id[p] # NoAccount => account[saved[f].id[p]].paid \in 0 .. 1
                      /\ AtMostOne(Sent("close", Closing(f, p)))
    BY DEF NothingTwice
  <2>1. AtMostOne(Sent("open", <<f, p>>)) /\ AtMostOne(Sent("close", Closing(f, p)))
    BY DEF AtMostOne, Sent, OnceEach
  <2>2. ASSUME saved[f].id[p] # NoAccount PROVE account[saved[f].id[p]].paid \in 0 .. 1
    <3>1. saved[f].id[p] \in Account /\ account[saved[f].id[p]].name = <<f, p>>
      BY <1>0, <2>2 DEF StateIsTrue
    <3>2. PaidOnce(saved[f].id[p])
      BY <3>1 DEF AccountsAreTrue
    <3> QED
      BY <3>2 DEF PaidOnce
  <2> QED
    BY <2>1, <2>2
<1>3. JournalIsTrue
  <2> SUFFICES ASSUME NEW f \in Files, NEW p \in Profiles, InUse(f)
               PROVE  LET s == saved[f]  a == s.id[p]
                          old == previews[s.preview].old[p]
                          asked == Sent("pay", [account |-> a, amount |-> Target])
                      IN /\ s.status[p] = "not_started" => Sent("open", <<f, p>>) = {}
                         /\ a # NoAccount => account[a].name = <<f, p>>
                         /\ asked # {} => s.status[p] \in {"funding_pending", "funded"}
                         /\ s.status[p] = "funded" => account[a].paid = 1
                         /\ s.bound => \A q \in Profiles : s.status[q] = "funded"
                         /\ s.closed[p] = "verified" => ~account[old].open
                         /\ s.closed[p] = "no" => Sent("close", Closing(f, p)) = {}
    BY DEF JournalIsTrue
  <2>1. ASSUME Sent("pay", [account |-> saved[f].id[p], amount |-> Target]) # {}
        PROVE  saved[f].status[p] \in {"funding_pending", "funded"}
    <3>1. PICK r \in DOMAIN requests :
            requests[r].do = "pay" /\ requests[r].on = [account |-> saved[f].id[p], amount |-> Target]
      BY <2>1 DEF Sent
    <3>2. PICK b \in Account, g \in Files, q \in Profiles :
            /\ requests[r].on = [account |-> b, amount |-> Target]
            /\ InUse(g) /\ saved[g].id[q] = b
            /\ saved[g].status[q] \in {"funding_pending", "funded"}
      BY <3>1 DEF RequestsAreKnown, PaymentIsKnown
    <3>3. b = saved[f].id[p]
      <4>1. requests[r].on.account = b /\ requests[r].on.account = saved[f].id[p]
        BY <3>1, <3>2
      <4> QED
        BY <4>1
    <3>4. account[b].name = <<g, q>> /\ b # NoAccount
      BY <1>0, <3>2, Rows DEF StateIsTrue
    <3>5. account[b].name = <<f, p>>
      BY <1>0, <3>2, <3>3, <3>4 DEF StateIsTrue
    <3> QED
      BY <3>2, <3>4, <3>5
  <2> QED
    BY <1>0, <2>1, NothingAskedOf DEF StateIsTrue
<1>4. NeverWithoutAccounts
  <2>1. ASSUME ~returned, NEW a \in {bindings.long, bindings.intraday}
        PROVE  IsOpen(a) /\ AskedToClose(a) = {}
    <3>1. AskedToClose(a) = {}
      <4> SUFFICES ASSUME NEW r \in DOMAIN requests, requests[r].do = "close",
                          requests[r].on.account = a
                   PROVE  FALSE
        BY DEF AskedToClose
      <4>1. ClosingIsKnown(requests[r])
        BY DEF RequestsAreKnown
      <4> QED
        BY <2>1, <4>1 DEF ClosingIsKnown, Closing, SwitchedForward
    <3>2. a \in Account
      BY <2>1 DEF SwitchedForward
    <3>3. account[a].open
      BY <3>1, <3>2 DEF AccountsAreTrue
    <3> QED
      BY <3>1, <3>2, <3>3 DEF IsOpen
  <2> QED
    BY <2>1 DEF NeverWithoutAccounts, BoundToOpenAccounts, SwitchedForward
<1> QED
  BY <1>1, <1>2, <1>3, <1>4 DEF ReplacementIsSafe

------------------------------------------------------------------------------
(* Bootstrap of an installation.                                           *)

(* What the variables hold.                                                *)
BootPlaces == {"idle", "ensure", "opening", "distinct", "bind", "alias", "fund", "paying"}
Bindings == [long : Nat, intraday : Nat, legacy : Nat]
BootNames == {0} \cup Bootstrap!Profiles
BootAccount == [name : BootNames, open : BOOLEAN, balance : Nat, paid : Nat, holding : Nat]
Payment == [account : Nat, amount : Nat]
BootRequest == [do : {"open", "pay"}, on : Bootstrap!Profiles \cup Payment,
                state : {"travelling", "done"}, answer : Nat]
BootProcess == [at : BootPlaces, who : Bootstrap!Profiles, request : Nat, env : Bindings,
                found : [Bootstrap!Profiles -> Nat]]

(* Every variable of the bootstrap has its type.                           *)
BootTypes ==
  /\ account \in Seq(BootAccount)
  /\ requests \in Seq(BootRequest)
  /\ bindings \in Bindings
  /\ process \in BootProcess
  /\ late \in BOOLEAN

(* What is bound exists; the intraday account was found, and stays open.   *)
BindingsExist ==
  /\ {bindings.long, bindings.intraday, bindings.legacy} \subseteq Bootstrap!Account \cup {Bootstrap!NoAccount}
  /\ bindings.intraday # Bootstrap!NoAccount => Bootstrap!IsOpen(bindings.intraday)

(* What is asked for, and that an answer is true.                          *)
RequestsExist ==
  \A r \in DOMAIN requests :
    /\ requests[r].do = "open" =>
         /\ requests[r].on \in Bootstrap!Profiles
         /\ requests[r].state = "done" => Bootstrap!IsOpen(requests[r].answer)
    /\ requests[r].do = "pay" =>
         /\ requests[r].on.account \in Bootstrap!Account /\ requests[r].on.amount \in Nat

(* The account that a profile is given: open, and the configured or the    *)
(* intraday one where those are open.                                      *)
RightAccount(p) ==
  /\ Bootstrap!IsOpen(process.found[p])
  /\ Bootstrap!IsOpen(Bootstrap!Configured(process.env)[p]) => process.found[p] = Bootstrap!Configured(process.env)[p]

(* Nobody else writes bot.env while the command runs.                      *)
CommandKnows ==
  ~Bootstrap!Idle =>
    /\ Bootstrap!ValidBindings(process.env)
    /\ {process.env.long, process.env.intraday, process.env.legacy} \subseteq Bootstrap!Account \cup {Bootstrap!NoAccount}
    /\ process.at \in {"ensure", "opening"} =>
         bindings = process.env /\ (Bootstrap!Who = 2 => RightAccount(1))
    /\ Bootstrap!At("opening") =>
         /\ process.request \in DOMAIN requests
         /\ requests[process.request].do = "open" /\ requests[process.request].on = Bootstrap!Who
         /\ ~Bootstrap!IsOpen(Bootstrap!Configured(process.env)[Bootstrap!Who])
    /\ Bootstrap!At("distinct") =>
         bindings = process.env /\ RightAccount(1) /\ RightAccount(2) /\ Bootstrap!Who = 1
    /\ process.at \in {"bind", "alias", "fund", "paying"} =>
         /\ RightAccount(1) /\ RightAccount(2) /\ process.found[1] # process.found[2]
    /\ Bootstrap!At("bind") /\ Bootstrap!Who = 1 => bindings = process.env
    /\ Bootstrap!At("alias") => Bootstrap!Who = 1
    /\ Bootstrap!At("alias") \/ (process.at \in {"fund", "paying"} /\ Bootstrap!Who = 1) \/ (Bootstrap!At("bind") /\ Bootstrap!Who = 2) =>
         bindings.long = process.found[1]
    /\ process.at \in {"fund", "paying"} /\ Bootstrap!Who = 2 =>
         bindings.long = process.found[1] /\ bindings.intraday = process.found[2]

(* As long as no request was executed late, the one that is waited for is  *)
(* the only one that will be.                                              *)
NothingLate ==
  ~late =>
    /\ \A a, b \in Bootstrap!Account :
         account[a].name = account[b].name /\ account[a].name \in Bootstrap!Profiles
         /\ account[a].open /\ account[b].open => a = b
    /\ \A a \in Bootstrap!Account : account[a].balance <= Bootstrap!Target
    /\ Bootstrap!At("opening") /\ requests[process.request].state = "travelling" => Bootstrap!Named(Bootstrap!Who) = {}
    /\ Bootstrap!At("paying") =>
         /\ process.request \in DOMAIN requests
         /\ requests[process.request].do = "pay"
         /\ requests[process.request].state = "travelling" =>
              account[requests[process.request].on.account].balance
                + requests[process.request].on.amount <= Bootstrap!Target
    /\ process.at \notin {"opening", "paying"} => process.request = 0

(* The inductive invariant of the bootstrap.                               *)
BootInv ==
  /\ BootTypes /\ BindingsExist /\ RequestsExist /\ CommandKnows /\ NothingLate
  /\ Bootstrap!ProfilesStayApart /\ Bootstrap!AliasIsNotASecondAccount

------------------------------------------------------------------------------

(* The rows of a typed state.                                              *)
LEMMA BootRows ==
  ASSUME BootTypes
  PROVE  /\ Len(account) \in Nat /\ Bootstrap!Account = 1..Len(account)
         /\ \A a \in Bootstrap!Account : account[a] \in BootAccount /\ a \in Nat /\ a # Bootstrap!NoAccount
         /\ Len(requests) \in Nat /\ DOMAIN requests = 1..Len(requests)
         /\ \A r \in DOMAIN requests : requests[r] \in BootRequest /\ r \in Nat /\ r # 0
         /\ process \in BootProcess /\ bindings \in Bindings
         /\ Bootstrap!Who \in {1, 2} /\ process.found[1] \in Nat /\ process.found[2] \in Nat
         /\ 1 \in Bootstrap!Profiles /\ 2 \in Bootstrap!Profiles
<1>1. /\ account \in Seq(BootAccount) /\ requests \in Seq(BootRequest)
      /\ process \in BootProcess /\ bindings \in Bindings
  BY DEF BootTypes
<1>2. /\ Len(account) \in Nat /\ Bootstrap!Account = 1..Len(account)
      /\ \A a \in Bootstrap!Account : account[a] \in BootAccount /\ a \in Nat /\ a # Bootstrap!NoAccount
  BY <1>1 DEF Bootstrap!Account, Bootstrap!NoAccount
<1>3. /\ Len(requests) \in Nat /\ DOMAIN requests = 1..Len(requests)
      /\ \A r \in DOMAIN requests : requests[r] \in BootRequest /\ r \in Nat /\ r # 0
  <2>1. Len(requests) \in Nat /\ DOMAIN requests = 1..Len(requests)
        /\ \A r \in 1..Len(requests) : requests[r] \in BootRequest
    BY <1>1
  <2> QED
    BY <2>1
<1>4. /\ Bootstrap!Who \in {1, 2} /\ process.found[1] \in Nat /\ process.found[2] \in Nat
      /\ 1 \in Bootstrap!Profiles /\ 2 \in Bootstrap!Profiles
  BY <1>1 DEF BootProcess, Bootstrap!Who, Bootstrap!Profiles
<1> QED
  BY <1>1, <1>2, <1>3, <1>4

(* An installation as it may be found.                                     *)
LEMMA InitBoot == Bootstrap!Init => BootInv
<1> SUFFICES ASSUME Bootstrap!Init PROVE BootInv
  OBVIOUS
<1>1. PICK name \in {0} \cup Bootstrap!Profiles, open \in BOOLEAN :
        account = <<[Bootstrap!NewAccount(name) EXCEPT !.open = open]>>
  BY DEF Bootstrap!Init
<1>2. /\ Bootstrap!Account = {1} /\ account[1].name = name /\ account[1].balance = 0
      /\ account[1].open = open
  BY <1>1 DEF Bootstrap!Account, Bootstrap!NewAccount
<1>3. /\ requests = <<>> /\ DOMAIN requests = {} /\ process = Bootstrap!AtRest /\ late = FALSE
  BY DEF Bootstrap!Init
<1>4. /\ bindings \in Bindings
      /\ bindings.long \in {0, 1} /\ bindings.legacy \in {0, 1} /\ bindings.intraday = 0
  BY DEF Bootstrap!Init, Bindings, Bootstrap!NoAccount
<1>5. bindings.long # 0 => bindings.legacy = bindings.long
  BY DEF Bootstrap!Init, Bootstrap!NoAccount
<1>6. BootTypes
  <2>1. account \in [1..1 -> BootAccount]
    BY <1>1 DEF BootAccount, BootNames, Bootstrap!NewAccount
  <2>2. account \in Seq(BootAccount)
    <3>1. ASSUME NEW n \in Nat, NEW S PROVE [1..n -> S] \subseteq Seq(S)
      BY SeqDef
    <3> QED
      BY <2>1, <3>1
  <2>3. process \in BootProcess
    BY <1>3, <1>4
       DEF Bootstrap!AtRest, BootProcess, BootPlaces, Bootstrap!Profiles, Bootstrap!NoAccount
  <2>4. <<>> \in Seq(BootRequest)
    OBVIOUS
  <2> QED
    BY <1>3, <1>4, <2>2, <2>3, <2>4 DEF BootTypes
<1>7. Bootstrap!Idle
  BY <1>3 DEF Bootstrap!Idle, Bootstrap!AtRest
<1>8. BindingsExist /\ RequestsExist /\ CommandKnows /\ Bootstrap!ProfilesStayApart
  BY <1>2, <1>3, <1>4, <1>5, <1>7
     DEF BindingsExist, RequestsExist, CommandKnows, Bootstrap!ProfilesStayApart,
         Bootstrap!NoAccount
<1>9. Bootstrap!AliasIsNotASecondAccount
  BY <1>4, <1>5 DEF Bootstrap!AliasIsNotASecondAccount, Bootstrap!NoAccount
<1>10. NothingLate
  BY <1>2, <1>3, <1>7 DEF NothingLate, Bootstrap!Target, Bootstrap!At, Bootstrap!AtRest
<1> QED
  BY <1>6, <1>8, <1>9, <1>10 DEF BootInv

------------------------------------------------------------------------------
(* What the command leaves at the broker as it was.                        *)
LEMMA BrokerStays ==
  ASSUME UNCHANGED account
  PROVE  /\ Bootstrap!Account' = Bootstrap!Account
         /\ \A a : Bootstrap!IsOpen(a)' = Bootstrap!IsOpen(a)
         /\ \A p : Bootstrap!Named(p)' = Bootstrap!Named(p)
BY DEF Bootstrap!Account, Bootstrap!IsOpen, Bootstrap!Named

(* An account of the env is known to be found there or not.                *)
LEMMA FoundStays ==
  ASSUME UNCHANGED account, process'.env = process.env, process'.found = process.found
  PROVE  \A p : RightAccount(p)' = RightAccount(p)
BY BrokerStays DEF RightAccount, Bootstrap!Configured

(* What was asked for stays known where nothing is asked.                  *)
LEMMA AsksNothing ==
  ASSUME RequestsExist, UNCHANGED <<account, requests>>
  PROVE  RequestsExist'
BY BrokerStays DEF RequestsExist, Bootstrap!IsOpen

(* The env is read.                                                        *)
LEMMA StartBoot == ASSUME BootInv, Bootstrap!Start PROVE BootInv'
<1> USE DEF BootInv
<1>1. /\ process' = [at |-> "ensure", who |-> 1, request |-> 0, env |-> bindings,
                     found |-> [p \in Bootstrap!Profiles |-> Bootstrap!NoAccount]]
      /\ Bootstrap!ValidBindings(bindings) /\ UNCHANGED <<account, requests, bindings, late>>
  BY DEF Bootstrap!Start, Bootstrap!AtRest
<1>2. BootTypes'
  BY <1>1, BootRows DEF BootTypes, BootProcess, BootPlaces, Bootstrap!NoAccount
<1>3. BindingsExist' /\ RequestsExist' /\ Bootstrap!ProfilesStayApart' /\ Bootstrap!AliasIsNotASecondAccount'
  BY <1>1, AsksNothing, BrokerStays
     DEF BindingsExist, Bootstrap!ProfilesStayApart, Bootstrap!AliasIsNotASecondAccount
<1>4. CommandKnows'
  BY <1>1, BrokerStays DEF CommandKnows, BindingsExist, Bootstrap!At, Bootstrap!Idle, Bootstrap!Who
<1>5. NothingLate'
  BY <1>1, BrokerStays DEF NothingLate, Bootstrap!At, Bootstrap!Who, Bootstrap!Account
<1> QED
  BY <1>2, <1>3, <1>4, <1>5

(* The command ends, or is killed.                                         *)
LEMMA LeaveBoot ==
  ASSUME BootInv, process' = Bootstrap!AtRest, UNCHANGED <<account, requests, bindings, late>>
  PROVE  BootInv'
<1> USE DEF BootInv
<1>1. process' = [at |-> "idle", who |-> 1, request |-> 0, env |-> bindings,
                  found |-> [p \in Bootstrap!Profiles |-> Bootstrap!NoAccount]]
  BY DEF Bootstrap!AtRest
<1>2. BootTypes'
  BY <1>1, BootRows DEF BootTypes, BootProcess, BootPlaces, Bootstrap!NoAccount
<1>3. BindingsExist' /\ RequestsExist' /\ Bootstrap!ProfilesStayApart' /\ Bootstrap!AliasIsNotASecondAccount'
  BY <1>1, AsksNothing, BrokerStays
     DEF BindingsExist, Bootstrap!ProfilesStayApart, Bootstrap!AliasIsNotASecondAccount
<1>4. CommandKnows'
  BY <1>1 DEF CommandKnows, Bootstrap!Idle
<1>5. NothingLate'
  BY <1>1, BrokerStays DEF NothingLate, Bootstrap!At, Bootstrap!Who, Bootstrap!Account
<1> QED
  BY <1>2, <1>3, <1>4, <1>5

(* The first open account of a name is one of them.                        *)
LEMMA TheFirstIsOne ==
  ASSUME NEW S \in SUBSET Nat, S # {}
  PROVE  Bootstrap!Min(S) \in S
<1>1. IsWellFoundedOn({pair \in Nat \X Nat : pair[1] < pair[2]}, Nat)
  BY NatLessThanWellFounded DEF OpToRel
<1>2. PICK n \in S : \A m \in S : <<m, n>> \notin {pair \in Nat \X Nat : pair[1] < pair[2]}
  BY <1>1, WFMin
<1>3. ASSUME NEW m \in S PROVE n <= m
  <2>1. <<m, n>> \in Nat \X Nat /\ <<m, n>>[1] = m /\ <<m, n>>[2] = n /\ m \in Nat /\ n \in Nat
    OBVIOUS
  <2>2. ~(<<m, n>>[1] < <<m, n>>[2])
    BY <1>2, <2>1
  <2> QED
    BY <2>1, <2>2
<1> QED
  BY <1>3 DEF Bootstrap!Min

(* What is appended leaves what was there where it was.                    *)
LEMMA BootSends ==
  ASSUME BootTypes, NEW act \in {"open", "pay"}, NEW on \in Bootstrap!Profiles \cup Payment, Bootstrap!Send(act, on)
  PROVE  /\ requests' \in Seq(BootRequest)
         /\ DOMAIN requests' = DOMAIN requests \cup {Len(requests) + 1}
         /\ Len(requests) + 1 \notin DOMAIN requests /\ Len(requests) + 1 \in Nat
         /\ \A r \in DOMAIN requests : requests'[r] = requests[r]
         /\ requests'[Len(requests) + 1] = Bootstrap!Request(act, on)
<1>1. requests \in Seq(BootRequest) /\ Bootstrap!Request(act, on) \in BootRequest
  BY DEF BootTypes, Bootstrap!Request, BootRequest, Bootstrap!NoAccount
<1> QED
  BY <1>1 DEF Bootstrap!Send

(* A profile is given an account that is open, the configured one if that  *)
(* is.                                                                     *)
LEMMA ResolvedBoot ==
  ASSUME BootInv, process.at \in {"ensure", "opening"}, NEW a, Bootstrap!IsOpen(a),
         Bootstrap!IsOpen(Bootstrap!Configured(Bootstrap!Env)[Bootstrap!Who]) => a = Bootstrap!Configured(Bootstrap!Env)[Bootstrap!Who],
         Bootstrap!Resolved(a), UNCHANGED <<account, requests, bindings, late>>
  PROVE  BootInv'
<1> USE DEF BootInv
<1>1. /\ process'.request = 0 /\ process'.env = process.env
      /\ process' = [at |-> IF Bootstrap!Who = 1 THEN "ensure" ELSE "distinct", who |-> 3 - Bootstrap!Who,
                     request |-> 0, env |-> process.env,
                     found |-> [process.found EXCEPT ![Bootstrap!Who] = a]]
      /\ process'.found[Bootstrap!Who] = a /\ a \in Nat /\ ~Bootstrap!Idle
      /\ \A p \in Bootstrap!Profiles : p # Bootstrap!Who => process'.found[p] = process.found[p]
  BY BootRows
     DEF Bootstrap!Resolved, BootProcess, Bootstrap!IsOpen, Bootstrap!Idle, Bootstrap!Profiles,
         Bootstrap!Who
<1>2. BootTypes'
  BY <1>1, BootRows DEF BootTypes, BootProcess, BootPlaces, Bootstrap!Profiles
<1>3. BindingsExist' /\ RequestsExist' /\ Bootstrap!ProfilesStayApart' /\ Bootstrap!AliasIsNotASecondAccount'
  BY AsksNothing, BrokerStays
     DEF BindingsExist, Bootstrap!ProfilesStayApart, Bootstrap!AliasIsNotASecondAccount
<1>4. CommandKnows'
  <2>1. /\ bindings = process.env /\ Bootstrap!ValidBindings(process.env) /\ (Bootstrap!Who = 2 => RightAccount(1))
        /\ {process.env.long, process.env.intraday, process.env.legacy}
             \subseteq Bootstrap!Account \cup {Bootstrap!NoAccount}
    BY <1>1 DEF CommandKnows
  <2>2. ASSUME NEW p \in Bootstrap!Profiles, p = Bootstrap!Who PROVE RightAccount(p)'
    BY <1>1, <2>2, BrokerStays DEF RightAccount, Bootstrap!Env, Bootstrap!Configured
  <2>3. Bootstrap!Who = 2 => RightAccount(1)'
    BY <1>1, <2>1, BrokerStays, BootRows DEF RightAccount, Bootstrap!Configured
  <2>4. CASE Bootstrap!Who = 1
    <3>1. process'.at = "ensure" /\ process'.who = 2
      BY <1>1, <2>4
    <3>2. RightAccount(1)'
      BY <2>2, <2>4, BootRows
    <3> QED
      BY <1>1, <2>1, <3>1, <3>2, BrokerStays
         DEF CommandKnows, Bootstrap!At, Bootstrap!Who, Bootstrap!Idle
  <2>5. CASE Bootstrap!Who = 2
    <3>1. process'.at = "distinct" /\ process'.who = 1
      BY <1>1, <2>5
    <3>2. RightAccount(1)' /\ RightAccount(2)'
      BY <2>2, <2>3, <2>5, BootRows
    <3> QED
      BY <1>1, <2>1, <3>1, <3>2, BrokerStays
         DEF CommandKnows, Bootstrap!At, Bootstrap!Who, Bootstrap!Idle
  <2> QED
    BY <2>4, <2>5, BootRows
<1>5. NothingLate'
  <2>1. process'.at \notin {"opening", "paying"}
    BY <1>1
  <2> QED
    BY <1>1, <2>1, BrokerStays DEF NothingLate, Bootstrap!At, Bootstrap!Account
<1> QED
  BY <1>2, <1>3, <1>4, <1>5

(* The answer names an account that is open.                               *)
LEMMA OpenedBoot == ASSUME BootInv, Bootstrap!Opened PROVE BootInv'
<1> USE DEF BootInv
<1>1. Bootstrap!At("opening") /\ Bootstrap!Answered /\ Bootstrap!Resolved(Bootstrap!Answer) /\ ~Bootstrap!Idle
      /\ UNCHANGED <<account, requests, bindings, late>>
  BY DEF Bootstrap!Opened, Bootstrap!At, Bootstrap!Idle
<1>2. Bootstrap!IsOpen(Bootstrap!Answer) /\ ~Bootstrap!IsOpen(Bootstrap!Configured(Bootstrap!Env)[Bootstrap!Who])
  BY <1>1 DEF CommandKnows, RequestsExist, Bootstrap!Answer, Bootstrap!Answered, Bootstrap!Env
<1> QED
  BY <1>1, <1>2, ResolvedBoot DEF Bootstrap!At

(* The account is found, or asked for where there is none.                 *)
LEMMA EnsureBoot == ASSUME BootInv, Bootstrap!Ensure PROVE BootInv'
<1> USE DEF BootInv
<1>1. Bootstrap!At("ensure") /\ UNCHANGED <<account, bindings, late>> /\ ~Bootstrap!Idle
  BY DEF Bootstrap!Ensure, Bootstrap!At, Bootstrap!Idle
<1>2. ASSUME NEW a \in Bootstrap!Existing, Bootstrap!Resolved(a), UNCHANGED requests PROVE BootInv'
  <2>1. Bootstrap!Named(Bootstrap!Who) # {} => Bootstrap!Min(Bootstrap!Named(Bootstrap!Who)) \in Bootstrap!Named(Bootstrap!Who)
    <3>1. Bootstrap!Named(Bootstrap!Who) \in SUBSET Nat
      BY BootRows DEF Bootstrap!Named
    <3> QED
      BY <3>1, TheFirstIsOne
  <2>2. Bootstrap!IsOpen(a) /\ (Bootstrap!IsOpen(Bootstrap!Configured(Bootstrap!Env)[Bootstrap!Who]) => a = Bootstrap!Configured(Bootstrap!Env)[Bootstrap!Who])
    BY <1>2, <2>1 DEF Bootstrap!Existing, Bootstrap!Named, Bootstrap!IsOpen
  <2> QED
    BY <1>1, <1>2, <2>2, ResolvedBoot DEF Bootstrap!At
<1>3. ASSUME Bootstrap!Existing = {}, Bootstrap!Do("open", Bootstrap!Who, "opening") PROVE BootInv'
  <2>1. /\ Bootstrap!Send("open", Bootstrap!Who) /\ Bootstrap!Who \in Bootstrap!Profiles
        /\ process' = [process EXCEPT !.at = "opening", !.request = Len(requests) + 1]
        /\ ~Bootstrap!IsOpen(Bootstrap!Configured(Bootstrap!Env)[Bootstrap!Who]) /\ Bootstrap!Named(Bootstrap!Who) = {}
    BY <1>3, BootRows DEF Bootstrap!Do, Bootstrap!Existing, BootProcess, Bootstrap!Who
  <2>2. /\ requests' \in Seq(BootRequest)
        /\ DOMAIN requests' = DOMAIN requests \cup {Len(requests) + 1}
        /\ Len(requests) + 1 \notin DOMAIN requests /\ Len(requests) + 1 \in Nat
        /\ \A r \in DOMAIN requests : requests'[r] = requests[r]
        /\ requests'[Len(requests) + 1] = Bootstrap!Request("open", Bootstrap!Who)
    BY <2>1, BootSends
  <2>3. /\ process'.at = "opening" /\ process'.who = Bootstrap!Who /\ process'.env = process.env
        /\ process'.found = process.found /\ process'.request = Len(requests) + 1
    BY <2>1, BootRows DEF BootProcess, Bootstrap!Who
  <2>4. BootTypes'
    BY <1>1, <2>1, <2>2, BootRows DEF BootTypes, BootProcess, BootPlaces
  <2>5. BindingsExist' /\ Bootstrap!ProfilesStayApart' /\ Bootstrap!AliasIsNotASecondAccount'
    BY <1>1, BrokerStays
       DEF BindingsExist, Bootstrap!ProfilesStayApart, Bootstrap!AliasIsNotASecondAccount
  <2>6. RequestsExist'
    BY <1>1, <2>1, <2>2, BrokerStays DEF RequestsExist, Bootstrap!Request
  <2>7. CommandKnows'
    <3>1. Bootstrap!Who' = Bootstrap!Who /\ Bootstrap!Configured(process.env)' = Bootstrap!Configured(process.env)
          /\ \A p : RightAccount(p)' = RightAccount(p)
      BY <1>1, <2>3, FoundStays DEF Bootstrap!Who, Bootstrap!Configured
    <3> QED
      BY <1>1, <2>1, <2>2, <2>3, <3>1, BrokerStays
         DEF CommandKnows, Bootstrap!At, Bootstrap!Idle, Bootstrap!Request, Bootstrap!Env
  <2>8. NothingLate'
    <3>1. Bootstrap!Who' = Bootstrap!Who
      BY <2>3 DEF Bootstrap!Who
    <3> QED
      BY <1>1, <2>1, <2>3, <3>1, BrokerStays DEF NothingLate, Bootstrap!At, Bootstrap!Account
  <2> QED
    BY <2>4, <2>5, <2>6, <2>7, <2>8
<1> QED
  BY <1>2, <1>3 DEF Bootstrap!Ensure

(* The two accounts are compared.                                          *)
LEMMA DistinctBoot == ASSUME BootInv, Bootstrap!Distinct PROVE BootInv'
<1> USE DEF BootInv
<1>1. /\ Bootstrap!At("distinct") /\ process.found[1] # process.found[2] /\ ~Bootstrap!Idle
      /\ process' = [process EXCEPT !.at = "bind", !.request = 0]
      /\ UNCHANGED <<account, requests, bindings, late>>
  BY DEF Bootstrap!Distinct, Bootstrap!Goto, Bootstrap!At, Bootstrap!Idle
<1>2. /\ process'.at = "bind" /\ process'.who = process.who /\ process'.env = process.env
      /\ process'.found = process.found /\ process'.request = 0
  BY <1>1, BootRows DEF BootProcess
<1>3. BootTypes'
  BY <1>1, BootRows DEF BootTypes, BootProcess, BootPlaces
<1>4. BindingsExist' /\ RequestsExist' /\ Bootstrap!ProfilesStayApart' /\ Bootstrap!AliasIsNotASecondAccount'
  BY <1>1, AsksNothing, BrokerStays
     DEF BindingsExist, Bootstrap!ProfilesStayApart, Bootstrap!AliasIsNotASecondAccount
<1>5. CommandKnows'
  <2>1. \A p : RightAccount(p)' = RightAccount(p)
    BY <1>1, <1>2, FoundStays
  <2> QED
    BY <1>1, <1>2, <2>1, BrokerStays DEF CommandKnows, Bootstrap!At, Bootstrap!Who, Bootstrap!Idle
<1>6. NothingLate'
  BY <1>1, <1>2, BrokerStays DEF NothingLate, Bootstrap!At, Bootstrap!Account
<1> QED
  BY <1>3, <1>4, <1>5, <1>6

(* One key is written.                                                     *)
LEMMA BindBoot == ASSUME BootInv, Bootstrap!Bind PROVE BootInv'
<1> USE DEF BootInv
<1>1. /\ Bootstrap!At("bind") /\ ~Bootstrap!Idle /\ Bootstrap!Who \in {1, 2}
      /\ bindings' = IF Bootstrap!Who = 1 THEN [bindings EXCEPT !.long = process.found[Bootstrap!Who]]
                     ELSE [bindings EXCEPT !.intraday = process.found[Bootstrap!Who]]
      /\ process' = [process EXCEPT !.at = IF Bootstrap!Who = 1 THEN "alias" ELSE "fund", !.request = 0]
      /\ UNCHANGED <<account, requests, late>>
  BY BootRows DEF Bootstrap!Bind, Bootstrap!Goto, Bootstrap!At, Bootstrap!Idle, Bootstrap!Found
<1>2. /\ process'.at = (IF Bootstrap!Who = 1 THEN "alias" ELSE "fund") /\ process'.who = process.who
      /\ process'.env = process.env /\ process'.found = process.found /\ process'.request = 0
  BY <1>1, BootRows DEF BootProcess
<1>3. /\ RightAccount(1) /\ RightAccount(2) /\ process.found[1] # process.found[2]
      /\ Bootstrap!Who = 1 => bindings = process.env
      /\ Bootstrap!Who = 2 => bindings.long = process.found[1]
      /\ Bootstrap!ValidBindings(process.env)
      /\ {process.env.long, process.env.intraday, process.env.legacy}
           \subseteq Bootstrap!Account \cup {Bootstrap!NoAccount}
  BY <1>1 DEF CommandKnows, Bootstrap!At
<1>4. /\ process.found[1] \in Bootstrap!Account /\ process.found[2] \in Bootstrap!Account
      /\ process.found[1] # Bootstrap!NoAccount /\ process.found[2] # Bootstrap!NoAccount
      /\ Bootstrap!IsOpen(process.found[1]) /\ Bootstrap!IsOpen(process.found[2])
  BY <1>3, BootRows DEF RightAccount, Bootstrap!IsOpen
<1>5. /\ bindings'.legacy = bindings.legacy
      /\ Bootstrap!Who = 1 => bindings'.long = process.found[1] /\ bindings'.intraday = bindings.intraday
      /\ Bootstrap!Who = 2 => bindings'.long = bindings.long /\ bindings'.intraday = process.found[2]
      /\ bindings' \in Bindings
  BY <1>1, BootRows DEF Bindings
<1>6. BootTypes'
  BY <1>1, <1>5, BootRows DEF BootTypes, BootProcess, BootPlaces
<1>7. BindingsExist'
  BY <1>1, <1>4, <1>5, BrokerStays DEF BindingsExist
<1>8. Bootstrap!ProfilesStayApart'
  BY <1>1, <1>3, <1>4, <1>5
     DEF Bootstrap!ProfilesStayApart, BindingsExist, RightAccount, Bootstrap!Configured
<1>9. Bootstrap!AliasIsNotASecondAccount'
  BY <1>1, <1>3, <1>4, <1>5, BrokerStays
     DEF Bootstrap!AliasIsNotASecondAccount, RightAccount, Bootstrap!Configured,
         Bootstrap!ValidBindings
<1>10. RequestsExist'
  BY <1>1, AsksNothing
<1>11. CommandKnows'
  <2>1. \A p : RightAccount(p)' = RightAccount(p)
    BY <1>1, <1>2, FoundStays
  <2> QED
    BY <1>1, <1>2, <1>3, <1>5, <2>1, BrokerStays
       DEF CommandKnows, Bootstrap!At, Bootstrap!Who, Bootstrap!Idle
<1>12. NothingLate'
  BY <1>1, <1>2, BrokerStays DEF NothingLate, Bootstrap!At, Bootstrap!Account
<1> QED
  BY <1>6, <1>7, <1>8, <1>9, <1>10, <1>11, <1>12

(* The alias follows.                                                      *)
LEMMA BindAliasBoot == ASSUME BootInv, Bootstrap!BindAlias PROVE BootInv'
<1> USE DEF BootInv
<1>1. /\ Bootstrap!At("alias") /\ ~Bootstrap!Idle /\ Bootstrap!Who = 1
      /\ bindings' = [bindings EXCEPT !.legacy = process.found[1]]
      /\ process' = [process EXCEPT !.at = "fund", !.request = 0]
      /\ UNCHANGED <<account, requests, late>>
  <2>1. Bootstrap!At("alias") /\ ~Bootstrap!Idle
    BY DEF Bootstrap!BindAlias, Bootstrap!At, Bootstrap!Idle
  <2> QED
    BY <2>1 DEF Bootstrap!BindAlias, Bootstrap!Goto, Bootstrap!At, Bootstrap!Found, CommandKnows
<1>2. /\ process'.at = "fund" /\ process'.who = process.who
      /\ process'.env = process.env /\ process'.found = process.found /\ process'.request = 0
  BY <1>1, BootRows DEF BootProcess
<1>3. /\ RightAccount(1) /\ RightAccount(2) /\ process.found[1] # process.found[2]
      /\ bindings.long = process.found[1] /\ Bootstrap!ValidBindings(process.env)
      /\ {process.env.long, process.env.intraday, process.env.legacy}
           \subseteq Bootstrap!Account \cup {Bootstrap!NoAccount}
  BY <1>1 DEF CommandKnows, Bootstrap!At
<1>4. process.found[1] \in Bootstrap!Account
  BY <1>3 DEF RightAccount, Bootstrap!IsOpen
<1>5. /\ bindings'.legacy = process.found[1] /\ bindings'.long = bindings.long
      /\ bindings'.intraday = bindings.intraday /\ bindings' \in Bindings
  BY <1>1, BootRows DEF Bindings
<1>6. BootTypes'
  BY <1>1, <1>5, BootRows DEF BootTypes, BootProcess, BootPlaces
<1>7. BindingsExist' /\ Bootstrap!ProfilesStayApart' /\ Bootstrap!AliasIsNotASecondAccount'
  BY <1>1, <1>3, <1>4, <1>5, BrokerStays
     DEF BindingsExist, Bootstrap!ProfilesStayApart, Bootstrap!AliasIsNotASecondAccount
<1>8. RequestsExist'
  BY <1>1, AsksNothing
<1>9. CommandKnows'
  <2>1. \A p : RightAccount(p)' = RightAccount(p)
    BY <1>1, <1>2, FoundStays
  <2> QED
    BY <1>1, <1>2, <1>3, <1>5, <2>1, BrokerStays
       DEF CommandKnows, Bootstrap!At, Bootstrap!Who, Bootstrap!Idle
<1>10. NothingLate'
  BY <1>1, <1>2, BrokerStays DEF NothingLate, Bootstrap!At, Bootstrap!Account
<1> QED
  BY <1>6, <1>7, <1>8, <1>9, <1>10

(* The next profile, or the end.                                           *)
LEMMA NextProfileBoot ==
  ASSUME BootInv, process.at \in {"fund", "paying"}, Bootstrap!NextProfile,
         UNCHANGED <<account, requests, bindings, late>>
  PROVE  BootInv'
<1> USE DEF BootInv
<1>1. CASE Bootstrap!Who = 1
  <2>1. process' = [process EXCEPT !.at = "bind", !.who = 2, !.request = 0]
    BY <1>1 DEF Bootstrap!NextProfile
  <2>2. /\ process'.at = "bind" /\ process'.who = 2
        /\ process'.env = process.env /\ process'.found = process.found /\ process'.request = 0
    BY <2>1, BootRows DEF BootProcess
  <2>3. BootTypes'
    BY <2>1, BootRows DEF BootTypes, BootProcess, BootPlaces
  <2>4. BindingsExist' /\ RequestsExist' /\ Bootstrap!ProfilesStayApart' /\ Bootstrap!AliasIsNotASecondAccount'
    BY AsksNothing, BrokerStays
       DEF BindingsExist, Bootstrap!ProfilesStayApart, Bootstrap!AliasIsNotASecondAccount
  <2>5. CommandKnows'
    <3>1. \A p : RightAccount(p)' = RightAccount(p)
      BY <2>2, FoundStays
    <3> QED
      BY <1>1, <2>2, <3>1, BrokerStays DEF CommandKnows, Bootstrap!At, Bootstrap!Who, Bootstrap!Idle
  <2>6. NothingLate'
    BY <2>2, BrokerStays DEF NothingLate, Bootstrap!At, Bootstrap!Account
  <2> QED
    BY <2>3, <2>4, <2>5, <2>6
<1>2. CASE Bootstrap!Who # 1
  BY <1>2, LeaveBoot DEF Bootstrap!NextProfile
<1> QED
  BY <1>1, <1>2

(* What is missing is asked for.                                           *)
LEMMA FundBoot == ASSUME BootInv, Bootstrap!Fund PROVE BootInv'
<1> USE DEF BootInv
<1>1. Bootstrap!At("fund") /\ UNCHANGED <<account, bindings, late>> /\ ~Bootstrap!Idle
  BY DEF Bootstrap!Fund, Bootstrap!At, Bootstrap!Idle
<1>2. ASSUME Bootstrap!Deficit > 0, Bootstrap!Do("pay", [account |-> Bootstrap!Found, amount |-> Bootstrap!Deficit], "paying")
      PROVE  BootInv'
  <2>1. PICK a, n : a = Bootstrap!Found /\ n = Bootstrap!Deficit
    OBVIOUS
  <2>2. /\ RightAccount(1) /\ RightAccount(2) /\ process.found[1] # process.found[2]
    BY <1>1 DEF CommandKnows, Bootstrap!At
  <2>3. /\ a \in Bootstrap!Account /\ account[a] \in BootAccount /\ a \in Nat
        /\ n = Bootstrap!Target - account[a].balance /\ n \in Nat
    <3>1. a \in Bootstrap!Account
      BY <2>1, <2>2, BootRows DEF RightAccount, Bootstrap!IsOpen, Bootstrap!Found
    <3>2. account[a] \in BootAccount /\ a \in Nat
      BY <3>1, BootRows
    <3>3. n = Bootstrap!Target - account[a].balance /\ n > 0
      BY <1>2, <2>1 DEF Bootstrap!Deficit
    <3> QED
      BY <3>1, <3>2, <3>3 DEF BootAccount, Bootstrap!Target
  <2>4. [account |-> a, amount |-> n] \in Payment
    BY <2>3 DEF Payment
  <2>5. /\ Bootstrap!Send("pay", [account |-> a, amount |-> n])
        /\ process' = [process EXCEPT !.at = "paying", !.request = Len(requests) + 1]
    BY <1>2, <2>1 DEF Bootstrap!Do
  <2>6. /\ requests' \in Seq(BootRequest)
        /\ DOMAIN requests' = DOMAIN requests \cup {Len(requests) + 1}
        /\ Len(requests) + 1 \notin DOMAIN requests /\ Len(requests) + 1 \in Nat
        /\ \A r \in DOMAIN requests : requests'[r] = requests[r]
        /\ requests'[Len(requests) + 1] = Bootstrap!Request("pay", [account |-> a, amount |-> n])
    BY <2>4, <2>5, BootSends
  <2>7. /\ process'.at = "paying" /\ process'.who = process.who /\ process'.env = process.env
        /\ process'.found = process.found /\ process'.request = Len(requests) + 1
    BY <2>5, BootRows DEF BootProcess
  <2>8. BootTypes'
    BY <1>1, <2>5, <2>6, BootRows DEF BootTypes, BootProcess, BootPlaces
  <2>9. BindingsExist' /\ Bootstrap!ProfilesStayApart' /\ Bootstrap!AliasIsNotASecondAccount'
    BY <1>1, BrokerStays
       DEF BindingsExist, Bootstrap!ProfilesStayApart, Bootstrap!AliasIsNotASecondAccount
  <2>10. RequestsExist'
    BY <1>1, <2>3, <2>6, BrokerStays DEF RequestsExist, Bootstrap!Request
  <2>11. CommandKnows'
    <3>1. \A p : RightAccount(p)' = RightAccount(p)
      BY <1>1, <2>7, FoundStays
    <3> QED
      BY <1>1, <2>2, <2>7, <3>1, BrokerStays
         DEF CommandKnows, Bootstrap!At, Bootstrap!Who, Bootstrap!Idle
  <2>12. NothingLate'
    <3>1. account[a].balance + n <= Bootstrap!Target
      BY <2>3 DEF BootAccount, Bootstrap!Target
    <3> QED
      BY <1>1, <2>3, <2>6, <2>7, <3>1, BrokerStays
         DEF NothingLate, Bootstrap!At, Bootstrap!Account, Bootstrap!Request
  <2> QED
    BY <2>8, <2>9, <2>10, <2>11, <2>12
<1>3. ASSUME Bootstrap!NextProfile, UNCHANGED requests PROVE BootInv'
  BY <1>1, <1>3, NextProfileBoot DEF Bootstrap!At
<1> QED
  BY <1>2, <1>3 DEF Bootstrap!Fund

(* The payment is answered.                                                *)
LEMMA PaidBoot == ASSUME BootInv, Bootstrap!Paid PROVE BootInv'
BY NextProfileBoot DEF Bootstrap!Paid, Bootstrap!At

(* The services trade between the commands.                                *)
LEMMA TradeBoot == ASSUME BootInv, Bootstrap!Trade, UNCHANGED late PROVE BootInv'
<1> USE DEF BootInv
<1>1. Bootstrap!Idle /\ UNCHANGED <<requests, bindings, process, late>>
  BY DEF Bootstrap!Trade
<1>2. PICK a : Bootstrap!IsOpen(a) /\ account' = [account EXCEPT ![a].holding = 1, ![a].balance = 0]
  BY DEF Bootstrap!Trade
<1>3. /\ a \in Bootstrap!Account /\ Bootstrap!Account' = Bootstrap!Account
      /\ \A b \in Bootstrap!Account : /\ account'[b].name = account[b].name
                            /\ account'[b].open = account[b].open
                            /\ account'[b].balance \in {0, account[b].balance}
      /\ account' \in Seq(BootAccount)
  <2>1. a \in Bootstrap!Account /\ account[a] \in BootAccount
    BY <1>2, BootRows DEF Bootstrap!IsOpen
  <2>2. account' = [account EXCEPT ![a] = [account[a] EXCEPT !.holding = 1, !.balance = 0]]
    BY <1>2, BootRows, <2>1 DEF BootAccount
  <2>3. [account[a] EXCEPT !.holding = 1, !.balance = 0] \in BootAccount
    BY <2>1 DEF BootAccount
  <2>4. account \in Seq(BootAccount)
    BY DEF BootTypes
  <2>5. account' \in Seq(BootAccount) /\ Bootstrap!Account' = Bootstrap!Account
    BY <2>1, <2>2, <2>3, <2>4 DEF Bootstrap!Account
  <2> QED
    BY <2>1, <2>2, <2>5 DEF BootAccount, Bootstrap!Account
<1>4. \A b : Bootstrap!IsOpen(b)' = Bootstrap!IsOpen(b)
  BY <1>3 DEF Bootstrap!IsOpen
<1>5. BootTypes' /\ CommandKnows'
  BY <1>1, <1>3 DEF BootTypes, CommandKnows, Bootstrap!Idle
<1>6. BindingsExist' /\ RequestsExist' /\ Bootstrap!ProfilesStayApart' /\ Bootstrap!AliasIsNotASecondAccount'
  BY <1>1, <1>3, <1>4
     DEF BindingsExist, RequestsExist, Bootstrap!ProfilesStayApart,
         Bootstrap!AliasIsNotASecondAccount
<1>7. NothingLate'
  BY <1>1, <1>3 DEF NothingLate, Bootstrap!At, Bootstrap!Idle, Bootstrap!Target
<1> QED
  BY <1>5, <1>6, <1>7

(* A request is executed: what its command knew stays so.                  *)
LEMMA OpenBoot ==
  ASSUME BootInv, NEW r \in DOMAIN requests, requests[r].state = "travelling", Bootstrap!Open(r),
         UNCHANGED <<bindings, process>>,
         late' = (late \/ (account' # account
                           /\ \E s \in DOMAIN requests :
                                s # process.request /\ requests'[s].state # requests[s].state))
  PROVE  BootInv'
<1> USE DEF BootInv
<1>1. PICK new : new = Len(account) + 1
  OBVIOUS
<1>2. /\ requests' = [requests EXCEPT ![r].state = "done", ![r].answer = new]
      /\ account' = Append(account, Bootstrap!NewAccount(requests[r].on))
      /\ requests[r].do = "open" /\ requests[r] \in BootRequest /\ requests[r].on \in Bootstrap!Profiles
  BY <1>1, BootRows DEF Bootstrap!Open, Bootstrap!InState, RequestsExist
<1>3. PICK w \in Bootstrap!Profiles : w = requests[r].on
  BY <1>2
<1>4. /\ Bootstrap!Account' = Bootstrap!Account \cup {new} /\ new \notin Bootstrap!Account /\ new \in Nat /\ new # Bootstrap!NoAccount
      /\ \A a \in Bootstrap!Account : account'[a] = account[a]
      /\ account'[new] = Bootstrap!NewAccount(w)
      /\ account' \in Seq(BootAccount) /\ account' # account
  <2>1. Bootstrap!NewAccount(w) \in BootAccount
    BY DEF Bootstrap!NewAccount, BootAccount, BootNames
  <2>2. account \in Seq(BootAccount)
    BY DEF BootTypes
  <2>3. /\ Bootstrap!Account' = Bootstrap!Account \cup {new} /\ new \notin Bootstrap!Account /\ new \in Nat /\ new # Bootstrap!NoAccount
        /\ \A a \in Bootstrap!Account : account'[a] = account[a]
        /\ account'[new] = Bootstrap!NewAccount(w)
        /\ account' \in Seq(BootAccount)
    <3>1. account' = Append(account, Bootstrap!NewAccount(w))
      BY <1>2, <1>3
    <3>2. /\ account' \in Seq(BootAccount) /\ Len(account') = new
          /\ \A a \in 1..Len(account) : account'[a] = account[a]
          /\ account'[new] = Bootstrap!NewAccount(w)
          /\ Bootstrap!Account' = 1..Len(account')
      BY <1>1, <2>1, <2>2, <3>1 DEF Bootstrap!Account
    <3> QED
      BY <1>1, <3>2, BootRows DEF Bootstrap!NoAccount
  <2> QED
    BY <2>3 DEF Bootstrap!Account
<1>5. /\ DOMAIN requests' = DOMAIN requests
      /\ \A s \in DOMAIN requests :
           /\ requests'[s].do = requests[s].do /\ requests'[s].on = requests[s].on
           /\ s # r => requests'[s] = requests[s]
      /\ requests'[r].state = "done" /\ requests'[r].answer = new
      /\ requests' \in Seq(BootRequest)
  <2>1. requests \in Seq(BootRequest) /\ requests \in [1..Len(requests) -> BootRequest]
    BY DEF BootTypes
  <2>2. requests' \in [1..Len(requests) -> BootRequest]
    BY <1>2, <1>4, <2>1, BootRows DEF BootRequest
  <2>3. requests' \in Seq(BootRequest)
    BY <2>1, <2>2
  <2> QED
    BY <1>2, <2>1, <2>3, BootRows DEF BootRequest
<1>6. /\ \A a \in Bootstrap!Account : Bootstrap!IsOpen(a)' = Bootstrap!IsOpen(a)
      /\ Bootstrap!IsOpen(new)' /\ \A a : Bootstrap!IsOpen(a) => Bootstrap!IsOpen(a)'
  BY <1>4 DEF Bootstrap!IsOpen, Bootstrap!NewAccount
<1>7. Bootstrap!IsOpen(Bootstrap!NoAccount)' = Bootstrap!IsOpen(Bootstrap!NoAccount)
  BY <1>4, BootRows DEF Bootstrap!IsOpen
<1>8. BootTypes'
  BY <1>4, <1>5, BootRows DEF BootTypes
<1>9. BindingsExist' /\ Bootstrap!ProfilesStayApart'
  BY <1>4, <1>6 DEF BindingsExist, Bootstrap!ProfilesStayApart
<1>10. Bootstrap!AliasIsNotASecondAccount'
  BY <1>6, <1>7 DEF Bootstrap!AliasIsNotASecondAccount, BindingsExist
<1>11. RequestsExist'
  BY <1>4, <1>5, <1>6 DEF RequestsExist
<1>12. CommandKnows'
  <2>1. SUFFICES ASSUME ~Bootstrap!Idle PROVE CommandKnows'
    BY DEF CommandKnows, Bootstrap!Idle
  <2>2. \A p \in Bootstrap!Profiles : Bootstrap!Configured(process.env)[p] \in Bootstrap!Account \cup {Bootstrap!NoAccount}
    BY <2>1 DEF CommandKnows, Bootstrap!Configured, Bootstrap!Profiles
  <2>3. \A p \in Bootstrap!Profiles : RightAccount(p) => RightAccount(p)'
    BY <1>6, <1>7, <2>2 DEF RightAccount, Bootstrap!Configured
  <2>4. \A p \in Bootstrap!Profiles : Bootstrap!IsOpen(Bootstrap!Configured(process.env)[p])' = Bootstrap!IsOpen(Bootstrap!Configured(process.env)[p])
    BY <1>6, <1>7, <2>2 DEF Bootstrap!Configured
  <2> QED
    BY <1>4, <1>5, <1>6, <2>1, <2>3, <2>4, BootRows, SMTT(30)
       DEF CommandKnows, Bootstrap!At, Bootstrap!Who, Bootstrap!Idle
<1>13. NothingLate'
  <2>1. SUFFICES ASSUME ~late' PROVE NothingLate'
    BY DEF NothingLate
  <2>2. process.request = r /\ ~late
    BY <1>2, <1>4, <1>5, <2>1
  <2>3. Bootstrap!At("opening") \/ Bootstrap!At("paying")
    BY <2>2, BootRows DEF NothingLate, Bootstrap!At
  <2>4. Bootstrap!At("opening") /\ ~Bootstrap!At("paying") /\ w = Bootstrap!Who /\ Bootstrap!Named(Bootstrap!Who) = {} /\ ~Bootstrap!Idle
    BY <1>2, <1>3, <2>2, <2>3 DEF NothingLate, CommandKnows, Bootstrap!At, Bootstrap!Idle
  <2>5. \A a \in Bootstrap!Account : ~(account[a].name = w /\ account[a].open)
    BY <2>4 DEF Bootstrap!Named
  <2>6. account'[new].name = w /\ account'[new].balance = 0
    BY <1>4 DEF Bootstrap!NewAccount
  <2> QED
    BY <1>4, <1>5, <2>2, <2>4, <2>5, <2>6, SMTT(30) DEF NothingLate, Bootstrap!At, Bootstrap!Target
<1> QED
  BY <1>8, <1>9, <1>10, <1>11, <1>12, <1>13

(* An account is changed.                                                  *)
LEMMA BootRowReplaced ==
  ASSUME account \in Seq(BootAccount), NEW a \in Bootstrap!Account, NEW row \in BootAccount,
         account' = [account EXCEPT ![a] = row]
  PROVE  /\ account' \in Seq(BootAccount) /\ Bootstrap!Account' = Bootstrap!Account
         /\ account'[a] = row
         /\ \A b \in Bootstrap!Account : b # a => account'[b] = account[b]
BY DEF Bootstrap!Account

(* A payment arrives; what was asked in time does not exceed the target.   *)
LEMMA PayInBoot ==
  ASSUME BootInv, NEW r \in DOMAIN requests, requests[r].state = "travelling", Bootstrap!PayIn(r),
         UNCHANGED <<bindings, process>>,
         late' = (late \/ (account' # account
                           /\ \E s \in DOMAIN requests :
                                s # process.request /\ requests'[s].state # requests[s].state))
  PROVE  BootInv'
<1> USE DEF BootInv
<1>1. PICK a, n : a = requests[r].on.account /\ n = requests[r].on.amount
  OBVIOUS
<1>2. /\ account' = [account EXCEPT ![a].balance = @ + n, ![a].paid = @ + 1]
      /\ requests' = [requests EXCEPT ![r].state = "done", ![r].answer = a]
      /\ requests[r].do = "pay" /\ requests[r] \in BootRequest /\ a \in Bootstrap!Account /\ n \in Nat
      /\ account[a] \in BootAccount
  BY <1>1, BootRows DEF Bootstrap!PayIn, Bootstrap!InState, RequestsExist
<1>3. PICK m, k : m = account[a].balance + n /\ k = account[a].paid + 1 /\ m \in Nat /\ k \in Nat
  BY <1>2 DEF BootAccount
<1>4. /\ account' = [account EXCEPT ![a] = [account[a] EXCEPT !.balance = m, !.paid = k]]
      /\ [account[a] EXCEPT !.balance = m, !.paid = k] \in BootAccount
  BY <1>2, <1>3 DEF BootAccount
<1>5. /\ account' \in Seq(BootAccount) /\ Bootstrap!Account' = Bootstrap!Account
      /\ account'[a] = [account[a] EXCEPT !.balance = m, !.paid = k]
      /\ \A b \in Bootstrap!Account : b # a => account'[b] = account[b]
  BY <1>2, <1>4, BootRowReplaced DEF BootTypes
<1>6. /\ \A b \in Bootstrap!Account : account'[b].name = account[b].name /\ account'[b].open = account[b].open
      /\ account'[a].balance = account[a].balance + n /\ account'[a].paid = account[a].paid + 1
      /\ account' # account
  <2>1. ASSUME NEW row \in BootAccount
        PROVE  LET after == [row EXCEPT !.balance = m, !.paid = k]
               IN  /\ after.balance = m /\ after.paid = k
                   /\ after.name = row.name /\ after.open = row.open /\ row.paid \in Nat
    BY DEF BootAccount
  <2>2. /\ account'[a].balance = m /\ account'[a].paid = k /\ account[a].paid \in Nat
        /\ account'[a].name = account[a].name /\ account'[a].open = account[a].open
    BY <1>2, <1>5, <2>1
  <2>3. \A b \in Bootstrap!Account : account'[b].name = account[b].name /\ account'[b].open = account[b].open
    BY <1>5, <2>2
  <2>4. account' # account
    BY <1>3, <2>2
  <2> QED
    BY <1>3, <2>2, <2>3, <2>4
<1>7. /\ DOMAIN requests' = DOMAIN requests
      /\ \A s \in DOMAIN requests :
           /\ requests'[s].do = requests[s].do /\ requests'[s].on = requests[s].on
           /\ s # r => requests'[s] = requests[s]
      /\ requests'[r].state = "done"
      /\ requests' \in Seq(BootRequest)
  <2>1. requests \in Seq(BootRequest) /\ requests \in [1..Len(requests) -> BootRequest]
    BY DEF BootTypes
  <2>2. requests' \in [1..Len(requests) -> BootRequest]
    BY <1>2, <2>1, BootRows DEF BootRequest
  <2>3. requests' \in Seq(BootRequest)
    BY <2>1, <2>2
  <2> QED
    BY <1>2, <2>1, <2>3, BootRows DEF BootRequest
<1>8. \A b : Bootstrap!IsOpen(b)' = Bootstrap!IsOpen(b)
  BY <1>5, <1>6 DEF Bootstrap!IsOpen
<1>9. BootTypes'
  BY <1>5, <1>7, BootRows DEF BootTypes
<1>10. BindingsExist' /\ Bootstrap!ProfilesStayApart' /\ Bootstrap!AliasIsNotASecondAccount'
  BY <1>5, <1>8 DEF BindingsExist, Bootstrap!ProfilesStayApart, Bootstrap!AliasIsNotASecondAccount
<1>11. RequestsExist'
  BY <1>2, <1>5, <1>7, <1>8 DEF RequestsExist
<1>12. CommandKnows'
  <2>1. \A p : RightAccount(p)' = RightAccount(p)
    BY <1>8 DEF RightAccount, Bootstrap!Configured
  <2> QED
    BY <1>5, <1>7, <1>8, <2>1, BootRows
       DEF CommandKnows, Bootstrap!At, Bootstrap!Who, Bootstrap!Idle, Bootstrap!Configured
<1>13. NothingLate'
  <2>1. SUFFICES ASSUME ~late' PROVE NothingLate'
    BY DEF NothingLate
  <2>2. process.request = r /\ ~late
    BY <1>2, <1>6, <1>7, <2>1
  <2>3. Bootstrap!At("opening") \/ Bootstrap!At("paying")
    BY <2>2, BootRows DEF NothingLate, Bootstrap!At
  <2>4. Bootstrap!At("paying") /\ ~Bootstrap!At("opening")
    BY <1>2, <2>2, <2>3 DEF CommandKnows, Bootstrap!At, Bootstrap!Idle
  <2>5. account[a].balance + n <= Bootstrap!Target
    BY <1>1, <2>2, <2>4 DEF NothingLate
  <2>6. /\ \A b, c \in Bootstrap!Account' :
             account'[b].name = account'[c].name /\ account'[b].name \in Bootstrap!Profiles
             /\ account'[b].open /\ account'[c].open => b = c
        /\ \A b \in Bootstrap!Account' : account'[b].balance <= Bootstrap!Target
    <3>1. \A b \in Bootstrap!Account : account'[b].balance <= Bootstrap!Target
      <4>1. \A b \in Bootstrap!Account : account[b].balance <= Bootstrap!Target
        BY <2>2 DEF NothingLate
      <4> QED
        BY <1>5, <1>6, <2>5, <4>1
    <3>2. \A b, c \in Bootstrap!Account :
            account[b].name = account[c].name /\ account[b].name \in Bootstrap!Profiles
            /\ account[b].open /\ account[c].open => b = c
      BY <2>2 DEF NothingLate
    <3> QED
      BY <1>5, <1>6, <3>1, <3>2
  <2>7. /\ process' = process /\ process.request \in DOMAIN requests'
        /\ requests'[process.request].do = "pay"
        /\ requests'[process.request].state # "travelling"
    BY <1>2, <1>7, <2>2
  <2> QED
    BY <2>4, <2>6, <2>7 DEF NothingLate, Bootstrap!At
<1> QED
  BY <1>9, <1>10, <1>11, <1>12, <1>13

(* Every step keeps the invariant.                                         *)
LEMMA BootStep == ASSUME BootInv, [Bootstrap!Next]_Bootstrap!vars PROVE BootInv'
<1>1. ASSUME Bootstrap!BrokerStep PROVE BootInv'
  <2>1. PICK r \in DOMAIN requests :
          requests[r].state = "travelling" /\ (Bootstrap!Open(r) \/ Bootstrap!PayIn(r) \/ Bootstrap!CloseAccount(r))
    BY <1>1 DEF Bootstrap!BrokerStep, Bootstrap!Broker
  <2>2. ~Bootstrap!CloseAccount(r)
    BY BootRows DEF BootInv, Bootstrap!CloseAccount, BootRequest
  <2> QED
    BY <1>1, <2>1, <2>2, OpenBoot, PayInBoot DEF Bootstrap!BrokerStep, Bootstrap!Broker
<1>2. ASSUME Bootstrap!Trade, UNCHANGED <<runs, late>> PROVE BootInv'
  BY <1>2, TradeBoot
<1>3. ASSUME Bootstrap!Leave PROVE BootInv'
  BY <1>3, LeaveBoot DEF Bootstrap!Leave
<1>4. ASSUME UNCHANGED Bootstrap!vars PROVE BootInv'
  <2>1. /\ Bootstrap!Idle' = Bootstrap!Idle /\ Bootstrap!Who' = Bootstrap!Who /\ \A p : Bootstrap!Named(p)' = Bootstrap!Named(p)
        /\ \A a : Bootstrap!IsOpen(a)' = Bootstrap!IsOpen(a) /\ \A p : RightAccount(p)' = RightAccount(p)
        /\ \A place : Bootstrap!At(place)' = Bootstrap!At(place)
    BY <1>4
       DEF Bootstrap!vars, Bootstrap!Idle, Bootstrap!Who, Bootstrap!Named, Bootstrap!IsOpen,
           Bootstrap!Account, RightAccount, Bootstrap!Configured, Bootstrap!At
  <2> QED
    BY <1>4, <2>1
       DEF Bootstrap!vars, BootInv, BootTypes, BindingsExist, RequestsExist, CommandKnows,
           NothingLate,
           Bootstrap!ProfilesStayApart, Bootstrap!AliasIsNotASecondAccount, Bootstrap!Account,
           Bootstrap!Configured
<1> QED
  BY <1>1, <1>2, <1>3, <1>4, StartBoot, EnsureBoot, OpenedBoot, DistinctBoot, BindBoot,
     BindAliasBoot, FundBoot, PaidBoot
     DEF Bootstrap!Next

(* The invariant is stronger than the property.                            *)
LEMMA BootIsSafeByIt == BootInv => Bootstrap!BootstrapIsSafe
<1> SUFFICES ASSUME BootInv PROVE Bootstrap!BootstrapIsSafe
  OBVIOUS
<1> USE DEF BootInv
<1>1. Bootstrap!TypeOK
  <2>1. process.at \in {"bind", "alias", "fund", "paying"} => Bootstrap!Found \in Bootstrap!Account
    BY BootRows
       DEF CommandKnows, RightAccount, Bootstrap!IsOpen, Bootstrap!Found, Bootstrap!Idle,
           Bootstrap!Who
  <2> QED
    BY <2>1, BootRows
       DEF Bootstrap!TypeOK, BindingsExist, BootProcess, BootPlaces, Bootstrap!Profiles,
           Bootstrap!Who
<1>2. Bootstrap!RerunRepeatsNothing
  <2>1. ASSUME ~late, NEW p \in Bootstrap!Profiles PROVE Bootstrap!AtMostOne(Bootstrap!Named(p))
    BY <2>1 DEF Bootstrap!AtMostOne, Bootstrap!Named, NothingLate
  <2> QED
    BY <2>1 DEF Bootstrap!RerunRepeatsNothing, NothingLate
<1> QED
  BY <1>1, <1>2 DEF Bootstrap!BootstrapIsSafe

------------------------------------------------------------------------------
(* Incidents that are announced.                                           *)

(* The table lags behind the snapshots: while one is worked on, or waits   *)
(* for its run, nothing in the table is as new as it is.                   *)
TableIsOlder ==
  /\ runs \subseteq 1..snapshot.at
  /\ \A c \in Checks : incidents[c].sent =< snapshot.at
  /\ snapshot.at > 0 /\ snapshot.at \notin runs =>
       \A c \in Checks : incidents[c].sent < snapshot.at
  /\ process.running => snapshot.at > 0 /\ snapshot.at \notin runs

(* What a run knows of a check it has come to, and of one it has not.      *)
Tells(c) == Incidents!MustTell(incidents[c], snapshot.says[c], snapshot.at)

RunKnows ==
  /\ ~process.running => process = Incidents!Idle
  /\ process.running =>
       \A c \in Checks :
         /\ c \in process.left => snapshot.says[c] # "absent" /\ c \notin process.told
         /\ process.rows[c] =
              IF c \in process.left \/ snapshot.says[c] = "absent" THEN incidents[c]
              ELSE Incidents!After(incidents[c], snapshot.says[c], Tells(c), snapshot.at)
         /\ c \in process.told =>
              /\ snapshot.says[c] # "absent" /\ Tells(c)
              /\ Incidents!ToldDown(c) = Incidents!Failed(snapshot.says[c])
         /\ c \notin process.left /\ c \notin cut /\ snapshot.says[c] # "absent" /\ Tells(c) =>
              c \in process.told

(* Every message was keyed by a transition the table has, or had; the key  *)
(* of one that is newer than the table is the table's.  An incident that   *)
(* was announced and has not ended is in the table, or under its key.      *)
MessagesAreKeyed ==
  \A i \in DOMAIN outbox :
    LET m == outbox[i]
        row == incidents[m.check]
    IN
    /\ m.sent =< row.sent /\ m.at =< snapshot.at /\ m.incident =< ended[m.check]
    /\ m.at =< row.sent \/ m.sent = row.sent
    /\ m.word = "down" /\ m.incident = ended[m.check] => m.sent = row.sent \/ row.alerted

(* Where no run died after a message, the key of the table's row is free,  *)
(* and the last word is the table's.                                       *)
UncutIsKnown ==
  \A c \in Checks \ (cut \cup process.told) :
    /\ \A i \in DOMAIN outbox : outbox[i].check = c => outbox[i].sent < incidents[c].sent
    /\ Incidents!ToldDown(c) = incidents[c].alerted

(* A key without a row is that of a check of which nothing was stored.     *)
FirstKeys ==
  /\ \A c \in Checks : ~incidents[c].stored => incidents[c].sent = 0
  /\ \A i \in DOMAIN outbox : IF outbox[i].stored THEN incidents[outbox[i].check].stored
                             ELSE outbox[i].sent = 0

IncidentsInv ==
  /\ Incidents!TypeOK /\ TableIsOlder /\ RunKnows /\ MessagesAreKeyed /\ UncutIsKnown
  /\ FirstKeys /\ Incidents!RepeatedOverItsFirstRow

------------------------------------------------------------------------------
(* A check that was read leaves a row of the table.                        *)
LEMMA AfterIsARow ==
  ASSUME Incidents!BoundsAssumption, NEW row \in Incidents!Row, NEW value \in Incidents!Values \ {"absent"},
         NEW told \in BOOLEAN, NEW at \in Nat
  PROVE  Incidents!After(row, value, told, at) \in Incidents!Row
<1>1. Incidents!Failures(row, value) \in Nat
  BY DEF Incidents!BoundsAssumption, Incidents!Failures, Incidents!Values, Incidents!Row
<1>2. Incidents!Failed(value) \in BOOLEAN
  BY DEF Incidents!Failed
<1>3. row.alerted \in BOOLEAN /\ row.sent \in Nat
  BY DEF Incidents!Row
<1> QED
  BY <1>1, <1>2, <1>3 DEF Incidents!After, Incidents!Row

(* Appending leaves the messages that are there where they are.            *)
LEMMA AppendedTo ==
  ASSUME outbox \in Seq(Incidents!Message), NEW m \in Incidents!Message, outbox' = Append(outbox, m)
  PROVE  /\ DOMAIN outbox' = 1..(Len(outbox) + 1)
         /\ \A i \in DOMAIN outbox : outbox'[i] = outbox[i]
         /\ outbox'[Len(outbox) + 1] = m
OBVIOUS

(* A new message is the last word about its check, and about no other.     *)
LEMMA NewWord ==
  ASSUME outbox \in Seq(Incidents!Message), NEW m \in Incidents!Message, outbox' = Append(outbox, m),
         NEW c \in Checks
  PROVE  /\ c = m.check => (Incidents!ToldDown(c)' = (m.word = "down"))
         /\ c # m.check => (Incidents!ToldDown(c)' = Incidents!ToldDown(c))
<1>1. /\ Len(outbox) \in Nat /\ Len(outbox') = Len(outbox) + 1
      /\ DOMAIN outbox = 1..Len(outbox) /\ DOMAIN outbox' = 1..Len(outbox')
      /\ \A i \in DOMAIN outbox : outbox'[i] = outbox[i]
      /\ outbox'[Len(outbox')] = m
  OBVIOUS
<1>2. CASE c = m.check
  <2>1. ASSUME Incidents!ToldDown(c)' PROVE m.word = "down"
    <3>1. PICK i \in DOMAIN outbox' :
            /\ outbox'[i].check = c /\ outbox'[i].word = "down"
            /\ \A j \in DOMAIN outbox' : j > i => outbox'[j].check # c
      BY <2>1 DEF Incidents!ToldDown
    <3>2. i = Len(outbox')
      BY <1>1, <1>2, <3>1
    <3> QED
      BY <1>1, <3>1, <3>2
  <2>2. ASSUME m.word = "down" PROVE Incidents!ToldDown(c)'
    <3>1. Len(outbox') \in DOMAIN outbox' /\ \A j \in DOMAIN outbox' : ~ j > Len(outbox')
      BY <1>1
    <3> QED
      BY <1>1, <1>2, <2>2, <3>1 DEF Incidents!ToldDown
  <2>3. Incidents!ToldDown(c)' \in BOOLEAN
    BY DEF Incidents!ToldDown
  <2> QED
    BY <1>2, <2>1, <2>2, <2>3
<1>3. CASE c # m.check
  <2>1. ASSUME Incidents!ToldDown(c)' PROVE Incidents!ToldDown(c)
    <3>1. PICK i \in DOMAIN outbox' :
            /\ outbox'[i].check = c /\ outbox'[i].word = "down"
            /\ \A j \in DOMAIN outbox' : j > i => outbox'[j].check # c
      BY <2>1 DEF Incidents!ToldDown
    <3>2. i \in DOMAIN outbox /\ \A j \in DOMAIN outbox : j \in DOMAIN outbox'
      BY <1>1, <1>3, <3>1
    <3> QED
      BY <1>1, <3>1, <3>2 DEF Incidents!ToldDown
  <2>2. ASSUME Incidents!ToldDown(c) PROVE Incidents!ToldDown(c)'
    <3>1. PICK i \in DOMAIN outbox :
            /\ outbox[i].check = c /\ outbox[i].word = "down"
            /\ \A j \in DOMAIN outbox : j > i => outbox[j].check # c
      BY <2>2 DEF Incidents!ToldDown
    <3>2. \A j \in DOMAIN outbox' : j \in DOMAIN outbox \/ j = Len(outbox')
      BY <1>1
    <3>3. i \in DOMAIN outbox' /\ \A j \in DOMAIN outbox' : j > i => outbox'[j].check # c
      BY <1>1, <1>3, <3>1, <3>2
    <3> QED
      BY <1>1, <3>1, <3>3 DEF Incidents!ToldDown
  <2>3. Incidents!ToldDown(c)' \in BOOLEAN /\ Incidents!ToldDown(c) \in BOOLEAN
    BY DEF Incidents!ToldDown
  <2> QED
    BY <1>3, <2>1, <2>2, <2>3
<1> QED
  BY <1>2, <1>3

(* The last words stand while no message is queued.                        *)
LEMMA SameWords ==
  ASSUME outbox' = outbox, NEW c
  PROVE  Incidents!ToldDown(c)' = Incidents!ToldDown(c)
BY DEF Incidents!ToldDown

(* No incident is open, nothing is queued and no run is under way.         *)
LEMMA Initially == Incidents!BoundsAssumption /\ Incidents!Init => IncidentsInv
<1> SUFFICES ASSUME Incidents!BoundsAssumption, Incidents!Init PROVE IncidentsInv
  OBVIOUS
<1> USE DEF Incidents!Init, Incidents!Idle
<1>0. outbox = <<>> /\ DOMAIN outbox = {}
  OBVIOUS
<1>1. Incidents!TypeOK
  <2>1. Incidents!NoRows \in [Checks -> Incidents!Row]
    BY DEF Incidents!NoRows, Incidents!Row
  <2>2. snapshot \in [at : 0..MaxTime, says : [Checks -> Incidents!Values]]
    BY DEF Incidents!BoundsAssumption, Incidents!Values
  <2>3. process \in [running : BOOLEAN, left : SUBSET Checks, rows : [Checks -> Incidents!Row],
                     told : SUBSET Checks]
    BY <2>1
  <2> QED
    BY <2>1, <2>2, <2>3 DEF Incidents!TypeOK, Incidents!BoundsAssumption
<1>2. TableIsOlder
  BY DEF TableIsOlder, Incidents!NoRows
<1>3. RunKnows
  BY DEF RunKnows
<1>4. MessagesAreKeyed
  BY <1>0 DEF MessagesAreKeyed
<1>5. UncutIsKnown
  BY <1>0 DEF UncutIsKnown, Incidents!ToldDown, Incidents!NoRows
<1>6. FirstKeys /\ Incidents!RepeatedOverItsFirstRow
  BY <1>0 DEF FirstKeys, Incidents!NoRows, Incidents!RepeatedOverItsFirstRow
<1> QED
  BY <1>1, <1>2, <1>3, <1>4, <1>5, <1>6 DEF IncidentsInv

------------------------------------------------------------------------------
(* One lemma for each step.                                                *)

(* A snapshot is taken while no run works: it is newer than the table.     *)
LEMMA CollectKeeps ==
  ASSUME Incidents!BoundsAssumption, IncidentsInv, NEW says \in [Checks -> Incidents!Values], Incidents!Collect(says)
  PROVE  IncidentsInv'
<1> USE DEF IncidentsInv, Incidents!Collect, Incidents!BoundsAssumption
<1>1. Incidents!TypeOK'
  <2>1. snapshot' \in [at : 0..MaxTime, says : [Checks -> Incidents!Values]]
    BY DEF Incidents!TypeOK
  <2> QED
    BY <2>1 DEF Incidents!TypeOK
<1>0. snapshot.at \in Nat /\ snapshot'.at = snapshot.at + 1
  BY DEF Incidents!TypeOK
<1>2. TableIsOlder'
  <2>1. \A c \in Checks : incidents[c].sent \in Nat
    BY DEF Incidents!TypeOK, Incidents!Row
  <2> QED
    BY <1>0, <2>1 DEF TableIsOlder, Incidents!TypeOK
<1>3. RunKnows'
  BY DEF RunKnows
<1>4. MessagesAreKeyed'
  <2> SUFFICES ASSUME NEW i \in DOMAIN outbox
               PROVE  outbox[i].at =< snapshot.at => outbox[i].at =< snapshot'.at
    BY DEF MessagesAreKeyed
  <2>1. outbox[i].at \in Nat
    <3>1. outbox \in Seq(Incidents!Message)
      BY DEF Incidents!TypeOK
    <3>2. outbox[i] \in Incidents!Message
      BY <3>1
    <3> QED
      BY <3>2 DEF Incidents!Message
  <2> QED
    BY <1>0, <2>1
<1>5. UncutIsKnown'
  BY SameWords DEF UncutIsKnown
<1>6. FirstKeys' /\ Incidents!RepeatedOverItsFirstRow'
  BY DEF FirstKeys, Incidents!RepeatedOverItsFirstRow, Incidents!Repeated
<1> QED
  BY <1>1, <1>2, <1>3, <1>4, <1>5, <1>6

(* A run starts from the table, before it has told of anything.            *)
LEMMA BeginKeeps ==
  ASSUME Incidents!BoundsAssumption, IncidentsInv, Incidents!Begin
  PROVE  IncidentsInv'
<1> USE DEF IncidentsInv, Incidents!Begin, Incidents!BoundsAssumption
<1>0. /\ process'.running /\ process'.rows = incidents /\ process'.told = {}
      /\ process'.left = {c \in Checks : snapshot.says[c] # "absent"}
      /\ process.told = {}
  BY DEF RunKnows, Incidents!Idle
<1>1. Incidents!TypeOK'
  <2>1. process' \in [running : BOOLEAN, left : SUBSET Checks, rows : [Checks -> Incidents!Row],
                      told : SUBSET Checks]
    BY DEF Incidents!TypeOK
  <2> QED
    BY <2>1 DEF Incidents!TypeOK
<1>2. TableIsOlder'
  BY DEF TableIsOlder
<1>3. RunKnows'
  BY <1>0, SameWords DEF RunKnows, Tells
<1>4. MessagesAreKeyed'
  BY DEF MessagesAreKeyed
<1>5. UncutIsKnown'
  BY <1>0, SameWords DEF UncutIsKnown
<1>6. FirstKeys' /\ Incidents!RepeatedOverItsFirstRow'
  BY DEF FirstKeys, Incidents!RepeatedOverItsFirstRow, Incidents!Repeated
<1> QED
  BY <1>1, <1>2, <1>3, <1>4, <1>5, <1>6

(* A check is looked at: its message is under the key of its row, unless   *)
(* a run that died has queued it already.                                  *)
LEMMA ExamineKeeps ==
  ASSUME Incidents!BoundsAssumption, IncidentsInv, NEW c \in Checks, Incidents!Examine(c)
  PROVE  IncidentsInv'
<1> USE DEF IncidentsInv, Incidents!BoundsAssumption
<1> DEFINE row   == incidents[c]
           value == snapshot.says[c]
           new   == Tells(c) /\ ~Incidents!Known(c, Incidents!Word(value), row)
           m     == [check |-> c, word |-> Incidents!Word(value), stored |-> row.stored,
                     sent |-> row.sent, at |-> snapshot.at, incident |-> ended[c]]
<1>1. /\ process.running /\ c \in process.left
      /\ value # "absent" /\ c \notin process.told /\ process.rows[c] = row
  BY DEF Incidents!Examine, RunKnows, Incidents!Idle
<1>2. /\ outbox' = IF new THEN Append(outbox, m) ELSE outbox
      /\ process' = [process EXCEPT !.left = @ \ {c},
                                    !.rows[c] = Incidents!After(row, value, Tells(c), snapshot.at),
                                    !.told = IF new THEN @ \cup {c} ELSE @]
      /\ UNCHANGED <<snapshot, incidents, runs, ended, cut, mishaps>>
  BY <1>1 DEF Incidents!Examine, Tells
<1>3. /\ row \in Incidents!Row /\ value \in Incidents!Values \ {"absent"} /\ ended[c] \in Nat
      /\ snapshot.at \in 0..MaxTime /\ outbox \in Seq(Incidents!Message)
      /\ row.sent \in Nat /\ row.alerted \in BOOLEAN /\ row.stored \in BOOLEAN
  BY <1>1 DEF Incidents!TypeOK, Incidents!Row
<1>4. m \in Incidents!Message
  <2>1. Incidents!Word(value) \in {"down", "up"}
    BY DEF Incidents!Word
  <2> QED
    BY <1>3, <2>1 DEF Incidents!Message
<1>5. /\ process'.running
      /\ process'.left = process.left \ {c}
      /\ process'.told = IF new THEN process.told \cup {c} ELSE process.told
      /\ process'.rows = [process.rows EXCEPT ![c] = Incidents!After(row, value, Tells(c), snapshot.at)]
      /\ process.rows \in [Checks -> Incidents!Row]
  BY <1>1, <1>2 DEF Incidents!TypeOK
<1>6. /\ DOMAIN outbox = 1..Len(outbox) /\ Len(outbox) \in Nat
      /\ \A i \in DOMAIN outbox : i \in DOMAIN outbox' /\ outbox'[i] = outbox[i]
      /\ \A i \in DOMAIN outbox' :
           i \in DOMAIN outbox \/ (new /\ i = Len(outbox) + 1 /\ outbox'[i] = m)
  <2>1. DOMAIN outbox = 1..Len(outbox) /\ Len(outbox) \in Nat
    BY <1>3
  <2>2. CASE new
    <3>1. outbox' = Append(outbox, m)
      BY <1>2, <2>2
    <3>2. /\ DOMAIN outbox' = 1..(Len(outbox) + 1)
          /\ \A i \in DOMAIN outbox : outbox'[i] = outbox[i]
          /\ outbox'[Len(outbox) + 1] = m
      BY <1>3, <1>4, <3>1, AppendedTo
    <3> HIDE DEF m, new
    <3> QED
      BY <2>1, <2>2, <3>2
  <2>3. CASE ~new
    <3>1. outbox' = outbox
      BY <1>2, <2>3
    <3> QED
      BY <2>1, <3>1
  <2> QED
    BY <2>2, <2>3
<1>7. \A d \in Checks : d # c => Incidents!ToldDown(d)' = Incidents!ToldDown(d)
  BY <1>2, <1>3, <1>4, NewWord, SameWords
<1>8. new => Incidents!ToldDown(c)' = Incidents!Failed(value)
  <2>1. new => Incidents!ToldDown(c)' = (Incidents!Word(value) = "down")
    BY <1>2, <1>3, <1>4, NewWord
  <2> QED
    BY <2>1 DEF Incidents!Word, Incidents!Failed
<1>9. ~new => Incidents!ToldDown(c)' = Incidents!ToldDown(c)
  BY <1>2, SameWords
<1>10. Incidents!TypeOK'
  <2>1. Tells(c) \in BOOLEAN
    BY DEF Tells, Incidents!MustTell
  <2>2. Incidents!After(row, value, Tells(c), snapshot.at) \in Incidents!Row
    BY <1>3, <2>1, AfterIsARow
  <2>3. process' \in [running : BOOLEAN, left : SUBSET Checks, rows : [Checks -> Incidents!Row],
                      told : SUBSET Checks]
    BY <1>2, <2>2 DEF Incidents!TypeOK
  <2>4. outbox' \in Seq(Incidents!Message)
    BY <1>2, <1>3, <1>4
  <2> QED
    BY <1>2, <2>3, <2>4 DEF Incidents!TypeOK
<1>11. TableIsOlder'
  BY <1>1, <1>2, <1>5 DEF TableIsOlder
<1>12. UncutIsKnown /\ c \notin cut /\ Tells(c) => new
  <2> SUFFICES ASSUME c \notin cut, Incidents!Known(c, Incidents!Word(value), row) PROVE FALSE
    OBVIOUS
  <2>1. PICK i \in DOMAIN outbox : outbox[i].check = c /\ outbox[i].sent = row.sent
    BY DEF Incidents!Known
  <2>2. outbox[i].sent < row.sent
    BY <1>1, <2>1 DEF UncutIsKnown
  <2> QED
    BY <1>3, <2>1, <2>2
<1>13. RunKnows'
  <2>1. \A d \in Checks : Tells(d)' = Tells(d)
    BY <1>2 DEF Tells
  <2> SUFFICES ASSUME NEW d \in Checks
               PROVE
         /\ d \in process'.left => snapshot.says[d] # "absent" /\ d \notin process'.told
         /\ process'.rows[d] =
              IF d \in process'.left \/ snapshot.says[d] = "absent" THEN incidents[d]
              ELSE Incidents!After(incidents[d], snapshot.says[d], Tells(d), snapshot.at)
         /\ d \in process'.told =>
              /\ snapshot.says[d] # "absent" /\ Tells(d)
              /\ Incidents!ToldDown(d)' = Incidents!Failed(snapshot.says[d])
         /\ d \notin process'.left /\ d \notin cut /\ snapshot.says[d] # "absent" /\ Tells(d) =>
              d \in process'.told
    BY <1>2, <1>5, <2>1 DEF RunKnows
  <2>2. CASE d = c
    <3>1. c \in process'.told => new
      BY <1>1, <1>5
    <3>2. process'.rows[c] = Incidents!After(row, value, Tells(c), snapshot.at) /\ c \notin process'.left
      BY <1>5
    <3> QED
      BY <1>1, <1>5, <1>8, <1>12, <2>2, <3>1, <3>2
  <2>3. CASE d # c
    <3>1. /\ process'.rows[d] = process.rows[d]
          /\ d \in process'.told <=> d \in process.told
          /\ d \in process'.left <=> d \in process.left
      BY <1>5, <2>3
    <3> QED
      BY <1>1, <1>7, <2>3, <3>1 DEF RunKnows
  <2> QED
    BY <2>2, <2>3
<1>14. MessagesAreKeyed'
  <2> SUFFICES ASSUME NEW i \in DOMAIN outbox'
               PROVE
         LET n == outbox'[i]
             r == incidents[n.check]
         IN
         /\ n.sent =< r.sent /\ n.at =< snapshot.at /\ n.incident =< ended[n.check]
         /\ n.at =< r.sent \/ n.sent = r.sent
         /\ n.word = "down" /\ n.incident = ended[n.check] => n.sent = r.sent \/ r.alerted
    BY <1>2 DEF MessagesAreKeyed
  <2>1. CASE i \in DOMAIN outbox
    BY <1>6, <2>1 DEF MessagesAreKeyed
  <2>2. CASE outbox'[i] = m
    BY <1>3, <2>2
  <2> QED
    BY <1>6, <2>1, <2>2
<1>15. UncutIsKnown'
  <2> SUFFICES ASSUME NEW d \in Checks, d \notin cut, d \notin process'.told
               PROVE  /\ \A i \in DOMAIN outbox' :
                           outbox'[i].check = d => outbox'[i].sent < incidents[d].sent
                      /\ Incidents!ToldDown(d)' = incidents[d].alerted
    BY <1>2 DEF UncutIsKnown
  <2>1. d \notin process.told
    BY <1>5
  <2>2. d = c => ~new
    BY <1>5
  <2>3. Incidents!ToldDown(d)' = Incidents!ToldDown(d)
    BY <1>7, <1>9, <2>2
  <2>4. \A i \in DOMAIN outbox' : outbox'[i].check = d => i \in DOMAIN outbox
    BY <1>6, <2>2
  <2> QED
    BY <1>6, <2>1, <2>3, <2>4 DEF UncutIsKnown
<1>16. FirstKeys'
  <2> SUFFICES ASSUME NEW i \in DOMAIN outbox'
               PROVE  IF outbox'[i].stored THEN incidents[outbox'[i].check].stored
                      ELSE outbox'[i].sent = 0
    BY <1>2 DEF FirstKeys
  <2>1. CASE i \in DOMAIN outbox
    BY <1>6, <2>1 DEF FirstKeys
  <2>2. CASE outbox'[i] = m
    BY <1>3, <2>2 DEF FirstKeys
  <2> QED
    BY <1>6, <2>1, <2>2
<1>17. Incidents!RepeatedOverItsFirstRow'
  <2> SUFFICES ASSUME NEW i \in DOMAIN outbox', NEW j \in DOMAIN outbox', i < j,
                      outbox'[i].check = outbox'[j].check,
                      outbox'[i].incident = outbox'[j].incident,
                      outbox'[i].word = "down", outbox'[j].word = "down",
                      outbox'[j].at - outbox'[i].at < Repeat
               PROVE  ~outbox'[i].stored /\ outbox'[j].stored /\ outbox'[j].sent = 0
    BY DEF Incidents!RepeatedOverItsFirstRow, Incidents!Repeated
  <2>1. CASE j \in DOMAIN outbox
    <3>1. i \in DOMAIN outbox
      BY <1>6, <2>1
    <3> QED
      BY <1>6, <2>1, <3>1 DEF Incidents!RepeatedOverItsFirstRow, Incidents!Repeated
  <2>2. CASE new /\ j = Len(outbox) + 1 /\ outbox'[j] = m
    <3>1. i \in DOMAIN outbox /\ outbox'[i] = outbox[i]
      BY <1>6, <2>2
    <3>2. /\ outbox[i].check = c /\ outbox[i].word = "down" /\ outbox[i].incident = ended[c]
          /\ Incidents!Word(value) = "down" /\ snapshot.at - outbox[i].at < Repeat
      BY <2>2, <3>1
    <3>3. outbox[i].sent # row.sent \/ outbox[i].stored # row.stored
      BY <2>2, <3>1, <3>2 DEF Incidents!Known
    <3>4. /\ outbox[i].at \in Nat /\ outbox[i].stored \in BOOLEAN /\ Repeat \in Nat
          /\ snapshot.at \in Nat
      <4>1. outbox[i] \in Incidents!Message
        <5>1. outbox \in Seq(Incidents!Message)
          BY <1>3, SMTT(30)
        <5> HIDE DEF new, m, row, value
        <5> QED
          BY <3>1, <5>1
      <4>2. Repeat \in Nat /\ snapshot.at \in Nat
        BY <1>3, SMTT(30)
      <4> QED
        BY <4>1, <4>2 DEF Incidents!Message
    <3>5. outbox[i].sent = row.sent
      <4> SUFFICES ASSUME outbox[i].sent # row.sent PROVE FALSE
        OBVIOUS
      <4>1. row.alerted /\ outbox[i].at =< row.sent
        BY <3>1, <3>2 DEF MessagesAreKeyed
      <4>2. snapshot.at - row.sent >= Repeat
        BY <2>2, <3>2, <4>1 DEF Tells, Incidents!MustTell, Incidents!Word
      <4> HIDE DEF row
      <4> QED
        BY <1>3, <3>2, <3>4, <4>1, <4>2
    <3>6. ~outbox[i].stored /\ row.stored
      BY <1>3, <3>1, <3>2, <3>3, <3>4, <3>5 DEF FirstKeys
    <3>7. outbox[i].sent = 0
      BY <3>1, <3>6 DEF FirstKeys
    <3> QED
      BY <2>2, <3>1, <3>5, <3>6, <3>7
  <2> QED
    BY <1>6, <2>1, <2>2
<1> QED
  BY <1>10, <1>11, <1>13, <1>14, <1>15, <1>16, <1>17

(* The run is over: the rows replace the table's, and whoever was told of  *)
(* has the word of the newest message.                                     *)
LEMMA CommitKeeps ==
  ASSUME Incidents!BoundsAssumption, IncidentsInv, Incidents!Commit
  PROVE  IncidentsInv'
<1> USE DEF IncidentsInv, Incidents!BoundsAssumption
<1> DEFINE says == snapshot.says
<1>1. /\ process.running /\ process.left = {} /\ process' = Incidents!Idle
      /\ incidents' = process.rows /\ runs' = runs \cup {snapshot.at}
      /\ ended' = [c \in Checks |-> IF says[c] = "OK" THEN ended[c] + 1 ELSE ended[c]]
      /\ cut' = cut \ process.told
      /\ UNCHANGED <<snapshot, outbox, mishaps>>
  BY DEF Incidents!Commit
<1>2. /\ snapshot.at \in 1..MaxTime /\ says \in [Checks -> Incidents!Values]
      /\ outbox \in Seq(Incidents!Message) /\ ended \in [Checks -> Nat]
      /\ incidents \in [Checks -> Incidents!Row]
  BY <1>1 DEF Incidents!TypeOK, TableIsOlder
<1>3. ASSUME NEW c \in Checks
      PROVE  incidents'[c] = IF says[c] = "absent" THEN incidents[c]
                             ELSE Incidents!After(incidents[c], says[c], Tells(c), snapshot.at)
  BY <1>1, <1>3 DEF RunKnows
<1>4. ASSUME NEW c \in Checks
      PROVE  incidents[c].sent \in Nat /\ incidents[c].alerted \in BOOLEAN
             /\ incidents[c].sent < snapshot.at
  BY <1>1, <1>2, <1>4 DEF TableIsOlder, Incidents!Row
<1>5. ASSUME NEW c \in Checks
      PROVE  \/ /\ incidents'[c].sent = incidents[c].sent
                /\ incidents'[c].alerted = incidents[c].alerted
                /\ says[c] = "absent" \/ ~Tells(c)
             \/ /\ incidents'[c].sent = snapshot.at
                /\ incidents'[c].alerted = Incidents!Failed(says[c])
                /\ says[c] # "absent" /\ Tells(c)
  <2>1. Tells(c) \in BOOLEAN
    BY DEF Tells, Incidents!MustTell
  <2>2. CASE says[c] = "absent"
    BY <1>3, <1>5, <2>2
  <2>3. CASE says[c] # "absent" /\ Tells(c)
    <3>1. incidents'[c] = Incidents!After(incidents[c], says[c], TRUE, snapshot.at)
      BY <1>3, <1>5, <2>3, Zenon
    <3> QED
      BY <2>3, <3>1 DEF Incidents!After
  <2>4. CASE says[c] # "absent" /\ ~Tells(c)
    <3>1. incidents'[c] = Incidents!After(incidents[c], says[c], FALSE, snapshot.at)
      BY <1>3, <1>5, <2>1, <2>4
    <3> QED
      BY <2>4, <3>1 DEF Incidents!After
  <2> QED
    BY <2>2, <2>3, <2>4
<1>6. ASSUME NEW i \in DOMAIN outbox
      PROVE  /\ outbox[i].check \in Checks
             /\ outbox[i].sent \in Nat /\ outbox[i].at \in Nat /\ outbox[i].incident \in Nat
  <2>1. outbox[i] \in Incidents!Message
    BY <1>2, <1>6
  <2> QED
    BY <2>1 DEF Incidents!Message
<1>7. Incidents!TypeOK'
  <2>1. Incidents!NoRows \in [Checks -> Incidents!Row]
    BY DEF Incidents!NoRows, Incidents!Row
  <2>2. process' \in [running : BOOLEAN, left : SUBSET Checks, rows : [Checks -> Incidents!Row],
                      told : SUBSET Checks]
    BY <1>1, <2>1 DEF Incidents!Idle
  <2>3. process.rows \in [Checks -> Incidents!Row] /\ cut' \subseteq Checks
    BY <1>1 DEF Incidents!TypeOK
  <2>4. runs' \subseteq 1..MaxTime
    BY <1>1, <1>2 DEF Incidents!TypeOK
  <2>5. ended' \in [Checks -> Nat]
    BY <1>1, <1>2
  <2> QED
    BY <1>1, <2>2, <2>3, <2>4, <2>5 DEF Incidents!TypeOK
<1>8. TableIsOlder'
  <2>1. runs' \subseteq 1..snapshot.at /\ snapshot.at \in runs'
    <3>1. snapshot.at \in 1..snapshot.at /\ runs \subseteq 1..snapshot.at
      BY <1>2 DEF TableIsOlder
    <3> QED
      BY <1>1, <3>1
  <2>2. ASSUME NEW c \in Checks PROVE incidents'[c].sent =< snapshot.at
    <3>1. incidents[c].sent < snapshot.at /\ incidents[c].sent \in Nat /\ snapshot.at \in Nat
      BY <1>2, <1>4
    <3>2. incidents'[c].sent = incidents[c].sent \/ incidents'[c].sent = snapshot.at
      BY <1>5
    <3> QED
      BY <3>1, <3>2
  <2>3. ~process'.running
    BY <1>1 DEF Incidents!Idle
  <2> QED
    BY <1>1, <2>1, <2>2, <2>3 DEF TableIsOlder
<1>9. RunKnows'
  BY <1>1 DEF RunKnows, Incidents!Idle
<1>10. MessagesAreKeyed'
  <2> SUFFICES ASSUME NEW i \in DOMAIN outbox
               PROVE
         LET n == outbox[i]
             r == incidents'[n.check]
         IN
         /\ n.sent =< r.sent /\ n.at =< snapshot.at /\ n.incident =< ended'[n.check]
         /\ n.at =< r.sent \/ n.sent = r.sent
         /\ n.word = "down" /\ n.incident = ended'[n.check] => n.sent = r.sent \/ r.alerted
    BY <1>1 DEF MessagesAreKeyed
  <2> DEFINE n == outbox[i]
             c == n.check
  <2>1. /\ n.sent =< incidents[c].sent /\ n.at =< snapshot.at /\ n.incident =< ended[c]
        /\ n.at =< incidents[c].sent \/ n.sent = incidents[c].sent
        /\ n.word = "down" /\ n.incident = ended[c] =>
             n.sent = incidents[c].sent \/ incidents[c].alerted
    BY DEF MessagesAreKeyed
  <2>2. c \in Checks /\ n.sent \in Nat /\ n.at \in Nat /\ n.incident \in Nat
    BY <1>6
  <2>3. ended[c] \in Nat /\ ended'[c] = IF says[c] = "OK" THEN ended[c] + 1 ELSE ended[c]
    BY <1>1, <1>2, <2>2
  <2>4. /\ incidents[c].sent \in Nat /\ incidents[c].sent < snapshot.at
        /\ snapshot.at \in Nat
    BY <1>2, <1>4, <2>2
  <2>5. CASE /\ incidents'[c].sent = incidents[c].sent
             /\ incidents'[c].alerted = incidents[c].alerted
    <3> HIDE DEF n, c
    <3> QED
      BY <2>1, <2>2, <2>3, <2>5 DEF n, c
  <2>6. CASE /\ incidents'[c].sent = snapshot.at
             /\ incidents'[c].alerted = Incidents!Failed(says[c])
    <3>1. n.incident = ended'[c] => says[c] # "OK"
      BY <2>1, <2>2, <2>3
    <3>2. n.incident = ended'[c] => incidents'[c].alerted
      BY <2>6, <3>1 DEF Incidents!Failed
    <3>3. n.sent =< snapshot.at /\ n.incident =< ended'[c]
      <4> HIDE DEF n, c
      <4> QED
        BY <2>1, <2>2, <2>3, <2>4
    <3> HIDE DEF n, c
    <3> QED
      BY <2>1, <2>6, <3>2, <3>3 DEF n, c
  <2> QED
    BY <1>5, <2>2, <2>5, <2>6
<1>11. UncutIsKnown'
  <2> SUFFICES ASSUME NEW c \in Checks, c \notin cut \/ c \in process.told
               PROVE  /\ \A i \in DOMAIN outbox :
                           outbox[i].check = c => outbox[i].sent < incidents'[c].sent
                      /\ Incidents!ToldDown(c)' = incidents'[c].alerted
    BY <1>1 DEF UncutIsKnown
  <2>1. Incidents!ToldDown(c)' = Incidents!ToldDown(c)
    BY <1>1, SameWords
  <2>2. CASE c \in process.told
    <3>1. /\ incidents'[c].sent = snapshot.at /\ incidents'[c].alerted = Incidents!Failed(says[c])
          /\ Incidents!ToldDown(c) = Incidents!Failed(says[c])
      BY <1>1, <1>5, <2>2 DEF RunKnows
    <3>2. ASSUME NEW i \in DOMAIN outbox, outbox[i].check = c
          PROVE  outbox[i].sent < snapshot.at
      <4>1. outbox[i].sent =< incidents[c].sent
        BY <3>2 DEF MessagesAreKeyed
      <4> QED
        BY <1>2, <1>4, <1>6, <4>1
    <3> QED
      BY <2>1, <3>1, <3>2
  <2>3. CASE c \notin process.told
    <3>1. /\ incidents'[c].sent = incidents[c].sent
          /\ incidents'[c].alerted = incidents[c].alerted
      BY <1>1, <1>5, <2>3 DEF RunKnows
    <3> QED
      BY <2>1, <2>3, <3>1 DEF UncutIsKnown
  <2> QED
    BY <2>2, <2>3
<1>12. FirstKeys' /\ Incidents!RepeatedOverItsFirstRow'
  <2>1. ASSUME NEW c \in Checks
        PROVE  \/ incidents'[c].stored
               \/ /\ incidents'[c].stored = incidents[c].stored
                  /\ incidents'[c].sent = incidents[c].sent
    <3>1. \A row, value, told, at : Incidents!After(row, value, told, at).stored = TRUE
      BY DEF Incidents!After
    <3> QED
      BY <1>3, <2>1, <3>1
  <2>2. FirstKeys'
    BY <1>1, <1>6, <2>1 DEF FirstKeys
  <2> QED
    BY <1>1, <2>2 DEF Incidents!RepeatedOverItsFirstRow, Incidents!Repeated
<1> QED
  BY <1>7, <1>8, <1>9, <1>10, <1>11, <1>12

(* The run is lost; whom it told of is remembered in `cut`.                *)
LEMMA DieKeeps ==
  ASSUME Incidents!BoundsAssumption, IncidentsInv, Incidents!Die
  PROVE  IncidentsInv'
<1> USE DEF IncidentsInv, Incidents!Die, Incidents!BoundsAssumption
<1>1. Incidents!TypeOK'
  <2>1. Incidents!NoRows \in [Checks -> Incidents!Row]
    BY DEF Incidents!NoRows, Incidents!Row
  <2>2. process' \in [running : BOOLEAN, left : SUBSET Checks, rows : [Checks -> Incidents!Row],
                      told : SUBSET Checks]
    BY <2>1 DEF Incidents!Idle
  <2>3. mishaps' \in 0..MaxMishaps /\ cut' \subseteq Checks
    BY DEF Incidents!TypeOK
  <2> QED
    BY <2>2, <2>3 DEF Incidents!TypeOK
<1>2. TableIsOlder'
  BY DEF TableIsOlder, Incidents!Idle
<1>3. RunKnows'
  BY DEF RunKnows, Incidents!Idle
<1>4. MessagesAreKeyed'
  BY DEF MessagesAreKeyed
<1>5. UncutIsKnown'
  BY SameWords DEF UncutIsKnown, Incidents!Idle
<1>6. FirstKeys' /\ Incidents!RepeatedOverItsFirstRow'
  BY DEF FirstKeys, Incidents!RepeatedOverItsFirstRow, Incidents!Repeated
<1> QED
  BY <1>1, <1>2, <1>3, <1>4, <1>5, <1>6

(* A step of nobody keeps every part.                                      *)
LEMMA StutterKeeps ==
  ASSUME IncidentsInv, UNCHANGED Incidents!vars
  PROVE  IncidentsInv'
<1> USE DEF IncidentsInv, Incidents!vars
<1>1. /\ Incidents!TypeOK' /\ TableIsOlder' /\ MessagesAreKeyed' /\ FirstKeys'
      /\ Incidents!RepeatedOverItsFirstRow'
  BY DEF Incidents!TypeOK, TableIsOlder, MessagesAreKeyed, FirstKeys,
         Incidents!RepeatedOverItsFirstRow, Incidents!Repeated
<1>2. RunKnows' /\ UncutIsKnown'
  BY SameWords DEF RunKnows, UncutIsKnown, Tells
<1> QED
  BY <1>1, <1>2

(* Every step of the incidents keeps the invariant.                        *)
LEMMA IncidentsStep ==
  ASSUME Incidents!BoundsAssumption, IncidentsInv, [Incidents!Next]_Incidents!vars
  PROVE  IncidentsInv'
BY CollectKeeps, BeginKeeps, ExamineKeeps, CommitKeeps, DieKeeps, StutterKeeps DEF Incidents!Next

(* The invariant is stronger than the property.                            *)
LEMMA IncidentsAreToldByIt == IncidentsInv => Incidents!IncidentsAreTold
<1> SUFFICES ASSUME IncidentsInv, ~process.running, NEW c \in Checks \ cut
             PROVE  Incidents!ToldDown(c) = incidents[c].alerted
  BY DEF IncidentsInv, Incidents!IncidentsAreTold, Incidents!ToldAsKnown
<1>1. process.told = {}
  BY DEF IncidentsInv, RunKnows, Incidents!Idle
<1> QED
  BY <1>1 DEF IncidentsInv, UncutIsKnown

------------------------------------------------------------------------------
(* The machines of MCAccounts, each of which moves alone.                  *)

(* The one that moves is never another one.                                *)
LEMMA PartStays == [AccountsNext]_accounts_vars => part' = part
BY DEF AccountsNext, accounts_vars

(* A replacement that is cut off and continued as often as it may be       *)
(* repeats nothing, knows what it did, and leaves the services two         *)
(* accounts (sandbox_lifecycle.py:213-300).                                *)
THEOREM ReplacementStaysSafe == AccountsSpec => []AccountsAreSafe
<1> DEFINE P == part = "replacement"
<1>1. AccountsInit /\ P => ReplacementInv
  BY FilesAssumption, InitReplacement DEF AccountsInit
<1>2. [AccountsNext]_accounts_vars /\ P => [Next]_vars
  BY DEF AccountsNext, accounts_vars, shared_vars, operation_vars, vars, files
<1>3. ReplacementInv /\ [Next]_vars => ReplacementInv'
  BY FilesAssumption, ReplacementStep
<1>4. [AccountsNext]_accounts_vars => (P' <=> P)
  BY PartStays
<1>5. P /\ ReplacementInv => AccountsAreSafe
  BY ReplacementIsSafeByIt DEF AccountsAreSafe
<1>6. ~P => AccountsAreSafe
  BY DEF AccountsAreSafe
<1> HIDE DEF P
<1> QED
  BY <1>1, <1>2, <1>3, <1>4, <1>5, <1>6, PTL DEF AccountsSpec

(* A bootstrap, wherever it ended and however often it is started, gives   *)
(* each strategy one account of its own (cli.py:440-480).                  *)
THEOREM BootstrapStaysSafe == AccountsSpec => []BootstrapIsSafe
<1> DEFINE P == part = "bootstrap"
<1>1. AccountsInit /\ P => BootInv
  BY InitBoot DEF AccountsInit
<1>2. [AccountsNext]_accounts_vars /\ P => [Bootstrap!Next]_Bootstrap!vars
  BY DEF AccountsNext, accounts_vars, shared_vars, Bootstrap!vars
<1>3. BootInv /\ [Bootstrap!Next]_Bootstrap!vars => BootInv'
  BY BootStep
<1>4. [AccountsNext]_accounts_vars => (P' <=> P)
  BY PartStays
<1>5. P /\ BootInv => BootstrapIsSafe
  BY BootIsSafeByIt DEF BootstrapIsSafe
<1>6. ~P => BootstrapIsSafe
  BY DEF BootstrapIsSafe
<1> HIDE DEF P
<1> QED
  BY <1>1, <1>2, <1>3, <1>4, <1>5, <1>6, PTL DEF AccountsSpec

(* No incident is announced twice within a period but over the first row   *)
(* of its check, and between the runs the chat knows what the table knows, *)
(* for the checks no death left unfinished (monitoring_incidents.py:41-49).*)
THEOREM ToldOnceAndAsKnown == AccountsSpec => []IncidentsAreTold
<1> DEFINE P == part = "incidents"
<1>1. AccountsInit /\ P => IncidentsInv
  BY IncidentsAssumption, Initially DEF AccountsInit
<1>2. [AccountsNext]_accounts_vars /\ P => [Incidents!Next]_Incidents!vars
  BY DEF AccountsNext, accounts_vars, incident_vars, Incidents!vars
<1>3. IncidentsInv /\ [Incidents!Next]_Incidents!vars => IncidentsInv'
  BY IncidentsAssumption, IncidentsStep
<1>4. [AccountsNext]_accounts_vars => (P' <=> P)
  BY PartStays
<1>5. P /\ IncidentsInv => IncidentsAreTold
  BY IncidentsAreToldByIt DEF IncidentsAreTold
<1>6. ~P => IncidentsAreTold
  BY DEF IncidentsAreTold
<1> HIDE DEF P
<1> QED
  BY <1>1, <1>2, <1>3, <1>4, <1>5, <1>6, PTL DEF AccountsSpec
==============================================================================
