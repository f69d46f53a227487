--------------------------- MODULE SandboxAccounts ---------------------------
(***************************************************************************)
(* The sandbox accounts of one token and the three bindings in bot.env.    *)
(* A command opens, funds and closes accounts by requests that carry no    *)
(* idempotency key; a request whose sender gave up may still be executed,  *)
(* or stay on its way for ever: it is lost.                                *)
(* The broker is not code of the repository: it is what the service in     *)
(* integrations/tinvest_sandbox.py is written against.                     *)
(***************************************************************************)
EXTENDS Integers, Sequences, FiniteSetsExt

VARIABLES
  account,         \* every account ever opened; its number is its id
  requests,        \* every request sent that changes something
  bindings,        \* bot.env: long, intraday and the legacy alias of long
  process          \* the command that runs, if one does

Account == DOMAIN account
NoAccount == 0
Profiles == 1 .. 2               \* long, intraday: the order of every loop
Target == 1                      \* target_balance_rub, 300 000 RUB, is the unit of cash

NewAccount(name) == [name |-> name, open |-> TRUE, balance |-> 0, paid |-> 0, holding |-> 0]

\* accounts(): the open accounts of that name.
Named(name) == {a \in Account : account[a].name = name /\ account[a].open}

\* Nobody has opened, or asked for, a second one.
AtMostOne(S) == \A x, y \in S : x = y

IsOpen(a) == a \in Account /\ account[a].open

Idle == process.at = "idle"

Request(act, on) == [do |-> act, on |-> on, state |-> "travelling", answer |-> NoAccount]

\* open_account(), pay_in(), close_account(): the request leaves.
Send(act, on) == requests' = Append(requests, Request(act, on))

\* The command has its answer.
Answered == /\ process.request \in DOMAIN requests
            /\ requests[process.request].state = "done"
Answer == requests[process.request].answer

--------------------------------------------------------------------------
(* The broker.                                                             *)

InState(r, state, answer) ==
  requests' = [requests EXCEPT ![r].state = state, ![r].answer = answer]

Open(r) ==
  /\ requests[r].do = "open"
  /\ account' = Append(account, NewAccount(requests[r].on))
  /\ InState(r, "done", Len(account) + 1)

PayIn(r) ==
  LET a == requests[r].on.account
  IN /\ requests[r].do = "pay"
     /\ account' = [account EXCEPT ![a].balance = @ + requests[r].on.amount, ![a].paid = @ + 1]
     /\ InState(r, "done", a)

CloseAccount(r) ==
  LET a == requests[r].on.account
  IN /\ requests[r].do = "close"
     /\ account' = [account EXCEPT ![a].open = FALSE]
     /\ InState(r, "done", a)

Broker ==
  /\ \E r \in DOMAIN requests :
       requests[r].state = "travelling" /\ (Open(r) \/ PayIn(r) \/ CloseAccount(r))
  /\ UNCHANGED <<bindings, process>>

\* Between the commands the services trade on the accounts that are bound
\* (bound of the model: once, which is enough for an account not to be what
\* was confirmed).
Trade ==
  /\ Idle /\ \A a \in Account : account[a].holding = 0
  /\ \E a \in {bindings.long, bindings.intraday} :
       /\ IsOpen(a)
       /\ account' = [account EXCEPT ![a].holding = 1, ![a].balance = 0]
  /\ UNCHANGED <<requests, bindings, process>>

\* The bindings name two accounts that are open and not the same.
TwoOpenAccounts ==
  /\ IsOpen(bindings.long) /\ IsOpen(bindings.intraday)
  /\ bindings.long # bindings.intraday
==============================================================================
