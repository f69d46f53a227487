-------------------------- MODULE SandboxReplacement --------------------------
(***************************************************************************)
(* sandbox-replace-preview and sandbox-replace: two new accounts are       *)
(* opened and funded, the bindings switched, the two old accounts closed.  *)
(* Every request is announced in a state file before it leaves, so that a  *)
(* command started again knows what may already have happened.             *)
(***************************************************************************)
EXTENDS SandboxAccounts

CONSTANTS
  Files,                              \* state files the operator names
  MaxPreviews, MaxRuns                \* bounds of the model

\* The name of an account has the operation_id of its state file, which the old
\* accounts do not have (sandbox_lifecycle.py:231).
ASSUME FilesAssumption == "none" \notin Files

VARIABLES
  previews,        \* what the operator confirmed, by its hash
  fresh,           \* the previews that are not older than thirty minutes
  saved,           \* the content of each state file
  locks,           \* the lock directories that exist
  runs,
  returned         \* the bindings went back to accounts that were confirmed as
                   \* the old ones of another operation (read by properties only)

files == <<previews, fresh, saved, locks, runs, returned>>
vars == <<account, requests, bindings, process, files>>

NoFile == "none"
NoState == [preview |-> 0]
AtRest == [at |-> "idle", file |-> NoFile, who |-> 1, request |-> 0]

Init ==
  /\ account = [p \in Profiles |-> [NewAccount(<<NoFile, p>>) EXCEPT !.balance = Target]]
  /\ requests = <<>>
  /\ bindings = [long |-> 1, intraday |-> 2, legacy |-> 1]
  /\ process = AtRest
  /\ previews = <<>> /\ fresh = {}
  /\ saved = [f \in Files |-> NoState]
  /\ locks = {} /\ runs = 0 /\ returned = FALSE

Bound == <<bindings.long, bindings.intraday>>
Held(accounts) == [p \in Profiles |-> account[accounts[p]].holding]

\* replacement_preview().
Preview ==
  /\ Idle /\ Len(previews) < MaxPreviews /\ TwoOpenAccounts
  /\ previews' = Append(previews, [old |-> Bound, holding |-> Held(Bound)])
  /\ fresh' = fresh \cup {Len(previews) + 1}
  /\ UNCHANGED <<account, requests, bindings, process, saved, locks, runs, returned>>

Expire ==
  /\ \E k \in fresh : fresh' = fresh \ {k}
  /\ UNCHANGED <<account, requests, bindings, process, previews, saved, locks, runs, returned>>

--------------------------------------------------------------------------
(* sandbox-replace.                                                        *)

File == process.file
Who == process.who
State == saved[File]
Old == previews[State.preview].old[Who]
New == State.id[Who]
Name == <<File, Who>>                 \* the operation_id is unique to the state file

At(place) == process.at = place
Goto(place) == process' = [process EXCEPT !.at = place, !.request = 0]
Status(value) == saved' = [saved EXCEPT ![File].status[Who] = value]
Created(a) == saved' = [saved EXCEPT ![File].status[Who] = "created", ![File].id[Who] = a]
Closed(value) == saved' = [saved EXCEPT ![File].closed[Who] = value]

\* What closes the old account of a profile.  The request carries the account
\* only; which operation sent it is read by properties only.
Closing(f, p) == [account |-> previews[saved[f].preview].old[p], by |-> <<f, p>>]

Do(act, on, place) ==
  /\ Send(act, on)
  /\ process' = [process EXCEPT !.at = place, !.request = Len(requests) + 1]

\* The next profile, or what comes after both.
NextProfile(place, after) ==
  process' = IF Who = 1 THEN [process EXCEPT !.at = place, !.who = 2, !.request = 0]
             ELSE [process EXCEPT !.at = after, !.who = 1, !.request = 0]

Kept == UNCHANGED <<account, previews, fresh, runs>>
Quiet == Kept /\ UNCHANGED returned

Begun(k) ==
  [preview |-> k, bound |-> FALSE, status |-> [p \in Profiles |-> "not_started"],
   id |-> [p \in Profiles |-> NoAccount], closed |-> [p \in Profiles |-> "no"]]

\* What is asked of a preview before it is acted on for the first time.
Confirmed(k) ==
  /\ k \in fresh /\ previews[k].old = Bound /\ TwoOpenAccounts
  /\ previews[k].holding = Held(Bound)

\* A state file of this preview is continued, one of another refused.
Start ==
  /\ Idle /\ runs < MaxRuns
  /\ \E k \in DOMAIN previews, f \in Files \ locks :
       /\ \/ saved[f].preview = k /\ UNCHANGED saved
          \/ saved[f] = NoState /\ Confirmed(k) /\ saved' = [saved EXCEPT ![f] = Begun(k)]
       /\ locks' = locks \cup {f}
       /\ process' = [at |-> "item", file |-> f, who |-> 1, request |-> 0]
  /\ runs' = runs + 1
  /\ UNCHANGED <<account, requests, bindings, previews, fresh, returned>>

\* mutant: an account nobody finds is opened again
AnnounceCreateAgain ==
  /\ At("item") /\ State.status[Who] \in {"not_started", "create_pending"} /\ Named(Name) = {}
  /\ Status("create_pending") /\ Goto("create")
  /\ Quiet /\ UNCHANGED <<requests, bindings, locks>>

AnnounceCreate ==
  /\ At("item") /\ State.status[Who] = "not_started"
  /\ Status("create_pending") /\ Goto("create")
  /\ Quiet /\ UNCHANGED <<requests, bindings, locks>>

Create ==
  /\ At("create") /\ Do("open", Name, "creating")
  /\ Quiet /\ UNCHANGED <<saved, bindings, locks>>

CreateAnswered ==
  /\ At("creating") /\ Answered
  /\ Created(Answer) /\ Goto("fund")
  /\ Quiet /\ UNCHANGED <<requests, bindings, locks>>

\* create_pending: the account is taken when its name is found, and never opened again.
FindCreated ==
  /\ At("item") /\ State.status[Who] = "create_pending"
  /\ \E a \in Account : Named(Name) = {a} /\ Created(a)
  /\ Goto("fund")
  /\ Quiet /\ UNCHANGED <<requests, bindings, locks>>

AlreadyCreated ==
  /\ At("item") /\ State.status[Who] \in {"created", "funding_pending", "funded"}
  /\ Goto("fund")
  /\ Quiet /\ UNCHANGED <<requests, saved, bindings, locks>>

\* A balance of the target is funded, whoever paid.  The broker gives no
\* balance of a closed account.
FoundFunded ==
  /\ At("fund") /\ IsOpen(New) /\ account[New].balance = Target
  /\ Status("funded") /\ NextProfile("item", "bind")
  /\ Quiet /\ UNCHANGED <<requests, bindings, locks>>

AnnounceFunding ==
  /\ At("fund") /\ IsOpen(New) /\ account[New].balance = 0 /\ State.status[Who] = "created"
  /\ Status("funding_pending") /\ Goto("pay")
  /\ Quiet /\ UNCHANGED <<requests, bindings, locks>>

Pay ==
  /\ At("pay") /\ Do("pay", [account |-> New, amount |-> Target], "paying")
  /\ Quiet /\ UNCHANGED <<saved, bindings, locks>>

PayAnswered ==
  /\ At("paying") /\ Answered /\ account[New].balance = Target
  /\ Status("funded") /\ NextProfile("item", "bind")
  /\ Quiet /\ UNCHANGED <<requests, bindings, locks>>

\* The accounts of this operation were confirmed as the old ones of another.
GivenUp(k) == \E p, q \in Profiles : previews[k].old[p] = State.id[q]

\* upsert_env_values(): the three bindings change in one rename.
Bind ==
  /\ At("bind") /\ ~State.bound
  /\ bindings' = [long |-> State.id[1], intraday |-> State.id[2], legacy |-> State.id[1]]
  /\ returned' = (returned \/ (bindings' # bindings /\ \E k \in DOMAIN previews : GivenUp(k)))
  /\ Goto("bound")
  /\ Kept /\ UNCHANGED <<requests, saved, locks>>

SaveBound ==
  /\ At("bound") /\ saved' = [saved EXCEPT ![File].bound = TRUE] /\ Goto("close")
  /\ Quiet /\ UNCHANGED <<requests, bindings, locks>>

AlreadyBound ==
  /\ At("bind") /\ State.bound /\ Goto("close")
  /\ Quiet /\ UNCHANGED <<requests, saved, bindings, locks>>

FoundClosed ==
  /\ At("close")
  /\ \/ State.closed[Who] = "verified" /\ UNCHANGED saved
     \/ State.closed[Who] # "verified" /\ ~IsOpen(Old) /\ Closed("verified")
  /\ NextProfile("close", "end")
  /\ Quiet /\ UNCHANGED <<requests, bindings, locks>>

\* Only an account that is what was confirmed is closed.
AnnounceClose ==
  /\ At("close") /\ State.closed[Who] = "no" /\ IsOpen(Old)
  /\ account[Old].holding = previews[State.preview].holding[Who]
  /\ Closed("close_pending") /\ Goto("shut")
  /\ Quiet /\ UNCHANGED <<requests, bindings, locks>>

Close ==
  /\ At("shut") /\ Do("close", Closing(File, Who), "closing")
  /\ Quiet /\ UNCHANGED <<saved, bindings, locks>>

CloseAnswered ==
  /\ At("closing") /\ Answered /\ ~IsOpen(Old)
  /\ Closed("verified") /\ NextProfile("close", "end")
  /\ Quiet /\ UNCHANGED <<requests, bindings, locks>>

\* The end, or an exception: what is ambiguous, unexpected or unreachable.
Leave ==
  /\ ~Idle /\ process' = AtRest /\ locks' = locks \ {File}
  /\ Quiet /\ UNCHANGED <<requests, saved, bindings>>

\* A kill leaves the lock directory, which the operator removes.
Kill ==
  /\ ~Idle /\ process' = AtRest
  /\ Quiet /\ UNCHANGED <<requests, saved, bindings, locks>>

RecoverLock ==
  /\ Idle /\ \E f \in locks : locks' = locks \ {f}
  /\ Quiet /\ UNCHANGED <<requests, saved, bindings, process>>

Step ==
  \/ AnnounceCreate \/ Create \/ CreateAnswered \/ FindCreated \/ AlreadyCreated
  \/ FoundFunded \/ AnnounceFunding \/ Pay \/ PayAnswered
  \/ Bind \/ SaveBound \/ AlreadyBound
  \/ FoundClosed \/ AnnounceClose \/ Close \/ CloseAnswered
  \/ Leave \/ Kill

Next ==
  \/ (Broker \/ Trade) /\ UNCHANGED files
  \/ Preview \/ Expire \/ Start \/ Step \/ RecoverLock

Spec == Init /\ [][Next]_vars

--------------------------------------------------------------------------
(* Properties.                                                             *)

InUse(f) == saved[f] # NoState
Sent(act, on) == {r \in DOMAIN requests : requests[r].do = act /\ requests[r].on = on}
AskedToClose(a) ==
  {r \in DOMAIN requests : requests[r].do = "close" /\ requests[r].on.account = a}

TypeOK ==
  /\ process.at \in {"idle", "item", "create", "creating", "fund", "pay", "paying", "bind",
                     "bound", "close", "shut", "closing", "end"}
  /\ {bindings.long, bindings.intraday, bindings.legacy} \subseteq Account
  /\ \A f \in Files : InUse(f) =>
       \A p \in Profiles : /\ saved[f].id[p] \in Account \cup {NoAccount}
                           /\ saved[f].status[p] = "not_started" => saved[f].id[p] = NoAccount

\* What is ambiguous is never repeated: whatever answers were lost or late and
\* however often the command was started again, an operation opens one account
\* for each profile, funds it once and asks once to close the old one
\* (tests/test_sandbox_lifecycle.py:124, docs/LIVE_CANARY_RU.md:29).
NothingTwice ==
  \A f \in Files, p \in Profiles : InUse(f) =>
    /\ AtMostOne(Sent("open", <<f, p>>))
    /\ saved[f].id[p] # NoAccount => account[saved[f].id[p]].paid \in 0 .. 1
    /\ AtMostOne(Sent("close", Closing(f, p)))

\* The state file never claims more than is so at the broker, and never less
\* than was sent, whether an account was to be opened, funded or closed
\* (sandbox_lifecycle.py:234-308).
JournalIsTrue ==
  \A f \in Files, p \in Profiles : InUse(f) =>
    LET s == saved[f]  a == s.id[p]
        old == previews[s.preview].old[p]
        asked == Sent("pay", [account |-> a, amount |-> Target])
    IN /\ s.status[p] = "not_started" => Sent("open", <<f, p>>) = {}
       /\ a # NoAccount => account[a].name = <<f, p>>
       /\ asked # {} => s.status[p] \in {"funding_pending", "funded"}
       /\ s.status[p] = "funded" => account[a].paid = 1
       /\ s.bound => \A q \in Profiles : s.status[q] = "funded"
       /\ s.closed[p] = "verified" => ~account[old].open
       /\ s.closed[p] = "no" => Sent("close", Closing(f, p)) = {}

\* The services are never bound to an account that is closed or is being
\* closed (docs/LIVE_CANARY_RU.md:29: first both balances, then the bindings,
\* then the closing).
BoundToOpenAccounts ==
  \A a \in {bindings.long, bindings.intraday} : IsOpen(a) /\ AskedToClose(a) = {}

\* The services are never bound both to the same account, and not to one that
\* is closed or is being closed, but where an operation that was killed between
\* the switch and its note (sandbox_lifecycle.py:269-278) is continued after
\* another has begun to replace its accounts.
NeverWithoutAccounts ==
  /\ bindings.long # bindings.intraday /\ bindings.legacy = bindings.long
  /\ ~returned => BoundToOpenAccounts

\* A step that switches the bindings leaves accounts only as they were confirmed
\* (docs/LIVE_CANARY_RU.md:28).
SwitchedAsConfirmed ==
  bindings' # bindings =>
    /\ previews[State.preview].old = Bound
    /\ previews[State.preview].holding = Held(Bound)

\* A replacement that is cut off and continued as often as it may be repeats
\* nothing, knows what it did, and leaves the services two accounts
\* (sandbox_lifecycle.py:213-300).
ReplacementIsSafe == TypeOK /\ NothingTwice /\ JournalIsTrue /\ NeverWithoutAccounts
==============================================================================
