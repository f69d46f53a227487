--------------------------- MODULE SandboxBootstrap ---------------------------
(***************************************************************************)
(* sandbox-bootstrap-profiles: both accounts are found or opened, bound    *)
(* one key at a time, and paid up to their target.  Nothing is announced   *)
(* beforehand; a command started again looks at the broker and at bot.env. *)
(***************************************************************************)
EXTENDS SandboxAccounts

CONSTANTS MaxRuns                \* bound of the model

VARIABLES
  runs,
  late             \* a request was executed after its command had ended

vars == <<account, requests, bindings, process, runs, late>>

AtRest == [at |-> "idle", who |-> 1, request |-> 0, env |-> bindings,
           found |-> [p \in Profiles |-> NoAccount]]

\* An installation is new, has the account of the former single runner, whose
\* name (0 is any other) is whatever the operator chose, or has both bindings already.
Init ==
  /\ \E name \in {0} \cup Profiles, open \in BOOLEAN :
       account = <<[NewAccount(name) EXCEPT !.open = open]>>
  /\ \/ bindings = [long |-> NoAccount, intraday |-> NoAccount, legacy |-> 1]
     \/ bindings = [long |-> 1, intraday |-> NoAccount, legacy |-> 1]
     \/ bindings = [long |-> NoAccount, intraday |-> NoAccount, legacy |-> NoAccount]
  /\ requests = <<>> /\ process = AtRest /\ runs = 0 /\ late = FALSE

Who == process.who
Env == process.env
Found == process.found[Who]
At(place) == process.at = place
Goto(place) == process' = [process EXCEPT !.at = place, !.request = 0]
Do(act, on, place) ==
  /\ Send(act, on)
  /\ process' = [process EXCEPT !.at = place, !.request = Len(requests) + 1]

\* The binding of a profile, with the alias in place of a long one that is not set.
Configured(b) == IF b.long = NoAccount THEN <<b.legacy, b.intraday>> ELSE <<b.long, b.intraday>>

\* sandbox_bindings(bootstrap=True).
ValidBindings(b) ==
  /\ NoAccount \in {b.long, b.legacy} \/ b.long = b.legacy
  /\ Configured(b)[1] = NoAccount \/ Configured(b)[1] # Configured(b)[2]

\* The environment is read once, when the command starts.
Start ==
  /\ Idle /\ runs < MaxRuns /\ ValidBindings(bindings)
  /\ process' = [AtRest EXCEPT !.at = "ensure"]
  /\ runs' = runs + 1
  /\ UNCHANGED <<account, requests, bindings, late>>

Resolved(a) ==
  process' = [process EXCEPT !.found[Who] = a, !.request = 0,
                !.at = IF Who = 1 THEN "ensure" ELSE "distinct", !.who = 3 - Who]

\* ensure_account(): the configured account, or the first open one of the name.
Existing ==
  LET configured == Configured(Env)[Who]
  IN IF IsOpen(configured) THEN {configured}
     ELSE IF Named(Who) # {} THEN {Min(Named(Who))} ELSE {}

Ensure ==
  /\ At("ensure")
  /\ \/ \E a \in Existing : Resolved(a) /\ UNCHANGED requests
     \/ Existing = {} /\ Do("open", Who, "opening")
  /\ UNCHANGED <<account, bindings, runs, late>>

Opened ==
  /\ At("opening") /\ Answered /\ Resolved(Answer)
  /\ UNCHANGED <<account, requests, bindings, runs, late>>

\* mutant: the two accounts may be the same
AnyTwo ==
  /\ At("distinct") /\ Goto("bind")
  /\ UNCHANGED <<account, requests, bindings, runs, late>>

Distinct ==
  /\ At("distinct") /\ process.found[1] # process.found[2]
  /\ Goto("bind")
  /\ UNCHANGED <<account, requests, bindings, runs, late>>

\* Each key is written on its own; the alias follows the long binding.
Bind ==
  /\ At("bind")
  /\ bindings' = IF Who = 1 THEN [bindings EXCEPT !.long = Found]
                 ELSE [bindings EXCEPT !.intraday = Found]
  /\ Goto(IF Who = 1 THEN "alias" ELSE "fund")
  /\ UNCHANGED <<account, requests, runs, late>>

BindAlias ==
  /\ At("alias") /\ bindings' = [bindings EXCEPT !.legacy = Found]
  /\ Goto("fund")
  /\ UNCHANGED <<account, requests, runs, late>>

NextProfile ==
  process' = IF Who = 1 THEN [process EXCEPT !.at = "bind", !.who = 2, !.request = 0]
             ELSE AtRest

\* What is missing to the target.
Deficit == Target - account[Found].balance

\* The deficit is paid when --fund-targets is given.
Fund ==
  /\ At("fund")
  /\ \/ NextProfile /\ UNCHANGED requests
     \/ Deficit > 0 /\ Do("pay", [account |-> Found, amount |-> Deficit], "paying")
  /\ UNCHANGED <<account, bindings, runs, late>>

Paid ==
  /\ At("paying") /\ Answered /\ NextProfile
  /\ UNCHANGED <<account, requests, bindings, runs, late>>

\* An exception, or a kill; nothing is held.
Leave ==
  /\ ~Idle /\ process' = AtRest
  /\ UNCHANGED <<account, requests, bindings, runs, late>>

BrokerStep ==
  /\ Broker /\ UNCHANGED runs
  /\ late' = (late \/ (account' # account
                       /\ \E r \in DOMAIN requests :
                            r # process.request /\ requests'[r].state # requests[r].state))

Next ==
  \/ BrokerStep \/ (Trade /\ UNCHANGED <<runs, late>>)
  \/ Start \/ Ensure \/ Opened \/ Distinct \/ Bind \/ BindAlias \/ Fund \/ Paid \/ Leave

Spec == Init /\ [][Next]_vars

--------------------------------------------------------------------------
(* Properties.                                                             *)

TypeOK ==
  /\ process.at \in {"idle", "ensure", "opening", "distinct", "bind", "alias", "fund", "paying"}
  /\ {bindings.long, bindings.intraday, bindings.legacy} \subseteq Account \cup {NoAccount}
  /\ Who \in Profiles
  /\ process.at \in {"bind", "alias", "fund", "paying"} => Found \in Account

\* The two strategies are never bound to one account, whatever the names of the
\* accounts are and wherever a command ended (cli.py:460-462).
ProfilesStayApart == bindings.long = NoAccount \/ bindings.long # bindings.intraday

\* The runners that still read the alias never trade on an open account that is
\* not the long one, although the two keys are written one after the other (cli.py:471).
AliasIsNotASecondAccount ==
  bindings.long # NoAccount /\ bindings.legacy # bindings.long => ~IsOpen(bindings.legacy)

\* A rerun after an answer that was lost opens no second account and pays
\* nothing above the target, as long as no request is executed after its
\* command has ended (cli.py:457, docs/CONFIG_REFERENCE_RU.md:108).
RerunRepeatsNothing ==
  ~late => /\ \A p \in Profiles : AtMostOne(Named(p))
           /\ \A a \in Account : account[a].balance <= Target

\* A rerun creates no duplicates (docs/UBUNTU_24_SERVER_RU.md:128).
NoDuplicates == \A p \in Profiles : AtMostOne(Named(p))

\* A bootstrap, wherever it ended and however often it is started, gives each
\* strategy one account of its own (cli.py:440-480).
BootstrapIsSafe ==
  TypeOK /\ ProfilesStayApart /\ AliasIsNotASecondAccount /\ RerunRepeatsNothing
==============================================================================
