----------------------------- MODULE Connectors -----------------------------
(***************************************************************************)
(* How the connectors (src/src/services/providers.js, modern-providers.js) *)
(* turn one operation on an account into requests to a panel.  The panels  *)
(* differ in the requests they need: some set what they are given, some    *)
(* take a whole account back, some count days, some limit by scheduled     *)
(* jobs, some create a user before they name it.  Between two requests the *)
(* panel's own administrator and the customer go on; a request may be      *)
(* refused, lost, or be the last before an eviction.  Time is in quarters  *)
(* of a day.                                                               *)
(***************************************************************************)
EXTENDS Integers, Sequences

CONSTANTS
  MaxClock,   \* quarters of a day that pass
  MaxLosses,  \* requests without a good answer
  MaxOps      \* operations on the account

VARIABLES
  dialect,   \* panel.type
  remote,    \* the account at the panel
  users,     \* users ever created at the panel for the one operation
  progress,  \* provider-progress:<operation>
  op,        \* the operation: what is wanted, the requests left, the account as read
  before,    \* history: the account when the operation began, changed by what others did
  clock, losses, ops,
  astray     \* history: users IBSng made without the bot having learnt their identifier

connectorVars == <<dialect, remote, users, progress, op, before, clock, losses, ops, astray>>

Day == 4
None == -1                    \* no limit
NoAccount == [exists |-> FALSE, on |-> FALSE, limit |-> None, ends |-> None, link |-> 0, used |-> 0, options |-> 0]
Idle == [name |-> "none", left |-> <<>>, seen |-> NoAccount, limit |-> None, ends |-> None, days |-> 0, result |-> "none"]

\* The dialects: one panel type for every way of asking.  "marzban" stands for
\* the Marzban family, Guard and Rebecca, which set what they are given;
\* "remnawave" is asked for the user's identifier first; "xui" takes the whole
\* client back, and so does "xui_token", which does not show all of it; "sui" also
\* to reset its traffic.
PROVIDERS == {"marzban", "remnawave", "xui", "xui_token", "sui", "hiddify", "wgdashboard", "ibsng", "mikrotik"}

\* The requests each operation takes; an operation without any is not supported.
create == [d \in PROVIDERS |->
  CASE d = "wgdashboard" -> <<"peer">> [] d = "ibsng" -> <<"user", "name">> [] d = "mikrotik" -> <<"named">> [] OTHER -> <<"add">>]
\* Broken: a user is made again although progress was stored.
ibsCreateAnew == [progressed \in BOOLEAN |-> <<"user", "name">>]
ibsCreate == [progressed \in BOOLEAN |-> IF progressed THEN <<"name">> ELSE <<"user", "name">>]
wgLimits == <<"dropLimit", "setLimit", "dropEnds", "setEnds">>
finishCreate == [d \in PROVIDERS |->
  CASE d = "wgdashboard" -> wgLimits [] d = "mikrotik" -> <<"profile">> [] OTHER -> <<>>]
WrittenBack == {"xui", "xui_token", "sui"}
update == [d \in PROVIDERS |->
  CASE d \in {"marzban", "remnawave"} -> <<"terms">> [] d \in WrittenBack -> <<"get", "write">>
    [] d = "hiddify" -> <<"get", "terms">> [] d = "wgdashboard" -> <<"get">> \o wgLimits [] OTHER -> <<>>]
toggle == [d \in PROVIDERS |->
  CASE d = "marzban" -> <<"flip">> [] d \in WrittenBack -> <<"get", "write">> [] d = "ibsng" -> <<>>
    [] OTHER -> <<"get", "flip">>]
remove == [d \in PROVIDERS |->
  CASE d = "marzban" -> <<"del">> [] d = "wgdashboard" -> <<"get", "get", "flip", "del">> [] OTHER -> <<"get", "del">>]
reset == [d \in PROVIDERS |->
  CASE d \in {"marzban", "xui", "xui_token"} -> <<"zero">> [] d = "sui" -> <<"get", "write">>
    [] d \in {"remnawave", "hiddify", "wgdashboard"} -> <<"get", "zero">> [] OTHER -> <<>>]
revoke == [d \in PROVIDERS |->
  CASE d = "marzban" -> <<"link">> [] d = "remnawave" -> <<"get", "link">> [] d \in WrittenBack -> <<"get", "write">>
    [] OTHER -> <<>>]
Requests(d, name) ==
  CASE name = "create" -> create[d] \o finishCreate[d] [] name = "update" -> update[d] [] name = "toggle" -> toggle[d]
    [] name = "remove" -> remove[d] [] name = "reset" -> reset[d] [] OTHER -> revoke[d]
OpNames == {"create", "update", "toggle", "remove", "reset", "revoke"}
Supported(d, name) == Requests(d, name) # <<>>

\* Hiddify counts whole days from the start of today: all that were bought when
\* an account is made, those that are left when its terms change.
\* Broken: a day that has begun is not counted.
DaysLeftWhole == IF op.ends > clock THEN (op.ends - clock) \div Day ELSE 0
DaysLeft == IF op.ends > clock THEN (op.ends - clock + Day - 1) \div Day ELSE 0
Counted(days) == IF dialect = "hiddify" THEN (clock \div Day) * Day + days * Day ELSE op.ends

\* What an operation means for an account a.
Meant(a) ==
  CASE op.name = "update" -> [a EXCEPT !.limit = op.limit, !.ends = op.ends]
    [] op.name = "toggle" -> [a EXCEPT !.on = ~a.on]
    [] op.name = "reset"  -> [a EXCEPT !.used = 0]
    [] op.name = "revoke" -> [a EXCEPT !.link = 1]
    [] op.name = "remove" -> NoAccount
    [] OTHER -> [a EXCEPT !.exists = TRUE, !.on = TRUE, !.limit = op.limit, !.ends = op.ends, !.options = 1]

\* get: the account as the answer of every panel is normalized to it, or nothing.
\* The traffic row "xui_token" is asked for has neither the flow, nor the limit of
\* devices, nor the password that were set at the creation.
get == IF ~remote.exists THEN NoAccount
       ELSE IF dialect = "xui_token" THEN [remote EXCEPT !.options = 0] ELSE remote

\* What one request does to the account at the panel.
Effect(request) ==
  CASE request = "add" -> [Meant(remote) EXCEPT !.ends = Counted(op.days)]
    [] request = "terms" -> [Meant(remote) EXCEPT !.ends = Counted(DaysLeft)]
    [] request = "write" -> Meant(op.seen)
    [] request = "flip" -> [remote EXCEPT !.on = IF op.name = "remove" THEN TRUE ELSE ~op.seen.on]
    [] request \in {"zero", "link", "del"} -> Meant(remote)
    [] request = "dropLimit" -> [remote EXCEPT !.limit = None]
    [] request = "setLimit" -> [remote EXCEPT !.limit = op.limit]
    [] request = "dropEnds" -> [remote EXCEPT !.ends = None]
    [] request = "setEnds" -> [remote EXCEPT !.ends = op.ends]
    [] request \in {"peer", "named"} -> [remote EXCEPT !.exists = TRUE, !.on = TRUE, !.options = 1]
    [] request \in {"name", "profile"} -> Meant(remote)
    [] OTHER -> remote          \* "get", and the user IBSng has not named yet

Creates == {"add", "peer", "named", "user"}

ConnectorInit ==
  /\ dialect \in PROVIDERS /\ remote = NoAccount /\ users = 0 /\ progress = FALSE
  /\ op = Idle /\ before = NoAccount /\ clock \in 0..(Day - 1) /\ losses = 0 /\ ops = 0 /\ astray = 0

\* prepareAccount or the engine's desired terms: new terms end in a whole number
\* of days, from now or from the end so far.
Begin(name) ==
  /\ op.left = <<>> /\ op.result \notin {"unsure"} /\ ops < MaxOps /\ ops' = ops + 1
  /\ Supported(dialect, name) /\ (name = "create") = ~remote.exists /\ (name = "create" => users = 0)
  /\ \E days \in 1..2 :
       op' = [name |-> name, left |-> Requests(dialect, name), seen |-> remote, result |-> "none",
              limit |-> ops + 1, days |-> days,
              ends |-> (IF name = "update" /\ remote.ends > clock THEN remote.ends ELSE clock) + days * Day]
  /\ before' = remote
  /\ UNCHANGED <<dialect, remote, users, progress, clock, losses, astray>>

\* A request that answers; a read fails when the account is gone.
Answered ==
  /\ op.left # <<>>
  /\ LET request == Head(op.left) IN
     /\ remote' = Effect(request)
     /\ users' = users + (IF request \in Creates THEN 1 ELSE 0)
     /\ progress' = (progress \/ request = "user")
     /\ op' = IF request = "get" /\ get = NoAccount THEN [op EXCEPT !.left = <<>>, !.result = "failed"]
              ELSE [op EXCEPT !.left = Tail(@), !.seen = IF request = "get" THEN get ELSE @,
                              !.result = IF Len(op.left) = 1 THEN "done" ELSE "none"]
  /\ UNCHANGED <<dialect, before, clock, losses, ops, astray>>

\* Refused, lost, or answered to a process that is gone: the user of IBSng is
\* then there without its progress.
Unanswered ==
  /\ op.left # <<>> /\ losses < MaxLosses /\ losses' = losses + 1
  /\ LET request == Head(op.left) IN
     \E took \in BOOLEAN :
       /\ remote' = IF took THEN Effect(request) ELSE remote
       /\ users' = users + (IF took /\ request \in Creates THEN 1 ELSE 0)
       /\ astray' = astray + (IF took /\ request = "user" THEN 1 ELSE 0)
       /\ op' = [op EXCEPT !.left = <<>>, !.result = IF request = "get" THEN "failed" ELSE "unsure"]
  /\ UNCHANGED <<dialect, progress, before, clock, ops>>

\* reconcileOperation: the panel is asked whether the account, or the new terms,
\* are there; a creation is finished, ibsCreate goes on from its progress.
Reconcile ==
  /\ op.result = "unsure"
  /\ LET confirmed == CASE op.name = "create" /\ dialect = "ibsng" -> TRUE
                        [] op.name = "create" -> remote.exists /\ (dialect = "mikrotik" \/ remote.limit = op.limit)
                        [] op.name = "update" -> remote.limit = op.limit /\ remote.ends = op.ends
                        [] OTHER -> FALSE
         rest == IF op.name # "create" THEN <<>>
                 ELSE IF dialect = "ibsng" THEN ibsCreate[progress] ELSE finishCreate[dialect]
     IN /\ confirmed
        /\ op' = [op EXCEPT !.left = rest, !.result = IF rest = <<>> THEN "done" ELSE "none"]
  /\ UNCHANGED <<dialect, remote, users, progress, before, clock, losses, ops, astray>>

\* What others do meanwhile: the panel's administrator, the customer, the time.
\* A panel that takes a whole account back undoes it between its two requests.
Meanwhile ==
  /\ \/ /\ remote.exists /\ remote.used = 0 /\ ~(dialect \in WrittenBack /\ op.left # <<>>)
        /\ remote' = [remote EXCEPT !.used = 1] /\ before' = [before EXCEPT !.used = 1]
        /\ UNCHANGED clock
     \/ clock < MaxClock /\ clock' = clock + 1 /\ UNCHANGED <<remote, before>>
  /\ UNCHANGED <<dialect, users, progress, op, losses, ops, astray>>

OperationNext == (\E name \in OpNames : Begin(name)) \/ Answered \/ Unanswered \/ Reconcile \/ Meanwhile

-----------------------------------------------------------------------------
\* Whatever requests an operation took, and however it was interrupted and taken
\* up again, a confirmed operation leaves the account as it was but for what it
\* was meant to change (and what "xui_token" does not show).  Where days are
\* counted its end is at most a day off, or, when the operation came late, within
\* its days from now.  A second user appears only when IBSng's answer to the first
\* was lost.
OperationsMeanWhatTheySay ==
  /\ op.result = "done" =>
       LET wanted == Meant(before) IN
       /\ [remote EXCEPT !.ends = 0, !.used = 0, !.options = 0] = [wanted EXCEPT !.ends = 0, !.used = 0, !.options = 0]
       /\ dialect # "xui_token" => remote.options = wanted.options
       /\ remote.ends - wanted.ends >= 1 - Day
       /\ remote.ends - wanted.ends <= Day - 1 \/ remote.ends <= clock + op.days * Day
       /\ dialect # "hiddify" => remote.ends = wanted.ends
  /\ users <= 1 + astray
=============================================================================
