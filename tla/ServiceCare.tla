----------------------------- MODULE ServiceCare -----------------------------
(***************************************************************************)
(* What happens to a sold service afterwards (src/src/services/engine.js,  *)
(* subscriptions.js): its customer pauses it, changes its link and asks    *)
(* for a refund, a transfer to another customer or a move to another       *)
(* panel; the administrator decides; the tick synchronizes, warns, deletes *)
(* and delivers; and anybody fetches its subscription.  Handlers run one   *)
(* after another, except a fetch; each may be cut short or left without an *)
(* answer at its calls to the panel.                                       *)
(***************************************************************************)
EXTENDS Naturals

CONSTANTS
  MaxKeys,       \* links ever made
  MaxRequests,   \* requests of the customer
  MaxClicksCare, \* of the customer
  MaxCareFaults  \* calls without a good answer, and evictions

VARIABLES
  care,     \* service:<id>
  accounts, \* at the panels: the first account and the one a move creates
  request,  \* request:<id>, one of each kind
  fetch,    \* a subscription being served: what was read before the membership check
  holds,    \* history: the last token each customer was shown
  known,    \* history: the links each customer was shown
  shown,    \* history: what the buyer knew when his transfer was first decided
  credits,  \* how often the refund was booked to the wallet
  reopened, \* history: the account was put to work since: enabled, or moved
  links, asked, careClicks, careFaults

careBounds == <<links, asked, careClicks, careFaults>>
refundVars == <<credits, reopened>>
careVars == <<care, accounts, request, fetch, holds, known, shown, refundVars, careBounds>>

Kinds == {"refund", "transfer", "move"}
NoRequest == [status |-> "none", before |-> 0]
Final == {"none", "approved", "rejected"}

CareInit ==
  /\ care = [status |-> "active", at |-> 1, owner |-> "buyer", token |-> 1, key |-> 1,
             lock |-> "none", delivery |-> "pending", held |-> FALSE]
  /\ accounts = [a \in 1..2 |-> IF a = 1 THEN [state |-> "on", key |-> 1] ELSE [state |-> "none", key |-> 0]]
  /\ request = [k \in Kinds |-> NoRequest]
  /\ fetch = [by |-> "nobody", key |-> 0] /\ holds = [u \in {"buyer", "friend"} |-> 0]
  /\ known = [u \in {"buyer", "friend"} |-> {}] /\ shown = {}
  /\ credits = 0 /\ reopened = FALSE
  /\ links = 1 /\ asked = 0 /\ careClicks = 0 /\ careFaults = 0

Account == accounts[care.at]
NewKey == links + 1
Set(a, state) == [accounts EXCEPT ![a].state = state]
Rotated(a) == [accounts EXCEPT ![a].key = NewKey]
Rotates == links < MaxKeys /\ links' = NewKey

\* synchronize: the stored service takes the panel's word, if the account is there.
Synchronized(s, accs) ==
  IF accs[s.at].state = "none" THEN s
  ELSE [s EXCEPT !.status = IF accs[s.at].state = "on" THEN "active" ELSE "disabled", !.key = accs[s.at].key]

\* How a call that changes the panel may go: whether it took effect and whether
\* the handler goes on, fails, or is cut.
Calls == {[took |-> TRUE, ends |-> "done"]} \cup [took : BOOLEAN, ends : {"failed", "cut"}]
Faulty(c) == careFaults' = careFaults + (IF c.ends = "done" THEN 0 ELSE 1) /\ careFaults' <= MaxCareFaults

Click == careClicks < MaxClicksCare /\ careClicks' = careClicks + 1 /\ care.lock = "none"

\* simpleServiceAction: nothing is stored unless the panel answered.  It does not
\* look at the status: a customer may enable a service that was paid back.
Toggle(enabled) ==
  /\ Click /\ Account.state # "none"
  /\ \E c \in Calls :
       /\ Faulty(c)
       /\ reopened' = (reopened \/ (enabled /\ c.took /\ credits > 0))
       /\ accounts' = IF c.took THEN Set(care.at, IF enabled THEN "on" ELSE "off") ELSE accounts
       /\ care' = IF c.ends = "done" THEN Synchronized(care, accounts') ELSE care
  /\ UNCHANGED <<request, fetch, holds, known, shown, credits, links, asked>>

Revoke ==
  /\ Click /\ Account.state # "none" /\ Rotates
  /\ \E c \in Calls :
       /\ Faulty(c)
       /\ accounts' = IF c.took THEN Rotated(care.at) ELSE accounts
       /\ care' = IF c.ends = "done" THEN Synchronized([care EXCEPT !.token = @ + 1], accounts') ELSE care
  /\ UNCHANGED <<request, fetch, holds, known, shown, refundVars, asked>>

Sync ==
  /\ Click /\ care' = Synchronized(care, accounts)
  /\ UNCHANGED <<accounts, request, fetch, holds, known, shown, refundVars, links, asked, careFaults>>

Ask(kind) ==
  /\ care.lock = "none" /\ asked < MaxRequests /\ asked' = asked + 1
  /\ request[kind].status \in Final /\ care.owner = "buyer"
  /\ request' = [request EXCEPT ![kind] = [status |-> "pending", before |-> 0]]
  /\ UNCHANGED <<care, accounts, fetch, holds, known, shown, refundVars, links, careClicks, careFaults>>

Reject(kind) ==
  /\ request[kind].status = "pending" /\ care.owner = "buyer"
  /\ request' = [request EXCEPT ![kind].status = "rejected"]
  /\ UNCHANGED <<care, accounts, fetch, holds, known, shown, refundVars, careBounds>>

\* decideServiceRequest: a pending request is committed as processing with the
\* lock on the service before the panel is called; afterwards it is approved, in
\* review, or, when the process stopped, still processing.
Decides(kind) == request[kind].status \in {"pending", "review"} /\ care.owner = "buyer"
Recovers(kind) == request[kind].status = "review"
Marked(kind, c, before) ==
  [request EXCEPT ![kind] = [before |-> before,
     status |-> CASE c.ends = "done" -> "approved" [] c.ends = "failed" -> "review" [] OTHER -> "processing"]]
Locked(kind) == [care EXCEPT !.lock = kind]
\* Broken: a refund taken up again does not look at the account.
CallsOfUnconfirmed(kind, confirmed) ==
  IF ~Recovers(kind) THEN Calls ELSE {[took |-> FALSE, ends |-> "done"]}
CallsOf(kind, confirmed) ==
  IF ~Recovers(kind) THEN Calls
  ELSE IF confirmed THEN {[took |-> FALSE, ends |-> "done"]} ELSE {[took |-> FALSE, ends |-> "failed"]}

\* Broken: each request books a refund of its own.
BookedByRequest(n) == n + 1
\* The event in the wallet is named for the service, not for the request.
Booked(n) == IF n = 0 THEN 1 ELSE n

\* A second request for a service already paid back books nothing, and conflicts
\* with the first when its amount is another, which the request remembers.
OtherAmounts == IF Recovers("refund") THEN {request["refund"].before} ELSE IF credits = 0 THEN {0} ELSE {0, 1}
Refund ==
  /\ Decides("refund")
  /\ \E call \in CallsOf("refund", Account.state # "on"), other \in OtherAmounts :
       LET c == IF other = 1 /\ call.ends = "done" THEN [call EXCEPT !.ends = "failed"] ELSE call IN
       /\ (IF Recovers("refund") THEN UNCHANGED careFaults ELSE Faulty(call))
       /\ (Recovers("refund") \/ Account.state # "none" \/ c.ends = "failed")
       /\ accounts' = IF c.took /\ Account.state # "none" THEN Set(care.at, "off") ELSE accounts
       /\ request' = Marked("refund", c, other)
       /\ IF c.ends = "done"
          THEN /\ care' = [care EXCEPT !.status = "refunded", !.lock = "none"]
               /\ credits' = Booked(credits) /\ reopened' = FALSE
          ELSE /\ care' = IF Recovers("refund") THEN care ELSE Locked("refund")
               /\ UNCHANGED refundVars
  /\ UNCHANGED <<fetch, holds, known, shown, links, asked, careClicks>>

\* The link is compared with the one noted before the revocation.
Transfer ==
  /\ Decides("transfer") /\ Account.state # "none"
  /\ LET before == IF Recovers("transfer") THEN request["transfer"].before ELSE Account.key IN
     \E c \in CallsOf("transfer", Account.key # before) :
       /\ (IF Recovers("transfer") THEN UNCHANGED <<careFaults, links>> ELSE Faulty(c) /\ Rotates)
       /\ accounts' = IF c.took THEN Rotated(care.at) ELSE accounts
       /\ request' = Marked("transfer", c, before)
       /\ care' = IF c.ends = "done"
                  THEN [care EXCEPT !.owner = "friend", !.token = @ + 1, !.key = accounts'[care.at].key,
                                    !.lock = "none", !.delivery = "pending"]
                  ELSE IF Recovers("transfer") THEN care ELSE Locked("transfer")
  /\ shown' = IF Recovers("transfer") THEN shown
              ELSE known["buyer"] \cup (IF fetch.by = "buyer" THEN {fetch.key} ELSE {})
  /\ UNCHANGED <<fetch, holds, known, refundVars, asked, careClicks>>

\* migrateService: create and finish there, switch off here, commit.
Move ==
  /\ Decides("move") /\ care.at = 1 /\ Account.state # "none"
  /\ \E c \in Calls, created \in BOOLEAN :
       /\ Faulty(c) /\ (c.took => created) /\ (Recovers("move") => created = (accounts[2].state # "none"))
       /\ (IF Recovers("move") THEN UNCHANGED links ELSE Rotates)
       /\ LET there == IF created /\ accounts[2].state = "none"
                       THEN [accounts EXCEPT ![2] = [state |-> "on", key |-> NewKey]] ELSE accounts
          IN accounts' = IF c.took THEN [there EXCEPT ![1].state = "off"] ELSE there
       /\ request' = Marked("move", c, 0)
       /\ care' = IF c.ends = "done"
                  THEN [care EXCEPT !.at = 2, !.status = "active", !.key = accounts'[2].key, !.token = @ + 1,
                                    !.lock = "none", !.delivery = "pending"]
                  ELSE Locked("move")
       /\ reopened' = (reopened \/ (c.ends = "done" /\ credits > 0))
  /\ UNCHANGED <<fetch, holds, known, shown, credits, asked, careClicks>>

\* deliverService of a copy of the service: held at the membership gate, in
\* review after an interrupted message, or sent, refused, or uncertain.
Delivered(s) ==
  IF s.delivery = "sending" THEN {[s EXCEPT !.delivery = "review"]}
  ELSE {[s EXCEPT !.held = TRUE]} \cup {[s EXCEPT !.delivery = d, !.held = FALSE] : d \in {"sent", "review", "pending", "sending"}}

\* serviceTick: the service is synchronized, or deleted when it expired long
\* ago; then what the tick had listed as pending is delivered, from the copy
\* listed before.
ServiceTick ==
  /\ \E late \in BOOLEAN, c \in Calls :
       LET synced == IF care.status \in {"deleted", "refunded"} THEN care ELSE Synchronized(care, accounts)
           removes == late /\ synced.status # "deleted" /\ care.status \notin {"deleted", "refunded"} /\ Account.state # "none"
           fresh == IF ~removes THEN synced
                    ELSE IF c.ends = "done" THEN [synced EXCEPT !.status = "deleted"] ELSE care
       IN /\ (~removes => c = [took |-> TRUE, ends |-> "done"]) /\ Faulty(c)
          /\ accounts' = IF removes /\ c.took THEN Set(care.at, "none") ELSE accounts
          /\ care' \in IF care.delivery = "pending" /\ ~care.held /\ c.ends = "done" THEN Delivered(care) ELSE {fresh}
  /\ UNCHANGED <<request, fetch, holds, known, shown, refundVars, links, asked, careClicks>>

\* The customer opens the service, and reads its links and its token.
ViewService(u) ==
  /\ care.owner = u /\ care.status \notin {"deleted", "refunded", "disabled"}
  /\ holds' = [holds EXCEPT ![u] = care.token] /\ known' = [known EXCEPT ![u] = @ \cup {care.key}]
  /\ UNCHANGED <<care, accounts, request, fetch, shown, refundVars, careBounds>>

\* GET /sub/<token>: the service is read, its owner's membership is checked
\* outside, and the links read before are served.
StartFetch(u) ==
  /\ fetch.by = "nobody" /\ holds[u] = care.token /\ care.status \notin {"deleted", "refunded", "disabled"}
  /\ fetch' = [by |-> u, key |-> care.key]
  /\ UNCHANGED <<care, accounts, request, holds, known, shown, refundVars, careBounds>>

\* GET /sub-all: the membership is checked before the services are listed.
CombinedSubscription(u) ==
  /\ care.owner = u /\ care.status \notin {"deleted", "refunded", "disabled"}
  /\ known' = [known EXCEPT ![u] = @ \cup {care.key}]
  /\ UNCHANGED <<care, accounts, request, fetch, holds, shown, refundVars, careBounds>>

EndFetch ==
  /\ fetch.by # "nobody" /\ fetch' = [by |-> "nobody", key |-> 0]
  /\ \E gate \in BOOLEAN : known' = IF gate THEN [known EXCEPT ![fetch.by] = @ \cup {fetch.key}] ELSE known
  /\ UNCHANGED <<care, accounts, request, holds, shown, refundVars, careBounds>>

CareNext ==
  \/ \E enabled \in BOOLEAN : Toggle(enabled)
  \/ Revoke \/ Sync \/ Refund \/ Transfer \/ Move \/ ServiceTick \/ EndFetch
  \/ \E kind \in Kinds : Ask(kind) \/ Reject(kind)
  \/ \E u \in {"buyer", "friend"} : ViewService(u) \/ CombinedSubscription(u) \/ StartFetch(u)

CareSpec == CareInit /\ [][CareNext]_careVars

-----------------------------------------------------------------------------
\* Two accounts of one service work at once only while its move is undecided.  A
\* service is paid back once, however often that is asked for, granted and taken
\* up again, and from then on its account works only if the customer enables it or
\* a move puts it elsewhere.  After a transfer nothing the former owner had been
\* shown, or was fetching, when it was first decided opens the account.
CareIsSound ==
  /\ accounts[1].state = "on" /\ accounts[2].state = "on" => request["move"].status \in {"processing", "review"}
  /\ credits <= 1
  /\ credits > 0 /\ accounts[care.at].state = "on" => reopened
  /\ care.owner = "friend" => accounts[care.at].key \notin shown

\* "Subscription, QR and config require ownership" (FAOXIMA-CLOUDFLARE.fa.md:118):
\* once a service has a new owner, no link its former owner was ever shown opens it.
LinksNeedOwnership == care.owner = "friend" => accounts[care.at].key \notin known["buyer"]
=============================================================================
