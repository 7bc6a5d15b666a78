------------------------------ MODULE BpbSlots ------------------------------
(***************************************************************************)
(* The slots of src/services/bpb/ and their sale by src/services/engine.js. *)
(* A row "bpb-account" stands for one Cloudflare account with one worker;  *)
(* it is sold to one service, whose buyer gets the link of the worker, and *)
(* is given back by rotating the secret path in that link.                 *)
(*                                                                         *)
(* Every handler runs alone on the coordinator's queue, so a handler is    *)
(* one action; the ways its call to Cloudflare may end are its outcomes.   *)
(***************************************************************************)
EXTENDS Integers, FiniteSets, FiniteSetsExt

CONSTANTS
  Accounts,       \* ids of rows "bpb-account"
  Tokens,         \* the Cloudflare accounts a token entered for a row may open
  Operations,     \* ids of quotes and of the operations made of them
  MaxQuantity,    \* slots an offer may ask for (10 in the code)
  Offers,         \* what each quote may be for: a service to renew or None, and a quantity
  MaxFailures,    \* bound: calls to Cloudflare that do not answer well
  None,           \* the absence of a value
  Gone            \* a deleted row

Services == Operations \X (0 .. MaxQuantity - 1)
Outcomes == {"ok", "failed", "lost"}   \* lost: the worker was deployed, the row is not updated

\* rows "bpb-account", "quote" with its "operation", and "service"
Row == [status : {"pending_install", "free", "sold", "error"}, cf : UNION {Tokens[a] : a \in Accounts},
        link : Nat, holder : Services \union {None}, left : Nat]
OperationRow == [status : {"quoted", "queued", "sending", "review", "done", "failed"},
                 target : Services \union {None}, quantity : 1 .. MaxQuantity]
ServiceRow == [status : {"active", "expired", "refunded"}, account : Accounts]

ASSUME SlotsAssumption ==
  /\ IsFiniteSet(Accounts) /\ IsFiniteSet(Operations)
  /\ MaxQuantity \in Nat \ {0} /\ MaxFailures \in Nat
  /\ None \notin Services \union Row \union OperationRow \union ServiceRow
  /\ Gone \notin Row
  /\ \A o \in Operations : Offers[o] \subseteq [target : Services \union {None}, quantity : 1 .. MaxQuantity]

VARIABLES
  slot,       \* rows "bpb-account"
  operation,  \* rows "quote" and "operation"
  service,    \* rows "service"
  request,    \* the services with a pending request for a refund
  doomed,     \* history: the links of a service when it was paid back, unless it was renewed since
  served,     \* external: the link the worker of a row answers to, 0 for none
  given,      \* history: the links a service got, by a sale or a synchronisation
  failures

vars == <<slot, operation, service, request, doomed, served, given, failures>>

Rows        == {a \in Accounts : slot[a] \notin {None, Gone}}
Installed   == {a \in Rows : slot[a].link # 0}
HeldBy(s)   == {a \in Rows : slot[a].status = "sold" /\ slot[a].holder = s}
Assignable  == {a \in Installed : slot[a].status = "free"}
OpenOn(s)   == {o \in Operations : operation[o] # None /\ operation[o].target = s
                                     /\ operation[o].status \in {"queued", "sending", "review"}}
\* the services an operation is for
Covers(o)   == IF operation[o].target # None THEN {operation[o].target}
               ELSE {o} \X (0 .. operation[o].quantity - 1)

\* the paths of a worker that some service got in a link
GivenOf(a) == {l[2] : l \in {m \in UNION {given[s] : s \in Services} : m[1] = a}}

(* randSecurePath: a path that is neither stored nor was ever given away.  *)
Seen(a)  == {slot[a].link} \union GivenOf(a)
Fresh(a) == Min((1 .. Cardinality(Seen(a)) + 1) \ Seen(a))

Init ==
  /\ slot = [a \in Accounts |-> None] /\ operation = [o \in Operations |-> None]
  /\ service = [s \in Services |-> None] /\ request = {} /\ failures = 0
  /\ served = [a \in Accounts |-> 0] /\ given = [s \in Services |-> {}]
  /\ doomed = [s \in Services |-> {}]
-----------------------------------------------------------------------------
(* Administration of the rows.                                             *)

Called(outcome) ==
  /\ outcome # "ok" => failures < MaxFailures
  /\ failures' = IF outcome = "ok" THEN failures ELSE failures + 1

CreateBpbAccount(a, cf) ==
  /\ slot[a] = None
  /\ slot' = [slot EXCEPT ![a] = [status |-> "pending_install", cf |-> cf, link |-> 0,
                                  holder |-> None, left |-> 0]]
  /\ UNCHANGED <<operation, service, request, doomed, served, given, failures>>

Claimed_FreeOnly(a) == \E b \in Installed \ {a} : slot[b].status = "free" /\ slot[b].cf = slot[a].cf
\* another row already holds the worker of this Cloudflare account
Claimed(a) == \E b \in Installed \ {a} : slot[b].cf = slot[a].cf
\* A row keeps the name and the path of its worker once both are stored.
InstalledLink(a) == IF slot[a].link = 0 THEN Fresh(a) ELSE slot[a].link

(* Any failure ends in status "error"; an eviction leaves the row as it    *)
(* was.  A worker deployed for a row without a name is forgotten.          *)
InstallBpbOnAccount(a, outcome) ==
  /\ a \in Rows /\ slot[a].status # "sold"
  /\ IF Claimed(a) THEN outcome = "failed" /\ UNCHANGED failures ELSE Called(outcome)
  /\ slot' \in CASE outcome = "ok" ->
                      {[slot EXCEPT ![a].status = "free", ![a].link = InstalledLink(a)]}
               [] outcome = "failed" -> {[slot EXCEPT ![a].status = "error"]}
               [] outcome = "lost" -> {slot, [slot EXCEPT ![a].status = "error"]}
  /\ served' = IF outcome = "ok" \/ (outcome = "lost" /\ a \in Installed)
               THEN [served EXCEPT ![a] = InstalledLink(a)] ELSE served
  /\ UNCHANGED <<operation, service, request, doomed, given>>

RevokeBpbSlot_HolderKept(a, outcome) ==
  /\ a \in Installed
  /\ Called(outcome)
  /\ served' = IF outcome = "failed" THEN served ELSE [served EXCEPT ![a] = Fresh(a)]
  /\ slot' = IF outcome # "ok" THEN slot
             ELSE [slot EXCEPT ![a].status = "free", ![a].link = Fresh(a), ![a].left = 0]
  /\ UNCHANGED <<operation, service, request, doomed, given>>

RevokeBpbSlot_FreedFirst(a, outcome) ==
  /\ a \in Installed
  /\ Called(outcome)
  /\ served' = IF outcome = "failed" THEN served ELSE [served EXCEPT ![a] = Fresh(a)]
  /\ slot' = [slot EXCEPT ![a].status = "free", ![a].link = Fresh(a), ![a].holder = None, ![a].left = 0]
  /\ UNCHANGED <<operation, service, request, doomed, given>>

RevokeBpbSlot_PathKept(a, outcome) ==
  /\ a \in Installed
  /\ Called(outcome)
  /\ slot' = IF outcome # "ok" THEN slot
             ELSE [slot EXCEPT ![a].status = "free", ![a].holder = None, ![a].left = 0]
  /\ UNCHANGED <<operation, service, request, doomed, served, given>>

(* Rotates the path and frees the row, whatever its status; a call that    *)
(* does not answer well leaves the row as it was.                          *)
RevokeBpbSlot(a, outcome) ==
  /\ a \in Installed
  /\ Called(outcome)
  /\ served' = IF outcome = "failed" THEN served ELSE [served EXCEPT ![a] = Fresh(a)]
  /\ slot' = IF outcome # "ok" THEN slot
             ELSE [slot EXCEPT ![a].status = "free", ![a].link = Fresh(a), ![a].holder = None, ![a].left = 0]
  /\ UNCHANGED <<operation, service, request, doomed, given>>

(* One turn of the loop over expired slots; nothing runs between turns.    *)
BpbTick(a, outcome) ==
  /\ a \in Rows /\ slot[a].status = "sold" /\ slot[a].left = 0
  /\ RevokeBpbSlot(a, outcome)

(* Redeploys the worker under the stored path.                             *)
ApplyBpbSettings(a, outcome) ==
  /\ a \in Installed
  /\ Called(outcome)
  /\ served' = IF outcome = "failed" THEN served ELSE [served EXCEPT ![a] = slot[a].link]
  /\ UNCHANGED <<slot, operation, service, request, doomed, given>>

(* The worker is deleted first, if that works; then a sold row needs the   *)
(* administrator's force to go.                                            *)
DeleteBpbAccount(a, force) ==
  /\ a \in Rows
  /\ served' \in {served, [served EXCEPT ![a] = 0]}
  /\ slot' = IF force \/ slot[a].status # "sold" THEN [slot EXCEPT ![a] = Gone] ELSE slot
  /\ UNCHANGED <<operation, service, request, doomed, given, failures>>

TimePasses(a) ==
  /\ a \in Rows /\ slot[a].left > 0
  /\ slot' = [slot EXCEPT ![a].left = @ - 1]
  /\ UNCHANGED <<operation, service, request, doomed, served, given, failures>>
-----------------------------------------------------------------------------
(* Sales.                                                                  *)

Quote(o, offer) ==
  /\ operation[o] = None
  /\ offer.target # None => service[offer.target] # None /\ service[offer.target].status # "refunded"
  /\ operation' = [operation EXCEPT ![o] =
                     [status |-> "quoted", target |-> offer.target, quantity |-> offer.quantity]]
  /\ UNCHANGED <<slot, service, request, doomed, served, given, failures>>

(* The state of the service itself is not looked at again.                 *)
Purchase(o) ==
  /\ operation[o] # None /\ operation[o].status = "quoted"
  /\ operation[o].target # None => OpenOn(operation[o].target) = {}
  /\ operation' = [operation EXCEPT ![o].status = "queued"]
  /\ UNCHANGED <<slot, service, request, doomed, served, given, failures>>

EndsAs(o, status) == operation' = [operation EXCEPT ![o].status = status]

(* finalizeOperation, given the slot each service of the operation has.    *)
Settle(o, from) ==
  /\ EndsAs(o, "done")
  /\ service' = [s \in Services |-> IF s \notin Covers(o) THEN service[s]
                   ELSE [status |-> "active", account |-> from[s]]]
  /\ given' = [s \in Services |-> IF s \notin Covers(o) THEN given[s]
                                  ELSE given[s] \union {<<from[s], slot[from[s]].link>>}]

(* The end of processOperation: it settles, or the coordinator is evicted  *)
(* while finalizeOperation hashes the tokens of the new services.          *)
SettleOrStop(o, from) ==
  \/ Settle(o, from)
  \/ EndsAs(o, "sending") /\ UNCHANGED <<service, given>>

Assigned(from) ==
  slot' = [a \in Accounts |-> IF \E s \in DOMAIN from : from[s] = a
             THEN [slot[a] EXCEPT !.status = "sold", !.left = 1,
                                  !.holder = CHOOSE s \in DOMAIN from : from[s] = a]
             ELSE slot[a]]

(* processBpbOperation for a purchase: one free slot after the other.      *)
ProcessPurchase(o) ==
  /\ operation[o] # None /\ operation[o].status = "queued" /\ operation[o].target = None
  /\ LET n == Cardinality(Assignable)
         Wanted(m) == {o} \X (0 .. m - 1)
         Slots(m) == {f \in [Wanted(m) -> Assignable] :
                        \A s, t \in Wanted(m) : f[s] = f[t] => s = t}
     IN \/ /\ operation[o].quantity <= n
           /\ \E from \in Slots(operation[o].quantity) : Assigned(from) /\ SettleOrStop(o, from)
        \/ /\ n > 0 /\ n < operation[o].quantity
           /\ \E from \in Slots(n) : Assigned(from)
           /\ EndsAs(o, "review") /\ UNCHANGED <<service, given>>
        \/ n = 0 /\ EndsAs(o, "failed") /\ UNCHANGED <<slot, service, given>>
  /\ UNCHANGED <<request, doomed, served, failures>>

(* processBpbOperation for a renewal: it prolongs the slot of the service. *)
ProcessRenewal(o) ==
  /\ operation[o] # None /\ operation[o].status = "queued" /\ operation[o].target # None
  /\ LET s == operation[o].target
     IN \/ \E a \in HeldBy(s) : /\ slot' = [slot EXCEPT ![a].left = @ + 1]
                                /\ doomed' = [doomed EXCEPT ![s] = {}]
                                /\ SettleOrStop(o, [t \in {s} |-> a])
        \/ HeldBy(s) = {} /\ EndsAs(o, "failed") /\ UNCHANGED <<slot, service, doomed, given>>
  /\ UNCHANGED <<request, served, failures>>

(* The next tick finds an operation that was not settled.                  *)
Interrupted(o) ==
  /\ operation[o] # None /\ operation[o].status = "sending"
  /\ EndsAs(o, "review")
  /\ UNCHANGED <<slot, service, request, doomed, served, given, failures>>

ReconcileBpbOperation_AnySlot(o) ==
  /\ operation[o] # None /\ operation[o].status \in {"sending", "review"}
  /\ \E from \in [Covers(o) -> Rows] :
       /\ \A s \in Covers(o) : slot[from[s]].status = "sold" /\ slot[from[s]].holder[1] = s[1]
       /\ Settle(o, from)
  /\ UNCHANGED <<slot, request, doomed, served, failures>>

Confirmed(o) == \A s \in Covers(o) : HeldBy(s) # {}
ReconcileBpbOperation(o) ==
  /\ operation[o] # None /\ operation[o].status \in {"sending", "review"}
  /\ Confirmed(o)
  /\ \E from \in [Covers(o) -> Rows] : (\A s \in Covers(o) : from[s] \in HeldBy(s)) /\ Settle(o, from)
  /\ UNCHANGED <<slot, request, doomed, served, failures>>

Unused_NotAll(o) == \E s \in Covers(o) : HeldBy(s) = {}
Unused(o) == \A s \in Covers(o) : HeldBy(s) = {}
(* A queued operation has no slot yet.                                     *)
CancelOperation(o) ==
  /\ operation[o] # None
  /\ operation[o].status = "queued" \/ (operation[o].status = "review" /\ Unused(o))
  /\ EndsAs(o, "failed")
  /\ UNCHANGED <<slot, service, request, doomed, served, given, failures>>
-----------------------------------------------------------------------------
(* Services.                                                               *)

(* The slot is the one stored in the service, whoever holds it by now.     *)
SynchronizeBpb(s) ==
  /\ service[s] # None /\ service[s].account \in Rows
  /\ LET row == slot[service[s].account]
     IN /\ service' = [service EXCEPT
              ![s].status = IF row.status # "sold" \/ row.left = 0 THEN "expired" ELSE "active"]
        /\ given' = [given EXCEPT ![s] = @ \union {<<service[s].account, row.link>>}]
  /\ UNCHANGED <<slot, operation, request, doomed, served, failures>>

Expire_Forgotten(s) == UNCHANGED slot
\* "expire now": the tick rotates the link and frees the slot
Expire(s) == slot' = [a \in Accounts |-> IF a \in HeldBy(s) THEN [slot[a] EXCEPT !.left = 0] ELSE slot[a]]

\* what the refund of a service is to end
Condemn(s) == doomed' = [doomed EXCEPT ![s] = @ \union {<<a, slot[a].link>> : a \in HeldBy(s)}]

CancelBpbService(s) ==
  /\ service[s] # None /\ service[s].status # "refunded"
  /\ OpenOn(s) = {} /\ HeldBy(s) # {}
  /\ Condemn(s)
  /\ service' = [service EXCEPT ![s].status = "refunded"]
  /\ Expire(s)
  /\ UNCHANGED <<operation, request, served, given, failures>>

RequestRefund(s) ==
  /\ service[s] # None /\ OpenOn(s) = {} /\ s \notin request
  /\ request' = request \union {s}
  /\ UNCHANGED <<slot, operation, service, doomed, served, given, failures>>

DecideBpbRefund(s, approve) ==
  /\ s \in request
  /\ request' = request \ {s}
  /\ IF approve
     THEN /\ Condemn(s)
          /\ service' = [service EXCEPT ![s].status = "refunded"]
          /\ Expire(s)
     ELSE UNCHANGED <<doomed, service, slot>>
  /\ UNCHANGED <<operation, served, given, failures>>
-----------------------------------------------------------------------------
Administrator ==
  \/ \E a \in Accounts : \E cf \in Tokens[a] : CreateBpbAccount(a, cf)
  \/ \E a \in Accounts, outcome \in Outcomes :
       InstallBpbOnAccount(a, outcome) \/ RevokeBpbSlot(a, outcome) \/ ApplyBpbSettings(a, outcome)
  \/ \E a \in Accounts, force \in BOOLEAN : DeleteBpbAccount(a, force)
  \/ \E o \in Operations : ReconcileBpbOperation(o) \/ CancelOperation(o)
  \/ \E s \in Services, approve \in BOOLEAN : DecideBpbRefund(s, approve)

Customer ==
  \/ \E o \in Operations : Purchase(o) \/ \E offer \in Offers[o] : Quote(o, offer)
  \/ \E s \in Services : CancelBpbService(s) \/ RequestRefund(s)

Engine(o) == ProcessPurchase(o) \/ ProcessRenewal(o) \/ Interrupted(o)
Expiry(a) == \E outcome \in Outcomes : BpbTick(a, outcome)

Next ==
  \/ Administrator \/ Customer
  \/ \E o \in Operations : Engine(o)
  \/ \E s \in Services : SynchronizeBpb(s)
  \/ \E a \in Accounts : Expiry(a) \/ TimePasses(a)

Spec == Init /\ [][Next]_vars
(* The alarm runs the tick again and again.                                *)
FairSpec == Spec /\ \A o \in Operations : WF_vars(Engine(o)) /\ \A a \in Accounts : WF_vars(Expiry(a))
-----------------------------------------------------------------------------
(* Every variable keeps its type, and a sold slot is installed and held.   *)
TypeOK ==
  /\ slot \in [Accounts -> Row \union {None, Gone}]
  /\ \A a \in Rows : (slot[a].status = "sold") = (slot[a].holder # None)
  /\ \A a \in Rows : slot[a].status \in {"free", "sold"} => slot[a].link # 0
  /\ operation \in [Operations -> OperationRow \union {None}]
  /\ service \in [Services -> ServiceRow \union {None}]
  /\ request \subseteq Services
  /\ served \in [Accounts -> Nat]
  /\ given \in [Services -> SUBSET (Accounts \X Nat)] /\ doomed \in [Services -> SUBSET (Accounts \X Nat)]
  /\ failures \in 0 .. MaxFailures

(* A worker answers to no link that was given away but the one its row     *)
(* stores.                                                                 *)
OnlyStoredLinks ==
  \A a \in Installed : served[a] # 0 /\ served[a] \in GivenOf(a) => served[a] = slot[a].link

(* A row gets no path that anybody was given, and one that is no longer    *)
(* sold has a new one and its worker answers to no link given before.      *)
RotatedWhenFreed ==
  \A a \in Installed \intersect Installed' :
    /\ slot'[a].link # slot[a].link => slot'[a].link \notin GivenOf(a)'
    /\ slot[a].status = "sold" /\ slot'[a].status # "sold" =>
         slot'[a].link # slot[a].link /\ served'[a] \notin GivenOf(a)'

(* The link of a buyer ends with his slot and never comes back, although   *)
(* revocations fail, are repeated and are evicted half-way, settings       *)
(* redeploy the worker under the stored path, and a synchronisation hands  *)
(* the new link to the former buyer (docs/BPB.fa.md section 4).            *)
OldLinksDie == []OnlyStoredLinks /\ [][RotatedWhenFreed]_vars

(* Each sold slot is the only one of a service, of an operation that was   *)
(* settled or can still be: no cancellation, failure or eviction leaves a  *)
(* slot sold to nobody.  And no two installed rows are on one Cloudflare   *)
(* account (service.js:2), so no slot is sold twice under two ids.         *)
SlotsAccounted ==
  /\ \A a \in Rows : slot[a].status = "sold" =>
       /\ HeldBy(slot[a].holder) = {a}
       /\ operation[slot[a].holder[1]].status \in {"sending", "review", "done"}
       /\ operation[slot[a].holder[1]].status = "done" => service[slot[a].holder] # None
  /\ \A a, b \in Installed : slot[a].cf = slot[b].cf => a = b

(* A customer is charged for a purchase or a renewal only in a step after  *)
(* which each of its services has a slot of its own.                       *)
PaidMeansSlots ==
  [][\A o \in Operations :
       operation'[o] # operation[o] /\ operation'[o].status = "done"
         => \A s \in Covers(o) : HeldBy(s)' # {}]_vars

(* When money of a service is paid back, the worker of each row it held    *)
(* stops to answer to the link it had then, after any failures of          *)
(* Cloudflare, unless a renewal quoted before takes the money again        *)
(* (engine.js:1342, BPB.fa.md:44).                                         *)
RefundKillsLink ==
  \A s \in Services :
    LET Alive == \E a \in Rows : <<a, served[a]>> \in doomed[s] IN Alive ~> ~Alive

(* A service becomes active again only while a slot is sold to it: once    *)
(* its slot was given back it is expired (docs/BPB.fa.md:44).              *)
ExpiredWithItsSlot ==
  [][\A s \in Services :
       service[s] # None /\ service'[s].status = "active" /\ service[s].status # "active"
         => HeldBy(s) # {}]_vars
=============================================================================
