------------------------------ MODULE MCBpbSlots ------------------------------
(***************************************************************************)
(* Small instances of BpbSlots: two scenes, one per behaviour.             *)
(***************************************************************************)
EXTENDS BpbSlots

CONSTANTS first, second, o1, o2

VARIABLE scene

Buy(n)   == [target |-> None, quantity |-> n]
Renew(s) == [target |-> s, quantity |-> 1]
Buyers   == [o \in Operations |-> IF o = o1 THEN {Buy(1), Buy(2)} ELSE {Buy(1), Renew(<<o1, 0>>)}]

(* "pair": two slots of two Cloudflare accounts that answer are bought at  *)
(* once, and one is renewed.  "rivals": a purchase of one, and a second    *)
(* one or a renewal, while a call fails or is lost, and a request for the  *)
(* refund of the first may be pending.  "resold": the same on one row,     *)
(* whose worker may be deleted while it is sold, and a service may get the *)
(* link of the next buyer.                                                 *)
InScene(o) ==
  operation[o] = None \/
    IF scene = "pair"
    THEN /\ failures = 0 /\ \A a \in Rows \ {first} : slot[a].cf = "c2"
         /\ operation[o].quantity = 2 <=> o = o1
         /\ operation[o].target # None <=> o = o2
    ELSE operation[o].quantity = 1

Resold == /\ Rows \subseteq {first}
          /\ \A s \in Services : Cardinality(given[s]) <= 2
NotResold == /\ \A a \in Rows : slot[a].status = "sold" => served[a] # 0
             /\ \A s \in Services : Cardinality(given[s]) <= 1

MCInit == Init /\ scene \in {"pair", "rivals", "resold"}
MCNext ==
  /\ Next /\ UNCHANGED scene
  /\ \A o \in Operations : InScene(o)'
  /\ request' \subseteq (IF scene = "pair" THEN {} ELSE {<<o1, 0>>})
  /\ IF scene = "resold" THEN Resold' ELSE NotResold'

MCSpec ==
  /\ MCInit /\ [][MCNext]_<<vars, scene>>
  /\ \A o \in Operations : WF_vars(Engine(o))
  /\ \A a \in Accounts : WF_vars(Expiry(a))

(* Both tokens may turn out to open one Cloudflare account.                *)
MCTokens == [a \in Accounts |-> IF a = first THEN {"c1"} ELSE {"c1", "c2"}]
=============================================================================
