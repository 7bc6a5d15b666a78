--------------------------- MODULE MCServiceEngine ---------------------------
(***************************************************************************)
(* Small instances of ServiceEngine.  Each definition below is a value a   *)
(* .cfg gives to a constant.                                               *)
(***************************************************************************)
EXTENDS ServiceEngine

CONSTANTS ali, sara, plus, box, o1, o2, o3, named, keyed, shelf, r1, r2, nick

(* The keyed panel is the one the named panel falls back to in an          *)
(* emergency: it sells the same plan, which is not saved with it.          *)
MCHomePanel == [p \in Plans |-> IF p = box THEN shelf ELSE named]
PlanOn(p) == IF p = shelf THEN box ELSE plus

MCOffer(u, kind, p, n, c, name) ==
  [user |-> u, kind |-> kind, plan |-> PlanOn(p), panel |-> p, quantity |-> n, coupon |-> c,
   name |-> name, amount |-> IF kind = "trial" THEN 0 ELSE IF c THEN 10 ELSE 20 * n]

MCPanelType == [p \in Panels |-> IF p = keyed THEN "keyed" ELSE IF p = shelf THEN "stock" ELSE "named"]
MCReferrer  == [u \in Users |-> IF u = sara THEN ali ELSE None]
MCRolesOf   == [u \in Users |-> IF u = sara THEN Roles ELSE {"customer"}]
MCMembers   == [u \in Users |-> {"member"}]
MCStandings == [u \in Users |-> IF u = ali THEN {"member", "banned"} ELSE {"member"}]
MCCustomers == [u \in Users |-> {"customer"}]
MCCredit    == [u \in Users |-> 10]
MCBalance   == [u \in Users |-> IF u = sara THEN 20 ELSE 50]
MCLowBalance == [u \in Users |-> IF u = sara THEN 5 ELSE 50]
MCCapacity3 == [p \in Panels |-> 3]

(* Two customers who choose the same name, a purchase of two accounts, and *)
(* renewals.                                                               *)
RemoteOffers == {MCOffer(ali, "buy", named, 1, FALSE, nick),
                 MCOffer(sara, "buy", named, 1, TRUE, nick),
                 MCOffer(ali, "buy", keyed, 2, FALSE, None),
                 MCOffer(ali, "renew", named, 1, FALSE, None)}
(* A referred customer who may be a credit agent buys, tries, or replaces  *)
(* a stock row, while the terms change and the referrer, who buys as well, *)
(* is banned and readmitted.                                               *)
TermsOffers == {MCOffer(ali, "buy", shelf, 2, TRUE, None),
                MCOffer(sara, "buy", shelf, 1, TRUE, None),
                MCOffer(sara, "renew", shelf, 1, FALSE, None),
                MCOffer(sara, "trial", shelf, 1, FALSE, None)}
PairOffers  == {MCOffer(ali, "buy", named, 2, FALSE, None)}
NoAdjustments == {}
OneAdjustment == {[id |-> 1, user |-> ali, amount |-> -45]}
AllOutcomes == {"ok", "rejected", "failed", "lost", "applied", "late"}
=============================================================================
