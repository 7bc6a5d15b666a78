------------------------------ MODULE MCFunding ------------------------------
(***************************************************************************)
(* Small instances of Funding.  Each definition below is a value a .cfg    *)
(* gives to a constant.                                                    *)
(***************************************************************************)
EXTENDS Funding

CONSTANTS ali, sara

MCTerm(u, method) == [user |-> u, method |-> method, amount |-> IF u = ali THEN 10 ELSE 15]
MCCashback == [m \in Methods |-> IF m = "stars" THEN 10 ELSE 0]

(* One payment of every method, for one customer or the other.             *)
EveryTerm == {MCTerm(ali, m) : m \in Methods} \union {MCTerm(sara, m) : m \in {"stars", "crypto"}}
(* Methods the tick polls, one Telegram pushes, and one that only waits    *)
(* for its deadline.                                                       *)
LiveTerms == {MCTerm(ali, m) : m \in {"polled", "crypto", "stars", "manual"}}
=============================================================================
