---------------------------- MODULE MCManualShop ----------------------------
(* Small instances of ManualShop. *)
EXTENDS ManualShop, TLC

BothOrNone == {[coupon |-> b, points |-> b] : b \in BOOLEAN}
OnePrice == {10}
CONSTANTS o1, o2
MethodByOrder == o1 :> "manual" @@ o2 :> "zarinpal"
=============================================================================
