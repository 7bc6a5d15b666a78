---------------------------- MODULE MCDurableStore ----------------------------
(***************************************************************************)
(* Small instances of DurableStore.  Each definition below is a value a    *)
(* .cfg gives to a constant.                                               *)
(***************************************************************************)
EXTENDS DurableStore, TLC

CONSTANTS
  old, counter, ticket,          \* keys
  running, paused                \* values

OnePause == [v \in Values |-> IF v = running THEN paused ELSE v]

(* A running broadcast of the older version, a counter that ends at the    *)
(* first tick, and a local key that comes and goes although the old        *)
(* namespace holds it too.                                                 *)
JobAndTicket ==
  old :> [value |-> running, expires |-> None] @@ counter :> [value |-> paused, expires |-> 1]
    @@ ticket :> [value |-> running, expires |-> None]
=============================================================================
