------------------------------- MODULE KeyValue -------------------------------
(***************************************************************************)
(* What the rest of the program relies on: a map whose entries are there   *)
(* because they were written, and go away because their key was deleted or *)
(* their time was over.  Nothing else changes what a key holds.            *)
(***************************************************************************)
EXTENDS Integers

CONSTANTS
  Keys,
  None       \* what an absent key holds, and the deadline of a lasting value

VARIABLES store, clock

Write(keys, value, deadline) ==
  /\ store' = [k \in Keys |->
                 IF k \in keys THEN [value |-> value[k], expires |-> deadline] ELSE store[k]]
  /\ UNCHANGED clock

Delete(k) ==
  /\ store' = [store EXCEPT ![k] = None]
  /\ UNCHANGED clock

Tick ==
  /\ clock' = clock + 1
  /\ store' = [k \in Keys |->
                 IF store[k] # None /\ store[k].expires # None /\ store[k].expires <= clock'
                 THEN None ELSE store[k]]

Idle == UNCHANGED <<store, clock>>
=============================================================================
