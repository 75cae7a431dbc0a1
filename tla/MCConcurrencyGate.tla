------------------------- MODULE MCConcurrencyGate -------------------------
(***************************************************************************)
(* TLC instance of ConcurrencyGate.  With four clients and two slots both  *)
(* slots can be held while two requests queue, and a newcomer can arrive   *)
(* while a freed slot is in the hands of a waiter that has not run yet.    *)
(* No symmetry: the run checks liveness.                                   *)
(***************************************************************************)
EXTENDS ConcurrencyGate
=============================================================================
