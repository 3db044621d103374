------------------------------ MODULE MCOutbox ------------------------------
(* One message of Outbox for TLC.                                          *)
EXTENDS Outbox, TLC

CONSTANTS m1, a1, k1, k2

Owner == m1 :> a1
UnitSize == m1 :> 1

KeySymmetry == Permutations(Keys)
=============================================================================
