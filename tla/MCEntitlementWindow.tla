------------------------- MODULE MCEntitlementWindow -------------------------
(* The entitlement window at sizes TLC explores completely. *)
EXTENDS EntitlementWindow, TLC

CONSTANTS t1, t2

SlotSymmetry == Permutations(Slots)
=============================================================================
