---------------------------- MODULE UsageCharges ----------------------------
(***************************************************************************)
(* What usage metering promises a customer, whatever happens underneath:   *)
(* priced usage accrues, and the wallet is charged for it, never for more  *)
(* than has accrued and never twice for the same usage.  A charge is not   *)
(* taken back.                                                             *)
(***************************************************************************)
EXTENDS Integers

VARIABLES
  accrued,  \* priced usage accepted so far
  charged   \* usage the wallet has moved to the consumed account

vars == <<accrued, charged>>

Init == accrued = 0 /\ charged = 0

Accrue ==
  /\ accrued' > accrued
  /\ UNCHANGED charged

Charge ==
  /\ charged' > charged
  /\ charged' <= accrued
  /\ UNCHANGED accrued

Next == Accrue \/ Charge

Spec == Init /\ [][Next]_vars
=============================================================================
