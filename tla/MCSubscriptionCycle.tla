------------------------ MODULE MCSubscriptionCycle ------------------------
(* The billing cycle of a subscription at sizes TLC explores completely. *)
EXTENDS SubscriptionCycle
Plan(mode, renews, trialEnd) == [mode |-> mode, renews |-> renews, trialEnd |-> trialEnd]
TwoPlans == {Plan("pay_in_advance", TRUE, 0), Plan("pay_in_arrear", TRUE, 0)}
\* In advance, in arrears after a trial, and from the wallet without renewal.
ThreePlans == {Plan("pay_in_advance", TRUE, 0), Plan("pay_in_arrear", TRUE, 1),
               Plan("wallet_only", FALSE, 0)}
=============================================================================
