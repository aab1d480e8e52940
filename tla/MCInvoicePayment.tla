-------------------------- MODULE MCInvoicePayment --------------------------
(* One invoice at a size TLC explores completely. *)
EXTENDS InvoicePayment, TLC
CONSTANTS e1, e2
EventSymmetry == Permutations(Events)
=============================================================================
