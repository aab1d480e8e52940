---- MODULE MCIngestion ----
EXTENDS Ingestion, TLC
CONSTANTS d1, d2, e1, e2
FreeOfCharge == {<<d2, e2>>}
Symmetry == Permutations(Workers)
====
