-------------------------------- MODULE Sums --------------------------------
(***************************************************************************)
(* Sums of amounts: of legs, credits, recorded commands, rated usage.      *)
(***************************************************************************)
EXTENDS FiniteSetsExt

\* The sum of a function's values over its (finite) domain.
Total(f) == MapThenSumSet(LAMBDA x : f[x], DOMAIN f)
=============================================================================
