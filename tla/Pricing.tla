------------------------------ MODULE Pricing ------------------------------
(***************************************************************************)
(* What a feature costs: the price of a quantity under each configuration  *)
(* (internal/db/src/validators/subscriptions/prices.ts) and the waterfall  *)
(* by which a bill spreads a period's usage over the customer's grants.    *)
(* Amounts are whole ledger units and quantities whole numbers; the texts  *)
(* the code formats beside each amount are left out.                       *)
(***************************************************************************)
EXTENDS Integers, Sequences, FiniteSetsExt

\* An allowance, or the last unit of a tier, without an end.
Unlimited == -1

Least(a, b) == IF a <= b THEN a ELSE b
AtLeastZero(n) == IF n >= 0 THEN n ELSE 0

Reaches(tier, quantity) == tier.last = Unlimited \/ quantity <= tier.last

findTierForQuantity(tiers, quantity) ==
    IF quantity < tiers[1].first THEN tiers[1]
    ELSE tiers[CHOOSE i \in DOMAIN tiers :
                   quantity >= tiers[i].first /\ Reaches(tiers[i], quantity)]

\* Units of a quantity that fall into one tier; tiers follow on from each other.
UnitsIn(tiers, i, quantity) ==
    LET left == AtLeastZero(quantity - (tiers[i].first - tiers[1].first))
    IN  IF tiers[i].last = Unlimited THEN left
        ELSE Least(left, tiers[i].last - tiers[i].first + 1)

\* Every unit at the price of the tier the quantity falls into.
VolumePrice(tiers, quantity) ==
    LET tier == findTierForQuantity(tiers, quantity)
    IN  quantity * tier.unit + tier.flat

\* Each unit at its own tier's price, and the flat price of the last tier once.
GraduatedPrice(tiers, quantity) ==
    LET inTier(i) == tiers[i].unit * UnitsIn(tiers, i, quantity)
    IN  MapThenSumSet(inTier, DOMAIN tiers) + findTierForQuantity(tiers, quantity).flat

calculateTierPrice(config, quantity) ==
    IF quantity = 0 THEN 0
    ELSE IF config.tierMode = "volume" THEN VolumePrice(config.tiers, quantity)
    ELSE GraduatedPrice(config.tiers, quantity)

calculatePackagePrice(config, quantity) ==
    config.price * ((quantity + config.units - 1) \div config.units)

calculatePricePerFeature(config, quantity) ==
    CASE config.usageMode = "unit" -> config.price * quantity
      [] config.usageMode = "package" -> calculatePackagePrice(config, quantity)
      [] config.usageMode = "tier" -> calculateTierPrice(config, quantity)

(***************************************************************************)
(* The price of a period's usage.  Grants, in order of priority, take up   *)
(* to their allowance each; what is left goes on where the last of them    *)
(* stopped, and costs nothing when there was none.                         *)
(***************************************************************************)
ofGrant(price, sofar, allowance) ==
    LET quantity == IF allowance = Unlimited THEN sofar.left
                    ELSE Least(sofar.left, allowance)
    IN  IF quantity <= 0 THEN sofar
        ELSE [left |-> sofar.left - quantity, last |-> quantity,
              total |-> sofar.total + price[quantity]]

calculateWaterfallPrice(price, allowances, usage) ==
    LET after[i \in 0 .. Len(allowances)] ==
            IF i = 0 THEN [left |-> usage, last |-> 0, total |-> 0]
            ELSE ofGrant(price, after[i - 1], allowances[i])
        end == after[Len(allowances)]
    IN  IF end.left > 0 /\ end.last > 0
        THEN end.total + price[end.last + end.left] - price[end.last]
        ELSE end.total
=============================================================================
