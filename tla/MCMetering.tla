----------------------------- MODULE MCMetering -----------------------------
(* Metered entitlements at sizes TLC explores completely. *)
EXTENDS Metering
Grant(units, from, end) == [allowance |-> units, from |-> from, until |-> end]
Tier(first, last, unit, flat) == [first |-> first, last |-> last, unit |-> unit, flat |-> flat]
TwoTiers == <<Tier(1, 2, 3, 0), Tier(3, Unlimited, 1, 1)>>
PerUnit == [usageMode |-> "unit", price |-> 2]
PerPair == [usageMode |-> "package", price |-> 3, units |-> 2]
Volume == [usageMode |-> "tier", tierMode |-> "volume", tiers |-> TwoTiers]
Graduated == [usageMode |-> "tier", tierMode |-> "graduated", tiers |-> TwoTiers]
Plan(method, config, overage, grants) ==
    [method |-> method, overage |-> overage, grants |-> grants,
     price |-> [u \in Units |-> calculatePricePerFeature(config, u)]]
Readings == {-1, 1, 2}
Forever == MaxTime + 1
ThePlans == {
    \* Two grants for good, in tiers, with a hard limit.
    Plan("sum", Graduated, "none", <<Grant(3, 0, Forever), Grant(1, 0, Forever)>>),
    \* A grant for a trial and one from its end, with the last event let through.
    Plan("latest", Volume, "last-call", <<Grant(1, 0, 2), Grant(3, 2, Forever)>>),
    \* One grant without an end, by the unit.
    Plan("max", PerUnit, "always", <<Grant(Unlimited, 0, Forever)>>),
    \* By the pair, with a limit; a second grant that ends within a period.
    Plan("count", PerPair, "none", <<Grant(1, 0, 1), Grant(1, 0, Forever)>>),
    \* By the unit, past both allowances.
    Plan("sum", PerUnit, "always", <<Grant(1, 0, Forever), Grant(1, 0, Forever)>>),
    \* Nothing is included: all of the usage is past the allowance.
    Plan("count", PerPair, "always", <<Grant(0, 0, Forever)>>)}
=============================================================================
