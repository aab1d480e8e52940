------------------------------ MODULE Metering ------------------------------
(***************************************************************************)
(* One metered entitlement: how an event moves the meter, drains the       *)
(* grants, is priced, and what a bill later reads.                         *)
(*                                                                         *)
(* The meter (internal/services/src/entitlements/engine.ts) turns an event *)
(* into a delta.  Grants are drained by it in order of priority, each up   *)
(* to its allowance of the period, and each keeps what it has given        *)
(* (grant-consumption.ts).  The delta is priced from where the grant stood *)
(* to where it stands, by EntitlementWindowDO.ts.  One fact per grant goes *)
(* to analytics, where billing reads the usage of a period back            *)
(* (v1_get_feature_usage_no_duplicates.pipe, rating/service.ts).           *)
(*                                                                         *)
(* Time is in units a reset period has PeriodLength of; an event carries   *)
(* its own time and may come late.  Two events handled at one "now" have   *)
(* been written with the same created_at, as all events of a batch are.    *)
(***************************************************************************)
EXTENDS Pricing, Sums

CONSTANTS
    Plans,         \* records: method, price, overage, grants (in drain order)
    MaxGrants,     \* the longest list of grants of a plan
    PeriodLength,  \* length of a reset period
    Lateness,      \* LATE_EVENT_GRACE_MS
    Values,        \* what the field a meter aggregates may carry
    MaxTime,       \* bound on the clock
    MaxEvents,     \* bound on the events counted
    MaxUnits       \* bound on the units a price is given for

Grants == 1 .. MaxGrants
Times == 0 .. MaxTime
Units == 0 .. MaxUnits
Period(time) == time \div PeriodLength
Periods == {Period(t) : t \in Times}
Never == MaxTime + 1
Methods == {"count", "sum", "max", "latest"}

ASSUME ConstantsAssumption ==
    /\ MaxGrants \in Nat /\ MaxTime \in Nat /\ MaxUnits \in Nat \ {0} /\ MaxEvents \in Nat
    /\ PeriodLength \in Nat \ {0} /\ Lateness \in Nat
    /\ Values \subseteq Int

\* A price is a function from units to an amount (priceSchema has no sign), and
\* nothing costs nothing.
ASSUME PlansAssumption ==
    \A p \in Plans :
        /\ p.method \in Methods /\ p.overage \in {"none", "last-call", "always"}
        /\ p.price \in [Units -> Nat] /\ p.price[0] = 0
        /\ DOMAIN p.grants \subseteq Grants
        /\ \A g \in DOMAIN p.grants :
              /\ p.grants[g].allowance \in Nat \cup {Unlimited}
              /\ p.grants[g].from \in Times /\ p.grants[g].until \in 0 .. Never

VARIABLES
    plan,      \* the entitlement's configuration
    now,       \* the clock
    meter,     \* meter_state: whether there is a row, its value and its updatedAt
    until,     \* expiresAt of each grant, as the window keeps it
    used,      \* consumedInCurrentWindow of each grant in each period
    charged,   \* sum of the prices of what was drained, by grant and period
    corrected, \* sum of the prices of events that drained nothing
    newest,    \* of each period's facts: greatest (timestamp, created_at) and its value_after
    plain,     \* history: periods whose every event was one new positive fact, in order
    lowered,   \* history: periods with a fact that drained nothing
    sank,      \* history: the meter has stood below zero
    events     \* how many events were counted

vars == <<plan, now, meter, until, used, charged, corrected, newest, plain, lowered,
          sank, events>>

NoFact == [at |-> -1, created |-> -1, reads |-> {0}]

Init ==
    /\ plan \in Plans
    /\ now = 0
    /\ meter = [seen |-> FALSE, value |-> 0, at |-> -1]
    /\ until = [g \in Grants |-> IF g \in DOMAIN plan.grants THEN plan.grants[g].until ELSE 0]
    /\ used = [g \in Grants |-> [p \in Periods |-> 0]]
    /\ charged = [g \in Grants |-> [p \in Periods |-> 0]]
    /\ corrected = 0
    /\ newest = [p \in Periods |-> NoFact]
    /\ plain = Periods
    /\ lowered = {}
    /\ sank = FALSE
    /\ events = 0

-----------------------------------------------------------------------------
(* The meter: what an event adds to it and leaves it at.                    *)

Larger(a, b) == IF a >= b THEN a ELSE b

computePendingUpdate(time, value) ==
    LET fact(delta, after, at) == [delta |-> delta, value |-> after, at |-> at]
        moved == Larger(meter.at, time)
        highest == IF meter.seen THEN Larger(meter.value, value) ELSE value
    IN  CASE plan.method = "count" -> fact(1, meter.value + 1, moved)
          [] plan.method = "sum" -> fact(value, meter.value + value, moved)
          [] plan.method = "max" -> fact(highest - meter.value, highest, moved)
          [] plan.method = "latest" ->
                IF time < meter.at THEN fact(0, meter.value, meter.at)
                ELSE fact(value - meter.value, value, time)

-----------------------------------------------------------------------------
(* The grants.                                                              *)

allowance(g) == plan.grants[g].allowance

resolveActiveGrants(time) ==
    {g \in DOMAIN plan.grants : plan.grants[g].from <= time /\ time < until[g]}

\* firstGrantByDrainOrder: the grants of a plan are listed in that order.
IsFirst(g, active) == g \in active /\ \A h \in active : g <= h

\* What a grant can still give of the units asked for.
Room(g, p, units) ==
    IF allowance(g) = Unlimited THEN units ELSE AtLeastZero(allowance(g) - used[g][p])

resolveAvailableGrantUnits(active, p) ==
    Total([g \in active |-> AtLeastZero(allowance(g) - used[g][p])])

\* Fault: what every grant of the entitlement has left is counted, active or not.
AllGrantsCounted(active, p, delta) ==
    /\ plan.overage # "always" /\ delta > 0
    /\ \A g \in active : allowance(g) # Unlimited
    /\ LET finite == {g \in DOMAIN plan.grants : allowance(g) # Unlimited}
           available == resolveAvailableGrantUnits(finite, p)
       IN  IF plan.overage = "last-call" THEN available <= 0 ELSE delta > available

findGrantLimitExceededFact(active, p, delta) ==
    /\ plan.overage # "always" /\ delta > 0
    /\ \A g \in active : allowance(g) # Unlimited
    /\ LET available == resolveAvailableGrantUnits(active, p)
       IN  IF plan.overage = "last-call" THEN available <= 0 ELSE delta > available

\* Fault: the grants are drained from the last one.
LastGrantFirst(active, p, units, take, over) ==
    /\ \A g \in Grants \ active : take[g] = 0
    /\ \A g \in active : take[g] <= Room(g, p, units)
    /\ \A g, h \in active : g > h /\ take[h] > 0 => take[g] = Room(g, p, units)
    /\ over > 0 => \A g \in active : take[g] = Room(g, p, units)
    /\ Total(take) + over = units

\* What each grant gives when earlier ones must be empty before later ones are
\* asked, and what is left over when all of them are.
consumeGrantsByPriority(active, p, units, take, over) ==
    /\ \A g \in Grants \ active : take[g] = 0
    /\ \A g \in active : take[g] <= Room(g, p, units)
    /\ \A g, h \in active : g < h /\ take[h] > 0 => take[g] = Room(g, p, units)
    /\ over > 0 => \A g \in active : take[g] = Room(g, p, units)
    /\ Total(take) + over = units

resolveLateClosedPeriod(time) == now > (Period(time) + 1) * PeriodLength + Lateness

-----------------------------------------------------------------------------
(* What analytics is told, and what the pipe will read: value_after of the   *)
(* fact with the greatest (timestamp, created_at), any of those that tie.    *)

InOrder(row, time) == time > row.at \/ (time = row.at /\ now > row.created)

argMax(row, time, values) ==
    IF InOrder(row, time) THEN [at |-> time, created |-> now, reads |-> values]
    ELSE IF time = row.at /\ now = row.created THEN [row EXCEPT !.reads = @ \cup values]
    ELSE row

-----------------------------------------------------------------------------
(* Actions.                                                                  *)

\* Fault: the price of all the usage is charged again.
WholePrice(before, after) == plan.price[AtLeastZero(after)]
\* Fault: nothing is given back.
NeverNegative(before, after) ==
    AtLeastZero(plan.price[AtLeastZero(after)] - plan.price[AtLeastZero(before)])

computeUsagePriceDelta(before, after) ==
    plan.price[AtLeastZero(after)] - plan.price[AtLeastZero(before)]

\* Fault: a fact carries the meter's value in place of the grant's.
MeterAfter(active, p, take, over) ==
    {AtLeastZero(meter.value) + Total(take) + over}

\* value_after of the facts: where each allocation leaves its grant.
ValuesAfter(active, p, take, over) ==
    {used[g][p] + take[g] : g \in {h \in active : take[h] > 0}}
        \cup {used[g][p] + take[g] + over : g \in {h \in active : over > 0 /\ IsFirst(h, active)}}

OneFact(active, take, over) ==
    \/ over = 0 /\ \E g \in active : \A h \in active : take[h] > 0 <=> h = g
    \/ over > 0 /\ \A g \in active : take[g] = 0

\* Positive: the grants are drained.  What is left goes to the first of them, past
\* its allowance, as an allocation of its own.
priceFactsFromGrantStates(active, time, take, over) ==
    LET p == Period(time)
        after == [g \in Grants |->
                    used[g][p] + take[g] + IF IsFirst(g, active) THEN over ELSE 0]
    IN  /\ \A g \in Grants : after[g] \in Units
        /\ used' = [g \in Grants |-> [used[g] EXCEPT ![p] = after[g]]]
        /\ charged' = [g \in Grants |-> [charged[g] EXCEPT
                          ![p] = @ + computeUsagePriceDelta(used[g][p], after[g])]]
        /\ newest' = [newest EXCEPT ![p] =
                          argMax(@, time, ValuesAfter(active, p, take, over))]
        /\ plain' = IF OneFact(active, take, over) /\ InOrder(newest[p], time)
                     THEN plain ELSE plain \ {p}
        /\ UNCHANGED <<corrected, lowered>>

\* Fault: the first grant gets back what an event lowers the meter by.
GivenBack(time, fact) ==
    LET p == Period(time)
        first == CHOOSE g \in Grants : IsFirst(g, resolveActiveGrants(time))
    IN  /\ used' = [used EXCEPT ![first][p] = @ + fact.delta]
        /\ UNCHANGED <<charged, corrected, newest, plain, lowered>>

\* Zero or negative: priced on the meter's own value, and no grant gets anything back.
priceFactWithEntitlement(time, fact) ==
    LET p == Period(time)
        after == AtLeastZero(fact.value)
        before == AtLeastZero(fact.value - fact.delta)
    IN  /\ before \in Units /\ after \in Units
        /\ corrected' = corrected + computeUsagePriceDelta(before, after)
        /\ newest' = [newest EXCEPT ![p] = argMax(@, time, {after})]
        /\ plain' = plain \ {p}
        /\ lowered' = lowered \cup {p}
        /\ UNCHANGED <<used, charged>>

\* apply and applyBatch: only synchronous calls enforce the limit.  An event that
\* is refused leaves the meter and the grants as they were.
Apply(time, value, enforceLimit) ==
    LET active == resolveActiveGrants(time)
        fact == computePendingUpdate(time, value)
        p == Period(time)
    IN  /\ events < MaxEvents
        /\ time <= now
        /\ active # {}
        /\ ~resolveLateClosedPeriod(time)
        /\ ~(enforceLimit /\ findGrantLimitExceededFact(active, p, fact.delta))
        /\ fact.delta <= MaxUnits
        /\ meter' = [seen |-> TRUE, value |-> fact.value, at |-> fact.at]
        /\ \/ /\ fact.delta > 0
              /\ \E take \in [Grants -> 0 .. fact.delta], over \in 0 .. fact.delta :
                    /\ consumeGrantsByPriority(active, p, fact.delta, take, over)
                    /\ priceFactsFromGrantStates(active, time, take, over)
           \/ fact.delta <= 0 /\ priceFactWithEntitlement(time, fact)
        /\ sank' = (sank \/ fact.value < 0)
        /\ events' = events + 1
        /\ UNCHANGED <<plan, now, until>>

mergeGrantExpiry(current, incoming) == Least(current, incoming)

\* The control plane sends the grants with every call; it ends one at the time it
\* decides to, and the window takes over an expiry only if it comes earlier.
syncGrants(g) ==
    /\ g \in DOMAIN plan.grants /\ now < until[g]
    /\ until' = [until EXCEPT ![g] = mergeGrantExpiry(@, now)]
    /\ UNCHANGED <<plan, now, meter, used, charged, corrected, newest, plain, lowered,
                   sank, events>>

Tick ==
    /\ now < MaxTime
    /\ now' = now + 1
    /\ UNCHANGED <<plan, meter, until, used, charged, corrected, newest, plain, lowered,
                   sank, events>>

SyncApply == \E time \in Times, value \in Values : Apply(time, value, TRUE)
QueuedApply == \E time \in Times, value \in Values : Apply(time, value, FALSE)

Next ==
    \/ Tick
    \/ SyncApply
    \/ QueuedApply
    \/ \E g \in Grants : syncGrants(g)

Spec == Init /\ [][Next]_vars

-----------------------------------------------------------------------------
(* Correctness.                                                              *)

TypeOK ==
    /\ plan \in Plans
    /\ now \in Times
    /\ meter \in [seen : BOOLEAN, value : Int, at : Times \cup {-1}]
    /\ until \in [Grants -> 0 .. Never]
    /\ used \in [Grants -> [Periods -> Units]]
    /\ charged \in [Grants -> [Periods -> Int]]
    /\ corrected \in Int
    /\ newest \in [Periods -> [at : Times \cup {-1}, created : Times \cup {-1},
                               reads : SUBSET Units]]
    /\ plain \subseteq Periods /\ lowered \subseteq Periods
    /\ sank \in BOOLEAN
    /\ events \in 0 .. MaxEvents

PeriodUse(p) == Total([g \in Grants |-> used[g][p]])
PeriodCharge(p) == Total([g \in Grants |-> charged[g][p]])

\* An event whose limit is enforced takes no grant past its allowance, whatever
\* the events that were not limited took before and however the grants overlap.
LimitHolds ==
    [][SyncApply /\ plan.overage = "none" =>
         \A g \in DOMAIN plan.grants, p \in Periods :
            allowance(g) # Unlimited => used'[g][p] <= Larger(used[g][p], allowance(g))]_vars

\* What was charged for a grant in a period, event by event, is the price of
\* what it gave in the period.
ChargedForUse ==
    \A g \in Grants, p \in Periods : charged[g][p] = plan.price[used[g][p]]

\* Grants that any of a period falls to, and whether they all cover it whole.
Covers(g, p) ==
    plan.grants[g].from <= p * PeriodLength /\ until[g] >= (p + 1) * PeriodLength
Overlaps(g, p) ==
    plan.grants[g].from < (p + 1) * PeriodLength /\ until[g] > p * PeriodLength
Steady(p) ==
    \A g \in DOMAIN plan.grants : Overlaps(g, p) \/ used[g][p] > 0 => Covers(g, p)
\* The bill leaves out the grants that no part of the period falls to, as if they
\* had no allowance.
Rated(p) == {g \in DOMAIN plan.grants : Overlaps(g, p)}
RatedAllowances(p) == [g \in Grants |-> IF g \in Rated(p) THEN allowance(g) ELSE 0]
WithinAllowance(p) ==
    \A g \in DOMAIN plan.grants : allowance(g) # Unlimited => used[g][p] <= allowance(g)

\* The wallet's charges, made event by event on the way in, come to what the
\* rating of the whole period makes of its usage, when the grants cover the
\* period and none was overdrawn, or the only one was and had an allowance.
MeteredIsRated ==
    \A p \in Periods :
        /\ Steady(p)
        /\ WithinAllowance(p) \/ \E g \in Rated(p) : Rated(p) = {g} /\ allowance(g) # 0
        => PeriodCharge(p) =
              calculateWaterfallPrice(plan.price, RatedAllowances(p), PeriodUse(p))

\* With one price per unit, all that was charged and given back is the price of
\* what the meter stands at, over all grants and periods, while it never sank
\* below zero; after that it is never less.
LinearTracksMeter ==
    plan.price = [u \in Units |-> plan.price[1] * u] =>
        LET paid == Total([p \in Periods |-> PeriodCharge(p)]) + corrected
        IN  /\ paid >= plan.price[1] * meter.value
            /\ ~sank => paid = plan.price[1] * meter.value

\* What billing reads of a period in which nothing was lowered is never more than
\* some grant gave in it.  When every event came in order, each in an instant of
\* its own and met by one grant, it is exactly what a grant gave that gave
\* anything: all of the period's use, if no other one did.
ReadIsWithinUse ==
    \A p \in Periods \ lowered :
        \A read \in newest[p].reads :
            /\ read = 0 \/ \E g \in Grants : read <= used[g][p]
            /\ p \in plain => \/ \A g \in Grants : used[g][p] = 0
                              \/ \E g \in Grants : used[g][p] = read /\ read > 0
=============================================================================
