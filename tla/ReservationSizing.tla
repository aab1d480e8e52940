-------------------------- MODULE ReservationSizing --------------------------
(***************************************************************************)
(* How much money an entitlement window asks the wallet to hold.           *)
(*                                                                         *)
(* The policy functions of reservation-sizing.ts as operators, and the     *)
(* window's books they read and write: what the wallet allocated, what     *)
(* events consumed, what was flushed, the spend velocity and the flush in  *)
(* flight.  EntitlementWindow leaves the size of a refill open and follows *)
(* every await; this module computes it and takes a flush as two steps,    *)
(* planned and landed, with events in between.                             *)
(***************************************************************************)
EXTENDS Integers

CONSTANTS
  Costs,           \* event costs, corrections (negative) included
  MaxMarginal,     \* the highest marginal price of the feature's price config
  RefillInterval,  \* policy.targetRefillIntervalMs, in ticks
  ColdStart,       \* the cold-start amount, policy.maxColdStartAmount applied
  SoftFloor,       \* policy.softFloorAmount
  MaxOutstanding,  \* policy.maxOutstandingAmount
  ThresholdBps,    \* policy.refillThresholdBps
  LatencyBuffer,   \* policy.refillLatencyBufferMs, in ticks
  AlphaBps,        \* policy.ewmaAlphaBps
  MinAtomic,       \* policy.minAtomicAmount
  MaxSafe,         \* Number.MAX_SAFE_INTEGER
  MaxConsumed,     \* bound: what one window may consume
  MaxFailures,     \* bound: flushes the wallet refuses
  MaxTime          \* bound: the clock stops here

ASSUME PolicyAssumption ==
  /\ Costs \subseteq Int
  /\ MaxMarginal \in Nat /\ ColdStart \in Nat /\ SoftFloor \in Nat
  /\ MaxOutstanding \in Nat /\ ThresholdBps \in Nat /\ LatencyBuffer \in Nat
  /\ RefillInterval \in Nat \ {0} /\ AlphaBps \in 0 .. 10000 /\ MinAtomic \in Nat
  /\ MaxSafe \in Nat /\ MaxConsumed \in Nat
  /\ MaxFailures \in Nat /\ MaxTime \in Nat

VARIABLES
  status,    \* whether the wallet reservation has been bootstrapped
  alloc,     \* allocationAmount
  consumed,  \* consumedAmount
  flushed,   \* flushedAmount
  target,    \* targetReservationAmount
  maxEvent,  \* maxEventCostAmount
  velocity,  \* spendEwmaAmount and lastRateSampledAtMs
  flush,     \* pendingFlush* and pendingRefillAmount, and refillInFlight
  failures,  \* how many flushes failed
  now

vars ==
  <<status, alloc, consumed, flushed, target, maxEvent, velocity, flush, failures, now>>

-----------------------------------------------------------------------------
(* Integer helpers.                                                        *)

Lesser(a, b) == IF a <= b THEN a ELSE b
Larger(a, b) == IF a >= b THEN a ELSE b
Positive(a) == Larger(0, a)

\* ceil(amount * multiplier / divisor), as a safe number.
CeilMulDiv(amount, multiplier, divisor) ==
  Lesser(MaxSafe, (amount * multiplier + divisor - 1) \div divisor)

-----------------------------------------------------------------------------
(* The policy.                                                             *)

\* computeInitialReservation: the event, the cold start and the floor, within
\* the cap.  Free usage asks for nothing.
InitialReservation(price, cost) ==
  LET required == Larger(cost, Larger(ColdStart, SoftFloor))
  IN  IF cost = 0 /\ price = 0 THEN 0
      ELSE Lesser(IF required > 0 THEN Larger(required, MinAtomic) ELSE 0, MaxOutstanding)

\* updateSpendVelocity: spend per interval, smoothed after the first sample.
Velocity(v, amount, at) ==
  LET observed == CeilMulDiv(amount, RefillInterval, Larger(1, at - v.sampledAt))
  IN  [ewma |-> IF v.ewma = 0 THEN observed
                ELSE CeilMulDiv(observed, AlphaBps, 10000)
                       + (v.ewma * (10000 - AlphaBps)) \div 10000,
       sampledAt |-> at]

LatencySpend(ewma) == CeilMulDiv(ewma, LatencyBuffer, RefillInterval)

\* computeRefillDecision: the target is the velocity and a buffer, within the
\* cap; the watermark is a share of the target.
TargetFor(ewma, price, cost, highest) ==
  LET buffer == Larger(Larger(cost, highest), LatencySpend(ewma))
      useful == Larger(Larger(cost, price),
                       Larger(SoftFloor, IF cost > 0 \/ price > 0 \/ ewma > 0
                                         THEN MinAtomic ELSE 0))
  IN  Lesser(Larger(useful, ewma + buffer), MaxOutstanding)

Watermark(goal, ewma, cost) ==
  Larger((goal * ThresholdBps) \div 10000, Larger(cost, LatencySpend(ewma)))

\* Fault: the room under the cap is not looked at.
TopUpUncapped(remaining, goal) == Positive(goal)

\* computeTopUpRefillAmount
TopUpRefill(remaining, goal) ==
  Positive(Lesser(goal - remaining, MaxOutstanding - remaining))

\* Fault: growth covers the shortage only.
GrowShortage(remaining, cost, goal) ==
  Positive(Lesser(cost - remaining, MaxOutstanding - remaining))

\* computeSyncGrowRefillAmount
SyncGrowRefill(remaining, cost, goal) ==
  Positive(Lesser(Larger(Positive(cost - remaining), cost + goal - remaining),
                  Positive(MaxOutstanding - remaining)))

\* computeBatchReservationRefillAmount
BatchRefill(remaining, headroom, goal) ==
  IF remaining >= headroom THEN 0
  ELSE Positive(Lesser(Larger(headroom, goal), MaxOutstanding) - remaining)

\* Fault: a correction may undo what was captured.
EffectiveCostUnclamped(cost) == cost

\* computeEffectiveWalletCost: a correction undoes at most what is unflushed.
EffectiveCost(cost) ==
  IF cost >= 0 THEN cost ELSE Larger(flushed, consumed + cost) - consumed

-----------------------------------------------------------------------------
(* The books of one window.                                                *)

\* A flush is in flight, or failed and kept under its sequence number.
Flush == [status : {"none", "in flight", "failed"}, amount : Nat, refill : Nat]
NoFlush == [status |-> "none", amount |-> 0, refill |-> 0]
Planned(amount, refill) == [status |-> "in flight", amount |-> amount, refill |-> refill]
Pending == flush.status # "none"

SpendVelocity == [ewma : Nat, sampledAt : 0 .. MaxTime]

IsOpen == status = "open"

Remaining == Positive(alloc - consumed)
Unflushed == Positive(consumed - flushed)
Price(cost) == Larger(cost, MaxMarginal)

TypeOK ==
  /\ status \in {"none", "open"}
  /\ alloc \in Nat /\ consumed \in Nat /\ flushed \in Nat
  /\ target \in Nat /\ maxEvent \in Nat
  /\ velocity \in SpendVelocity
  /\ flush \in Flush
  /\ failures \in 0 .. MaxFailures
  /\ now \in 0 .. MaxTime

Init ==
  /\ status = "none"
  /\ alloc = 0 /\ consumed = 0 /\ flushed = 0
  /\ target = 0 /\ maxEvent = 0
  /\ velocity = [ewma |-> 0, sampledAt |-> 0]
  /\ flush = NoFlush
  /\ failures = 0
  /\ now = 0

\* bootstrapReservationForProjectedCost and persistBootstrapReservation: the
\* wallet gives what it has of what is asked for.
Bootstrap(cost) ==
  /\ ~IsOpen /\ cost > 0
  /\ LET requested == InitialReservation(Price(cost), cost)
     IN  /\ requested > 0
         /\ alloc' \in 0 .. requested
         /\ target' = requested
  /\ status' = "open"
  /\ maxEvent' = cost
  /\ velocity' = [ewma |-> 0, sampledAt |-> now]
  /\ UNCHANGED <<consumed, flushed, flush, failures, now>>

\* Whether the first decision on an event samples the velocity and decides
\* again: it wants money, and no flush is pending.
Samples(cost, spent) ==
  LET goal == TargetFor(velocity.ewma, Price(cost), cost, Larger(maxEvent, cost))
  IN  /\ Positive(alloc - spent) <= Watermark(goal, velocity.ewma, cost)
      /\ ~Pending
      /\ spent > flushed

VelocityAfter(cost, spent) ==
  IF Samples(cost, spent) THEN Velocity(velocity, Positive(spent - flushed), now)
  ELSE velocity

RefillAfter(left, goal, ewma, cost) ==
  IF left <= Watermark(goal, ewma, cost) THEN TopUpRefill(left, goal) ELSE 0

\* planWalletReservationSpend for an event that fits: consumption, velocity and
\* target are written, and a refill is planned when the remaining money is at
\* the watermark.  An event that finds a failed flush sends it again as it was.
Spend(cost) ==
  /\ IsOpen
  /\ EffectiveCost(cost) <= Remaining
  /\ consumed' = consumed + EffectiveCost(cost)
  /\ consumed' <= MaxConsumed
  /\ velocity' = VelocityAfter(Positive(cost), consumed')
  /\ maxEvent' = Larger(maxEvent, Positive(cost))
  /\ target' = TargetFor(velocity'.ewma, Price(Positive(cost)), Positive(cost), maxEvent')
  /\ LET refill == RefillAfter(Positive(alloc - consumed'), target', velocity'.ewma,
                               Positive(cost))
     IN  flush' = IF Pending THEN [flush EXCEPT !.status = "in flight"]
                  ELSE IF refill > 0 THEN Planned(Positive(consumed' - flushed), refill)
                  ELSE flush
  /\ UNCHANGED <<status, alloc, flushed, failures, now>>

\* planReservationGrowthForCurrentEvent and persistReservationGrowthIntent: an
\* event that does not fit flushes, and asks for its cost and a target's worth.
Grow(cost) ==
  /\ IsOpen /\ ~Pending
  /\ cost > Remaining
  /\ velocity' = IF Unflushed > 0 THEN Velocity(velocity, Unflushed, now) ELSE velocity
  /\ maxEvent' = Larger(maxEvent, cost)
  /\ target' = TargetFor(velocity'.ewma, cost, cost, maxEvent')
  /\ SyncGrowRefill(Remaining, cost, target') > 0
  /\ flush' = Planned(Unflushed, SyncGrowRefill(Remaining, cost, target'))
  /\ UNCHANGED <<status, alloc, consumed, flushed, failures, now>>

\* growReservationForBatchHeadroom: a batch that does not fit asks for the room
\* it needs under the target last stored; velocity and target are left alone.
GrowBatch(headroom) ==
  /\ IsOpen /\ ~Pending
  /\ headroom > Remaining
  /\ BatchRefill(Remaining, headroom, target) > 0
  /\ flush' = Planned(Unflushed, BatchRefill(Remaining, headroom, target))
  /\ UNCHANGED <<status, alloc, consumed, flushed, target, maxEvent, velocity, failures, now>>

\* triggerTimeBasedWalletFlush: the alarm captures what is unflushed and asks
\* for nothing.  It replaces the plan of a flush that failed.
TimeFlush ==
  /\ IsOpen /\ flush.status # "in flight" /\ Unflushed > 0
  /\ velocity' = Velocity(velocity, Unflushed, now)
  /\ flush' = Planned(Unflushed, 0)
  /\ UNCHANGED <<status, alloc, consumed, flushed, target, maxEvent, failures, now>>

\* finalizeSuccessfulFlushRefill: the capture is booked and what the wallet
\* granted of the refill is added to the allocation.
Land ==
  /\ flush.status = "in flight"
  /\ \E granted \in 0 .. flush.refill : alloc' = alloc + granted
  /\ flushed' = flushed + flush.amount
  /\ flush' = NoFlush
  /\ UNCHANGED <<status, consumed, target, maxEvent, velocity, failures, now>>

\* markFlushRefillWalletError: the plan stays pending for a later retry.  (The
\* constructor sends it again as it was, which is Spend's retry here.)
FlushFails ==
  /\ flush.status = "in flight" /\ failures < MaxFailures
  /\ flush' = [flush EXCEPT !.status = "failed"]
  /\ failures' = failures + 1
  /\ UNCHANGED <<status, alloc, consumed, flushed, target, maxEvent, velocity, now>>

Tick ==
  /\ now < MaxTime
  /\ now' = now + 1
  /\ UNCHANGED <<status, alloc, consumed, flushed, target, maxEvent, velocity, flush,
                 failures>>

Next ==
  \/ \E cost \in Costs : Bootstrap(cost) \/ Spend(cost) \/ Grow(cost)
  \/ \E headroom \in 1 .. MaxConsumed : GrowBatch(headroom)
  \/ TimeFlush
  \/ Land
  \/ FlushFails
  \/ Tick

Spec == Init /\ [][Next]_vars

-----------------------------------------------------------------------------
(* Properties.                                                             *)

\* What the wallet holds for a window and has not captured stays within the
\* cap, whatever events and corrections are applied between the moment a refill
\* is sized and the moment it lands.
HeldCapped == alloc - flushed <= MaxOutstanding

\* "After a synchronous ledger call, the DO should have enough runway for the
\* current event plus the normal target buffer": when growth lands in full, the
\* event it was for and another like it fit, unless the window is at its cap.
GrowthLeavesRunway ==
  [][\A cost \in Costs :
       Grow(cost) => Remaining + flush'.refill >= Lesser(2 * cost, MaxOutstanding)]_vars
=============================================================================
