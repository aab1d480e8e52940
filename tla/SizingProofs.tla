---------------------------- MODULE SizingProofs ----------------------------
(***************************************************************************)
(* Proofs about module ReservationSizing, for every policy.                *)
(*                                                                         *)
(* HeldCapped is not inductive: a refill is sized from what is remaining,  *)
(* and lands after other events were applied.  What a step preserves is    *)
(* FlushFits: the hold is within the cap now and will be when the pending  *)
(* flush has landed, because what is captured then leaves the hold.        *)
(***************************************************************************)
EXTENDS ReservationSizing, TLAPS

FlushFits ==
  /\ alloc - flushed <= MaxOutstanding
  /\ Pending => alloc + flush.refill <= MaxOutstanding + flushed + flush.amount
  /\ ~IsOpen => ~Pending

IInv == TypeOK /\ FlushFits

USE DEF Pending, IsOpen

LEMMA PolicyTypes ==
  /\ MaxMarginal \in Nat /\ MaxOutstanding \in Nat /\ LatencyBuffer \in Nat
  /\ RefillInterval \in Nat /\ RefillInterval # 0 /\ MaxSafe \in Nat
  /\ MaxFailures \in Nat /\ MaxTime \in Nat
  /\ AlphaBps \in Nat /\ AlphaBps <= 10000
BY PolicyAssumption

-----------------------------------------------------------------------------
(* The policy functions.                                                   *)

LEMMA LargerType ==
  ASSUME NEW a \in Int, NEW b \in Int
  PROVE  Larger(a, b) \in Int /\ Larger(a, b) >= a /\ Larger(a, b) >= b
BY DEF Larger

LEMMA LargerNat ==
  ASSUME NEW a \in Nat, NEW b \in Nat
  PROVE  Larger(a, b) \in Nat
BY DEF Larger

LEMMA LesserType ==
  ASSUME NEW a \in Int, NEW b \in Int
  PROVE  Lesser(a, b) \in Int /\ Lesser(a, b) <= a /\ Lesser(a, b) <= b
BY DEF Lesser

LEMMA LesserNat ==
  ASSUME NEW a \in Nat, NEW b \in Nat
  PROVE  Lesser(a, b) \in Nat
BY DEF Lesser

LEMMA PositiveType ==
  ASSUME NEW a \in Int
  PROVE  Positive(a) \in Nat /\ Positive(a) >= a
BY PolicyTypes DEF Positive, Larger

LEMMA CeilMulDivType ==
  ASSUME NEW a \in Nat, NEW m \in Nat, NEW d \in Nat \ {0}
  PROVE  CeilMulDiv(a, m, d) \in Nat
<1>1. a * m \in Nat
  OBVIOUS
<1>2. a * m + d - 1 \in Nat
  BY <1>1
<1>3. (a * m + d - 1) \div d \in Nat
  BY <1>2
<1>. QED
  BY <1>3, PolicyTypes DEF CeilMulDiv, Lesser

LEMMA LatencySpendType ==
  ASSUME NEW e \in Nat
  PROVE  LatencySpend(e) \in Nat
BY CeilMulDivType, PolicyTypes DEF LatencySpend

\* The first hold and every target are within the cap.
LEMMA InitialReservationCapped ==
  ASSUME NEW price \in Nat, NEW cost \in Nat
  PROVE  /\ InitialReservation(price, cost) \in Nat
         /\ InitialReservation(price, cost) <= MaxOutstanding
BY PolicyAssumption DEF InitialReservation, Lesser, Larger

LEMMA TargetType ==
  ASSUME NEW e \in Nat, NEW price \in Nat, NEW cost \in Nat, NEW highest \in Nat
  PROVE  /\ TargetFor(e, price, cost, highest) \in Nat
         /\ TargetFor(e, price, cost, highest) >= Lesser(cost, MaxOutstanding)
<1>. DEFINE lat == LatencySpend(e)
<1>1. lat \in Nat
  BY LatencySpendType
<1>. HIDE DEF lat
<1>. QED
  BY <1>1, PolicyAssumption DEF TargetFor, lat, Larger, Lesser

LEMMA VelocityType ==
  ASSUME NEW v \in SpendVelocity, NEW amount \in Nat,
         NEW at \in 0 .. MaxTime
  PROVE  Velocity(v, amount, at) \in SpendVelocity
<1>. DEFINE observed == CeilMulDiv(amount, RefillInterval, Larger(1, at - v.sampledAt))
            kept == (v.ewma * (10000 - AlphaBps)) \div 10000
<1>1. observed \in Nat
  <2>. DEFINE elapsed == Larger(1, at - v.sampledAt)
  <2>1. elapsed \in Nat \ {0}
    BY PolicyTypes DEF Larger, SpendVelocity
  <2>2. RefillInterval \in Nat
    BY PolicyTypes
  <2>. HIDE DEF elapsed
  <2>3. CeilMulDiv(amount, RefillInterval, elapsed) \in Nat
    BY <2>1, <2>2, CeilMulDivType
  <2>. QED
    BY <2>3 DEF elapsed
<1>2. CeilMulDiv(observed, AlphaBps, 10000) \in Nat
  <2>. HIDE DEF observed
  <2>1. AlphaBps \in Nat /\ 10000 \in Nat \ {0}
    BY PolicyTypes
  <2>. QED
    BY <1>1, <2>1, CeilMulDivType
<1>3. kept \in Nat
  <2>1. v.ewma \in Nat /\ 10000 - AlphaBps \in Nat
    BY PolicyTypes DEF SpendVelocity
  <2>2. v.ewma * (10000 - AlphaBps) \in Nat
    BY <2>1
  <2>. QED
    BY <2>2
<1>4. [ewma |-> IF v.ewma = 0 THEN observed
               ELSE CeilMulDiv(observed, AlphaBps, 10000) + kept,
       sampledAt |-> at] \in SpendVelocity
  <2>. HIDE DEF observed, kept
  <2>. QED
    BY <1>1, <1>2, <1>3 DEF SpendVelocity
<1>. QED
  BY <1>4 DEF Velocity

\* A refill never asks for more than the room under the cap.
LEMMA RefillsCapped ==
  ASSUME NEW left \in Nat, NEW goal \in Nat, NEW cost \in Nat
  PROVE  /\ TopUpRefill(left, goal) \in Nat
         /\ TopUpRefill(left, goal) > 0 => left + TopUpRefill(left, goal) <= MaxOutstanding
         /\ SyncGrowRefill(left, cost, goal) \in Nat
         /\ SyncGrowRefill(left, cost, goal) > 0 =>
              left + SyncGrowRefill(left, cost, goal) <= MaxOutstanding
         /\ BatchRefill(left, cost, goal) \in Nat
         /\ BatchRefill(left, cost, goal) > 0 =>
              left + BatchRefill(left, cost, goal) <= MaxOutstanding
BY PolicyTypes DEF TopUpRefill, SyncGrowRefill, BatchRefill, Positive, Larger, Lesser

\* What is asked for on growth leaves room for the event and another like it.
LEMMA GrowthCovers ==
  ASSUME NEW left \in Nat, NEW goal \in Nat, NEW cost \in Nat,
         cost > left, goal >= Lesser(cost, MaxOutstanding)
  PROVE  left + SyncGrowRefill(left, cost, goal) >= Lesser(2 * cost, MaxOutstanding)
BY PolicyTypes DEF SyncGrowRefill, Positive, Larger, Lesser

-----------------------------------------------------------------------------
(* The inductive invariant, one lemma per action.                          *)

LEMMA InitIInv == Init => IInv
BY PolicyTypes DEF Init, IInv, TypeOK, FlushFits, NoFlush, Flush, SpendVelocity

\* What a first hold and a landed flush leave held.
LEMMA FirstHold ==
  ASSUME NEW a \in Nat, NEW f \in Nat, a <= MaxOutstanding
  PROVE  a - f <= MaxOutstanding
BY PolicyTypes

LEMMA LandedHold ==
  ASSUME NEW a \in Nat, NEW g \in Nat, NEW refill \in Nat, NEW f \in Nat, NEW amount \in Nat,
         g <= refill, a + refill <= MaxOutstanding + f + amount
  PROVE  /\ a + g \in Nat /\ f + amount \in Nat
         /\ (a + g) - (f + amount) <= MaxOutstanding
BY PolicyTypes

LEMMA BootstrapIInv ==
  ASSUME IInv, NEW cost \in Costs, Bootstrap(cost)
  PROVE  IInv'
<1>. DEFINE requested == InitialReservation(Price(cost), cost)
<1>1. cost \in Nat /\ Price(cost) \in Nat
  <2>1. cost \in Int /\ cost > 0
    BY PolicyAssumption DEF Bootstrap
  <2>. QED
    BY <2>1, PolicyTypes DEF Price, Larger
<1>2. requested \in Nat /\ requested <= MaxOutstanding
  BY <1>1, InitialReservationCapped
<1>3. alloc' \in 0 .. requested /\ target' = requested
  BY DEF Bootstrap
<1>. HIDE DEF requested
<1>4. /\ alloc' \in Nat /\ alloc' <= MaxOutstanding /\ target' \in Nat
      /\ maxEvent' = cost
      /\ velocity' = [ewma |-> 0, sampledAt |-> now]
      /\ UNCHANGED <<consumed, flushed, flush, failures, now>>
      /\ status' = "open" /\ ~IsOpen
  BY <1>2, <1>3, PolicyTypes DEF Bootstrap
<1>5. velocity' \in SpendVelocity
  BY <1>4 DEF SpendVelocity, IInv, TypeOK
<1>6. TypeOK'
  BY <1>1, <1>4, <1>5 DEF IInv, TypeOK
<1>7. FlushFits'
  <2>1. ~Pending'
    BY <1>4 DEF IInv, FlushFits
  <2>2. flushed' \in Nat
    BY <1>4 DEF IInv, TypeOK
  <2>. QED
    BY <1>4, <2>1, <2>2, FirstHold DEF FlushFits
<1>. QED
  BY <1>6, <1>7 DEF IInv

\* A flush planned from books within the cap will land within the cap.
LEMMA PlanFits ==
  ASSUME NEW a \in Nat, NEW c \in Nat, NEW f \in Nat, NEW refill \in Nat,
         a - f <= MaxOutstanding,
         refill > 0 => Positive(a - c) + refill <= MaxOutstanding
  PROVE  a + refill <= MaxOutstanding + f + Positive(c - f)
BY PolicyTypes DEF Positive, Larger

\* What the books and the policy functions hold, one fact at a time.
LEMMA Books ==
  ASSUME IInv
  PROVE  /\ alloc \in Nat /\ consumed \in Nat /\ flushed \in Nat /\ target \in Nat
         /\ maxEvent \in Nat /\ now \in 0 .. MaxTime
         /\ velocity \in SpendVelocity /\ flush \in Flush
         /\ Remaining \in Nat /\ Unflushed \in Nat
<1>1. TypeOK
  BY DEF IInv
<1>2. alloc - consumed \in Int /\ consumed - flushed \in Int
  BY <1>1 DEF TypeOK
<1>3. Remaining \in Nat /\ Unflushed \in Nat
  BY <1>2, PositiveType DEF Remaining, Unflushed
<1>. QED
  BY <1>1, <1>3 DEF TypeOK

LEMMA SpendIInv ==
  ASSUME IInv, NEW cost \in Costs, Spend(cost)
  PROVE  IInv'
<1>. DEFINE charge == Positive(cost)
            unflushed == Positive(consumed' - flushed)
            left == Positive(alloc - consumed')
            topUp == TopUpRefill(left, target')
            refill == RefillAfter(left, target', velocity'.ewma, charge)
<1>1. cost \in Int /\ charge \in Nat
  <2>1. cost \in Int
    BY PolicyAssumption
  <2>. QED
    BY <2>1, PositiveType
<1>2. consumed' \in Nat
  <2>1. consumed' = consumed + EffectiveCost(cost)
    BY DEF Spend
  <2>. QED
    BY <1>1, <2>1, Books DEF EffectiveCost, Larger
<1>3. unflushed \in Nat /\ left \in Nat
  <2>1. consumed' - flushed \in Int /\ alloc - consumed' \in Int
    BY <1>2, Books
  <2>. QED
    BY <2>1, PositiveType
<1>4. velocity' \in SpendVelocity
  <2>1. velocity' = velocity \/ velocity' = Velocity(velocity, unflushed, now)
    BY DEF Spend, VelocityAfter
  <2>. HIDE DEF unflushed
  <2>. QED
    BY <1>3, <2>1, Books, VelocityType
<1>5. maxEvent' \in Nat
  <2>1. maxEvent' = Larger(maxEvent, charge)
    BY DEF Spend
  <2>. HIDE DEF charge
  <2>. QED
    BY <1>1, <2>1, Books DEF Larger
<1>6. target' \in Nat
  <2>1. target' = TargetFor(velocity'.ewma, Price(charge), charge, maxEvent')
    BY DEF Spend
  <2>. HIDE DEF charge
  <2>2. Price(charge) \in Nat /\ velocity'.ewma \in Nat
    BY <1>1, <1>4, PolicyTypes DEF Price, Larger, SpendVelocity
  <2>. QED
    BY <1>1, <1>5, <2>1, <2>2, TargetType
<1>8. refill \in Nat /\ (refill > 0 => left + refill <= MaxOutstanding)
  <2>1. refill = 0 \/ refill = topUp
    BY DEF RefillAfter
  <2>2. topUp \in Nat /\ (topUp > 0 => left + topUp <= MaxOutstanding)
    <3>. HIDE DEF left
    <3>. QED
      BY <1>3, <1>6, RefillsCapped
  <2>. HIDE DEF refill, topUp, left
  <2>. QED
    BY <1>3, <2>1, <2>2
<1>9. /\ flush' = IF Pending THEN [flush EXCEPT !.status = "in flight"]
                  ELSE IF refill > 0 THEN Planned(unflushed, refill) ELSE flush
      /\ IsOpen /\ UNCHANGED <<status, alloc, flushed, failures, now>>
  BY DEF Spend
<1>. HIDE DEF refill
<1>10. alloc + refill <= MaxOutstanding + flushed + unflushed
  BY <1>2, <1>8, Books, PlanFits DEF IInv, FlushFits
<1>. HIDE DEF unflushed, left, charge
<1>11. flush' \in Flush
  BY <1>3, <1>8, <1>9, Books DEF Flush, Planned
<1>12. TypeOK'
  BY <1>2, <1>4, <1>5, <1>6, <1>9, <1>11 DEF IInv, TypeOK
<1>13. FlushFits'
  <2>1. CASE Pending
    BY <1>9, <2>1, Books DEF IInv, FlushFits, Flush
  <2>2. CASE ~Pending /\ refill > 0
    BY <1>9, <1>10, <2>2 DEF IInv, FlushFits, Planned
  <2>3. CASE ~Pending /\ ~(refill > 0)
    BY <1>9, <2>3 DEF IInv, FlushFits
  <2>. QED
    BY <2>1, <2>2, <2>3
<1>. QED
  BY <1>12, <1>13 DEF IInv

\* What Grow computes, and that its target covers the event.
LEMMA GrowFacts ==
  ASSUME IInv, NEW cost \in Costs, Grow(cost)
  PROVE  /\ cost \in Nat
         /\ velocity' \in SpendVelocity /\ maxEvent' \in Nat /\ target' \in Nat
         /\ target' >= Lesser(cost, MaxOutstanding)
<1>1. cost \in Nat
  <2>1. cost \in Int
    BY PolicyAssumption
  <2>. QED
    BY <2>1, Books DEF Grow
<1>2. velocity' \in SpendVelocity
  <2>1. velocity' = velocity \/ velocity' = Velocity(velocity, Unflushed, now)
    BY DEF Grow
  <2>. QED
    BY <2>1, Books, VelocityType
<1>3. maxEvent' \in Nat
  BY <1>1, Books DEF Grow, Larger
<1>5. target' = TargetFor(velocity'.ewma, cost, cost, maxEvent')
  BY DEF Grow
<1>6. velocity'.ewma \in Nat
  BY <1>2 DEF SpendVelocity
<1>. QED
  BY <1>1, <1>2, <1>3, <1>5, <1>6, TargetType

\* A step that only plans a flush of what is unflushed.
LEMMA PlanIInv ==
  ASSUME IInv, NEW refill \in Nat,
         refill > 0 => Remaining + refill <= MaxOutstanding,
         IsOpen, flush' = Planned(Unflushed, refill),
         UNCHANGED <<status, alloc, consumed, flushed, failures, now>>,
         target' \in Nat, maxEvent' \in Nat,
         velocity' \in SpendVelocity
  PROVE  IInv'
<1>1. alloc + refill <= MaxOutstanding + flushed + Unflushed
  <2>1. alloc - flushed <= MaxOutstanding
    BY DEF IInv, FlushFits
  <2>. QED
    BY <2>1, Books, PlanFits DEF Remaining, Unflushed
<1>2. TypeOK'
  BY Books DEF IInv, TypeOK, Planned, Flush
<1>3. FlushFits'
  BY <1>1, Books DEF IInv, FlushFits, Planned
<1>. QED
  BY <1>2, <1>3 DEF IInv

LEMMA GrowIInv ==
  ASSUME IInv, NEW cost \in Costs, Grow(cost)
  PROVE  IInv'
<1>. DEFINE refill == SyncGrowRefill(Remaining, cost, target')
<1>1. refill \in Nat /\ (refill > 0 => Remaining + refill <= MaxOutstanding)
  BY GrowFacts, Books, RefillsCapped
<1>2. /\ flush' = Planned(Unflushed, refill) /\ IsOpen
      /\ UNCHANGED <<status, alloc, consumed, flushed, failures, now>>
  BY DEF Grow
<1>. HIDE DEF refill
<1>. QED
  BY <1>1, <1>2, GrowFacts, PlanIInv

LEMMA GrowBatchIInv ==
  ASSUME IInv, NEW headroom \in 1 .. MaxConsumed, GrowBatch(headroom)
  PROVE  IInv'
<1>. DEFINE refill == BatchRefill(Remaining, headroom, target)
<1>1. refill \in Nat /\ (refill > 0 => Remaining + refill <= MaxOutstanding)
  <2>1. headroom \in Nat
    OBVIOUS
  <2>. QED
    BY <2>1, Books, RefillsCapped
<1>2. /\ flush' = Planned(Unflushed, refill) /\ IsOpen
      /\ UNCHANGED <<status, alloc, consumed, flushed, target, maxEvent, velocity, failures, now>>
  BY DEF GrowBatch
<1>. HIDE DEF refill
<1>3. target' \in Nat /\ maxEvent' \in Nat /\ velocity' \in SpendVelocity
  BY <1>2, Books
<1>. QED
  BY <1>1, <1>2, <1>3, PlanIInv

LEMMA TimeFlushIInv ==
  ASSUME IInv, TimeFlush
  PROVE  IInv'
<1>1. velocity' \in SpendVelocity
  BY Books, VelocityType DEF TimeFlush
<1>2. /\ flush' = Planned(Unflushed, 0) /\ IsOpen
      /\ UNCHANGED <<status, alloc, consumed, flushed, target, maxEvent, failures, now>>
  BY DEF TimeFlush
<1>3. target' \in Nat /\ maxEvent' \in Nat
  BY <1>2, Books
<1>. QED
  BY <1>1, <1>2, <1>3, PlanIInv

LEMMA LandIInv ==
  ASSUME IInv, Land
  PROVE  IInv'
<1>1. PICK granted \in 0 .. flush.refill : alloc' = alloc + granted
  BY DEF Land
<1>2. /\ flush.status = "in flight" /\ flushed' = flushed + flush.amount /\ flush' = NoFlush
      /\ UNCHANGED <<status, consumed, target, maxEvent, velocity, failures, now>>
  BY DEF Land
<1>3. flush.amount \in Nat /\ flush.refill \in Nat /\ granted \in Nat /\ granted <= flush.refill
  <2>1. flush.amount \in Nat /\ flush.refill \in Nat
    BY DEF IInv, TypeOK, Flush
  <2>. QED
    BY <2>1
<1>4. /\ alloc + granted \in Nat /\ flushed + flush.amount \in Nat
      /\ (alloc + granted) - (flushed + flush.amount) <= MaxOutstanding
  <2>1. alloc + flush.refill <= MaxOutstanding + flushed + flush.amount
    BY <1>2 DEF IInv, FlushFits
  <2>. QED
    BY <1>3, <2>1, Books, LandedHold
<1>5. flush' \in Flush
  BY <1>2 DEF NoFlush, Flush
<1>6. TypeOK'
  BY <1>1, <1>2, <1>4, <1>5 DEF IInv, TypeOK
<1>7. FlushFits'
  BY <1>1, <1>2, <1>4 DEF FlushFits, NoFlush
<1>. QED
  BY <1>6, <1>7 DEF IInv

LEMMA NextIInv == IInv /\ [Next]_vars => IInv'
<1>. SUFFICES ASSUME IInv, [Next]_vars
              PROVE  IInv'
  OBVIOUS
<1>1. CASE FlushFails
  <2>1. flush' \in Flush
    BY <1>1, Books DEF FlushFails, Flush
  <2>2. failures' \in 0 .. MaxFailures
    <3>1. failures + 1 \in 0 .. MaxFailures
      <4>1. failures \in 0 .. MaxFailures /\ failures < MaxFailures
        BY <1>1 DEF FlushFails, IInv, TypeOK
      <4>2. MaxFailures \in Nat
        BY PolicyTypes
      <4>. QED
        BY <4>1, <4>2
    <3>. QED
      BY <1>1, <3>1 DEF FlushFails
  <2>3. TypeOK'
    BY <1>1, <2>1, <2>2 DEF FlushFails, IInv, TypeOK
  <2>4. FlushFits'
    BY <1>1, Books DEF FlushFails, IInv, FlushFits, Flush
  <2>. QED
    BY <2>3, <2>4 DEF IInv
<1>2. CASE Tick
  BY <1>2, PolicyTypes DEF Tick, IInv, TypeOK, FlushFits
<1>3. CASE UNCHANGED vars
  BY <1>3 DEF vars, IInv, TypeOK, FlushFits
<1>. QED
  BY <1>1, <1>2, <1>3, BootstrapIInv, SpendIInv, GrowIInv, GrowBatchIInv, TimeFlushIInv,
     LandIInv DEF Next

-----------------------------------------------------------------------------
\* The inductive invariant holds in every reachable state of the books.
THEOREM IInvHolds == Spec => []IInv
BY InitIInv, NextIInv, PTL DEF Spec

\* No event, correction, flush or refill takes a window's books out of their
\* types: consumption and what is flushed stay natural numbers.
THEOREM BooksHaveTypes == Spec => []TypeOK
<1>1. IInv => TypeOK
  BY DEF IInv
<1>. QED
  BY <1>1, IInvHolds, PTL

\* For every policy and every order of events, corrections, refills, growth and
\* time-driven flushes, the wallet never holds more for one window, uncaptured,
\* than policy.maxOutstandingAmount.
THEOREM HoldStaysCapped == Spec => []HeldCapped
<1>1. IInv => HeldCapped
  BY DEF IInv, FlushFits, HeldCapped
<1>. QED
  BY <1>1, IInvHolds, PTL

\* For every policy, computeSyncGrowRefillAmount asks for the event that did not
\* fit and for another like it, as far as the cap allows.
THEOREM GrowthLeavesRoom == Spec => GrowthLeavesRunway
<1>1. IInv /\ [Next]_vars =>
        [\A cost \in Costs :
           Grow(cost) => Remaining + flush'.refill >= Lesser(2 * cost, MaxOutstanding)]_vars
  <2>. SUFFICES ASSUME IInv, NEW cost \in Costs, Grow(cost)
                PROVE  Remaining + flush'.refill >= Lesser(2 * cost, MaxOutstanding)
    OBVIOUS
  <2>1. flush'.refill = SyncGrowRefill(Remaining, cost, target')
    BY DEF Grow, Planned
  <2>2. cost > Remaining
    BY DEF Grow
  <2>. QED
    BY <2>1, <2>2, GrowFacts, Books, GrowthCovers
<1>. QED
  BY <1>1, IInvHolds, PTL DEF Spec, GrowthLeavesRunway
=============================================================================
