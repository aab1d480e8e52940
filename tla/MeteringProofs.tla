--------------------------- MODULE MeteringProofs ---------------------------
(***************************************************************************)
(* Proofs about module Metering, for every plan.  What a grant was charged *)
(* for telescopes event by event; what billing reads follows the grant     *)
(* that gave last; and with one price per unit all that was charged and    *)
(* given back, summed over grants and periods, is the price of the meter.  *)
(* What a period was charged is what the waterfall of its bill makes of    *)
(* its use: the grants were drained in the order the waterfall fills them. *)
(* An enforced limit leaves nothing over the allowances of the grants.     *)
(***************************************************************************)
EXTENDS Metering, SumTheorems, TLAPS

IInv == TypeOK /\ ChargedForUse /\ ReadIsWithinUse

LEMMA Constants ==
  /\ MaxGrants \in Nat /\ MaxTime \in Nat /\ MaxUnits \in Nat /\ MaxEvents \in Nat
  /\ PeriodLength \in Nat \ {0} /\ Values \subseteq Int
BY ConstantsAssumption

LEMMA PlanTypes ==
  ASSUME plan \in Plans
  PROVE  /\ plan.method \in Methods
         /\ plan.price \in [Units -> Int] /\ plan.price[0] = 0
         /\ DOMAIN plan.grants \subseteq Grants
         /\ \A g \in DOMAIN plan.grants : plan.grants[g].until \in 0 .. Never
BY PlansAssumption

LEMMA PeriodOfTime == ASSUME NEW t \in Times PROVE Period(t) \in Periods
BY DEF Periods

-----------------------------------------------------------------------------
(* The operators.                                                          *)

\* The meter moves to a number, at a time no earlier than the last.
LEMMA UpdateType ==
  ASSUME TypeOK, NEW time \in Times, NEW value \in Values
  PROVE  LET fact == computePendingUpdate(time, value) IN
         fact.delta \in Int /\ fact.value \in Int /\ fact.at \in Times \cup {-1}
<1>1. plan.method \in Methods
  BY PlanTypes DEF TypeOK
<1>2. value \in Int /\ meter.value \in Int /\ meter.at \in Times \cup {-1} /\ meter.seen \in BOOLEAN
  BY Constants DEF TypeOK
<1>3. Larger(meter.at, time) \in Times \cup {-1} /\ Larger(meter.value, value) \in Int
  BY <1>2 DEF Larger
<1>. QED
  BY <1>1, <1>2, <1>3 DEF computePendingUpdate, Methods

\* The price of going from one quantity to another and on to a third is the price
\* of going there at once.
LEMMA DeltasAddUp ==
  ASSUME plan \in Plans, NEW before \in Units, NEW after \in Units
  PROVE  /\ computeUsagePriceDelta(before, after) \in Int
         /\ plan.price[before] + computeUsagePriceDelta(before, after) = plan.price[after]
<1>1. AtLeastZero(before) = before /\ AtLeastZero(after) = after
  BY Constants DEF AtLeastZero, Units
<1>2. plan.price[before] \in Int /\ plan.price[after] \in Int
  BY PlanTypes
<1>. QED
  BY <1>1, <1>2 DEF computeUsagePriceDelta

\* The row of a period's newest fact keeps its type; its readings are old or new.
LEMMA ArgMaxType ==
  ASSUME NEW row \in [at : Times \cup {-1}, created : Times \cup {-1}, reads : SUBSET Units],
         NEW time \in Times, NEW values \in SUBSET Units, now \in Times
  PROVE  /\ argMax(row, time, values)
              \in [at : Times \cup {-1}, created : Times \cup {-1}, reads : SUBSET Units]
         /\ argMax(row, time, values).reads \subseteq row.reads \cup values
         /\ InOrder(row, time) => argMax(row, time, values).reads = values
BY DEF argMax

-----------------------------------------------------------------------------
(* The steps.                                                              *)

LEMMA InitHolds == Init => IInv
<1>. SUFFICES ASSUME Init PROVE IInv
  OBVIOUS
<1>. USE Constants
<1>1. plan \in Plans /\ plan.price[0] = 0
  BY PlanTypes DEF Init
<1>2. until \in [Grants -> 0 .. Never]
  BY <1>1, PlanTypes DEF Init, Never
<1>3. 0 \in Units /\ 0 \in Times /\ 0 \in 0 .. MaxEvents
  BY DEF Units, Times
<1>4. newest \in [Periods -> [at : Times \cup {-1}, created : Times \cup {-1},
                              reads : SUBSET Units]]
  BY <1>3 DEF Init, NoFact
<1>5. TypeOK
  <2>1. used \in [Grants -> [Periods -> Units]] /\ charged \in [Grants -> [Periods -> Int]]
    BY <1>3 DEF Init
  <2>2. meter \in [seen : BOOLEAN, value : Int, at : Times \cup {-1}]
    BY DEF Init
  <2>3. now \in Times /\ corrected \in Int /\ events \in 0 .. MaxEvents
    BY <1>3 DEF Init
  <2>4. plain \subseteq Periods /\ lowered \subseteq Periods /\ sank \in BOOLEAN
    BY DEF Init
  <2>. QED
    BY <1>1, <1>2, <1>4, <2>1, <2>2, <2>3, <2>4 DEF TypeOK
<1>6. ChargedForUse
  BY <1>1 DEF Init, ChargedForUse
<1>7. ReadIsWithinUse
  BY DEF Init, ReadIsWithinUse, NoFact
<1>. QED
  BY <1>5, <1>6, <1>7 DEF IInv

\* What holds of the usage and of what billing reads after the grants were drained.
LEMMA DrainHolds ==
  ASSUME IInv, NEW active \in SUBSET Grants, NEW time \in Times,
         NEW take \in [Grants -> Nat], NEW over \in Nat,
         \A g \in Grants \ active : take[g] = 0,
         priceFactsFromGrantStates(active, time, take, over), UNCHANGED plan
  PROVE  /\ used' \in [Grants -> [Periods -> Units]]
         /\ charged' \in [Grants -> [Periods -> Int]]
         /\ newest' \in [Periods -> [at : Times \cup {-1}, created : Times \cup {-1},
                                     reads : SUBSET Units]]
         /\ plain' \subseteq Periods /\ lowered' \subseteq Periods /\ corrected' \in Int
         /\ ChargedForUse' /\ ReadIsWithinUse'
<1>. DEFINE p == Period(time)
            Row == [at : Times \cup {-1}, created : Times \cup {-1}, reads : SUBSET Units]
            after == [g \in Grants |-> used[g][p] + take[g] + IF IsFirst(g, active) THEN over ELSE 0]
            values == ValuesAfter(active, p, take, over)
<1>1. /\ plan \in Plans /\ now \in Times /\ p \in Periods
      /\ used \in [Grants -> [Periods -> Units]] /\ charged \in [Grants -> [Periods -> Int]]
      /\ newest \in [Periods -> Row] /\ plain \subseteq Periods /\ lowered \subseteq Periods
      /\ corrected \in Int
  BY PeriodOfTime DEF IInv, TypeOK
<1>2. /\ \A g \in Grants : after[g] \in Units
      /\ used' = [g \in Grants |-> [used[g] EXCEPT ![p] = after[g]]]
      /\ charged' = [g \in Grants |-> [charged[g] EXCEPT
                        ![p] = @ + computeUsagePriceDelta(used[g][p], after[g])]]
      /\ newest' = [newest EXCEPT ![p] = argMax(@, time, values)]
      /\ plain' = IF OneFact(active, take, over) /\ InOrder(newest[p], time)
                  THEN plain ELSE plain \ {p}
      /\ corrected' = corrected /\ lowered' = lowered
  BY DEF priceFactsFromGrantStates
<1>. HIDE DEF values
<1>3. used' \in [Grants -> [Periods -> Units]]
  <2>. SUFFICES ASSUME NEW g \in Grants PROVE [used[g] EXCEPT ![p] = after[g]] \in [Periods -> Units]
    BY <1>2
  <2>. QED
    BY <1>1, <1>2
<1>4. \A g \in Grants, q \in Periods :
         /\ used'[g][q] = IF q = p THEN after[g] ELSE used[g][q]
         /\ charged'[g][q] = IF q = p
                             THEN charged[g][p] + computeUsagePriceDelta(used[g][p], after[g])
                             ELSE charged[g][q]
  BY <1>1, <1>2
<1>5. \A g \in Grants :
         charged[g][p] + computeUsagePriceDelta(used[g][p], after[g]) = plan.price[after[g]]
  <2>. TAKE g \in Grants
  <2>1. charged[g][p] = plan.price[used[g][p]]
    BY <1>1 DEF IInv, ChargedForUse
  <2>2. used[g][p] \in Units /\ after[g] \in Units
    BY <1>1, <1>2
  <2>. QED
    BY <1>1, <2>1, <2>2, DeltasAddUp
<1>6. ChargedForUse'
  <2>. SUFFICES ASSUME NEW g \in Grants, NEW q \in Periods
                PROVE  charged'[g][q] = plan.price[used'[g][q]]
    BY DEF ChargedForUse
  <2>1. charged[g][q] = plan.price[used[g][q]]
    BY DEF IInv, ChargedForUse
  <2>. QED
    BY <1>4, <1>5, <2>1
<1>7. charged' \in [Grants -> [Periods -> Int]]
  <2>. SUFFICES ASSUME NEW g \in Grants
                PROVE  [charged[g] EXCEPT ![p] = @ + computeUsagePriceDelta(used[g][p], after[g])]
                          \in [Periods -> Int]
    BY <1>2
  <2>1. plan.price[after[g]] \in Int
    BY <1>1, <1>2, PlanTypes
  <2>. QED
    BY <1>1, <1>5, <2>1
<1>8. \A v \in values : \E g \in active : v \in Units /\ v <= after[g] /\ used[g][p] <= v
  <2>. SUFFICES ASSUME NEW v \in values
                PROVE  \E g \in active : v \in Units /\ v <= after[g] /\ used[g][p] <= v
    OBVIOUS
  <2>1. \A g \in Grants : used[g][p] \in Units /\ after[g] \in Units /\ take[g] \in Nat
    BY <1>1, <1>2
  <2>2. CASE \E g \in active : v = used[g][p] + take[g]
    BY <2>1, <2>2, Constants DEF Units
  <2>3. CASE \E g \in active : IsFirst(g, active) /\ v = used[g][p] + take[g] + over
    BY <2>1, <2>3, Constants DEF Units
  <2>. QED
    BY <2>2, <2>3 DEF values, ValuesAfter
<1>9. values \in SUBSET Units
  BY <1>8
<1>10. /\ argMax(newest[p], time, values) \in Row
       /\ argMax(newest[p], time, values).reads \subseteq newest[p].reads \cup values
       /\ InOrder(newest[p], time) => argMax(newest[p], time, values).reads = values
  BY <1>1, <1>9, ArgMaxType
<1>11. newest' \in [Periods -> Row]
  BY <1>1, <1>2, <1>10
<1>12. ReadIsWithinUse'
  <2>. SUFFICES ASSUME NEW q \in Periods \ lowered, NEW read \in newest'[q].reads
                PROVE  /\ read = 0 \/ \E g \in Grants : read <= used'[g][q]
                       /\ q \in plain' => \/ \A g \in Grants : used'[g][q] = 0
                                          \/ \E g \in Grants : used'[g][q] = read /\ read > 0
    BY <1>2 DEF ReadIsWithinUse
  <2>1. CASE q # p
    <3>1. newest'[q] = newest[q] /\ \A g \in Grants : used'[g][q] = used[g][q]
      BY <1>1, <1>2, <1>4, <2>1
    <3>2. q \in plain' => q \in plain
      BY <1>2
    <3>. QED
      BY <3>1, <3>2 DEF IInv, ReadIsWithinUse
  <2>2. CASE q = p
    <3>1. newest'[q].reads = argMax(newest[p], time, values).reads
      BY <1>1, <1>2, <2>2
    <3>2. \A g \in Grants : used'[g][p] = after[g] /\ used[g][p] \in Units /\ after[g] \in Units
                            /\ used[g][p] <= after[g]
      BY <1>1, <1>2, <1>4, Constants DEF Units
    <3>3. read \in Units
      BY <1>10, <3>1
    <3>4. read = 0 \/ \E g \in Grants : read <= used'[g][p]
      <4>1. CASE read \in values
        BY <1>8, <3>2, <4>1
      <4>2. CASE read \in newest[p].reads
        <5>1. read = 0 \/ \E g \in Grants : read <= used[g][p]
          BY <2>2, <4>2 DEF IInv, ReadIsWithinUse
        <5>. QED
          BY <5>1, <3>2, <3>3 DEF Units
      <4>. QED
        BY <1>10, <3>1, <4>1, <4>2
    <3>5. ASSUME p \in plain'
          PROVE  \E g \in Grants : used'[g][p] = read /\ read > 0
      <4>1. OneFact(active, take, over) /\ read \in values
        BY <1>2, <1>10, <3>1, <3>5
      <4>2. CASE over = 0 /\ \E g \in active : \A h \in active : take[h] > 0 <=> h = g
        <5>1. PICK g \in active : \A h \in active : take[h] > 0 <=> h = g
          BY <4>2
        <5>2. read = used[g][p] + take[g] /\ take[g] > 0
          BY <4>1, <4>2, <5>1 DEF values, ValuesAfter
        <5>3. after[g] = read
          BY <1>1, <4>2, <5>2, Constants DEF Units
        <5>. QED
          BY <3>2, <5>2, <5>3, Constants DEF Units
      <4>3. CASE over > 0 /\ \A g \in active : take[g] = 0
        <5>1. PICK g \in active : IsFirst(g, active) /\ read = used[g][p] + take[g] + over
          BY <4>1, <4>3 DEF values, ValuesAfter
        <5>2. after[g] = read
          BY <5>1
        <5>. QED
          BY <3>2, <4>3, <5>1, <5>2, Constants DEF Units
      <4>. QED
        BY <4>1, <4>2, <4>3 DEF OneFact
    <3>. QED
      BY <2>2, <3>4, <3>5
  <2>. QED
    BY <2>1, <2>2
<1>13. plain' \subseteq Periods /\ lowered' \subseteq Periods /\ corrected' \in Int
  BY <1>1, <1>2
<1>. QED
  BY <1>3, <1>6, <1>7, <1>11, <1>12, <1>13

\* What holds of them after an event that lowered the meter or left it where it was.
LEMMA CorrectionHolds ==
  ASSUME IInv, NEW time \in Times, NEW fact, fact.value \in Int, fact.delta \in Int,
         priceFactWithEntitlement(time, fact), UNCHANGED plan
  PROVE  /\ used' \in [Grants -> [Periods -> Units]]
         /\ charged' \in [Grants -> [Periods -> Int]]
         /\ newest' \in [Periods -> [at : Times \cup {-1}, created : Times \cup {-1},
                                     reads : SUBSET Units]]
         /\ plain' \subseteq Periods /\ lowered' \subseteq Periods /\ corrected' \in Int
         /\ ChargedForUse' /\ ReadIsWithinUse'
<1>. DEFINE p == Period(time)
            after == AtLeastZero(fact.value)
            before == AtLeastZero(fact.value - fact.delta)
            Row == [at : Times \cup {-1}, created : Times \cup {-1}, reads : SUBSET Units]
<1>1. /\ plan \in Plans /\ now \in Times /\ p \in Periods
      /\ used \in [Grants -> [Periods -> Units]] /\ charged \in [Grants -> [Periods -> Int]]
      /\ newest \in [Periods -> Row] /\ plain \subseteq Periods /\ lowered \subseteq Periods
      /\ corrected \in Int
  BY PeriodOfTime DEF IInv, TypeOK
<1>2. /\ before \in Units /\ after \in Units
      /\ corrected' = corrected + computeUsagePriceDelta(before, after)
      /\ newest' = [newest EXCEPT ![p] = argMax(@, time, {after})]
      /\ plain' = plain \ {p} /\ lowered' = lowered \cup {p}
      /\ used' = used /\ charged' = charged
  BY DEF priceFactWithEntitlement
<1>3. corrected' \in Int
  BY <1>1, <1>2, DeltasAddUp
<1>4. newest' \in [Periods -> Row]
  <2>1. argMax(newest[p], time, {after}) \in Row
    BY <1>1, <1>2, ArgMaxType
  <2>. QED
    BY <1>1, <1>2, <2>1
<1>5. ChargedForUse'
  BY <1>2 DEF IInv, ChargedForUse
<1>6. ReadIsWithinUse'
  <2>. SUFFICES ASSUME NEW q \in Periods \ (lowered \cup {p}), NEW read \in newest'[q].reads
                PROVE  /\ read = 0 \/ \E g \in Grants : read <= used[g][q]
                       /\ q \in plain => \/ \A g \in Grants : used[g][q] = 0
                                         \/ \E g \in Grants : used[g][q] = read /\ read > 0
    BY <1>2 DEF ReadIsWithinUse
  <2>1. newest'[q] = newest[q]
    BY <1>1, <1>2
  <2>. QED
    BY <2>1 DEF IInv, ReadIsWithinUse
<1>. QED
  BY <1>1, <1>2, <1>3, <1>4, <1>5, <1>6

LEMMA ApplyHolds ==
  ASSUME IInv, NEW time \in Times, NEW value \in Values, NEW enforceLimit \in BOOLEAN,
         Apply(time, value, enforceLimit)
  PROVE  IInv'
<1>. DEFINE active == resolveActiveGrants(time)
            fact == computePendingUpdate(time, value)
<1>1. fact.delta \in Int /\ fact.value \in Int /\ fact.at \in Times \cup {-1}
  BY UpdateType DEF IInv
<1>. HIDE DEF fact
<1>2. active \in SUBSET Grants /\ active # {}
  BY PlanTypes DEF Apply, resolveActiveGrants, IInv, TypeOK
<1>. HIDE DEF active
<1>3. /\ used' \in [Grants -> [Periods -> Units]]
      /\ charged' \in [Grants -> [Periods -> Int]]
      /\ newest' \in [Periods -> [at : Times \cup {-1}, created : Times \cup {-1},
                                  reads : SUBSET Units]]
      /\ plain' \subseteq Periods /\ lowered' \subseteq Periods /\ corrected' \in Int
      /\ ChargedForUse' /\ ReadIsWithinUse'
  <2>1. CASE /\ fact.delta > 0
             /\ \E take \in [Grants -> 0 .. fact.delta], over \in 0 .. fact.delta :
                   /\ consumeGrantsByPriority(active, Period(time), fact.delta, take, over)
                   /\ priceFactsFromGrantStates(active, time, take, over)
    <3>1. PICK take \in [Grants -> 0 .. fact.delta], over \in 0 .. fact.delta :
             /\ consumeGrantsByPriority(active, Period(time), fact.delta, take, over)
             /\ priceFactsFromGrantStates(active, time, take, over)
      BY <2>1
    <3>2. take \in [Grants -> Nat] /\ over \in Nat
      BY <1>1
    <3>3. \A g \in Grants \ active : take[g] = 0
      BY <3>1 DEF consumeGrantsByPriority
    <3>4. UNCHANGED plan
      BY DEF Apply
    <3>. QED
      BY <1>2, <3>1, <3>2, <3>3, <3>4, DrainHolds
  <2>2. CASE fact.delta <= 0 /\ priceFactWithEntitlement(time, fact)
    BY <1>1, <2>2, CorrectionHolds DEF Apply
  <2>. QED
    BY <2>1, <2>2 DEF Apply, active, fact
<1>4. /\ meter' = [seen |-> TRUE, value |-> fact.value, at |-> fact.at]
      /\ sank' = (sank \/ fact.value < 0) /\ events' = events + 1 /\ events < MaxEvents
      /\ UNCHANGED <<plan, now, until>>
  BY DEF Apply, fact
<1>5. meter' \in [seen : BOOLEAN, value : Int, at : Times \cup {-1}]
  BY <1>1, <1>4
<1>6. sank' \in BOOLEAN
  BY <1>4 DEF IInv, TypeOK
<1>7. events' \in 0 .. MaxEvents
  BY <1>4, Constants DEF IInv, TypeOK
<1>8. TypeOK'
  BY <1>3, <1>4, <1>5, <1>6, <1>7 DEF IInv, TypeOK
<1>. QED
  BY <1>3, <1>8 DEF IInv

LEMMA NextHolds == IInv /\ [Next]_vars => IInv'
<1>. SUFFICES ASSUME IInv, [Next]_vars PROVE IInv'
  OBVIOUS
<1>1. CASE Tick
  <2>1. now' \in Times
    BY <1>1, Constants DEF Tick, IInv, TypeOK, Times
  <2>2. UNCHANGED <<plan, meter, until, used, charged, corrected, newest, plain, lowered,
                    sank, events>>
    BY <1>1 DEF Tick
  <2>3. TypeOK'
    BY <2>1, <2>2 DEF IInv, TypeOK
  <2>4. ChargedForUse' /\ ReadIsWithinUse'
    BY <2>2 DEF IInv, ChargedForUse, ReadIsWithinUse
  <2>. QED
    BY <2>3, <2>4 DEF IInv
<1>2. CASE SyncApply \/ QueuedApply
  BY <1>2, ApplyHolds DEF SyncApply, QueuedApply
<1>3. ASSUME NEW g \in Grants, syncGrants(g)
      PROVE  IInv'
  <2>1. UNCHANGED <<plan, now, meter, used, charged, corrected, newest, plain, lowered,
                    sank, events>>
    BY <1>3 DEF syncGrants
  <2>2. mergeGrantExpiry(until[g], now) \in 0 .. Never
    BY Constants DEF mergeGrantExpiry, Least, IInv, TypeOK, Never, Times
  <2>3. until' \in [Grants -> 0 .. Never]
    BY <1>3, <2>2 DEF syncGrants, IInv, TypeOK
  <2>4. TypeOK'
    BY <2>1, <2>3 DEF IInv, TypeOK
  <2>5. ChargedForUse' /\ ReadIsWithinUse'
    BY <2>1 DEF IInv, ChargedForUse, ReadIsWithinUse
  <2>. QED
    BY <2>4, <2>5 DEF IInv
<1>4. CASE UNCHANGED vars
  BY <1>4 DEF vars, IInv, TypeOK, ChargedForUse, ReadIsWithinUse
<1>. QED
  BY <1>1, <1>2, <1>3, <1>4 DEF Next

-----------------------------------------------------------------------------
(* What was charged and given back, and what the meter stands at.          *)

LEMMA AllFinite == IsFiniteSet(Grants) /\ IsFiniteSet(Periods)
<1>1. IsFiniteSet(Grants) /\ IsFiniteSet(Times)
  BY Constants, FS_Interval DEF Grants, Times
<1>. DEFINE f == [t \in Times |-> Period(t)]
<1>2. f \in Surjection(Times, Periods)
  BY DEF Surjection, Periods
<1>. QED
  BY <1>1, <1>2, FS_Surjection

\* An event moves the meter by its delta.
LEMMA UpdateAdds ==
  ASSUME TypeOK, NEW time \in Times, NEW value \in Values
  PROVE  LET fact == computePendingUpdate(time, value) IN
         fact.value = meter.value + fact.delta
<1>1. plan.method \in Methods
  BY PlanTypes DEF TypeOK
<1>2. value \in Int /\ meter.value \in Int /\ Larger(meter.value, value) \in Int
  BY Constants DEF TypeOK, Larger
<1>. QED
  BY <1>1, <1>2 DEF computePendingUpdate, Methods

LEMMA SomeIsFirst ==
  ASSUME NEW active \in SUBSET Grants, active # {}
  PROVE  \E g \in active : IsFirst(g, active)
<1>. DEFINE G == {T \in SUBSET active : T = {} \/ \E g \in T : IsFirst(g, T)}
<1>1. IsFiniteSet(active)
  BY AllFinite, FS_Subset
<1>2. ASSUME NEW T \in SUBSET active, \A U \in SUBSET T : U # T => U \in G
      PROVE  T \in G
  <2>1. CASE T = {}
    BY <2>1
  <2>2. CASE T # {}
    <3>1. PICK x \in T : TRUE
      BY <2>2
    <3>2. T \ {x} \in G
      <4>1. T \ {x} \in SUBSET T /\ T \ {x} # T
        BY <3>1
      <4>. QED
        BY <1>2, <4>1
    <3>3. \A g \in T : g \in Int
      BY Constants DEF Grants
    <3>4. CASE T \ {x} = {}
      <4>1. \A h \in T : h = x
        BY <3>4
      <4>. QED
        BY <3>1, <3>3, <4>1 DEF IsFirst
    <3>5. CASE \E g \in T \ {x} : IsFirst(g, T \ {x})
      <4>1. PICK g \in T \ {x} : \A h \in T \ {x} : g <= h
        BY <3>5 DEF IsFirst
      <4>2. (\A h \in T : g <= h) \/ (\A h \in T : x <= h)
        BY <3>1, <3>3, <4>1
      <4>. QED
        BY <3>1, <4>1, <4>2 DEF IsFirst
    <3>. QED
      BY <3>2, <3>4, <3>5
  <2>. QED
    BY <2>1, <2>2
<1>3. active \in G
  <2>. HIDE DEF G
  <2>. QED
    BY <1>1, <1>2, SubsetInduction
<1>. QED
  BY <1>3

Given(g, active, take, over) == take[g] + IF IsFirst(g, active) THEN over ELSE 0

\* What the grants are given is what the event came to.
LEMMA GivenAddsUp ==
  ASSUME NEW active \in SUBSET Grants, active # {}, NEW take \in [Grants -> Nat], NEW over \in Nat
  PROVE  Total([g \in Grants |-> Given(g, active, take, over)]) = Total(take) + over
<1>. DEFINE rest == [g \in Grants |-> IF IsFirst(g, active) THEN over ELSE 0]
            given == [g \in Grants |-> Given(g, active, take, over)]
<1>1. PICK first \in active : IsFirst(first, active)
  BY SomeIsFirst
<1>2. \A g \in Grants \ {first} : ~IsFirst(g, active)
  BY <1>1, Constants DEF IsFirst, Grants
<1>3. /\ rest \in [Grants -> Int] /\ rest[first] = over
      /\ \A g \in Grants \ {first} : rest[g] = 0
  BY <1>1, <1>2
<1>4. /\ given \in [Grants -> Int] /\ take \in [Grants -> Int]
      /\ \A g \in Grants : given[g] = take[g] + rest[g]
  BY DEF Given
<1>. HIDE DEF rest, given
<1>5. Total(rest) = over
  BY <1>1, <1>3, AllFinite, SumSingle
<1>6. Total(given) = Total(take) + Total(rest)
  <2>1. IsFiniteSet(Grants)
    BY AllFinite
  <2>. QED
    BY <1>3, <1>4, <2>1, SumAdd
<1>. QED
  BY <1>5, <1>6 DEF given

Linear == plan.price = [u \in Units |-> plan.price[1] * u]
Paid == Total([p \in Periods |-> PeriodCharge(p)]) + corrected

LEMMA LinearPrice ==
  ASSUME plan \in Plans, Linear
  PROVE  plan.price[1] \in Nat /\ \A u \in Units : plan.price[u] = plan.price[1] * u
<1>1. plan.price \in [Units -> Nat] /\ 1 \in Units
  BY PlansAssumption, ConstantsAssumption DEF Units
<1>. QED
  BY <1>1 DEF Linear

LEMMA Grows ==
  ASSUME NEW c \in Nat, NEW a \in Int, NEW b \in Int, a <= b
  PROVE  c * a <= c * b
<1>1. c * (b - a) >= 0
  OBVIOUS
<1>2. c * (b - a) = c * b - c * a
  OBVIOUS
<1>3. c * a \in Int /\ c * b \in Int
  OBVIOUS
<1>. QED
  BY <1>1, <1>2, <1>3

LEMMA PaidTypes ==
  ASSUME TypeOK
  PROVE  /\ \A p \in Periods : PeriodCharge(p) \in Int
         /\ [p \in Periods |-> PeriodCharge(p)] \in [Periods -> Int]
         /\ Paid \in Int
<1>1. ASSUME NEW p \in Periods PROVE PeriodCharge(p) \in Int
  <2>1. [g \in Grants |-> charged[g][p]] \in [Grants -> Int]
    BY DEF TypeOK
  <2>. QED
    BY <2>1, AllFinite, SumInt DEF PeriodCharge
<1>2. [p \in Periods |-> PeriodCharge(p)] \in [Periods -> Int]
  BY <1>1
<1>3. Total([p \in Periods |-> PeriodCharge(p)]) \in Int
  BY <1>2, AllFinite, SumInt
<1>. QED
  BY <1>1, <1>2, <1>3 DEF Paid, TypeOK

\* With one price per unit a rise is charged at that price.
LEMMA DrainPays ==
  ASSUME TypeOK, TypeOK', Linear, NEW active \in SUBSET Grants, active # {}, NEW time \in Times,
         NEW take \in [Grants -> Nat], NEW over \in Nat,
         priceFactsFromGrantStates(active, time, take, over)
  PROVE  Paid' = Paid + plan.price[1] * (Total(take) + over)
<1>. DEFINE p == Period(time)
            after == [g \in Grants |-> used[g][p] + take[g] + IF IsFirst(g, active) THEN over ELSE 0]
            given == [g \in Grants |-> Given(g, active, take, over)]
            old == [g \in Grants |-> charged[g][p]]
            new == [g \in Grants |-> charged'[g][p]]
            more == [g \in Grants |-> plan.price[1] * given[g]]
<1>1. /\ plan \in Plans /\ p \in Periods /\ used \in [Grants -> [Periods -> Units]]
      /\ charged \in [Grants -> [Periods -> Int]] /\ charged' \in [Grants -> [Periods -> Int]]
  BY PeriodOfTime DEF TypeOK
<1>2. /\ \A g \in Grants : after[g] \in Units
      /\ charged' = [g \in Grants |-> [charged[g] EXCEPT
                        ![p] = @ + computeUsagePriceDelta(used[g][p], after[g])]]
      /\ corrected' = corrected
  BY DEF priceFactsFromGrantStates
<1>3. PICK c \in Nat : c = plan.price[1]
  BY <1>1, LinearPrice
<1>4. given \in [Grants -> Int] /\ more \in [Grants -> Int]
  BY <1>3 DEF Given
<1>5. \A g \in Grants : new[g] = old[g] + more[g]
  <2>. TAKE g \in Grants
  <2>1. used[g][p] \in Units /\ after[g] \in Units /\ after[g] = used[g][p] + given[g]
    <3>1. PICK u \in Nat : u = used[g][p]
      BY <1>1, Constants DEF Units
    <3>. QED
      BY <1>1, <1>2, <3>1 DEF Given
  <2>2. plan.price[used[g][p]] = c * used[g][p] /\ plan.price[after[g]] = c * after[g]
    BY <1>1, <1>3, <2>1, LinearPrice
  <2>3. c * after[g] = c * used[g][p] + c * given[g]
    BY <1>4, <2>1, Distributes, Constants DEF Units
  <2>4. plan.price[used[g][p]] + computeUsagePriceDelta(used[g][p], after[g]) = plan.price[after[g]]
        /\ computeUsagePriceDelta(used[g][p], after[g]) \in Int
    BY <1>1, <2>1, DeltasAddUp
  <2>5. computeUsagePriceDelta(used[g][p], after[g]) = c * given[g]
    <3>1. c * given[g] \in Int /\ c * used[g][p] \in Int
      BY <1>4, <2>1, Distributes, Constants DEF Units
    <3>. HIDE DEF after, given
    <3>. QED
      BY <2>2, <2>3, <2>4, <3>1
  <2>. HIDE DEF after, given
  <2>6. charged'[g][p] = charged[g][p] + computeUsagePriceDelta(used[g][p], after[g])
    BY <1>1, <1>2
  <2>. QED
    BY <1>3, <2>5, <2>6
<1>6. \A q \in Periods \ {p} : \A g \in Grants : charged'[g][q] = charged[g][q]
  BY <1>1, <1>2
<1>. HIDE DEF after
<1>7. old \in [Grants -> Int] /\ new \in [Grants -> Int]
  BY <1>1
<1>8. Total(given) = Total(take) + over
  BY GivenAddsUp
<1>9. Total(more) = c * Total(given)
  <2>1. \A g \in Grants : more[g] = c * given[g]
    BY <1>3
  <2>. HIDE DEF more, given
  <2>. QED
    BY <1>4, <2>1, AllFinite, SumScale
<1>10. Total(new) = Total(old) + Total(more)
  <2>. HIDE DEF more, new, old
  <2>. QED
    BY <1>4, <1>5, <1>7, AllFinite, SumAdd
<1>11. PeriodCharge(p)' = PeriodCharge(p) + c * (Total(take) + over)
  BY <1>8, <1>9, <1>10 DEF PeriodCharge
<1>12. \A q \in Periods \ {p} : PeriodCharge(q)' = PeriodCharge(q)
  <2>. TAKE q \in Periods \ {p}
  <2>1. [g \in Grants |-> charged'[g][q]] = [g \in Grants |-> charged[g][q]]
    BY <1>6
  <2>. QED
    BY <2>1 DEF PeriodCharge
<1>. DEFINE before == [q \in Periods |-> PeriodCharge(q)]
            later == [q \in Periods |-> PeriodCharge(q)']
<1>13. before \in [Periods -> Int] /\ before[p] \in Int
  BY <1>1, PaidTypes
<1>14. PICK m \in Int : m = c * (Total(take) + over)
  <2>1. Total(take) \in Int
    <3>1. take \in [Grants -> Int]
      OBVIOUS
    <3>. QED
      BY <3>1, AllFinite, SumInt
  <2>. QED
    BY <2>1, Distributes
<1>15. later \in [Periods -> Int] /\ later[p] = before[p] + m /\ \A q \in Periods \ {p} : later[q] = before[q]
  <2>1. PeriodCharge(p)' = before[p] + m
    BY <1>1, <1>11, <1>14
  <2>2. \A q \in Periods : PeriodCharge(q)' \in Int
    BY <1>12, <1>13, <2>1, PaidTypes
  <2>. QED
    BY <1>1, <1>12, <2>1, <2>2
<1>16. Total(later) = Total(before) + m
  <2>. HIDE DEF before, later
  <2>1. Total(later) = Total(before) - before[p] + later[p]
    BY <1>1, <1>13, <1>15, AllFinite, SumUpdate
  <2>2. Total(before) \in Int
    BY <1>13, AllFinite, SumInt
  <2>. QED
    BY <1>13, <1>15, <2>1, <2>2
<1>17. Total(before) \in Int /\ corrected \in Int
  <2>. HIDE DEF before
  <2>. QED
    BY <1>13, AllFinite, SumInt DEF TypeOK
<1>18. Paid = Total(before) + corrected /\ Paid' = Total(later) + corrected
  BY <1>2 DEF Paid
<1>. HIDE DEF before, later
<1>. QED
  BY <1>3, <1>14, <1>16, <1>17, <1>18

\* A fall is given back at the price per unit too, but never for what lies below
\* zero.
LEMMA CorrectionPays ==
  ASSUME TypeOK, Linear, NEW time, NEW fact, fact.value \in Int, fact.delta \in Int,
         fact.value = meter.value + fact.delta,
         priceFactWithEntitlement(time, fact)
  PROVE  Paid' = Paid + plan.price[1] * AtLeastZero(fact.value)
                      - plan.price[1] * AtLeastZero(meter.value)
<1>. DEFINE after == AtLeastZero(fact.value)
            before == AtLeastZero(fact.value - fact.delta)
            charges == Total([p \in Periods |-> PeriodCharge(p)])
<1>1. /\ before \in Units /\ after \in Units
      /\ corrected' = corrected + computeUsagePriceDelta(before, after)
      /\ charged' = charged
  BY DEF priceFactWithEntitlement
<1>2. before = AtLeastZero(meter.value)
  BY DEF TypeOK
<1>3. PICK b \in Int, a \in Int : b = plan.price[before] /\ a = plan.price[after]
  BY <1>1, PlanTypes DEF TypeOK
<1>4. a = plan.price[1] * after /\ b = plan.price[1] * before
  BY <1>1, <1>3, LinearPrice DEF TypeOK
<1>5. corrected \in Int
  BY DEF TypeOK
<1>6. charges \in Int
  <2>1. [p \in Periods |-> PeriodCharge(p)] \in [Periods -> Int] /\ IsFiniteSet(Periods)
    BY PaidTypes, AllFinite
  <2>. QED
    BY <2>1, SumInt
<1>7. charges' = charges
  BY <1>1 DEF PeriodCharge
<1>8. b + computeUsagePriceDelta(before, after) = a /\ computeUsagePriceDelta(before, after) \in Int
  BY <1>1, <1>3, DeltasAddUp DEF TypeOK
<1>9. Paid = charges + corrected /\ Paid' = charges' + corrected'
  BY DEF Paid
<1>. HIDE DEF charges, before, after
<1>10. Paid' = Paid + a - b
  BY <1>1, <1>3, <1>5, <1>6, <1>7, <1>8, <1>9
<1>11. plan.price[1] * after = a /\ plan.price[1] * before = b
  BY <1>4
<1>. QED
  BY <1>2, <1>10, <1>11 DEF after

\* While it never sank the meter is not below zero.
TracksMeter ==
  /\ LinearTracksMeter
  /\ ~sank => meter.value >= 0

LEMMA TracksIs ==
  LinearTracksMeter <=> (Linear => /\ Paid >= plan.price[1] * meter.value
                                   /\ ~sank => Paid = plan.price[1] * meter.value)
BY DEF LinearTracksMeter, Linear, Paid

\* The price of what the meter stands at, before and after a rise or a fall.
LEMMA PaidOfRise ==
  ASSUME NEW c \in Nat, NEW v \in Int, NEW d \in Int, NEW paid \in Int, paid >= c * v
  PROVE  /\ paid + c * d >= c * (v + d)
         /\ paid = c * v => paid + c * d = c * (v + d)
<1>1. c * (v + d) = c * v + c * d /\ c * v \in Int /\ c * d \in Int
  BY Distributes
<1>. QED
  BY <1>1

LEMMA PaidOfFall ==
  ASSUME NEW c \in Nat, NEW v \in Int, NEW w \in Int, w <= v, NEW paid \in Int, paid >= c * v
  PROVE  /\ paid + c * AtLeastZero(w) - c * AtLeastZero(v) >= c * w
         /\ paid = c * v /\ w >= 0 => paid + c * AtLeastZero(w) - c * AtLeastZero(v) = c * w
<1>1. PICK x \in Int, y \in Int : x = c * v /\ y = c * w
  OBVIOUS
<1>2. c * 0 = 0
  OBVIOUS
<1>3. y <= x
  BY <1>1, Grows
<1>4. CASE w >= 0
  <2>1. AtLeastZero(w) = w /\ AtLeastZero(v) = v
    BY <1>4 DEF AtLeastZero
  <2>. QED
    BY <1>1, <2>1
<1>5. CASE w < 0 /\ v >= 0
  <2>1. AtLeastZero(w) = 0 /\ AtLeastZero(v) = v
    BY <1>5 DEF AtLeastZero
  <2>2. y <= 0
    BY <1>1, <1>2, <1>5, Grows
  <2>. QED
    BY <1>1, <1>2, <1>5, <2>1, <2>2
<1>6. CASE w < 0 /\ v < 0
  <2>1. AtLeastZero(w) = 0 /\ AtLeastZero(v) = 0
    BY <1>6 DEF AtLeastZero
  <2>. QED
    BY <1>1, <1>2, <1>3, <1>6, <2>1
<1>. QED
  BY <1>4, <1>5, <1>6

LEMMA ApplyTracks ==
  ASSUME TypeOK, TypeOK', TracksMeter, NEW time \in Times, NEW value \in Values,
         NEW enforceLimit \in BOOLEAN, Apply(time, value, enforceLimit)
  PROVE  TracksMeter'
<1>. DEFINE active == resolveActiveGrants(time)
            fact == computePendingUpdate(time, value)
<1>1. fact.delta \in Int /\ fact.value \in Int /\ fact.value = meter.value + fact.delta
  BY UpdateType, UpdateAdds
<1>. HIDE DEF fact
<1>2. active \in SUBSET Grants /\ active # {}
  BY PlanTypes DEF Apply, resolveActiveGrants, TypeOK
<1>. HIDE DEF active
<1>3. /\ meter'.value = fact.value
      /\ sank' = (sank \/ fact.value < 0) /\ plan' = plan
  BY DEF Apply, fact
<1>4. sank \in BOOLEAN /\ meter.value \in Int
  BY DEF TypeOK
<1>5. ~sank' => ~sank /\ meter'.value >= 0
  <2>1. ~sank' => ~sank /\ ~(fact.value < 0)
    BY <1>3
  <2>2. ~(fact.value < 0) => fact.value >= 0
    BY <1>1
  <2>. QED
    BY <1>3, <2>1, <2>2
<1>6. ASSUME Linear
      PROVE  /\ Paid' >= plan.price[1] * fact.value
             /\ ~sank' => Paid' = plan.price[1] * fact.value
  <2>1. /\ Paid >= plan.price[1] * meter.value
        /\ ~sank => Paid = plan.price[1] * meter.value /\ meter.value >= 0
    BY <1>6, TracksIs DEF TracksMeter
  <2>2. PICK c \in Nat : c = plan.price[1]
    BY <1>6, LinearPrice DEF TypeOK
  <2>3. Paid \in Int
    BY PaidTypes
  <2>4. CASE /\ fact.delta > 0
             /\ \E take \in [Grants -> 0 .. fact.delta], over \in 0 .. fact.delta :
                   /\ consumeGrantsByPriority(active, Period(time), fact.delta, take, over)
                   /\ priceFactsFromGrantStates(active, time, take, over)
    <3>1. PICK take \in [Grants -> 0 .. fact.delta], over \in 0 .. fact.delta :
             /\ consumeGrantsByPriority(active, Period(time), fact.delta, take, over)
             /\ priceFactsFromGrantStates(active, time, take, over)
      BY <2>4
    <3>2. take \in [Grants -> Nat] /\ over \in Nat
      BY <1>1
    <3>3. Total(take) + over = fact.delta
      BY <3>1 DEF consumeGrantsByPriority
    <3>4. Paid' = Paid + plan.price[1] * (Total(take) + over)
      BY <1>2, <1>6, <3>1, <3>2, DrainPays
    <3>5. Paid' = Paid + c * fact.delta
      BY <2>2, <3>3, <3>4
    <3>6. /\ Paid + c * fact.delta >= c * fact.value
          /\ Paid = c * meter.value => Paid + c * fact.delta = c * fact.value
      BY <1>1, <1>4, <2>1, <2>2, <2>3, PaidOfRise
    <3>. QED
      BY <1>5, <2>1, <2>2, <3>5, <3>6
  <2>5. CASE fact.delta <= 0 /\ priceFactWithEntitlement(time, fact)
    <3>1. Paid' = Paid + c * AtLeastZero(fact.value) - c * AtLeastZero(meter.value)
      BY <1>1, <1>6, <2>2, <2>5, CorrectionPays
    <3>2. fact.value <= meter.value
      BY <1>1, <1>4, <2>5
    <3>3. /\ Paid + c * AtLeastZero(fact.value) - c * AtLeastZero(meter.value) >= c * fact.value
          /\ Paid = c * meter.value /\ fact.value >= 0 =>
                Paid + c * AtLeastZero(fact.value) - c * AtLeastZero(meter.value) = c * fact.value
      BY <1>1, <1>4, <2>1, <2>2, <2>3, <3>2, PaidOfFall
    <3>4. ~sank' => Paid = c * meter.value /\ fact.value >= 0
      BY <1>3, <1>5, <2>1, <2>2
    <3>. QED
      BY <2>2, <3>1, <3>3, <3>4
  <2>. QED
    BY <2>4, <2>5 DEF Apply, active, fact
<1>7. Linear' => Linear
  BY <1>3 DEF Linear
<1>8. LinearTracksMeter'
  <2>1. LinearTracksMeter' <=> (Linear' => /\ Paid' >= plan'.price[1] * meter'.value
                                           /\ ~sank' => Paid' = plan'.price[1] * meter'.value)
    BY DEF LinearTracksMeter, Linear, Paid
  <2>. QED
    BY <1>3, <1>6, <1>7, <2>1
<1>. QED
  BY <1>5, <1>8 DEF TracksMeter

LEMMA InitTracks == Init => TracksMeter
<1>. SUFFICES ASSUME Init PROVE TracksMeter
  OBVIOUS
<1>1. TypeOK
  BY InitHolds DEF IInv
<1>2. IsFiniteSet(Grants) /\ IsFiniteSet(Periods)
  BY AllFinite
<1>3. ASSUME NEW p \in Periods PROVE PeriodCharge(p) = 0
  <2>. DEFINE f == [g \in Grants |-> charged[g][p]]
  <2>1. f \in [Grants -> Int] /\ \A g \in Grants : f[g] = 0
    BY <1>3 DEF Init
  <2>. HIDE DEF f
  <2>2. Total(f) = 0
    BY <1>2, <2>1, SumZero
  <2>. QED
    BY <2>2 DEF PeriodCharge, f
<1>4. Total([p \in Periods |-> PeriodCharge(p)]) = 0
  <2>. DEFINE f == [p \in Periods |-> PeriodCharge(p)]
  <2>1. f \in [Periods -> Int] /\ \A p \in Periods : f[p] = 0
    BY <1>3
  <2>. HIDE DEF f
  <2>2. Total(f) = 0
    BY <1>2, <2>1, SumZero
  <2>. QED
    BY <2>2 DEF f
<1>5. Paid = 0 /\ meter.value = 0
  BY <1>4 DEF Init, Paid
<1>6. Linear => plan.price[1] * meter.value = 0
  <2>. SUFFICES ASSUME Linear PROVE plan.price[1] * meter.value = 0
    OBVIOUS
  <2>1. PICK c \in Nat : c = plan.price[1]
    BY <1>1, LinearPrice DEF TypeOK
  <2>. QED
    BY <1>5, <2>1
<1>7. LinearTracksMeter
  BY <1>5, <1>6, TracksIs
<1>. QED
  BY <1>5, <1>7 DEF TracksMeter

LEMMA NextTracks == TypeOK /\ TypeOK' /\ TracksMeter /\ [Next]_vars => TracksMeter'
<1>. SUFFICES ASSUME TypeOK, TypeOK', TracksMeter, [Next]_vars PROVE TracksMeter'
  OBVIOUS
<1>1. CASE SyncApply \/ QueuedApply
  BY <1>1, ApplyTracks DEF SyncApply, QueuedApply
<1>2. CASE Tick \/ (\E g \in Grants : syncGrants(g)) \/ UNCHANGED vars
  <2>1. UNCHANGED <<plan, meter, charged, corrected, sank>>
    BY <1>2 DEF Tick, syncGrants, vars
  <2>. QED
    BY <2>1 DEF TracksMeter, LinearTracksMeter, PeriodCharge
<1>. QED
  BY <1>1, <1>2 DEF Next

-----------------------------------------------------------------------------
(* The waterfall, grant by grant.                                          *)

\* w[i] is what the waterfall knows after i grants.
Runs(w, price, allowances, n, usage) ==
  /\ w[0] = [left |-> usage, last |-> 0, total |-> 0]
  /\ \A i \in 1 .. n : w[i] = ofGrant(price, w[i - 1], allowances[i])

\* The body of the recursive function the waterfall runs by.
Grantwise(w, price, allowances, n, usage) ==
  [i \in 0 .. n |-> IF i = 0 THEN [left |-> usage, last |-> 0, total |-> 0]
                    ELSE ofGrant(price, w[i - 1], allowances[i])]

LEMMA WaterfallExists ==
  ASSUME NEW price, NEW allowances, NEW usage, NEW n \in Nat
  PROVE  \E w : w = Grantwise(w, price, allowances, n, usage)
<1>. DEFINE base == [left |-> usage, last |-> 0, total |-> 0]
            To(w, m) == [i \in 0 .. m |-> IF i = 0 THEN base
                                          ELSE ofGrant(price, w[i - 1], allowances[i])]
            G == {m \in 0 .. n : \E w : w = To(w, m)}
<1>. HIDE DEF base
<1>1. 0 \in G
  <2>. DEFINE w == [i \in 0 .. 0 |-> base]
  <2>1. w = To(w, 0)
    OBVIOUS
  <2>. HIDE DEF w, To
  <2>. QED
    BY <2>1
<1>2. ASSUME NEW m \in 0 .. n, m < n, m \in G
      PROVE  m + 1 \in G
  <2>1. PICK w : w = To(w, m)
    BY <1>2
  <2>. DEFINE v == [i \in 0 .. m + 1 |-> IF i <= m THEN w[i]
                                         ELSE ofGrant(price, w[m], allowances[m + 1])]
  <2>2. ASSUME NEW i \in 0 .. m + 1
        PROVE  v[i] = To(v, m + 1)[i]
    <3>1. CASE i = 0
      <4>1. w[0] = base
        BY <2>1
      <4>. QED
        BY <3>1, <4>1
    <3>2. CASE i # 0 /\ i <= m
      <4>1. i - 1 \in 0 .. m + 1 /\ i - 1 <= m /\ i \in 0 .. m
        BY <3>2
      <4>2. w[i] = ofGrant(price, w[i - 1], allowances[i])
        BY <2>1, <3>2, <4>1
      <4>3. v[i - 1] = w[i - 1] /\ v[i] = w[i]
        BY <3>2, <4>1
      <4>4. To(v, m + 1)[i] = ofGrant(price, v[i - 1], allowances[i])
        BY <3>2
      <4>. QED
        BY <4>2, <4>3, <4>4
    <3>3. CASE i = m + 1
      <4>1. i - 1 = m /\ m \in 0 .. m + 1
        BY <3>3
      <4>2. v[i - 1] = w[m] /\ v[i] = ofGrant(price, w[m], allowances[i])
        BY <3>3, <4>1
      <4>3. To(v, m + 1)[i] = ofGrant(price, v[i - 1], allowances[i])
        BY <3>3
      <4>. QED
        BY <4>2, <4>3
    <3>. QED
      BY <3>1, <3>2, <3>3
  <2>3. v = To(v, m + 1)
    <3>1. DOMAIN v = 0 .. m + 1 /\ DOMAIN To(v, m + 1) = 0 .. m + 1
      OBVIOUS
    <3>2. v = [i \in 0 .. m + 1 |-> v[i]]
      OBVIOUS
    <3>3. To(v, m + 1) = [i \in 0 .. m + 1 |-> To(v, m + 1)[i]]
      OBVIOUS
    <3>. HIDE DEF v, To
    <3>. QED
      BY <2>2, <3>2, <3>3
  <2>4. m + 1 \in 0 .. n
    BY <1>2
  <2>. HIDE DEF v, To
  <2>. QED
    BY <2>3, <2>4
<1>3. n \in G
  <2>. HIDE DEF G
  <2>1. \A i \in 0 .. n : i \in G
    BY <1>1, <1>2, IntervalInduction
  <2>. QED
    BY <2>1
<1>. QED
  BY <1>3 DEF base, Grantwise

LEMMA WaterfallRuns ==
  ASSUME NEW price, NEW n \in Nat, NEW allowances, Len(allowances) = n, NEW usage
  PROVE  \E w : /\ Runs(w, price, allowances, n, usage)
                /\ calculateWaterfallPrice(price, allowances, usage) =
                     IF w[n].left > 0 /\ w[n].last > 0
                     THEN w[n].total + price[w[n].last + w[n].left] - price[w[n].last]
                     ELSE w[n].total
<1>. DEFINE w == CHOOSE u : u = Grantwise(u, price, allowances, n, usage)
<1>1. w = Grantwise(w, price, allowances, n, usage)
  <2>1. \E u : u = Grantwise(u, price, allowances, n, usage)
    BY WaterfallExists
  <2>. QED
    BY <2>1
<1>2. calculateWaterfallPrice(price, allowances, usage) =
        IF w[n].left > 0 /\ w[n].last > 0
        THEN w[n].total + price[w[n].last + w[n].left] - price[w[n].last]
        ELSE w[n].total
  BY DEF calculateWaterfallPrice, Grantwise
<1>. HIDE DEF w
<1>3. w[0] = [left |-> usage, last |-> 0, total |-> 0]
  BY <1>1 DEF Grantwise
<1>4. ASSUME NEW i \in 1 .. n PROVE w[i] = ofGrant(price, w[i - 1], allowances[i])
  <2>1. i \in 0 .. n /\ i # 0
    OBVIOUS
  <2>. QED
    BY <1>1, <2>1 DEF Grantwise
<1>. QED
  BY <1>2, <1>3, <1>4 DEF Runs

\* When no grant gave more than its allowance, and none gave anything before the
\* ones ahead of it were empty, the waterfall spreads the sum over them as it came.
LEMMA SpreadsAsDrained ==
  ASSUME NEW price \in [Units -> Nat], price[0] = 0,
         NEW A \in [Grants -> Nat \cup {Unlimited}], NEW U \in [Grants -> Units],
         \A g \in Grants : A[g] # Unlimited => U[g] <= A[g],
         \A g, h \in Grants : g < h /\ U[h] > 0 => A[g] # Unlimited /\ U[g] >= A[g]
  PROVE  calculateWaterfallPrice(price, A, Total(U)) = Total([g \in Grants |-> price[U[g]]])
<1>. DEFINE n == MaxGrants
            cost == [g \in Grants |-> price[U[g]]]
            Left(i) == Total([g \in i + 1 .. n |-> U[g]])
            Spent(i) == Total([g \in 1 .. i |-> cost[g]])
<1>1. n \in Nat /\ Grants = 1 .. n /\ Unlimited \notin Nat
  BY Constants DEF Grants, Unlimited
<1>2. U \in [Grants -> Nat] /\ cost \in [Grants -> Nat]
  BY Constants DEF Units
<1>3. Len(A) = n
  BY <1>1
<1>4. PICK w : /\ Runs(w, price, A, n, Total(U))
               /\ calculateWaterfallPrice(price, A, Total(U)) =
                    IF w[n].left > 0 /\ w[n].last > 0
                    THEN w[n].total + price[w[n].last + w[n].left] - price[w[n].last]
                    ELSE w[n].total
  BY <1>1, <1>3, WaterfallRuns
<1>. DEFINE Holds(i) == \E l \in Nat : w[i] = [left |-> Left(i), last |-> l, total |-> Spent(i)]
            G == {i \in 0 .. n : Holds(i)}
<1>5. \A i \in 0 .. n : Left(i) \in Nat /\ Spent(i) \in Nat
  <2>. TAKE i \in 0 .. n
  <2>1. (i + 1 .. n) \subseteq Grants /\ (1 .. i) \subseteq Grants
    BY <1>1
  <2>2. IsFiniteSet(i + 1 .. n) /\ IsFiniteSet(1 .. i)
    BY <2>1, AllFinite, FS_Subset
  <2>3. [g \in i + 1 .. n |-> U[g]] \in [i + 1 .. n -> Nat]
    BY <1>2, <2>1
  <2>4. [g \in 1 .. i |-> cost[g]] \in [1 .. i -> Nat]
    <3>. HIDE DEF cost
    <3>. QED
      BY <1>2, <2>1
  <2>. QED
    BY <2>2, <2>3, <2>4, SumNat
<1>6. ASSUME NEW i \in 0 .. n, i < n
      PROVE  Left(i) = U[i + 1] + Left(i + 1) /\ Spent(i + 1) = Spent(i) + cost[i + 1]
  <2>. DEFINE f == [g \in i + 1 .. n |-> U[g]]
              e == [g \in 1 .. i + 1 |-> cost[g]]
  <2>1. /\ f \in [i + 1 .. n -> Int] /\ i + 1 \in i + 1 .. n
        /\ e \in [1 .. i + 1 -> Int] /\ i + 1 \in 1 .. i + 1
        /\ IsFiniteSet(i + 1 .. n) /\ IsFiniteSet(1 .. i + 1)
    <3>2. (i + 1 .. n) \subseteq Grants /\ (1 .. i + 1) \subseteq Grants
      BY <1>1, <1>6
    <3>3. IsFiniteSet(i + 1 .. n) /\ IsFiniteSet(1 .. i + 1)
      BY <3>2, AllFinite, FS_Subset
    <3>4. f \in [i + 1 .. n -> Int] /\ e \in [1 .. i + 1 -> Int]
      BY <1>2, <3>2
    <3>. QED
      BY <1>1, <1>6, <3>3, <3>4
  <2>2. (i + 1 .. n) \ {i + 1} = (i + 1) + 1 .. n /\ (1 .. i + 1) \ {i + 1} = 1 .. i
    BY <1>1
  <2>3. /\ [g \in (i + 1) + 1 .. n |-> f[g]] = [g \in (i + 1) + 1 .. n |-> U[g]]
        /\ [g \in 1 .. i |-> e[g]] = [g \in 1 .. i |-> cost[g]]
    BY <2>2
  <2>4. f[i + 1] = U[i + 1] /\ e[i + 1] = cost[i + 1]
    BY <2>1
  <2>5. Total(f) = f[i + 1] + Total([g \in (i + 1 .. n) \ {i + 1} |-> f[g]])
    <3>. HIDE DEF f
    <3>1. PICK D : D = i + 1 .. n
      OBVIOUS
    <3>2. f \in [D -> Int] /\ IsFiniteSet(D) /\ i + 1 \in D
      BY <2>1, <3>1
    <3>3. Total(f) = f[i + 1] + Total([g \in D \ {i + 1} |-> f[g]])
      BY <3>2, SumRemove
    <3>. QED
      BY <3>1, <3>3
  <2>6. Total(e) = e[i + 1] + Total([g \in (1 .. i + 1) \ {i + 1} |-> e[g]])
    <3>. HIDE DEF e
    <3>1. PICK D : D = 1 .. i + 1
      OBVIOUS
    <3>2. e \in [D -> Int] /\ IsFiniteSet(D) /\ i + 1 \in D
      BY <2>1, <3>1
    <3>3. Total(e) = e[i + 1] + Total([g \in D \ {i + 1} |-> e[g]])
      BY <3>2, SumRemove
    <3>. QED
      BY <3>1, <3>3
  <2>8. cost[i + 1] \in Nat /\ Spent(i) \in Nat
    <3>1. i + 1 \in Grants
      BY <1>1, <1>6
    <3>. HIDE DEF cost
    <3>. QED
      BY <1>2, <1>5, <3>1
  <2>7. Total(f) = U[i + 1] + Left(i + 1) /\ Total(e) = cost[i + 1] + Spent(i)
    <3>. HIDE DEF cost
    <3>. QED
      BY <2>2, <2>3, <2>4, <2>5, <2>6
  <2>. HIDE DEF cost
  <2>. QED
    BY <2>7, <2>8
<1>7. ASSUME NEW i \in 0 .. n, i < n
      PROVE  U[i + 1] = IF A[i + 1] = Unlimited THEN Left(i) ELSE Least(Left(i), A[i + 1])
  <2>1. i + 1 \in Grants /\ i + 1 \in 0 .. n
    BY <1>1, <1>7
  <2>2. Left(i) = U[i + 1] + Left(i + 1) /\ Left(i + 1) \in Nat /\ U[i + 1] \in Nat
    BY <1>2, <1>5, <1>6, <1>7, <2>1
  <2>3. CASE \A h \in (i + 1) + 1 .. n : U[h] = 0
    <3>. DEFINE f == [g \in (i + 1) + 1 .. n |-> U[g]]
    <3>1. /\ f \in [(i + 1) + 1 .. n -> Int]
          /\ \A g \in (i + 1) + 1 .. n : f[g] = 0
      BY <2>3
    <3>2. IsFiniteSet((i + 1) + 1 .. n)
      <4>1. (i + 1) + 1 \in Int /\ n \in Int
        BY <1>1
      <4>. QED
        BY <4>1, FS_Interval
    <3>. HIDE DEF f
    <3>3. Total(f) = 0
      BY <3>1, <3>2, SumZero
    <3>4. Left(i + 1) = 0
      BY <3>3 DEF f
    <3>. HIDE DEF Left
    <3>. QED
      BY <1>1, <2>1, <2>2, <3>4 DEF Least
  <2>4. CASE \E h \in (i + 1) + 1 .. n : U[h] # 0
    <3>1. PICK h \in (i + 1) + 1 .. n : U[h] # 0
      BY <2>4
    <3>2. h \in Grants /\ i + 1 < h /\ U[h] > 0
      BY <1>1, <1>2, <3>1
    <3>3. A[i + 1] # Unlimited /\ U[i + 1] >= A[i + 1] /\ U[i + 1] <= A[i + 1]
      BY <2>1, <3>2
    <3>. HIDE DEF Left
    <3>. QED
      BY <1>1, <2>1, <2>2, <3>3 DEF Least
  <2>. QED
    BY <2>3, <2>4
<1>8. 0 \in G
  <2>1. [g \in 0 + 1 .. n |-> U[g]] = U
    BY <1>1
  <2>2. Left(0) = Total(U) /\ Spent(0) = 0
    <3>1. DOMAIN [g \in 1 .. 0 |-> cost[g]] = {}
      OBVIOUS
    <3>2. Total([g \in 1 .. 0 |-> cost[g]]) = 0
      BY <3>1, SumEmpty
    <3>. QED
      BY <2>1, <3>2
  <2>3. w[0] = [left |-> Left(0), last |-> 0, total |-> Spent(0)]
    BY <1>4, <2>2 DEF Runs
  <2>. HIDE DEF Left, Spent
  <2>. QED
    BY <1>1, <2>3
<1>9. ASSUME NEW i \in 0 .. n, i < n, i \in G
      PROVE  i + 1 \in G
  <2>1. PICK l \in Nat : w[i] = [left |-> Left(i), last |-> l, total |-> Spent(i)]
    BY <1>9
  <2>2. i + 1 \in 1 .. n /\ i + 1 \in Grants /\ i + 1 \in 0 .. n /\ (i + 1) - 1 = i
    BY <1>1, <1>9
  <2>3. PICK u \in Nat : u = U[i + 1]
    BY <1>2, <2>2
  <2>4. cost[i + 1] = price[u]
    BY <2>2, <2>3
  <2>5. w[i + 1] = ofGrant(price, w[i], A[i + 1])
    BY <1>4, <2>2 DEF Runs
  <2>6. /\ Left(i) \in Nat /\ Spent(i) \in Nat /\ Left(i + 1) \in Nat
        /\ Left(i) = u + Left(i + 1) /\ Spent(i + 1) = Spent(i) + price[u]
        /\ u = IF A[i + 1] = Unlimited THEN Left(i) ELSE Least(Left(i), A[i + 1])
    <3>. HIDE DEF Left, Spent, cost
    <3>. QED
      BY <1>5, <1>6, <1>7, <1>9, <2>2, <2>3, <2>4
  <2>. HIDE DEF Left, Spent, cost
  <2>7. PICK x \in Nat, y \in Nat, s \in Nat, t \in Nat :
           x = Left(i) /\ y = Left(i + 1) /\ s = Spent(i) /\ t = Spent(i + 1)
    BY <1>5, <2>2
  <2>8. x = u + y /\ t = s + price[u] /\ w[i] = [left |-> x, last |-> l, total |-> s]
    BY <2>1, <2>6, <2>7
  <2>9. w[i + 1] = IF u = 0 THEN w[i]
                   ELSE [left |-> x - u, last |-> u, total |-> s + price[u]]
    <3>1. A[i + 1] \in Nat \cup {Unlimited}
      BY <2>2
    <3>2. u = IF A[i + 1] = Unlimited THEN x ELSE Least(x, A[i + 1])
      BY <2>6, <2>7
    <3>3. s \in Int
      OBVIOUS
    <3>4. PICK a \in Nat \cup {Unlimited} : a = A[i + 1]
      BY <3>1
    <3>5. PICK before : before = [left |-> x, last |-> l, total |-> s]
      OBVIOUS
    <3>6. ofGrant(price, before, a) =
            IF u = 0 THEN before ELSE [left |-> x - u, last |-> u, total |-> s + price[u]]
      <4>1. a = Unlimited => u = x
        BY <3>2, <3>4
      <4>2. a # Unlimited => u = Least(x, a)
        BY <3>2, <3>4
      <4>3. /\ u = IF a = Unlimited THEN before.left ELSE Least(before.left, a)
            /\ before.left = x /\ before.total = s
        BY <3>5, <4>1, <4>2
      <4>4. ofGrant(price, before, a) =
              IF u <= 0 THEN before
              ELSE [left |-> x - u, last |-> u, total |-> s + price[u]]
        BY <4>3 DEF ofGrant
      <4>. QED
        BY <4>4
    <3>. QED
      BY <2>5, <2>8, <3>4, <3>5, <3>6
  <2>10. \E m \in Nat : w[i + 1] = [left |-> y, last |-> m, total |-> t]
    <3>1. CASE u = 0
      <4>1. x = y /\ s = t
        BY <2>8, <3>1
      <4>. QED
        BY <2>8, <2>9, <3>1, <4>1
    <3>2. CASE u # 0
      <4>1. x - u = y
        BY <2>8
      <4>. QED
        BY <2>8, <2>9, <3>2, <4>1
    <3>. QED
      BY <3>1, <3>2
  <2>. QED
    BY <2>2, <2>7, <2>10
<1>10. n \in G
  <2>. HIDE DEF G
  <2>1. \A i \in 0 .. n : i \in G
    BY <1>1, <1>8, <1>9, IntervalInduction
  <2>. QED
    BY <1>1, <2>1
<1>11. Left(n) = 0
  <2>1. DOMAIN [g \in n + 1 .. n |-> U[g]] = {}
    BY <1>1
  <2>. QED
    BY <2>1, SumEmpty
<1>12. Spent(n) = Total(cost)
  <2>1. [g \in 1 .. n |-> cost[g]] = cost
    BY <1>1
  <2>. QED
    BY <2>1
<1>13. w[n].left = 0 /\ w[n].total = Total(cost)
  <2>1. PICK l \in Nat : w[n] = [left |-> Left(n), last |-> l, total |-> Spent(n)]
    BY <1>10
  <2>. HIDE DEF Left, Spent, cost
  <2>. QED
    BY <1>11, <1>12, <2>1
<1>. QED
  BY <1>4, <1>13

\* When only one grant takes part and it gave more than its allowance, the waterfall
\* extends it past the allowance.
LEMMA ExtendsTheOnlyOne ==
  ASSUME NEW price \in [Units -> Nat],
         NEW A \in [Grants -> Nat \cup {Unlimited}], NEW U \in [Grants -> Units],
         NEW r \in Grants, A[r] \in Nat \ {0}, U[r] > A[r],
         \A g \in Grants \ {r} : A[g] = 0 /\ U[g] = 0
  PROVE  calculateWaterfallPrice(price, A, Total(U)) = price[U[r]]
<1>. DEFINE n == MaxGrants
<1>1. n \in Nat /\ Grants = 1 .. n /\ Unlimited \notin Nat
  BY Constants DEF Grants, Unlimited
<1>2. Len(A) = n
  BY <1>1
<1>3. Total(U) = U[r]
  <2>1. U \in [Grants -> Int]
    BY Constants DEF Units
  <2>. QED
    BY <2>1, AllFinite, SumSingle
<1>4. PICK a \in Nat, u \in Nat : a = A[r] /\ u = U[r] /\ a > 0 /\ u > a
  BY Constants DEF Units
<1>5. PICK w : /\ Runs(w, price, A, n, u)
               /\ calculateWaterfallPrice(price, A, u) =
                    IF w[n].left > 0 /\ w[n].last > 0
                    THEN w[n].total + price[w[n].last + w[n].left] - price[w[n].last]
                    ELSE w[n].total
  BY <1>1, <1>2, WaterfallRuns
<1>6. PICK c \in Nat, d \in Nat : c = price[a] /\ d = price[u]
  <2>1. u \in Units
    BY <1>4
  <2>2. a \in Units
    BY <1>4, <2>1, Constants DEF Units
  <2>. QED
    BY <2>1, <2>2
<1>. DEFINE before == [left |-> u, last |-> 0, total |-> 0]
            later == [left |-> u - a, last |-> a, total |-> c]
            G == {i \in 0 .. n : w[i] = IF i < r THEN before ELSE later}
<1>7. 0 \in G
  BY <1>1, <1>5 DEF Runs
<1>8. ASSUME NEW i \in 0 .. n, i < n, i \in G
      PROVE  i + 1 \in G
  <2>1. i + 1 \in 1 .. n /\ i + 1 \in Grants /\ i + 1 \in 0 .. n /\ (i + 1) - 1 = i /\ r \in Int
    BY <1>1, <1>8
  <2>2. w[i + 1] = ofGrant(price, w[i], A[i + 1])
    BY <1>5, <2>1 DEF Runs
  <2>3. w[i] = IF i < r THEN before ELSE later
    BY <1>8
  <2>4. CASE i + 1 = r
    <3>1. w[i] = before
      BY <2>1, <2>3, <2>4
    <3>2. w[i + 1] = ofGrant(price, before, a)
      BY <1>4, <2>2, <2>4, <3>1
    <3>3. a # Unlimited /\ Least(u, a) = a
      BY <1>1, <1>4 DEF Least
    <3>4. ofGrant(price, before, a) = [left |-> u - a, last |-> a, total |-> 0 + price[a]]
      BY <1>4, <3>3 DEF ofGrant
    <3>5. w[i + 1] = later
      BY <1>6, <3>2, <3>4
    <3>. HIDE DEF before, later
    <3>. QED
      BY <2>1, <2>4, <3>5
  <2>5. CASE i + 1 # r
    <3>1. A[i + 1] = 0
      BY <2>1, <2>5
    <3>2. w[i].left \in Nat
      BY <1>4, <2>3
    <3>3. 0 # Unlimited /\ Least(w[i].left, 0) = 0
      BY <1>1, <3>2 DEF Least
    <3>4. w[i + 1] = w[i]
      BY <2>2, <3>1, <3>3 DEF ofGrant
    <3>5. i < r <=> i + 1 < r
      BY <2>1, <2>5
    <3>. HIDE DEF before, later
    <3>. QED
      BY <2>1, <2>3, <3>4, <3>5
  <2>. HIDE DEF G
  <2>. QED
    BY <2>4, <2>5
<1>9. w[n] = later
  <2>1. n \in G
    <3>. HIDE DEF G
    <3>1. \A i \in 0 .. n : i \in G
      BY <1>1, <1>7, <1>8, IntervalInduction
    <3>. QED
      BY <1>1, <3>1
  <2>2. ~ (n < r)
    BY <1>1
  <2>. HIDE DEF before, later
  <2>. QED
    BY <2>1, <2>2
<1>10. w[n].left > 0 /\ w[n].last > 0 /\ w[n].total = c /\ w[n].last = a /\ a + w[n].left = u
  BY <1>4, <1>9
<1>11. calculateWaterfallPrice(price, A, u) = c + d - c
  BY <1>5, <1>6, <1>10
<1>. QED
  BY <1>3, <1>4, <1>6, <1>11

-----------------------------------------------------------------------------
(* The order the grants are drained in.                                    *)

\* A grant gave something in a period only if the ones ahead of it that cover the
\* period have nothing left.  Those have covered it all along: an expiry only moves
\* to an earlier time.
DrainedInOrder ==
  \A p \in Periods, h \in Grants : used[h][p] > 0 =>
     /\ h \in DOMAIN plan.grants
     /\ \A g \in DOMAIN plan.grants : g < h /\ Covers(g, p) =>
           allowance(g) # Unlimited /\ used[g][p] >= allowance(g)

\* A time of a period lies between its start and its end.
LEMMA TimeInPeriod ==
  ASSUME NEW time \in Times
  PROVE  /\ Period(time) \in Nat
         /\ Period(time) * PeriodLength <= time
         /\ time < (Period(time) + 1) * PeriodLength
<1>1. time \in Nat /\ PeriodLength \in Nat \ {0}
  BY Constants DEF Times
<1>. QED
  BY <1>1 DEF Period

\* A grant that covers a period is active at every time of it.
LEMMA CoveringIsActive ==
  ASSUME TypeOK, NEW time \in Times, NEW g \in DOMAIN plan.grants, Covers(g, Period(time))
  PROVE  g \in resolveActiveGrants(time)
<1>1. plan.grants[g].from \in Nat /\ g \in Grants
  BY PlansAssumption, Constants DEF TypeOK, Times
<1>2. until[g] \in Nat
  BY <1>1, Constants DEF TypeOK, Never
<1>3. time \in Nat
  BY Constants DEF Times
<1>4. PICK from \in Int, end \in Int :
         from = Period(time) * PeriodLength /\ end = (Period(time) + 1) * PeriodLength
  BY TimeInPeriod, Constants
<1>. QED
  BY <1>1, <1>2, <1>3, <1>4, TimeInPeriod DEF Covers, resolveActiveGrants

\* The ones ahead are emptied before a grant is asked, in this event too.
LEMMA DrainKeepsOrder ==
  ASSUME TypeOK, TypeOK', DrainedInOrder, NEW time \in Times, NEW units \in Nat,
         NEW take \in [Grants -> Nat], NEW over \in Nat,
         consumeGrantsByPriority(resolveActiveGrants(time), Period(time), units, take, over),
         priceFactsFromGrantStates(resolveActiveGrants(time), time, take, over),
         UNCHANGED <<plan, until>>
  PROVE  DrainedInOrder'
<1>. DEFINE active == resolveActiveGrants(time)
            p == Period(time)
            after == [g \in Grants |-> used[g][p] + take[g] + IF IsFirst(g, active) THEN over ELSE 0]
<1>1. /\ plan \in Plans /\ p \in Periods /\ used \in [Grants -> [Periods -> Units]]
      /\ active \subseteq DOMAIN plan.grants /\ DOMAIN plan.grants \subseteq Grants
  BY PeriodOfTime, PlanTypes DEF TypeOK, resolveActiveGrants
<1>2. used' = [g \in Grants |-> [used[g] EXCEPT ![p] = after[g]]]
  BY DEF priceFactsFromGrantStates
<1>3. /\ \A g \in Grants \ active : take[g] = 0
      /\ \A g, h \in active : g < h /\ take[h] > 0 => take[g] = Room(g, p, units)
      /\ Total(take) + over = units
  BY DEF consumeGrantsByPriority
<1>4. \A g \in DOMAIN plan.grants : Covers(g, p) => g \in active
  BY CoveringIsActive
<1>5. \A g \in Grants : used[g][p] \in Nat /\ take[g] \in Nat
  BY <1>1, Constants DEF Units
<1>6. \A g \in Grants : /\ after[g] \in Nat /\ after[g] >= used[g][p] + take[g]
                        /\ after[g] > used[g][p] => IsFirst(g, active) \/ take[g] > 0
  BY <1>5
<1>7. /\ \A g \in Grants : used'[g][p] = after[g]
      /\ \A g \in Grants, q \in Periods : q # p => used'[g][q] = used[g][q]
  BY <1>1, <1>2
<1>. HIDE DEF active, after
<1>8. SUFFICES ASSUME NEW q \in Periods, NEW h \in Grants, used'[h][q] > 0
               PROVE  /\ h \in DOMAIN plan.grants
                      /\ \A g \in DOMAIN plan.grants : g < h /\ Covers(g, q) =>
                            allowance(g) # Unlimited /\ used'[g][q] >= allowance(g)
  BY DEF DrainedInOrder, Covers, allowance
<1>9. CASE q # p
  BY <1>1, <1>7, <1>8, <1>9 DEF DrainedInOrder
<1>10. CASE q = p
  <2>1. after[h] > used[h][p] \/ used[h][p] > 0
    BY <1>5, <1>6, <1>7, <1>8, <1>10
  <2>2. h \in DOMAIN plan.grants
    <3>1. CASE used[h][p] > 0
      BY <1>1, <3>1 DEF DrainedInOrder
    <3>2. CASE after[h] > used[h][p]
      BY <1>1, <1>3, <1>6, <3>2 DEF IsFirst
    <3>. QED
      BY <2>1, <3>1, <3>2
  <2>3. ASSUME NEW g \in DOMAIN plan.grants, g < h, Covers(g, p)
        PROVE  allowance(g) # Unlimited /\ used'[g][p] >= allowance(g)
    <3>1. g \in active /\ g \in Grants
      BY <1>1, <1>4, <2>3
    <3>2. used'[g][p] \in Nat /\ used'[g][p] >= used[g][p] + take[g]
      BY <1>6, <1>7, <3>1
    <3>3. allowance(g) \in Nat \cup {Unlimited}
      BY <1>1, PlansAssumption DEF allowance
    <3>4. CASE used[h][p] > 0
      <4>1. allowance(g) # Unlimited /\ used[g][p] >= allowance(g)
        BY <1>1, <2>3, <3>4 DEF DrainedInOrder
      <4>. QED
        BY <1>5, <3>1, <3>2, <3>3, <4>1
    <3>5. CASE take[h] > 0
      <4>1. h \in active
        BY <1>3, <3>5
      <4>2. take[g] = Room(g, p, units)
        BY <1>3, <2>3, <3>1, <3>5, <4>1
      <4>3. allowance(g) # Unlimited
        <5>1. SUFFICES ASSUME allowance(g) = Unlimited PROVE FALSE
          OBVIOUS
        <5>2. take[g] = units
          BY <4>2, <5>1 DEF Room
        <5>. DEFINE rest == [x \in Grants \ {g} |-> take[x]]
        <5>3. rest \in [Grants \ {g} -> Nat] /\ IsFiniteSet(Grants \ {g}) /\ h \in Grants \ {g}
          <6>1. h # g
            BY <1>1, <2>3, Constants DEF Grants
          <6>. QED
            BY <6>1, AllFinite, FS_Subset
        <5>4. Total(rest) \in Nat /\ take[h] <= Total(rest)
          <6>1. rest[h] = take[h]
            BY <5>3
          <6>. HIDE DEF rest
          <6>. QED
            BY <5>3, <6>1, SumNat
        <5>5. Total(take) = take[g] + Total(rest)
          <6>1. take \in [Grants -> Int] /\ IsFiniteSet(Grants)
            BY AllFinite
          <6>. QED
            BY <3>1, <6>1, SumRemove
        <5>. HIDE DEF rest
        <5>. QED
          BY <1>3, <1>5, <3>1, <3>5, <5>2, <5>4, <5>5
      <4>4. used[g][p] + take[g] >= allowance(g)
        BY <1>5, <3>1, <3>3, <4>2, <4>3 DEF Room, AtLeastZero
      <4>. QED
        BY <1>5, <3>1, <3>2, <3>3, <4>3, <4>4
    <3>6. ~ IsFirst(h, active)
      <4>1. g \in Int /\ h \in Int
        BY <3>1, Constants DEF Grants
      <4>. QED
        BY <2>3, <3>1, <4>1 DEF IsFirst
    <3>. QED
      BY <1>6, <2>1, <3>4, <3>5, <3>6
  <2>. QED
    BY <1>10, <2>2, <2>3
<1>. QED
  BY <1>9, <1>10

LEMMA InitInOrder == Init => DrainedInOrder
BY DEF Init, DrainedInOrder

LEMMA NextKeepsOrder == TypeOK /\ TypeOK' /\ DrainedInOrder /\ [Next]_vars => DrainedInOrder'
<1>. SUFFICES ASSUME TypeOK, TypeOK', DrainedInOrder, [Next]_vars PROVE DrainedInOrder'
  OBVIOUS
<1>1. ASSUME NEW time \in Times, NEW value \in Values, NEW enforceLimit \in BOOLEAN,
             Apply(time, value, enforceLimit)
      PROVE  DrainedInOrder'
  <2>. DEFINE fact == computePendingUpdate(time, value)
  <2>1. fact.delta \in Int
    BY UpdateType
  <2>. HIDE DEF fact
  <2>2. UNCHANGED <<plan, until>>
    BY <1>1 DEF Apply
  <2>3. CASE /\ fact.delta > 0
             /\ \E take \in [Grants -> 0 .. fact.delta], over \in 0 .. fact.delta :
                   /\ consumeGrantsByPriority(resolveActiveGrants(time), Period(time),
                                              fact.delta, take, over)
                   /\ priceFactsFromGrantStates(resolveActiveGrants(time), time, take, over)
    <3>1. PICK take \in [Grants -> 0 .. fact.delta], over \in 0 .. fact.delta :
             /\ consumeGrantsByPriority(resolveActiveGrants(time), Period(time),
                                        fact.delta, take, over)
             /\ priceFactsFromGrantStates(resolveActiveGrants(time), time, take, over)
      BY <2>3
    <3>2. take \in [Grants -> Nat] /\ over \in Nat /\ fact.delta \in Nat
      BY <2>1, <2>3
    <3>. QED
      BY <2>2, <3>1, <3>2, DrainKeepsOrder
  <2>4. CASE fact.delta <= 0 /\ priceFactWithEntitlement(time, fact)
    <3>1. UNCHANGED used
      BY <2>4 DEF priceFactWithEntitlement
    <3>. QED
      BY <2>2, <3>1 DEF DrainedInOrder, Covers, allowance
  <2>. QED
    BY <1>1, <2>3, <2>4 DEF Apply, fact
<1>2. CASE SyncApply \/ QueuedApply
  BY <1>1, <1>2 DEF SyncApply, QueuedApply
<1>3. CASE Tick \/ UNCHANGED vars
  <2>1. UNCHANGED <<plan, until, used>>
    BY <1>3 DEF Tick, vars
  <2>. QED
    BY <2>1 DEF DrainedInOrder, Covers, allowance
<1>4. ASSUME NEW g \in Grants, syncGrants(g)
      PROVE  DrainedInOrder'
  <2>1. UNCHANGED <<plan, used>>
    BY <1>4 DEF syncGrants
  <2>2. \A h \in Grants : until[h] \in Nat /\ until'[h] \in Nat /\ until'[h] <= until[h]
    <3>1. until \in [Grants -> Nat] /\ now \in Nat
      BY Constants DEF TypeOK, Never, Times
    <3>2. until' = [until EXCEPT ![g] = mergeGrantExpiry(@, now)]
      BY <1>4 DEF syncGrants
    <3>. QED
      BY <3>1, <3>2 DEF mergeGrantExpiry, Least
  <2>3. ASSUME NEW p \in Periods, NEW h \in DOMAIN plan.grants, Covers(h, p)'
        PROVE  Covers(h, p)
    <3>1. h \in Grants
      BY PlanTypes DEF TypeOK
    <3>2. PICK t \in Times : p = Period(t)
      BY DEF Periods
    <3>3. PICK end \in Int : end = (p + 1) * PeriodLength
      BY <3>2, TimeInPeriod, Constants
    <3>4. until[h] >= end
      BY <2>2, <2>3, <3>1, <3>3 DEF Covers
    <3>. QED
      BY <2>1, <2>3, <3>3, <3>4 DEF Covers
  <2>. QED
    BY <2>1, <2>3 DEF DrainedInOrder, allowance
<1>. QED
  BY <1>2, <1>3, <1>4 DEF Next

\* What no part of a period falls to gave nothing in a steady one, and a bill that
\* spreads the period's use over the others comes to what was charged.
LEMMA RatesAsCharged ==
  TypeOK /\ ChargedForUse /\ DrainedInOrder => MeteredIsRated
<1>. SUFFICES ASSUME TypeOK, ChargedForUse, DrainedInOrder, NEW p \in Periods, Steady(p),
                     WithinAllowance(p) \/ \E g \in Rated(p) : Rated(p) = {g} /\ allowance(g) # 0
              PROVE  PeriodCharge(p) =
                       calculateWaterfallPrice(plan.price, RatedAllowances(p), PeriodUse(p))
  BY DEF MeteredIsRated
<1>. DEFINE A == RatedAllowances(p)
            U == [g \in Grants |-> used[g][p]]
<1>1. /\ plan \in Plans /\ plan.price \in [Units -> Nat] /\ plan.price[0] = 0
      /\ DOMAIN plan.grants \subseteq Grants
      /\ \A g \in DOMAIN plan.grants : allowance(g) \in Nat \cup {Unlimited}
  BY PlansAssumption DEF TypeOK, allowance
<1>2. U \in [Grants -> Units] /\ 0 \notin {Unlimited} /\ Unlimited \notin Nat
  BY DEF TypeOK, Unlimited
<1>3. \A g \in DOMAIN plan.grants : Covers(g, p) => g \in Rated(p)
  <2>. TAKE g \in DOMAIN plan.grants
  <2>1. PICK t \in Times : p = Period(t)
    BY DEF Periods
  <2>2. PICK start \in Int, end \in Int :
           start = p * PeriodLength /\ end = (p + 1) * PeriodLength
    BY <2>1, TimeInPeriod, Constants
  <2>3. start < end
    BY <2>1, <2>2, TimeInPeriod, Constants DEF Times
  <2>4. plan.grants[g].from \in Int /\ until[g] \in Int
    BY <1>1, PlansAssumption, Constants DEF TypeOK, Times, Never
  <2>. QED
    BY <2>2, <2>3, <2>4 DEF Covers, Rated, Overlaps
<1>4. \A g \in Grants : U[g] > 0 => g \in Rated(p)
  BY <1>3 DEF DrainedInOrder, Steady
<1>5. \A g \in Rated(p) : g \in DOMAIN plan.grants /\ Covers(g, p)
  BY DEF Steady, Rated
<1>6. /\ A \in [Grants -> Nat \cup {Unlimited}]
      /\ \A g \in Rated(p) : A[g] = allowance(g)
      /\ \A g \in Grants \ Rated(p) : A[g] = 0
  BY <1>1, <1>5 DEF RatedAllowances
<1>7. \A g \in Grants : U[g] \in Nat /\ (U[g] > 0 \/ U[g] = 0)
  BY <1>2, Constants DEF Units
<1>8. PeriodUse(p) = Total(U)
  BY DEF PeriodUse
<1>9. PeriodCharge(p) = Total([g \in Grants |-> plan.price[U[g]]])
  <2>1. [g \in Grants |-> charged[g][p]] = [g \in Grants |-> plan.price[U[g]]]
    BY DEF ChargedForUse
  <2>. QED
    BY <2>1 DEF PeriodCharge
<1>10. \A g, h \in Grants : g < h /\ U[h] > 0 => A[g] # Unlimited /\ U[g] >= A[g]
  <2>. SUFFICES ASSUME NEW g \in Grants, NEW h \in Grants, g < h, U[h] > 0
                PROVE  A[g] # Unlimited /\ U[g] >= A[g]
    OBVIOUS
  <2>1. CASE g \in Rated(p)
    BY <1>5, <1>6, <2>1 DEF DrainedInOrder
  <2>2. CASE g \notin Rated(p)
    <3>1. A[g] = 0 /\ U[g] = 0
      BY <1>4, <1>6, <1>7, <2>2
    <3>. QED
      BY <1>2, <3>1
  <2>. QED
    BY <2>1, <2>2
<1>. HIDE DEF A, U
<1>11. ASSUME \A g \in Grants : A[g] # Unlimited => U[g] <= A[g]
       PROVE  PeriodCharge(p) = calculateWaterfallPrice(plan.price, A, Total(U))
  BY <1>1, <1>2, <1>6, <1>9, <1>10, <1>11, SpreadsAsDrained
<1>12. CASE WithinAllowance(p)
  <2>1. ASSUME NEW g \in Grants, A[g] # Unlimited PROVE U[g] <= A[g]
    <3>1. CASE g \in Rated(p)
      <4>1. used[g][p] <= allowance(g)
        BY <1>5, <1>6, <1>12, <2>1, <3>1 DEF WithinAllowance
      <4>. QED
        BY <1>6, <3>1, <4>1 DEF U
    <3>2. CASE g \notin Rated(p)
      <4>1. A[g] = 0 /\ U[g] = 0
        BY <1>4, <1>6, <1>7, <3>2
      <4>. QED
        BY <4>1
    <3>. QED
      BY <3>1, <3>2
  <2>. QED
    BY <1>8, <1>11, <2>1 DEF A
<1>13. ASSUME NEW r \in Rated(p), Rated(p) = {r}, allowance(r) # 0
       PROVE  PeriodCharge(p) = calculateWaterfallPrice(plan.price, A, Total(U))
  <2>1. r \in Grants /\ A[r] = allowance(r) /\ A[r] \in Nat \cup {Unlimited}
    BY <1>1, <1>5, <1>6
  <2>2. \A g \in Grants \ {r} : A[g] = 0 /\ U[g] = 0
    BY <1>4, <1>6, <1>7, <1>13
  <2>3. CASE A[r] # Unlimited /\ U[r] > A[r]
    <3>1. A[r] \in Nat \ {0}
      BY <1>13, <2>1, <2>3
    <3>2. calculateWaterfallPrice(plan.price, A, Total(U)) = plan.price[U[r]]
      BY <1>1, <1>2, <1>6, <2>1, <2>2, <2>3, <3>1, ExtendsTheOnlyOne
    <3>. DEFINE cost == [g \in Grants |-> plan.price[U[g]]]
    <3>3. cost \in [Grants -> Int] /\ \A g \in Grants \ {r} : cost[g] = 0
      BY <1>1, <1>2, <2>2
    <3>4. cost[r] = plan.price[U[r]]
      BY <2>1
    <3>. HIDE DEF cost
    <3>5. Total(cost) = cost[r]
      BY <2>1, <3>3, AllFinite, SumSingle
    <3>. QED
      BY <1>9, <3>2, <3>4, <3>5 DEF cost
  <2>4. CASE A[r] = Unlimited \/ ~ (U[r] > A[r])
    <3>1. ASSUME NEW g \in Grants, A[g] # Unlimited PROVE U[g] <= A[g]
      <4>1. CASE g = r
        BY <1>7, <2>1, <2>4, <3>1, <4>1
      <4>2. CASE g # r
        BY <2>2, <4>2
      <4>. QED
        BY <4>1, <4>2
    <3>. QED
      BY <1>11, <3>1
  <2>. QED
    BY <2>3, <2>4
<1>. QED
  BY <1>8, <1>12, <1>13 DEF A

-----------------------------------------------------------------------------
(* The limit.                                                              *)

\* A part of what is taken never exceeds all of it.
LEMMA PartOfTake ==
  ASSUME NEW active \in SUBSET Grants, NEW take \in [Grants -> Nat],
         \A g \in Grants \ active : take[g] = 0
  PROVE  /\ Total(take) = Total([g \in active |-> take[g]])
         /\ Total(take) \in Nat /\ \A g \in Grants : take[g] <= Total(take)
<1>1. take \in [Grants -> Int] /\ IsFiniteSet(Grants)
  BY AllFinite
<1>2. Total(take) = Total([g \in active |-> take[g]])
  BY <1>1, SumSupport
<1>. QED
  BY <1>1, <1>2, SumNat

\* What passes the limit is given by the grants it falls to, none past its
\* allowance, and nothing is left over.
LEMMA LimitedTake ==
  ASSUME TypeOK, NEW active \in SUBSET DOMAIN plan.grants, NEW p \in Periods,
         NEW units \in Nat \ {0}, NEW take \in [Grants -> Nat], NEW over \in Nat,
         plan.overage = "none",
         ~ findGrantLimitExceededFact(active, p, units),
         consumeGrantsByPriority(active, p, units, take, over)
  PROVE  over = 0
<1>1. SUFFICES ASSUME over > 0 PROVE FALSE
  OBVIOUS
<1>2. /\ active \in SUBSET Grants /\ plan \in Plans
      /\ \A g \in active : allowance(g) \in Nat \cup {Unlimited}
  BY PlansAssumption DEF TypeOK, allowance
<1>3. /\ \A g \in Grants \ active : take[g] = 0
      /\ \A g \in active : take[g] = Room(g, p, units)
      /\ Total(take) + over = units
  BY <1>1 DEF consumeGrantsByPriority
<1>4. /\ Total(take) = Total([g \in active |-> take[g]])
      /\ Total(take) \in Nat /\ \A g \in Grants : take[g] <= Total(take)
  BY <1>2, <1>3, PartOfTake
<1>5. ASSUME NEW g \in active PROVE allowance(g) # Unlimited
  <2>1. SUFFICES ASSUME allowance(g) = Unlimited PROVE FALSE
    OBVIOUS
  <2>2. take[g] = units
    BY <1>3, <2>1 DEF Room
  <2>. QED
    BY <1>1, <1>2, <1>3, <1>4, <2>2
<1>6. units <= resolveAvailableGrantUnits(active, p)
  <2>1. ~ (units > resolveAvailableGrantUnits(active, p))
    BY <1>5 DEF findGrantLimitExceededFact
  <2>2. resolveAvailableGrantUnits(active, p) \in Int
    <3>1. used \in [Grants -> [Periods -> Nat]]
      BY Constants DEF TypeOK, Units
    <3>2. [g \in active |-> AtLeastZero(allowance(g) - used[g][p])] \in [active -> Int]
      BY <1>2, <3>1 DEF AtLeastZero, Unlimited
    <3>3. IsFiniteSet(active)
      BY <1>2, AllFinite, FS_Subset
    <3>. QED
      BY <3>2, <3>3, SumInt DEF resolveAvailableGrantUnits
  <2>. QED
    BY <2>1, <2>2
<1>7. resolveAvailableGrantUnits(active, p) = Total([g \in active |-> take[g]])
  <2>1. [g \in active |-> AtLeastZero(allowance(g) - used[g][p])] = [g \in active |-> take[g]]
    BY <1>3, <1>5 DEF Room
  <2>. QED
    BY <2>1 DEF resolveAvailableGrantUnits
<1>. QED
  BY <1>1, <1>3, <1>4, <1>6, <1>7

LEMMA LimitedApply ==
  ASSUME TypeOK, TypeOK', NEW time \in Times, NEW value \in Values, Apply(time, value, TRUE),
         plan.overage = "none", NEW g \in DOMAIN plan.grants, NEW p \in Periods,
         allowance(g) # Unlimited
  PROVE  used'[g][p] <= Larger(used[g][p], allowance(g))
<1>. DEFINE active == resolveActiveGrants(time)
            fact == computePendingUpdate(time, value)
            q == Period(time)
<1>1. fact.delta \in Int
  BY UpdateType
<1>2. /\ ~ findGrantLimitExceededFact(active, q, fact.delta)
      /\ active \in SUBSET DOMAIN plan.grants
  BY DEF Apply, resolveActiveGrants
<1>. HIDE DEF fact
<1>3. /\ plan \in Plans /\ DOMAIN plan.grants \subseteq Grants /\ q \in Periods
      /\ used \in [Grants -> [Periods -> Units]]
  BY PlanTypes, PeriodOfTime DEF TypeOK
<1>4. used[g][p] \in Nat /\ allowance(g) \in Nat
  BY <1>3, PlansAssumption, Constants DEF allowance, Units
<1>5. CASE /\ fact.delta > 0
           /\ \E take \in [Grants -> 0 .. fact.delta], over \in 0 .. fact.delta :
                 /\ consumeGrantsByPriority(active, q, fact.delta, take, over)
                 /\ priceFactsFromGrantStates(active, time, take, over)
  <2>1. PICK take \in [Grants -> 0 .. fact.delta], over \in 0 .. fact.delta :
           /\ consumeGrantsByPriority(active, q, fact.delta, take, over)
           /\ priceFactsFromGrantStates(active, time, take, over)
    BY <1>5
  <2>2. take \in [Grants -> Nat] /\ over \in Nat /\ fact.delta \in Nat \ {0}
    BY <1>1, <1>5
  <2>. HIDE DEF active
  <2>3. over = 0
    BY <1>2, <1>3, <2>1, <2>2, LimitedTake
  <2>4. CASE p # q
    <3>1. used'[g][p] = used[g][p]
      BY <1>3, <2>1, <2>4 DEF priceFactsFromGrantStates
    <3>. QED
      BY <1>4, <3>1 DEF Larger
  <2>5. CASE p = q
    <3>1. used'[g][p] = used[g][p] + take[g]
      <4>1. used' = [h \in Grants |-> [used[h] EXCEPT ![q] =
                        used[h][q] + take[h] + IF IsFirst(h, active) THEN over ELSE 0]]
        BY <2>1 DEF priceFactsFromGrantStates
      <4>2. used'[g][p] = used[g][p] + take[g] + IF IsFirst(g, active) THEN over ELSE 0
        BY <1>3, <2>5, <4>1
      <4>. QED
        BY <1>3, <1>4, <2>2, <2>3, <4>2
    <3>2. take[g] <= AtLeastZero(allowance(g) - used[g][p])
      <4>1. CASE g \in active
        BY <2>1, <2>5, <4>1 DEF consumeGrantsByPriority, Room
      <4>2. CASE g \notin active
        BY <1>3, <1>4, <2>1, <4>2 DEF consumeGrantsByPriority, AtLeastZero
      <4>. QED
        BY <4>1, <4>2
    <3>. QED
      BY <1>3, <1>4, <2>2, <3>1, <3>2 DEF AtLeastZero, Larger
  <2>. QED
    BY <2>4, <2>5
<1>6. CASE fact.delta <= 0 /\ priceFactWithEntitlement(time, fact)
  <2>1. used' = used
    BY <1>6 DEF priceFactWithEntitlement
  <2>. QED
    BY <1>4, <2>1 DEF Larger
<1>. QED
  BY <1>5, <1>6 DEF Apply, active, fact

-----------------------------------------------------------------------------
(* The theorems.                                                           *)

\* Every variable keeps its type: no grant gives a negative amount or more than
\* there are prices for, and no period appears that there is not.
THEOREM TypesHold == Spec => []TypeOK
<1>1. IInv => TypeOK
  BY DEF IInv
<1>. QED
  BY InitHolds, NextHolds, <1>1, PTL DEF Spec

\* What was charged for a grant in a period, event by event, is the price of what
\* it gave in it, whatever came in between (priceFactsFromGrantStates).
THEOREM ChargeIsOfUse == Spec => []ChargedForUse
<1>1. IInv => ChargedForUse
  BY DEF IInv
<1>. QED
  BY InitHolds, NextHolds, <1>1, PTL DEF Spec

\* What billing reads of a period nothing was lowered in is never more than a grant
\* gave, and exactly what one gave when the events came in order and whole
\* (value_after of buildMeterFactPayload, and the pipe that reads it).
THEOREM BillsReadUse == Spec => []ReadIsWithinUse
<1>1. IInv => ReadIsWithinUse
  BY DEF IInv
<1>. QED
  BY InitHolds, NextHolds, <1>1, PTL DEF Spec

\* With one price per unit, all that was charged and given back is the price of
\* what the meter stands at while it never sank below zero, and never less
\* (priceFactsFromGrantStates, priceFactWithEntitlement).
THEOREM ChargesTrackMeter == Spec => []LinearTracksMeter
<1>1. TracksMeter => LinearTracksMeter
  BY DEF TracksMeter
<1>. QED
  BY InitTracks, NextTracks, TypesHold, <1>1, PTL DEF Spec

\* What was charged on the way in for a period comes to what its bill makes of the
\* usage, when the grants cover it and none was overdrawn, or the only one was and
\* had an allowance (priceFactsFromGrantStates, rateBillingPeriod).
THEOREM ChargesMatchTheBill == Spec => []MeteredIsRated
<1>1. TypeOK /\ ChargedForUse /\ DrainedInOrder => MeteredIsRated
  BY RatesAsCharged
<1>. QED
  BY InitInOrder, NextKeepsOrder, TypesHold, ChargeIsOfUse, <1>1, PTL DEF Spec

\* An event whose limit is enforced takes no grant past its allowance, whatever
\* unlimited events took before and however the grants overlap
\* (findGrantLimitExceededFact, consumeGrantsByPriority).
THEOREM LimitsHold == Spec => LimitHolds
<1>1. TypeOK /\ TypeOK' =>
        [SyncApply /\ plan.overage = "none" =>
           \A g \in DOMAIN plan.grants, p \in Periods :
              allowance(g) # Unlimited => used'[g][p] <= Larger(used[g][p], allowance(g))]_vars
  BY LimitedApply DEF SyncApply
<1>. QED
  BY TypesHold, <1>1, PTL DEF LimitHolds
=============================================================================
