---------------------------- MODULE WalletProofs ----------------------------
(***************************************************************************)
(* Proofs about module Wallet, for every value of its constants.           *)
(*                                                                         *)
(* The inductive invariant is IInv: types, the bound on every leg, and the *)
(* legs of reservations that are not open.  None is inductive alone: a     *)
(* release adds to a leg what is still reserved on it, which is a natural  *)
(* number only because no leg has spent or returned more than it was given.*)
(*                                                                         *)
(* On top of it Books says that the sums agree: the reserved account and   *)
(* the legs of all reservations, a row and its legs and recorded captures, *)
(* a credit and what reservations hold and spent of it, the live credits   *)
(* and the granted account.  The sums are Total's, and move by what one    *)
(* command writes (SumTheorems).                                           *)
(***************************************************************************)
EXTENDS Wallet, SumTheorems, TLAPS

\* A reservation not opened yet has no money on any leg.
UnopenedIsEmpty ==
  \A r \in Reservations, s \in Slots :
    res[r].status = "none" => leg[r][s] = NoLeg

IInv == TypeOK /\ LegsBounded /\ ReconciledIsEmpty /\ UnopenedIsEmpty

USE BoundsAssumption DEF Reservations, Seqs, Credits

LEMMA LeastIsNat ==
  ASSUME NEW a \in Nat, NEW b \in Nat
  PROVE  Least(a, b) \in Nat /\ Least(a, b) <= a /\ Least(a, b) <= b
BY DEF Least

\* What a drain takes from a credit is there to take.
LEMMA DrainBounded ==
  ASSUME TypeOK, NEW amount \in Nat, NEW at, NEW take \in DrainTakes(amount, at),
         NEW c \in Credits
  PROVE  TakenFrom(take, c) \in Nat /\ TakenFrom(take, c) <= credit[c].remaining
<1>1. credit[c].remaining \in Nat
  BY DEF TypeOK, Credit
<1>2. c \in DOMAIN take => take[c] \in Nat /\ take[c] <= credit[c].remaining
  BY DEF DrainTakes, FifoTakes
<1>. QED
  BY <1>1, <1>2 DEF TakenFrom

\* A drain leaves every credit a credit.
LEMMA DrainedType ==
  ASSUME TypeOK, NEW amount \in Nat, NEW at, NEW take \in DrainTakes(amount, at)
  PROVE  Drained(take) \in [Credits -> Credit]
<1>1. ASSUME NEW c \in Credits
      PROVE  [credit[c] EXCEPT !.remaining = @ - TakenFrom(take, c)] \in Credit
  <2>1. credit[c] \in Credit
    BY DEF TypeOK
  <2>2. credit[c].remaining - TakenFrom(take, c) \in Nat
    BY <2>1, DrainBounded DEF Credit
  <2>. QED
    BY <2>1, <2>2 DEF Credit
<1>. QED
  BY <1>1 DEF Drained

\* What a capture takes from a leg is still reserved on it.
LEMMA CaptureBounded ==
  ASSUME TypeOK, LegsBounded, NEW r \in Reservations, NEW amount \in Nat,
         NEW take \in CaptureTakes(r, amount), NEW s \in Slots
  PROVE  TakenFrom(take, s) \in Nat /\ TakenFrom(take, s) <= StillReserved(leg[r][s])
<1>1. StillReserved(leg[r][s]) \in Nat
  BY DEF TypeOK, LegsBounded, StillReserved, Leg
<1>2. s \in DOMAIN take => take[s] \in Nat /\ take[s] <= StillReserved(leg[r][s])
  BY DEF CaptureTakes, FifoTakes, HoldingSlots
<1>. QED
  BY <1>1, <1>2 DEF TakenFrom

\* The legs of a new batch are legs, and hold all they were given.
LEMMA NewLegsBounded ==
  ASSUME TypeOK, LegsBounded, NEW r \in Reservations, NEW batch,
         NEW amount \in Nat, NEW at, NEW take \in DrainTakes(amount, at),
         NEW purchased \in Nat
  PROVE  /\ NewLegs(r, batch, take, purchased) \in [Slots -> Leg]
         /\ \A s \in Slots :
              LET l == NewLegs(r, batch, take, purchased)[s]
              IN  l.captured + l.released <= l.allocated
<1>1. ASSUME NEW s \in Slots
      PROVE  LET l == NewLegs(r, batch, take, purchased)[s]
             IN  l \in Leg /\ l.captured + l.released <= l.allocated
  <2>1. CASE s[1] # batch
    BY <2>1 DEF NewLegs, TypeOK, LegsBounded
  <2>2. CASE s[1] = batch /\ s[2] = Purchased
    BY <2>2 DEF NewLegs, NoLeg, Leg
  <2>3. CASE s[1] = batch /\ s[2] # Purchased
    <3>1. s[2] \in Credits
      BY <2>3 DEF Slots, Sources
    <3>2. TakenFrom(take, s[2]) \in Nat
      BY <3>1, DrainBounded
    <3>. QED
      BY <2>3, <3>2 DEF NewLegs, NoLeg, Leg
  <2>. QED
    BY <2>1, <2>2, <2>3
<1>. QED
  BY <1>1 DEF NewLegs

LEMMA InitIInv == Init => IInv
BY DEF Init, IInv, TypeOK, LegsBounded, ReconciledIsEmpty, UnopenedIsEmpty, Balances,
       Credit, Reservation, Leg, NoCredit, NoReservation, NoLeg, CreditStatus, LiveStatus,
       ReservationStatus, TopUpStatus, Never, NotRecorded, StillReserved, Active

\* What credits and purchased money gave is reserved.  (The provers take one
\* field of a record at a time.)
LEMMA ReservedBalances ==
  ASSUME bal \in Balances, NEW g \in Nat, NEW p \in Nat,
         g <= bal.granted, p <= bal.purchased
  PROVE  [bal EXCEPT !.granted = @ - g, !.purchased = @ - p, !.reserved = @ + (g + p)]
           \in Balances
<1>. DEFINE b1 == [bal EXCEPT !.granted = @ - g]
            b2 == [b1 EXCEPT !.purchased = @ - p]
            b3 == [b2 EXCEPT !.reserved = @ + (g + p)]
<1>1. [bal EXCEPT !.granted = @ - g, !.purchased = @ - p, !.reserved = @ + (g + p)] = b3
  OBVIOUS
<1>2. b1 \in Balances /\ b1.purchased = bal.purchased
  BY DEF Balances
<1>. HIDE DEF b1
<1>3. b2 \in Balances
  BY <1>2 DEF Balances
<1>. HIDE DEF b2
<1>4. b3 \in Balances
  BY <1>3 DEF Balances
<1>. QED
  BY <1>1, <1>4

\* What is captured moves from reserved to consumed.
LEMMA CapturedBalances ==
  ASSUME bal \in Balances, NEW a \in Nat, a <= bal.reserved
  PROVE  [bal EXCEPT !.reserved = @ - a, !.consumed = @ + a] \in Balances
<1>. DEFINE b1 == [bal EXCEPT !.reserved = @ - a]
            b2 == [b1 EXCEPT !.consumed = @ + a]
<1>1. [bal EXCEPT !.reserved = @ - a, !.consumed = @ + a] = b2
  OBVIOUS
<1>2. b1 \in Balances
  BY DEF Balances
<1>. HIDE DEF b1
<1>3. b2 \in Balances
  BY <1>2 DEF Balances
<1>. QED
  BY <1>1, <1>3

\* What is released goes back to granted and purchased.
LEMMA ReturnedBalancesType ==
  ASSUME bal \in Balances, NEW g \in Nat, NEW p \in Nat, g + p <= bal.reserved
  PROVE  ReturnedBalances(g, p) \in Balances
<1>. DEFINE b1 == [bal EXCEPT !.reserved = @ - g - p]
            b2 == [b1 EXCEPT !.granted = @ + g]
            b3 == [b2 EXCEPT !.purchased = @ + p]
<1>1. ReturnedBalances(g, p) = b3
  BY DEF ReturnedBalances
<1>2. b1 \in Balances
  BY DEF Balances
<1>. HIDE DEF b1
<1>3. b2 \in Balances
  BY <1>2 DEF Balances
<1>. HIDE DEF b2
<1>4. b3 \in Balances
  BY <1>3 DEF Balances
<1>. QED
  BY <1>1, <1>4

\* Money arriving in, or leaving, one account.
LEMMA OneBalanceType ==
  ASSUME bal \in Balances, NEW n \in Nat
  PROVE  /\ [bal EXCEPT !.granted = n] \in Balances
         /\ [bal EXCEPT !.purchased = n] \in Balances
BY DEF Balances

LEMMA ExtendedType ==
  ASSUME NEW x \in Reservation, NEW given \in Nat, x.batches <= MaxSeq
  PROVE  Extended(x, given) \in Reservation /\ Extended(x, given).status = x.status
<1>. DEFINE y == [x EXCEPT !.allocation = @ + given]
            z == [y EXCEPT !.batches = IF given > 0 THEN @ + 1 ELSE @]
<1>1. Extended(x, given) = z
  BY DEF Extended
<1>2. y \in Reservation /\ y.batches = x.batches /\ y.status = x.status
  BY DEF Reservation
<1>. HIDE DEF y
<1>3. z \in Reservation /\ z.status = y.status
  BY <1>2 DEF Reservation
<1>. QED
  BY <1>1, <1>2, <1>3

LEMMA ExpiredType ==
  ASSUME NEW x \in Credit
  PROVE  Expired(x) \in Credit
<1>. DEFINE y == [x EXCEPT !.status = "expired"]
            z == [y EXCEPT !.remaining = 0]
            u == [z EXCEPT !.retired = @ + x.remaining]
<1>1. Expired(x) = u
  BY DEF Expired
<1>2. y \in Credit
  BY DEF Credit, CreditStatus, LiveStatus
<1>. HIDE DEF y
<1>3. z \in Credit
  BY <1>2 DEF Credit
<1>. HIDE DEF z
<1>4. u \in Credit
  BY <1>3 DEF Credit
<1>. QED
  BY <1>1, <1>4

-----------------------------------------------------------------------------
(* One lemma per command that writes a reservation.                        *)

\* A command that leaves reservations and legs alone only has to keep types.
LEMMA LegsUntouched ==
  ASSUME IInv, TypeOK', UNCHANGED <<leg, res>>
  PROVE  IInv'
BY DEF IInv, LegsBounded, ReconciledIsEmpty, UnopenedIsEmpty, Active

LEMMA CreateIInv ==
  ASSUME IInv, NEW r \in Reservations, NEW w \in Windows, NEW requested \in Amounts,
         NEW at, CreateReservation(r, w, requested, at)
  PROVE  IInv'
<1>. USE DEF IInv
<1>1. PICK take \in DrainTakes(requested, at), granted \in 0 .. requested :
        /\ granted <= bal.granted
        /\ LET purchased == Least(requested - granted, bal.purchased)
               given == granted + purchased
           IN  /\ credit' = Drained(take)
               /\ bal' = [bal EXCEPT !.granted = @ - granted,
                                     !.purchased = @ - purchased,
                                     !.reserved = @ + given]
               /\ leg' = [leg EXCEPT ![r] = NewLegs(r, 1, take, purchased)]
               /\ res' = [res EXCEPT ![r] =
                            [status |-> "active", window |-> w, allocation |-> given,
                             consumed |-> 0, batches |-> IF given > 0 THEN 1 ELSE 0]]
  BY DEF CreateReservation
<1>. DEFINE purchased == Least(requested - granted, bal.purchased)
            given == granted + purchased
<1>2. requested \in Nat /\ granted \in Nat /\ requested - granted \in Nat
  BY DEF Amounts
<1>3. purchased \in Nat /\ purchased <= bal.purchased
  BY <1>2, LeastIsNat DEF TypeOK, Balances
<1>4. credit' \in [Credits -> Credit]
  BY <1>1, <1>2, DrainedType
<1>5. bal' \in Balances
  <2>1. bal' = [bal EXCEPT !.granted = @ - granted, !.purchased = @ - purchased,
                           !.reserved = @ + (granted + purchased)]
    BY <1>1
  <2>2. granted <= bal.granted
    BY <1>1
  <2>. HIDE DEF purchased
  <2>. QED
    BY <1>2, <1>3, <2>1, <2>2, ReservedBalances DEF TypeOK
<1>6. res' \in [Reservations -> Reservation]
  <2>1. given \in Nat
    BY <1>2, <1>3
  <2>. QED
    BY <1>1, <2>1 DEF TypeOK, Reservation, ReservationStatus
<1>7. /\ leg' \in [Reservations -> [Slots -> Leg]]
      /\ LegsBounded'
  <2>. DEFINE new == NewLegs(r, 1, take, purchased)
  <2>1. /\ new \in [Slots -> Leg]
        /\ \A s \in Slots : new[s].captured + new[s].released <= new[s].allocated
    BY <1>1, <1>2, <1>3, NewLegsBounded
  <2>2. leg' = [leg EXCEPT ![r] = new]
    BY <1>1
  <2>. HIDE DEF new
  <2>. QED
    BY <2>1, <2>2 DEF TypeOK, LegsBounded
<1>8. TypeOK'
  BY <1>4, <1>5, <1>6, <1>7 DEF TypeOK, CreateReservation
<1>9. \A q \in Reservations : q # r => res'[q] = res[q] /\ leg'[q] = leg[q]
  BY <1>1 DEF TypeOK
<1>10. res'[r].status = "active"
  BY <1>1 DEF TypeOK
<1>. QED
  BY <1>7, <1>8, <1>9, <1>10 DEF ReconciledIsEmpty, UnopenedIsEmpty, Active, StillReserved

LEMMA CaptureIInv ==
  ASSUME IInv, NEW r \in Reservations, NEW seq \in Seqs, NEW amount \in 0 .. MaxAmount,
         CaptureReservationUsage(r, seq, amount)
  PROVE  IInv'
<1>. USE DEF IInv
<1>1. PICK take \in CaptureTakes(r, amount) :
        leg' = [leg EXCEPT ![r] =
                  [s \in Slots |-> [leg[r][s] EXCEPT !.captured = @ + TakenFrom(take, s)]]]
  BY DEF CaptureReservationUsage
<1>2. amount \in Nat
  OBVIOUS
<1>3. ASSUME NEW s \in Slots
      PROVE  /\ leg'[r][s] \in Leg
             /\ leg'[r][s].captured + leg'[r][s].released <= leg'[r][s].allocated
  <2>1. leg[r][s] \in Leg /\ leg[r][s].captured + leg[r][s].released <= leg[r][s].allocated
    BY DEF TypeOK, LegsBounded
  <2>2. TakenFrom(take, s) \in Nat /\ TakenFrom(take, s) <= StillReserved(leg[r][s])
    BY <1>1, <1>2, CaptureBounded
  <2>3. leg'[r][s] = [leg[r][s] EXCEPT !.captured = @ + TakenFrom(take, s)]
    BY <1>1 DEF TypeOK
  <2>. QED
    BY <2>1, <2>2, <2>3 DEF Leg, StillReserved
<1>4. leg' \in [Reservations -> [Slots -> Leg]] /\ LegsBounded'
  <2>1. leg'[r] \in [Slots -> Leg]
    <3>1. leg'[r] = [s \in Slots |-> [leg[r][s] EXCEPT !.captured = @ + TakenFrom(take, s)]]
      BY <1>1 DEF TypeOK
    <3>. QED
      BY <1>3, <3>1
  <2>2. \A q \in Reservations : q # r => leg'[q] = leg[q]
    BY <1>1 DEF TypeOK
  <2>3. leg' = [q \in Reservations |-> leg'[q]]
    BY <1>1 DEF TypeOK
  <2>. QED
    BY <1>3, <2>1, <2>2, <2>3 DEF TypeOK, LegsBounded
<1>5. /\ res' = [res EXCEPT ![r].consumed = @ + amount]
      /\ bal' = [bal EXCEPT !.reserved = @ - amount, !.consumed = @ + amount]
      /\ amount <= bal.reserved
      /\ captureLog' = [captureLog EXCEPT ![r][seq] = amount]
      /\ UNCHANGED <<credit, extendLog, topup, due, now>>
  BY DEF CaptureReservationUsage
<1>6. TypeOK'
  <2>1. bal' \in Balances
    BY <1>2, <1>5, CapturedBalances DEF TypeOK
  <2>2. res' \in [Reservations -> Reservation]
    <3>. DEFINE row == [res[r] EXCEPT !.consumed = @ + amount]
    <3>1. row \in Reservation
      <4>1. res[r] \in Reservation
        BY DEF TypeOK
      <4>. QED
        BY <1>2, <4>1 DEF Reservation
    <3>2. res' = [res EXCEPT ![r] = row]
      BY <1>5
    <3>. HIDE DEF row
    <3>. QED
      BY <3>1, <3>2 DEF TypeOK
  <2>3. captureLog' \in [Reservations -> [Seqs -> Nat \cup {NotRecorded}]]
    BY <1>2, <1>5 DEF TypeOK
  <2>. QED
    BY <1>4, <1>5, <2>1, <2>2, <2>3 DEF TypeOK
<1>7. res[r].status = "active" /\ \A q \in Reservations : res'[q].status = res[q].status
  BY <1>5 DEF TypeOK, Reservation, CaptureReservationUsage, Active
<1>8. \A q \in Reservations : q # r => leg'[q] = leg[q]
  BY <1>1 DEF TypeOK
<1>. QED
  BY <1>4, <1>6, <1>7, <1>8 DEF ReconciledIsEmpty, UnopenedIsEmpty, Active

LEMMA ExtendIInv ==
  ASSUME IInv, NEW r \in Reservations, NEW seq \in Seqs, NEW requested \in 0 .. MaxAmount,
         NEW at, ExtendReservation(r, seq, requested, at)
  PROVE  IInv'
<1>. USE DEF IInv
<1>1. PICK take \in DrainTakes(requested, at), granted \in 0 .. requested :
        /\ granted <= bal.granted
        /\ LET purchased == Least(requested - granted, bal.purchased)
               given == granted + purchased
           IN  /\ credit' = Drained(take)
               /\ bal' = [bal EXCEPT !.granted = @ - granted,
                                     !.purchased = @ - purchased,
                                     !.reserved = @ + given]
               /\ leg' = IF given > 0
                         THEN [leg EXCEPT ![r] =
                                 NewLegs(r, res[r].batches + 1, take, purchased)]
                         ELSE leg
               /\ res' = [res EXCEPT ![r] = Extended(res[r], given)]
               /\ extendLog' = [extendLog EXCEPT ![r][seq] = given]
  BY DEF ExtendReservation
<1>. DEFINE purchased == Least(requested - granted, bal.purchased)
            given == granted + purchased
<1>2. requested \in Nat /\ granted \in Nat /\ requested - granted \in Nat
  OBVIOUS
<1>3. purchased \in Nat /\ purchased <= bal.purchased /\ given \in Nat
  <2>1. purchased \in Nat /\ purchased <= bal.purchased
    BY <1>2, LeastIsNat DEF TypeOK, Balances
  <2>. HIDE DEF purchased
  <2>. QED
    BY <1>2, <2>1
<1>4. credit' \in [Credits -> Credit]
  BY <1>1, <1>2, DrainedType
<1>5. bal' \in Balances
  <2>1. bal' = [bal EXCEPT !.granted = @ - granted, !.purchased = @ - purchased,
                           !.reserved = @ + (granted + purchased)]
    BY <1>1
  <2>2. granted <= bal.granted
    BY <1>1
  <2>. HIDE DEF purchased
  <2>. QED
    BY <1>2, <1>3, <2>1, <2>2, ReservedBalances DEF TypeOK
<1>6. /\ res' \in [Reservations -> Reservation]
      /\ \A q \in Reservations : res'[q].status = res[q].status
  <2>1. res' = [res EXCEPT ![r] = Extended(res[r], given)]
    BY <1>1
  <2>2. res[r] \in Reservation /\ res[r].batches <= MaxSeq
    BY DEF TypeOK, ExtendReservation
  <2>3. Extended(res[r], given) \in Reservation /\ Extended(res[r], given).status = res[r].status
    BY <1>3, <2>2, ExtendedType
  <2>. HIDE DEF given
  <2>. QED
    BY <2>1, <2>3 DEF TypeOK
<1>7. /\ leg' \in [Reservations -> [Slots -> Leg]]
      /\ LegsBounded'
      /\ \A q \in Reservations : q # r => leg'[q] = leg[q]
  <2>. DEFINE new == NewLegs(r, res[r].batches + 1, take, purchased)
  <2>1. /\ new \in [Slots -> Leg]
        /\ \A s \in Slots : new[s].captured + new[s].released <= new[s].allocated
    BY <1>1, <1>2, <1>3, NewLegsBounded
  <2>2. leg' = [leg EXCEPT ![r] = new] \/ leg' = leg
    BY <1>1
  <2>. HIDE DEF new
  <2>. QED
    BY <2>1, <2>2 DEF TypeOK, LegsBounded
<1>8. extendLog' \in [Reservations -> [Seqs -> Nat \cup {NotRecorded}]]
  <2>1. extendLog' = [extendLog EXCEPT ![r][seq] = given]
    BY <1>1
  <2>. HIDE DEF given
  <2>. QED
    BY <1>3, <2>1 DEF TypeOK
<1>9. TypeOK'
  BY <1>4, <1>5, <1>6, <1>7, <1>8 DEF TypeOK, ExtendReservation
<1>10. res[r].status = "active"
  BY DEF ExtendReservation, Active
<1>. QED
  BY <1>6, <1>7, <1>9, <1>10 DEF ReconciledIsEmpty, UnopenedIsEmpty, Active

LEMMA ReleaseIInv ==
  ASSUME IInv, NEW r \in Reservations, ReleaseReservation(r)
  PROVE  IInv'
<1>. USE DEF IInv
<1>1. PICK back \in [Sources -> 0 .. bal.reserved], granted \in 0 .. bal.reserved :
        /\ granted + back[Purchased] <= bal.reserved
        /\ credit' = [c \in Credits |-> [credit[c] EXCEPT !.remaining = @ + back[c]]]
        /\ bal' = ReturnedBalances(granted, back[Purchased])
  BY DEF ReleaseReservation
<1>2. bal.reserved \in Nat
  BY DEF TypeOK, Balances
<1>3. \A x \in Sources : back[x] \in Nat
  BY <1>2
<1>4. credit' \in [Credits -> Credit]
  <2>1. ASSUME NEW c \in Credits
        PROVE  [credit[c] EXCEPT !.remaining = @ + back[c]] \in Credit
    <3>1. credit[c] \in Credit
      BY DEF TypeOK
    <3>2. back[c] \in Nat
      BY <1>3 DEF Sources
    <3>. QED
      BY <3>1, <3>2 DEF Credit
  <2>. QED
    BY <1>1, <2>1
<1>5. bal' \in Balances
  <2>1. granted \in Nat /\ back[Purchased] \in Nat
    BY <1>2, <1>3 DEF Sources
  <2>. QED
    BY <1>1, <2>1, ReturnedBalancesType DEF TypeOK
<1>6. /\ res' = [res EXCEPT ![r].status = "reconciled"]
      /\ leg' = [leg EXCEPT ![r] = ReleasedLegs(r)]
      /\ UNCHANGED <<captureLog, extendLog, topup, due, now>>
  BY DEF ReleaseReservation
<1>7. res' \in [Reservations -> Reservation]
  BY <1>6 DEF TypeOK, Reservation, ReservationStatus
<1>8. ASSUME NEW s \in Slots
      PROVE  /\ ReleasedLegs(r)[s] \in Leg
             /\ ReleasedLegs(r)[s].captured + ReleasedLegs(r)[s].released
                  <= ReleasedLegs(r)[s].allocated
             /\ StillReserved(ReleasedLegs(r)[s]) = 0
  <2>1. leg[r][s] \in Leg /\ leg[r][s].captured + leg[r][s].released <= leg[r][s].allocated
    BY DEF TypeOK, LegsBounded
  <2>2. ReleasedLegs(r)[s] = [leg[r][s] EXCEPT !.released = @ + StillReserved(leg[r][s])]
    BY DEF ReleasedLegs
  <2>. QED
    BY <2>1, <2>2 DEF Leg, StillReserved
<1>9. ReleasedLegs(r) \in [Slots -> Leg]
  BY <1>8 DEF ReleasedLegs
<1>10. /\ leg' \in [Reservations -> [Slots -> Leg]]
       /\ leg'[r] = ReleasedLegs(r)
       /\ \A q \in Reservations : q # r => leg'[q] = leg[q]
  BY <1>6, <1>9 DEF TypeOK
<1>11. TypeOK'
  BY <1>4, <1>5, <1>6, <1>7, <1>10 DEF TypeOK
<1>12. LegsBounded' /\ ReconciledIsEmpty'
  BY <1>6, <1>8, <1>10 DEF TypeOK, LegsBounded, ReconciledIsEmpty, Active
<1>13. UnopenedIsEmpty'
  <2>1. res'[r].status = "reconciled" /\ \A q \in Reservations : q # r => res'[q] = res[q]
    BY <1>6 DEF TypeOK, Reservation
  <2>. QED
    BY <1>10, <2>1 DEF UnopenedIsEmpty
<1>. QED
  BY <1>11, <1>12, <1>13

-----------------------------------------------------------------------------
(* The commands and sweep steps that leave reservations alone: they only   *)
(* have to keep types.                                                     *)

LEMMA IssueIInv ==
  ASSUME IInv, NEW c \in Credits, NEW amount \in Amounts, NEW expires \in now + 1 .. Never,
         IssueCredit(c, amount, expires)
  PROVE  IInv'
<1>. USE DEF IInv
<1>1. amount \in Nat /\ expires \in 1 .. Never
  BY DEF Amounts, TypeOK, Never
<1>2. credit' \in [Credits -> Credit]
  BY <1>1 DEF IssueCredit, TypeOK, Credit, CreditStatus, LiveStatus
<1>3. bal' \in Balances
  <2>1. bal.granted + amount \in Nat
    BY <1>1 DEF TypeOK, Balances
  <2>2. bal' = [bal EXCEPT !.granted = bal.granted + amount]
    BY DEF IssueCredit
  <2>. QED
    BY <2>1, <2>2, OneBalanceType DEF TypeOK
<1>. QED
  BY <1>2, <1>3, LegsUntouched DEF IssueCredit, TypeOK

LEMMA PurchasedIInv ==
  ASSUME IInv, NEW amount \in Amounts, AddPurchased(amount) \/ ClawBackPurchased(amount)
  PROVE  IInv'
<1>. USE DEF IInv
<1>1. amount \in Nat /\ bal.purchased \in Nat
  BY DEF Amounts, TypeOK, Balances
<1>2. PICK p \in Nat : bal' = [bal EXCEPT !.purchased = p]
  <2>1. CASE AddPurchased(amount)
    <3>1. bal.purchased + amount \in Nat
      BY <1>1
    <3>. QED
      BY <2>1, <3>1 DEF AddPurchased
  <2>2. CASE ClawBackPurchased(amount)
    <3>1. bal.purchased - Least(amount, bal.purchased) \in Nat
      BY <1>1 DEF Least
    <3>. QED
      BY <2>2, <3>1 DEF ClawBackPurchased
  <2>. QED
    BY <2>1, <2>2
<1>3. bal' \in Balances
  BY <1>2, OneBalanceType DEF TypeOK
<1>. QED
  BY <1>3, LegsUntouched DEF AddPurchased, ClawBackPurchased, TypeOK

LEMMA ClawBackGrantedIInv ==
  ASSUME IInv, NEW amount \in Amounts, ClawBackGranted(amount)
  PROVE  IInv'
<1>. USE DEF IInv
<1>1. amount \in Nat
  BY DEF Amounts
<1>2. PICK take \in DrainTakes(amount, now), drained \in 1 .. amount :
        /\ drained <= bal.granted
        /\ credit' = [c \in Credits |->
                        [Drained(take)[c] EXCEPT !.retired = @ + TakenFrom(take, c)]]
        /\ bal' = [bal EXCEPT !.granted = @ - drained]
  BY DEF ClawBackGranted
<1>3. ASSUME NEW c \in Credits
      PROVE  [Drained(take)[c] EXCEPT !.retired = @ + TakenFrom(take, c)] \in Credit
  <2>1. Drained(take)[c] \in Credit
    BY <1>1, DrainedType
  <2>2. TakenFrom(take, c) \in Nat
    BY <1>1, DrainBounded
  <2>. QED
    BY <2>1, <2>2 DEF Credit
<1>4. credit' \in [Credits -> Credit]
  BY <1>2, <1>3
<1>5. bal' \in Balances
  <2>1. bal.granted - drained \in Nat
    BY <1>1, <1>2 DEF TypeOK, Balances
  <2>. QED
    BY <1>2, <2>1, OneBalanceType DEF TypeOK
<1>. QED
  BY <1>4, <1>5, LegsUntouched DEF ClawBackGranted, TypeOK

LEMMA TopUpIInv ==
  ASSUME IInv, NEW t \in TopUps,
         \/ InsertTopUp(t) \/ FailTopUp(t) \/ StoreTopUpSession(t)
         \/ \E paid \in Amounts : SettleTopUp(t, paid)
  PROVE  IInv'
<1>. USE DEF IInv
<1>1. topup' \in [TopUps -> TopUpStatus]
  BY DEF TypeOK, TopUpStatus, InsertTopUp, FailTopUp, StoreTopUpSession, SettleTopUp
<1>2. bal' \in Balances
  <2>1. CASE \E paid \in Amounts : SettleTopUp(t, paid)
    <3>1. PICK paid \in Amounts : bal' = [bal EXCEPT !.purchased = bal.purchased + paid]
      BY <2>1 DEF SettleTopUp
    <3>2. bal.purchased + paid \in Nat
      BY DEF TypeOK, Balances, Amounts
    <3>. QED
      BY <3>1, <3>2, OneBalanceType DEF TypeOK
  <2>. QED
    BY <2>1 DEF TypeOK, InsertTopUp, FailTopUp, StoreTopUpSession
<1>. QED
  BY <1>1, <1>2, LegsUntouched DEF TypeOK, InsertTopUp, FailTopUp, StoreTopUpSession, SettleTopUp

LEMMA SweepIInv ==
  ASSUME IInv, SweepScan \/ SweepCrash \/ (\E c \in Credits : SweepOne(c))
  PROVE  IInv'
<1>. USE DEF IInv
<1>1. CASE SweepScan
  <2>1. due' \subseteq Credits
    BY <1>1 DEF SweepScan, kSubset
  <2>. QED
    BY <1>1, <2>1, LegsUntouched DEF SweepScan, TypeOK
<1>2. CASE SweepCrash
  BY <1>2, LegsUntouched DEF SweepCrash, TypeOK
<1>3. ASSUME NEW c \in Credits, SweepOne(c)
      PROVE  IInv'
  <2>1. credit[c] \in Credit /\ Expired(credit[c]) \in Credit /\ credit[c].remaining \in Nat
    BY ExpiredType DEF TypeOK, Credit
  <2>2. credit' \in [Credits -> Credit]
    BY <1>3, <2>1 DEF SweepOne, StampEmpty, ExpireGrant, SkipGrant, TypeOK
  <2>3. CASE ExpireGrant(c)
    <3>1. bal.granted \in Nat /\ credit[c].remaining <= bal.granted
      BY <2>3 DEF ExpireGrant, TypeOK, Balances
    <3>2. bal.granted - credit[c].remaining \in Nat
      BY <2>1, <3>1
    <3>3. bal' = [bal EXCEPT !.granted = bal.granted - credit[c].remaining]
      BY <2>3 DEF ExpireGrant
    <3>. QED
      BY <1>3, <2>2, <3>2, <3>3, OneBalanceType, LegsUntouched DEF SweepOne, TypeOK
  <2>4. CASE StampEmpty(c) \/ SkipGrant(c)
    <3>1. bal' = bal
      BY <2>4 DEF StampEmpty, SkipGrant
    <3>. QED
      BY <1>3, <2>2, <3>1, LegsUntouched DEF SweepOne, TypeOK
  <2>. QED
    BY <1>3, <2>3, <2>4 DEF SweepOne
<1>. QED
  BY <1>1, <1>2, <1>3

LEMMA NextIInv == IInv /\ [Next]_vars => IInv'
<1>. SUFFICES ASSUME IInv, [Next]_vars
              PROVE  IInv'
  OBVIOUS
<1>1. CASE ReservationStep
  BY <1>1, CreateIInv, CaptureIInv, ExtendIInv, ReleaseIInv DEF ReservationStep
<1>2. CASE FundingStep
  BY <1>2, IssueIInv, PurchasedIInv, ClawBackGrantedIInv, TopUpIInv DEF FundingStep
<1>3. CASE SweepStep \/ SweepCrash
  BY <1>3, SweepIInv DEF SweepStep
<1>4. CASE Tick
  BY <1>4, LegsUntouched DEF Tick, IInv, TypeOK
<1>5. CASE UNCHANGED vars
  BY <1>5, LegsUntouched DEF vars, IInv, TypeOK
<1>. QED
  BY <1>1, <1>2, <1>3, <1>4, <1>5 DEF Next

\* The inductive invariant holds in every reachable state of the wallet.
THEOREM IInvHolds == Spec => []IInv
BY InitIInv, NextIInv, PTL DEF Spec

\* No command of the wallet, in any order, takes a balance, a credit or a leg
\* below zero or out of its type: drains, captures, releases, claw backs and
\* expirations stop at what is there.
THEOREM TypesHold == Spec => []TypeOK
<1>1. IInv => TypeOK
  BY DEF IInv
<1>. QED
  BY <1>1, IInvHolds, PTL

\* No leg is captured and released beyond what it was given, whatever captures,
\* extensions and releases callers send: a leg's money is spent once.
THEOREM LegsStayBounded == Spec => []LegsBounded
<1>1. IInv => LegsBounded
  BY DEF IInv
<1>. QED
  BY <1>1, IInvHolds, PTL

\* releaseReservation leaves nothing behind: no leg of a reservation that is
\* not active holds money.
THEOREM ReleasedHoldNothing == Spec => []ReconciledIsEmpty
<1>1. IInv => ReconciledIsEmpty
  BY DEF IInv
<1>. QED
  BY <1>1, IInvHolds, PTL

-----------------------------------------------------------------------------
(* Which reservation rows a step may write.                                *)

\* A step writes at most one reservation, and never one that is reconciled.
LEMMA OneRowWritten ==
  ASSUME IInv, [Next]_vars
  PROVE  \/ UNCHANGED <<res, leg>>
         \/ \E r \in Reservations :
              /\ res[r].status # "reconciled"
              /\ \A q \in Reservations : q # r => res'[q] = res[q] /\ leg'[q] = leg[q]
<1>. USE DEF IInv, TypeOK
<1>1. ASSUME NEW r \in Reservations, NEW w \in Windows, NEW requested \in Amounts,
             NEW at, CreateReservation(r, w, requested, at)
      PROVE  /\ res[r].status # "reconciled"
             /\ \A q \in Reservations : q # r => res'[q] = res[q] /\ leg'[q] = leg[q]
  BY <1>1 DEF CreateReservation, NextReservation
<1>2. ASSUME NEW r \in Reservations, NEW seq \in Seqs, NEW amount \in 0 .. MaxAmount,
             CaptureReservationUsage(r, seq, amount)
      PROVE  /\ res[r].status # "reconciled"
             /\ \A q \in Reservations : q # r => res'[q] = res[q] /\ leg'[q] = leg[q]
  BY <1>2 DEF CaptureReservationUsage, Active
<1>3. ASSUME NEW r \in Reservations, NEW seq \in Seqs, NEW requested \in 0 .. MaxAmount,
             NEW at, ExtendReservation(r, seq, requested, at)
      PROVE  /\ res[r].status # "reconciled"
             /\ \A q \in Reservations : q # r => res'[q] = res[q] /\ leg'[q] = leg[q]
  BY <1>3 DEF ExtendReservation, Active
<1>4. ASSUME NEW r \in Reservations, ReleaseReservation(r)
      PROVE  /\ res[r].status # "reconciled"
             /\ \A q \in Reservations : q # r => res'[q] = res[q] /\ leg'[q] = leg[q]
  BY <1>4 DEF ReleaseReservation, Active
<1>5. CASE ReservationStep
  BY <1>1, <1>2, <1>3, <1>4, <1>5 DEF ReservationStep
<1>6. CASE FundingStep
  BY <1>6 DEF FundingStep, IssueCredit, AddPurchased, ClawBackGranted, ClawBackPurchased,
              InsertTopUp, FailTopUp, StoreTopUpSession, SettleTopUp
<1>7. CASE SweepStep \/ SweepCrash \/ Tick \/ UNCHANGED vars
  BY <1>7 DEF SweepStep, SweepScan, SweepOne, SweepCrash, Tick, vars
<1>. QED
  BY <1>5, <1>6, <1>7 DEF Next

\* The reservation a command may make active is the one createReservation
\* inserts, and only for a window that has none.
LEMMA ActiveOnlyByCreate ==
  ASSUME IInv, [Next]_vars
  PROVE  \/ \A r \in Reservations : Active(r)' => Active(r) /\ res'[r].window = res[r].window
         \/ \E r \in Reservations, w \in Windows :
              /\ ~HasActive(w)
              /\ res'[r].window = w
              /\ \A q \in Reservations : q # r => res'[q] = res[q]
<1>. USE DEF IInv, TypeOK
<1>1. ASSUME NEW r \in Reservations, NEW w \in Windows, NEW requested \in Amounts,
             NEW at, CreateReservation(r, w, requested, at)
      PROVE  /\ ~HasActive(w)
             /\ res'[r].window = w
             /\ \A q \in Reservations : q # r => res'[q] = res[q]
  BY <1>1 DEF CreateReservation
<1>2. ASSUME NEW r \in Reservations, NEW seq \in Seqs, NEW amount \in 0 .. MaxAmount,
             CaptureReservationUsage(r, seq, amount)
      PROVE  \A q \in Reservations : Active(q)' => Active(q) /\ res'[q].window = res[q].window
  <2>1. res' = [res EXCEPT ![r].consumed = res[r].consumed + amount]
    BY <1>2 DEF CaptureReservationUsage
  <2>. QED
    BY <2>1 DEF Active, Reservation
<1>3. ASSUME NEW r \in Reservations, NEW seq \in Seqs, NEW requested \in 0 .. MaxAmount,
             NEW at, ExtendReservation(r, seq, requested, at)
      PROVE  \A q \in Reservations : Active(q)' => Active(q) /\ res'[q].window = res[q].window
  <2>1. PICK given : res' = [res EXCEPT ![r] = Extended(res[r], given)]
    BY <1>3 DEF ExtendReservation
  <2>2. Extended(res[r], given).window = res[r].window /\ Active(r)
    BY <1>3 DEF ExtendReservation, Extended, Reservation
  <2>. QED
    BY <2>1, <2>2 DEF Active
<1>4. ASSUME NEW r \in Reservations, ReleaseReservation(r)
      PROVE  \A q \in Reservations : Active(q)' => Active(q) /\ res'[q].window = res[q].window
  BY <1>4 DEF ReleaseReservation, Active, Reservation
<1>5. CASE ReservationStep
  BY <1>1, <1>2, <1>3, <1>4, <1>5 DEF ReservationStep
<1>6. CASE UNCHANGED res
  BY <1>6 DEF Active
<1>7. CASE FundingStep
  BY <1>6, <1>7 DEF FundingStep, IssueCredit, AddPurchased, ClawBackGranted, ClawBackPurchased,
              InsertTopUp, FailTopUp, StoreTopUpSession, SettleTopUp
<1>8. CASE SweepStep \/ SweepCrash \/ Tick \/ UNCHANGED vars
  BY <1>6, <1>8 DEF SweepStep, SweepScan, SweepOne, SweepCrash, Tick, vars
<1>. QED
  BY <1>5, <1>7, <1>8 DEF Next

\* However bootstraps, retries and releases interleave, createReservation never
\* leaves an (entitlement, period) with two active reservations.
THEOREM WindowsHaveOneActive == Spec => []OneActivePerWindow
<1>1. Init => OneActivePerWindow
  BY DEF Init, OneActivePerWindow, Active, NoReservation
<1>2. IInv /\ OneActivePerWindow /\ [Next]_vars => OneActivePerWindow'
  <2>. SUFFICES ASSUME IInv, OneActivePerWindow, [Next]_vars
                PROVE  OneActivePerWindow'
    OBVIOUS
  <2>1. CASE \A r \in Reservations : Active(r)' => Active(r) /\ res'[r].window = res[r].window
    BY <2>1 DEF OneActivePerWindow
  <2>2. ASSUME NEW r \in Reservations, NEW w \in Windows, ~HasActive(w),
               res'[r].window = w, \A q \in Reservations : q # r => res'[q] = res[q]
        PROVE  OneActivePerWindow'
    BY <2>2 DEF OneActivePerWindow, HasActive, Active
  <2>. QED
    BY <2>1, <2>2, ActiveOnlyByCreate
<1>. QED
  BY <1>1, <1>2, IInvHolds, PTL DEF Spec

\* Once releaseReservation has reconciled a reservation, no late capture,
\* extension or second release changes its row or its legs.
THEOREM ReconciledStaysFrozen == Spec => ReconciledIsFrozen
<1>1. IInv /\ [Next]_vars =>
        [\A r \in Reservations :
           res[r].status = "reconciled" => res'[r] = res[r] /\ leg'[r] = leg[r]]_vars
  <2>. SUFFICES ASSUME IInv, [Next]_vars,
                       NEW r \in Reservations, res[r].status = "reconciled"
                PROVE  res'[r] = res[r] /\ leg'[r] = leg[r]
    OBVIOUS
  <2>. QED
    BY OneRowWritten
<1>. QED
  BY <1>1, IInvHolds, PTL DEF Spec, ReconciledIsFrozen

-----------------------------------------------------------------------------
(* Where money that leaves the reserved account goes.                      *)

\* What is drained into a reservation only moves within the customer's money.
LEMMA ReservingKeepsFunds ==
  ASSUME bal \in Balances, NEW g \in Nat, NEW p \in Nat,
         bal' = [bal EXCEPT !.granted = @ - g, !.purchased = @ - p, !.reserved = @ + (g + p)]
  PROVE  bal'.reserved >= bal.reserved
BY DEF Balances

LEMMA CapturingKeepsFunds ==
  ASSUME bal \in Balances, NEW a \in Nat,
         bal' = [bal EXCEPT !.reserved = @ - a, !.consumed = @ + a]
  PROVE  Funds' = Funds
BY DEF Balances, Funds

LEMMA ReturningKeepsFunds ==
  ASSUME bal \in Balances, NEW g \in Nat, NEW p \in Nat, bal' = ReturnedBalances(g, p)
  PROVE  Funds' = Funds
BY DEF Balances, Funds, ReturnedBalances

\* Captured money becomes consumed and released money becomes available again:
\* no command of any caller takes a customer's reserved money back to the
\* platform, which only claw backs and expirations do, from what is not reserved.
THEOREM ReservedIsNeverClawedBack == Spec => ReservedStaysWithCustomer
<1>1. IInv /\ [Next]_vars => [bal'.reserved < bal.reserved => Funds' = Funds]_vars
  <2>. SUFFICES ASSUME IInv, [Next]_vars
                PROVE  bal'.reserved < bal.reserved => Funds' = Funds
    OBVIOUS
  <2>0. bal.reserved \in Nat /\ bal'.reserved \in Nat
    <3>1. IInv'
      BY NextIInv
    <3>. QED
      BY <3>1 DEF IInv, TypeOK, Balances
  <2>. USE DEF IInv
  <2>1. bal \in Balances
    BY DEF TypeOK
  <2>2. ASSUME NEW r \in Reservations, NEW w \in Windows, NEW requested \in Amounts,
               NEW at, CreateReservation(r, w, requested, at)
        PROVE  bal'.reserved >= bal.reserved
    <3>1. PICK granted \in 0 .. requested :
            LET purchased == Least(requested - granted, bal.purchased)
            IN  bal' = [bal EXCEPT !.granted = @ - granted, !.purchased = @ - purchased,
                                   !.reserved = @ + (granted + purchased)]
      BY <2>2 DEF CreateReservation
    <3>. DEFINE purchased == Least(requested - granted, bal.purchased)
    <3>2. granted \in Nat /\ purchased \in Nat
      <4>1. granted \in Nat /\ requested - granted \in Nat /\ bal.purchased \in Nat
        BY <2>1 DEF Amounts, Balances
      <4>. QED
        BY <4>1, LeastIsNat
    <3>3. bal' = [bal EXCEPT !.granted = @ - granted, !.purchased = @ - purchased,
                             !.reserved = @ + (granted + purchased)]
      BY <3>1
    <3>. HIDE DEF purchased
    <3>. QED
      BY <2>1, <3>2, <3>3, ReservingKeepsFunds
  <2>3. ASSUME NEW r \in Reservations, NEW seq \in Seqs, NEW amount \in 0 .. MaxAmount,
               CaptureReservationUsage(r, seq, amount)
        PROVE  Funds' = Funds
    <3>1. amount \in Nat
      OBVIOUS
    <3>2. bal' = [bal EXCEPT !.reserved = @ - amount, !.consumed = @ + amount]
      BY <2>3 DEF CaptureReservationUsage
    <3>. QED
      BY <2>1, <3>1, <3>2, CapturingKeepsFunds
  <2>4. ASSUME NEW r \in Reservations, NEW seq \in Seqs, NEW requested \in 0 .. MaxAmount,
               NEW at, ExtendReservation(r, seq, requested, at)
        PROVE  bal'.reserved >= bal.reserved
    <3>1. PICK granted \in 0 .. requested :
            LET purchased == Least(requested - granted, bal.purchased)
            IN  bal' = [bal EXCEPT !.granted = @ - granted, !.purchased = @ - purchased,
                                   !.reserved = @ + (granted + purchased)]
      BY <2>4 DEF ExtendReservation
    <3>. DEFINE purchased == Least(requested - granted, bal.purchased)
    <3>2. granted \in Nat /\ purchased \in Nat
      <4>1. granted \in Nat /\ requested - granted \in Nat /\ bal.purchased \in Nat
        BY <2>1 DEF Balances
      <4>. QED
        BY <4>1, LeastIsNat
    <3>3. bal' = [bal EXCEPT !.granted = @ - granted, !.purchased = @ - purchased,
                             !.reserved = @ + (granted + purchased)]
      BY <3>1
    <3>. HIDE DEF purchased
    <3>. QED
      BY <2>1, <3>2, <3>3, ReservingKeepsFunds
  <2>5. ASSUME NEW r \in Reservations, ReleaseReservation(r)
        PROVE  Funds' = Funds
    <3>1. PICK back \in [Sources -> 0 .. bal.reserved], granted \in 0 .. bal.reserved :
            bal' = ReturnedBalances(granted, back[Purchased])
      BY <2>5 DEF ReleaseReservation
    <3>2. granted \in Nat /\ back[Purchased] \in Nat
      BY <2>1 DEF Balances, Sources
    <3>. QED
      BY <2>1, <3>1, <3>2, ReturningKeepsFunds
  <2>6. CASE ReservationStep
    BY <2>0, <2>2, <2>3, <2>4, <2>5, <2>6 DEF ReservationStep
  <2>7. CASE bal'.reserved = bal.reserved
    BY <2>0, <2>7
  <2>8. CASE FundingStep
    BY <2>1, <2>7, <2>8 DEF FundingStep, IssueCredit, AddPurchased, ClawBackGranted,
              ClawBackPurchased, InsertTopUp, FailTopUp, StoreTopUpSession, SettleTopUp, Balances
  <2>9. CASE SweepStep \/ SweepCrash \/ Tick \/ UNCHANGED vars
    BY <2>1, <2>7, <2>9 DEF SweepStep, SweepScan, SweepOne, StampEmpty, ExpireGrant, SkipGrant,
              SweepCrash, Tick, vars, Balances
  <2>. QED
    BY <2>6, <2>8, <2>9 DEF Next
<1>. QED
  BY <1>1, IInvHolds, PTL DEF Spec, ReservedStaysWithCustomer

-----------------------------------------------------------------------------
(* The books: what the accounts, the rows and the legs say of each other.  *)

HIDE DEF Reservations, Seqs, Credits

\* What the sums range over is finite.
LEMMA FiniteDomains ==
  /\ IsFiniteSet(Credits) /\ IsFiniteSet(Reservations) /\ IsFiniteSet(Seqs)
  /\ IsFiniteSet(Batches) /\ IsFiniteSet(Sources) /\ IsFiniteSet(Slots)
<1>1. IsFiniteSet(Credits) /\ IsFiniteSet(Reservations) /\ IsFiniteSet(Seqs)
  BY FS_Interval DEF Credits, Reservations, Seqs
<1>2. IsFiniteSet(Batches)
  <2>1. MaxSeq + 1 \in Int
    OBVIOUS
  <2>. QED
    BY <2>1, FS_Interval DEF Batches
<1>3. IsFiniteSet(Sources)
  BY <1>1, FS_AddElement DEF Sources
<1>. QED
  BY <1>1, <1>2, <1>3, FS_Product DEF Slots

\* The sources are the credits and the purchased money, and a slot is a batch of one.
LEMMA SourcesSplit ==
  /\ Purchased \in Sources /\ Sources \ {Purchased} = Credits /\ Purchased \notin Credits
  /\ Credits \subseteq Sources
  /\ \A b \in Batches, x \in Sources : <<b, x>> \in Slots
BY DEF Sources, Purchased, Slots, Credits

\* Taking from some of D, seen from all of D.
LEMMA TakenTotal ==
  ASSUME NEW D, IsFiniteSet(D), NEW E \in SUBSET D, NEW take \in [E -> Nat]
  PROVE  /\ [x \in D |-> TakenFrom(take, x)] \in [D -> Nat]
         /\ Total([x \in D |-> TakenFrom(take, x)]) = Total(take)
<1>1. PICK t : t = [x \in D |-> TakenFrom(take, x)]
  OBVIOUS
<1>2. t \in [D -> Nat] /\ t \in [D -> Int] /\ \A x \in D \ E : t[x] = 0
  BY <1>1 DEF TakenFrom
<1>3. [x \in E |-> t[x]] = take
  BY <1>1 DEF TakenFrom
<1>4. Total(t) = Total([x \in E |-> t[x]])
  BY <1>2, SumSupport
<1>. QED
  BY <1>1, <1>2, <1>3, <1>4

-----------------------------------------------------------------------------
ReservedIn(l) == Total([s \in Slots |-> StillReserved(l[s])])
AllocatedIn(l) == Total([s \in Slots |-> l[s].allocated])
CapturedIn(l) == Total([s \in Slots |-> l[s].captured])
HeldIn(l, x) == Total([b \in Batches |-> StillReserved(l[<<b, x>>])])
SpentIn(l, x) == Total([b \in Batches |-> l[<<b, x>>].captured])

\* What is read off the legs for a sum is integers.
LEMMA LegMaps ==
  ASSUME NEW l \in [Slots -> Leg]
  PROVE  /\ [s \in Slots |-> StillReserved(l[s])] \in [Slots -> Int]
         /\ [s \in Slots |-> l[s].allocated] \in [Slots -> Int]
         /\ [s \in Slots |-> l[s].captured] \in [Slots -> Int]
         /\ \A x \in Sources :
              /\ [b \in Batches |-> StillReserved(l[<<b, x>>])] \in [Batches -> Int]
              /\ [b \in Batches |-> l[<<b, x>>].captured] \in [Batches -> Int]
<1>1. \A s \in Slots : /\ StillReserved(l[s]) \in Int
                       /\ l[s].allocated \in Int /\ l[s].captured \in Int
  BY DEF Leg, StillReserved
<1>. QED
  BY <1>1, SourcesSplit

\* So the sums are integers.
LEMMA LegSumsInt ==
  ASSUME NEW l \in [Slots -> Leg]
  PROVE  /\ ReservedIn(l) \in Int /\ AllocatedIn(l) \in Int /\ CapturedIn(l) \in Int
         /\ \A x \in Sources : HeldIn(l, x) \in Int /\ SpentIn(l, x) \in Int
<1>1. ReservedIn(l) \in Int
  BY LegMaps, FiniteDomains, SumInt DEF ReservedIn
<1>2. AllocatedIn(l) \in Int
  BY LegMaps, FiniteDomains, SumInt DEF AllocatedIn
<1>3. CapturedIn(l) \in Int
  BY LegMaps, FiniteDomains, SumInt DEF CapturedIn
<1>4. ASSUME NEW x \in Sources PROVE HeldIn(l, x) \in Int
  BY LegMaps, FiniteDomains, SumInt DEF HeldIn
<1>5. ASSUME NEW x \in Sources PROVE SpentIn(l, x) \in Int
  BY LegMaps, FiniteDomains, SumInt DEF SpentIn
<1>. QED
  BY <1>1, <1>2, <1>3, <1>4, <1>5

\* A reservation's money, source by source.
LEMMA ReservedBySource ==
  ASSUME NEW l \in [Slots -> Leg]
  PROVE  ReservedIn(l) = HeldIn(l, Purchased) + Total([c \in Credits |-> HeldIn(l, c)])
<1>. DEFINE f == [s \in Slots |-> StillReserved(l[s])]
            col == [x \in Sources |-> [b \in Batches |-> StillReserved(l[<<b, x>>])]]
            g == [x \in Sources |-> HeldIn(l, x)]
<1>1. f \in [Slots -> Int] /\ g \in [Sources -> Int] /\ col \in [Sources -> [Batches -> Int]]
  BY LegMaps, LegSumsInt
<1>2. /\ \A b \in Batches, x \in Sources : col[x][b] = f[<<b, x>>]
      /\ \A x \in Sources : g[x] = Total(col[x])
  BY SourcesSplit DEF HeldIn
<1>3. Total(f) = Total(g)
  <2>1. Slots = Table(Batches, Sources)
    BY DEF Slots, Table
  <2>2. f \in [Table(Batches, Sources) -> Int]
    BY <1>1, <2>1
  <2>3. IsFiniteSet(Batches) /\ IsFiniteSet(Sources)
    BY FiniteDomains
  <2>. HIDE DEF f, g, col
  <2>. QED
    BY <1>1, <1>2, <2>2, <2>3, SumColumns
<1>4. Total(g) = g[Purchased] + Total([x \in Sources \ {Purchased} |-> g[x]])
  <2>1. Purchased \in Sources
    BY SourcesSplit
  <2>. HIDE DEF g
  <2>. QED
    BY <1>1, <2>1, FiniteDomains, SumRemove
<1>5. [x \in Sources \ {Purchased} |-> g[x]] = [c \in Credits |-> HeldIn(l, c)]
  BY SourcesSplit
<1>. QED
  BY <1>3, <1>4, <1>5, SourcesSplit DEF ReservedIn

-----------------------------------------------------------------------------
(* What each command does to the sums of a reservation's legs.             *)

\* The two sums over the legs of one source.
Owed(l, x) == HeldIn(l, x) + SpentIn(l, x)

\* What a new batch of legs adds, leg by leg.
Given(batch, take, purchased) ==
  [s \in Slots |-> IF s[1] # batch THEN 0
                   ELSE IF s[2] = Purchased THEN purchased ELSE TakenFrom(take, s[2])]

\* A batch is given what the drain took and the purchased money.
LEMMA GivenTotal ==
  ASSUME NEW batch \in Batches, NEW E \in SUBSET Credits, NEW take \in [E -> Nat],
         NEW purchased \in Nat
  PROVE  /\ Given(batch, take, purchased) \in [Slots -> Nat]
         /\ Total(Given(batch, take, purchased)) = Total(take) + purchased
<1>. DEFINE src == [x \in Sources |-> IF x = Purchased THEN purchased ELSE TakenFrom(take, x)]
            f == Given(batch, take, purchased)
            col == [x \in Sources |-> [b \in Batches |-> IF b = batch THEN src[x] ELSE 0]]
<1>1. src \in [Sources -> Nat]
  BY DEF TakenFrom, Sources
<1>2. f \in [Slots -> Nat] /\ \A b \in Batches, x \in Sources : f[<<b, x>>] = col[x][b]
  <2>1. ASSUME NEW s \in Slots
        PROVE  s[1] \in Batches /\ s[2] \in Sources
    BY DEF Slots
  <2>2. ASSUME NEW s \in Slots
        PROVE  f[s] = IF s[1] = batch THEN src[s[2]] ELSE 0
    BY <2>1 DEF Given
  <2>3. ASSUME NEW s \in Slots
        PROVE  f[s] \in Nat
    <3>. HIDE DEF src, f
    <3>. QED
      BY <1>1, <2>1, <2>2
  <2>4. f \in [Slots -> Nat]
    BY <2>3 DEF Given
  <2>5. ASSUME NEW b \in Batches, NEW x \in Sources
        PROVE  f[<<b, x>>] = col[x][b]
    <3>1. <<b, x>> \in Slots
      BY SourcesSplit
    <3>. HIDE DEF src, f
    <3>. QED
      BY <2>2, <3>1
  <2>. QED
    BY <2>4, <2>5
<1>3. \A x \in Sources : Total(col[x]) = src[x]
  <2>. SUFFICES ASSUME NEW x \in Sources
                PROVE  Total(col[x]) = src[x]
    OBVIOUS
  <2>1. PICK h : h = col[x]
    OBVIOUS
  <2>2. h \in [Batches -> Int] /\ h[batch] = src[x] /\ \A b \in Batches \ {batch} : h[b] = 0
    <3>. HIDE DEF src
    <3>. QED
      BY <1>1, <2>1
  <2>3. Total(h) = h[batch]
    BY <2>2, FiniteDomains, SumSingle
  <2>. QED
    BY <2>1, <2>2, <2>3
<1>4. Total(f) = Total(src)
  <2>1. Slots = Table(Batches, Sources)
    BY DEF Slots, Table
  <2>2. f \in [Table(Batches, Sources) -> Int] /\ src \in [Sources -> Int]
    <3>. HIDE DEF f, src
    <3>. QED
      BY <1>1, <1>2, <2>1
  <2>3. IsFiniteSet(Batches) /\ IsFiniteSet(Sources)
    BY FiniteDomains
  <2>4. col \in [Sources -> [Batches -> Int]]
    <3>. HIDE DEF src
    <3>. QED
      BY <1>1
  <2>. HIDE DEF f, col, src
  <2>. QED
    BY <1>2, <1>3, <2>2, <2>3, <2>4, SumColumns
<1>5. Total(src) = purchased + Total(take)
  <2>1. src \in [Sources -> Int] /\ src[Purchased] = purchased
    BY <1>1, SourcesSplit
  <2>2. [x \in Sources \ {Purchased} |-> src[x]] = [c \in Credits |-> TakenFrom(take, c)]
    BY SourcesSplit
  <2>3. Total([c \in Credits |-> TakenFrom(take, c)]) = Total(take)
    BY FiniteDomains, TakenTotal
  <2>. HIDE DEF src
  <2>4. Total(src) = src[Purchased] + Total([x \in Sources \ {Purchased} |-> src[x]])
    BY <2>1, SourcesSplit, FiniteDomains, SumRemove
  <2>. QED
    BY <2>1, <2>2, <2>3, <2>4
<1>6. Total(take) \in Int
  <2>1. IsFiniteSet(E) /\ take \in [E -> Int]
    BY FiniteDomains, FS_Subset
  <2>. QED
    BY <2>1, SumInt
<1>. HIDE DEF src, f
<1>. QED
  BY <1>2, <1>4, <1>5, <1>6 DEF f

\* take is taken from credits.
IsTake(take) == \E E \in SUBSET Credits : take \in [E -> Nat]

WritesBatch(l, n, batch, given) ==
  /\ \A s \in Slots : s[1] # batch => n[s] = l[s]
  /\ \A s \in Slots : s[1] = batch =>
       /\ l[s] = NoLeg
       /\ n[s] = [allocated |-> given[s], captured |-> 0, released |-> 0]

\* A new batch: what it was given is reserved, and owed to its sources.
LEMMA LegsGiven ==
  ASSUME NEW l \in [Slots -> Leg], NEW n \in [Slots -> Leg], NEW batch \in Batches,
         NEW take, IsTake(take), NEW purchased \in Nat,
         WritesBatch(l, n, batch, Given(batch, take, purchased))
  PROVE  /\ AllocatedIn(n) = AllocatedIn(l) + (Total(take) + purchased)
         /\ ReservedIn(n) = ReservedIn(l) + (Total(take) + purchased)
         /\ CapturedIn(n) = CapturedIn(l)
         /\ \A c \in Credits : Owed(n, c) = Owed(l, c) + TakenFrom(take, c)
<1>. DEFINE d == Given(batch, take, purchased)
<1>0. PICK E \in SUBSET Credits : take \in [E -> Nat]
  BY DEF IsTake
<1>1. d \in [Slots -> Nat] /\ Total(d) = Total(take) + purchased
  BY <1>0, GivenTotal
<1>2. ASSUME NEW s \in Slots
      PROVE  /\ n[s].allocated = l[s].allocated + d[s]
             /\ n[s].captured = l[s].captured
             /\ StillReserved(n[s]) = StillReserved(l[s]) + d[s]
  <2>1. l[s] \in Leg /\ d[s] \in Nat
    BY <1>1
  <2>2. CASE s[1] # batch
    <3>1. n[s] = l[s] /\ d[s] = 0
      BY <2>2 DEF Given, WritesBatch
    <3>. QED
      BY <2>1, <3>1 DEF Leg, StillReserved
  <2>3. CASE s[1] = batch
    <3>1. n[s] = [allocated |-> d[s], captured |-> 0, released |-> 0] /\ l[s] = NoLeg
      BY <2>3 DEF WritesBatch
    <3>. HIDE DEF d
    <3>. QED
      BY <2>1, <3>1 DEF NoLeg, StillReserved
  <2>. QED
    BY <2>2, <2>3
<1>3. /\ AllocatedIn(n) = AllocatedIn(l) + Total(d)
      /\ ReservedIn(n) = ReservedIn(l) + Total(d)
  <2>1. PICK a, b, na, nb : /\ a = [s \in Slots |-> l[s].allocated]
                            /\ b = [s \in Slots |-> StillReserved(l[s])]
                            /\ na = [s \in Slots |-> n[s].allocated]
                            /\ nb = [s \in Slots |-> StillReserved(n[s])]
    OBVIOUS
  <2>2. IsFiniteSet(Slots) /\ d \in [Slots -> Int]
    <3>. HIDE DEF d
    <3>. QED
      BY <1>1, FiniteDomains
  <2>3. a \in [Slots -> Int] /\ na \in [Slots -> Int] /\ \A s \in Slots : na[s] = a[s] + d[s]
    <3>. HIDE DEF d
    <3>. QED
      BY <1>2, <2>1, LegMaps
  <2>4. b \in [Slots -> Int] /\ nb \in [Slots -> Int] /\ \A s \in Slots : nb[s] = b[s] + d[s]
    <3>. HIDE DEF d
    <3>. QED
      BY <1>2, <2>1, LegMaps
  <2>. HIDE DEF d
  <2>5. Total(na) = Total(a) + Total(d)
    BY <2>2, <2>3, SumAdd
  <2>6. Total(nb) = Total(b) + Total(d)
    BY <2>2, <2>4, SumAdd
  <2>. QED
    BY <2>1, <2>5, <2>6 DEF AllocatedIn, ReservedIn
<1>4. CapturedIn(n) = CapturedIn(l)
  <2>1. [s \in Slots |-> n[s].captured] = [s \in Slots |-> l[s].captured]
    BY <1>2
  <2>. QED
    BY <2>1 DEF CapturedIn
<1>5. ASSUME NEW c \in Credits
      PROVE  Owed(n, c) = Owed(l, c) + TakenFrom(take, c)
  <2>1. c \in Sources /\ c # Purchased /\ \A b \in Batches : <<b, c>> \in Slots
    BY SourcesSplit
  <2>2. SpentIn(n, c) = SpentIn(l, c)
    <3>1. [b \in Batches |-> n[<<b, c>>].captured] = [b \in Batches |-> l[<<b, c>>].captured]
      BY <1>2, <2>1
    <3>. QED
      BY <3>1 DEF SpentIn
  <2>3. HeldIn(n, c) = HeldIn(l, c) + TakenFrom(take, c)
    <3>1. PICK h, k : /\ h = [b \in Batches |-> StillReserved(l[<<b, c>>])]
                      /\ k = [b \in Batches |-> StillReserved(n[<<b, c>>])]
      OBVIOUS
    <3>2. h \in [Batches -> Int] /\ k \in [Batches -> Int]
      BY <2>1, <3>1, LegMaps
    <3>3. \A b \in Batches : d[<<b, c>>] = IF b = batch THEN TakenFrom(take, c) ELSE 0
      BY <2>1 DEF Given
    <3>4. \A b \in Batches : k[b] = h[b] + d[<<b, c>>]
      <4>. HIDE DEF d
      <4>. QED
        BY <1>2, <2>1, <3>1
    <3>5. PICK v \in Int : v = TakenFrom(take, c)
      BY <1>0 DEF TakenFrom
    <3>6. \A b \in Batches : k[b] = h[b] + (IF b = batch THEN v ELSE 0)
      <4>. HIDE DEF d
      <4>. QED
        BY <3>3, <3>4, <3>5
    <3>7. \A b \in Batches \ {batch} : k[b] = h[b]
      BY <3>2, <3>6
    <3>8. IsFiniteSet(Batches)
      BY FiniteDomains
    <3>9. Total(k) = Total(h) - h[batch] + k[batch]
      BY <3>2, <3>7, <3>8, SumUpdate
    <3>10. Total(h) \in Int
      BY <3>2, <3>8, SumInt
    <3>11. Total(k) = Total(h) + v
      BY <3>2, <3>6, <3>9, <3>10
    <3>. QED
      BY <3>1, <3>5, <3>11 DEF HeldIn
  <2>4. HeldIn(l, c) \in Int /\ SpentIn(l, c) \in Int /\ TakenFrom(take, c) \in Int
    BY <1>0, <2>1, LegSumsInt DEF TakenFrom
  <2>. QED
    BY <2>2, <2>3, <2>4 DEF Owed
<1>. QED
  BY <1>1, <1>3, <1>4, <1>5

\* A capture moves what it takes, leg by leg, from reserved to captured, and
\* leaves every source its due.
LEMMA LegsCaptured ==
  ASSUME NEW l \in [Slots -> Leg], NEW n \in [Slots -> Leg],
         NEW t \in [Slots -> Int],
         \A s \in Slots : /\ n[s].allocated = l[s].allocated
                          /\ n[s].captured = l[s].captured + t[s]
                          /\ n[s].released = l[s].released
  PROVE  /\ AllocatedIn(n) = AllocatedIn(l)
         /\ CapturedIn(n) = CapturedIn(l) + Total(t)
         /\ ReservedIn(n) = ReservedIn(l) - Total(t)
         /\ \A x \in Sources : Owed(n, x) = Owed(l, x)
<1>1. ASSUME NEW s \in Slots
      PROVE  /\ n[s].allocated = l[s].allocated
             /\ n[s].captured = l[s].captured + t[s]
             /\ StillReserved(l[s]) = StillReserved(n[s]) + t[s]
  <2>1. l[s] \in Leg /\ t[s] \in Int
    OBVIOUS
  <2>. QED
    BY <2>1 DEF Leg, StillReserved
<1>2. IsFiniteSet(Slots) /\ IsFiniteSet(Batches)
  BY FiniteDomains
<1>3. AllocatedIn(n) = AllocatedIn(l)
  <2>1. [s \in Slots |-> n[s].allocated] = [s \in Slots |-> l[s].allocated]
    BY <1>1
  <2>. QED
    BY <2>1 DEF AllocatedIn
<1>4. CapturedIn(n) = CapturedIn(l) + Total(t)
  <2>1. PICK a, b : /\ a = [s \in Slots |-> l[s].captured]
                    /\ b = [s \in Slots |-> n[s].captured]
    OBVIOUS
  <2>2. /\ a \in [Slots -> Int] /\ b \in [Slots -> Int]
        /\ \A s \in Slots : b[s] = a[s] + t[s]
    BY <1>1, <2>1, LegMaps
  <2>3. Total(b) = Total(a) + Total(t)
    BY <1>2, <2>2, SumAdd
  <2>. QED
    BY <2>1, <2>3 DEF CapturedIn
<1>5. ReservedIn(n) = ReservedIn(l) - Total(t)
  <2>1. PICK a, b : /\ a = [s \in Slots |-> StillReserved(l[s])]
                    /\ b = [s \in Slots |-> StillReserved(n[s])]
    OBVIOUS
  <2>2. /\ a \in [Slots -> Int] /\ b \in [Slots -> Int]
        /\ \A s \in Slots : a[s] = b[s] + t[s]
    BY <1>1, <2>1, LegMaps
  <2>3. Total(a) = Total(b) + Total(t) /\ Total(b) \in Int /\ Total(t) \in Int
    BY <1>2, <2>2, SumAdd, SumInt
  <2>4. ReservedIn(l) = Total(a) /\ ReservedIn(n) = Total(b)
    BY <2>1 DEF ReservedIn
  <2>. QED
    BY <2>3, <2>4
<1>6. ASSUME NEW x \in Sources
      PROVE  Owed(n, x) = Owed(l, x)
  <2>1. PICK a, b, p, q, u : /\ a = [m \in Batches |-> StillReserved(l[<<m, x>>])]
                             /\ b = [m \in Batches |-> StillReserved(n[<<m, x>>])]
                             /\ p = [m \in Batches |-> l[<<m, x>>].captured]
                             /\ q = [m \in Batches |-> n[<<m, x>>].captured]
                             /\ u = [m \in Batches |-> t[<<m, x>>]]
    OBVIOUS
  <2>2. /\ a \in [Batches -> Int] /\ b \in [Batches -> Int]
        /\ p \in [Batches -> Int] /\ q \in [Batches -> Int]
    BY <2>1, LegMaps
  <2>3. u \in [Batches -> Int]
    BY <2>1, SourcesSplit
  <2>4. \A m \in Batches : a[m] = b[m] + u[m]
    BY <1>1, <2>1, SourcesSplit
  <2>5. \A m \in Batches : q[m] = p[m] + u[m]
    BY <1>1, <2>1, SourcesSplit
  <2>6. Total(a) = Total(b) + Total(u)
    BY <1>2, <2>2, <2>3, <2>4, SumAdd
  <2>7. Total(q) = Total(p) + Total(u)
    BY <1>2, <2>2, <2>3, <2>5, SumAdd
  <2>8. Total(b) \in Int /\ Total(p) \in Int /\ Total(u) \in Int
    BY <1>2, <2>2, <2>3, SumInt
  <2>9. /\ HeldIn(l, x) = Total(a) /\ HeldIn(n, x) = Total(b)
        /\ SpentIn(l, x) = Total(p) /\ SpentIn(n, x) = Total(q)
    BY <2>1 DEF HeldIn, SpentIn
  <2>. QED
    BY <2>6, <2>7, <2>8, <2>9 DEF Owed
<1>. QED
  BY <1>3, <1>4, <1>5, <1>6

\* A release empties the legs and leaves what was captured.
LEMMA LegsReleased ==
  ASSUME NEW l \in [Slots -> Leg], NEW n \in [Slots -> Leg],
         \A s \in Slots : /\ n[s].allocated = l[s].allocated
                          /\ n[s].captured = l[s].captured
                          /\ StillReserved(n[s]) = 0
  PROVE  /\ AllocatedIn(n) = AllocatedIn(l)
         /\ CapturedIn(n) = CapturedIn(l)
         /\ ReservedIn(n) = 0
         /\ \A x \in Sources : Owed(n, x) = Owed(l, x) - HeldIn(l, x)
<1>1. IsFiniteSet(Slots) /\ IsFiniteSet(Batches)
  BY FiniteDomains
<1>2. AllocatedIn(n) = AllocatedIn(l) /\ CapturedIn(n) = CapturedIn(l)
  <2>1. /\ [s \in Slots |-> n[s].allocated] = [s \in Slots |-> l[s].allocated]
        /\ [s \in Slots |-> n[s].captured] = [s \in Slots |-> l[s].captured]
    OBVIOUS
  <2>. QED
    BY <2>1 DEF AllocatedIn, CapturedIn
<1>3. ReservedIn(n) = 0
  <2>1. PICK a : a = [s \in Slots |-> StillReserved(n[s])]
    OBVIOUS
  <2>2. a \in [Slots -> Int] /\ \A s \in Slots : a[s] = 0
    BY <2>1
  <2>3. Total(a) = 0
    BY <1>1, <2>2, SumZero
  <2>. QED
    BY <2>1, <2>3 DEF ReservedIn
<1>4. ASSUME NEW x \in Sources
      PROVE  Owed(n, x) = Owed(l, x) - HeldIn(l, x)
  <2>1. PICK b : b = [m \in Batches |-> StillReserved(n[<<m, x>>])]
    OBVIOUS
  <2>2. b \in [Batches -> Int] /\ \A m \in Batches : b[m] = 0
    BY <2>1, SourcesSplit
  <2>3. HeldIn(n, x) = 0
    <3>1. Total(b) = 0
      BY <1>1, <2>2, SumZero
    <3>. QED
      BY <2>1, <3>1 DEF HeldIn
  <2>4. SpentIn(n, x) = SpentIn(l, x)
    <3>1. [m \in Batches |-> n[<<m, x>>].captured] = [m \in Batches |-> l[<<m, x>>].captured]
      BY SourcesSplit
    <3>. QED
      BY <3>1 DEF SpentIn
  <2>5. HeldIn(l, x) \in Int /\ SpentIn(l, x) \in Int
    BY LegSumsInt
  <2>. QED
    BY <2>3, <2>4, <2>5 DEF Owed
<1>. QED
  BY <1>2, <1>3, <1>4

-----------------------------------------------------------------------------
(* The invariant of the books.                                             *)

\* The reserved account, over all reservations: those not active hold nothing.
ReservedByLegs == bal.reserved = Total([r \in Reservations |-> ReservedIn(leg[r])])

RowsByLegs ==
  \A r \in Reservations :
    res[r].allocation = AllocatedIn(leg[r]) /\ res[r].consumed = CapturedIn(leg[r])

Recorded(log) == {f \in Seqs : log[f] # NotRecorded}
CapturesIn(log) == Total([f \in Recorded(log) |-> log[f]])
CapturesAddUp == \A r \in Reservations : res[r].consumed = CapturesIn(captureLog[r])

\* Legs are only written in the batches the reservation has counted.
LaterBatchesEmpty ==
  \A r \in Reservations, s \in Slots : s[1] > res[r].batches => leg[r][s] = NoLeg

\* What a credit row says has left it is what reservations hold and spent of it.
CreditsByLegs ==
  \A c \in Credits :
    credit[c].issued - credit[c].remaining - credit[c].retired =
      Total([r \in Reservations |-> Owed(leg[r], c)])

UnissuedIsEmpty ==
  \A c \in Credits : credit[c].status = "none" =>
    credit[c].issued = 0 /\ credit[c].remaining = 0 /\ credit[c].retired = 0

LegBooks == ReservedByLegs /\ RowsByLegs /\ CapturesAddUp /\ LaterBatchesEmpty
CreditBooks == CreditsByLegs /\ UnissuedIsEmpty /\ ExpiredIsEmpty /\ CreditsMatchLedger
Books == LegBooks /\ CreditBooks

\* A command that writes one reservation moves the sums over all of them by
\* what it does to that one.
LEMMA OneTermWritten ==
  ASSUME NEW r \in Reservations, NEW a \in [Reservations -> Int], NEW b \in [Reservations -> Int]
  PROVE  (\A q \in Reservations : q # r => b[q] = a[q]) => Total(b) = Total(a) - a[r] + b[r]
<1>1. IsFiniteSet(Reservations)
  BY FiniteDomains
<1>. QED
  BY <1>1, SumUpdate

\* The two sums of the books that range over all reservations.
LEMMA OneLegMapWritten ==
  ASSUME NEW L \in [Reservations -> [Slots -> Leg]], NEW M \in [Reservations -> [Slots -> Leg]],
         NEW r \in Reservations, \A q \in Reservations : q # r => M[q] = L[q]
  PROVE  /\ Total([q \in Reservations |-> ReservedIn(M[q])]) =
              Total([q \in Reservations |-> ReservedIn(L[q])]) - ReservedIn(L[r]) + ReservedIn(M[r])
         /\ \A c \in Credits :
              Total([q \in Reservations |-> Owed(M[q], c)]) =
                Total([q \in Reservations |-> Owed(L[q], c)]) - Owed(L[r], c) + Owed(M[r], c)
<1>1. Total([q \in Reservations |-> ReservedIn(M[q])]) =
        Total([q \in Reservations |-> ReservedIn(L[q])]) - ReservedIn(L[r]) + ReservedIn(M[r])
  <2>1. PICK a, b : /\ a = [q \in Reservations |-> ReservedIn(L[q])]
                    /\ b = [q \in Reservations |-> ReservedIn(M[q])]
    OBVIOUS
  <2>2. /\ a \in [Reservations -> Int] /\ b \in [Reservations -> Int]
        /\ \A q \in Reservations : q # r => b[q] = a[q]
    BY <2>1, LegSumsInt
  <2>3. Total(b) = Total(a) - a[r] + b[r]
    BY <2>2, OneTermWritten
  <2>. QED
    BY <2>1, <2>3
<1>2. ASSUME NEW c \in Credits
      PROVE  Total([q \in Reservations |-> Owed(M[q], c)]) =
               Total([q \in Reservations |-> Owed(L[q], c)]) - Owed(L[r], c) + Owed(M[r], c)
  <2>1. PICK a, b : /\ a = [q \in Reservations |-> Owed(L[q], c)]
                    /\ b = [q \in Reservations |-> Owed(M[q], c)]
    OBVIOUS
  <2>2. /\ a \in [Reservations -> Int] /\ b \in [Reservations -> Int]
        /\ \A q \in Reservations : q # r => b[q] = a[q]
    <3>1. c \in Sources
      BY SourcesSplit
    <3>2. \A q \in Reservations : Owed(L[q], c) \in Int /\ Owed(M[q], c) \in Int
      BY <3>1, LegSumsInt DEF Owed
    <3>. QED
      BY <2>1, <3>2
  <2>3. Total(b) = Total(a) - a[r] + b[r]
    BY <2>2, OneTermWritten
  <2>. QED
    BY <2>1, <2>3
<1>. QED
  BY <1>1, <1>2

\* They are integers.
LEMMA SumsOverReservations ==
  ASSUME NEW L \in [Reservations -> [Slots -> Leg]]
  PROVE  /\ Total([q \in Reservations |-> ReservedIn(L[q])]) \in Int
         /\ \A c \in Credits : Total([q \in Reservations |-> Owed(L[q], c)]) \in Int
<1>1. IsFiniteSet(Reservations)
  BY FiniteDomains
<1>2. [q \in Reservations |-> ReservedIn(L[q])] \in [Reservations -> Int]
  BY LegSumsInt
<1>3. \A c \in Credits : [q \in Reservations |-> Owed(L[q], c)] \in [Reservations -> Int]
  BY LegSumsInt, SourcesSplit DEF Owed
<1>. QED
  BY <1>1, <1>2, <1>3, SumInt

-----------------------------------------------------------------------------
(* Commands that leave the books, or half of them, alone.                  *)

\* The leg books read reservations, legs, recorded captures and the reserved account.
LEMMA LegBooksKept ==
  ASSUME LegBooks, UNCHANGED <<res, leg, captureLog>>, bal'.reserved = bal.reserved
  PROVE  LegBooks'
BY DEF LegBooks, ReservedByLegs, RowsByLegs, CapturesAddUp, LaterBatchesEmpty

\* The credit books read legs, credits and the granted account.
LEMMA CreditBooksKept ==
  ASSUME CreditBooks, UNCHANGED <<leg, credit>>, bal'.granted = bal.granted
  PROVE  CreditBooks'
BY DEF CreditBooks, CreditsByLegs, UnissuedIsEmpty, ExpiredIsEmpty, CreditsMatchLedger, Live

-----------------------------------------------------------------------------
(* What a drain does to the credits.                                       *)

\* A drain takes from live credits only, and from each at most what it takes in all.
LEMMA DrainFacts ==
  ASSUME TypeOK, NEW amount \in Nat, NEW at, NEW take \in DrainTakes(amount, at)
  PROVE  /\ Drainable(at) \in SUBSET Credits
         /\ take \in [Drainable(at) -> Nat]
         /\ Total(take) \in Nat
         /\ \A c \in Credits : TakenFrom(take, c) \in Nat /\ TakenFrom(take, c) <= Total(take)
         /\ \A c \in Credits : ~Live(c) => TakenFrom(take, c) = 0
<1>1. Drainable(at) \in SUBSET Credits
  BY DEF Drainable
<1>2. take \in [Drainable(at) -> Nat]
  BY DEF DrainTakes, FifoTakes
<1>3. IsFiniteSet(Drainable(at))
  BY <1>1, FiniteDomains, FS_Subset
<1>4. Total(take) \in Nat /\ \A c \in Drainable(at) : take[c] <= Total(take)
  BY <1>2, <1>3, SumNat
<1>5. \A c \in Credits : TakenFrom(take, c) \in Nat /\ TakenFrom(take, c) <= Total(take)
  BY <1>2, <1>4 DEF TakenFrom
<1>6. \A c \in Credits : ~Live(c) => TakenFrom(take, c) = 0
  BY <1>2 DEF TakenFrom, Drainable
<1>. QED
  BY <1>1, <1>2, <1>4, <1>5, <1>6

\* A drained credit differs in what remains on it.
LEMMA DrainedFields ==
  ASSUME TypeOK, NEW amount \in Nat, NEW at, NEW take \in DrainTakes(amount, at),
         NEW c \in Credits
  PROVE  /\ Drained(take)[c].status = credit[c].status
         /\ Drained(take)[c].issued = credit[c].issued
         /\ Drained(take)[c].retired = credit[c].retired
         /\ Drained(take)[c].remaining = credit[c].remaining - TakenFrom(take, c)
         /\ TakenFrom(take, c) = 0 => Drained(take)[c] = credit[c]
         /\ {credit[c].issued, credit[c].retired, credit[c].remaining} \subseteq Nat
<1>1. credit[c] \in Credit
  BY DEF TypeOK
<1>2. Drained(take)[c] = [credit[c] EXCEPT !.remaining = @ - TakenFrom(take, c)]
  BY DEF Drained
<1>3. TakenFrom(take, c) \in Nat
  BY DrainFacts
<1>. QED
  BY <1>1, <1>2, <1>3 DEF Credit

\* Money drained into a reservation's legs: credits still account for it.
LEMMA DrainKeepsCreditBooks ==
  ASSUME TypeOK, leg' \in [Reservations -> [Slots -> Leg]], CreditBooks,
         NEW r \in Reservations, NEW amount \in Nat, NEW at,
         NEW take \in DrainTakes(amount, at),
         credit' = Drained(take), bal'.granted = bal.granted - Total(take),
         Total(take) > 0 => CreditsMatchLedger',
         \A q \in Reservations : q # r => leg'[q] = leg[q],
         \A c \in Credits : Owed(leg'[r], c) = Owed(leg[r], c) + TakenFrom(take, c)
  PROVE  CreditBooks'
<1>1. leg \in [Reservations -> [Slots -> Leg]]
  BY DEF TypeOK
<1>2. ASSUME NEW c \in Credits
      PROVE  Total([q \in Reservations |-> Owed(leg'[q], c)]) =
               Total([q \in Reservations |-> Owed(leg[q], c)]) + TakenFrom(take, c)
  <2>1. PICK L, M : L = leg /\ M = leg'
    OBVIOUS
  <2>2. Total([q \in Reservations |-> Owed(M[q], c)]) =
          Total([q \in Reservations |-> Owed(L[q], c)]) - Owed(L[r], c) + Owed(M[r], c)
    BY <1>1, <2>1, OneLegMapWritten
  <2>3. Total([q \in Reservations |-> Owed(L[q], c)]) \in Int
    BY <1>1, <2>1, SumsOverReservations
  <2>4. Owed(L[r], c) \in Int /\ TakenFrom(take, c) \in Int
    <3>1. c \in Sources /\ L[r] \in [Slots -> Leg]
      BY <1>1, <2>1, SourcesSplit
    <3>. QED
      BY <3>1, LegSumsInt, DrainFacts DEF Owed
  <2>5. Owed(M[r], c) = Owed(L[r], c) + TakenFrom(take, c)
    BY <2>1
  <2>. QED
    BY <2>1, <2>2, <2>3, <2>4, <2>5
<1>3. CreditsByLegs'
  <2>. SUFFICES ASSUME NEW c \in Credits
                PROVE  credit'[c].issued - credit'[c].remaining - credit'[c].retired =
                         Total([q \in Reservations |-> Owed(leg'[q], c)])
    BY DEF CreditsByLegs
  <2>1. credit[c].issued - credit[c].remaining - credit[c].retired =
          Total([q \in Reservations |-> Owed(leg[q], c)])
    BY DEF CreditBooks, CreditsByLegs
  <2>2. TakenFrom(take, c) \in Nat
    BY DrainFacts
  <2>3. /\ credit'[c].issued = credit[c].issued
        /\ credit'[c].retired = credit[c].retired
        /\ credit'[c].remaining = credit[c].remaining - TakenFrom(take, c)
        /\ credit[c].issued \in Nat /\ credit[c].retired \in Nat /\ credit[c].remaining \in Nat
    BY DrainedFields
  <2>4. PICK a, b, x : /\ a = Total([q \in Reservations |-> Owed(leg[q], c)])
                       /\ b = Total([q \in Reservations |-> Owed(leg'[q], c)])
                       /\ x = TakenFrom(take, c)
    OBVIOUS
  <2>5. b = a + x
    BY <1>2, <2>4
  <2>. QED
    BY <2>1, <2>2, <2>3, <2>4, <2>5
<1>4. UnissuedIsEmpty' /\ ExpiredIsEmpty'
  <2>. SUFFICES ASSUME NEW c \in Credits
                PROVE  /\ credit'[c].status = "none" =>
                            /\ credit'[c].issued = 0 /\ credit'[c].remaining = 0
                            /\ credit'[c].retired = 0
                       /\ credit'[c].status = "expired" => credit'[c].remaining = 0
    BY DEF UnissuedIsEmpty, ExpiredIsEmpty
  <2>1. CASE Live(c)
    BY <2>1, DrainedFields DEF Live, LiveStatus
  <2>2. CASE ~Live(c)
    <3>1. credit'[c] = credit[c]
      BY <2>2, DrainFacts, DrainedFields
    <3>. QED
      BY <3>1 DEF CreditBooks, UnissuedIsEmpty, ExpiredIsEmpty
  <2>. QED
    BY <2>1, <2>2
<1>5. CreditsMatchLedger'
  <2>1. CASE Total(take) > 0
    BY <2>1
  <2>2. CASE ~(Total(take) > 0)
    <3>1. Total(take) = 0 /\ \A c \in Credits : TakenFrom(take, c) = 0
      BY <2>2, DrainFacts
    <3>2. \A c \in Credits : credit'[c] = credit[c]
      BY <3>1, DrainedFields
    <3>3. credit' = credit
      BY <3>2 DEF Drained, TypeOK
    <3>4. bal'.granted = bal.granted
      BY <3>1 DEF TypeOK, Balances
    <3>5. CreditsMatchLedger
      BY DEF CreditBooks
    <3>. QED
      BY <3>3, <3>4, <3>5 DEF CreditsMatchLedger, Live
  <2>. QED
    BY <2>1, <2>2
<1>. QED
  BY <1>3, <1>4, <1>5 DEF CreditBooks

\* A command that writes one reservation: enough of it to keep the leg books.
LEMMA OneReservationKeepsLegBooks ==
  ASSUME TypeOK, leg' \in [Reservations -> [Slots -> Leg]], LegBooks,
         NEW r \in Reservations,
         \A q \in Reservations : q # r =>
           leg'[q] = leg[q] /\ res'[q] = res[q] /\ captureLog'[q] = captureLog[q],
         bal'.reserved = bal.reserved + (ReservedIn(leg'[r]) - ReservedIn(leg[r])),
         res'[r].allocation = AllocatedIn(leg'[r]), res'[r].consumed = CapturedIn(leg'[r]),
         res'[r].consumed = CapturesIn(captureLog'[r]),
         \A s \in Slots : s[1] > res'[r].batches => leg'[r][s] = NoLeg
  PROVE  LegBooks'
<1>1. leg \in [Reservations -> [Slots -> Leg]] /\ bal.reserved \in Nat
  BY DEF TypeOK, Balances
<1>2. ReservedByLegs'
  <2>1. PICK L, M : L = leg /\ M = leg'
    OBVIOUS
  <2>2. Total([q \in Reservations |-> ReservedIn(M[q])]) =
          Total([q \in Reservations |-> ReservedIn(L[q])]) - ReservedIn(L[r]) + ReservedIn(M[r])
    BY <1>1, <2>1, OneLegMapWritten
  <2>3. ReservedIn(L[r]) \in Int /\ ReservedIn(M[r]) \in Int
    <3>1. L[r] \in [Slots -> Leg] /\ M[r] \in [Slots -> Leg]
      BY <1>1, <2>1
    <3>. QED
      BY <3>1, LegSumsInt
  <2>4. bal.reserved = Total([q \in Reservations |-> ReservedIn(L[q])])
    BY <2>1 DEF LegBooks, ReservedByLegs
  <2>5. bal'.reserved = Total([q \in Reservations |-> ReservedIn(M[q])])
    BY <1>1, <2>1, <2>2, <2>3, <2>4
  <2>. QED
    BY <2>1, <2>5 DEF ReservedByLegs
<1>3. RowsByLegs' /\ CapturesAddUp' /\ LaterBatchesEmpty'
  <2>1. ASSUME NEW q \in Reservations
        PROVE  /\ res'[q].allocation = AllocatedIn(leg'[q])
               /\ res'[q].consumed = CapturedIn(leg'[q])
               /\ res'[q].consumed = CapturesIn(captureLog'[q])
               /\ \A s \in Slots : s[1] > res'[q].batches => leg'[q][s] = NoLeg
    <3>1. CASE q = r
      BY <3>1
    <3>2. CASE q # r
      <4>1. leg'[q] = leg[q] /\ res'[q] = res[q] /\ captureLog'[q] = captureLog[q]
        BY <3>2
      <4>. QED
        BY <4>1 DEF LegBooks, RowsByLegs, CapturesAddUp, LaterBatchesEmpty
    <3>. QED
      BY <3>1, <3>2
  <2>. QED
    BY <2>1 DEF RowsByLegs, CapturesAddUp, LaterBatchesEmpty
<1>. QED
  BY <1>2, <1>3 DEF LegBooks

-----------------------------------------------------------------------------
(* One lemma per command.                                                  *)

\* Nothing is written on a batch yet.
Unwritten(l, batch) == \A s \in Slots : s[1] = batch => l[s] = NoLeg

\* The commands that open or extend a reservation write a fresh batch of legs.
LEMMA NewBatch ==
  ASSUME NEW r, NEW l \in [Slots -> Leg], l = leg[r], NEW n \in [Slots -> Leg],
         NEW batch \in Batches, NEW take, IsTake(take), NEW purchased \in Nat,
         n = NewLegs(r, batch, take, purchased), Unwritten(l, batch)
  PROVE  /\ AllocatedIn(n) = AllocatedIn(l) + (Total(take) + purchased)
         /\ ReservedIn(n) = ReservedIn(l) + (Total(take) + purchased)
         /\ CapturedIn(n) = CapturedIn(l)
         /\ \A c \in Credits : Owed(n, c) = Owed(l, c) + TakenFrom(take, c)
<1>1. WritesBatch(l, n, batch, Given(batch, take, purchased))
  BY DEF WritesBatch, NewLegs, Given, NoLeg, Unwritten
<1>. QED
  BY <1>1, LegsGiven

\* Legs nothing was written on.
LEMMA EmptyLegs ==
  ASSUME NEW l \in [Slots -> Leg], \A s \in Slots : l[s] = NoLeg
  PROVE  AllocatedIn(l) = 0 /\ ReservedIn(l) = 0 /\ CapturedIn(l) = 0
<1>1. PICK a, b, d : /\ a = [s \in Slots |-> l[s].allocated]
                     /\ b = [s \in Slots |-> StillReserved(l[s])]
                     /\ d = [s \in Slots |-> l[s].captured]
  OBVIOUS
<1>2. /\ a \in [Slots -> Int] /\ \A s \in Slots : a[s] = 0
      /\ b \in [Slots -> Int] /\ \A s \in Slots : b[s] = 0
      /\ d \in [Slots -> Int] /\ \A s \in Slots : d[s] = 0
  BY <1>1 DEF NoLeg, StillReserved
<1>3. Total(a) = 0 /\ Total(b) = 0 /\ Total(d) = 0
  BY <1>2, FiniteDomains, SumZero
<1>. QED
  BY <1>1, <1>3 DEF AllocatedIn, ReservedIn, CapturedIn

\* createReservation: what it drains is on the legs of its first batch.
LEMMA CreateBooks ==
  ASSUME IInv, Books, NEW r \in Reservations, NEW w \in Windows, NEW requested \in Amounts,
         NEW at, CreateReservation(r, w, requested, at)
  PROVE  Books'
<1>1. PICK take \in DrainTakes(requested, at), granted \in 0 .. requested :
        /\ granted = Total(take)
        /\ granted <= bal.granted
        /\ LET purchased == Least(requested - granted, bal.purchased)
               given == granted + purchased
           IN  /\ credit' = Drained(take)
               /\ bal' = [bal EXCEPT !.granted = @ - granted,
                                     !.purchased = @ - purchased,
                                     !.reserved = @ + given]
               /\ granted > 0 => CreditsMatchLedger'
               /\ leg' = [leg EXCEPT ![r] = NewLegs(r, 1, take, purchased)]
               /\ res' = [res EXCEPT ![r] =
                            [status |-> "active", window |-> w, allocation |-> given,
                             consumed |-> 0, batches |-> IF given > 0 THEN 1 ELSE 0]]
  BY DEF CreateReservation
<1>2. PICK purchased \in Nat : purchased = Least(requested - granted, bal.purchased)
  <2>1. requested - granted \in Nat /\ bal.purchased \in Nat
    BY DEF Amounts, IInv, TypeOK, Balances
  <2>. QED
    BY <2>1, LeastIsNat
<1>3. TypeOK /\ requested \in Nat /\ granted \in Nat /\ granted = Total(take)
  BY <1>1 DEF IInv, Amounts
<1>4. leg' \in [Reservations -> [Slots -> Leg]]
  <2>1. IInv'
    BY CreateIInv
  <2>. QED
    BY <2>1 DEF IInv, TypeOK
<1>5. \A s \in Slots : leg[r][s] = NoLeg
  BY DEF IInv, UnopenedIsEmpty, CreateReservation, NextReservation
<1>6. leg'[r] = NewLegs(r, 1, take, purchased)
  BY <1>1, <1>2, <1>3 DEF TypeOK
<1>7. \A q \in Reservations : q # r => leg'[q] = leg[q] /\ res'[q] = res[q]
  BY <1>1, <1>3 DEF TypeOK
<1>8. /\ bal'.granted = bal.granted - granted
      /\ bal'.reserved = bal.reserved + (granted + purchased)
  BY <1>1, <1>2, <1>3 DEF TypeOK, Balances
<1>9. /\ res'[r].allocation = granted + purchased /\ res'[r].consumed = 0
      /\ res'[r].batches = IF granted + purchased > 0 THEN 1 ELSE 0
  BY <1>1, <1>2, <1>3 DEF TypeOK
<1>10. /\ AllocatedIn(leg'[r]) = AllocatedIn(leg[r]) + (granted + purchased)
       /\ ReservedIn(leg'[r]) = ReservedIn(leg[r]) + (granted + purchased)
       /\ CapturedIn(leg'[r]) = CapturedIn(leg[r])
       /\ \A c \in Credits : Owed(leg'[r], c) = Owed(leg[r], c) + TakenFrom(take, c)
  <2>1. 1 \in Batches /\ Unwritten(leg[r], 1)
    BY <1>5 DEF Batches, Unwritten
  <2>2. /\ AllocatedIn(leg'[r]) = AllocatedIn(leg[r]) + (Total(take) + purchased)
        /\ ReservedIn(leg'[r]) = ReservedIn(leg[r]) + (Total(take) + purchased)
        /\ CapturedIn(leg'[r]) = CapturedIn(leg[r])
        /\ \A c \in Credits : Owed(leg'[r], c) = Owed(leg[r], c) + TakenFrom(take, c)
    <3>1. PICK l \in [Slots -> Leg], n \in [Slots -> Leg] : l = leg[r] /\ n = leg'[r]
      BY <1>3, <1>4 DEF TypeOK
    <3>2. IsTake(take)
      BY <1>3, DrainFacts DEF IsTake
    <3>. QED
      BY <1>6, <2>1, <3>1, <3>2, NewBatch
  <2>. QED
    BY <1>3, <2>2
<1>11. AllocatedIn(leg[r]) = 0 /\ ReservedIn(leg[r]) = 0 /\ CapturedIn(leg[r]) = 0
  <2>1. PICK l : l = leg[r]
    OBVIOUS
  <2>2. l \in [Slots -> Leg] /\ \A s \in Slots : l[s] = NoLeg
    BY <1>3, <1>5, <2>1 DEF TypeOK
  <2>. QED
    BY <2>1, <2>2, EmptyLegs
<1>12. CreditBooks'
  <2>1. CreditBooks
    BY DEF Books
  <2>2. credit' = Drained(take) /\ bal'.granted = bal.granted - Total(take)
    BY <1>1, <1>3, <1>8
  <2>3. Total(take) > 0 => CreditsMatchLedger'
    BY <1>1
  <2>. QED
    BY <1>3, <1>4, <1>7, <1>10, <2>1, <2>2, <2>3, DrainKeepsCreditBooks
<1>13. LegBooks'
  <2>1. LegBooks
    BY DEF Books
  <2>2. captureLog' = captureLog
    BY DEF CreateReservation
  <2>3. bal'.reserved = bal.reserved + (ReservedIn(leg'[r]) - ReservedIn(leg[r]))
    BY <1>2, <1>3, <1>8, <1>10, <1>11
  <2>4. /\ res'[r].allocation = AllocatedIn(leg'[r]) /\ res'[r].consumed = CapturedIn(leg'[r])
        /\ res'[r].consumed = CapturesIn(captureLog'[r])
    <3>1. res[r].consumed = CapturesIn(captureLog[r]) /\ res[r].consumed = CapturedIn(leg[r])
      BY <2>1 DEF LegBooks, CapturesAddUp, RowsByLegs
    <3>. QED
      BY <1>2, <1>3, <1>9, <1>10, <1>11, <2>2, <3>1
  <2>5. ASSUME NEW s \in Slots, s[1] > res'[r].batches
        PROVE  leg'[r][s] = NoLeg
    <3>1. CASE s[1] # 1
      BY <1>5, <1>6, <3>1 DEF NewLegs
    <3>2. CASE s[1] = 1
      <4>1. granted + purchased = 0 /\ granted = 0 /\ purchased = 0
        BY <1>2, <1>3, <1>9, <2>5, <3>2
      <4>2. ASSUME s[2] # Purchased
            PROVE  TakenFrom(take, s[2]) = 0
        <5>1. s[2] \in Credits
          BY <4>2 DEF Slots, Sources
        <5>2. TakenFrom(take, s[2]) \in Nat /\ TakenFrom(take, s[2]) <= Total(take)
          BY <1>3, <5>1, DrainFacts
        <5>. QED
          BY <1>3, <4>1, <5>2
      <4>. QED
        BY <1>6, <3>2, <4>1, <4>2 DEF NewLegs, NoLeg
    <3>. QED
      BY <3>1, <3>2
  <2>. QED
    BY <1>3, <1>4, <1>7, <2>1, <2>2, <2>3, <2>4, <2>5, OneReservationKeepsLegBooks
<1>. QED
  BY <1>12, <1>13 DEF Books

\* extendReservation: what it drains is on the legs of a batch of its own.
LEMMA ExtendBooks ==
  ASSUME IInv, Books, NEW r \in Reservations, NEW seq \in Seqs,
         NEW requested \in 0 .. MaxAmount, NEW at, ExtendReservation(r, seq, requested, at)
  PROVE  Books'
<1>1. PICK take \in DrainTakes(requested, at), granted \in 0 .. requested :
        /\ granted = Total(take)
        /\ LET purchased == Least(requested - granted, bal.purchased)
               given == granted + purchased
           IN  /\ credit' = Drained(take)
               /\ bal' = [bal EXCEPT !.granted = @ - granted,
                                     !.purchased = @ - purchased,
                                     !.reserved = @ + given]
               /\ granted > 0 => CreditsMatchLedger'
               /\ leg' = IF given > 0
                         THEN [leg EXCEPT ![r] =
                                 NewLegs(r, res[r].batches + 1, take, purchased)]
                         ELSE leg
               /\ res' = [res EXCEPT ![r] = Extended(res[r], given)]
  BY DEF ExtendReservation
<1>2. PICK purchased \in Nat : purchased = Least(requested - granted, bal.purchased)
  <2>1. requested - granted \in Nat /\ bal.purchased \in Nat
    BY DEF IInv, TypeOK, Balances
  <2>. QED
    BY <2>1, LeastIsNat
<1>3. PICK given \in Nat : given = granted + purchased
  BY <1>2
<1>4. TypeOK /\ requested \in Nat /\ granted \in Nat /\ granted = Total(take)
  BY <1>1 DEF IInv
<1>5. leg' \in [Reservations -> [Slots -> Leg]]
  <2>1. IInv'
    BY ExtendIInv
  <2>. QED
    BY <2>1 DEF IInv, TypeOK
<1>6. PICK batch \in Batches : batch = res[r].batches + 1 /\ res[r].batches \in Nat
  <2>1. res[r].batches <= MaxSeq
    BY DEF ExtendReservation
  <2>2. res[r].batches \in 0 .. MaxSeq + 1
    BY <1>4 DEF TypeOK, Reservation
  <2>3. res[r].batches + 1 \in Batches /\ res[r].batches \in Nat
    BY <2>1, <2>2 DEF Batches
  <2>. QED
    BY <2>3
<1>7. \A s \in Slots : s[1] >= batch => leg[r][s] = NoLeg
  <2>1. \A s \in Slots : s[1] >= batch => s[1] > res[r].batches
    BY <1>6 DEF Slots, Batches
  <2>. QED
    BY <2>1 DEF Books, LegBooks, LaterBatchesEmpty
<1>8. \A q \in Reservations : q # r => leg'[q] = leg[q] /\ res'[q] = res[q]
  BY <1>1, <1>4 DEF TypeOK
<1>9. bal'.granted = bal.granted - granted /\ bal'.reserved = bal.reserved + given
  BY <1>1, <1>2, <1>3, <1>4 DEF TypeOK, Balances
<1>10. /\ res'[r].allocation = res[r].allocation + given
       /\ res'[r].consumed = res[r].consumed
       /\ res'[r].batches = IF given > 0 THEN batch ELSE res[r].batches
  <2>1. res[r] \in Reservation
    BY <1>4 DEF TypeOK
  <2>2. res'[r] = Extended(res[r], given)
    BY <1>1, <1>2, <1>3, <1>4 DEF TypeOK
  <2>. QED
    BY <1>6, <2>1, <2>2 DEF Extended, Reservation
<1>11. /\ AllocatedIn(leg'[r]) = AllocatedIn(leg[r]) + given
       /\ ReservedIn(leg'[r]) = ReservedIn(leg[r]) + given
       /\ CapturedIn(leg'[r]) = CapturedIn(leg[r])
       /\ \A c \in Credits : Owed(leg'[r], c) = Owed(leg[r], c) + TakenFrom(take, c)
       /\ \A s \in Slots : s[1] > res'[r].batches => leg'[r][s] = NoLeg
  <2>1. CASE given > 0
    <3>1. leg'[r] = NewLegs(r, batch, take, purchased)
      BY <1>1, <1>2, <1>3, <1>4, <1>6, <2>1 DEF TypeOK
    <3>2. Unwritten(leg[r], batch)
      BY <1>7 DEF Batches, Unwritten
    <3>3. /\ AllocatedIn(leg'[r]) = AllocatedIn(leg[r]) + (Total(take) + purchased)
          /\ ReservedIn(leg'[r]) = ReservedIn(leg[r]) + (Total(take) + purchased)
          /\ CapturedIn(leg'[r]) = CapturedIn(leg[r])
          /\ \A c \in Credits : Owed(leg'[r], c) = Owed(leg[r], c) + TakenFrom(take, c)
      <4>1. PICK l \in [Slots -> Leg], n \in [Slots -> Leg] : l = leg[r] /\ n = leg'[r]
        BY <1>4, <1>5 DEF TypeOK
      <4>2. IsTake(take)
        BY <1>4, DrainFacts DEF IsTake
      <4>. QED
        BY <3>1, <3>2, <4>1, <4>2, NewBatch
    <3>4. ASSUME NEW s \in Slots, s[1] > res'[r].batches
          PROVE  leg'[r][s] = NoLeg
      <4>1. s[1] # batch /\ s[1] >= batch
        BY <1>10, <2>1, <3>4 DEF Batches, Slots
      <4>. QED
        BY <1>7, <3>1, <4>1 DEF NewLegs
    <3>. QED
      BY <1>3, <1>4, <3>3, <3>4
  <2>2. CASE given = 0
    <3>1. leg'[r] = leg[r] /\ Total(take) = 0
      BY <1>1, <1>2, <1>3, <1>4, <2>2 DEF TypeOK
    <3>2. PICK l \in [Slots -> Leg] : l = leg[r]
      BY <1>4 DEF TypeOK
    <3>3. AllocatedIn(l) \in Int /\ ReservedIn(l) \in Int
      BY LegSumsInt
    <3>4. ASSUME NEW c \in Credits
          PROVE  Owed(l, c) = Owed(l, c) + TakenFrom(take, c)
      <4>1. TakenFrom(take, c) = 0
        BY <1>4, <3>1, DrainFacts
      <4>2. Owed(l, c) \in Int
        BY LegSumsInt, SourcesSplit DEF Owed
      <4>. QED
        BY <4>1, <4>2
    <3>5. \A s \in Slots : s[1] > res'[r].batches => leg'[r][s] = NoLeg
      BY <1>10, <2>2, <3>1 DEF Books, LegBooks, LaterBatchesEmpty
    <3>. QED
      BY <2>2, <3>1, <3>2, <3>3, <3>4, <3>5
  <2>. QED
    BY <2>1, <2>2
<1>12. CreditBooks'
  <2>1. CreditBooks
    BY DEF Books
  <2>2. credit' = Drained(take) /\ bal'.granted = bal.granted - Total(take)
    BY <1>1, <1>4, <1>9
  <2>3. Total(take) > 0 => CreditsMatchLedger'
    BY <1>1
  <2>. QED
    BY <1>4, <1>5, <1>8, <1>11, <2>1, <2>2, <2>3, DrainKeepsCreditBooks
<1>13. LegBooks'
  <2>1. LegBooks
    BY DEF Books
  <2>2. captureLog' = captureLog
    BY DEF ExtendReservation
  <2>3. bal'.reserved = bal.reserved + (ReservedIn(leg'[r]) - ReservedIn(leg[r]))
    <3>1. ReservedIn(leg[r]) \in Int
      <4>1. leg[r] \in [Slots -> Leg]
        BY <1>4 DEF TypeOK
      <4>. QED
        BY <4>1, LegSumsInt
    <3>. QED
      BY <1>9, <1>11, <3>1
  <2>4. /\ res'[r].allocation = AllocatedIn(leg'[r]) /\ res'[r].consumed = CapturedIn(leg'[r])
        /\ res'[r].consumed = CapturesIn(captureLog'[r])
    <3>1. /\ res[r].allocation = AllocatedIn(leg[r]) /\ res[r].consumed = CapturedIn(leg[r])
          /\ res[r].consumed = CapturesIn(captureLog[r])
      BY <2>1 DEF LegBooks, CapturesAddUp, RowsByLegs
    <3>. QED
      BY <1>10, <1>11, <2>2, <3>1
  <2>. QED
    BY <1>4, <1>5, <1>8, <1>11, <2>1, <2>2, <2>3, <2>4, OneReservationKeepsLegBooks
<1>. QED
  BY <1>12, <1>13 DEF Books

\* A capture recorded under a new sequence number adds to the recorded ones.
LEMMA CaptureRecorded ==
  ASSUME NEW l \in [Seqs -> Nat \cup {NotRecorded}], NEW seq \in Seqs, NEW amount \in Nat,
         l[seq] = NotRecorded, NEW m \in [Seqs -> Nat \cup {NotRecorded}],
         m[seq] = amount, \A f \in Seqs \ {seq} : m[f] = l[f]
  PROVE  CapturesIn(m) = CapturesIn(l) + amount
<1>1. PICK D \in SUBSET Seqs, E \in SUBSET Seqs : D = Recorded(m) /\ E = Recorded(l)
  BY DEF Recorded
<1>2. seq \in D /\ D \ {seq} = E
  BY <1>1 DEF Recorded, NotRecorded
<1>3. \A x \in D : m[x] \in Nat
  BY <1>1 DEF Recorded
<1>4. \A x \in E : l[x] \in Nat /\ m[x] = l[x]
  BY <1>1, <1>2 DEF Recorded
<1>5. PICK f \in [D -> Int], g \in [E -> Int] :
        f = [x \in D |-> m[x]] /\ g = [x \in E |-> l[x]]
  <2>1. [x \in D |-> m[x]] \in [D -> Int] /\ [x \in E |-> l[x]] \in [E -> Int]
    BY <1>3, <1>4
  <2>. QED
    BY <2>1
<1>6. f[seq] = amount /\ [x \in D \ {seq} |-> f[x]] = g
  BY <1>2, <1>4, <1>5
<1>7. IsFiniteSet(D) /\ IsFiniteSet(E)
  BY FiniteDomains, FS_Subset
<1>8. Total(f) = f[seq] + Total([x \in D \ {seq} |-> f[x]])
  BY <1>2, <1>7, SumRemove
<1>9. Total(g) \in Int
  BY <1>7, SumInt
<1>10. CapturesIn(m) = Total(f) /\ CapturesIn(l) = Total(g)
  BY <1>1, <1>5 DEF CapturesIn
<1>. QED
  BY <1>6, <1>8, <1>9, <1>10

\* captureReservationUsage: what it takes off the legs it adds to the row and the log.
LEMMA CaptureBooks ==
  ASSUME IInv, Books, NEW r \in Reservations, NEW seq \in Seqs, NEW amount \in 0 .. MaxAmount,
         CaptureReservationUsage(r, seq, amount)
  PROVE  Books'
<1>1. PICK take \in CaptureTakes(r, amount) :
        /\ Total(take) = amount
        /\ leg' = [leg EXCEPT ![r] =
                     [s \in Slots |-> [leg[r][s] EXCEPT !.captured = @ + TakenFrom(take, s)]]]
  BY DEF CaptureReservationUsage
<1>2. TypeOK /\ LegsBounded /\ amount \in Nat
  BY DEF IInv
<1>3. leg' \in [Reservations -> [Slots -> Leg]]
  <2>1. IInv'
    BY CaptureIInv
  <2>. QED
    BY <2>1 DEF IInv, TypeOK
<1>4. PICK t \in [Slots -> Int] : t = [s \in Slots |-> TakenFrom(take, s)] /\ Total(t) = amount
  <2>1. HoldingSlots(r) \in SUBSET Slots /\ take \in [HoldingSlots(r) -> Nat]
    BY DEF HoldingSlots, CaptureTakes, FifoTakes
  <2>2. /\ [s \in Slots |-> TakenFrom(take, s)] \in [Slots -> Nat]
        /\ Total([s \in Slots |-> TakenFrom(take, s)]) = Total(take)
    BY <2>1, FiniteDomains, TakenTotal
  <2>. QED
    BY <1>1, <2>2
<1>5. PICK l \in [Slots -> Leg], n \in [Slots -> Leg] : l = leg[r] /\ n = leg'[r]
  BY <1>2, <1>3 DEF TypeOK
<1>6. ASSUME NEW s \in Slots
      PROVE  /\ n[s].allocated = l[s].allocated
             /\ n[s].captured = l[s].captured + t[s]
             /\ n[s].released = l[s].released
  <2>1. n[s] = [l[s] EXCEPT !.captured = @ + t[s]]
    BY <1>1, <1>2, <1>4, <1>5 DEF TypeOK
  <2>2. l[s] \in Leg
    OBVIOUS
  <2>. QED
    BY <2>1, <2>2 DEF Leg
<1>7. /\ AllocatedIn(n) = AllocatedIn(l)
      /\ CapturedIn(n) = CapturedIn(l) + amount
      /\ ReservedIn(n) = ReservedIn(l) - amount
      /\ \A x \in Sources : Owed(n, x) = Owed(l, x)
  BY <1>4, <1>6, LegsCaptured
<1>8. /\ res' = [res EXCEPT ![r].consumed = @ + amount]
      /\ bal' = [bal EXCEPT !.reserved = @ - amount, !.consumed = @ + amount]
      /\ captureLog' = [captureLog EXCEPT ![r][seq] = amount]
      /\ captureLog[r][seq] = NotRecorded
      /\ UNCHANGED credit
  BY DEF CaptureReservationUsage
<1>9. \A q \in Reservations : q # r =>
        leg'[q] = leg[q] /\ res'[q] = res[q] /\ captureLog'[q] = captureLog[q]
  BY <1>1, <1>2, <1>8 DEF TypeOK
<1>10. /\ res'[r].allocation = res[r].allocation /\ res'[r].batches = res[r].batches
       /\ res'[r].consumed = res[r].consumed + amount
       /\ bal'.reserved = bal.reserved - amount /\ bal'.granted = bal.granted
  <2>1. res[r] \in Reservation /\ bal \in Balances
    BY <1>2 DEF TypeOK
  <2>. QED
    BY <1>2, <1>8, <2>1 DEF TypeOK, Reservation, Balances
<1>11. CapturesIn(captureLog'[r]) = CapturesIn(captureLog[r]) + amount
  <2>1. PICK log \in [Seqs -> Nat \cup {NotRecorded}],
             new \in [Seqs -> Nat \cup {NotRecorded}] :
          log = captureLog[r] /\ new = captureLog'[r]
    BY <1>2, <1>8 DEF TypeOK
  <2>2. /\ log[seq] = NotRecorded
        /\ new[seq] = amount /\ \A f \in Seqs \ {seq} : new[f] = log[f]
    BY <1>2, <1>8, <2>1 DEF TypeOK
  <2>3. CapturesIn(new) = CapturesIn(log) + amount
    BY <1>2, <2>2, CaptureRecorded
  <2>. QED
    BY <2>1, <2>3
<1>12. LegBooks'
  <2>1. LegBooks
    BY DEF Books
  <2>2. /\ res[r].allocation = AllocatedIn(l) /\ res[r].consumed = CapturedIn(l)
        /\ res[r].consumed = CapturesIn(captureLog[r])
        /\ \A s \in Slots : s[1] > res[r].batches => l[s] = NoLeg
    BY <1>5, <2>1 DEF LegBooks, RowsByLegs, CapturesAddUp, LaterBatchesEmpty
  <2>3. bal'.reserved = bal.reserved + (ReservedIn(leg'[r]) - ReservedIn(leg[r]))
    <3>1. ReservedIn(l) \in Int /\ bal.reserved \in Int
      BY <1>2, LegSumsInt DEF TypeOK, Balances
    <3>. QED
      BY <1>2, <1>5, <1>7, <1>10, <3>1
  <2>4. /\ res'[r].allocation = AllocatedIn(leg'[r]) /\ res'[r].consumed = CapturedIn(leg'[r])
        /\ res'[r].consumed = CapturesIn(captureLog'[r])
    BY <1>5, <1>7, <1>10, <1>11, <2>2
  <2>5. ASSUME NEW s \in Slots, s[1] > res'[r].batches
        PROVE  leg'[r][s] = NoLeg
    <3>1. l[s] = NoLeg
      BY <1>10, <2>2, <2>5
    <3>2. s \notin HoldingSlots(r)
      BY <1>5, <3>1 DEF HoldingSlots, StillReserved, NoLeg
    <3>3. t[s] = 0
      BY <1>4, <3>2 DEF TakenFrom, CaptureTakes, FifoTakes
    <3>4. n[s] \in Leg
      OBVIOUS
    <3>. QED
      BY <1>5, <1>6, <3>1, <3>3, <3>4 DEF NoLeg, Leg
  <2>. QED
    BY <1>2, <1>3, <1>9, <2>1, <2>3, <2>4, <2>5, OneReservationKeepsLegBooks
<1>13. CreditBooks'
  <2>1. \A c \in Credits : [q \in Reservations |-> Owed(leg'[q], c)]
                             = [q \in Reservations |-> Owed(leg[q], c)]
    BY <1>5, <1>7, <1>9, SourcesSplit
  <2>. QED
    BY <1>8, <1>10, <2>1
       DEF Books, CreditBooks, CreditsByLegs, UnissuedIsEmpty, ExpiredIsEmpty,
           CreditsMatchLedger, Live
<1>. QED
  BY <1>12, <1>13 DEF Books

\* What a release hands back to a source is what the legs held of it.
LEMMA ReleaseFacts ==
  ASSUME IInv, NEW r \in Reservations, ReleaseReservation(r)
  PROVE  \E back \in [Sources -> Nat], granted \in Nat :
           /\ \A x \in Sources : back[x] = HeldIn(leg[r], x)
           /\ granted = Total([c \in Credits |-> back[c]])
           /\ credit' = [c \in Credits |-> [credit[c] EXCEPT !.remaining = @ + back[c]]]
           /\ bal' = ReturnedBalances(granted, back[Purchased])
           /\ granted > 0 => CreditsMatchLedger'
<1>1. PICK back \in [Sources -> 0 .. bal.reserved], granted \in 0 .. bal.reserved :
        /\ \A x \in Sources : back[x] = Leftover(r, x)
        /\ granted = Total([c \in Credits |-> back[c]])
        /\ credit' = [c \in Credits |-> [credit[c] EXCEPT !.remaining = @ + back[c]]]
        /\ bal' = ReturnedBalances(granted, back[Purchased])
        /\ granted > 0 => CreditsMatchLedger'
  BY DEF ReleaseReservation
<1>2. back \in [Sources -> Nat] /\ granted \in Nat
  BY DEF IInv, TypeOK, Balances
<1>3. \A x \in Sources : back[x] = HeldIn(leg[r], x)
  BY <1>1 DEF Leftover, HeldIn
<1>. QED
  BY <1>1, <1>2, <1>3

\* Nothing comes back to a credit that is not live: what does come back is all
\* accounted for by the live ones, by the constraint trigger before the release
\* and after it.
LEMMA OnlyLiveRefilled ==
  ASSUME TypeOK, CreditsMatchLedger, NEW back \in [Credits -> Nat],
         credit' = [c \in Credits |-> [credit[c] EXCEPT !.remaining = @ + back[c]]],
         bal'.granted = bal.granted + Total(back),
         Total(back) > 0 => CreditsMatchLedger',
         NEW c \in Credits, ~Live(c)
  PROVE  back[c] = 0
<1>. DEFINE L == {d \in Credits : Live(d)}
<1>1. /\ back \in [Credits -> Int]
      /\ IsFiniteSet(Credits) /\ IsFiniteSet(L) /\ L \in SUBSET Credits
      /\ Total(back) \in Nat /\ \A d \in Credits : back[d] <= Total(back)
  BY FiniteDomains, FS_Subset, SumNat
<1>2. CASE Total(back) = 0
  BY <1>1, <1>2
<1>3. CASE Total(back) > 0
  <2>1. ASSUME NEW d \in Credits
        PROVE  /\ credit[d].remaining \in Nat
               /\ credit'[d].remaining = credit[d].remaining + back[d]
               /\ credit'[d].status = credit[d].status
    <3>1. credit[d] \in Credit
      BY DEF TypeOK
    <3>. QED
      BY <3>1 DEF Credit
  <2>2. {d \in Credits : Live(d)'} = L
    BY <2>1 DEF Live
  <2>3. PICK old, new, part : /\ old = [d \in L |-> credit[d].remaining]
                              /\ new = [d \in L |-> credit'[d].remaining]
                              /\ part = [d \in L |-> back[d]]
    OBVIOUS
  <2>4. /\ old \in [L -> Int] /\ new \in [L -> Int] /\ part \in [L -> Int]
        /\ \A d \in L : new[d] = old[d] + part[d]
    BY <2>1, <2>3
  <2>5. Total(new) = Total(old) + Total(part) /\ Total(old) \in Int /\ Total(part) \in Int
    <3>. HIDE DEF L
    <3>. QED
      BY <1>1, <2>4, SumAdd, SumInt
  <2>6. bal.granted = Total(old)
    BY <2>3 DEF CreditsMatchLedger
  <2>7. bal'.granted = Total(new)
    <3>1. CreditsMatchLedger'
      BY <1>3
    <3>2. bal'.granted = Total([d \in {e \in Credits : Live(e)'} |-> credit'[d].remaining])
      BY <3>1 DEF CreditsMatchLedger
    <3>. QED
      BY <2>2, <2>3, <3>2
  <2>8. Total(part) = Total(back)
    <3>1. bal'.granted = bal.granted + Total(back) /\ Total(back) \in Int
      BY <1>1
    <3>2. Total(old) + Total(part) = Total(old) + Total(back)
      BY <2>5, <2>6, <2>7, <3>1
    <3>3. PICK o \in Int, p \in Int, q \in Int :
            o = Total(old) /\ p = Total(part) /\ q = Total(back)
      BY <2>5, <3>1
    <3>4. o + p = o + q
      BY <3>2, <3>3
    <3>5. p = (o + p) - o /\ q = (o + q) - o
      BY <3>3
    <3>. QED
      BY <3>3, <3>4, <3>5
  <2>9. Total(back) = SumOver(back, L) + SumOver(back, Credits \ L)
    <3>1. L \cup (Credits \ L) = Credits /\ L \cap (Credits \ L) = {}
      OBVIOUS
    <3>2. Credits \ L \in SUBSET Credits
      OBVIOUS
    <3>. HIDE DEF L
    <3>3. SumOver(back, L \cup (Credits \ L)) = SumOver(back, L) + SumOver(back, Credits \ L)
      BY <1>1, <3>1, <3>2, SumSplit
    <3>. QED
      BY <1>1, <3>1, <3>3, WholeSum
  <2>10. SumOver(back, L) = Total(part)
    BY <2>3 DEF SumOver
  <2>11. PICK rest : rest = [d \in Credits \ L |-> back[d]]
    OBVIOUS
  <2>12. rest \in [Credits \ L -> Nat] /\ IsFiniteSet(Credits \ L) /\ c \in Credits \ L
    BY <1>1, <2>11, FS_Subset
  <2>13. Total(rest) = 0
    <3>1. SumOver(back, Credits \ L) = Total(rest)
      BY <2>11 DEF SumOver
    <3>2. Total(rest) \in Nat
      <4>. HIDE DEF L
      <4>. QED
        BY <2>12, SumNat
    <3>3. Total(part) = Total(part) + Total(rest)
      BY <2>8, <2>9, <2>10, <3>1
    <3>4. PICK o \in Int, p \in Int : o = Total(part) /\ p = Total(rest)
      BY <2>5, <3>2
    <3>5. o = o + p
      BY <3>3, <3>4
    <3>6. p = (o + p) - o
      BY <3>4
    <3>7. p = 0
      BY <3>5, <3>6
    <3>. QED
      BY <3>4, <3>7
  <2>14. rest[c] <= Total(rest) /\ rest[c] \in Nat
    <3>. HIDE DEF L
    <3>. QED
      BY <2>12, SumNat
  <2>. QED
    BY <2>11, <2>12, <2>13, <2>14
<1>. QED
  BY <1>1, <1>2, <1>3

\* releaseReservation: what the legs give up goes back to the sources they held it of.
LEMMA ReleaseBooks ==
  ASSUME IInv, Books, NEW r \in Reservations, ReleaseReservation(r)
  PROVE  Books'
<1>1. PICK back \in [Sources -> Nat], granted \in Nat :
        /\ \A x \in Sources : back[x] = HeldIn(leg[r], x)
        /\ granted = Total([c \in Credits |-> back[c]])
        /\ credit' = [c \in Credits |-> [credit[c] EXCEPT !.remaining = @ + back[c]]]
        /\ bal' = ReturnedBalances(granted, back[Purchased])
        /\ granted > 0 => CreditsMatchLedger'
  BY ReleaseFacts
<1>2. TypeOK /\ LegsBounded
  BY DEF IInv
<1>3. leg' \in [Reservations -> [Slots -> Leg]]
  <2>1. IInv'
    BY ReleaseIInv
  <2>. QED
    BY <2>1 DEF IInv, TypeOK
<1>4. PICK l \in [Slots -> Leg], n \in [Slots -> Leg] : l = leg[r] /\ n = leg'[r]
  BY <1>2, <1>3 DEF TypeOK
<1>5. /\ res' = [res EXCEPT ![r].status = "reconciled"]
      /\ leg' = [leg EXCEPT ![r] = ReleasedLegs(r)]
      /\ UNCHANGED captureLog
  BY DEF ReleaseReservation
<1>6. ASSUME NEW s \in Slots
      PROVE  /\ n[s].allocated = l[s].allocated
             /\ n[s].captured = l[s].captured
             /\ StillReserved(n[s]) = 0
             /\ l[s] = NoLeg => n[s] = NoLeg
  <2>1. n[s] = [l[s] EXCEPT !.released = @ + StillReserved(l[s])]
    BY <1>2, <1>4, <1>5 DEF TypeOK, ReleasedLegs
  <2>2. l[s] \in Leg
    OBVIOUS
  <2>3. n[s] = [allocated |-> l[s].allocated, captured |-> l[s].captured,
                released |-> l[s].allocated - l[s].captured]
    BY <2>1, <2>2 DEF Leg, StillReserved
  <2>. QED
    BY <2>2, <2>3 DEF Leg, StillReserved, NoLeg
<1>7. /\ AllocatedIn(n) = AllocatedIn(l)
      /\ CapturedIn(n) = CapturedIn(l)
      /\ ReservedIn(n) = 0
      /\ \A x \in Sources : Owed(n, x) = Owed(l, x) - HeldIn(l, x)
  BY <1>6, LegsReleased
<1>8. PICK b \in [Credits -> Nat] : b = [c \in Credits |-> back[c]] /\ granted = Total(b)
  BY <1>1, SourcesSplit
<1>9. \A c \in Credits : b[c] = HeldIn(l, c)
  BY <1>1, <1>4, <1>8, SourcesSplit
<1>10. ReservedIn(l) = back[Purchased] + granted
  <2>1. b = [c \in Credits |-> HeldIn(l, c)]
    BY <1>8, <1>9
  <2>2. back[Purchased] = HeldIn(l, Purchased)
    BY <1>1, <1>4, SourcesSplit
  <2>. QED
    BY <1>8, <2>1, <2>2, ReservedBySource
<1>11. /\ bal'.reserved = bal.reserved - granted - back[Purchased]
       /\ bal'.granted = bal.granted + granted
       /\ bal.granted \in Nat /\ bal.reserved \in Nat /\ back[Purchased] \in Nat
  BY <1>1, <1>2, SourcesSplit DEF TypeOK, Balances, ReturnedBalances
<1>12. \A q \in Reservations : q # r => leg'[q] = leg[q] /\ res'[q] = res[q]
  BY <1>2, <1>5 DEF TypeOK
<1>13. LegBooks'
  <2>1. LegBooks
    BY DEF Books
  <2>2. /\ res'[r].allocation = res[r].allocation /\ res'[r].consumed = res[r].consumed
        /\ res'[r].batches = res[r].batches
    <3>1. res[r] \in Reservation
      BY <1>2 DEF TypeOK
    <3>. QED
      BY <1>2, <1>5, <3>1 DEF TypeOK, Reservation
  <2>3. /\ res[r].allocation = AllocatedIn(l) /\ res[r].consumed = CapturedIn(l)
        /\ res[r].consumed = CapturesIn(captureLog[r])
        /\ \A s \in Slots : s[1] > res[r].batches => l[s] = NoLeg
    BY <1>4, <2>1 DEF LegBooks, RowsByLegs, CapturesAddUp, LaterBatchesEmpty
  <2>4. bal'.reserved = bal.reserved + (ReservedIn(leg'[r]) - ReservedIn(leg[r]))
    BY <1>4, <1>7, <1>10, <1>11
  <2>. QED
    BY <1>2, <1>3, <1>4, <1>5, <1>6, <1>7, <1>12, <2>1, <2>2, <2>3, <2>4,
       OneReservationKeepsLegBooks
<1>14. ASSUME NEW c \in Credits
       PROVE  /\ credit[c].issued \in Nat /\ credit[c].remaining \in Nat
              /\ credit[c].retired \in Nat
              /\ credit'[c].status = credit[c].status
              /\ credit'[c].issued = credit[c].issued
              /\ credit'[c].retired = credit[c].retired
              /\ credit'[c].remaining = credit[c].remaining + b[c]
  <2>1. credit[c] \in Credit /\ credit'[c] = [credit[c] EXCEPT !.remaining = @ + b[c]]
    BY <1>1, <1>2, <1>8 DEF TypeOK
  <2>. QED
    BY <2>1 DEF Credit
<1>15. ASSUME NEW c \in Credits, ~Live(c)
       PROVE  b[c] = 0
  <2>1. CreditsMatchLedger /\ bal'.granted = bal.granted + Total(b)
    BY <1>8, <1>11 DEF Books, CreditBooks
  <2>2. credit' = [d \in Credits |-> [credit[d] EXCEPT !.remaining = @ + b[d]]]
    BY <1>1, <1>8
  <2>3. Total(b) > 0 => CreditsMatchLedger'
    BY <1>1, <1>8
  <2>. QED
    BY <1>2, <1>15, <2>1, <2>2, <2>3, OnlyLiveRefilled
<1>16. CreditsByLegs'
  <2>. SUFFICES ASSUME NEW c \in Credits
                PROVE  credit'[c].issued - credit'[c].remaining - credit'[c].retired =
                         Total([q \in Reservations |-> Owed(leg'[q], c)])
    BY DEF CreditsByLegs
  <2>1. PICK L, M : L = leg /\ M = leg'
    OBVIOUS
  <2>2. L \in [Reservations -> [Slots -> Leg]] /\ M \in [Reservations -> [Slots -> Leg]]
    BY <1>2, <1>3, <2>1 DEF TypeOK
  <2>3. PICK old, new : /\ old = Total([q \in Reservations |-> Owed(L[q], c)])
                        /\ new = Total([q \in Reservations |-> Owed(M[q], c)])
    OBVIOUS
  <2>4. new = old - Owed(L[r], c) + Owed(M[r], c) /\ old \in Int
    BY <1>12, <2>1, <2>2, <2>3, OneLegMapWritten, SumsOverReservations
  <2>5. Owed(L[r], c) \in Int /\ b[c] \in Int
    <3>1. c \in Sources /\ L[r] \in [Slots -> Leg]
      BY <2>2, SourcesSplit
    <3>. QED
      BY <3>1, LegSumsInt DEF Owed
  <2>6. Owed(M[r], c) = Owed(L[r], c) - b[c]
    BY <1>4, <1>7, <1>9, <2>1, SourcesSplit
  <2>7. credit[c].issued - credit[c].remaining - credit[c].retired = old
    BY <2>1, <2>3 DEF Books, CreditBooks, CreditsByLegs
  <2>. QED
    BY <1>14, <2>1, <2>3, <2>4, <2>5, <2>6, <2>7
<1>17. UnissuedIsEmpty' /\ ExpiredIsEmpty'
  <2>. SUFFICES ASSUME NEW c \in Credits
                PROVE  /\ credit'[c].status = "none" =>
                            /\ credit'[c].issued = 0 /\ credit'[c].remaining = 0
                            /\ credit'[c].retired = 0
                       /\ credit'[c].status = "expired" => credit'[c].remaining = 0
    BY DEF UnissuedIsEmpty, ExpiredIsEmpty
  <2>1. CASE Live(c)
    BY <1>14, <2>1 DEF Live, LiveStatus
  <2>2. CASE ~Live(c)
    <3>1. credit'[c].remaining = credit[c].remaining
      BY <1>14, <1>15, <2>2
    <3>. QED
      BY <1>14, <3>1 DEF Books, CreditBooks, UnissuedIsEmpty, ExpiredIsEmpty
  <2>. QED
    BY <2>1, <2>2
<1>18. CreditsMatchLedger'
  <2>1. CASE granted > 0
    BY <1>1, <2>1
  <2>2. CASE granted = 0
    <3>1. \A c \in Credits : b[c] = 0
      <4>1. \A c \in Credits : b[c] <= Total(b) /\ b[c] \in Nat
        BY FiniteDomains, SumNat
      <4>2. Total(b) = 0
        BY <1>8, <2>2
      <4>. QED
        BY <4>1, <4>2
    <3>2. \A c \in Credits : credit'[c].status = credit[c].status
                             /\ credit'[c].remaining = credit[c].remaining
      BY <1>14, <3>1
    <3>3. {d \in Credits : Live(d)'} = {d \in Credits : Live(d)}
      BY <3>2 DEF Live
    <3>4. [c \in {d \in Credits : Live(d)'} |-> credit'[c].remaining]
            = [c \in {d \in Credits : Live(d)} |-> credit[c].remaining]
      BY <3>2, <3>3
    <3>5. CreditsMatchLedger /\ bal'.granted = bal.granted
      BY <1>11, <2>2 DEF Books, CreditBooks
    <3>. QED
      BY <3>4, <3>5 DEF CreditsMatchLedger
  <2>. QED
    BY <2>1, <2>2
<1>. QED
  BY <1>13, <1>16, <1>17, <1>18 DEF Books, CreditBooks

\* Commands that write credits and no leg: what left a credit stays the same.
LEMMA CreditsRewritten ==
  ASSUME CreditBooks, UNCHANGED leg, CreditsMatchLedger',
         \A c \in Credits :
           /\ credit'[c].issued - credit'[c].remaining - credit'[c].retired =
                credit[c].issued - credit[c].remaining - credit[c].retired
           /\ credit'[c].status = "none" =>
                credit'[c].issued = 0 /\ credit'[c].remaining = 0 /\ credit'[c].retired = 0
           /\ credit'[c].status = "expired" => credit'[c].remaining = 0
  PROVE  CreditBooks'
BY DEF CreditBooks, CreditsByLegs, UnissuedIsEmpty, ExpiredIsEmpty

\* A credit is issued where nothing was taken yet.
LEMMA IssueBooks ==
  ASSUME IInv, Books, NEW c \in Credits, NEW amount \in Amounts, NEW expires \in now + 1 .. Never,
         IssueCredit(c, amount, expires)
  PROVE  Books'
<1>1. TypeOK /\ amount \in Nat
  BY DEF IInv, Amounts
<1>2. /\ credit[c].status = "none"
      /\ credit' = [credit EXCEPT ![c] =
                      [status |-> LiveStatus, expires |-> expires, issued |-> amount,
                       remaining |-> amount, retired |-> 0]]
      /\ CreditsMatchLedger'
      /\ UNCHANGED <<res, leg, captureLog>>
      /\ bal' = [bal EXCEPT !.granted = @ + amount]
  BY DEF IssueCredit, NextCredit
<1>3. bal'.reserved = bal.reserved
  BY <1>1, <1>2 DEF TypeOK, Balances
<1>4. CreditBooks'
  <2>1. UnissuedIsEmpty /\ ExpiredIsEmpty /\ CreditBooks
    BY DEF Books, CreditBooks
  <2>2. ASSUME NEW d \in Credits
        PROVE  /\ credit'[d].issued - credit'[d].remaining - credit'[d].retired =
                    credit[d].issued - credit[d].remaining - credit[d].retired
               /\ credit'[d].status = "none" =>
                    credit'[d].issued = 0 /\ credit'[d].remaining = 0 /\ credit'[d].retired = 0
               /\ credit'[d].status = "expired" => credit'[d].remaining = 0
    <3>1. CASE d # c
      <4>1. credit'[d] = credit[d]
        BY <1>1, <1>2, <3>1 DEF TypeOK
      <4>. QED
        BY <2>1, <4>1 DEF UnissuedIsEmpty, ExpiredIsEmpty
    <3>2. CASE d = c
      <4>1. credit'[d] = [status |-> LiveStatus, expires |-> expires, issued |-> amount,
                          remaining |-> amount, retired |-> 0]
        BY <1>1, <1>2, <3>2 DEF TypeOK
      <4>2. credit[d].issued = 0 /\ credit[d].remaining = 0 /\ credit[d].retired = 0
        BY <1>2, <2>1, <3>2 DEF UnissuedIsEmpty
      <4>. QED
        BY <1>1, <4>1, <4>2 DEF LiveStatus
    <3>. QED
      BY <3>1, <3>2
  <2>. QED
    BY <1>2, <2>1, <2>2, CreditsRewritten
<1>. QED
  BY <1>2, <1>3, <1>4, LegBooksKept DEF Books

\* What a claw back takes off a credit it retires.
LEMMA ClawBackBooks ==
  ASSUME IInv, Books, NEW amount \in Amounts, ClawBackGranted(amount)
  PROVE  Books'
<1>1. TypeOK /\ amount \in Nat
  BY DEF IInv, Amounts
<1>2. PICK take \in DrainTakes(amount, now), drained \in 1 .. amount :
        /\ credit' = [c \in Credits |->
                        [Drained(take)[c] EXCEPT !.retired = @ + TakenFrom(take, c)]]
        /\ bal' = [bal EXCEPT !.granted = @ - drained]
        /\ CreditsMatchLedger'
  BY DEF ClawBackGranted
<1>3. UNCHANGED <<res, leg, captureLog>>
  BY DEF ClawBackGranted
<1>4. bal'.reserved = bal.reserved
  BY <1>1, <1>2 DEF TypeOK, Balances
<1>5. CreditBooks'
  <2>1. UnissuedIsEmpty /\ ExpiredIsEmpty /\ CreditBooks
    BY DEF Books, CreditBooks
  <2>2. ASSUME NEW c \in Credits
        PROVE  /\ credit'[c].issued - credit'[c].remaining - credit'[c].retired =
                    credit[c].issued - credit[c].remaining - credit[c].retired
               /\ credit'[c].status = "none" =>
                    credit'[c].issued = 0 /\ credit'[c].remaining = 0 /\ credit'[c].retired = 0
               /\ credit'[c].status = "expired" => credit'[c].remaining = 0
    <3>1. PICK t \in Nat : t = TakenFrom(take, c) /\ (~Live(c) => t = 0)
      BY <1>1, DrainFacts
    <3>2. PICK x \in Credit : x = Drained(take)[c]
      BY <1>1, DrainedType
    <3>3. credit'[c] = [x EXCEPT !.retired = @ + t]
      BY <1>2, <3>1, <3>2
    <3>4. /\ x.status = credit[c].status /\ x.issued = credit[c].issued
          /\ x.retired = credit[c].retired /\ x.remaining = credit[c].remaining - t
          /\ credit[c].issued \in Nat /\ credit[c].retired \in Nat /\ credit[c].remaining \in Nat
      BY <1>1, <3>1, <3>2, DrainedFields
    <3>5. /\ credit'[c].status = credit[c].status
          /\ credit'[c].issued = credit[c].issued
          /\ credit'[c].retired = credit[c].retired + t
          /\ credit'[c].remaining = credit[c].remaining - t
      BY <3>3, <3>4 DEF Credit
    <3>6. CASE Live(c)
      BY <3>4, <3>5, <3>6 DEF Live, LiveStatus
    <3>7. CASE ~Live(c)
      BY <2>1, <3>1, <3>4, <3>5, <3>7 DEF UnissuedIsEmpty, ExpiredIsEmpty
    <3>. QED
      BY <3>6, <3>7
  <2>. QED
    BY <1>2, <1>3, <2>1, <2>2, CreditsRewritten
<1>. QED
  BY <1>3, <1>4, <1>5, LegBooksKept DEF Books

\* An expired credit's money is retired, not lost.
LEMMA ExpireBooks ==
  ASSUME IInv, Books, NEW c \in Credits, credit' = [credit EXCEPT ![c] = Expired(@)],
         CreditsMatchLedger', UNCHANGED <<res, leg, captureLog>>, bal'.reserved = bal.reserved
  PROVE  Books'
<1>1. UnissuedIsEmpty /\ ExpiredIsEmpty /\ CreditBooks
  BY DEF Books, CreditBooks
<1>2. ASSUME NEW d \in Credits
      PROVE  /\ credit'[d].issued - credit'[d].remaining - credit'[d].retired =
                  credit[d].issued - credit[d].remaining - credit[d].retired
             /\ credit'[d].status = "none" =>
                  credit'[d].issued = 0 /\ credit'[d].remaining = 0 /\ credit'[d].retired = 0
             /\ credit'[d].status = "expired" => credit'[d].remaining = 0
  <2>1. PICK x \in Credit : x = credit[d]
    BY DEF IInv, TypeOK
  <2>2. CASE d # c
    <3>1. credit'[d] = x
      BY <2>1, <2>2 DEF IInv, TypeOK
    <3>. QED
      BY <1>1, <2>1, <3>1 DEF UnissuedIsEmpty, ExpiredIsEmpty
  <2>3. CASE d = c
    <3>1. credit'[d] = Expired(x)
      BY <2>1, <2>3 DEF IInv, TypeOK
    <3>2. /\ Expired(x).status = "expired" /\ Expired(x).issued = x.issued
          /\ Expired(x).remaining = 0 /\ Expired(x).retired = x.retired + x.remaining
          /\ x.issued \in Nat /\ x.retired \in Nat /\ x.remaining \in Nat
      BY DEF Expired, Credit
    <3>. QED
      BY <2>1, <3>1, <3>2
  <2>. QED
    BY <2>2, <2>3
<1>3. CreditBooks'
  BY <1>1, <1>2, CreditsRewritten
<1>. QED
  BY <1>3, LegBooksKept DEF Books

\* The sweep expires a credit or leaves it alone.
LEMMA SweepOneBooks ==
  ASSUME IInv, Books, NEW c \in Credits, SweepOne(c)
  PROVE  Books'
<1>1. UNCHANGED <<res, leg, captureLog>>
  BY DEF SweepOne
<1>2. CASE StampEmpty(c)
  BY <1>1, <1>2, ExpireBooks DEF StampEmpty
<1>3. CASE ExpireGrant(c)
  <2>1. bal'.reserved = bal.reserved
    BY <1>3 DEF ExpireGrant, IInv, TypeOK, Balances
  <2>. QED
    BY <1>1, <1>3, <2>1, ExpireBooks DEF ExpireGrant
<1>4. CASE SkipGrant(c)
  BY <1>1, <1>4, LegBooksKept, CreditBooksKept DEF SkipGrant, Books
<1>. QED
  BY <1>2, <1>3, <1>4 DEF SweepOne

\* The other steps write neither legs, reservations nor credits, and no balance
\* but the purchased one.
LEMMA OtherBooks ==
  ASSUME IInv, Books, UNCHANGED <<res, leg, captureLog, credit>>,
         bal'.reserved = bal.reserved, bal'.granted = bal.granted
  PROVE  Books'
BY LegBooksKept, CreditBooksKept DEF Books

\* Purchased money and top-ups are in no book but the purchased account.
LEMMA PurchasedBooks ==
  ASSUME IInv, Books,
         \/ \E amount \in Amounts : AddPurchased(amount) \/ ClawBackPurchased(amount)
         \/ \E t \in TopUps : \/ InsertTopUp(t) \/ FailTopUp(t) \/ StoreTopUpSession(t)
                              \/ \E paid \in Amounts : SettleTopUp(t, paid)
  PROVE  Books'
<1>1. bal'.reserved = bal.reserved /\ bal'.granted = bal.granted
  BY DEF IInv, TypeOK, Balances, AddPurchased, ClawBackPurchased, InsertTopUp, FailTopUp,
         StoreTopUpSession, SettleTopUp
<1>2. UNCHANGED <<res, leg, captureLog, credit>>
  BY DEF AddPurchased, ClawBackPurchased, InsertTopUp, FailTopUp, StoreTopUpSession, SettleTopUp
<1>. QED
  BY <1>1, <1>2, OtherBooks

\* Every step keeps the books.
LEMMA NextBooks == IInv /\ Books /\ [Next]_vars => Books'
<1>. SUFFICES ASSUME IInv, Books, [Next]_vars
              PROVE  Books'
  OBVIOUS
<1>1. CASE ReservationStep
  BY <1>1, CreateBooks, CaptureBooks, ExtendBooks, ReleaseBooks DEF ReservationStep
<1>2. CASE FundingStep
  <2>1. CASE \E amount \in Amounts, c \in Credits, expires \in now + 1 .. Never :
               IssueCredit(c, amount, expires)
    BY <2>1, IssueBooks
  <2>2. CASE \E amount \in Amounts : ClawBackGranted(amount)
    BY <2>2, ClawBackBooks
  <2>. QED
    BY <1>2, <2>1, <2>2, PurchasedBooks DEF FundingStep
<1>3. CASE \E c \in Credits : SweepOne(c)
  BY <1>3, SweepOneBooks
<1>4. CASE SweepScan \/ SweepCrash \/ Tick \/ UNCHANGED vars
  BY <1>4, OtherBooks DEF SweepScan, SweepCrash, Tick, vars
<1>. QED
  BY <1>1, <1>2, <1>3, <1>4 DEF Next, SweepStep

\* The books balance when there is nothing in them.
LEMMA InitBooks == Init => Books
<1>. SUFFICES ASSUME Init
              PROVE  Books
  OBVIOUS
<1>1. TypeOK
  BY InitIInv DEF IInv
<1>2. ASSUME NEW r \in Reservations
      PROVE  /\ AllocatedIn(leg[r]) = 0 /\ ReservedIn(leg[r]) = 0 /\ CapturedIn(leg[r]) = 0
             /\ \A s \in Slots : leg[r][s] = NoLeg
             /\ res[r] = NoReservation
  <2>1. PICK l \in [Slots -> Leg] : l = leg[r]
    BY <1>1 DEF TypeOK
  <2>2. \A s \in Slots : l[s] = NoLeg
    BY <2>1 DEF Init
  <2>3. AllocatedIn(l) = 0 /\ ReservedIn(l) = 0 /\ CapturedIn(l) = 0
    BY <2>2, EmptyLegs
  <2>. QED
    BY <2>1, <2>2, <2>3 DEF Init
<1>3. ReservedByLegs
  <2>1. PICK f : f = [r \in Reservations |-> ReservedIn(leg[r])]
    OBVIOUS
  <2>2. f \in [Reservations -> Int] /\ \A r \in Reservations : f[r] = 0
    BY <1>2, <2>1
  <2>3. Total(f) = 0
    BY <2>2, FiniteDomains, SumZero
  <2>. QED
    BY <2>1, <2>3 DEF Init, ReservedByLegs
<1>4. RowsByLegs /\ LaterBatchesEmpty
  BY <1>2 DEF RowsByLegs, LaterBatchesEmpty, NoReservation
<1>5. CapturesAddUp
  <2>. SUFFICES ASSUME NEW r \in Reservations
                PROVE  res[r].consumed = CapturesIn(captureLog[r])
    BY DEF CapturesAddUp
  <2>1. Recorded(captureLog[r]) = {}
    BY DEF Init, Recorded
  <2>2. PICK f : f = [x \in Recorded(captureLog[r]) |-> captureLog[r][x]]
    OBVIOUS
  <2>3. Total(f) = 0
    BY <2>1, <2>2, SumEmpty
  <2>. QED
    BY <1>2, <2>2, <2>3 DEF CapturesIn, NoReservation
<1>6. CreditsByLegs
  <2>. SUFFICES ASSUME NEW c \in Credits
                PROVE  credit[c].issued - credit[c].remaining - credit[c].retired =
                         Total([r \in Reservations |-> Owed(leg[r], c)])
    BY DEF CreditsByLegs
  <2>1. ASSUME NEW r \in Reservations
        PROVE  Owed(leg[r], c) = 0
    <3>1. PICK h, p : /\ h = [b \in Batches |-> StillReserved(leg[r][<<b, c>>])]
                      /\ p = [b \in Batches |-> leg[r][<<b, c>>].captured]
      OBVIOUS
    <3>2. \A b \in Batches : leg[r][<<b, c>>] = NoLeg
      BY <1>2, SourcesSplit
    <3>3. /\ h \in [Batches -> Int] /\ \A b \in Batches : h[b] = 0
          /\ p \in [Batches -> Int] /\ \A b \in Batches : p[b] = 0
      BY <3>1, <3>2 DEF NoLeg, StillReserved
    <3>4. Total(h) = 0 /\ Total(p) = 0
      BY <3>3, FiniteDomains, SumZero
    <3>. QED
      BY <3>1, <3>4 DEF Owed, HeldIn, SpentIn
  <2>2. PICK f : f = [r \in Reservations |-> Owed(leg[r], c)]
    OBVIOUS
  <2>3. f \in [Reservations -> Int] /\ \A r \in Reservations : f[r] = 0
    BY <2>1, <2>2
  <2>4. Total(f) = 0
    BY <2>3, FiniteDomains, SumZero
  <2>. QED
    BY <2>2, <2>4 DEF Init, NoCredit
<1>7. UnissuedIsEmpty /\ ExpiredIsEmpty
  BY DEF Init, UnissuedIsEmpty, ExpiredIsEmpty, NoCredit
<1>8. CreditsMatchLedger
  <2>1. PICK f : f = [c \in {d \in Credits : Live(d)} |-> credit[c].remaining]
    OBVIOUS
  <2>2. {d \in Credits : Live(d)} = {}
    BY DEF Init, Live, LiveStatus, NoCredit
  <2>3. Total(f) = 0
    BY <2>1, <2>2, SumEmpty
  <2>. QED
    BY <2>1, <2>3 DEF Init, CreditsMatchLedger
<1>. QED
  BY <1>3, <1>4, <1>5, <1>6, <1>7, <1>8 DEF Books, LegBooks, CreditBooks

\* The books balance in every reachable state of the wallet.
THEOREM BooksHold == Spec => []Books
<1>. QED
  BY InitBooks, NextBooks, IInvHolds, PTL DEF Spec

-----------------------------------------------------------------------------
(* What the books say of the run's invariants.                             *)

\* The reserved account holds exactly what the legs of the active reservations
\* still hold, however creates, captures, extensions and releases of all
\* callers interleave: money leaves reservations only by their commands.
THEOREM ReservedIsBacked == Spec => []ReservedBacked
<1>1. IInv /\ Books => ReservedBacked
  <2>. SUFFICES ASSUME IInv, Books
                PROVE  ReservedBacked
    OBVIOUS
  <2>. DEFINE A == {r \in Reservations : Active(r)}
  <2>1. PICK f : f = [r \in Reservations |-> ReservedIn(leg[r])]
    OBVIOUS
  <2>2. ASSUME NEW r \in Reservations
        PROVE  /\ f[r] \in Int
               /\ r \notin A => f[r] = 0
    <3>1. PICK l \in [Slots -> Leg] : l = leg[r]
      BY DEF IInv, TypeOK
    <3>2. ReservedIn(l) \in Int
      BY LegSumsInt
    <3>3. ASSUME r \notin A
          PROVE  ReservedIn(l) = 0
      <4>1. PICK h : h = [s \in Slots |-> StillReserved(l[s])]
        OBVIOUS
      <4>2. h \in [Slots -> Int] /\ \A s \in Slots : h[s] = 0
        BY <3>1, <3>3, <4>1 DEF IInv, ReconciledIsEmpty
      <4>3. Total(h) = 0
        BY <4>2, FiniteDomains, SumZero
      <4>. QED
        BY <4>1, <4>3 DEF ReservedIn
    <3>. QED
      BY <2>1, <3>1, <3>2, <3>3
  <2>3. f \in [Reservations -> Int] /\ A \in SUBSET Reservations
    BY <2>1, <2>2
  <2>4. Total(f) = Total([r \in A |-> f[r]])
    <3>. HIDE DEF A
    <3>. QED
      BY <2>2, <2>3, FiniteDomains, SumSupport
  <2>5. [r \in A |-> f[r]] = [r \in A |-> LegTotal(r, StillReserved)]
    BY <2>1 DEF LegTotal, ReservedIn
  <2>6. bal.reserved = Total(f)
    BY <2>1 DEF Books, LegBooks, ReservedByLegs
  <2>. QED
    BY <2>4, <2>5, <2>6 DEF ReservedBacked
<1>. QED
  BY <1>1, IInvHolds, BooksHold, PTL

\* A reservation row, its legs and the recorded captures tell the same story:
\* a capture retried under its sequence number is applied once, in full or not
\* at all, and an extension adds to the row what it adds to the legs.
THEOREM RowsAgreeWithLegs == Spec => []RowsMatchLegs
<1>1. Books => RowsMatchLegs
  BY DEF Books, LegBooks, RowsByLegs, CapturesAddUp, RowsMatchLegs, LegTotal, AllocatedOf,
         CapturedOf, AllocatedIn, CapturedIn, CapturesIn, Recorded
<1>. QED
  BY <1>1, BooksHold, PTL

\* No command and no expiration loses or makes up a unit of a granted credit:
\* it is on the credit, held or captured by a leg, or back with the platform.
THEOREM CreditsAreConserved == Spec => []CreditConserved
<1>1. IInv /\ Books => CreditConserved
  <2>. SUFFICES ASSUME IInv, Books, NEW c \in Credits
                PROVE  credit[c].issued =
                         credit[c].remaining + credit[c].retired
                           + Total([r \in Reservations |->
                                      Leftover(r, c)
                                        + Total([b \in Batches |-> leg[r][<<b, c>>].captured])])
    BY DEF CreditConserved
  <2>1. [r \in Reservations |->
           Leftover(r, c) + Total([b \in Batches |-> leg[r][<<b, c>>].captured])]
          = [r \in Reservations |-> Owed(leg[r], c)]
    BY DEF Owed, HeldIn, SpentIn, Leftover
  <2>2. PICK x \in Int : x = Total([r \in Reservations |-> Owed(leg[r], c)])
    <3>1. leg \in [Reservations -> [Slots -> Leg]]
      BY DEF IInv, TypeOK
    <3>2. Total([r \in Reservations |-> Owed(leg[r], c)]) \in Int
      BY <3>1, SumsOverReservations
    <3>. QED
      BY <3>2
  <2>3. credit[c].issued - credit[c].remaining - credit[c].retired = x
    BY <2>2 DEF Books, CreditBooks, CreditsByLegs
  <2>4. credit[c].issued \in Int /\ credit[c].remaining \in Int /\ credit[c].retired \in Int
    BY DEF IInv, TypeOK, Credit
  <2>5. x = Total([r \in Reservations |->
                    Leftover(r, c) + Total([b \in Batches |-> leg[r][<<b, c>>].captured])])
    BY <2>1, <2>2
  <2>6. credit[c].issued = credit[c].remaining + credit[c].retired + x
    BY <2>3, <2>4
  <2>. QED
    BY <2>5, <2>6
<1>. QED
  BY <1>1, IInvHolds, BooksHold, PTL

\* Once the sweep has expired a credit nothing comes back to it: a late release
\* that would refill it is aborted by the constraint trigger on wallet_credits.
THEOREM ExpiredStaysEmpty == Spec => []ExpiredIsEmpty
<1>1. Books => ExpiredIsEmpty
  BY DEF Books, CreditBooks
<1>. QED
  BY <1>1, BooksHold, PTL

\* The live credits always add up to the granted balance, also after the
\* commands the trigger does not look at, those that write no credit.
THEOREM LedgerMatchesCredits == Spec => []CreditsMatchLedger
<1>1. Books => CreditsMatchLedger
  BY DEF Books, CreditBooks
<1>. QED
  BY <1>1, BooksHold, PTL
=============================================================================
