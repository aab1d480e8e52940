------------------------------- MODULE Wallet -------------------------------
(***************************************************************************)
(* The wallet of one customer: the ledger balances of the customer's       *)
(* accounts, the granted credits, the entitlement reservations with their  *)
(* funding legs, the recorded commands that make retries harmless, and the *)
(* sweep that expires credits.                                             *)
(*                                                                         *)
(* Every command of WalletService runs in one database transaction that    *)
(* first takes the customer's advisory lock, so each command is one action *)
(* here.  A command that is refused, or replayed under a key that is       *)
(* already recorded, writes nothing: it is a step that changes nothing and *)
(* appears as a guard.  What interleaves is commands of different callers, *)
(* and the expiration sweep, which reads its candidates outside the lock   *)
(* and then takes the lock once per credit.  The ledger refuses to overdraw*)
(* a customer account: a command that would is rolled back as a whole.     *)
(***************************************************************************)
EXTENDS Integers, FiniteSets, FiniteSetsExt, Sums

CONSTANTS
  Windows,          \* (entitlement, period start) pairs a reservation is for
  TopUps,           \* wallet top-ups, one per provider session
  MaxCredits,       \* bound: credits ever issued
  MaxReservations,  \* bound: reservations ever opened
  MaxSeq,           \* bound: flush sequence numbers used per reservation
  MaxAmount,        \* bound: the largest amount one command asks for
  MaxFunds,         \* bound: money the customer may hold or have spent at once
  SweepLimit,       \* how many credits one run of the sweep selects
  MaxTime,          \* bound: the clock stops here
  MaxLateness       \* bound: how far an event's own time lags the clock

ASSUME BoundsAssumption ==
  /\ MaxCredits \in Nat /\ MaxReservations \in Nat /\ MaxSeq \in Nat
  /\ MaxAmount \in Nat /\ MaxFunds \in Nat /\ SweepLimit \in Nat
  /\ MaxTime \in Nat /\ MaxLateness \in Nat

VARIABLES
  bal,         \* ledger balance of the customer's accounts, in minor units
  credit,      \* wallet_credits rows
  res,         \* entitlement_reservations rows
  leg,         \* entitlement_reservation_funding_legs rows
  captureLog,  \* recorded captureReservationUsage commands and their result
  extendLog,   \* recorded extendReservation commands and their result
  topup,       \* wallet_topups rows: their status
  due,         \* what the running sweep selected and has not visited yet
  now          \* the wall clock, in coarse ticks

vars == <<bal, credit, res, leg, captureLog, extendLog, topup, due, now>>

-----------------------------------------------------------------------------
Credits == 1 .. MaxCredits            \* numbered in the order they are created
Reservations == 1 .. MaxReservations  \* numbered in the order they are opened
Seqs == 1 .. MaxSeq
Amounts == 1 .. MaxAmount
Purchased == 0                        \* the funding source that is no credit
Sources == Credits \cup {Purchased}
Never == MaxTime + 1                  \* expiresAt of a credit that never expires

\* A reservation's legs are inserted in batches: one by createReservation and
\* one by each extendReservation, at most one leg per source in a batch.
Batches == 1 .. MaxSeq + 1
Slots == Batches \X Sources

NotRecorded == -1

LiveStatus == "live"
CreditStatus == {"none", LiveStatus, "expired"}
ReservationStatus == {"none", "active", "reconciled"}
TopUpStatus == {"none", "pending", "payable", "completed", "failed"}

Credit == [status : CreditStatus, expires : 1 .. Never,
           issued : Nat, remaining : Nat, retired : Nat]
Reservation == [status : ReservationStatus, window : Windows \cup {"none"},
                allocation : Nat, consumed : Nat, batches : 0 .. MaxSeq + 1]
Leg == [allocated : Nat, captured : Nat, released : Nat]
Balances == [purchased : Nat, granted : Nat, reserved : Nat, consumed : Nat]

NoCredit == [status |-> "none", expires |-> Never,
             issued |-> 0, remaining |-> 0, retired |-> 0]
NoReservation == [status |-> "none", window |-> "none",
                  allocation |-> 0, consumed |-> 0, batches |-> 0]
NoLeg == [allocated |-> 0, captured |-> 0, released |-> 0]

TypeOK ==
  /\ bal \in Balances
  /\ credit \in [Credits -> Credit]
  /\ res \in [Reservations -> Reservation]
  /\ leg \in [Reservations -> [Slots -> Leg]]
  /\ captureLog \in [Reservations -> [Seqs -> Nat \cup {NotRecorded}]]
  /\ extendLog \in [Reservations -> [Seqs -> Nat \cup {NotRecorded}]]
  /\ topup \in [TopUps -> TopUpStatus]
  /\ due \subseteq Credits
  /\ now \in 0 .. MaxTime

Init ==
  /\ bal = [purchased |-> 0, granted |-> 0, reserved |-> 0, consumed |-> 0]
  /\ credit = [c \in Credits |-> NoCredit]
  /\ res = [r \in Reservations |-> NoReservation]
  /\ leg = [r \in Reservations |-> [s \in Slots |-> NoLeg]]
  /\ captureLog = [r \in Reservations |-> [f \in Seqs |-> NotRecorded]]
  /\ extendLog = [r \in Reservations |-> [f \in Seqs |-> NotRecorded]]
  /\ topup = [t \in TopUps |-> "none"]
  /\ due = {}
  /\ now = 0

-----------------------------------------------------------------------------
(* The first-in-first-out drain.                                           *)

\* Fault: what is asked for is taken, whatever is there.
Unclamped(a, b) == a
Least(a, b) == IF a <= b THEN a ELSE b

Live(c) == credit[c].status = LiveStatus
Active(r) == res[r].status = "active"
StillReserved(l) == l.allocated - l.captured - l.released
Held(r, c) == \E b \in Batches : StillReserved(leg[r][<<b, c>>]) > 0

\* Drain order: soonest expiry first, then creation order.
CreditBefore(c, d) ==
  \/ credit[c].expires < credit[d].expires
  \/ credit[c].expires = credit[d].expires /\ c < d

\* Leg order (their sequence): batch by batch, a batch in drain order with the
\* purchased leg last.
LegBefore(s, t) ==
  \/ s[1] < t[1]
  \/ /\ s[1] = t[1]
     /\ s[2] # Purchased
     /\ t[2] = Purchased \/ CreditBefore(s[2], t[2])

\* The ways to take up to amount from the holders of cap, in order: a holder
\* gives only when every holder before it is exhausted, and the whole amount is
\* taken unless the holders run out.  There is exactly one.
FifoTakes(cap, Before(_, _), amount) ==
  {take \in [DOMAIN cap -> 0 .. amount] :
     /\ \A x \in DOMAIN cap : take[x] <= cap[x]
     /\ \A x, y \in DOMAIN cap : (Before(x, y) /\ take[y] > 0) => take[x] = cap[x]
     /\ Total(take) = Least(amount, Total(cap))}

\* Credits drainGrantedFIFO selects for a command effective at time at.
Drainable(at) ==
  {c \in Credits : Live(c) /\ credit[c].remaining > 0 /\ credit[c].expires > at}

DrainTakes(amount, at) ==
  FifoTakes([c \in Drainable(at) |-> credit[c].remaining], CreditBefore, amount)

\* The legs of r that still hold money, and the ways to capture amount of it.
HoldingSlots(r) == {s \in Slots : StillReserved(leg[r][s]) > 0}

CaptureTakes(r, amount) ==
  FifoTakes([s \in HoldingSlots(r) |-> StillReserved(leg[r][s])], LegBefore, amount)

TakenFrom(take, x) == IF x \in DOMAIN take THEN take[x] ELSE 0

Drained(take) ==
  [c \in Credits |-> [credit[c] EXCEPT !.remaining = @ - TakenFrom(take, c)]]

\* Fault: one leg without a credit carries the whole batch.
LegsUnattributed(r, batch, take, purchased) ==
  [s \in Slots |->
     IF s[1] # batch THEN leg[r][s]
     ELSE [NoLeg EXCEPT !.allocated = IF s[2] = Purchased THEN purchased + Total(take)
                                      ELSE 0]]

\* The legs of one batch: what each credit gave, then what purchased gave.
NewLegs(r, batch, take, purchased) ==
  [s \in Slots |->
     IF s[1] # batch THEN leg[r][s]
     ELSE [NoLeg EXCEPT !.allocated = IF s[2] = Purchased THEN purchased
                                      ELSE TakenFrom(take, s[2])]]

\* Fault: the trigger adds up expired credits too.
AllCreditsMatchLedger == bal.granted = Total([c \in Credits |-> credit[c].remaining])

\* The deferred constraint trigger on wallet_credits: a transaction that wrote
\* a credit commits only if the live credits add up to the granted balance.
CreditsMatchLedger ==
  bal.granted = Total([c \in {d \in Credits : Live(d)} |-> credit[c].remaining])

EffectiveTimes == {at \in 0 .. now : at + MaxLateness >= now}
Funds == bal.purchased + bal.granted + bal.reserved + bal.consumed

-----------------------------------------------------------------------------
(* Reservations.                                                           *)

HasActive(w) == \E r \in Reservations : Active(r) /\ res[r].window = w

\* ids are handed out in order
NextReservation(r) ==
  /\ res[r].status = "none"
  /\ \A q \in Reservations : q < r => res[q].status # "none"

\* createReservation: an active reservation of the same window is handed back
\* unchanged; otherwise credits, then purchased money, back a new one.  The row
\* is inserted even when nothing could be drained, then without any leg.
CreateReservation(r, w, requested, at) ==
  /\ NextReservation(r)
  /\ ~HasActive(w)
  /\ \E take \in DrainTakes(requested, at), granted \in 0 .. requested :
       /\ granted = Total(take)
       /\ granted <= bal.granted
       /\ LET purchased == Least(requested - granted, bal.purchased)
              given == granted + purchased
          IN  /\ credit' = Drained(take)
              /\ bal' = [bal EXCEPT !.granted = @ - granted,
                                    !.purchased = @ - purchased,
                                    !.reserved = @ + given]
              /\ granted > 0 => CreditsMatchLedger'
              /\ leg' = [leg EXCEPT ![r] = NewLegs(r, 1, take, purchased)]
              /\ res' = [res EXCEPT ![r] =
                           [status |-> "active", window |-> w, allocation |-> given,
                            consumed |-> 0, batches |-> IF given > 0 THEN 1 ELSE 0]]
  /\ UNCHANGED <<captureLog, extendLog, topup, due, now>>

\* captureReservationUsage: moves amount from reserved to consumed, leg by leg,
\* all of it or nothing, and records the command.  A zero capture only records.
CaptureReservationUsage(r, seq, amount) ==
  /\ Active(r)
  /\ captureLog[r][seq] = NotRecorded
  /\ \E take \in CaptureTakes(r, amount) :
       /\ Total(take) = amount
       /\ leg' = [leg EXCEPT ![r] =
                    [s \in Slots |->
                       [leg[r][s] EXCEPT !.captured = @ + TakenFrom(take, s)]]]
  /\ amount <= bal.reserved
  /\ bal' = [bal EXCEPT !.reserved = @ - amount, !.consumed = @ + amount]
  /\ res' = [res EXCEPT ![r].consumed = @ + amount]
  /\ captureLog' = [captureLog EXCEPT ![r][seq] = amount]
  /\ UNCHANGED <<credit, extendLog, topup, due, now>>

Extended(x, given) ==
  [x EXCEPT !.allocation = @ + given, !.batches = IF given > 0 THEN @ + 1 ELSE @]

\* extendReservation: drains like createReservation into a further batch of
\* legs and records what it granted, which may be less than asked, or nothing.
ExtendReservation(r, seq, requested, at) ==
  /\ Active(r)
  /\ extendLog[r][seq] = NotRecorded
  /\ res[r].batches <= MaxSeq
  /\ \E take \in DrainTakes(requested, at), granted \in 0 .. requested :
       /\ granted = Total(take)
       /\ granted <= bal.granted
       /\ LET purchased == Least(requested - granted, bal.purchased)
              given == granted + purchased
              batch == res[r].batches + 1
          IN  /\ credit' = Drained(take)
              /\ bal' = [bal EXCEPT !.granted = @ - granted,
                                    !.purchased = @ - purchased,
                                    !.reserved = @ + given]
              /\ granted > 0 => CreditsMatchLedger'
              /\ leg' = IF given > 0
                        THEN [leg EXCEPT ![r] = NewLegs(r, batch, take, purchased)]
                        ELSE leg
              /\ res' = [res EXCEPT ![r] = Extended(res[r], given)]
              /\ extendLog' = [extendLog EXCEPT ![r][seq] = given]
  /\ UNCHANGED <<captureLog, topup, due, now>>

\* Fault: a release looks at the first batch only.
FirstLeftover(r, x) == StillReserved(leg[r][<<1, x>>])

\* What the legs of r still hold of one source.
Leftover(r, x) == Total([b \in Batches |-> StillReserved(leg[r][<<b, x>>])])

\* Leftover money back in the buckets it came from, and its legs settled.
ReturnedBalances(granted, purchased) ==
  [bal EXCEPT !.reserved = @ - granted - purchased,
              !.granted = @ + granted,
              !.purchased = @ + purchased]

ReleasedLegs(r) ==
  [s \in Slots |-> [leg[r][s] EXCEPT !.released = @ + StillReserved(leg[r][s])]]

\* releaseReservation: every leg's leftover goes back where it came from, onto
\* the credit's row whatever that row's status, and the reservation is
\* reconciled.  A reservation without legs is refused
\* (WALLET_METADATA_REQUIRED), and the trigger aborts a release that would put
\* money back on a credit no longer live.
ReleaseReservation(r) ==
  /\ Active(r)
  /\ \E s \in Slots : leg[r][s].allocated > 0
  /\ \E back \in [Sources -> 0 .. bal.reserved] :
       /\ \A x \in Sources : back[x] = Leftover(r, x)
       /\ \E granted \in 0 .. bal.reserved :
            /\ granted = Total([c \in Credits |-> back[c]])
            /\ granted + back[Purchased] <= bal.reserved
            /\ credit' = [c \in Credits |->
                            [credit[c] EXCEPT !.remaining = @ + back[c]]]
            /\ bal' = ReturnedBalances(granted, back[Purchased])
            /\ granted > 0 => CreditsMatchLedger'
  /\ leg' = [leg EXCEPT ![r] = ReleasedLegs(r)]
  /\ res' = [res EXCEPT ![r].status = "reconciled"]
  /\ UNCHANGED <<captureLog, extendLog, topup, due, now>>

-----------------------------------------------------------------------------
(* Credits, purchased money and top-ups.                                   *)

NextCredit(c) ==
  /\ credit[c].status = "none"
  /\ \A d \in Credits : d < c => credit[d].status # "none"

\* adjust, positive, granted source: one ledger transfer and one credit row.
IssueCredit(c, amount, expires) ==
  /\ NextCredit(c)
  /\ Funds + amount <= MaxFunds
  /\ credit' = [credit EXCEPT ![c] =
                  [status |-> LiveStatus, expires |-> expires, issued |-> amount,
                   remaining |-> amount, retired |-> 0]]
  /\ bal' = [bal EXCEPT !.granted = @ + amount]
  /\ CreditsMatchLedger'
  /\ UNCHANGED <<res, leg, captureLog, extendLog, topup, due, now>>

\* adjust, positive, purchased source.
AddPurchased(amount) ==
  /\ Funds + amount <= MaxFunds
  /\ bal' = [bal EXCEPT !.purchased = @ + amount]
  /\ UNCHANGED <<credit, res, leg, captureLog, extendLog, topup, due, now>>

\* adjust, negative, granted source: claws back what the live, unexpired
\* credits still hold, soonest expiry first; the rest of the amount is dropped.
ClawBackGranted(amount) ==
  /\ \E take \in DrainTakes(amount, now), drained \in 1 .. amount :
       /\ drained = Total(take)
       /\ drained <= bal.granted
       /\ credit' = [c \in Credits |->
                       [Drained(take)[c] EXCEPT !.retired = @ + TakenFrom(take, c)]]
       /\ bal' = [bal EXCEPT !.granted = @ - drained]
       /\ CreditsMatchLedger'
  /\ UNCHANGED <<res, leg, captureLog, extendLog, topup, due, now>>

\* adjust, negative, purchased source: clamped to the purchased balance.
ClawBackPurchased(amount) ==
  /\ bal.purchased > 0
  /\ bal' = [bal EXCEPT !.purchased = @ - Least(amount, bal.purchased)]
  /\ UNCHANGED <<credit, res, leg, captureLog, extendLog, topup, due, now>>

\* initiateTopup, three database writes with a provider call between the first
\* and the second; the process may stop in between and leave the row pending.
InsertTopUp(t) ==
  /\ topup[t] = "none"
  /\ topup' = [topup EXCEPT ![t] = "pending"]
  /\ UNCHANGED <<bal, credit, res, leg, captureLog, extendLog, due, now>>

\* The provider refused, or returned an empty session.
FailTopUp(t) ==
  /\ topup[t] = "pending"
  /\ topup' = [topup EXCEPT ![t] = "failed"]
  /\ UNCHANGED <<bal, credit, res, leg, captureLog, extendLog, due, now>>

\* The provider's session id is stored: the row is still pending, and payable.
StoreTopUpSession(t) ==
  /\ topup[t] = "pending"
  /\ topup' = [topup EXCEPT ![t] = "payable"]
  /\ UNCHANGED <<bal, credit, res, leg, captureLog, extendLog, due, now>>

\* settleTopUp, on a payment webhook that may be delivered again: only a row
\* found by its session and still pending is settled, with the amount paid.
SettleTopUp(t, paid) ==
  /\ topup[t] = "payable"
  /\ Funds + paid <= MaxFunds
  /\ topup' = [topup EXCEPT ![t] = "completed"]
  /\ bal' = [bal EXCEPT !.purchased = @ + paid]
  /\ UNCHANGED <<credit, res, leg, captureLog, extendLog, due, now>>

-----------------------------------------------------------------------------
(* The expiration sweep: one unlocked query, then one locked transaction   *)
(* per selected credit.                                                    *)

Overdue(c) == Live(c) /\ credit[c].expires <= now

\* The query has a limit and no order: any full-sized subset may come back.
SweepScan ==
  /\ due = {}
  /\ LET found == {c \in Credits : Overdue(c)}
     IN  /\ found # {}
         /\ due' \in kSubset(Least(SweepLimit, Cardinality(found)), found)
  /\ UNCHANGED <<bal, credit, res, leg, captureLog, extendLog, topup, now>>

\* findActiveReservationLegForGrant
HeldByActive(c) == \E r \in Reservations : Active(r) /\ Held(r, c)

\* What a credit still has returns to the platform.
Expired(x) == [x EXCEPT !.status = "expired", !.remaining = 0, !.retired = @ + x.remaining]

\* Fault: an empty credit is passed over.
EmptyIgnored(c) ==
  /\ Live(c) /\ credit[c].remaining = 0
  /\ UNCHANGED <<bal, credit>>

\* A credit with nothing remaining is stamped expired at once.
StampEmpty(c) ==
  /\ Live(c) /\ credit[c].remaining = 0
  /\ credit' = [credit EXCEPT ![c] = Expired(@)]
  /\ UNCHANGED bal
  /\ CreditsMatchLedger'

\* expireGrant refuses while an active reservation holds money of the credit;
\* otherwise the remaining money returns to the platform.
ExpireGrant(c) ==
  /\ Live(c) /\ credit[c].remaining > 0
  /\ ~HeldByActive(c)
  /\ credit[c].remaining <= bal.granted
  /\ credit' = [credit EXCEPT ![c] = Expired(@)]
  /\ bal' = [bal EXCEPT !.granted = @ - credit[c].remaining]
  /\ CreditsMatchLedger'

SkipGrant(c) ==
  /\ ~Live(c) \/ (credit[c].remaining > 0 /\ HeldByActive(c))
  /\ UNCHANGED <<bal, credit>>

SweepOne(c) ==
  /\ c \in due
  /\ due' = due \ {c}
  /\ StampEmpty(c) \/ ExpireGrant(c) \/ SkipGrant(c)
  /\ UNCHANGED <<res, leg, captureLog, extendLog, topup, now>>

\* The job dies; the next run selects again.
SweepCrash ==
  /\ due # {}
  /\ due' = {}
  /\ UNCHANGED <<bal, credit, res, leg, captureLog, extendLog, topup, now>>

Tick ==
  /\ now < MaxTime
  /\ now' = now + 1
  /\ UNCHANGED <<bal, credit, res, leg, captureLog, extendLog, topup, due>>

-----------------------------------------------------------------------------
ReservationStep ==
  \E r \in Reservations :
    \/ \E w \in Windows, requested \in Amounts, at \in EffectiveTimes :
         CreateReservation(r, w, requested, at)
    \/ \E seq \in Seqs, amount \in 0 .. MaxAmount :
         CaptureReservationUsage(r, seq, amount)
    \/ \E seq \in Seqs, requested \in 0 .. MaxAmount, at \in EffectiveTimes :
         ExtendReservation(r, seq, requested, at)
    \/ ReleaseReservation(r)

FundingStep ==
  \/ \E amount \in Amounts :
       \/ \E c \in Credits, expires \in now + 1 .. Never : IssueCredit(c, amount, expires)
       \/ AddPurchased(amount)
       \/ ClawBackGranted(amount)
       \/ ClawBackPurchased(amount)
  \/ \E t \in TopUps :
       \/ InsertTopUp(t)
       \/ FailTopUp(t)
       \/ StoreTopUpSession(t)
       \/ \E paid \in Amounts : SettleTopUp(t, paid)

SweepStep == SweepScan \/ (\E c \in Credits : SweepOne(c))

Next == ReservationStep \/ FundingStep \/ SweepStep \/ SweepCrash \/ Tick

Spec == Init /\ [][Next]_vars

\* The sweep is a scheduled job: it scans again and again, and its runs do not
\* die before the same credit every time.
FairSpec == Spec /\ WF_vars(SweepScan) /\ \A c \in Credits : SF_vars(SweepOne(c))

-----------------------------------------------------------------------------
(* Properties.                                                             *)

LegTotal(r, Part(_)) == Total([s \in Slots |-> Part(leg[r][s])])
AllocatedOf(l) == l.allocated
CapturedOf(l) == l.captured

\* The reserved account holds exactly what the legs of the active reservations
\* still hold: no command of any caller moves one without the other.
ReservedBacked ==
  bal.reserved = Total([r \in {q \in Reservations : Active(q)} |->
                          LegTotal(r, StillReserved)])

\* What a reservation row says it was given and has spent is what its legs say,
\* and the recorded captures add up to what was spent: a capture is applied
\* once, in full or not at all, and so is an extension.
RowsMatchLegs ==
  \A r \in Reservations :
    /\ res[r].allocation = LegTotal(r, AllocatedOf)
    /\ res[r].consumed = LegTotal(r, CapturedOf)
    /\ res[r].consumed =
         Total([f \in {g \in Seqs : captureLog[r][g] # NotRecorded} |-> captureLog[r][f]])

\* Every unit of a credit is in one place: still on the credit, held by a leg,
\* captured through a leg, or returned to the platform.
CreditConserved ==
  \A c \in Credits :
    credit[c].issued =
      credit[c].remaining + credit[c].retired
        + Total([r \in Reservations |->
                   Leftover(r, c) + Total([b \in Batches |-> leg[r][<<b, c>>].captured])])

\* An expired credit has nothing left, and no later release revives it.
ExpiredIsEmpty ==
  \A c \in Credits : credit[c].status = "expired" => credit[c].remaining = 0

\* No leg spends or returns more than it was given, so no reservation does.
LegsBounded ==
  \A r \in Reservations, s \in Slots :
    leg[r][s].captured + leg[r][s].released <= leg[r][s].allocated

\* Nothing stays reserved under a reservation that was released.
ReconciledIsEmpty ==
  \A r \in Reservations : ~Active(r) => \A s \in Slots : StillReserved(leg[r][s]) = 0

\* createReservation hands back the window's active reservation, so a window
\* never has two.
OneActivePerWindow ==
  \A r, q \in Reservations :
    (Active(r) /\ Active(q) /\ res[r].window = res[q].window) => r = q

\* Reserved money never goes straight to platform funding: whatever leaves the
\* reserved account arrives in another account of the customer.
ReservedStaysWithCustomer ==
  [][bal'.reserved < bal.reserved => Funds' = Funds]_vars

\* A released reservation is history: neither its row nor its legs change.
ReconciledIsFrozen ==
  [][\A r \in Reservations :
       res[r].status = "reconciled" => res'[r] = res[r] /\ leg'[r] = leg[r]]_vars

\* A credit whose time has come, and that no active reservation holds, does not
\* stay live for good: the sweep expires it.
OverdueIsSwept ==
  \A c \in Credits : [](Overdue(c) => <>(~Live(c) \/ HeldByActive(c)))
=============================================================================
