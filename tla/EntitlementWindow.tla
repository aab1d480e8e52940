-------------------------- MODULE EntitlementWindow --------------------------
(***************************************************************************)
(* One EntitlementWindowDO: the durable object that meters one entitlement *)
(* of one customer, and spends from a wallet reservation held in its own   *)
(* SQLite row.                                                             *)
(*                                                                         *)
(* The object is single-threaded: what runs between two awaits is one step *)
(* here.  Every wallet command is awaited, and while it is in flight other *)
(* requests and alarms run; the operations waiting for the wallet are the  *)
(* tasks.  A task reads the row when it starts and writes the row from that*)
(* reading when the wallet has answered.  Eviction loses every task and    *)
(* keeps the row; the constructor of the next instance replays what the    *)
(* row says is pending.                                                    *)
(*                                                                         *)
(* Of the wallet this module keeps what the object can observe: how much a *)
(* reservation was given and has spent, the money still available, and     *)
(* which commands are recorded with which payload.  Module Wallet has the  *)
(* rest.  How large a reservation or refill is asked for is any amount up  *)
(* to the policy's cap (module ReservationSizing has the arithmetic), and  *)
(* whether an alarm finds the window idle, ended or its flush interval     *)
(* elapsed is left open.                                                   *)
(***************************************************************************)
EXTENDS Integers

CONSTANTS
  Slots,            \* operations that may wait for the wallet at once (a bound)
  Costs,            \* priced cost of an event; a correction is negative
  Times,            \* distinct effective times a command can carry
  AlarmReasons,     \* why an alarm may close: period_close, inactivity
  Deposit,          \* money in the wallet at the start
  MaxOutstanding,   \* the policy's cap on what one window holds unspent
  MaxReservations,  \* bound: reservations opened
  MaxSeq,           \* bound: flush sequence numbers per reservation
  MaxEvents,        \* bound: events delivered
  MaxTopUps,        \* bound: units of money added later
  MaxDenials,       \* bound: closes after an event over its usage limit
  MaxDeletions,     \* bound: deletion requests
  MaxCrashes,       \* bound: evictions
  MaxFaults         \* bound: wallet calls that fail or whose answer is lost

ASSUME BoundsAssumption ==
  /\ Slots # {} /\ Costs \subseteq Int /\ Deposit \in Nat /\ MaxOutstanding \in Nat
  /\ MaxReservations \in Nat /\ MaxSeq \in Nat /\ MaxEvents \in Nat
  /\ MaxTopUps \in Nat /\ MaxDenials \in Nat /\ MaxDeletions \in Nat
  /\ MaxCrashes \in Nat /\ MaxFaults \in Nat

VARIABLES
  w,         \* the object's wallet_reservation row
  task,      \* operations waiting for the wallet, by slot
  funds,     \* wallet: money available to reserve
  rsv,       \* wallet: reservations
  captures,  \* wallet: recorded captures, by reservation and flush sequence
  extends,   \* wallet: recorded extensions
  releases,  \* wallet: recorded releases, <<reservation, close reason>>
  spent,     \* history: priced usage accepted by the object
  charged,   \* history: usage captured by the wallet
  left       \* what is left of each bound on the environment

walletVars == <<funds, rsv, captures, extends, releases, charged>>
vars == <<w, task, funds, rsv, captures, extends, releases, spent, charged, left>>

-----------------------------------------------------------------------------
Reservations == 1 .. MaxReservations
Seqs == 1 .. MaxSeq
NoReservation == 0
NotRecorded == -1

NoFlush == [seq |-> 0, amount |-> 0, refill |-> 0, final |-> FALSE]
EmptyRow ==
  [row |-> FALSE, res |-> NoReservation, alloc |-> 0, consumed |-> 0, flushed |-> 0,
   seq |-> 0, pend |-> NoFlush, inFlight |-> FALSE, recovery |-> FALSE,
   deleting |-> FALSE]

Reasons == AlarmReasons \cup {"deletion_requested", "wallet_empty", "limit_reached", "manual"}
Errors == {"failed", "conflict", "reconciled", "refused"}

\* A task: what it is, the wallet command it waits for, the wallet's answer,
\* the row it read, and what it was started with.
NoTask ==
  [kind |-> "none", call |-> "none", reply |-> "none", value |-> 0,
   snap |-> EmptyRow, seq |-> 0, amount |-> 0, refill |-> 0, at |-> 0,
   cost |-> 0, recovering |-> FALSE, reason |-> "none"]

Flush == [seq : 0 .. MaxSeq, amount : Nat, refill : 0 .. MaxOutstanding, final : BOOLEAN]
Row == [row : BOOLEAN, res : 0 .. MaxReservations, alloc : Nat, consumed : Nat,
        flushed : Nat, seq : 0 .. MaxSeq, pend : Flush, inFlight : BOOLEAN,
        recovery : BOOLEAN, deleting : BOOLEAN]
Task == [kind : {"none", "boot", "flush", "close"},
         call : {"none", "create", "capture", "extend", "release"},
         reply : {"none", "ok", "reused"} \cup Errors, value : Nat,
         snap : Row, seq : 0 .. MaxSeq, amount : Nat, refill : 0 .. MaxOutstanding,
         at : Times \cup {0}, cost : Costs \cup {0}, recovering : BOOLEAN,
         reason : Reasons \cup {"none"}]
Reservation == [status : {"none", "active", "reconciled"}, alloc : Nat, captured : Nat]
Extension == [amount : 0 .. MaxOutstanding, at : Times \cup {0},
              granted : Nat \cup {NotRecorded}]
Bounds == [events : Nat, topUps : Nat, denials : Nat, deletions : Nat,
           crashes : Nat, faults : Nat]

TypeOK ==
  /\ w \in Row
  /\ task \in [Slots -> Task]
  /\ funds \in Nat
  /\ rsv \in [Reservations -> Reservation]
  /\ captures \in [Reservations -> [Seqs -> Nat \cup {NotRecorded}]]
  /\ extends \in [Reservations -> [Seqs -> Extension]]
  /\ releases \subseteq Reservations \X Reasons
  /\ spent \in Int /\ charged \in Nat
  /\ left \in Bounds

NoExtension == [amount |-> 0, at |-> 0, granted |-> NotRecorded]

Init ==
  /\ w = EmptyRow
  /\ task = [t \in Slots |-> NoTask]
  /\ funds = Deposit
  /\ rsv = [r \in Reservations |-> [status |-> "none", alloc |-> 0, captured |-> 0]]
  /\ captures = [r \in Reservations |-> [q \in Seqs |-> NotRecorded]]
  /\ extends = [r \in Reservations |-> [q \in Seqs |-> NoExtension]]
  /\ releases = {}
  /\ spent = 0 /\ charged = 0
  /\ left = [events |-> MaxEvents, topUps |-> MaxTopUps, denials |-> MaxDenials,
             deletions |-> MaxDeletions, crashes |-> MaxCrashes, faults |-> MaxFaults]

-----------------------------------------------------------------------------
(* Reading a row x.                                                        *)

Greatest(a, b) == IF a >= b THEN a ELSE b
\* Fault: what is asked for is given, whatever is there.
Unclamped(a, b) == a
Least(a, b) == IF a <= b THEN a ELSE b

Open(x) == x.res # NoReservation
\* Fault: a flush takes what was flushed before once more.
Reflushed(x) == x.consumed
Unflushed(x) == Greatest(0, x.consumed - x.flushed)
\* Fault: usage that waits for a flush is not counted as spent.
RemainingOfFlushed(x) == Greatest(0, x.alloc - x.flushed)
Remaining(x) == Greatest(0, x.alloc - x.consumed)
SeqPending(x) == x.pend.seq > x.seq
HasPendingFlush(x) == Open(x) /\ (x.inFlight \/ SeqPending(x))
\* Refills and growth stay within the cap's room.
Refills(x) == 1 .. MaxOutstanding - Remaining(x)
Spend(x, cost) == [x EXCEPT !.consumed = @ + cost]

\* computeEffectiveWalletCost: a correction goes down to what is flushed only.
EffectiveCost(x, cost) ==
  IF cost >= 0 THEN cost ELSE Greatest(x.flushed, x.consumed + cost) - x.consumed

Idle(t) == task[t].kind = "none"
Start(t, new) == task' = [task EXCEPT ![t] = new]
Finish(t) == Start(t, NoTask)

-----------------------------------------------------------------------------
(* Starting a flush or a close: the intent goes into the row, and the task *)
(* waits for the wallet to capture.                                        *)

WithIntent(x, seq, amount, refill, final) ==
  [x EXCEPT !.inFlight = TRUE,
            !.pend = [seq |-> seq, amount |-> amount, refill |-> refill, final |-> final]]

\* Fault: a flush sent again takes what is unflushed by now.
FlushTaskOfNow(x, at, cost) ==
  [NoTask EXCEPT !.kind = "flush", !.call = "capture", !.snap = x,
                 !.seq = x.pend.seq, !.amount = Unflushed(x),
                 !.refill = x.pend.refill, !.at = at, !.cost = cost]

FlushTask(x, at, cost) ==
  [NoTask EXCEPT !.kind = "flush", !.call = "capture", !.snap = x,
                 !.seq = x.pend.seq, !.amount = x.pend.amount,
                 !.refill = x.pend.refill, !.at = at, !.cost = cost]

CloseTask(x, reason, recovering) ==
  [NoTask EXCEPT !.kind = "close", !.call = "capture", !.snap = x,
                 !.seq = x.pend.seq, !.amount = x.pend.amount,
                 !.reason = reason, !.recovering = recovering]

\* A flush of everything unflushed under the next sequence number.
FlushNow(t, x, refill, at, cost) ==
  /\ x.seq < MaxSeq
  /\ LET y == WithIntent(x, x.seq + 1, Unflushed(x), refill, FALSE)
     IN  w' = y /\ Start(t, FlushTask(y, at, cost))

\* resolveReservationClosePreconditions
RecoveringFinal(x, recover) == recover /\ x.pend.final /\ SeqPending(x)
MayClose(x, reason, recover) ==
  /\ Open(x) /\ ~x.recovery
  /\ x.deleting => reason = "deletion_requested"
  /\ HasPendingFlush(x) => RecoveringFinal(x, recover)

\* closeReservation up to its first wallet call.  A close that is deferred, or
\* finds nothing to close, leaves the row as it is.
StartClose(t, x, reason, recover) ==
  \/ /\ MayClose(x, reason, recover)
     /\ x.seq < MaxSeq
     /\ LET again == RecoveringFinal(x, recover)
            y == IF again
                 THEN WithIntent(x, x.pend.seq, x.pend.amount, 0, TRUE)
                 ELSE WithIntent(x, x.seq + 1, Unflushed(x), 0, TRUE)
        IN  w' = y /\ Start(t, CloseTask(y, reason, again))
  \/ /\ ~MayClose(x, reason, recover)
     /\ w' = x /\ Finish(t)

-----------------------------------------------------------------------------
(* Applying an event, from the local transaction on.  Slot t is the one    *)
(* the event occupies.                                                     *)

\* An event that no reservation is open for is accepted and spends nothing.
AcceptUnreserved(t, x, cost) ==
  /\ ~Open(x)
  /\ w' = x /\ spent' = spent + Greatest(0, cost) /\ Finish(t)

\* The event fits.  If no flush is in flight, a pending one is triggered again
\* as it was persisted, or the reservation may be found to need a refill.
AcceptFunded(t, x, cost, at) ==
  LET eff == EffectiveCost(x, cost)
      y == Spend(x, eff)
      retry == SeqPending(y) /\ ~y.pend.final
  IN  /\ Open(x) /\ eff <= Remaining(x)
      /\ spent' = spent + eff
      /\ \/ /\ y.inFlight \/ ~retry
            /\ w' = y /\ Finish(t)
         \/ /\ ~y.inFlight /\ retry
            /\ LET z == WithIntent(y, y.pend.seq, y.pend.amount, y.pend.refill, FALSE)
               IN  w' = z /\ Start(t, FlushTask(z, at, 0))
         \/ /\ ~y.inFlight /\ ~retry
            /\ \E refill \in Refills(y) : FlushNow(t, y, refill, at, 0)

\* Fault: growth does not look for a pending flush.
GrowsOverPending(x) ==
  ~x.recovery /\ ~x.deleting /\ ~x.inFlight /\ Refills(x) # {}

\* resolveReservationGrowthReadiness, and room under the cap
MayGrow(x) ==
  /\ ~x.recovery /\ ~x.deleting /\ ~SeqPending(x) /\ ~x.inFlight
  /\ Refills(x) # {}

\* The event does not fit and has not tried to grow the reservation yet.
GrowFirst(t, x, cost, at) ==
  /\ Open(x) /\ EffectiveCost(x, cost) > Remaining(x)
  /\ MayGrow(x)
  /\ \E refill \in Refills(x) : FlushNow(t, x, refill, at, cost)
  /\ UNCHANGED spent

\* The event is denied, WALLET_EMPTY, and the reservation closed.
DenyUnfunded(t, x, cost) ==
  /\ Open(x) /\ EffectiveCost(x, cost) > Remaining(x)
  /\ StartClose(t, x, "wallet_empty", FALSE)
  /\ UNCHANGED spent

Commit(t, x, cost, at) ==
  \/ AcceptUnreserved(t, x, cost)
  \/ AcceptFunded(t, x, cost, at)
  \/ GrowFirst(t, x, cost, at)
  \/ ~MayGrow(x) /\ DenyUnfunded(t, x, cost)

CommitAfterGrowth(t, x, cost, at) ==
  \/ AcceptUnreserved(t, x, cost)
  \/ AcceptFunded(t, x, cost, at)
  \/ DenyUnfunded(t, x, cost)

\* apply and the single path's batch of one.  Without a reservation, an event
\* with a price first asks the wallet for one; only one such request is in
\* flight, and events that meet it wait for it.
Deliver(t, cost, at) ==
  /\ Idle(t) /\ left.events > 0
  /\ left' = [left EXCEPT !.events = @ - 1]
  /\ IF ~Open(w) /\ cost > 0
     THEN /\ \A u \in Slots : task[u].kind # "boot"
          /\ \E request \in 1 .. MaxOutstanding :
               Start(t, [NoTask EXCEPT !.kind = "boot", !.call = "create",
                                       !.amount = request, !.cost = cost, !.at = at])
          /\ UNCHANGED <<w, spent>>
     ELSE Commit(t, w, cost, at)
  /\ UNCHANGED walletVars

\* An event over its usage limit is denied, LIMIT_EXCEEDED, and the reservation
\* closed.
DeliverOverLimit(t) ==
  /\ Idle(t) /\ left.denials > 0 /\ Open(w)
  /\ left' = [left EXCEPT !.denials = @ - 1]
  /\ StartClose(t, w, "limit_reached", FALSE)
  /\ UNCHANGED <<walletVars, spent>>

-----------------------------------------------------------------------------
(* The wallet's answers.  A recorded command answers as before when its    *)
(* payload is the same, and with a conflict when it is not.                *)

HeldBy(r) == rsv[r].alloc - rsv[r].captured

WalletCreate(requested, reply, r) ==
  \/ /\ rsv[r].status = "active" /\ reply = "reused"
     /\ UNCHANGED walletVars
  \/ /\ \A q \in Reservations : rsv[q].status # "active"
     /\ rsv[r].status = "none" /\ \A q \in Reservations : q < r => rsv[q].status # "none"
     /\ reply = "ok"
     /\ LET given == Least(requested, funds)
        IN  /\ rsv' = [rsv EXCEPT ![r] = [status |-> "active", alloc |-> given, captured |-> 0]]
            /\ funds' = funds - given
     /\ UNCHANGED <<captures, extends, releases, charged>>

\* Fault: a capture is not looked up before it is applied.
CaptureAgain(r, q, amount, reply) ==
  /\ rsv[r].status = "active" /\ amount <= HeldBy(r) /\ reply = "ok"
  /\ captures' = [captures EXCEPT ![r][q] = amount]
  /\ rsv' = [rsv EXCEPT ![r].captured = @ + amount]
  /\ charged' = charged + amount
  /\ UNCHANGED <<funds, extends, releases>>

WalletCapture(r, q, amount, reply) ==
  \/ /\ captures[r][q] # NotRecorded
     /\ reply = IF captures[r][q] = amount THEN "ok" ELSE "conflict"
     /\ UNCHANGED walletVars
  \/ /\ captures[r][q] = NotRecorded
     /\ \/ rsv[r].status = "reconciled" /\ reply = "reconciled"
        \/ rsv[r].status = "active" /\ amount > HeldBy(r) /\ reply = "refused"
     /\ UNCHANGED walletVars
  \/ /\ captures[r][q] = NotRecorded
     /\ rsv[r].status = "active" /\ amount <= HeldBy(r)
     /\ reply = "ok"
     /\ captures' = [captures EXCEPT ![r][q] = amount]
     /\ rsv' = [rsv EXCEPT ![r].captured = @ + amount]
     /\ charged' = charged + amount
     /\ UNCHANGED <<funds, extends, releases>>

WalletExtend(r, q, amount, at, reply, granted) ==
  \/ /\ extends[r][q].granted # NotRecorded
     /\ IF extends[r][q].amount = amount /\ extends[r][q].at = at
        THEN reply = "ok" /\ granted = extends[r][q].granted
        ELSE reply = "conflict" /\ granted = 0
     /\ UNCHANGED walletVars
  \/ /\ extends[r][q].granted = NotRecorded
     /\ rsv[r].status = "reconciled"
     /\ reply = "reconciled" /\ granted = 0
     /\ UNCHANGED walletVars
  \/ /\ extends[r][q].granted = NotRecorded
     /\ rsv[r].status = "active"
     /\ reply = "ok" /\ granted = Least(amount, funds)
     /\ extends' = [extends EXCEPT ![r][q] = [amount |-> amount, at |-> at, granted |-> granted]]
     /\ rsv' = [rsv EXCEPT ![r].alloc = @ + granted]
     /\ funds' = funds - granted
     /\ UNCHANGED <<captures, releases, charged>>

\* A reservation that never got money has no funding legs and is refused.
WalletRelease(r, reason, reply) ==
  \/ <<r, reason>> \in releases /\ reply = "ok" /\ UNCHANGED walletVars
  \/ /\ <<r, reason>> \notin releases
     /\ \/ rsv[r].status = "reconciled" /\ reply = "reconciled"
        \/ rsv[r].status = "active" /\ rsv[r].alloc = 0 /\ reply = "refused"
     /\ UNCHANGED walletVars
  \/ /\ <<r, reason>> \notin releases
     /\ rsv[r].status = "active" /\ rsv[r].alloc > 0
     /\ reply = "ok"
     /\ funds' = funds + HeldBy(r)
     /\ rsv' = [rsv EXCEPT ![r].status = "reconciled"]
     /\ releases' = releases \cup {<<r, reason>>}
     /\ UNCHANGED <<captures, extends, charged>>

\* The command task t waits for, with its answer: a reservation's number for
\* create, the granted amount for extend.
WalletCommand(t, reply, value) ==
  LET k == task[t]
  IN  \/ /\ k.call = "create" /\ value \in Reservations
         /\ WalletCreate(k.amount, reply, value)
      \/ /\ k.call = "capture" /\ value = 0
         /\ WalletCapture(k.snap.res, k.seq, k.amount, reply)
      \/ /\ k.call = "extend"
         /\ WalletExtend(k.snap.res, k.seq, k.refill, k.at, reply, value)
      \/ /\ k.call = "release" /\ value = 0
         /\ WalletRelease(k.snap.res, k.reason, reply)

Waiting(t) == task[t].call # "none" /\ task[t].reply = "none"
Answer(t, reply, value) ==
  task' = [task EXCEPT ![t].reply = reply, ![t].value = value]

Replies == {"ok", "reused", "conflict", "reconciled", "refused"}
Values == 0 .. Greatest(MaxOutstanding, MaxReservations)

WalletAnswers(t) ==
  /\ Waiting(t)
  /\ \E reply \in Replies, value \in Values :
       WalletCommand(t, reply, value) /\ Answer(t, reply, value)
  /\ UNCHANGED <<w, spent, left>>

\* The call fails and nothing is committed.
WalletFails(t) ==
  /\ Waiting(t) /\ left.faults > 0
  /\ left' = [left EXCEPT !.faults = @ - 1]
  /\ Answer(t, "failed", 0)
  /\ UNCHANGED <<walletVars, w, spent>>

\* The command commits and its answer is lost.
AnswerLost(t) ==
  /\ Waiting(t) /\ left.faults > 0
  /\ left' = [left EXCEPT !.faults = @ - 1]
  /\ \E reply \in {"ok", "reused"}, value \in Values : WalletCommand(t, reply, value)
  /\ Answer(t, "failed", 0)
  /\ UNCHANGED <<w, spent>>

TopUp ==
  /\ left.topUps > 0
  /\ left' = [left EXCEPT !.topUps = @ - 1]
  /\ funds' = funds + 1
  /\ UNCHANGED <<w, task, rsv, captures, extends, releases, spent, charged>>

-----------------------------------------------------------------------------
(* Going on with the wallet's answer.                                      *)

\* Fault: any answer will do, whichever command was answered.
AnsweredAny(t, kind, call) == task[t].kind = kind /\ task[t].reply # "none"
Answered(t, kind, call) == task[t].kind = kind /\ task[t].call = call /\ task[t].reply # "none"
Failed(t) == task[t].reply \in Errors
CallNext(t, call) ==
  task' = [task EXCEPT ![t].call = call, ![t].reply = "none", ![t].value = 0]

\* persistBootstrapReservation: a reused reservation keeps the bookkeeping of
\* the row, a fresh one starts it at zero.
Bootstrapped(x, k) ==
  LET y == [x EXCEPT !.row = TRUE, !.res = k.value, !.alloc = rsv[k.value].alloc]
  IN  IF k.reply = "reused" THEN y
      ELSE [y EXCEPT !.consumed = 0, !.flushed = 0, !.seq = 0,
                     !.pend = NoFlush, !.inFlight = FALSE]

\* The reservation is stored; an empty one denies the event, otherwise the
\* event is applied.  An error reaches the caller and changes nothing.
EndBoot(t) ==
  /\ Answered(t, "boot", "create")
  /\ LET k == task[t]
         x == Bootstrapped(w, k)
     IN  \/ Failed(t) /\ Finish(t) /\ UNCHANGED <<w, spent>>
         \/ /\ ~Failed(t) /\ x.alloc = 0
            /\ w' = x /\ Finish(t) /\ UNCHANGED spent
         \/ /\ ~Failed(t) /\ x.alloc > 0
            /\ Commit(t, x, k.cost, k.at)
  /\ UNCHANGED <<walletVars, left>>

\* Fault: the flushed amount is not moved on.
SettledUnmoved(x, seq, flushed) ==
  [x EXCEPT !.seq = seq, !.pend = NoFlush, !.inFlight = FALSE]

Settled(x, seq, flushed) ==
  [x EXCEPT !.flushed = flushed, !.seq = seq, !.pend = NoFlush, !.inFlight = FALSE]

\* A flush is over: an event that waited for it is tried again, once.
AfterFlush(t, x) ==
  IF task[t].cost = 0
  THEN w' = x /\ Finish(t) /\ UNCHANGED spent
  ELSE CommitAfterGrowth(t, x, task[t].cost, task[t].at)

\* markFlushRefillWalletError: the intent stays pending.
FlushFails(t) ==
  /\ Answered(t, "flush", "capture") \/ Answered(t, "flush", "extend")
  /\ Failed(t)
  /\ AfterFlush(t, [w EXCEPT !.inFlight = FALSE])
  /\ UNCHANGED <<walletVars, left>>

FlushExtends(t) ==
  /\ Answered(t, "flush", "capture") /\ ~Failed(t)
  /\ task[t].refill > 0
  /\ CallNext(t, "extend")
  /\ UNCHANGED <<walletVars, w, spent, left>>

\* finalizeSuccessfulFlushRefill writes from the row the flush read.
EndFlush(t) ==
  /\ \/ Answered(t, "flush", "capture") /\ task[t].refill = 0
     \/ Answered(t, "flush", "extend")
  /\ ~Failed(t)
  /\ LET k == task[t]
     IN  AfterFlush(t, [Settled(w, k.seq, k.snap.flushed + k.amount) EXCEPT
                          !.alloc = k.snap.alloc + k.value])
  /\ UNCHANGED <<walletVars, left>>

CloseReleases(t) ==
  /\ Answered(t, "close", "capture") /\ ~Failed(t)
  /\ CallNext(t, "release")
  /\ UNCHANGED <<walletVars, w, spent, left>>

AnsweredClose(t) == Answered(t, "close", "capture") \/ Answered(t, "close", "release")
FoundReconciled(t) == task[t].recovering /\ task[t].reply = "reconciled"

\* markReservationCloseWalletError: only an operator goes on from here.
CloseFails(t) ==
  /\ AnsweredClose(t) /\ Failed(t) /\ ~FoundReconciled(t)
  /\ w' = [w EXCEPT !.recovery = TRUE, !.inFlight = FALSE]
  /\ Finish(t)
  /\ UNCHANGED <<walletVars, spent, left>>

\* The alarm that closed on a deletion request deletes what is then complete.
CleanupComplete(x) == ~Open(x) /\ ~x.recovery
AfterClose(k, x) ==
  IF k.reason = "deletion_requested" /\ CleanupComplete(x) THEN EmptyRow ELSE x

\* finalizeSuccessfulReservationClose, or markReservationAlreadyReconciled.
EndClose(t) ==
  /\ \/ Answered(t, "close", "release") /\ ~Failed(t)
     \/ AnsweredClose(t) /\ FoundReconciled(t)
  /\ LET k == task[t]
         flushed == IF Failed(t) THEN Greatest(k.snap.flushed, k.snap.consumed)
                    ELSE k.snap.flushed + k.amount
     IN  w' = AfterClose(k, [Settled(w, k.seq, flushed) EXCEPT !.res = NoReservation])
  /\ Finish(t)
  /\ UNCHANGED <<walletVars, spent, left>>

-----------------------------------------------------------------------------
(* Alarms, invoicing, deletion, eviction.                                  *)

ByAlarm(t) == task[t].kind = "close" /\ task[t].reason \in AlarmReasons \cup {"deletion_requested"}

\* One alarm runs at a time.  A close it wants waits for a pending flush,
\* unless that is the final one of an earlier close.
AlarmCloses(t, reason) ==
  /\ Idle(t) /\ \A u \in Slots : ~ByAlarm(u)
  /\ reason = "deletion_requested" <=> w.deleting
  /\ MayClose(w, reason, TRUE)
  /\ StartClose(t, w, reason, TRUE)
  /\ UNCHANGED <<walletVars, spent, left>>

\* triggerTimeBasedWalletFlush: everything unflushed, under the next sequence
\* number, with no refill.  An alarm that finds a deletion requested ends with
\* the close and does not come here.
AlarmFlushes(t, at) ==
  /\ Idle(t) /\ \A u \in Slots : ~ByAlarm(u)
  /\ Open(w) /\ ~w.recovery /\ ~w.deleting /\ ~w.inFlight /\ Unflushed(w) > 0
  /\ FlushNow(t, w, 0, at, 0)
  /\ UNCHANGED <<walletVars, spent, left>>

FlushForInvoicing(t, at) ==
  /\ Idle(t)
  /\ Open(w) /\ ~w.recovery /\ ~HasPendingFlush(w) /\ Unflushed(w) > 0
  /\ FlushNow(t, w, 0, at, 0)
  /\ UNCHANGED <<walletVars, spent, left>>

RequestDeletion ==
  /\ left.deletions > 0 /\ w.row
  /\ left' = [left EXCEPT !.deletions = @ - 1]
  /\ w' = [w EXCEPT !.deleting = TRUE]
  /\ UNCHANGED <<walletVars, task, spent>>

MustRecover == Open(w) /\ ~w.recovery /\ ~w.deleting /\ SeqPending(w)

Evict(t, at) ==
  /\ left.crashes > 0
  /\ left' = [left EXCEPT !.crashes = @ - 1]
  /\ task' = [u \in Slots |->
                IF u # t \/ ~MustRecover THEN NoTask
                ELSE IF w.pend.final THEN CloseTask(w, "manual", TRUE)
                ELSE FlushTask(w, at, 0)]
  /\ w' = IF MustRecover /\ w.pend.final
          THEN WithIntent(w, w.pend.seq, w.pend.amount, 0, TRUE) ELSE w
  /\ UNCHANGED <<walletVars, spent>>

-----------------------------------------------------------------------------
Step(t) ==
  \/ \E cost \in Costs, at \in Times : Deliver(t, cost, at)
  \/ DeliverOverLimit(t)
  \/ \E reason \in AlarmReasons \cup {"deletion_requested"} : AlarmCloses(t, reason)
  \/ \E at \in Times : AlarmFlushes(t, at) \/ FlushForInvoicing(t, at) \/ Evict(t, at)

Continue(t) ==
  \/ EndBoot(t)
  \/ FlushExtends(t) \/ FlushFails(t) \/ EndFlush(t)
  \/ CloseReleases(t) \/ CloseFails(t) \/ EndClose(t)

Next ==
  \/ \E t \in Slots : Step(t) \/ Continue(t) \/ WalletAnswers(t) \/ WalletFails(t) \/ AnswerLost(t)
  \/ TopUp
  \/ RequestDeletion

Spec == Init /\ [][Next]_vars

\* The wallet answers, an answered operation goes on, and the alarm keeps
\* coming back while usage is unflushed.
FairSpec ==
  /\ Spec
  /\ \A t \in Slots :
       /\ WF_vars(WalletAnswers(t))
       /\ WF_vars(Continue(t))
       /\ WF_vars(\E at \in Times : AlarmFlushes(t, at))

-----------------------------------------------------------------------------
(* Properties.                                                             *)

\* The customer is charged for accepted usage, never more than was accepted,
\* and no charge is taken back: the flush, close and recovery paths together
\* implement the abstract UsageCharges.
Charges == INSTANCE UsageCharges WITH accrued <- spent
ChargesSpec == Charges!Spec

\* A reservation open in the wallet is the row's, or nothing was ever captured from it
\* or added to it: an eviction or a lost answer may hide a new reservation from the row,
\* and the next priced event finds it whole.  Until then its creation is on the way: no
\* close and no bootstrap leaves customer money reserved behind the window.  A deletion
\* is not meant: its close may meet another close of the same reservation.
NoFaultYet == left.faults = MaxFaults
NoEvictionYet == left.crashes = MaxCrashes
NoDeletionYet == left.deletions = MaxDeletions
FaultsOrOneEviction == NoEvictionYet \/ (left.crashes = MaxCrashes - 1 /\ NoFaultYet)
Untouched(r) ==
  \A q \in Seqs : captures[r][q] = NotRecorded /\ extends[r][q].granted = NotRecorded
TrackedByWindow ==
  NoDeletionYet =>
    \A r \in Reservations : rsv[r].status = "active" /\ w.res # r =>
      /\ Untouched(r)
      /\ NoFaultYet /\ NoEvictionYet => \E t \in Slots : task[t].kind = "boot"

\* Until a wallet call fails: when nothing is under way and nothing pending, the row
\* and the wallet agree on what the reservation was given and what was captured.
BooksAgree ==
  NoFaultYet /\ (\A t \in Slots : Idle(t)) /\ Open(w) /\ ~SeqPending(w) =>
    w.alloc = rsv[w.res].alloc /\ w.flushed = rsv[w.res].captured

\* Usage accepted but not captured yet is backed by money the reservation holds,
\* also while a capture has committed and the row does not say so: the window
\* never accepts what the wallet would refuse to capture.  One failed call or lost
\* answer does not break this, unless an over-limit denial closes the reservation too.
CapturedAhead(x) ==
  IF SeqPending(x) THEN Greatest(0, captures[x.res][x.pend.seq]) ELSE 0
FundedUsage ==
  Open(w) /\ (NoFaultYet \/ left.denials = MaxDenials) =>
    w.consumed - w.flushed - CapturedAhead(w) <= HeldBy(w.res)

\* A flush sent again, by the next event after a failed call or by the constructor after
\* an eviction, carries under its key what it carried before, whatever was accepted in
\* between, and so does a close taken up again.  The wallet finds another payload under
\* a key in two cases only: the alarm's flush, which asks for no refill, was planned over
\* a failed one and is larger, or an extension has another effective time.  Calls fail or
\* lose their answer any number of times, or the object is evicted once.  Not meant are
\* a window that waits for an operator, one evicted after a failed call or twice, and one
\* whose deletion was asked for.
LargerFlush(k) ==
  /\ k.kind = "flush" /\ k.call = "capture" /\ k.refill = 0
  /\ captures[k.snap.res][k.seq] \in 0 .. k.amount - 1
OtherTime(k) ==
  LET recorded == extends[k.snap.res][k.seq]
  IN  k.call = "extend" /\ recorded.amount = k.refill /\ recorded.at # k.at
PayloadStable ==
  FaultsOrOneEviction /\ NoDeletionYet /\ ~w.recovery =>
    \A t \in Slots :
      task[t].reply = "conflict" => LargerFlush(task[t]) \/ OtherTime(task[t])

\* Everything a reservation's usage came to has been captured when the row lets
\* go of it: the close captures the unflushed tail.
ClosedIsCaptured ==
  [][Open(w) /\ w'.res # w.res => w.consumed <= rsv[w.res].captured]_vars

=============================================================================
